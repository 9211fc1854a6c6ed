---------------------------- MODULE DocumentsProofs ----------------------------
(***************************************************************************)
(* Theorems about the work on documents and the process that does it: the  *)
(* artifacts, the outputs of an extraction and the catalog of tags         *)
(* (ArtifactStore), for any writers, processes, bytes and tags; the        *)
(* catalog of concepts (ConceptCatalog), for any documents, versions and   *)
(* counts; what becomes of a model's answer (ChunkTagging), whatever it    *)
(* is; the clients of the model services and the cached health             *)
(* (ModelCalls), for any concurrent requests and probes and any settings;  *)
(* the composition of the process (Application), for any environment and   *)
(* overrides; and the sections, the paragraphs, the requests and the parts *)
(* of rows that are made of a document (Preparation), for any number of    *)
(* lines of any kinds, any rows and any limits.  The texts together        *)
(* (TextsSound of MCDocuments) come last.                                  *)
(***************************************************************************)
EXTENDS MCDocuments, SequenceFacts

-----------------------------------------------------------------------------
(***************************************************************************)
(* ArtifactStore                                                           *)
(***************************************************************************)
Put == [at : {"idle", "lock", "write", "kept", "refused", "killed"}, bytes : Payloads \cup {Absent},
        process : Processes \cup {Free}, temp : BOOLEAN, rivals : SUBSET Writers, failed : BOOLEAN]

PutsTyped ==
    /\ stored \in Payloads \cup {Absent}
    /\ puts \in [Writers -> Put]
    /\ putLock \in [Processes -> Writers \cup {Free}]

\* A put, what it knows and what it has. Who writes looked when nothing was there, so that
\* what is there now comes from another process.
PutSound(w) ==
    /\ IF puts[w].at = "idle" THEN puts[w].bytes = Absent
       ELSE puts[w].bytes \in Payloads /\ puts[w].process \in Processes
    /\ puts[w].at = "write" => putLock[puts[w].process] = w
    /\ puts[w].at = "kept" => stored = puts[w].bytes
    /\ puts[w].at = "write" /\ stored # Absent => puts[w].rivals # {}
    /\ puts[w].at = "refused" /\ ~puts[w].failed =>
         stored # Absent /\ (stored = puts[w].bytes => puts[w].rivals # {})
    /\ puts[w].temp => puts[w].at \in {"write", "killed"}

\* The lock of a process is with a put of it that writes.
LockSound(p) ==
    putLock[p] # Free => puts[putLock[p]].at = "write" /\ puts[putLock[p]].process = p

\* Puts of two processes that run at once know of each other.
Rivals ==
    \A v, w \in Writers : Runs(v) /\ Runs(w) /\ puts[v].process # puts[w].process => v \in puts[w].rivals

PutsInv ==
    /\ PutsTyped
    /\ \A w \in Writers : PutSound(w)
    /\ \A p \in Processes : LockSound(p)
    /\ Rivals
    /\ stored # Absent => \E w \in Writers : puts[w].bytes = stored

\* A step of one put that was begun: what is there stays, and the others are as they were.
Moves(w) ==
    /\ puts' \in [Writers -> Put] /\ \A v \in Writers \ {w} : puts'[v] = puts[v]
    /\ puts'[w].bytes = puts[w].bytes /\ puts'[w].process = puts[w].process
    /\ puts'[w].rivals = puts[w].rivals
    /\ Runs(w) /\ (Runs(w)' => Runs(w))
    /\ putLock' \in [Processes -> Writers \cup {Free}]
    /\ \A p \in Processes \ {puts[w].process} : putLock'[p] = putLock[p]
    /\ stored' \in Payloads \cup {Absent} /\ (stored # Absent => stored' = stored)

LEMMA LockPutIs ==
    ASSUME PutsInv, NEW w \in Writers, LockPut(w)
    PROVE  /\ Moves(w) /\ stored' = stored
           /\ puts'[w].at = Looks(w) /\ puts'[w].temp = (Looks(w) = "write")
           /\ puts'[w].failed = puts[w].failed
           /\ putLock'[puts[w].process] = IF Looks(w) = "write" THEN w ELSE Free
  <1>1. puts[w].at = "lock" /\ puts[w].process \in Processes /\ puts[w] \in Put
        /\ putLock[puts[w].process] = Free
    BY DEF LockPut, PutsInv, PutSound, PutsTyped
  <1>2. Looks(w) \in {"write", "kept", "refused"}
    BY DEF Looks
  <1> DEFINE r == [puts[w] EXCEPT !.at = Looks(w), !.temp = (Looks(w) = "write")]
  <1>3. r \in Put /\ r.at = Looks(w) /\ r.temp = (Looks(w) = "write") /\ r.bytes = puts[w].bytes
        /\ r.process = puts[w].process /\ r.rivals = puts[w].rivals /\ r.failed = puts[w].failed
    BY <1>1, <1>2 DEF Put
  <1>4. puts' = [puts EXCEPT ![w] = r]
    BY <1>1 DEF LockPut, PutsInv, PutsTyped
  <1> HIDE DEF r
  <1>5. puts'[w] = r /\ puts' \in [Writers -> Put] /\ \A v \in Writers \ {w} : puts'[v] = puts[v]
    BY <1>3, <1>4 DEF PutsInv, PutsTyped
  <1>6. /\ putLock' \in [Processes -> Writers \cup {Free}]
        /\ \A p \in Processes \ {puts[w].process} : putLock'[p] = putLock[p]
        /\ putLock'[puts[w].process] = IF Looks(w) = "write" THEN w ELSE Free
    BY <1>1 DEF LockPut, PutsInv, PutsTyped
  <1> QED
    BY <1>1, <1>3, <1>5, <1>6 DEF Moves, Runs, PutEnded, LockPut, PutsInv, PutsTyped

LEMMA LinkPutIs ==
    ASSUME PutsInv, NEW w \in Writers, LinkPut(w)
    PROVE  /\ Moves(w) /\ stored' = Published(w)
           /\ puts'[w].at = (IF stored = Absent THEN "kept" ELSE "refused") /\ ~puts'[w].temp
           /\ puts'[w].failed = puts[w].failed
           /\ putLock'[puts[w].process] = Free
  <1>1. puts[w].at = "write" /\ puts[w].process \in Processes /\ puts[w] \in Put /\ puts[w].bytes \in Payloads
    BY DEF LinkPut, PutsInv, PutSound, PutsTyped
  <1> DEFINE r == [puts[w] EXCEPT !.temp = FALSE, !.at = IF stored = Absent THEN "kept" ELSE "refused"]
  <1>2. r \in Put /\ r.at = (IF stored = Absent THEN "kept" ELSE "refused") /\ ~r.temp
        /\ r.bytes = puts[w].bytes /\ r.process = puts[w].process /\ r.rivals = puts[w].rivals
        /\ r.failed = puts[w].failed
    BY <1>1 DEF Put
  <1>3. puts' = [puts EXCEPT ![w] = r]
    BY <1>1 DEF LinkPut, PutsInv, PutsTyped
  <1> HIDE DEF r
  <1>4. puts'[w] = r /\ puts' \in [Writers -> Put] /\ \A v \in Writers \ {w} : puts'[v] = puts[v]
    BY <1>2, <1>3 DEF PutsInv, PutsTyped
  <1>5. /\ putLock' \in [Processes -> Writers \cup {Free}]
        /\ \A p \in Processes \ {puts[w].process} : putLock'[p] = putLock[p]
        /\ putLock'[puts[w].process] = Free
    BY <1>1 DEF LinkPut, PutsInv, PutsTyped
  <1> QED
    BY <1>1, <1>2, <1>4, <1>5 DEF Moves, Runs, PutEnded, LinkPut, PutsInv, PutsTyped, Published

LEMMA WriteFailsIs ==
    ASSUME PutsInv, NEW w \in Writers, WriteFails(w)
    PROVE  /\ Moves(w) /\ stored' = stored
           /\ puts'[w].at = "refused" /\ ~puts'[w].temp /\ puts'[w].failed
           /\ putLock'[puts[w].process] = Free
  <1>1. puts[w].at = "write" /\ puts[w].process \in Processes /\ puts[w] \in Put
    BY DEF WriteFails, PutsInv, PutSound, PutsTyped
  <1> DEFINE r == [puts[w] EXCEPT !.temp = FALSE, !.at = "refused", !.failed = TRUE]
  <1>2. r \in Put /\ r.at = "refused" /\ ~r.temp /\ r.failed
        /\ r.bytes = puts[w].bytes /\ r.process = puts[w].process /\ r.rivals = puts[w].rivals
    BY <1>1 DEF Put
  <1>3. puts' = [puts EXCEPT ![w] = r]
    BY <1>1 DEF WriteFails, PutsInv, PutsTyped
  <1> HIDE DEF r
  <1>4. puts'[w] = r /\ puts' \in [Writers -> Put] /\ \A v \in Writers \ {w} : puts'[v] = puts[v]
    BY <1>2, <1>3 DEF PutsInv, PutsTyped
  <1>5. /\ putLock' \in [Processes -> Writers \cup {Free}]
        /\ \A p \in Processes \ {puts[w].process} : putLock'[p] = putLock[p]
        /\ putLock'[puts[w].process] = Free
    BY <1>1 DEF WriteFails, PutsInv, PutsTyped
  <1> QED
    BY <1>1, <1>2, <1>4, <1>5 DEF Moves, Runs, PutEnded, WriteFails, PutsInv, PutsTyped

\* The invariant, when a put moves, from what becomes of that put and of those that write.
LEMMA MovesSound ==
    ASSUME PutsInv, NEW w \in Writers, Moves(w), PutSound(w)', LockSound(puts[w].process)',
           \A v \in Writers \ {w} : puts[v].at = "write" =>
              /\ puts[v].process # puts[w].process
              /\ stored = Absent /\ stored' # Absent => puts[v].rivals # {},
           stored = Absent /\ stored' # Absent => stored' = puts[w].bytes
    PROVE  PutsInv'
  <1>1. puts[w].process \in Processes /\ puts[w].at \in {"lock", "write"}
    BY DEF PutsInv, PutsTyped, Put, PutSound, Moves, Runs, PutEnded
  <1>2. PutsTyped'
    BY DEF Moves, PutsTyped
  <1>3. ASSUME NEW v \in Writers \ {w}
        PROVE  PutSound(v)'
    <2>1. PutSound(v) /\ puts'[v] = puts[v]
      BY DEF PutsInv, Moves
    <2>2. puts[v].at = "write" => putLock'[puts[v].process] = v
      BY <2>1 DEF Moves, PutSound
    <2>3. puts[v].at = "kept" => stored' = puts[v].bytes
      BY <2>1, PayloadsAssumption DEF Moves, PutSound
    <2>4. puts[v].at = "write" /\ stored' # Absent => puts[v].rivals # {}
      BY <2>1 DEF Moves, PutSound
    <2>5. puts[v].at = "refused" /\ ~puts[v].failed =>
            stored' # Absent /\ (stored' = puts[v].bytes => puts[v].rivals # {})
      BY <2>1 DEF Moves, PutSound
    <2> QED
      BY <2>1, <2>2, <2>3, <2>4, <2>5 DEF PutSound
  <1>4. ASSUME NEW p \in Processes \ {puts[w].process}
        PROVE  LockSound(p)'
    <2>1. LockSound(p) /\ putLock'[p] = putLock[p]
      BY DEF PutsInv, Moves
    <2>2. putLock[p] # Free => putLock[p] \in Writers \ {w}
      BY <2>1 DEF LockSound, PutsInv, PutsTyped
    <2> QED
      BY <2>1, <2>2 DEF LockSound, Moves
  <1>5. Rivals'
    BY DEF PutsInv, Rivals, Moves, Runs, PutEnded
  <1>6. stored' # Absent => \E v \in Writers : puts'[v].bytes = stored'
    BY DEF PutsInv, Moves
  <1>7. \A v \in Writers : PutSound(v)'
    BY <1>3
  <1>8. \A p \in Processes : LockSound(p)'
    <2>1. ASSUME NEW p \in Processes, p = puts[w].process
          PROVE  LockSound(p)'
      BY <2>1 DEF LockSound, Moves
    <2> QED
      BY <1>4, <2>1
  <1> QED
    BY <1>2, <1>5, <1>6, <1>7, <1>8 DEF PutsInv

\* The other puts that write are of other processes.
LEMMA WritersApart ==
    ASSUME PutsInv, NEW w \in Writers, LockPut(w) \/ puts[w].at = "write", NEW v \in Writers \ {w},
           puts[v].at = "write"
    PROVE  puts[v].process # puts[w].process
  <1>1. putLock[puts[v].process] = v
    BY DEF PutsInv, PutSound
  <1>2. putLock[puts[w].process] \in {Free, w}
    BY DEF PutsInv, PutSound, LockPut
  <1> QED
    BY <1>1, <1>2, WritersAssumption

LEMMA LockPutSound ==
    ASSUME PutsInv, NEW w \in Writers, LockPut(w)
    PROVE  PutsInv'
  <1>1. Moves(w) /\ stored' = stored /\ puts'[w].at = Looks(w) /\ puts'[w].temp = (Looks(w) = "write")
        /\ putLock'[puts[w].process] = IF Looks(w) = "write" THEN w ELSE Free
    BY LockPutIs
  <1>2. PutSound(w) /\ puts[w].at = "lock"
    BY DEF PutsInv, LockPut
  <1>3. /\ Looks(w) = "write" <=> stored = Absent
        /\ Looks(w) = "kept" => stored = puts[w].bytes
        /\ Looks(w) = "refused" => stored # Absent /\ stored # puts[w].bytes
        /\ Looks(w) \in {"write", "kept", "refused"}
    <2>1. puts[w].bytes # Absent
      BY <1>2, PayloadsAssumption DEF PutSound
    <2> QED
      BY <2>1 DEF Looks
  <1>4. PutSound(w)'
    BY <1>1, <1>2, <1>3 DEF PutSound, Moves
  <1>5. LockSound(puts[w].process)'
    BY <1>1, <1>3 DEF LockSound, Moves
  <1> QED
    BY <1>1, <1>4, <1>5, WritersApart, MovesSound

LEMMA LinkPutSound ==
    ASSUME PutsInv, NEW w \in Writers, LinkPut(w)
    PROVE  PutsInv'
  <1>1. Moves(w) /\ stored' = Published(w)
        /\ puts'[w].at = (IF stored = Absent THEN "kept" ELSE "refused") /\ ~puts'[w].temp
        /\ putLock'[puts[w].process] = Free
    BY LinkPutIs
  <1>2. PutSound(w) /\ puts[w].at = "write" /\ Runs(w)
    BY DEF PutsInv, LinkPut, Runs, PutEnded
  <1>3. PutSound(w)'
    BY <1>1, <1>2 DEF PutSound, Moves, Published
  <1>4. LockSound(puts[w].process)'
    BY <1>1 DEF LockSound, Moves
  <1>5. ASSUME NEW v \in Writers \ {w}, puts[v].at = "write"
        PROVE  puts[v].process # puts[w].process /\ puts[v].rivals # {}
    <2>1. puts[v].process # puts[w].process
      BY <1>2, <1>5, WritersApart
    <2>2. w \in puts[v].rivals
      BY <1>2, <1>5, <2>1 DEF PutsInv, Rivals, Runs, PutEnded
    <2> QED
      BY <2>1, <2>2
  <1> QED
    BY <1>1, <1>3, <1>4, <1>5, MovesSound DEF Published

LEMMA WriteFailsSound ==
    ASSUME PutsInv, NEW w \in Writers, WriteFails(w)
    PROVE  PutsInv'
  <1>1. Moves(w) /\ stored' = stored /\ puts'[w].at = "refused" /\ ~puts'[w].temp /\ puts'[w].failed
        /\ putLock'[puts[w].process] = Free
    BY WriteFailsIs
  <1>2. PutSound(w) /\ puts[w].at = "write"
    BY DEF PutsInv, WriteFails
  <1>3. PutSound(w)'
    BY <1>1, <1>2 DEF PutSound, Moves
  <1>4. LockSound(puts[w].process)'
    BY <1>1 DEF LockSound, Moves
  <1> QED
    BY <1>1, <1>2, <1>3, <1>4, WritersApart, MovesSound

\* A put begins; those it meets in other processes learn of it.
LEMMA BeginPutSound ==
    ASSUME PutsInv, NEW w \in Writers, NEW p \in Processes, NEW bytes \in Payloads, BeginPut(w, p, bytes)
    PROVE  PutsInv'
  <1> DEFINE rivals == {v \in Writers : Runs(v) /\ puts[v].process # p}
             begun == [at |-> "lock", bytes |-> bytes, process |-> p, temp |-> FALSE,
                       rivals |-> rivals, failed |-> FALSE]
             r(v) == IF v = w THEN begun
                     ELSE IF v \in rivals THEN [puts[v] EXCEPT !.rivals = @ \cup {w}] ELSE puts[v]
  <1>1. puts[w].at = "idle" /\ puts' = [v \in Writers |-> r(v)] /\ stored' = stored /\ putLock' = putLock
    BY DEF BeginPut
  <1>2. \A v \in Writers : puts[v] \in Put
    BY DEF PutsInv, PutsTyped
  <1>3. begun \in Put
    BY DEF Put
  <1>4. ASSUME NEW v \in Writers
        PROVE  [puts[v] EXCEPT !.rivals = @ \cup {w}] \in Put
    BY <1>2 DEF Put
  <1>5. \A v \in Writers : r(v) \in Put
    BY <1>2, <1>3, <1>4
  <1>6. puts' \in [Writers -> Put] /\ puts'[w] = begun
    BY <1>1, <1>5
  <1>7. ASSUME NEW v \in Writers \ {w}
        PROVE  /\ puts'[v].at = puts[v].at /\ puts'[v].bytes = puts[v].bytes /\ puts'[v].process = puts[v].process
               /\ puts'[v].temp = puts[v].temp /\ puts'[v].failed = puts[v].failed
               /\ puts'[v].rivals = IF v \in rivals THEN puts[v].rivals \cup {w} ELSE puts[v].rivals
    BY <1>1, <1>2 DEF Put
  <1>8. PutsTyped'
    BY <1>1, <1>6 DEF PutsInv, PutsTyped
  <1>9. ASSUME NEW v \in Writers
        PROVE  PutSound(v)'
    <2>1. CASE v = w
      BY <1>6, <2>1 DEF PutSound
    <2>2. CASE v # w
      <3>1. PutSound(v)
        BY DEF PutsInv
      <3> QED
        BY <1>1, <1>7, <2>2, <3>1 DEF PutSound
    <2> QED
      BY <2>1, <2>2
  <1>10. ASSUME NEW q \in Processes
         PROVE  LockSound(q)'
    <2>1. LockSound(q) /\ putLock[q] \in Writers \cup {Free}
      BY DEF PutsInv, PutsTyped
    <2>2. putLock[q] # Free => putLock[q] \in Writers \ {w}
      BY <1>1, <2>1 DEF LockSound
    <2> QED
      BY <1>1, <1>7, <2>1, <2>2 DEF LockSound
  <1>11. Rivals'
    <2>1. ASSUME NEW v \in Writers, NEW u \in Writers, Runs(v)', Runs(u)', puts'[v].process # puts'[u].process
          PROVE  v \in puts'[u].rivals
      <3>0. puts'[w].process = p /\ puts'[w].rivals = rivals
        BY <1>6
      <3>1. CASE u = w
        <4>1. v # w
          BY <2>1, <3>1
        <4>2. Runs(v) /\ puts[v].process # p
          BY <1>7, <2>1, <3>0, <3>1, <4>1 DEF Runs, PutEnded
        <4> QED
          BY <3>0, <3>1, <4>2
      <3>2. CASE v = w /\ u # w
        <4>1. Runs(u) /\ puts[u].process # p
          BY <1>7, <2>1, <3>0, <3>2 DEF Runs, PutEnded
        <4>2. u \in rivals
          BY <4>1
        <4> QED
          BY <1>7, <3>2, <4>2
      <3>3. CASE v # w /\ u # w
        BY <1>7, <2>1, <3>3 DEF PutsInv, Rivals, Runs, PutEnded
      <3> QED
        BY <3>1, <3>2, <3>3
    <2> QED
      BY <2>1 DEF Rivals
  <1>12. stored' # Absent => \E v \in Writers : puts'[v].bytes = stored'
    <2>1. puts[w].bytes = Absent
      BY <1>1 DEF PutsInv, PutSound
    <2> QED
      BY <1>1, <1>7, <2>1 DEF PutsInv
  <1> QED
    BY <1>8, <1>9, <1>10, <1>11, <1>12 DEF PutsInv

\* A process dies: its puts do, and its lock with it.
LEMMA DiesSound ==
    ASSUME PutsInv, NEW p \in Processes, ProcessDies(p)
    PROVE  PutsInv'
  <1> DEFINE dies(w) == puts[w].process = p /\ Runs(w)
             r(w) == IF dies(w) THEN [puts[w] EXCEPT !.at = "killed"] ELSE puts[w]
  <1>1. puts' = [w \in Writers |-> r(w)] /\ putLock' = [putLock EXCEPT ![p] = Free] /\ stored' = stored
    BY DEF ProcessDies
  <1>2. ASSUME NEW w \in Writers
        PROVE  /\ puts[w] \in Put /\ puts'[w] \in Put
               /\ puts'[w].bytes = puts[w].bytes /\ puts'[w].process = puts[w].process
               /\ puts'[w].temp = puts[w].temp /\ puts'[w].failed = puts[w].failed
               /\ puts'[w].rivals = puts[w].rivals
               /\ puts'[w].at = IF dies(w) THEN "killed" ELSE puts[w].at
    <2>1. puts[w] \in Put
      BY DEF PutsInv, PutsTyped
    <2>2. [puts[w] EXCEPT !.at = "killed"] \in Put
      BY <2>1 DEF Put
    <2> QED
      BY <1>1, <2>1, <2>2 DEF Put
  <1>3. PutsTyped'
    BY <1>1, <1>2 DEF PutsInv, PutsTyped
  <1>4. ASSUME NEW w \in Writers
        PROVE  PutSound(w)'
    <2>1. /\ PutSound(w) /\ putLock \in [Processes -> Writers \cup {Free}]
          /\ LockSound(puts[w].process) \/ puts[w].at = "idle"
      BY DEF PutsInv, PutsTyped, PutSound
    <2>2. CASE dies(w)
      BY <1>1, <1>2, <2>1, <2>2 DEF PutSound, Runs, PutEnded
    <2>3. CASE ~dies(w)
      <3>1. puts[w].at = "write" => puts[w].process # p
        BY <2>3 DEF Runs, PutEnded
      <3>2. puts[w].at = "write" => putLock'[puts[w].process] = w
        BY <1>1, <2>1, <3>1 DEF PutSound
      <3> QED
        BY <1>1, <1>2, <2>1, <2>3, <3>2 DEF PutSound
    <2> QED
      BY <2>2, <2>3
  <1>5. ASSUME NEW q \in Processes
        PROVE  LockSound(q)'
    <2>1. LockSound(q) /\ putLock[q] \in Writers \cup {Free} /\ putLock'[q] = IF q = p THEN Free ELSE putLock[q]
      BY <1>1 DEF PutsInv, PutsTyped
    <2> QED
      BY <1>2, <2>1 DEF LockSound
  <1>6. Rivals'
    BY <1>2 DEF PutsInv, Rivals, Runs, PutEnded
  <1>7. stored' # Absent => \E v \in Writers : puts'[v].bytes = stored'
    BY <1>1, <1>2 DEF PutsInv
  <1> QED
    BY <1>3, <1>4, <1>5, <1>6, <1>7 DEF PutsInv

LEMMA PutsInvStep == PutsInv /\ [PutsNext]_putVars => PutsInv'
  <1>1. PutsInv /\ UNCHANGED putVars => PutsInv'
    BY DEF PutsInv, putVars, PutsTyped, PutSound, LockSound, Rivals, Runs, PutEnded
  <1> QED
    BY <1>1, BeginPutSound, LockPutSound, LinkPutSound, WriteFailsSound, DiesSound DEF PutsNext

LEMMA PutsInvMeans == PutsInv => ArtifactsKept
  <1> SUFFICES ASSUME PutsInv
               PROVE  ArtifactsKept
    OBVIOUS
  <1>1. ASSUME NEW w \in Writers
        PROVE  /\ puts[w].at = "kept" => stored = puts[w].bytes
               /\ puts[w].at = "refused" /\ stored = puts[w].bytes => puts[w].rivals # {} \/ puts[w].failed
               /\ puts[w].temp => puts[w].at \in {"write", "killed"}
    BY DEF PutsInv, PutSound
  <1>2. \A p \in Processes : putLock[p] # Free => Runs(putLock[p])
    BY DEF PutsInv, LockSound, Runs, PutEnded
  <1> QED
    BY <1>1, <1>2 DEF ArtifactsKept, PutsInv

-----------------------------------------------------------------------------
(* The outputs of an extraction.                                           *)

OutputsInv ==
    /\ document \in [at : {"idle", "extracted", "refused", "processed"},
                     fetched : SUBSET OutputNames, kept : SUBSET OutputNames]
    /\ outputs \in SUBSET OutputNames
    /\ document.kept \subseteq outputs
    /\ document.at = "idle" => document.kept = {}
    /\ document.at = "processed" => document.kept = OutputNames

LEMMA OutputsInvStep == OutputsInv /\ [DocumentNext]_documentVars => OutputsInv'
  <1> SUFFICES ASSUME OutputsInv, [DocumentNext]_documentVars
               PROVE  OutputsInv'
    OBVIOUS
  <1>1. CASE Extract
    BY <1>1 DEF Extract, OutputsInv
  <1>2. ASSUME NEW name \in OutputNames, FetchOutput(name)
        PROVE  OutputsInv'
    BY <1>2 DEF FetchOutput, OutputsInv
  <1>3. ASSUME NEW name \in OutputNames, PersistOutput(name)
        PROVE  OutputsInv'
    BY <1>3 DEF PersistOutput, OutputsInv
  <1>4. CASE UNCHANGED documentVars
    BY <1>4 DEF documentVars, OutputsInv
  <1> QED
    BY <1>1, <1>2, <1>3, <1>4 DEF DocumentNext

-----------------------------------------------------------------------------
(* The catalog of tags.                                                    *)

Add == [at : {"idle", "listed", "upserted", "read", "added"},
        listed : SUBSET Tags, tags : SUBSET Tags, read : SUBSET Tags]

AddsTyped ==
    /\ catalog \in SUBSET Tags
    /\ sidecars \in [Taggers -> SUBSET Tags]
    /\ adds \in [Taggers -> Add]

\* An add that has crossed no other is alone from its reading to its replacing, and who
\* reads later has read what it added.
AddSound(t) ==
    /\ adds[t].at \in {"upserted", "read", "added"} => sidecars[t] = adds[t].tags
    /\ t \notin crossed /\ adds[t].at = "read" =>
         adds[t].read = catalog /\ \A u \in Taggers \ {t} : adds[u].at # "read"
    /\ t \notin crossed /\ adds[t].at = "added" =>
         /\ adds[t].tags \subseteq catalog
         /\ \A u \in Taggers : adds[u].at = "read" => adds[t].tags \subseteq adds[u].read

CatalogInv == AddsTyped /\ \A t \in Taggers : AddSound(t)

\* What a step leaves of the other adds, and of its own.
AddsOnly(t, r) ==
    /\ r \in Add /\ adds'[t] = r /\ adds' \in [Taggers -> Add]
    /\ \A u \in Taggers \ {t} : adds'[u] = adds[u]

LEMMA AddsAre ==
    ASSUME AddsTyped, NEW t \in Taggers, NEW r \in Add, adds' = [adds EXCEPT ![t] = r]
    PROVE  AddsOnly(t, r)
  BY DEF AddsTyped, AddsOnly

LEMMA ListTagsSound ==
    ASSUME CatalogInv, NEW t \in Taggers, ListTags(t)
    PROVE  CatalogInv'
  <1> DEFINE r == [adds[t] EXCEPT !.at = "listed", !.listed = catalog]
  <1>1. r \in Add /\ r.at = "listed"
    BY DEF CatalogInv, AddsTyped, Add
  <1>2. adds' = [adds EXCEPT ![t] = r] /\ UNCHANGED <<catalog, sidecars, crossed>>
    BY DEF ListTags, CatalogInv, AddsTyped
  <1> HIDE DEF r
  <1>3. AddsOnly(t, r)
    BY <1>1, <1>2, AddsAre DEF CatalogInv
  <1>4. ASSUME NEW u \in Taggers
        PROVE  AddSound(u)'
    BY <1>1, <1>2, <1>3 DEF CatalogInv, AddSound, AddsOnly
  <1> QED
    BY <1>2, <1>3, <1>4 DEF CatalogInv, AddsTyped, AddsOnly

LEMMA TagAndUpsertSound ==
    ASSUME CatalogInv, NEW t \in Taggers, TagAndUpsert(t)
    PROVE  CatalogInv'
  <1>1. PICK generated \in (SUBSET Tags) \ {{}} :
          \E resolved \in [generated -> generated \cup adds[t].listed] :
            /\ adds' = [adds EXCEPT ![t].at = "upserted", ![t].tags = {resolved[tag] : tag \in generated}]
            /\ sidecars' = [sidecars EXCEPT ![t] = {resolved[tag] : tag \in generated}]
    BY DEF TagAndUpsert
  <1>2. PICK resolved \in [generated -> generated \cup adds[t].listed] :
            /\ adds' = [adds EXCEPT ![t].at = "upserted", ![t].tags = {resolved[tag] : tag \in generated}]
            /\ sidecars' = [sidecars EXCEPT ![t] = {resolved[tag] : tag \in generated}]
    BY <1>1
  <1> DEFINE tags == {resolved[tag] : tag \in generated}
             r == [adds[t] EXCEPT !.at = "upserted", !.tags = tags]
  <1>3. adds[t] \in Add
    BY DEF CatalogInv, AddsTyped
  <1>4. tags \in SUBSET Tags
    BY <1>3 DEF Add
  <1>5. adds' = [adds EXCEPT ![t] = r] /\ sidecars' = [sidecars EXCEPT ![t] = tags]
        /\ UNCHANGED <<catalog, crossed>>
    BY <1>2 DEF TagAndUpsert, CatalogInv, AddsTyped
  <1> HIDE DEF tags
  <1>6. r \in Add /\ r.at = "upserted" /\ r.tags = tags
    BY <1>3, <1>4 DEF Add
  <1> HIDE DEF r
  <1>7. AddsOnly(t, r)
    BY <1>5, <1>6, AddsAre DEF CatalogInv
  <1>8. sidecars' \in [Taggers -> SUBSET Tags] /\ sidecars'[t] = tags
        /\ \A u \in Taggers \ {t} : sidecars'[u] = sidecars[u]
    BY <1>4, <1>5 DEF CatalogInv, AddsTyped
  <1>9. ASSUME NEW u \in Taggers
        PROVE  AddSound(u)'
    BY <1>5, <1>6, <1>7, <1>8 DEF CatalogInv, AddSound, AddsOnly
  <1> QED
    BY <1>5, <1>7, <1>8, <1>9 DEF CatalogInv, AddsTyped, AddsOnly

LEMMA ReadCatalogSound ==
    ASSUME CatalogInv, NEW t \in Taggers, ReadCatalog(t)
    PROVE  CatalogInv'
  <1> DEFINE r == [adds[t] EXCEPT !.at = "read", !.read = catalog]
  <1>1. r \in Add /\ r.at = "read" /\ r.read = catalog /\ r.tags = adds[t].tags
    BY DEF CatalogInv, AddsTyped, Add
  <1>2. adds' = [adds EXCEPT ![t] = r] /\ UNCHANGED <<catalog, sidecars>> /\ adds[t].at = "upserted"
    BY DEF ReadCatalog, CatalogInv, AddsTyped
  <1>3. /\ crossed \subseteq crossed'
        /\ \A u \in Taggers \ {t} : adds[u].at = "read" => u \in crossed' /\ t \in crossed'
    BY <1>2 DEF ReadCatalog
  <1> HIDE DEF r
  <1>4. AddsOnly(t, r)
    BY <1>1, <1>2, AddsAre DEF CatalogInv
  <1>5. ASSUME NEW u \in Taggers
        PROVE  AddSound(u)'
    <2>1. AddSound(u)
      BY DEF CatalogInv
    <2>2. CASE u = t
      BY <1>1, <1>2, <1>3, <1>4, <2>1, <2>2 DEF AddSound, AddsOnly
    <2>3. CASE u # t
      <3>1. adds'[u] = adds[u]
        BY <1>4, <2>3 DEF AddsOnly
      <3>2. u \notin crossed' => u \notin crossed /\ adds[u].at # "read"
        BY <1>3, <2>3
      <3> QED
        BY <1>1, <1>2, <1>4, <2>1, <3>1, <3>2 DEF AddSound, AddsOnly
    <2> QED
      BY <2>2, <2>3
  <1> QED
    BY <1>2, <1>4, <1>5 DEF CatalogInv, AddsTyped, AddsOnly

LEMMA ReplaceCatalogSound ==
    ASSUME CatalogInv, NEW t \in Taggers, ReplaceCatalog(t)
    PROVE  CatalogInv'
  <1> DEFINE r == [adds[t] EXCEPT !.at = "added"]
  <1>1. r \in Add /\ r.at = "added" /\ r.tags = adds[t].tags /\ adds[t] \in Add
    BY DEF CatalogInv, AddsTyped, Add
  <1>2. adds' = [adds EXCEPT ![t] = r] /\ UNCHANGED <<sidecars, crossed>> /\ adds[t].at = "read"
        /\ catalog' = adds[t].read \cup adds[t].tags
    BY DEF ReplaceCatalog, CatalogWith, CatalogInv, AddsTyped
  <1> HIDE DEF r
  <1>3. AddsOnly(t, r)
    BY <1>1, <1>2, AddsAre DEF CatalogInv
  <1>4. catalog' \in SUBSET Tags
    BY <1>1, <1>2 DEF Add
  <1>5. ASSUME NEW u \in Taggers
        PROVE  AddSound(u)'
    <2>1. AddSound(u)
      BY DEF CatalogInv
    <2>2. CASE u = t
      <3>1. u \notin crossed => \A v \in Taggers \ {t} : adds[v].at # "read"
        BY <1>2, <2>1, <2>2 DEF AddSound
      <3>2. u \notin crossed => \A v \in Taggers : adds'[v].at # "read"
        BY <1>1, <1>3, <3>1 DEF AddsOnly
      <3>3. adds'[u].tags = adds[u].tags /\ adds'[u].at = "added"
        BY <1>1, <1>3, <2>2 DEF AddsOnly
      <3>4. adds'[u].tags \subseteq catalog'
        BY <1>2, <2>2, <3>3
      <3> QED
        BY <1>2, <2>1, <2>2, <3>2, <3>3, <3>4 DEF AddSound
    <2>3. CASE u # t
      <3>1. adds'[u] = adds[u]
        BY <1>3, <2>3 DEF AddsOnly
      <3>2. u \notin crossed => adds[u].at # "read"
        BY <1>2, <2>1, <2>3 DEF AddSound
      <3>3. u \notin crossed /\ adds[u].at = "added" => adds[u].tags \subseteq catalog'
        BY <1>2, <2>1 DEF AddSound
      <3>4. u \notin crossed /\ adds[u].at = "added" =>
              \A v \in Taggers : adds'[v].at = "read" => adds[u].tags \subseteq adds'[v].read
        BY <1>1, <1>3, <2>1 DEF AddSound, AddsOnly
      <3> QED
        BY <1>2, <2>1, <3>1, <3>2, <3>3, <3>4 DEF AddSound
    <2> QED
      BY <2>2, <2>3
  <1> QED
    BY <1>2, <1>3, <1>4, <1>5 DEF CatalogInv, AddsTyped, AddsOnly

LEMMA CatalogInvStep == CatalogInv /\ [CatalogNext]_catalogVars => CatalogInv'
  <1>1. CatalogInv /\ UNCHANGED catalogVars => CatalogInv'
    BY DEF CatalogInv, catalogVars, AddsTyped, AddSound
  <1> QED
    BY <1>1, ListTagsSound, TagAndUpsertSound, ReadCatalogSound, ReplaceCatalogSound DEF CatalogNext

-----------------------------------------------------------------------------
(* The theorem.                                                            *)

LEMMA FilesInvInit == FilesInit => PutsInv /\ OutputsInv /\ CatalogInv
  <1> SUFFICES ASSUME FilesInit
               PROVE  PutsInv /\ OutputsInv /\ CatalogInv
    OBVIOUS
  <1>1. PutsInv
    BY DEF FilesInit, PutsInv, PutsTyped, Put, PutSound, LockSound, Rivals, Runs, PutEnded
  <1>2. OutputsInv
    BY DEF FilesInit, OutputsInv
  <1>3. CatalogInv
    BY DEF FilesInit, CatalogInv, AddsTyped, Add, AddSound
  <1> QED
    BY <1>1, <1>2, <1>3

\* What a put has kept stays, a document that was processed has its outputs, and adds that
\* did not cross have left their tags in the catalog (FilesSound of ArtifactStore).
THEOREM FilesAreSound == FilesSpec => []FilesSound
  <1> DEFINE FilesInv == PutsInv /\ OutputsInv /\ CatalogInv
  <1>1. FilesInv /\ [FilesNext]_filesVars => FilesInv'
    <2> SUFFICES ASSUME FilesInv, [FilesNext]_filesVars
                 PROVE  FilesInv'
      OBVIOUS
    <2>1. [PutsNext]_putVars /\ [DocumentNext]_documentVars /\ [CatalogNext]_catalogVars
      BY DEF FilesNext, filesVars
    <2> QED
      BY <2>1, PutsInvStep, OutputsInvStep, CatalogInvStep
  <1>2. FilesInv => FilesSound
    <2>1. OutputsInv => OutputsKept
      BY DEF OutputsInv, OutputsKept
    <2>2. CatalogInv => CatalogComplete
      BY DEF CatalogInv, AddSound, CatalogComplete
    <2> QED
      BY <2>1, <2>2, PutsInvMeans DEF FilesSound
  <1>3. FilesInit => FilesInv
    BY FilesInvInit
  <1> HIDE DEF FilesInv
  <1> QED
    BY <1>1, <1>2, <1>3, PTL DEF FilesSpec

(***************************************************************************)
(* ConceptCatalog                                                          *)
(***************************************************************************)
Underway == {"replaced", "committed"}

ConceptsTyped ==
    /\ observations \subseteq Documents \X Versions
    /\ active \in [Documents -> Versions \cup {0}]
    /\ DOMAIN work = Documents
    /\ \A d \in Documents : /\ work[d].at \in {"idle", "tagged", "replaced", "committed"}
                            /\ work[d].at # "idle" => /\ work[d].version \in Versions
                                                      /\ work[d].version > active[d]
    /\ DOMAIN vectors = Terms
    /\ failures \in Nat

\* The observations of a document.
ObservedOf(d) == {o \in observations : o[1] = d}

\* They are of the version at work as soon as it has replaced the entries, and of the
\* published version until then.
CountedInv ==
    /\ \A d \in Documents : /\ active[d] # 0 => ObservedOf(d) # {}
                            /\ work[d].at \in Underway => <<d, work[d].version>> \in observations
    /\ failures = 0 =>
          \A d \in Documents :
             ObservedOf(d) = IF work[d].at \in Underway THEN {<<d, work[d].version>>}
                             ELSE IF active[d] = 0 THEN {} ELSE {<<d, active[d]>>}

\* Events wait for the run that has committed them.
PendingInv ==
    failures = 0 =>
        \A e \in pending : \E d \in Documents : work[d].at = "committed" /\ e \in EventsOf(d)

\* One run at a time has replaced entries and is not through: what it embeds is the
\* catalog, and what it has still to apply is what the vectors lack.
VectorsInv ==
    failures = 0 /\ ~interleaved =>
        /\ \A d \in Documents : work[d].at \in Underway =>
              /\ work[d].catalog = Aggregate(observations)
              /\ \A e \in Documents \ {d} : work[e].at \notin Underway
        /\ \A d \in Documents : work[d].at = "committed" =>
              \A l \in DOMAIN Aggregate(observations) :
                 \/ vectors[l] = Aggregate(observations)[l]
                 \/ [run |-> <<d, work[d].version>>, label |-> l,
                     usage |-> Aggregate(observations)[l]] \in pending
        /\ (\A d \in Documents : work[d].at \notin Underway) =>
              \A l \in DOMAIN Aggregate(observations) : vectors[l] = Aggregate(observations)[l]

ConceptsInv == ConceptsTyped /\ CountedInv /\ PendingInv /\ VectorsInv

LEMMA AggregateTerms ==
  ASSUME NEW obs
  PROVE  DOMAIN Aggregate(obs) \subseteq Terms /\ (obs = {} => DOMAIN Aggregate(obs) = {})
  BY DEF Aggregate

LEMMA ConceptsInvInit == ConceptsInit => ConceptsInv
  <1> SUFFICES ASSUME ConceptsInit PROVE ConceptsInv
    OBVIOUS
  <1>1. /\ observations = {} /\ active = [d \in Documents |-> 0] /\ pending = {} /\ failures = 0
        /\ work = [d \in Documents |-> NoRun] /\ vectors = [l \in Terms |-> 0]
    BY DEF ConceptsInit
  <1>2. \A d \in Documents : work[d].at = "idle" /\ active[d] = 0 /\ ObservedOf(d) = {}
    BY <1>1 DEF NoRun, ObservedOf
  <1>3. ConceptsTyped
    BY <1>1, <1>2 DEF ConceptsTyped
  <1>4. CountedInv /\ PendingInv
    BY <1>1, <1>2 DEF CountedInv, PendingInv, Underway
  <1>5. VectorsInv
    BY <1>1, <1>2, AggregateTerms DEF VectorsInv, Underway
  <1> QED
    BY <1>3, <1>4, <1>5 DEF ConceptsInv

LEMMA BeginSound ==
  ASSUME ConceptsInv, NEW d \in Documents, BeginVersion(d)
  PROVE  ConceptsInv'
  <1>1. /\ work[d].at = "idle" /\ UNCHANGED <<observations, active, pending, vectors, failures, interleaved>>
    BY DEF BeginVersion
  <1>2. PICK v \in Versions : v > active[d]
                              /\ work' = [work EXCEPT ![d] = [NoRun EXCEPT !.version = v, !.at = "tagged"]]
    BY DEF BeginVersion
  <1>3. /\ DOMAIN work' = Documents /\ work'[d].at = "tagged" /\ work'[d].version = v
        /\ \A e \in Documents \ {d} : work'[e] = work[e]
    BY <1>2 DEF ConceptsInv, ConceptsTyped, NoRun
  <1>4. \A e \in Documents : /\ work'[e].at \in Underway <=> work[e].at \in Underway
                             /\ work'[e].at = "committed" <=> work[e].at = "committed"
                             /\ work[e].at \in Underway => work'[e] = work[e]
    BY <1>1, <1>3 DEF Underway
  <1>5. \A e \in Documents : work[e].at = "committed" => EventsOf(e)' = EventsOf(e)
    BY <1>4 DEF EventsOf, Underway
  <1>6. ConceptsTyped'
    BY <1>1, <1>2, <1>3 DEF ConceptsInv, ConceptsTyped
  <1>7. \A e \in Documents : ObservedOf(e)' = ObservedOf(e)
    BY <1>1 DEF ObservedOf
  <1>8. CountedInv'
    BY <1>1, <1>4, <1>7 DEF ConceptsInv, CountedInv
  <1>9. PendingInv'
    BY <1>1, <1>4, <1>5 DEF ConceptsInv, PendingInv
  <1>10. VectorsInv'
    <2>1. \A e \in Documents : work[e].at = "committed" => work[e].at \in Underway
      BY DEF Underway
    <2> QED
      BY <1>1, <1>4, <2>1 DEF ConceptsInv, VectorsInv
  <1> QED
    BY <1>6, <1>8, <1>9, <1>10 DEF ConceptsInv

LEMMA ReplaceSound ==
  ASSUME ConceptsInv, NEW d \in Documents, ReplaceEntries(d)
  PROVE  ConceptsInv'
  <1> DEFINE v == work[d].version
  <1>1. /\ work[d].at = "tagged" /\ UNCHANGED <<active, pending, vectors, failures>>
        /\ observations' = (observations \ Scopes(d)) \cup {<<d, v>>}
        /\ work' = [work EXCEPT ![d].at = "replaced", ![d].catalog = Aggregate(observations')]
        /\ interleaved' = (interleaved \/ \E e \in Documents \ {d} : work[e].at \in Underway)
    BY DEF ReplaceEntries, Underway
  <1>2. ConceptsTyped /\ CountedInv /\ PendingInv
    BY DEF ConceptsInv
  <1>3. /\ DOMAIN work' = Documents /\ work'[d].at = "replaced" /\ work'[d].version = v
        /\ work'[d].catalog = Aggregate(observations')
        /\ \A e \in Documents \ {d} : work'[e] = work[e]
    BY <1>1, <1>2 DEF ConceptsTyped
  <1>4. v \in Versions /\ v > active[d]
    BY <1>1, <1>2 DEF ConceptsTyped
  <1>5. ConceptsTyped'
    BY <1>1, <1>2, <1>3, <1>4 DEF ConceptsTyped, Scopes
  <1>6. \A e \in Documents \ {d} : ObservedOf(e)' = ObservedOf(e)
    BY <1>1 DEF ObservedOf, Scopes
  <1>7. /\ <<d, v>> \in ObservedOf(d)'
        /\ failures = 0 => ObservedOf(d)' = {<<d, v>>}
    <2>1. <<d, v>> \in ObservedOf(d)'
      BY <1>1 DEF ObservedOf
    <2>2. ASSUME failures = 0 PROVE ObservedOf(d)' = {<<d, v>>}
      <3>1. ObservedOf(d) \subseteq {<<d, active[d]>>}
        BY <1>1, <1>2, <2>2 DEF CountedInv, Underway
      <3>2. ObservedOf(d)' \subseteq (ObservedOf(d) \ Scopes(d)) \cup {<<d, v>>}
        BY <1>1 DEF ObservedOf
      <3>3. <<d, active[d]>> \in Scopes(d)
        BY DEF Scopes
      <3> QED
        BY <2>1, <3>1, <3>2, <3>3
    <2> QED
      BY <2>1, <2>2
  <1>8. CountedInv'
    <2>1. \A e \in Documents \ {d} : <<e, work[e].version>> \in observations => <<e, work[e].version>> \in observations'
      BY <1>1 DEF Scopes
    <2>2. <<d, v>> \in observations'
      BY <1>1
    <2>3. ASSUME NEW e \in Documents
          PROVE  /\ active'[e] # 0 => ObservedOf(e)' # {}
                 /\ work'[e].at \in Underway => <<e, work'[e].version>> \in observations'
                 /\ failures' = 0 =>
                      ObservedOf(e)' = IF work'[e].at \in Underway THEN {<<e, work'[e].version>>}
                                       ELSE IF active'[e] = 0 THEN {} ELSE {<<e, active'[e]>>}
      <3>1. CASE e = d
        BY <1>1, <1>3, <1>7, <2>2, <3>1 DEF Underway
      <3>2. CASE e # d
        BY <1>1, <1>2, <1>3, <1>6, <2>1, <3>2 DEF CountedInv
      <3> QED
        BY <3>1, <3>2
    <2> QED
      BY <2>3 DEF CountedInv
  <1>9. PendingInv'
    <2>1. \A e \in Documents : work[e].at = "committed" =>
             work'[e].at = "committed" /\ EventsOf(e)' = EventsOf(e)
      BY <1>1, <1>3 DEF EventsOf
    <2> QED
      BY <1>1, <1>2, <2>1 DEF PendingInv
  <1>10. VectorsInv'
    <2> SUFFICES ASSUME failures = 0, ~interleaved' PROVE VectorsInv'
      BY <1>1 DEF VectorsInv
    <2>1. \A e \in Documents \ {d} : work'[e].at \notin Underway
      BY <1>1, <1>3
    <2>2. \A e \in Documents : work'[e].at # "committed"
      BY <1>3, <2>1 DEF Underway
    <2> QED
      BY <1>3, <2>1, <2>2 DEF VectorsInv, Underway
  <1> QED
    BY <1>5, <1>8, <1>9, <1>10 DEF ConceptsInv

LEMMA CommitSound ==
  ASSUME ConceptsInv, NEW d \in Documents, CommitEntries(d)
  PROVE  ConceptsInv'
  <1>1. /\ work[d].at = "replaced" /\ UNCHANGED <<observations, active, vectors, failures, interleaved>>
        /\ pending' = pending \cup EventsOf(d) /\ work' = [work EXCEPT ![d].at = "committed"]
    BY DEF CommitEntries
  <1>2. ConceptsTyped /\ CountedInv /\ PendingInv /\ VectorsInv
    BY DEF ConceptsInv
  <1>3. /\ DOMAIN work' = Documents /\ work'[d].at = "committed"
        /\ work'[d].version = work[d].version /\ work'[d].catalog = work[d].catalog
        /\ \A e \in Documents \ {d} : work'[e] = work[e]
    BY <1>1, <1>2 DEF ConceptsTyped
  <1>4. \A e \in Documents : /\ work'[e].at \in Underway <=> work[e].at \in Underway
                             /\ work'[e].version = work[e].version /\ work'[e].catalog = work[e].catalog
                             /\ EventsOf(e)' = EventsOf(e)
    BY <1>1, <1>3 DEF Underway, EventsOf
  <1>5. ConceptsTyped'
    BY <1>1, <1>2, <1>3 DEF ConceptsTyped
  <1>6. \A e \in Documents : ObservedOf(e)' = ObservedOf(e)
    BY <1>1 DEF ObservedOf
  <1>7. CountedInv'
    BY <1>1, <1>2, <1>4, <1>6 DEF CountedInv
  <1>8. PendingInv'
    BY <1>1, <1>2, <1>3, <1>4 DEF PendingInv
  <1>9. VectorsInv'
    <2> SUFFICES ASSUME failures = 0, ~interleaved PROVE VectorsInv'
      BY <1>1 DEF VectorsInv
    <2>1. work[d].catalog = Aggregate(observations) /\ \A e \in Documents \ {d} : work[e].at \notin Underway
      BY <1>1, <1>2 DEF VectorsInv, Underway
    <2>2. \A l \in DOMAIN Aggregate(observations) :
             [run |-> <<d, work[d].version>>, label |-> l, usage |-> Aggregate(observations)[l]] \in pending'
      BY <1>1, <2>1 DEF EventsOf
    <2>3. \A e \in Documents : work'[e].at \in Underway => e = d
      BY <1>4, <2>1
    <2>4. work'[d].at \in Underway /\ \A e \in Documents : work'[e].at = "committed" => e = d
      BY <1>3, <2>3 DEF Underway
    <2> QED
      BY <1>1, <1>3, <2>1, <2>2, <2>3, <2>4 DEF VectorsInv
  <1> QED
    BY <1>5, <1>7, <1>8, <1>9 DEF ConceptsInv

LEMMA ApplySound ==
  ASSUME ConceptsInv, NEW d \in Documents, ApplyEvent(d)
  PROVE  ConceptsInv'
  <1>1. /\ work[d].at = "committed" /\ UNCHANGED <<observations, active, work, failures, interleaved>>
    BY DEF ApplyEvent
  <1>2. PICK e \in pending : /\ e.run = <<d, work[d].version>>
                             /\ vectors' = [vectors EXCEPT ![e.label] = e.usage]
                             /\ pending' = pending \ {e}
    BY DEF ApplyEvent
  <1>3. ConceptsTyped /\ CountedInv /\ PendingInv /\ VectorsInv
    BY DEF ConceptsInv
  <1>4. ConceptsTyped'
    BY <1>1, <1>2, <1>3 DEF ConceptsTyped
  <1>5. CountedInv'
    BY <1>1, <1>3 DEF CountedInv, ObservedOf
  <1>6. \A f \in Documents : EventsOf(f)' = EventsOf(f)
    BY <1>1 DEF EventsOf
  <1>7. PendingInv'
    BY <1>1, <1>2, <1>3, <1>6 DEF PendingInv
  <1>8. VectorsInv'
    <2> SUFFICES ASSUME failures = 0, ~interleaved PROVE VectorsInv'
      BY <1>1 DEF VectorsInv
    <2>1. /\ work[d].catalog = Aggregate(observations)
          /\ \A f \in Documents \ {d} : work[f].at \notin Underway
      BY <1>1, <1>3 DEF VectorsInv, Underway
    <2>2. e \in EventsOf(d)
      <3>1. PICK f \in Documents : work[f].at = "committed" /\ e \in EventsOf(f)
        BY <1>3 DEF PendingInv
      <3>2. f = d
        BY <2>1, <3>1 DEF Underway
      <3> QED
        BY <3>1, <3>2
    <2>3. PICK l \in DOMAIN Aggregate(observations) :
             e = [run |-> <<d, work[d].version>>, label |-> l, usage |-> Aggregate(observations)[l]]
      BY <2>1, <2>2 DEF EventsOf
    <2>4. e.label = l /\ e.usage = Aggregate(observations)[l] /\ l \in DOMAIN vectors
      BY <1>3, <2>3, AggregateTerms DEF ConceptsTyped
    <2>5. vectors'[l] = Aggregate(observations)[l] /\ \A m \in Terms \ {l} : vectors'[m] = vectors[m]
      BY <1>2, <1>3, <2>4 DEF ConceptsTyped
    <2>6. ASSUME NEW m \in DOMAIN Aggregate(observations)
          PROVE  \/ vectors'[m] = Aggregate(observations)[m]
                 \/ [run |-> <<d, work[d].version>>, label |-> m,
                     usage |-> Aggregate(observations)[m]] \in pending'
      <3>1. CASE m = l
        BY <2>5, <3>1
      <3>2. CASE m # l
        <4> DEFINE g == [run |-> <<d, work[d].version>>, label |-> m,
                         usage |-> Aggregate(observations)[m]]
        <4>1. vectors'[m] = vectors[m]
          BY <2>5, <3>2, AggregateTerms
        <4>2. g # e
          BY <2>4, <3>2
        <4>3. vectors[m] = Aggregate(observations)[m] \/ g \in pending
          BY <1>1, <1>3 DEF VectorsInv
        <4> QED
          BY <1>2, <4>1, <4>2, <4>3
      <3> QED
        BY <3>1, <3>2
    <2>7. work[d].at \in Underway /\ \A f \in Documents : work[f].at \in Underway => f = d
      BY <1>1, <2>1 DEF Underway
    <2>8. \A f \in Documents : work[f].at = "committed" => f = d
      BY <2>7 DEF Underway
    <2> QED
      BY <1>1, <2>1, <2>6, <2>7, <2>8 DEF VectorsInv
  <1> QED
    BY <1>4, <1>5, <1>7, <1>8 DEF ConceptsInv

LEMMA PublishSound ==
  ASSUME ConceptsInv, NEW d \in Documents, PublishVersion(d)
  PROVE  ConceptsInv'
  <1> DEFINE v == work[d].version
  <1>1. /\ work[d].at = "committed" /\ UNCHANGED <<observations, pending, vectors, failures, interleaved>>
        /\ \A e \in pending : e.run # <<d, v>>
        /\ active' = [active EXCEPT ![d] = v] /\ work' = [work EXCEPT ![d] = NoRun]
    BY DEF PublishVersion
  <1>2. ConceptsTyped /\ CountedInv /\ PendingInv /\ VectorsInv
    BY DEF ConceptsInv
  <1>3. /\ DOMAIN work' = Documents /\ work'[d].at = "idle" /\ active'[d] = v
        /\ \A e \in Documents \ {d} : work'[e] = work[e] /\ active'[e] = active[e]
    BY <1>1, <1>2 DEF ConceptsTyped, NoRun
  <1>4. v \in Versions /\ v # 0 /\ work[d].at \in Underway
    BY <1>1, <1>2, CatalogAssumption DEF ConceptsTyped, Underway
  <1>5. ConceptsTyped'
    BY <1>1, <1>2, <1>3, <1>4 DEF ConceptsTyped
  <1>6. \A e \in Documents : ObservedOf(e)' = ObservedOf(e)
    BY <1>1 DEF ObservedOf
  <1>7. CountedInv'
    <2>1. ASSUME NEW e \in Documents
          PROVE  /\ active'[e] # 0 => ObservedOf(e)' # {}
                 /\ work'[e].at \in Underway => <<e, work'[e].version>> \in observations'
                 /\ failures' = 0 =>
                      ObservedOf(e)' = IF work'[e].at \in Underway THEN {<<e, work'[e].version>>}
                                       ELSE IF active'[e] = 0 THEN {} ELSE {<<e, active'[e]>>}
      <3>1. CASE e = d
        <4>1. <<d, v>> \in ObservedOf(d)
          BY <1>2, <1>4 DEF CountedInv, ObservedOf
        <4>2. failures = 0 => ObservedOf(d) = {<<d, v>>}
          BY <1>2, <1>4 DEF CountedInv
        <4> QED
          BY <1>1, <1>3, <1>4, <1>6, <3>1, <4>1, <4>2 DEF Underway
      <3>2. CASE e # d
        BY <1>1, <1>2, <1>3, <1>6, <3>2 DEF CountedInv
      <3> QED
        BY <3>1, <3>2
    <2> QED
      BY <2>1 DEF CountedInv
  <1>8. PendingInv'
    <2> SUFFICES ASSUME failures = 0, NEW e \in pending
                 PROVE  \E f \in Documents : work'[f].at = "committed" /\ e \in EventsOf(f)'
      BY <1>1 DEF PendingInv
    <2>1. PICK f \in Documents : work[f].at = "committed" /\ e \in EventsOf(f)
      BY <1>2 DEF PendingInv
    <2>2. e.run = <<f, work[f].version>>
      BY <2>1 DEF EventsOf
    <2>3. f # d
      BY <1>1, <2>2
    <2>4. work'[f] = work[f] /\ EventsOf(f)' = EventsOf(f)
      BY <1>3, <2>3 DEF EventsOf
    <2> QED
      BY <2>1, <2>4
  <1>9. VectorsInv'
    <2> SUFFICES ASSUME failures = 0, ~interleaved PROVE VectorsInv'
      BY <1>1 DEF VectorsInv
    <2>1. \A e \in Documents \ {d} : work[e].at \notin Underway
      BY <1>2, <1>4 DEF VectorsInv
    <2>2. \A l \in DOMAIN Aggregate(observations) : vectors[l] = Aggregate(observations)[l]
      <3>1. \A l : [run |-> <<d, v>>, label |-> l, usage |-> Aggregate(observations)[l]] \notin pending
        BY <1>1
      <3> QED
        BY <1>1, <1>2, <3>1 DEF VectorsInv
    <2>3. \A e \in Documents : work'[e].at \notin Underway
      BY <1>3, <2>1 DEF Underway
    <2>4. \A e \in Documents : work'[e].at # "committed"
      BY <2>3 DEF Underway
    <2> QED
      BY <1>1, <2>2, <2>3, <2>4 DEF VectorsInv
  <1> QED
    BY <1>5, <1>7, <1>8, <1>9 DEF ConceptsInv

LEMMA RunFailsSound ==
  ASSUME ConceptsInv, NEW d \in Documents, RunFails(d)
  PROVE  ConceptsInv'
  <1>1. /\ UNCHANGED <<observations, active, pending, vectors, interleaved>>
        /\ failures' = failures + 1 /\ work' = [work EXCEPT ![d] = NoRun]
    BY DEF RunFails
  <1>2. /\ ConceptsTyped /\ CountedInv /\ failures' # 0 /\ failures' \in Nat
    BY <1>1 DEF ConceptsInv, ConceptsTyped
  <1>3. /\ DOMAIN work' = Documents /\ work'[d].at = "idle"
        /\ \A e \in Documents \ {d} : work'[e] = work[e]
    BY <1>1, <1>2 DEF ConceptsTyped, NoRun
  <1>4. ConceptsTyped'
    BY <1>1, <1>2, <1>3 DEF ConceptsTyped
  <1>5. CountedInv'
    BY <1>1, <1>2, <1>3 DEF CountedInv, ObservedOf, Underway
  <1> QED
    BY <1>2, <1>4, <1>5 DEF ConceptsInv, PendingInv, VectorsInv

LEMMA ConceptsInvStep == ConceptsInv /\ [ConceptsNext]_conceptVars => ConceptsInv'
  <1> SUFFICES ASSUME ConceptsInv, [ConceptsNext]_conceptVars PROVE ConceptsInv'
    OBVIOUS
  <1>1. CASE UNCHANGED conceptVars
    <2>1. UNCHANGED <<observations, active, work, pending, vectors, failures, interleaved>>
      BY <1>1 DEF conceptVars
    <2>2. \A d \in Documents : EventsOf(d)' = EventsOf(d) /\ ObservedOf(d)' = ObservedOf(d)
      BY <2>1 DEF EventsOf, ObservedOf
    <2> QED
      BY <2>1, <2>2 DEF ConceptsInv, ConceptsTyped, CountedInv, PendingInv, VectorsInv
  <1>2. CASE ConceptsNext
    BY <1>2, BeginSound, ReplaceSound, CommitSound, ApplySound, PublishSound, RunFailsSound
       DEF ConceptsNext
  <1> QED
    BY <1>1, <1>2

\* A catalog that is as those say agrees with what is shown.
LEMMA ConceptsHold == ConceptsInv => CatalogAgrees
  <1> SUFFICES ASSUME ConceptsInv PROVE CatalogAgrees
    OBVIOUS
  <1>1. ConceptsTyped /\ CountedInv /\ VectorsInv
    BY DEF ConceptsInv
  <1>2. ASSUME NEW d \in Documents, failures = 0
        PROVE  Cardinality({o \in observations : o[1] = d}) <= 1
    <2>1. \/ ObservedOf(d) = {} \/ \E x : ObservedOf(d) = {x}
      BY <1>1, <1>2 DEF CountedInv
    <2>2. Cardinality({}) = 0 /\ \A x : Cardinality({x}) = 1
      BY FS_EmptySet, FS_Singleton
    <2> QED
      BY <2>1, <2>2 DEF ObservedOf
  <1>3. \A d \in Documents : active[d] # 0 => \E o \in observations : o[1] = d
    BY <1>1 DEF CountedInv, ObservedOf
  <1>4. ASSUME failures = 0, Quiet PROVE observations = ShownVersions
    <2>1. \A d \in Documents : ObservedOf(d) = IF active[d] = 0 THEN {} ELSE {<<d, active[d]>>}
      BY <1>1, <1>4 DEF CountedInv, Quiet, Underway
    <2>2. \A o \in observations : o[1] \in Documents /\ o \in ObservedOf(o[1])
      BY <1>1 DEF ConceptsTyped, ObservedOf
    <2>3. observations \subseteq ShownVersions
      BY <2>1, <2>2 DEF ShownVersions
    <2>4. ShownVersions \subseteq observations
      BY <2>1 DEF ShownVersions, ObservedOf
    <2> QED
      BY <2>3, <2>4
  <1>5. VectorsAgree
    BY <1>1, <1>4 DEF VectorsAgree, VectorsInv, Quiet, Underway
  <1> QED
    BY <1>2, <1>3, <1>4, <1>5 DEF CatalogAgrees, CountedOnce

\* For any documents, versions and concepts, and whatever their counts: a published document is
\* counted, without failures once, and without failures and crossing runs every concept
\* in the catalog has a vector with its usage there (CatalogAgrees).
THEOREM CatalogIsSound == ConceptsSpec => []CatalogAgrees
  BY ConceptsHold, ConceptsInvInit, ConceptsInvStep, PTL DEF ConceptsSpec

-----------------------------------------------------------------------------
(***************************************************************************)
(* ChunkTagging                                                            *)
(***************************************************************************)

RoleNames == {"Definition", "Example"}
Triples == Paragraphs \X Concepts \X RoleNames

LEMMA RolesAre ==
    ASSUME NEW l \in Labels
    PROVE  /\ l.roles \in Seq(RoleNames) /\ Len(l.roles) \in Nat /\ DOMAIN l.roles = 1 .. Len(l.roles)
           /\ l.resolved \in Concepts /\ l.action \in Actions
  <1>1. Roles \subseteq Seq(RoleNames)
    BY DEF Roles, RoleNames
  <1>2. l.roles \in Roles /\ l.resolved \in Concepts /\ l.action \in Actions
    BY DEF Labels
  <1> QED
    BY <1>1, <1>2

LinesOf(a, p) ==
    [i \in DOMAIN a.labels[p] |->
        LET label == a.labels[p][i] IN
        [r \in DOMAIN label.roles |-> Relation(p, label, label.roles[r])]]
PartsOf(a) == [n \in DOMAIN a.refs |-> FlattenSeq(LinesOf(a, a.refs[n]))]

\* An answer that the request accepts.
Right(a) ==
    /\ a.refs \in Seq(Paragraphs) /\ Len(a.refs) = 2 /\ ToSet(a.refs) = Paragraphs
    /\ a.labels \in [Paragraphs -> Seq(Labels)]
    /\ ValidAgainst(a)

LEMMA LinesAre ==
    ASSUME NEW a, Right(a), NEW p \in Paragraphs
    PROVE  /\ LinesOf(a, p) \in Seq(Seq(Triples)) /\ Len(LinesOf(a, p)) = Len(a.labels[p])
           /\ DOMAIN a.labels[p] = 1 .. Len(a.labels[p]) /\ a.labels[p] \in Seq(Labels)
           /\ \A i \in 1 .. Len(a.labels[p]) : Len(LinesOf(a, p)[i]) = Len(a.labels[p][i].roles)
           /\ \A i \in 1 .. Len(a.labels[p]) :
                 LinesOf(a, p)[i] = [r \in 1 .. Len(a.labels[p][i].roles) |->
                                           Relation(p, a.labels[p][i], a.labels[p][i].roles[r])]
  <1>1. a.labels[p] \in Seq(Labels)
    BY DEF Right
  <1> DEFINE ls == a.labels[p]
             n == Len(ls)
             Line(i) == [r \in DOMAIN ls[i].roles |-> Relation(p, ls[i], ls[i].roles[r])]
  <1>2. n \in Nat /\ DOMAIN ls = 1 .. n /\ \A i \in 1 .. n : ls[i] \in Labels
    BY <1>1
  <1>3. ASSUME NEW i \in 1 .. n
        PROVE  /\ Line(i) \in Seq(Triples) /\ Len(Line(i)) = Len(ls[i].roles)
               /\ Line(i) = [r \in 1 .. Len(ls[i].roles) |-> Relation(p, ls[i], ls[i].roles[r])]
    <2> DEFINE m == Len(ls[i].roles)
    <2>1. ls[i].roles \in Seq(RoleNames) /\ m \in Nat /\ DOMAIN ls[i].roles = 1 .. m /\ ls[i].resolved \in Concepts
      BY <1>2, RolesAre
    <2>2. \A r \in 1 .. m : ls[i].roles[r] \in RoleNames
      BY <2>1
    <2>3. \A r \in 1 .. m : Relation(p, ls[i], ls[i].roles[r]) \in Triples
      BY <2>1, <2>2 DEF Relation, Triples
    <2>4. Line(i) = [r \in 1 .. m |-> Relation(p, ls[i], ls[i].roles[r])]
      BY <2>1
    <2>5. Line(i) \in [1 .. m -> Triples]
      BY <2>3, <2>4
    <2> HIDE DEF Line
    <2> QED
      BY <2>1, <2>4, <2>5
  <1>4. LinesOf(a, p) = [i \in 1 .. n |-> Line(i)]
    BY <1>2 DEF LinesOf
  <1>5. LinesOf(a, p) \in [1 .. n -> Seq(Triples)]
    <2> HIDE DEF Line, n
    <2> QED
      BY <1>3, <1>4
  <1>6. LinesOf(a, p) \in Seq(Seq(Triples)) /\ Len(LinesOf(a, p)) = n
    BY <1>2, <1>5
  <1>7. \A i \in 1 .. n : LinesOf(a, p)[i] = Line(i)
    BY <1>4
  <1> HIDE DEF Line
  <1> QED
    BY <1>1, <1>2, <1>3, <1>6, <1>7

LEMMA PartsAre ==
    ASSUME NEW a, Right(a)
    PROVE  /\ PartsOf(a) \in Seq(Seq(Triples)) /\ Len(PartsOf(a)) = 2
           /\ \A n \in 1 .. 2 : a.refs[n] \in Paragraphs /\ PartsOf(a)[n] = FlattenSeq(LinesOf(a, a.refs[n]))
           /\ RelationsOf(a) = FlattenSeq(PartsOf(a))
  <1>1. DOMAIN a.refs = 1 .. 2 /\ \A n \in 1 .. 2 : a.refs[n] \in Paragraphs
    BY DEF Right
  <1>2. \A n \in 1 .. 2 : FlattenSeq(LinesOf(a, a.refs[n])) \in Seq(Triples)
    BY <1>1, LinesAre, FlattenIs
  <1>3. PartsOf(a) = [n \in 1 .. 2 |-> FlattenSeq(LinesOf(a, a.refs[n]))]
    BY <1>1 DEF PartsOf
  <1>4. PartsOf(a) \in [1 .. 2 -> Seq(Triples)]
    BY <1>2, <1>3
  <1>5. PartsOf(a) \in Seq(Seq(Triples)) /\ Len(PartsOf(a)) = 2
    <2>1. \A S : \A m \in Nat : \A f \in [1 .. m -> S] : f \in Seq(S) /\ Len(f) = m
      OBVIOUS
    <2> QED
      BY <1>4, <2>1
  <1>6. RelationsOf(a) = FlattenSeq(PartsOf(a))
    BY DEF RelationsOf, PartsOf, LinesOf
  <1> QED
    BY <1>1, <1>3, <1>5, <1>6

\* A relation stands for a role of a label of a paragraph.
LEMMA RelationsHave ==
    ASSUME NEW a, Right(a), NEW x
    PROVE  x \in ToSet(RelationsOf(a)) <=>
              \E p \in Paragraphs : \E i \in 1 .. Len(a.labels[p]) : \E r \in 1 .. Len(a.labels[p][i].roles) :
                 x = Relation(p, a.labels[p][i], a.labels[p][i].roles[r])
  <1>1. x \in ToSet(RelationsOf(a)) <=> \E n \in 1 .. 2 : x \in ToSet(FlattenSeq(LinesOf(a, a.refs[n])))
    <2>1. /\ PartsOf(a) \in Seq(Seq(Triples)) /\ Len(PartsOf(a)) = 2 /\ RelationsOf(a) = FlattenSeq(PartsOf(a))
          /\ \A n \in 1 .. 2 : PartsOf(a)[n] = FlattenSeq(LinesOf(a, a.refs[n]))
      BY PartsAre
    <2>2. x \in ToSet(FlattenSeq(PartsOf(a))) <=> \E n \in 1 .. Len(PartsOf(a)) : x \in ToSet(PartsOf(a)[n])
      BY <2>1, FlattenIs
    <2> QED
      BY <2>1, <2>2
  <1>2. \A n \in 1 .. 2 : a.refs[n] \in Paragraphs
    BY PartsAre
  <1>3. ToSet(a.refs) = {a.refs[n] : n \in 1 .. 2}
    <2>1. DOMAIN a.refs = 1 .. 2
      BY DEF Right
    <2> QED
      BY <2>1 DEF ToSet
  <1>4. x \in ToSet(RelationsOf(a)) <=> \E p \in Paragraphs : x \in ToSet(FlattenSeq(LinesOf(a, p)))
    BY <1>1, <1>2, <1>3 DEF Right
  <1>5. ASSUME NEW p \in Paragraphs
        PROVE  x \in ToSet(FlattenSeq(LinesOf(a, p))) <=>
                  \E i \in 1 .. Len(a.labels[p]) : \E r \in 1 .. Len(a.labels[p][i].roles) :
                     x = Relation(p, a.labels[p][i], a.labels[p][i].roles[r])
    <2>1. x \in ToSet(FlattenSeq(LinesOf(a, p))) <=> \E i \in 1 .. Len(a.labels[p]) : x \in ToSet(LinesOf(a, p)[i])
      BY LinesAre, FlattenIs
    <2>2. \A i \in 1 .. Len(a.labels[p]) :
             x \in ToSet(LinesOf(a, p)[i]) <=>
                \E r \in 1 .. Len(a.labels[p][i].roles) : x = Relation(p, a.labels[p][i], a.labels[p][i].roles[r])
      <3> SUFFICES ASSUME NEW i \in 1 .. Len(a.labels[p])
                   PROVE  x \in ToSet(LinesOf(a, p)[i]) <=>
                             \E r \in 1 .. Len(a.labels[p][i].roles) :
                                x = Relation(p, a.labels[p][i], a.labels[p][i].roles[r])
        OBVIOUS
      <3>1. LinesOf(a, p)[i] = [r \in 1 .. Len(a.labels[p][i].roles) |->
                                   Relation(p, a.labels[p][i], a.labels[p][i].roles[r])]
        <4>1. \A j \in 1 .. Len(a.labels[p]) :
                 LinesOf(a, p)[j] = [r \in 1 .. Len(a.labels[p][j].roles) |->
                                       Relation(p, a.labels[p][j], a.labels[p][j].roles[r])]
          BY LinesAre, ZenonT(60)
        <4> QED
          BY <4>1, ZenonT(60)
      <3> QED
        BY <3>1 DEF ToSet
    <2> QED
      BY <2>1, <2>2
  <1> QED
    BY <1>4, <1>5

SumAlong(g, labels) ==
    /\ g \in [0 .. Len(labels) -> Nat]
    /\ g[0] = 0
    /\ \A k \in 1 .. Len(labels) : g[k] = g[k - 1] + Len(labels[k].roles)
    /\ FoldLeft(LAMBDA sum, l : sum + Len(l.roles), 0, labels) = g[Len(labels)]

LEMMA SumSteps ==
    ASSUME NEW labels \in Seq(Labels)
    PROVE  \E g : SumAlong(g, labels)
  <1> DEFINE n == Len(labels)
             A == Nat
             base == 0
             With(a, x) == a + Len(x.roles)
             with == [k \in 1 .. n |-> [a \in A |-> With(a, labels[k])]]
             Solves(it) == it = [t \in SUBSET (1 .. n) |->
                                    IF t = {} THEN base ELSE With(it[t \ {Max(t)}], labels[Max(t)])]
             c == CHOOSE it : Solves(it)
  <1>1. n \in Nat /\ DOMAIN labels = 1 .. n /\ \A k \in 1 .. n : labels[k] \in Labels
    OBVIOUS
  <1>2. base \in A /\ \A a \in A, x \in Labels : With(a, x) \in A
    BY RolesAre
  <1>3. with \in [1 .. n -> [A -> A]]
    BY <1>1, <1>2
  <1>4. \E it : Solves(it)
    <2>1. PICK it : FoldOf(it, A, base, n, with)
      <3> HIDE DEF base, with, n, A, With
      <3> QED
        BY <1>1, <1>2, <1>3, FoldSolution
    <2>2. ASSUME NEW t \in SUBSET (1 .. n), t # {}
          PROVE  it[t] = With(it[t \ {Max(t)}], labels[Max(t)])
      <3>1. Max(t) \in t
        <4>1. t \subseteq 0 .. n
          OBVIOUS
        <4> QED
          BY <1>1, <2>2, <4>1, Greatest
      <3>2. it[t \ {Max(t)}] \in A
        BY <2>1 DEF FoldOf
      <3> QED
        BY <2>1, <2>2, <3>1, <3>2 DEF FoldOf
    <2>3. Solves(it)
      BY <2>1, <2>2 DEF FoldOf
    <2> QED
      BY <2>3
  <1>5. Solves(c)
    <2> HIDE DEF Solves
    <2> QED
      BY <1>4
  <1>6. FoldLeft(LAMBDA sum, l : sum + Len(l.roles), 0, labels) = c[1 .. n]
    BY <1>1 DEF FoldLeft, MapThenFoldSet
  <1>7. c[{}] = base /\ \A k \in 1 .. n : c[1 .. k] = With(c[1 .. k - 1], labels[k])
    <2>1. c[{}] = base
      BY <1>5
    <2>2. ASSUME NEW k \in 1 .. n
          PROVE  c[1 .. k] = With(c[1 .. k - 1], labels[k])
      <3>1. /\ 1 .. k \in SUBSET (1 .. n) /\ 1 .. k # {}
            /\ Max(1 .. k) = k /\ (1 .. k) \ {k} = 1 .. k - 1
        BY <1>1, LastOfPrefix
      <3> HIDE DEF c
      <3> QED
        BY <1>5, <3>1
    <2> HIDE DEF c
    <2> QED
      BY <2>1, <2>2
  <1>8. Walks(c, A, base, n, with)
    <2> HIDE DEF c
    <2> QED
      BY <1>1, <1>7 DEF Walks
  <1>9. PICK g : Along(g, c, A, base, n, with)
    <2> HIDE DEF c, base, with, n, A, With
    <2> QED
      BY <1>1, <1>2, <1>3, <1>8, FoldAlong
  <1>10. \A k \in 1 .. n : g[k] = With(g[k - 1], labels[k])
    <2> SUFFICES ASSUME NEW k \in 1 .. n
                 PROVE  g[k] = With(g[k - 1], labels[k])
      OBVIOUS
    <2>1. g[k] = with[k][g[k - 1]] /\ g[k - 1] \in A
      <3>1. k - 1 \in 0 .. n
        BY <1>1
      <3> HIDE DEF with, A, n, base
      <3> QED
        BY <1>9, <3>1 DEF Along, Steps
    <2> QED
      BY <2>1
  <1>11. g \in [0 .. n -> A] /\ g[0] = base /\ g[n] = c[1 .. n]
    <2> HIDE DEF with, A, n, base, c
    <2> QED
      BY <1>9 DEF Along, Steps
  <1> HIDE DEF c
  <1> QED
    BY <1>6, <1>10, <1>11 DEF SumAlong

\* As many relations as roles.
LEMMA LinesCount ==
    ASSUME NEW a, Right(a), NEW p \in Paragraphs
    PROVE  /\ FlattenSeq(LinesOf(a, p)) \in Seq(Triples)
           /\ Len(FlattenSeq(LinesOf(a, p))) = FoldLeft(LAMBDA sum, l : sum + Len(l.roles), 0, a.labels[p])
  <1> DEFINE seqs == LinesOf(a, p)
             labels == a.labels[p]
             n == Len(labels)
  <1>1. /\ seqs \in Seq(Seq(Triples)) /\ Len(seqs) = n /\ labels \in Seq(Labels) /\ n \in Nat
        /\ \A i \in 1 .. n : Len(seqs[i]) = Len(labels[i].roles)
    <2>1. /\ seqs \in Seq(Seq(Triples)) /\ Len(seqs) = n /\ labels \in Seq(Labels)
          /\ \A i \in 1 .. n : Len(seqs[i]) = Len(labels[i].roles)
      <3>1. seqs \in Seq(Seq(Triples)) /\ Len(seqs) = n /\ labels \in Seq(Labels)
        BY LinesAre
      <3>2. \A i \in 1 .. n : Len(seqs[i]) = Len(labels[i].roles)
        <4> SUFFICES ASSUME NEW i \in 1 .. n
                     PROVE  Len(seqs[i]) = Len(labels[i].roles)
          OBVIOUS
        <4> HIDE DEF seqs, labels, n
        <4>1. i \in 1 .. Len(a.labels[p])
          BY DEF n, labels
        <4>2. Len(LinesOf(a, p)[i]) = Len(a.labels[p][i].roles)
          BY <4>1, LinesAre
        <4> QED
          BY <4>2 DEF seqs, labels
      <3> QED
        BY <3>1, <3>2
    <2> HIDE DEF seqs, labels
    <2> QED
      BY <2>1
  <1> HIDE DEF seqs, labels
  <1>2. PICK g : FlatAlong(g, Triples, seqs)
    BY <1>1, FlattenSteps
  <1>3. PICK h : SumAlong(h, labels)
    BY <1>1, SumSteps
  <1> DEFINE T == {k \in 0 .. n : Len(g[k]) = h[k]}
  <1>4. 0 \in T
    <2>1. g[0] = <<>>
      BY <1>2 DEF FlatAlong
    <2>2. h[0] = 0
      BY <1>3 DEF SumAlong
    <2> QED
      BY <1>1, <2>1, <2>2
  <1>5. ASSUME NEW k \in Nat, k < n, k \in T
        PROVE  k + 1 \in T
    <2>1. k + 1 \in 1 .. n /\ k \in 0 .. n /\ (k + 1) - 1 = k
      BY <1>1, <1>5
    <2>2. g[k + 1] = g[k] \o seqs[k + 1] /\ g[k] \in Seq(Triples) /\ seqs[k + 1] \in Seq(Triples)
      <3>1. g[k + 1] = g[(k + 1) - 1] \o seqs[k + 1]
        BY <1>1, <1>2, <2>1 DEF FlatAlong
      <3>2. g[k] \in Seq(Triples)
        BY <1>1, <1>2, <2>1 DEF FlatAlong
      <3> QED
        BY <1>1, <2>1, <3>1, <3>2
    <2>3. h[k + 1] = h[k] + Len(labels[k + 1].roles)
      <3>1. h[k + 1] = h[(k + 1) - 1] + Len(labels[k + 1].roles)
        BY <1>1, <1>3, <2>1 DEF SumAlong
      <3> QED
        BY <2>1, <3>1
    <2>4. Len(g[k + 1]) = Len(g[k]) + Len(seqs[k + 1])
      BY <2>2
    <2>5. Len(seqs[k + 1]) = Len(labels[k + 1].roles) /\ Len(g[k]) = h[k] /\ k + 1 \in 0 .. n
      BY <1>1, <1>5, <2>1
    <2> QED
      BY <2>3, <2>4, <2>5
  <1>6. n \in T
    <2> HIDE DEF T, n
    <2>1. \A k \in 0 .. n : k \in T
      BY <1>1, <1>4, <1>5, UpTo
    <2> QED
      BY <1>1, <2>1
  <1>7. FlattenSeq(seqs) = g[n] /\ g[n] \in Seq(Triples)
    BY <1>1, <1>2 DEF FlatAlong
  <1>8. FoldLeft(LAMBDA sum, l : sum + Len(l.roles), 0, labels) = h[n]
    BY <1>3 DEF SumAlong
  <1>9. Len(FlattenSeq(seqs)) = h[n]
    BY <1>6, <1>7
  <1> QED
    BY <1>7, <1>8, <1>9 DEF seqs, labels

LEMMA ParagraphsSum ==
    ASSUME NEW f \in [Paragraphs -> Nat]
    PROVE  FoldFunction(+, 0, f) = f["p1"] + f["p2"]
  <1> DEFINE S == Paragraphs
             A == Nat
             with == [x \in S |-> [a \in A |-> f[x] + a]]
             Solves(it) == it = [t \in SUBSET S |-> IF t = {} THEN 0 ELSE f[Some(t)] + it[t \ {Some(t)}]]
             c == CHOOSE it : Solves(it)
  <1>1. IsFiniteSet(S) /\ S = {"p1", "p2"} /\ DOMAIN f = S
    <2>1. IsFiniteSet({"p1", "p2"})
      <3>1. {"p1", "p2"} = {"p1"} \cup {"p2"}
        OBVIOUS
      <3>2. IsFiniteSet({"p1"})
        BY FS_Singleton
      <3>3. IsFiniteSet({"p1"} \cup {"p2"})
        BY <3>2, FS_AddElement
      <3> QED
        BY <3>1, <3>3
    <2> QED
      BY <2>1 DEF Paragraphs
  <1>2. with \in [S -> [A -> A]]
    OBVIOUS
  <1>3. \E it : Solves(it)
    <2>1. PICK it : SetFoldOf(it, A, 0, S, with)
      <3> HIDE DEF with, S
      <3> QED
        BY <1>1, <1>2, SetFoldSolution
    <2>2. ASSUME NEW t \in SUBSET S, t # {}
          PROVE  it[t] = f[Some(t)] + it[t \ {Some(t)}]
      <3>1. Some(t) \in S /\ t \ {Some(t)} \in SUBSET S
        BY <2>2 DEF Some
      <3>2. it[t \ {Some(t)}] \in A /\ it[t] = with[Some(t)][it[t \ {Some(t)}]]
        <4> HIDE DEF with, S
        <4> QED
          BY <2>1, <2>2, <3>1 DEF SetFoldOf
      <3> QED
        BY <3>1, <3>2
    <2>3. Solves(it)
      BY <2>1, <2>2 DEF SetFoldOf
    <2> QED
      BY <2>3
  <1>4. Solves(c)
    <2> HIDE DEF Solves
    <2> QED
      BY <1>3
  <1>5. FoldFunction(+, 0, f) = c[S]
    BY <1>1 DEF FoldFunction, FoldFunctionOnSet, MapThenFoldSet, Some
  <1> HIDE DEF c
  <1>6. c[{}] = 0 /\ \A t \in SUBSET S : t # {} => c[t] = f[Some(t)] + c[t \ {Some(t)}]
    BY <1>4
  <1>7. c[{"p1"}] = f["p1"] /\ c[{"p2"}] = f["p2"]
    <2> SUFFICES ASSUME NEW x \in S
                 PROVE  c[{x}] = f[x]
      BY <1>1
    <2>1. Some({x}) = x /\ {x} \ {x} = {} /\ {x} \in SUBSET S /\ f[x] \in Nat
      BY DEF Some
    <2>2. c[{x}] = f[x] + c[{}]
      BY <1>6, <2>1
    <2> QED
      BY <1>6, <2>1, <2>2
  <1>8. Some(S) \in S
    BY <1>1 DEF Some
  <1>9. c[S] = f[Some(S)] + c[S \ {Some(S)}]
    BY <1>6, <1>1
  <1>10. CASE Some(S) = "p1"
    <2>1. S \ {"p1"} = {"p2"}
      BY <1>1
    <2> QED
      BY <1>5, <1>7, <1>9, <1>10, <2>1
  <1>11. CASE Some(S) = "p2"
    <2>1. S \ {"p2"} = {"p1"}
      BY <1>1
    <2>2. f["p1"] \in Nat /\ f["p2"] \in Nat
      BY <1>1
    <2>3. FoldFunction(+, 0, f) = f["p2"] + f["p1"]
      BY <1>5, <1>7, <1>9, <1>11, <2>1
    <2>4. f["p2"] + f["p1"] = f["p1"] + f["p2"]
      BY <2>2
    <2> QED
      BY <2>3, <2>4
  <1> QED
    BY <1>1, <1>8, <1>10, <1>11

LEMMA RelationsCount ==
    ASSUME NEW a, Right(a)
    PROVE  /\ RelationsOf(a) \in Seq(Triples)
           /\ Len(RelationsOf(a))
                 = FoldFunction(+, 0, [p \in Paragraphs |->
                       FoldLeft(LAMBDA sum, l : sum + Len(l.roles), 0, a.labels[p])])
  <1> DEFINE f == [p \in Paragraphs |-> FoldLeft(LAMBDA sum, l : sum + Len(l.roles), 0, a.labels[p])]
             seqs == PartsOf(a)
  <1>1. /\ seqs \in Seq(Seq(Triples)) /\ Len(seqs) = 2 /\ RelationsOf(a) = FlattenSeq(seqs)
        /\ \A n \in 1 .. 2 : a.refs[n] \in Paragraphs /\ seqs[n] = FlattenSeq(LinesOf(a, a.refs[n]))
    BY PartsAre
  <1>2. \A p \in Paragraphs : f[p] \in Nat /\ Len(FlattenSeq(LinesOf(a, p))) = f[p]
    <2> SUFFICES ASSUME NEW p \in Paragraphs
                 PROVE  f[p] \in Nat /\ Len(FlattenSeq(LinesOf(a, p))) = f[p]
      OBVIOUS
    <2>1. /\ FlattenSeq(LinesOf(a, p)) \in Seq(Triples)
          /\ Len(FlattenSeq(LinesOf(a, p))) = f[p]
      BY LinesCount
    <2> HIDE DEF f
    <2> QED
      BY <2>1
  <1>3. FoldFunction(+, 0, f) = f["p1"] + f["p2"]
    <2>1. f \in [Paragraphs -> Nat]
      BY <1>2
    <2> HIDE DEF f
    <2> QED
      BY <2>1, ParagraphsSum
  <1> HIDE DEF seqs
  <1>4. PICK g : FlatAlong(g, Triples, seqs)
    BY <1>1, FlattenSteps
  <1>5. g[0] = <<>> /\ g[1] = g[0] \o seqs[1] /\ g[2] = g[1] \o seqs[2] /\ FlattenSeq(seqs) = g[2]
        /\ g[1] \in Seq(Triples) /\ g[2] \in Seq(Triples) /\ seqs[1] \in Seq(Triples) /\ seqs[2] \in Seq(Triples)
    <2>1. \A k \in 1 .. 2 : \A h : h = k - 1 => g[k] = g[h] \o seqs[k]
      BY <1>1, <1>4 DEF FlatAlong
    <2>2. 1 \in 1 .. 2 /\ 2 \in 1 .. 2 /\ 0 = 1 - 1 /\ 1 = 2 - 1
      OBVIOUS
    <2>3. g[1] = g[0] \o seqs[1] /\ g[2] = g[1] \o seqs[2]
      BY <2>1, <2>2, Zenon
    <2>4. g \in [0 .. 2 -> Seq(Triples)] /\ g[0] = <<>> /\ FlattenSeq(seqs) = g[2]
      BY <1>1, <1>4 DEF FlatAlong
    <2>5. seqs[1] \in Seq(Triples) /\ seqs[2] \in Seq(Triples)
      <3>1. seqs \in Seq(Seq(Triples)) /\ Len(seqs) = 2
        BY <1>1
      <3>2. \A k \in 1 .. 2 : seqs[k] \in Seq(Triples)
        BY <3>1
      <3> QED
        BY <2>2, <3>2
    <2>6. g[1] \in Seq(Triples) /\ g[2] \in Seq(Triples)
      BY <2>4
    <2> QED
      BY <2>3, <2>4, <2>5, <2>6
  <1>6. Len(g[2]) = Len(seqs[1]) + Len(seqs[2])
    BY <1>5
  <1>7. ToSet(a.refs) = {a.refs[1], a.refs[2]}
    <2>1. DOMAIN a.refs = 1 .. 2
      BY DEF Right
    <2> QED
      BY <2>1 DEF ToSet
  <1>8. (a.refs[1] = "p1" /\ a.refs[2] = "p2") \/ (a.refs[1] = "p2" /\ a.refs[2] = "p1")
    BY <1>7 DEF Right, Paragraphs
  <1>9. Len(seqs[1]) = f[a.refs[1]] /\ Len(seqs[2]) = f[a.refs[2]]
    <2>1. \A n \in 1 .. 2 : Len(seqs[n]) = f[a.refs[n]]
      <3> HIDE DEF f
      <3> QED
        BY <1>1, <1>2
    <2>2. 1 \in 1 .. 2 /\ 2 \in 1 .. 2
      OBVIOUS
    <2> HIDE DEF f
    <2> QED
      BY <2>1, <2>2
  <1>10. f["p1"] \in Nat /\ f["p2"] \in Nat
    BY <1>2 DEF Paragraphs
  <1> HIDE DEF f
  <1>11. Len(RelationsOf(a)) = f["p1"] + f["p2"]
    BY <1>1, <1>5, <1>6, <1>8, <1>9, <1>10
  <1>12. Len(RelationsOf(a)) = FoldFunction(+, 0, f)
    BY <1>3, <1>11
  <1> QED
    BY <1>1, <1>5, <1>12 DEF f

\* The rows of relations that do not repeat.
RowsAgree(rows, a) ==
    \A p \in Paragraphs, c \in Concepts :
       {row[3] : row \in {r \in rows : r[1] = p /\ r[2] = c}} = RolesOf(a.labels[p], c)

LEMMA CommittedIs ==
    ASSUME NEW a, Right(a), IsInjective(RelationsOf(a)), NEW rows, rows = ToSet(RelationsOf(a))
    PROVE  /\ RowsAgree(rows, a)
           /\ Cardinality(rows)
                 = FoldFunction(+, 0, [p \in Paragraphs |->
                       FoldLeft(LAMBDA sum, l : sum + Len(l.roles), 0, a.labels[p])])
           /\ \A row \in rows : row[2] \in Offered(row[1]) \cup ToSet(a.new)
           /\ IsFiniteSet(rows) /\ rows \subseteq Triples
  <1> DEFINE s == RelationsOf(a)
  <1>1. s \in Seq(Triples) /\ rows = ToSet(s) /\ IsInjective(s)
    BY RelationsCount
  <1>2. \A x : x \in rows <=>
              \E p \in Paragraphs : \E i \in 1 .. Len(a.labels[p]) : \E r \in 1 .. Len(a.labels[p][i].roles) :
                 x = Relation(p, a.labels[p][i], a.labels[p][i].roles[r])
    BY RelationsHave
  <1>3. Cardinality(rows) = Len(s) /\ IsFiniteSet(rows) /\ rows \subseteq Triples
    <2> HIDE DEF s
    <2>1. DOMAIN s = 1 .. Len(s) /\ Len(s) \in Nat /\ \A i \in 1 .. Len(s) : s[i] \in Triples
      BY <1>1
    <2>4. rows = {s[i] : i \in 1 .. Len(s)}
      BY <1>1, <2>1 DEF ToSet
    <2>5. rows \subseteq Triples
      BY <2>1, <2>4
    <2>2. s \in Bijection(1 .. Len(s), rows)
      <3>1. s \in [1 .. Len(s) -> rows]
        BY <1>1, <2>1, <2>4
      <3> QED
        BY <1>1, <2>1, <2>4, <3>1 DEF Bijection, Injection, Surjection, IsInjective
    <2>3. IsFiniteSet(1 .. Len(s)) /\ Cardinality(1 .. Len(s)) = Len(s)
      <3>1. 1 \in Int /\ Len(s) \in Int
        BY <2>1
      <3>2. /\ IsFiniteSet(1 .. Len(s))
            /\ Cardinality(1 .. Len(s)) = IF 1 > Len(s) THEN 0 ELSE Len(s) - 1 + 1
        BY <3>1, FS_Interval
      <3> QED
        BY <2>1, <3>2
    <2>6. IsFiniteSet(rows) /\ Cardinality(rows) = Len(s)
      BY <2>2, <2>3, FS_Bijection DEF ExistsBijection
    <2> QED
      BY <2>5, <2>6
  <1>4. ASSUME NEW p \in Paragraphs, NEW c \in Concepts
        PROVE  {row[3] : row \in {r \in rows : r[1] = p /\ r[2] = c}} = RolesOf(a.labels[p], c)
    <2> DEFINE ls == a.labels[p]
    <2>1. ls \in Seq(Labels) /\ DOMAIN ls = 1 .. Len(ls)
      BY LinesAre
    <2>2. \A i \in 1 .. Len(ls) : ls[i] \in Labels /\ DOMAIN ls[i].roles = 1 .. Len(ls[i].roles)
      BY <2>1, RolesAre
    <2>3. ASSUME NEW row \in rows, row[1] = p, row[2] = c
          PROVE  row[3] \in RolesOf(ls, c)
      <3>0. PICK q \in Paragraphs : \E i \in 1 .. Len(a.labels[q]) : \E r \in 1 .. Len(a.labels[q][i].roles) :
                row = Relation(q, a.labels[q][i], a.labels[q][i].roles[r])
        BY <1>2, <2>3
      <3>1. PICK i \in 1 .. Len(a.labels[q]) : \E r \in 1 .. Len(a.labels[q][i].roles) :
                row = Relation(q, a.labels[q][i], a.labels[q][i].roles[r])
        BY <3>0
      <3>9. PICK r \in 1 .. Len(a.labels[q][i].roles) : row = Relation(q, a.labels[q][i], a.labels[q][i].roles[r])
        BY <3>1
      <3>2. q = p /\ a.labels[q][i].resolved = c /\ row[3] = ls[i].roles[r]
        BY <2>3, <3>9 DEF Relation
      <3>3. i \in 1 .. Len(ls) /\ r \in 1 .. Len(ls[i].roles) /\ ls[i].resolved = c
        BY <3>1, <3>9, <3>2
      <3>4. ls[i] \in ToSet(ls) /\ row[3] \in ToSet(ls[i].roles)
        BY <2>1, <2>2, <3>2, <3>3 DEF ToSet
      <3> QED
        BY <3>3, <3>4 DEF RolesOf
    <2>4. ASSUME NEW role \in RolesOf(ls, c)
          PROVE  \E row \in rows : row[1] = p /\ row[2] = c /\ row[3] = role
      <3>1. PICK l \in ToSet(ls) : l.resolved = c /\ role \in ToSet(l.roles)
        BY DEF RolesOf
      <3>2. PICK i \in 1 .. Len(ls) : l = ls[i]
        BY <2>1 DEF ToSet
      <3>3. PICK r \in 1 .. Len(l.roles) : role = l.roles[r]
        BY <2>2, <3>1, <3>2 DEF ToSet
      <3>4. Relation(p, ls[i], ls[i].roles[r]) \in rows
        BY <1>2, <3>2, <3>3
      <3>5. Relation(p, ls[i], ls[i].roles[r]) = <<p, c, role>>
        BY <3>1, <3>2, <3>3 DEF Relation
      <3> QED
        BY <3>4, <3>5
    <2> HIDE DEF ls
    <2>5. {row[3] : row \in {r \in rows : r[1] = p /\ r[2] = c}} = RolesOf(ls, c)
      BY <2>3, <2>4
    <2> QED
      BY <2>5 DEF ls
  <1>5. ASSUME NEW row \in rows
        PROVE  row[2] \in Offered(row[1]) \cup ToSet(a.new)
    <2>0. PICK p \in Paragraphs : \E i \in 1 .. Len(a.labels[p]) : \E r \in 1 .. Len(a.labels[p][i].roles) :
              row = Relation(p, a.labels[p][i], a.labels[p][i].roles[r])
      BY <1>2
    <2>1. PICK i \in 1 .. Len(a.labels[p]) : \E r \in 1 .. Len(a.labels[p][i].roles) :
              row = Relation(p, a.labels[p][i], a.labels[p][i].roles[r])
      BY <2>0
    <2>2. row[1] = p /\ row[2] = a.labels[p][i].resolved /\ i \in DOMAIN a.labels[p]
      BY <2>1, LinesAre DEF Relation
    <2>3. Provided(a, p, a.labels[p][i])
      BY <2>2 DEF Right, ValidAgainst
    <2> QED
      BY <2>2, <2>3 DEF Provided
  <1>6. RowsAgree(rows, a)
    BY <1>4 DEF RowsAgree
  <1> QED
    BY <1>3, <1>5, <1>6, RelationsCount

-----------------------------------------------------------------------------
\* The entry of a key, and what the entries of a set count: the pairs of a paragraph
\* and a key that it uses.
EntryOf(rows, k) == [key |-> k, usage |-> Usage(rows, k), spellings |-> SpellingsOf(rows, k)]
Pairs(rows, t) == UNION {{<<p, e.key>> : p \in UsedIn(rows, e.key)} : e \in t}

LEMMA TwoParagraphs ==
    IsFiniteSet(Paragraphs) /\ Cardinality(Paragraphs) = 2
  <1>1. IsFiniteSet({"p1"}) /\ Cardinality({"p1"}) = 1
    BY FS_Singleton
  <1>2. IsFiniteSet({"p1"} \cup {"p2"}) /\ Cardinality({"p1"} \cup {"p2"}) = 2
    <2>1. "p2" \notin {"p1"}
      OBVIOUS
    <2>2. Cardinality({"p1"} \cup {"p2"}) = Cardinality({"p1"}) + 1
      BY <1>1, <2>1, FS_AddElement
    <2>3. IsFiniteSet({"p1"} \cup {"p2"})
      BY <1>1, FS_AddElement
    <2> QED
      BY <1>1, <2>2, <2>3
  <1>3. Paragraphs = {"p1"} \cup {"p2"}
    BY DEF Paragraphs
  <1> QED
    BY <1>2, <1>3

LEMMA UsageIs ==
    ASSUME NEW rows, rows \subseteq Triples, NEW k
    PROVE  /\ UsedIn(rows, k) \subseteq Paragraphs /\ IsFiniteSet(UsedIn(rows, k))
           /\ Usage(rows, k) = Cardinality(UsedIn(rows, k))
           /\ Usage(rows, k) \in Nat /\ Usage(rows, k) <= Cardinality(Paragraphs)
  <1>1. UsedIn(rows, k) \subseteq Paragraphs
    BY DEF UsedIn, Triples
  <1>2. IsFiniteSet(UsedIn(rows, k)) /\ Cardinality(UsedIn(rows, k)) <= Cardinality(Paragraphs)
    BY <1>1, TwoParagraphs, FS_Subset
  <1> QED
    BY <1>1, <1>2, FS_CardinalityType DEF Usage

LEMMA EntriesAre ==
    ASSUME NEW rows, rows \subseteq Triples, IsFiniteSet(rows)
    PROVE  /\ IsFiniteSet(Entries(rows))
           /\ \A e \in Entries(rows) :
                 /\ \E row \in rows : e.key = Key(row[2])
                 /\ e = EntryOf(rows, e.key) /\ e.usage = Usage(rows, e.key)
           /\ \A row \in rows : EntryOf(rows, Key(row[2])) \in Entries(rows)
  <1> DEFINE f == [row \in rows |-> EntryOf(rows, Key(row[2]))]
  <1>1. \A e : e \in Entries(rows) <=> \E row \in rows : e = EntryOf(rows, Key(row[2]))
    BY DEF Entries, EntryOf
  <1>2. f \in Surjection(rows, Entries(rows))
    <2>1. \A row \in rows : f[row] = EntryOf(rows, Key(row[2]))
      OBVIOUS
    <2>2. DOMAIN f = rows /\ f = [row \in rows |-> f[row]]
      OBVIOUS
    <2> HIDE DEF f
    <2>3. f \in [rows -> Entries(rows)]
      BY <1>1, <2>1, <2>2
    <2> QED
      BY <1>1, <2>1, <2>3 DEF Surjection
  <1>3. IsFiniteSet(Entries(rows))
    BY <1>2, FS_Surjection
  <1>4. ASSUME NEW e \in Entries(rows)
        PROVE  /\ \E row \in rows : e.key = Key(row[2])
               /\ e = EntryOf(rows, e.key) /\ e.usage = Usage(rows, e.key)
    <2>1. PICK row \in rows : e = EntryOf(rows, Key(row[2]))
      BY <1>1
    <2>2. e.key = Key(row[2])
      BY <2>1 DEF EntryOf
    <2> QED
      BY <2>1, <2>2 DEF EntryOf
  <1> QED
    BY <1>1, <1>3, <1>4

\* What an entry adds to the pairs of others.
LEMMA PairsWith ==
    ASSUME NEW rows, rows \subseteq Triples, IsFiniteSet(rows),
           NEW u \in SUBSET Entries(rows), NEW e \in Entries(rows), e \notin u,
           IsFiniteSet(Pairs(rows, u))
    PROVE  /\ IsFiniteSet(Pairs(rows, u \cup {e}))
           /\ Cardinality(Pairs(rows, u \cup {e})) = e.usage + Cardinality(Pairs(rows, u))
  <1> DEFINE M == {<<p, e.key>> : p \in UsedIn(rows, e.key)}
             f == [p \in UsedIn(rows, e.key) |-> <<p, e.key>>]
  <1>1. Pairs(rows, u \cup {e}) = Pairs(rows, u) \cup M
    BY DEF Pairs
  <1>2. f \in Bijection(UsedIn(rows, e.key), M)
    BY DEF Bijection, Injection, Surjection, IsInjective
  <1>3. IsFiniteSet(M) /\ Cardinality(M) = e.usage /\ e.usage \in Nat
    <2>1. IsFiniteSet(UsedIn(rows, e.key)) /\ e.usage = Cardinality(UsedIn(rows, e.key)) /\ e.usage \in Nat
      BY EntriesAre, UsageIs
    <2> HIDE DEF M, f
    <2> QED
      BY <1>2, <2>1, FS_Bijection DEF ExistsBijection
  <1>4. Pairs(rows, u) \cap M = {}
    <2> SUFFICES ASSUME NEW x \in Pairs(rows, u), x \in M
                 PROVE  FALSE
      OBVIOUS
    <2>1. PICK d \in u : \E p \in UsedIn(rows, d.key) : x = <<p, d.key>>
      BY DEF Pairs
    <2>2. d.key = e.key
      BY <2>1
    <2>3. d = EntryOf(rows, d.key) /\ e = EntryOf(rows, e.key)
      BY EntriesAre
    <2> QED
      BY <2>2, <2>3
  <1> HIDE DEF M
  <1>5. Cardinality(Pairs(rows, u)) \in Nat
    BY FS_CardinalityType
  <1>6. /\ IsFiniteSet(Pairs(rows, u) \cup M)
        /\ Cardinality(Pairs(rows, u) \cup M)
              = Cardinality(Pairs(rows, u)) + Cardinality(M) - Cardinality(Pairs(rows, u) \cap M)
    BY <1>3, FS_Union
  <1>7. Cardinality(Pairs(rows, u) \cap M) = 0
    BY <1>4, FS_EmptySet
  <1>8. \A x, y \in Nat : x + y - 0 = y + x
    OBVIOUS
  <1>9. Cardinality(Pairs(rows, u)) + e.usage - 0 = e.usage + Cardinality(Pairs(rows, u))
    BY <1>3, <1>5, <1>8
  <1> QED
    BY <1>1, <1>3, <1>6, <1>7, <1>9

\* The usages add up to the pairs.
LEMMA UsagesCount ==
    ASSUME NEW rows, rows \subseteq Triples, IsFiniteSet(rows)
    PROVE  FoldSet(LAMBDA e, sum : e.usage + sum, 0, Entries(rows)) = Cardinality(Pairs(rows, Entries(rows)))
  <1> DEFINE S == Entries(rows)
             n == Cardinality(S)
             A == Nat
             with == [e \in S |-> [a \in A |-> e.usage + a]]
             Solves(it) == it = [t \in SUBSET S |-> IF t = {} THEN 0 ELSE Some(t).usage + it[t \ {Some(t)}]]
             c == CHOOSE it : Solves(it)
  <1>1. IsFiniteSet(S) /\ n \in Nat
    BY EntriesAre, FS_CardinalityType
  <1>2. \A e \in S : e.usage \in Nat
    BY EntriesAre, UsageIs
  <1> HIDE DEF S
  <1>3. 0 \in A /\ with \in [S -> [A -> A]]
    BY <1>2
  <1>4. \E it : Solves(it)
    <2>1. PICK it : SetFoldOf(it, A, 0, S, with)
      <3> HIDE DEF with, A
      <3> QED
        BY <1>1, <1>3, SetFoldSolution
    <2>2. ASSUME NEW t \in SUBSET S, t # {}
          PROVE  it[t] = Some(t).usage + it[t \ {Some(t)}]
      <3>1. Some(t) \in S /\ t \ {Some(t)} \in SUBSET S
        BY <1>1, <2>2, SomeLess
      <3>2. it[t \ {Some(t)}] \in A /\ it[t] = with[Some(t)][it[t \ {Some(t)}]]
        <4> HIDE DEF with, A
        <4> QED
          BY <2>1, <2>2, <3>1 DEF SetFoldOf
      <3> QED
        BY <3>1, <3>2
    <2>3. Solves(it)
      BY <2>1, <2>2 DEF SetFoldOf
    <2> QED
      BY <2>3
  <1>5. Solves(c)
    <2> HIDE DEF Solves
    <2> QED
      BY <1>4
  <1>6. FoldSet(LAMBDA e, sum : e.usage + sum, 0, S) = c[S]
    BY DEF FoldSet, MapThenFoldSet, Some
  <1> DEFINE Adds(t) == IsFiniteSet(Pairs(rows, t)) /\ c[t] = Cardinality(Pairs(rows, t))
             T == {m \in 0 .. n : \A t \in SUBSET S : Cardinality(t) = m => Adds(t)}
  <1>7. Adds({})
    <2>1. Pairs(rows, {}) = {}
      BY DEF Pairs
    <2>2. c[{}] = 0
      <3> HIDE DEF c
      <3> QED
        BY <1>5
    <2> HIDE DEF c
    <2> QED
      BY <2>1, <2>2, FS_EmptySet
  <1>8. ASSUME NEW t \in SUBSET S, t # {}
        PROVE  c[t] = Some(t).usage + c[t \ {Some(t)}]
    <2> HIDE DEF c
    <2> QED
      BY <1>5, <1>8
  <1> HIDE DEF c
  <1>9. 0 \in T
    <2>1. \A t \in SUBSET S : Cardinality(t) = 0 => t = {}
      <3> SUFFICES ASSUME NEW t \in SUBSET S, Cardinality(t) = 0, t # {}
                   PROVE  FALSE
        OBVIOUS
      <3>1. Cardinality(t) \in Nat \ {0}
        BY <1>1, SomeLess
      <3> QED
        BY <3>1
    <2>2. 0 \in 0 .. n
      BY <1>1
    <2> HIDE DEF Adds, n
    <2> QED
      BY <1>7, <2>1, <2>2
  <1>10. ASSUME NEW m \in Nat, m < n, m \in T
         PROVE  m + 1 \in T
    <2>1. ASSUME NEW t \in SUBSET S, Cardinality(t) = m + 1
          PROVE  Adds(t)
      <3> DEFINE e == Some(t)
                 u == t \ {e}
      <3>1. t # {}
        <4>1. Cardinality({}) = 0
          BY FS_EmptySet
        <4> HIDE DEF T
        <4> QED
          BY <1>10, <2>1, <4>1
      <3>2. e \in t /\ e \in S /\ u \in SUBSET S /\ Cardinality(u) = m /\ e \notin u /\ t = u \cup {e}
        <4>1. e \in t /\ u \in SUBSET S /\ Cardinality(u) = Cardinality(t) - 1
          BY <1>1, <3>1, SomeLess
        <4>2. e \notin u /\ (e \in t => t = u \cup {e})
          OBVIOUS
        <4> HIDE DEF T, e, u
        <4>3. (m + 1) - 1 = m
          BY <1>10
        <4> QED
          BY <2>1, <4>1, <4>2, <4>3
      <3>3. IsFiniteSet(Pairs(rows, u)) /\ c[u] = Cardinality(Pairs(rows, u))
        <4> HIDE DEF u
        <4> QED
          BY <1>10, <3>2
      <3>4. c[t] = e.usage + c[u]
        BY <1>8, <3>1
      <3> HIDE DEF u, e
      <3>5. /\ IsFiniteSet(Pairs(rows, u \cup {e}))
            /\ Cardinality(Pairs(rows, u \cup {e})) = e.usage + Cardinality(Pairs(rows, u))
        BY <3>2, <3>3, PairsWith DEF S
      <3> QED
        BY <3>2, <3>3, <3>4, <3>5
    <2> HIDE DEF Adds
    <2> QED
      BY <1>1, <1>10, <2>1
  <1>11. n \in T
    <2> HIDE DEF T, n
    <2>1. \A k \in 0 .. n : k \in T
      BY <1>1, <1>9, <1>10, UpTo
    <2> QED
      BY <1>1, <2>1
  <1>12. c[S] = Cardinality(Pairs(rows, S))
    BY <1>11
  <1> QED
    BY <1>6, <1>12 DEF S

LEMMA CataloguedIs ==
    ASSUME NEW rows, rows \subseteq Triples, IsFiniteSet(rows), NEW twins \in BOOLEAN,
           twins => \A row \in rows : UsedIn(rows, Key(row[2])) # Paragraphs,
           NEW entries, entries = Entries(rows)
    PROVE  /\ \A e, f \in entries : e.key = f.key => e = f
           /\ \A e \in entries : e.usage <= Cardinality(Paragraphs)
           /\ FoldSet(LAMBDA e, sum : e.usage + sum, 0, entries)
                 = Cardinality({<<row[1], Key(row[2])>> : row \in rows})
           /\ twins => \A e \in entries : e.usage = 1
  <1>1. \A e, f \in entries : e.key = f.key => e = f
    <2>1. \A e \in entries : e = EntryOf(rows, e.key)
      BY EntriesAre
    <2> QED
      BY <2>1
  <1>2. \A e \in entries : e.usage <= Cardinality(Paragraphs)
    BY EntriesAre, UsageIs
  <1>3. Pairs(rows, Entries(rows)) = {<<row[1], Key(row[2])>> : row \in rows}
    <2>1. ASSUME NEW x \in Pairs(rows, Entries(rows))
          PROVE  \E row \in rows : x = <<row[1], Key(row[2])>>
      <3>1. PICK e \in Entries(rows) : \E p \in UsedIn(rows, e.key) : x = <<p, e.key>>
        BY DEF Pairs
      <3>2. PICK row \in rows : Key(row[2]) = e.key /\ x = <<row[1], e.key>>
        BY <3>1 DEF UsedIn
      <3> QED
        BY <3>2
    <2>2. ASSUME NEW row \in rows
          PROVE  <<row[1], Key(row[2])>> \in Pairs(rows, Entries(rows))
      <3>1. EntryOf(rows, Key(row[2])) \in Entries(rows) /\ EntryOf(rows, Key(row[2])).key = Key(row[2])
        BY EntriesAre DEF EntryOf
      <3>2. row[1] \in UsedIn(rows, Key(row[2]))
        BY DEF UsedIn
      <3> QED
        BY <3>1, <3>2 DEF Pairs
    <2> QED
      BY <2>1, <2>2
  <1>4. ASSUME twins, NEW e \in entries
        PROVE  e.usage = 1
    <2>1. PICK row \in rows : e.key = Key(row[2])
      BY EntriesAre
    <2>2. e.usage = Cardinality(UsedIn(rows, Key(row[2])))
      BY <2>1, EntriesAre, UsageIs
    <2>3. UsedIn(rows, Key(row[2])) \subseteq Paragraphs /\ UsedIn(rows, Key(row[2])) # Paragraphs
      BY <1>4, UsageIs
    <2>4. row[1] \in UsedIn(rows, Key(row[2]))
      BY DEF UsedIn
    <2>5. \E p : UsedIn(rows, Key(row[2])) = {p}
      BY <2>3, <2>4 DEF Paragraphs
    <2> QED
      BY <2>2, <2>5, FS_Singleton
  <1>5. FoldSet(LAMBDA e, sum : e.usage + sum, 0, entries)
           = Cardinality({<<row[1], Key(row[2])>> : row \in rows})
    BY <1>3, UsagesCount
  <1> QED
    BY <1>1, <1>2, <1>4, <1>5

-----------------------------------------------------------------------------
\* What each with hands on.  A tagged chunk has an answer that the request accepts and its
\* relations; what is committed are the relations of such an answer, none twice; what is
\* catalogued are rows of which no two stand for one text under one concept.
Tagged == /\ Right(result.answer) /\ result.relations = RelationsOf(result.answer)
Committed == /\ Right(result.answer) /\ IsInjective(RelationsOf(result.answer))
             /\ result.rows = ToSet(RelationsOf(result.answer))
Catalogued == /\ result.rows \subseteq Triples /\ IsFiniteSet(result.rows)
              /\ alike => \A row \in result.rows : UsedIn(result.rows, Key(row[2])) # Paragraphs
              /\ result.entries = Entries(result.rows)

TaggingInv ==
    /\ alike \in BOOLEAN
    /\ tagStep \in {"chunk", "paragraph", "refused", "tagged", "committed", "catalogued", "resolved"}
    /\ tagStep = "tagged" => Tagged
    /\ tagStep = "committed" => Committed
    /\ tagStep = "catalogued" => Catalogued
    /\ TagsResolved

LEMMA RefusedKeeps ==
    ASSUME TaggingInv, Refused
    PROVE  TaggingInv'
  BY DEF TaggingInv, Refused, To, TagsResolved

LEMMA AnswerRight ==
    ASSUME NEW a, a.refs \in Seq(Paragraphs \cup {"p3"}), a.labels \in [Paragraphs -> Seq(Labels)],
           Restored(a), ValidAgainst(a)
    PROVE  Right(a)
  <1>1. DOMAIN a.refs = 1 .. Len(a.refs) /\ Len(a.refs) \in Nat /\ ToSet(a.refs) = Paragraphs
    BY DEF Restored
  <1>2. ToSet(a.refs) = {a.refs[i] : i \in 1 .. Len(a.refs)}
    BY <1>1 DEF ToSet
  <1>3. a.refs \in [1 .. Len(a.refs) -> Paragraphs]
    BY <1>1, <1>2
  <1>4. a.refs \in Seq(Paragraphs)
    BY <1>1, <1>3
  <1>5. a.refs \in Bijection(1 .. Len(a.refs), Paragraphs)
    BY <1>1, <1>2, <1>3 DEF Restored, Bijection, Injection, Surjection, IsInjective
  <1>6. IsFiniteSet(1 .. Len(a.refs)) /\ Cardinality(1 .. Len(a.refs)) = Len(a.refs)
    <2>1. 1 \in Int /\ Len(a.refs) \in Int
      BY <1>1
    <2>2. /\ IsFiniteSet(1 .. Len(a.refs))
          /\ Cardinality(1 .. Len(a.refs)) = IF 1 > Len(a.refs) THEN 0 ELSE Len(a.refs) - 1 + 1
      BY <2>1, FS_Interval
    <2> QED
      BY <1>1, <2>2
  <1>7. Cardinality(Paragraphs) = Len(a.refs)
    BY <1>5, <1>6, FS_Bijection DEF ExistsBijection
  <1> QED
    BY <1>1, <1>4, <1>7, TwoParagraphs DEF Right

LEMMA AnsweredKeeps ==
    ASSUME TaggingInv, NEW a, a.refs \in Seq(Paragraphs \cup {"p3"}),
           a.labels \in [Paragraphs -> Seq(Labels)], Answered(a)
    PROVE  TaggingInv'
  <1>1. CASE Refused
    BY <1>1, RefusedKeeps
  <1>2. CASE Restored(a) /\ ValidAgainst(a) /\ To("tagged", [answer |-> a, relations |-> RelationsOf(a)])
    <2>1. Right(a)
      BY <1>2, AnswerRight
    <2>2. result' = [answer |-> a, relations |-> RelationsOf(a)] /\ tagStep' = "tagged" /\ alike' = alike
      BY <1>2 DEF To
    <2>3. result'.answer = a /\ result'.relations = RelationsOf(a)
      BY <2>2
    <2> QED
      BY <2>1, <2>2, <2>3 DEF TaggingInv, Tagged, TagsResolved
  <1> QED
    BY <1>1, <1>2 DEF Answered

LEMMA TagChunkKeeps ==
    ASSUME TaggingInv, TagChunk
    PROVE  TaggingInv'
  <1>1. \A n \in Nat : LabelLists(n) \subseteq Seq(Labels)
    <2> SUFFICES ASSUME NEW n \in Nat, NEW k \in 0 .. n, NEW l \in [1 .. k -> Labels]
                 PROVE  l \in Seq(Labels)
      BY DEF LabelLists
    <2> HIDE DEF Labels
    <2> QED
      OBVIOUS
  <1>2. ASSUME NEW refs \in SetToSeqs(Paragraphs), NEW one \in LabelLists(MaxLabels), NEW two \in FewLabels,
               NEW new, Answered(Answer(refs, one, two, new))
        PROVE  TaggingInv'
    <2> DEFINE a == Answer(refs, one, two, new)
    <2>1. one \in Seq(Labels) /\ two \in Seq(Labels)
      <3>1. MaxLabels \in Nat /\ 1 \in Nat /\ FewLabels \subseteq LabelLists(1)
        BY TaggingAssumption DEF FewLabels
      <3> QED
        BY <1>1, <3>1
    <2>2. a.refs = refs /\ a.labels = [p \in Paragraphs |-> IF p = "p1" THEN one ELSE two]
      BY DEF Answer
    <2>3. refs \in [1 .. Cardinality(Paragraphs) -> Paragraphs]
      BY DEF SetToSeqs
    <2>4. refs \in Seq(Paragraphs \cup {"p3"})
      <3>1. refs \in [1 .. 2 -> Paragraphs \cup {"p3"}]
        BY <2>3, TwoParagraphs
      <3>2. \A S : \A m \in Nat : \A f \in [1 .. m -> S] : f \in Seq(S)
        OBVIOUS
      <3> QED
        BY <3>1, <3>2
    <2> HIDE DEF a, Labels
    <2>5. a.refs \in Seq(Paragraphs \cup {"p3"}) /\ a.labels \in [Paragraphs -> Seq(Labels)]
      BY <2>1, <2>2, <2>4
    <2> QED
      BY <1>2, <2>5, AnsweredKeeps DEF a
  <1>3. ASSUME NEW refs \in SeqOf(Paragraphs \cup {"p3"}, 3), Answered(Answer(refs, <<>>, <<>>, <<>>))
        PROVE  TaggingInv'
    <2> DEFINE a == Answer(refs, <<>>, <<>>, <<>>)
    <2>1. a.refs = refs /\ a.labels = [p \in Paragraphs |-> <<>>]
      BY DEF Answer
    <2>2. PICK m \in 0 .. 3 : refs \in [1 .. m -> Paragraphs \cup {"p3"}]
      BY DEF SeqOf
    <2>3. refs \in Seq(Paragraphs \cup {"p3"})
      BY <2>2
    <2> HIDE DEF a
    <2>4. a.refs \in Seq(Paragraphs \cup {"p3"}) /\ a.labels \in [Paragraphs -> Seq(Labels)]
      BY <2>1, <2>3
    <2> QED
      BY <1>3, <2>4, AnsweredKeeps DEF a
  <1> QED
    BY <1>2, <1>3 DEF TagChunk

LEMMA CommitChunkKeeps ==
    ASSUME TaggingInv, CommitChunk
    PROVE  TaggingInv'
  <1>1. Right(result.answer) /\ result.relations = RelationsOf(result.answer)
    BY DEF TaggingInv, CommitChunk, Tagged
  <1>2. CASE Refused
    BY <1>2, RefusedKeeps
  <1>3. CASE /\ IsInjective(result.relations)
             /\ To("committed", [answer |-> result.answer, rows |-> ToSet(result.relations)])
    <2>1. /\ result' = [answer |-> result.answer, rows |-> ToSet(result.relations)]
          /\ tagStep' = "committed" /\ alike' = alike
      BY <1>3 DEF To
    <2>2. result'.answer = result.answer /\ result'.rows = ToSet(RelationsOf(result.answer))
      BY <1>1, <2>1
    <2>3. Committed'
      BY <1>1, <1>3, <2>2 DEF Committed
    <2> QED
      BY <2>1, <2>3 DEF TaggingInv, TagsResolved
  <1> QED
    BY <1>2, <1>3 DEF CommitChunk

LEMMA BuildCatalogKeeps ==
    ASSUME TaggingInv, BuildCatalog
    PROVE  TaggingInv'
  <1>1. Committed /\ alike \in BOOLEAN
    BY DEF TaggingInv, BuildCatalog
  <1>2. CASE Refused
    BY <1>2, RefusedKeeps
  <1>3. CASE /\ ~SameExamples(result.rows)
             /\ To("catalogued", [rows |-> result.rows, entries |-> Entries(result.rows)])
    <2>1. /\ result' = [rows |-> result.rows, entries |-> Entries(result.rows)]
          /\ tagStep' = "catalogued" /\ alike' = alike
      BY <1>3 DEF To
    <2>2. result'.rows = result.rows /\ result'.entries = Entries(result.rows)
      BY <2>1
    <2>3. result.rows \subseteq Triples /\ IsFiniteSet(result.rows)
      <3> DEFINE a == result.answer
                 rows == result.rows
      <3>1. Right(a) /\ IsInjective(RelationsOf(a)) /\ rows = ToSet(RelationsOf(a))
        BY <1>1 DEF Committed
      <3> HIDE DEF a, rows
      <3>2. rows \subseteq Triples /\ IsFiniteSet(rows)
        BY <3>1, CommittedIs
      <3> QED
        BY <3>2 DEF rows
    <2>4. alike => \A row \in result.rows : UsedIn(result.rows, Key(row[2])) # Paragraphs
      BY <1>3 DEF SameExamples
    <2>5. Catalogued'
      BY <2>1, <2>2, <2>3, <2>4 DEF Catalogued
    <2> QED
      BY <1>1, <2>1, <2>5 DEF TaggingInv, TagsResolved
  <1> QED
    BY <1>2, <1>3 DEF BuildCatalog

LEMMA TagParagraphKeeps ==
    ASSUME TaggingInv, TagParagraph
    PROVE  TaggingInv'
  <1>1. PICK tags \in TagLists, resolutions \in Resolutions :
           IF IsInjective(tags) /\ Resolved(tags, resolutions) /\ IsInjective(TagsOf(resolutions))
           THEN To("resolved", [generated |-> tags, resolutions |-> resolutions])
           ELSE Refused
    BY DEF TagParagraph
  <1>2. CASE Refused
    BY <1>2, RefusedKeeps
  <1>3. CASE /\ IsInjective(tags) /\ Resolved(tags, resolutions) /\ IsInjective(TagsOf(resolutions))
             /\ To("resolved", [generated |-> tags, resolutions |-> resolutions])
    <2>1. /\ result' = [generated |-> tags, resolutions |-> resolutions]
          /\ tagStep' = "resolved" /\ alike' = alike
      BY <1>3 DEF To
    <2>2. result'.generated = tags /\ result'.resolutions = resolutions
      BY <2>1
    <2>3. Len(resolutions) = Len(tags)
      <3>1. PICK m \in 0 .. 2 : resolutions \in [1 .. m -> [generated : Generated, action : {"reuse_existing", "keep_new"}, resolved : Concepts]]
        BY DEF Resolutions, SeqOf
      <3>2. PICK k \in 0 .. 2 : tags \in [1 .. k -> Generated]
        BY DEF TagLists, SeqOf
      <3>3. DOMAIN tags = DOMAIN resolutions
        BY <1>3 DEF Resolved
      <3>4. Len(resolutions) = m /\ Len(tags) = k /\ DOMAIN tags = 1 .. k /\ DOMAIN resolutions = 1 .. m
        BY <3>1, <3>2
      <3>5. 1 .. k = 1 .. m => k = m
        BY <3>1, <3>2
      <3> QED
        BY <3>3, <3>4, <3>5
    <2>4. \A i \in DOMAIN resolutions :
             resolutions[i].action = "reuse_existing" => resolutions[i].resolved \in Candidates
      BY <1>3 DEF Resolved
    <2>5. TagsResolved'
      BY <1>3, <2>1, <2>2, <2>3, <2>4 DEF TagsResolved
    <2> QED
      BY <2>1, <2>5 DEF TaggingInv
  <1> QED
    BY <1>1, <1>2, <1>3

LEMMA TaggingHolds ==
    ASSUME TaggingInv
    PROVE  TaggingSound
  <1>1. CommittedIsAnswered
    <2> SUFFICES ASSUME tagStep = "committed"
                 PROVE  CommittedIsAnswered
      BY DEF CommittedIsAnswered
    <2> DEFINE a == result.answer
               rows == result.rows
    <2>1. Right(a) /\ IsInjective(RelationsOf(a)) /\ rows = ToSet(RelationsOf(a))
      BY DEF TaggingInv, Committed
    <2> HIDE DEF a, rows
    <2>2. RowsAgree(rows, a)
      BY <2>1, CommittedIs
    <2>3. Cardinality(rows)
             = FoldFunction(+, 0, [p \in Paragraphs |->
                   FoldLeft(LAMBDA sum, l : sum + Len(l.roles), 0, a.labels[p])])
      BY <2>1, CommittedIs
    <2>4. \A row \in rows : row[2] \in Offered(row[1]) \cup ToSet(a.new)
      BY <2>1, CommittedIs
    <2> QED
      BY <2>2, <2>3, <2>4, Zenon DEF CommittedIsAnswered, RowsAgree, a, rows
  <1>2. CatalogCounts
    <2> SUFFICES ASSUME tagStep = "catalogued"
                 PROVE  CatalogCounts
      BY DEF CatalogCounts
    <2> DEFINE rows == result.rows
               entries == result.entries
    <2>1. /\ rows \subseteq Triples /\ IsFiniteSet(rows) /\ alike \in BOOLEAN /\ entries = Entries(rows)
          /\ alike => \A row \in rows : UsedIn(rows, Key(row[2])) # Paragraphs
      BY DEF TaggingInv, Catalogued
    <2> HIDE DEF rows, entries
    <2>2. /\ \A e, f \in entries : e.key = f.key => e = f
          /\ \A e \in entries : e.usage <= Cardinality(Paragraphs)
          /\ FoldSet(LAMBDA e, sum : e.usage + sum, 0, entries)
                = Cardinality({<<row[1], Key(row[2])>> : row \in rows})
          /\ alike => \A e \in entries : e.usage = 1
      BY <2>1, CataloguedIs, Zenon
    <2> QED
      BY <2>2, Zenon DEF CatalogCounts, rows, entries
  <1> QED
    BY <1>1, <1>2 DEF TaggingInv, TaggingSound

LEMMA TaggingInvInit == TaggingInit => TaggingInv
  BY DEF TaggingInit, TaggingInv, TagsResolved

LEMMA TaggingInvStep == TaggingInv /\ [TaggingNext]_taggingVars => TaggingInv'
  <1> SUFFICES ASSUME TaggingInv, [TaggingNext]_taggingVars
               PROVE  TaggingInv'
    OBVIOUS
  <1>1. CASE TaggingNext
    BY <1>1, TagChunkKeeps, CommitChunkKeeps, BuildCatalogKeeps, TagParagraphKeeps DEF TaggingNext
  <1>2. CASE UNCHANGED taggingVars
    BY <1>2 DEF taggingVars, TaggingInv, Tagged, Committed, Catalogued, TagsResolved
  <1> QED
    BY <1>1, <1>2

\* Whatever a model answers: what is committed of a chunk is what its labels say, once, of
\* concepts that were offered or are new; the catalog counts each paragraph once under a
\* concept; and the resolutions of a paragraph are those of its tags.
THEOREM TaggingIsSound == TaggingSpec => []TaggingSound
  BY TaggingInvInit, TaggingInvStep, TaggingHolds, PTL DEF TaggingSpec

-----------------------------------------------------------------------------
(***************************************************************************)
(* ModelCalls                                                              *)
(***************************************************************************)
CallPhases == {"new", "refused", "posting", "delayed", "completed", "failed", "cancelled"}
RequestRecords == [phase : CallPhases, keyed : BOOLEAN, attempt : Nat]
Reports == [name : {"completed", "failed"}, attempt : Nat]
Outcomes == {"success", "failure"}
Circuits == [failures : Nat, openedAt : Nat]
ProberRecords == [phase : {"new", "waiting", "probing", "answered"}, since : Nat,
                  found : UNION {[S -> BOOLEAN] : S \in SUBSET Providers},
                  answer : {"none", "ready", "degraded", "unavailable"}]

CallsTyped ==
    /\ client \in {"gateway", "direct"}
    /\ requests \in [Requests -> RequestRecords]
    /\ circuit \in Circuits
    /\ outcomes \in Seq(Outcomes)
    /\ gauges \in [inFlight : Nat, highest : Nat]
    /\ reports \in [Requests -> Seq(Reports)]
    /\ counted \in Nat
    /\ used \in SUBSET Requests
    /\ now \in Nat \ {0}

ProbesTyped ==
    /\ probers \in [Probers -> ProberRecords]
    /\ services \in [Providers -> BOOLEAN]
    /\ cached \in [at : Nat, status : {"none", "ready", "degraded", "unavailable"}]

-----------------------------------------------------------------------------
(* The circuit.                                                            *)

\* The failures it counts are the last outcomes, without a success between them.
CircuitInv ==
    /\ circuit.failures <= Len(outcomes)
    /\ \A i \in Len(outcomes) - circuit.failures + 1..Len(outcomes) : outcomes[i] = "failure"
    /\ IF Threshold = 0 THEN circuit.openedAt = 0
       ELSE circuit.openedAt # 0 <=> circuit.failures >= Threshold

-----------------------------------------------------------------------------
(* Requests and their metrics.                                             *)

\* What was told about a request goes with its phase, and only a response was used.
ToldOf(r) ==
    LET phase == requests[r].phase IN
    /\ phase \in {"completed", "failed", "refused"} =>
          Len(reports[r]) = 1 /\ (phase = "completed" <=> reports[r][1].name = "completed")
    /\ phase \in {"new", "posting", "delayed", "cancelled"} => reports[r] = <<>>
    /\ r \in used => phase \in {"completed", "failed"}

\* At any time finitely many requests have begun.
MetricsInv ==
    /\ \A r \in Requests : ToldOf(r)
    /\ IsFiniteSet(Waiting) /\ gauges.inFlight = Cardinality(Waiting)
    /\ gauges.inFlight <= gauges.highest
    /\ IsFiniteSet(used) /\ counted = Cardinality(used)

ClientsInv == CallsTyped /\ CircuitInv /\ MetricsInv

ClientVars == <<client, requests, circuit, outcomes, gauges, reports, counted, used>>

\* Waiting is a set of requests that gains or loses one.
LEMMA WaitingIs ==
    ASSUME CallsTyped, MetricsInv, NEW r \in Requests,
           requests' \in [Requests -> RequestRecords],
           \A x \in Requests \ {r} : requests'[x] = requests[x]
    PROVE  /\ IsFiniteSet(Waiting') /\ Cardinality(Waiting) \in Nat
           /\ Cardinality(Waiting)' = Cardinality(Waiting)
                + (IF r \in Waiting THEN 0 ELSE IF r \in Waiting' THEN 1 ELSE 0)
                - (IF r \in Waiting THEN IF r \in Waiting' THEN 0 ELSE 1 ELSE 0)
           /\ r \in Waiting => Cardinality(Waiting) > 0
  <1>1. IsFiniteSet(Waiting) /\ Cardinality(Waiting) \in Nat
    BY FS_CardinalityType DEF MetricsInv
  <1>2. CASE r \in Waiting /\ r \in Waiting'
    <2>1. Waiting' = Waiting
      BY <1>2 DEF Waiting
    <2> QED
      BY <1>1, <1>2, <2>1, FS_EmptySet
  <1>3. CASE r \in Waiting /\ r \notin Waiting'
    <2>1. Waiting' = Waiting \ {r}
      BY <1>3 DEF Waiting
    <2>2. IsFiniteSet(Waiting \ {r}) /\ Cardinality(Waiting \ {r}) = Cardinality(Waiting) - 1
      BY <1>1, <1>3, FS_RemoveElement
    <2>3. Cardinality(Waiting \ {r}) \in Nat
      BY <2>2, FS_CardinalityType
    <2> QED
      BY <1>1, <1>3, <2>1, <2>2, <2>3
  <1>4. CASE r \notin Waiting /\ r \in Waiting'
    <2>1. Waiting' = Waiting \cup {r}
      BY <1>4 DEF Waiting
    <2>2. IsFiniteSet(Waiting \cup {r}) /\ Cardinality(Waiting \cup {r}) = Cardinality(Waiting) + 1
      BY <1>1, <1>4, FS_AddElement
    <2> QED
      BY <1>1, <1>4, <2>1, <2>2
  <1>5. CASE r \notin Waiting /\ r \notin Waiting'
    <2>1. Waiting' = Waiting
      BY <1>5 DEF Waiting
    <2> QED
      BY <1>1, <1>5, <2>1
  <1> QED
    BY <1>2, <1>3, <1>4, <1>5

-----------------------------------------------------------------------------
(* One operation at a time.                                                *)

\* What the clock and the settings are.
LEMMA NumbersAre == {MaxAttempts, Threshold, Cooldown, Ttl, MaxTime} \subseteq Nat
  BY ClientsAssumption

\* A circuit that has cooled is closed; nothing else changes what it counts.
LEMMA CircuitStays ==
    ASSUME CallsTyped, CircuitInv, circuit' \in {circuit, Closed}, UNCHANGED outcomes
    PROVE  CircuitInv' /\ circuit' \in Circuits
  <1>1. Closed \in Circuits /\ Closed.failures = 0 /\ Closed.openedAt = 0
    BY DEF Closed, Circuits
  <1>2. Len(outcomes) \in Nat
    BY LenProperties DEF CallsTyped
  <1>3. CASE circuit' = circuit
    BY <1>3 DEF CircuitInv, CallsTyped
  <1>4. CASE circuit' = Closed
    BY <1>1, <1>2, <1>4, NumbersAre DEF CircuitInv
  <1> QED
    BY <1>3, <1>4

LEMMA RecordSound ==
    ASSUME CallsTyped, CircuitInv, NEW outcome \in Outcomes, Record(outcome)
    PROVE  CircuitInv' /\ circuit' \in Circuits /\ outcomes' \in Seq(Outcomes)
  <1>1. CASE client # "gateway"
    <2>1. UNCHANGED <<circuit, outcomes>>
      BY <1>1 DEF Record
    <2> QED
      BY <2>1, CircuitStays DEF CallsTyped
  <1>2. CASE client = "gateway" /\ outcome = "success"
    <2>1. circuit' = Closed /\ outcomes' = Append(outcomes, outcome)
      BY <1>2 DEF Record, Succeeded
    <2>2. Closed \in Circuits /\ Closed.failures = 0 /\ Closed.openedAt = 0
      BY DEF Closed, Circuits
    <2>3. outcomes' \in Seq(Outcomes) /\ Len(outcomes') \in Nat
      BY <2>1, AppendProperties, LenProperties DEF CallsTyped
    <2> QED
      BY <2>1, <2>2, <2>3, NumbersAre DEF CircuitInv
  <1>3. CASE client = "gateway" /\ outcome = "failure"
    <2>1. circuit' = RetryableFailure(circuit) /\ outcomes' = Append(outcomes, "failure")
      BY <1>3 DEF Record
    <2>2. /\ outcomes' \in Seq(Outcomes) /\ Len(outcomes) \in Nat /\ Len(outcomes') = Len(outcomes) + 1
          /\ \A i \in 1..Len(outcomes) : outcomes'[i] = outcomes[i]
          /\ outcomes'[Len(outcomes) + 1] = "failure"
      BY <1>3, <2>1, AppendProperties, LenProperties DEF CallsTyped
    <2>3. circuit.failures \in Nat /\ circuit.openedAt \in Nat /\ now \in Nat \ {0}
      BY DEF CallsTyped, Circuits
    <2>4. CASE Threshold = 0
      <3>1. circuit' = circuit
        BY <2>1, <2>4 DEF RetryableFailure
      <3>2. circuit' \in Circuits /\ circuit'.openedAt = 0 /\ circuit'.failures = circuit.failures
        BY <2>4, <3>1 DEF CircuitInv, CallsTyped
      <3>3. ASSUME NEW i \in Len(outcomes') - circuit'.failures + 1..Len(outcomes')
            PROVE  outcomes'[i] = "failure"
        <4>1. i \in Int /\ (i = Len(outcomes) + 1 \/ i \in Len(outcomes) - circuit.failures + 1..Len(outcomes))
          BY <2>2, <2>3, <3>2
        <4>2. i # Len(outcomes) + 1 => i \in 1..Len(outcomes)
          BY <2>2, <2>3, <4>1 DEF CircuitInv
        <4> QED
          BY <2>2, <4>1, <4>2 DEF CircuitInv
      <3>4. circuit'.failures <= Len(outcomes')
        BY <2>2, <2>3, <3>2 DEF CircuitInv
      <3> QED
        BY <2>2, <2>4, <3>2, <3>3, <3>4 DEF CircuitInv
    <2>5. CASE Threshold # 0
      <3>1. /\ circuit'.failures = circuit.failures + 1
            /\ circuit'.openedAt = IF circuit.failures + 1 >= Threshold THEN now ELSE circuit.openedAt
            /\ circuit' \in Circuits
        BY <2>1, <2>3, <2>5 DEF RetryableFailure, Circuits
      <3>2. circuit'.openedAt # 0 <=> circuit'.failures >= Threshold
        BY <2>3, <2>5, <3>1, NumbersAre DEF CircuitInv
      <3>3. \A i \in Len(outcomes') - circuit'.failures + 1..Len(outcomes') : outcomes'[i] = "failure"
        BY <2>2, <2>3, <3>1 DEF CircuitInv
      <3> QED
        BY <2>2, <2>3, <2>5, <3>1, <3>2, <3>3 DEF CircuitInv
    <2> QED
      BY <2>4, <2>5
  <1> QED
    BY <1>1, <1>2, <1>3 DEF Outcomes

\* A request that has not ended begins, waits on or ends without a word: no report, no usage.
LEMMA SilentStep ==
    ASSUME ClientsInv, NEW r \in Requests, NEW p \in RequestRecords,
           requests' = [requests EXCEPT ![r] = p],
           requests[r].phase \in {"new", "posting", "delayed"},
           p.phase \in {"posting", "delayed", "cancelled"},
           UNCHANGED <<reports, counted, used>>,
           gauges' = IF r \in Waiting THEN IF p.phase = "cancelled" THEN Finished(gauges) ELSE gauges
                     ELSE IF p.phase = "cancelled" THEN gauges ELSE Started(gauges)
    PROVE  /\ requests' \in [Requests -> RequestRecords] /\ gauges' \in [inFlight : Nat, highest : Nat]
           /\ MetricsInv'
  <1>1. /\ requests' \in [Requests -> RequestRecords] /\ requests'[r] = p
        /\ \A x \in Requests \ {r} : requests'[x] = requests[x]
    BY DEF ClientsInv, CallsTyped
  <1>2. r \in Waiting' <=> p.phase # "cancelled"
    BY <1>1 DEF Waiting
  <1>3. gauges.inFlight \in Nat /\ gauges.highest \in Nat
    BY DEF ClientsInv, CallsTyped
  <1>4. /\ IsFiniteSet(Waiting') /\ Cardinality(Waiting) \in Nat
        /\ Cardinality(Waiting)' = Cardinality(Waiting)
             + (IF r \in Waiting THEN 0 ELSE IF r \in Waiting' THEN 1 ELSE 0)
             - (IF r \in Waiting THEN IF r \in Waiting' THEN 0 ELSE 1 ELSE 0)
        /\ r \in Waiting => Cardinality(Waiting) > 0
    BY <1>1, WaitingIs DEF ClientsInv
  <1>5. /\ gauges' \in [inFlight : Nat, highest : Nat] /\ gauges'.inFlight = Cardinality(Waiting)'
        /\ gauges'.inFlight <= gauges'.highest
    BY <1>2, <1>3, <1>4 DEF Started, Finished, ClientsInv, MetricsInv, CallsTyped
  <1>6. ASSUME NEW x \in Requests PROVE ToldOf(x)'
    BY <1>1 DEF ToldOf, ClientsInv, MetricsInv
  <1> QED
    BY <1>1, <1>4, <1>5, <1>6 DEF MetricsInv, ClientsInv

\* A request ends with a word about it; a response of the direct client is used then.
LEMMA LoudStep ==
    ASSUME ClientsInv, NEW r \in Requests, NEW p \in RequestRecords,
           NEW name \in {"completed", "failed"}, NEW attempt \in Nat, NEW usage \in {0, 1},
           requests' = [requests EXCEPT ![r] = p],
           requests[r].phase \in {"new", "posting"},
           p.phase \in {"refused", "completed", "failed"},
           p.phase = "completed" <=> name = "completed",
           Observe(r, name, attempt, usage),
           usage = 1 => p.phase # "refused",
           used' = IF usage = 1 THEN used \cup {r} ELSE used,
           gauges' = IF r \in Waiting THEN Finished(gauges) ELSE Finished(Started(gauges))
    PROVE  /\ requests' \in [Requests -> RequestRecords] /\ gauges' \in [inFlight : Nat, highest : Nat]
           /\ reports' \in [Requests -> Seq(Reports)] /\ counted' \in Nat /\ used' \in SUBSET Requests
           /\ MetricsInv'
  <1>1. /\ requests' \in [Requests -> RequestRecords] /\ requests'[r] = p
        /\ \A x \in Requests \ {r} : requests'[x] = requests[x]
    BY DEF ClientsInv, CallsTyped
  <1>2. r \notin Waiting'
    BY <1>1 DEF Waiting
  <1>3. gauges.inFlight \in Nat /\ gauges.highest \in Nat
    BY DEF ClientsInv, CallsTyped
  <1>4. /\ IsFiniteSet(Waiting') /\ Cardinality(Waiting) \in Nat
        /\ Cardinality(Waiting)' = Cardinality(Waiting)
             + (IF r \in Waiting THEN 0 ELSE IF r \in Waiting' THEN 1 ELSE 0)
             - (IF r \in Waiting THEN IF r \in Waiting' THEN 0 ELSE 1 ELSE 0)
        /\ r \in Waiting => Cardinality(Waiting) > 0
    BY <1>1, WaitingIs DEF ClientsInv
  <1>5. /\ gauges' \in [inFlight : Nat, highest : Nat] /\ gauges'.inFlight = Cardinality(Waiting)'
        /\ gauges'.inFlight <= gauges'.highest
    <2>1. gauges = [inFlight |-> gauges.inFlight, highest |-> gauges.highest]
      BY DEF ClientsInv, CallsTyped
    <2>2. /\ Finished(gauges) = [inFlight |-> gauges.inFlight - 1, highest |-> gauges.highest]
          /\ Started(gauges).inFlight = gauges.inFlight + 1 /\ Started(gauges).highest \in Nat
          /\ Started(gauges).highest >= gauges.highest
          /\ Finished(Started(gauges)) = [inFlight |-> gauges.inFlight, highest |-> Started(gauges).highest]
      BY <1>3, <2>1 DEF Started, Finished
    <2>3. CASE r \in Waiting
      BY <1>2, <1>3, <1>4, <2>2, <2>3 DEF ClientsInv, MetricsInv
    <2>4. CASE r \notin Waiting
      BY <1>2, <1>3, <1>4, <2>2, <2>4 DEF ClientsInv, MetricsInv
    <2> QED
      BY <2>3, <2>4
  <1>6. ToldOf(r) /\ reports[r] = <<>> /\ r \notin used
    BY DEF ToldOf, ClientsInv, MetricsInv
  <1>7. /\ reports' \in [Requests -> Seq(Reports)]
        /\ reports'[r] = <<[name |-> name, attempt |-> attempt]>>
        /\ \A x \in Requests \ {r} : reports'[x] = reports[x]
    <2>1. [name |-> name, attempt |-> attempt] \in Reports
      BY DEF Reports
    <2>2. Append(<<>>, [name |-> name, attempt |-> attempt]) = <<[name |-> name, attempt |-> attempt]>>
      OBVIOUS
    <2> QED
      BY <1>6, <2>1, <2>2 DEF Observe, ClientsInv, CallsTyped
  <1>8. IsFiniteSet(used') /\ used' \in SUBSET Requests /\ counted' \in Nat /\ counted' = Cardinality(used')
    <2>1. IsFiniteSet(used) /\ counted = Cardinality(used) /\ counted \in Nat /\ counted' = counted + usage
      BY DEF ClientsInv, MetricsInv, CallsTyped, Observe
    <2>2. IsFiniteSet(used \cup {r}) /\ Cardinality(used \cup {r}) = Cardinality(used) + 1
      BY <1>6, <2>1, FS_AddElement
    <2> QED
      BY <2>1, <2>2 DEF ClientsInv, CallsTyped
  <1>9. ASSUME NEW x \in Requests PROVE ToldOf(x)'
    <2>1. CASE x = r
      <3>1. Len(reports'[r]) = 1 /\ reports'[r][1].name = name
        BY <1>7
      <3> QED
        BY <1>1, <1>6, <2>1, <3>1 DEF ToldOf
    <2>2. CASE x # r
      BY <1>1, <1>7, <2>2 DEF ToldOf, ClientsInv, MetricsInv
    <2> QED
      BY <2>1, <2>2
  <1> QED
    BY <1>1, <1>4, <1>5, <1>7, <1>8, <1>9 DEF MetricsInv

-----------------------------------------------------------------------------
(* Every operation of the client.                                          *)

\* A refused request is told of at once, and was never in flight for others to see.
LEMMA InvokeSound ==
    ASSUME ClientsInv, NEW r \in Requests, NEW keyed \in BOOLEAN, Invoke(r, keyed)
    PROVE  ClientsInv'
  <1>1. requests[r] \in RequestRecords /\ requests[r].phase = "new" /\ r \notin Waiting
    BY DEF Invoke, ClientsInv, CallsTyped, Waiting
  <1>2. CASE client = "gateway" /\ IsOpen
    <2> DEFINE p == [requests[r] EXCEPT !.phase = "refused", !.keyed = keyed]
    <2>1. /\ requests' = [requests EXCEPT ![r] = p] /\ gauges' = Finished(Started(gauges))
          /\ Observe(r, "failed", 1, 0) /\ UNCHANGED <<circuit, client, outcomes, used, now>>
      BY <1>2 DEF Invoke, UnknownAttempt
    <2>2. p \in RequestRecords /\ p.phase = "refused"
      BY <1>1 DEF RequestRecords, CallPhases
    <2> HIDE DEF p
    <2> DEFINE word == "failed" attempt == 1 usage == 0
    <2>5. /\ word \in {"completed", "failed"} /\ attempt \in Nat /\ usage \in {0, 1}
          /\ Observe(r, word, attempt, usage) /\ usage # 1
          /\ p.phase = "completed" <=> word = "completed"
          /\ used' = IF usage = 1 THEN used \cup {r} ELSE used
      BY <2>1, <2>2
    <2> HIDE DEF word, attempt, usage
    <2>3. /\ requests' \in [Requests -> RequestRecords] /\ gauges' \in [inFlight : Nat, highest : Nat]
          /\ reports' \in [Requests -> Seq(Reports)] /\ counted' \in Nat /\ used' \in SUBSET Requests
          /\ MetricsInv'
      BY <1>1, <2>1, <2>2, <2>5, LoudStep
    <2>4. CircuitInv' /\ circuit' \in Circuits
      BY <2>1, CircuitStays DEF ClientsInv
    <2> QED
      BY <2>1, <2>3, <2>4 DEF ClientsInv, CallsTyped
  <1>3. CASE ~(client = "gateway" /\ IsOpen)
    <2> DEFINE p == [phase |-> "posting", keyed |-> keyed, attempt |-> 1]
    <2>1. /\ requests' = [requests EXCEPT ![r] = p] /\ gauges' = Started(gauges)
          /\ circuit' \in {circuit, Closed}
          /\ UNCHANGED <<reports, counted, client, outcomes, used, now>>
      BY <1>3 DEF Invoke
    <2>2. p \in RequestRecords /\ p.phase = "posting"
      BY DEF RequestRecords, CallPhases
    <2> HIDE DEF p
    <2>3. /\ requests' \in [Requests -> RequestRecords] /\ gauges' \in [inFlight : Nat, highest : Nat]
          /\ MetricsInv'
      BY <1>1, <2>1, <2>2, SilentStep
    <2>4. CircuitInv' /\ circuit' \in Circuits
      BY <2>1, CircuitStays DEF ClientsInv
    <2> QED
      BY <2>1, <2>3, <2>4 DEF ClientsInv, CallsTyped
  <1> QED
    BY <1>2, <1>3

\* How a request that was posted ends.
LEMMA EndSound ==
    ASSUME ClientsInv, NEW r \in Requests, NEW phase \in {"completed", "failed"},
           NEW attempt \in Nat, NEW usage \in {0, 1},
           requests[r].phase = "posting", EndsAs(r, phase), Observe(r, phase, attempt, usage),
           used' = IF usage = 1 THEN used \cup {r} ELSE used, UNCHANGED <<client, now>>,
           CircuitInv', circuit' \in Circuits, outcomes' \in Seq(Outcomes)
    PROVE  ClientsInv'
  <1> DEFINE p == [requests[r] EXCEPT !.phase = phase]
  <1>1. requests[r] \in RequestRecords /\ r \in Waiting
    BY DEF ClientsInv, CallsTyped, Waiting
  <1>2. requests' = [requests EXCEPT ![r] = p] /\ gauges' = Finished(gauges)
    BY DEF EndsAs
  <1>3. p \in RequestRecords /\ p.phase = phase
    BY <1>1 DEF RequestRecords, CallPhases
  <1> HIDE DEF p
  <1>4. /\ requests' \in [Requests -> RequestRecords] /\ gauges' \in [inFlight : Nat, highest : Nat]
        /\ reports' \in [Requests -> Seq(Reports)] /\ counted' \in Nat /\ used' \in SUBSET Requests
        /\ MetricsInv'
    BY <1>1, <1>2, <1>3, LoudStep
  <1> QED
    BY <1>4 DEF ClientsInv, CallsTyped

LEMMA RejectedSound ==
    ASSUME ClientsInv, NEW r \in Requests, Rejected(r)
    PROVE  ClientsInv'
  <1>1. CircuitInv' /\ circuit' \in Circuits /\ outcomes' \in Seq(Outcomes)
    BY CircuitStays DEF ClientsInv, CallsTyped, Rejected
  <1>2. /\ requests[r].phase = "posting" /\ EndsAs(r, "failed") /\ Observe(r, "failed", 1, 0)
        /\ used' = used /\ UNCHANGED <<client, now>>
    BY DEF Rejected, UnknownAttempt
  <1> QED
    BY <1>1, <1>2, EndSound

LEMMA PostFailedSound ==
    ASSUME ClientsInv, NEW r \in Requests, PostFailed(r)
    PROVE  ClientsInv'
  <1>1. CircuitInv' /\ circuit' \in Circuits /\ outcomes' \in Seq(Outcomes)
    BY RecordSound DEF ClientsInv, PostFailed, Outcomes
  <1>2. CASE requests[r].attempt = Attempts(r)
    <2>1. /\ requests[r].phase = "posting" /\ EndsAs(r, "failed") /\ Observe(r, "failed", 1, 0)
          /\ used' = used /\ UNCHANGED <<client, now>>
      BY <1>2 DEF PostFailed, UnknownAttempt
    <2> QED
      BY <1>1, <2>1, EndSound
  <1>3. CASE requests[r].attempt # Attempts(r)
    <2> DEFINE p == [requests[r] EXCEPT !.phase = "delayed"]
    <2>1. /\ requests' = [requests EXCEPT ![r] = p] /\ requests[r].phase = "posting"
          /\ UNCHANGED <<gauges, reports, counted, client, used, now>>
      BY <1>3 DEF PostFailed
    <2>2. requests[r] \in RequestRecords /\ r \in Waiting
      BY <2>1 DEF ClientsInv, CallsTyped, Waiting
    <2>3. p \in RequestRecords /\ p.phase = "delayed"
      BY <2>2 DEF RequestRecords, CallPhases
    <2> HIDE DEF p
    <2>4. /\ requests' \in [Requests -> RequestRecords] /\ gauges' \in [inFlight : Nat, highest : Nat]
          /\ MetricsInv'
      BY <2>1, <2>2, <2>3, SilentStep
    <2> QED
      BY <1>1, <2>1, <2>4 DEF ClientsInv, CallsTyped
  <1> QED
    BY <1>2, <1>3

LEMMA PostAgainSound ==
    ASSUME ClientsInv, NEW r \in Requests, PostAgain(r)
    PROVE  ClientsInv'
  <1> DEFINE p == [phase |-> "posting", keyed |-> requests[r].keyed, attempt |-> requests[r].attempt + 1]
  <1>1. requests[r] \in RequestRecords /\ requests[r].phase = "delayed" /\ r \in Waiting
    BY DEF PostAgain, ClientsInv, CallsTyped, Waiting
  <1>2. /\ requests' = [requests EXCEPT ![r] = p]
        /\ UNCHANGED <<client, circuit, outcomes, gauges, reports, counted, used, now>>
    BY <1>1 DEF PostAgain, ClientsInv, CallsTyped, RequestRecords
  <1>3. p \in RequestRecords /\ p.phase = "posting"
    BY <1>1 DEF RequestRecords, CallPhases
  <1> HIDE DEF p
  <1>4. /\ requests' \in [Requests -> RequestRecords] /\ gauges' \in [inFlight : Nat, highest : Nat]
        /\ MetricsInv'
    BY <1>1, <1>2, <1>3, SilentStep
  <1>5. CircuitInv' /\ circuit' \in Circuits
    BY <1>2, CircuitStays DEF ClientsInv
  <1> QED
    BY <1>2, <1>4, <1>5 DEF ClientsInv, CallsTyped

LEMMA RespondedSound ==
    ASSUME ClientsInv, NEW r \in Requests, NEW valid \in BOOLEAN, Responded(r, valid)
    PROVE  ClientsInv'
  <1> DEFINE phase == IF valid THEN "completed" ELSE "failed"
  <1>1. CircuitInv' /\ circuit' \in Circuits /\ outcomes' \in Seq(Outcomes)
    BY RecordSound DEF ClientsInv, Responded, Outcomes
  <1>2. UsageOf(valid) \in {0, 1} /\ requests[r].attempt \in Nat
    BY DEF UsageOf, ClientsInv, CallsTyped, RequestRecords
  <1>3. /\ requests[r].phase = "posting" /\ EndsAs(r, phase)
        /\ Observe(r, phase, requests[r].attempt, UsageOf(valid))
        /\ used' = (IF UsageOf(valid) = 1 THEN used \cup {r} ELSE used) /\ UNCHANGED <<client, now>>
    BY DEF Responded, UsageOf
  <1>4. phase \in {"completed", "failed"}
    OBVIOUS
  <1> HIDE DEF phase
  <1> QED
    BY <1>1, <1>2, <1>3, <1>4, EndSound

LEMMA CancelRequestSound ==
    ASSUME ClientsInv, NEW r \in Requests, CancelRequest(r)
    PROVE  ClientsInv'
  <1> DEFINE p == [requests[r] EXCEPT !.phase = "cancelled"]
  <1>1. requests[r] \in RequestRecords /\ requests[r].phase \in {"posting", "delayed"} /\ r \in Waiting
    BY DEF CancelRequest, ClientsInv, CallsTyped, Waiting
  <1>2. /\ requests' = [requests EXCEPT ![r] = p] /\ gauges' = Finished(gauges)
        /\ UNCHANGED <<client, circuit, outcomes, reports, counted, used, now>>
    BY DEF CancelRequest, EndsAs
  <1>3. p \in RequestRecords /\ p.phase = "cancelled"
    BY <1>1 DEF RequestRecords, CallPhases
  <1> HIDE DEF p
  <1>4. /\ requests' \in [Requests -> RequestRecords] /\ gauges' \in [inFlight : Nat, highest : Nat]
        /\ MetricsInv'
    BY <1>1, <1>2, <1>3, SilentStep
  <1>5. CircuitInv' /\ circuit' \in Circuits
    BY <1>2, CircuitStays DEF ClientsInv
  <1> QED
    BY <1>2, <1>4, <1>5 DEF ClientsInv, CallsTyped

\* What leaves the client alone, whatever the clock does.
LEMMA ClockSound ==
    ASSUME ClientsInv, UNCHANGED ClientVars, now' \in {now, now + 1}
    PROVE  ClientsInv'
  <1>1. now' \in Nat \ {0}
    BY DEF ClientsInv, CallsTyped
  <1>2. CallsTyped'
    BY <1>1 DEF ClientsInv, CallsTyped, ClientVars
  <1>3. CircuitInv'
    BY DEF ClientsInv, CircuitInv, ClientVars
  <1>4. MetricsInv'
    <2>1. \A r \in Requests : ToldOf(r)'
      BY DEF ClientsInv, MetricsInv, ToldOf, ClientVars
    <2>2. Waiting' = Waiting
      BY DEF Waiting, ClientVars
    <2> QED
      BY <2>1, <2>2 DEF ClientsInv, MetricsInv, ClientVars
  <1> QED
    BY <1>2, <1>3, <1>4 DEF ClientsInv

LEMMA ClientsInvInit == CallsInit => ClientsInv
  <1> SUFFICES ASSUME CallsInit PROVE ClientsInv
    OBVIOUS
  <1>1. CallsTyped
    <2>1. <<>> \in Seq(Outcomes) /\ <<>> \in Seq(Reports)
      OBVIOUS
    <2> QED
      BY <2>1 DEF CallsInit, CallsTyped, RequestRecords, CallPhases, Circuits
  <1>2. CircuitInv
    BY NumbersAre DEF CallsInit, CircuitInv
  <1>3. MetricsInv
    <2>1. Waiting = {} /\ used = {}
      BY DEF CallsInit, Waiting
    <2>2. \A r \in Requests : ToldOf(r)
      BY DEF CallsInit, ToldOf
    <2> QED
      BY <2>1, <2>2, FS_EmptySet DEF CallsInit, MetricsInv
  <1> QED
    BY <1>1, <1>2, <1>3 DEF ClientsInv

LEMMA ClientsInvStep == ClientsInv /\ [ClientsNext]_<<callVars, healthVars>> => ClientsInv'
  <1> SUFFICES ASSUME ClientsInv, [ClientsNext]_<<callVars, healthVars>> PROVE ClientsInv'
    OBVIOUS
  <1>1. ASSUME NEW r \in Requests, NEW keyed \in BOOLEAN, Invoke(r, keyed) PROVE ClientsInv'
    BY <1>1, InvokeSound
  <1>2. ASSUME NEW r \in Requests, Rejected(r) PROVE ClientsInv'
    BY <1>2, RejectedSound
  <1>3. ASSUME NEW r \in Requests, PostFailed(r) PROVE ClientsInv'
    BY <1>3, PostFailedSound
  <1>4. ASSUME NEW r \in Requests, PostAgain(r) PROVE ClientsInv'
    BY <1>4, PostAgainSound
  <1>5. ASSUME NEW r \in Requests, CancelRequest(r) PROVE ClientsInv'
    BY <1>5, CancelRequestSound
  <1>6. ASSUME NEW r \in Requests, NEW valid \in BOOLEAN, Responded(r, valid) PROVE ClientsInv'
    BY <1>6, RespondedSound
  <1>7. CASE Tick
    BY <1>7, ClockSound DEF Tick, ClientVars
  <1>8. CASE (HealthNext \/ HealthTick) /\ UNCHANGED ClientVars
    BY <1>8, ClockSound DEF HealthNext, HealthTick
  <1>9. CASE UNCHANGED <<callVars, healthVars>>
    BY <1>9, ClockSound DEF callVars, ClientVars
  <1> QED
    BY <1>1, <1>2, <1>3, <1>4, <1>5, <1>6, <1>7, <1>8, <1>9 DEF ClientsNext, CallsNext, Request, ClientVars

LEMMA ClientsInvMeans == ClientsInv => CircuitHonest /\ RequestsTold
  <1> SUFFICES ASSUME ClientsInv PROVE CircuitHonest /\ RequestsTold
    OBVIOUS
  <1>1. CircuitHonest
    BY NumbersAre, LenProperties DEF ClientsInv, CallsTyped, CircuitInv, CircuitHonest, Circuits
  <1>2. ASSUME NEW r \in Requests
        PROVE  /\ requests[r].phase \in {"completed", "failed", "refused"} => Len(reports[r]) = 1
               /\ requests[r].phase \in {"new", "posting", "delayed", "cancelled"} => reports[r] = <<>>
               /\ requests[r].phase = "completed" <=> \E i \in DOMAIN reports[r] : reports[r][i].name = "completed"
    <2>1. ToldOf(r) /\ requests[r].phase \in CallPhases /\ reports[r] \in Seq(Reports)
      BY DEF ClientsInv, MetricsInv, CallsTyped, RequestRecords
    <2>2. DOMAIN reports[r] = 1..Len(reports[r])
      BY <2>1, LenProperties
    <2> QED
      BY <2>1, <2>2 DEF ToldOf, CallPhases
  <1>3. RequestsTold
    BY <1>2 DEF RequestsTold, ClientsInv, MetricsInv
  <1> QED
    BY <1>1, <1>3

-----------------------------------------------------------------------------
(* The cached health.                                                      *)

\* PollBounded is inductive once the times are numbers; what is cached is no newer than now.
HealthInv == ProbesTyped /\ now \in Nat \ {0} /\ cached.at <= now /\ PollBounded

LEMMA HealthIs ==
    ASSUME NEW S \in SUBSET Providers, NEW found \in [S -> BOOLEAN]
    PROVE  HealthOf(found) \in {"ready", "degraded", "unavailable"}
  BY DEF HealthOf

\* A call of health that is over, or has not got the lock, disturbs no probe.
LEMMA ProberIs ==
    ASSUME HealthInv, NEW p \in Probers, NEW r \in ProberRecords,
           probers' = [probers EXCEPT ![p] = r], r.phase # "probing", UNCHANGED <<services, cached, now>>
    PROVE  HealthInv'
  <1>1. /\ probers' \in [Probers -> ProberRecords] /\ probers'[p] = r
        /\ \A q \in Probers \ {p} : probers'[q] = probers[q]
    BY DEF HealthInv, ProbesTyped
  <1>2. ProbesTyped'
    BY <1>1 DEF HealthInv, ProbesTyped
  <1>3. PollBounded'
    BY <1>1 DEF HealthInv, PollBounded
  <1> QED
    BY <1>2, <1>3 DEF HealthInv

LEMMA ClockHealth ==
    ASSUME HealthInv, UNCHANGED healthVars, now' \in {now, now + 1}
    PROVE  HealthInv'
  <1>1. now' \in Nat \ {0} /\ cached'.at <= now'
    BY DEF HealthInv, ProbesTyped, healthVars
  <1>2. ProbesTyped'
    BY DEF HealthInv, ProbesTyped, healthVars
  <1>3. PollBounded'
    BY DEF HealthInv, PollBounded, healthVars
  <1> QED
    BY <1>1, <1>2, <1>3 DEF HealthInv

LEMMA AnsweredHealth ==
    ASSUME HealthInv, NEW p \in Probers, NEW status \in {"none", "ready", "degraded", "unavailable"},
           HealthAnswer(p, status), UNCHANGED <<services, cached, now>>
    PROVE  HealthInv'
  <1> DEFINE r == [probers[p] EXCEPT !.phase = "answered", !.answer = status]
  <1>1. probers[p] \in ProberRecords
    BY DEF HealthInv, ProbesTyped
  <1>2. probers' = [probers EXCEPT ![p] = r]
    BY DEF HealthAnswer, HealthInv, ProbesTyped
  <1>3. r \in ProberRecords /\ r.phase = "answered"
    BY <1>1 DEF ProberRecords
  <1> HIDE DEF r
  <1> QED
    BY <1>2, <1>3, ProberIs

LEMMA AskHealthSound ==
    ASSUME HealthInv, NEW p \in Probers, AskHealth(p), UNCHANGED now
    PROVE  HealthInv'
  <1>1. CASE IsFresh
    BY <1>1, AnsweredHealth DEF AskHealth, HealthInv, ProbesTyped
  <1>2. CASE ~IsFresh
    <2> DEFINE r == [probers[p] EXCEPT !.phase = "waiting"]
    <2>1. probers[p] \in ProberRecords /\ probers' = [probers EXCEPT ![p] = r]
      BY <1>2 DEF AskHealth, HealthInv, ProbesTyped
    <2>2. r \in ProberRecords /\ r.phase = "waiting"
      BY <2>1 DEF ProberRecords
    <2> HIDE DEF r
    <2> QED
      BY <2>1, <2>2, ProberIs DEF AskHealth
  <1> QED
    BY <1>1, <1>2

\* Who gets the lock finds nobody probing, and nothing in the cache that is young enough.
LEMMA EnterSound ==
    ASSUME HealthInv, NEW p \in Probers, Enter(p), UNCHANGED now
    PROVE  HealthInv'
  <1>1. CASE IsFresh
    BY <1>1, AnsweredHealth DEF Enter, HealthInv, ProbesTyped
  <1>2. CASE ~IsFresh
    <2> DEFINE r == [probers[p] EXCEPT !.phase = "probing", !.since = now]
    <2>1. probers[p] \in ProberRecords /\ probers' = [probers EXCEPT ![p] = r] /\ UNCHANGED <<services, cached>>
      BY <1>2 DEF Enter, HealthInv, ProbesTyped
    <2>2. r \in ProberRecords /\ r.since = now
      BY <2>1 DEF ProberRecords, HealthInv
    <2> HIDE DEF r
    <2>3. /\ probers' \in [Probers -> ProberRecords] /\ probers'[p] = r
          /\ \A q \in Probers \ {p} : probers'[q] = probers[q]
      BY <2>1, <2>2 DEF HealthInv, ProbesTyped
    <2>4. \A q \in Probers : probers[q].phase # "probing"
      BY DEF Enter
    <2>5. cached.at = 0 \/ now - cached.at >= Ttl
      BY <1>2, NumbersAre DEF IsFresh, HealthInv, ProbesTyped
    <2>6. ProbesTyped'
      BY <2>1, <2>3 DEF HealthInv, ProbesTyped
    <2>7. PollBounded'
      BY <2>1, <2>2, <2>3, <2>4, <2>5 DEF PollBounded
    <2> QED
      BY <2>1, <2>6, <2>7 DEF HealthInv
  <1> QED
    BY <1>1, <1>2

LEMMA ProbeSound ==
    ASSUME HealthInv, NEW p \in Probers, NEW s \in Providers, Probe(p, s), UNCHANGED now
    PROVE  HealthInv'
  <1> DEFINE more == [x \in DOMAIN probers[p].found \cup {s} |->
                        IF x = s THEN services[s] ELSE probers[p].found[x]]
             r == [probers[p] EXCEPT !.found = more]
  <1>1. probers[p] \in ProberRecords /\ probers' = [probers EXCEPT ![p] = r] /\ UNCHANGED <<services, cached>>
    BY DEF Probe, HealthInv, ProbesTyped
  <1>2. PICK S \in SUBSET Providers : probers[p].found \in [S -> BOOLEAN]
    BY <1>1 DEF ProberRecords
  <1>3. more \in [S \cup {s} -> BOOLEAN] /\ S \cup {s} \in SUBSET Providers
    BY <1>2 DEF HealthInv, ProbesTyped
  <1>4. more \in UNION {[T -> BOOLEAN] : T \in SUBSET Providers}
    BY <1>3
  <1> HIDE DEF more
  <1>5. r \in ProberRecords /\ r.phase = probers[p].phase /\ r.since = probers[p].since
    BY <1>1, <1>4 DEF ProberRecords
  <1> HIDE DEF r
  <1>6. /\ probers' \in [Probers -> ProberRecords] /\ probers'[p] = r
        /\ \A q \in Probers \ {p} : probers'[q] = probers[q]
    BY <1>1, <1>5 DEF HealthInv, ProbesTyped
  <1>7. ProbesTyped'
    BY <1>1, <1>6 DEF HealthInv, ProbesTyped
  <1>8. PollBounded'
    BY <1>1, <1>5, <1>6 DEF HealthInv, PollBounded
  <1> QED
    BY <1>1, <1>7, <1>8 DEF HealthInv

\* Who keeps a result was alone with its probe.
LEMMA KeepSound ==
    ASSUME HealthInv, NEW p \in Probers, Keep(p), UNCHANGED now
    PROVE  HealthInv'
  <1> DEFINE status == HealthOf(probers[p].found)
             r == [probers[p] EXCEPT !.phase = "answered", !.answer = status]
  <1>1. /\ probers[p] \in ProberRecords /\ probers' = [probers EXCEPT ![p] = r] /\ UNCHANGED services
        /\ cached' = [at |-> now, status |-> status]
    BY DEF Keep, HealthAnswer, HealthInv, ProbesTyped
  <1>2. status \in {"ready", "degraded", "unavailable"}
    BY <1>1, HealthIs DEF ProberRecords
  <1> HIDE DEF status
  <1>3. r \in ProberRecords /\ r.phase = "answered"
    BY <1>1, <1>2 DEF ProberRecords
  <1> HIDE DEF r
  <1>4. /\ probers' \in [Probers -> ProberRecords] /\ probers'[p] = r
        /\ \A q \in Probers \ {p} : probers'[q] = probers[q]
    BY <1>1, <1>3 DEF HealthInv, ProbesTyped
  <1>5. ProbesTyped' /\ cached'.at = now
    BY <1>1, <1>2, <1>4 DEF HealthInv, ProbesTyped
  <1>6. \A q \in Probers : probers'[q].phase # "probing"
    BY <1>3, <1>4 DEF Keep, HealthInv, PollBounded
  <1> QED
    BY <1>5, <1>6 DEF HealthInv, PollBounded

LEMMA ChangeSound ==
    ASSUME HealthInv, NEW s \in Providers, Change(s), UNCHANGED now
    PROVE  HealthInv'
  <1>1. services' \in [Providers -> BOOLEAN]
    BY DEF Change, HealthInv, ProbesTyped
  <1> QED
    BY <1>1 DEF Change, HealthInv, ProbesTyped, PollBounded

LEMMA HealthInvInit == CallsInit /\ HealthInit => HealthInv
  <1> SUFFICES ASSUME CallsInit, HealthInit PROVE HealthInv
    OBVIOUS
  <1>1. <<>> \in [{} -> BOOLEAN]
    OBVIOUS
  <1>2. <<>> \in UNION {[S -> BOOLEAN] : S \in SUBSET Providers}
    BY <1>1
  <1>3. ProbesTyped
    BY <1>2 DEF HealthInit, ProbesTyped, ProberRecords, NoHealth
  <1> QED
    BY <1>3 DEF HealthInit, CallsInit, HealthInv, PollBounded, NoHealth

LEMMA HealthInvStep == HealthInv /\ [ClientsNext]_<<callVars, healthVars>> => HealthInv'
  <1> SUFFICES ASSUME HealthInv, [ClientsNext]_<<callVars, healthVars>> PROVE HealthInv'
    OBVIOUS
  <1>1. CASE UNCHANGED healthVars /\ now' \in {now, now + 1}
    BY <1>1, ClockHealth
  <1>2. ASSUME NEW p \in Probers, AskHealth(p), UNCHANGED now PROVE HealthInv'
    BY <1>2, AskHealthSound
  <1>3. ASSUME NEW p \in Probers, Enter(p), UNCHANGED now PROVE HealthInv'
    BY <1>3, EnterSound
  <1>4. ASSUME NEW p \in Probers, Keep(p), UNCHANGED now PROVE HealthInv'
    BY <1>4, KeepSound
  <1>5. ASSUME NEW p \in Probers, Leave(p), UNCHANGED now PROVE HealthInv'
    BY <1>5, AnsweredHealth DEF Leave
  <1>6. ASSUME NEW p \in Probers, NEW s \in Providers, Probe(p, s), UNCHANGED now PROVE HealthInv'
    BY <1>6, ProbeSound
  <1>7. ASSUME NEW s \in Providers, Change(s), UNCHANGED now PROVE HealthInv'
    BY <1>7, ChangeSound
  <1>8. CASE HealthNext
    BY <1>2, <1>3, <1>4, <1>5, <1>6, <1>7, <1>8 DEF HealthNext
  <1>9. CASE HealthTick \/ (CallsNext /\ UNCHANGED healthVars)
    <2>1. CallsNext => now' \in {now, now + 1}
      BY DEF CallsNext, Request, Invoke, Rejected, PostFailed, PostAgain, CancelRequest, Responded, Tick
    <2> QED
      BY <1>1, <1>9, <2>1 DEF HealthTick
  <1>10. CASE UNCHANGED <<callVars, healthVars>>
    BY <1>1, <1>10 DEF callVars
  <1>11. CASE ClientsNext
    BY <1>8, <1>9, <1>11 DEF ClientsNext
  <1> QED
    BY <1>10, <1>11

\* However many requests share a client, in whatever order they are answered or cancelled:
\* the circuit is open after the failures in a row that it is set to and not otherwise,
\* every request is told of once, the gauges and costs are exact, and there is one probe at
\* a time, none while a result is young.
THEOREM CallsAreSound == ClientsSpec => []CallsSound
  <1>1. ClientsInv /\ HealthInv => CallsSound
    BY ClientsInvMeans DEF HealthInv, CallsSound
  <1> QED
    BY <1>1, ClientsInvInit, ClientsInvStep, HealthInvInit, HealthInvStep, PTL DEF ClientsSpec

-----------------------------------------------------------------------------
(***************************************************************************)
(* Application                                                             *)
(***************************************************************************)
Closings == [of : {"runs", "index", "client", "traces"}, ok : BOOLEAN]

\* Routes answer while the process serves, resources are closed after that.
LifeInv ==
    /\ settings.direct \in BOOLEAN
    /\ closings \in Seq(Closings)
    /\ life \in {"starting", "composing", "layout", "refused"} => answered = NothingAsked
    /\ life \notin {"stopping", "stopped"} => closings = <<>>

\* What is closed was due: the resources before it were closed, if the process has them.
ClosingsInv ==
    /\ Shut("index") /\ Owned("runs") => Shut("runs")
    /\ life = "stopped" => \A resource \in ToSet(ShutdownOrder) : ~Due(resource)

ProcessInv == LifeInv /\ HealthHonest /\ GuardsSuffice /\ ClosingsInv

LEMMA OrderIs ==
  /\ ToSet(ShutdownOrder) = {"runs", "index", "client", "traces"}
  /\ DOMAIN ShutdownOrder = 1..4
  /\ ShutdownOrder[1] = "runs" /\ ShutdownOrder[2] = "index"
  /\ ShutdownOrder[3] = "client" /\ ShutdownOrder[4] = "traces"
  BY DEF ShutdownOrder, ToSet

\* The turn of each resource.
LEMMA DueIs ==
  /\ Due("runs") <=> Owned("runs") /\ ~Shut("runs")
  /\ Due("index") <=> Owned("index") /\ ~Shut("index") /\ (Owned("runs") => Shut("runs"))
  /\ Due("client") <=> /\ Owned("client") /\ ~Shut("client")
                       /\ \A r \in {"runs", "index"} : Owned(r) => Shut(r)
  /\ Due("traces") <=> /\ Owned("traces") /\ ~Shut("traces") /\ ~ShutInError("client")
                       /\ \A r \in {"runs", "index", "client"} : Owned(r) => Shut(r)
  <1> DEFINE Nth(r) == CHOOSE i \in DOMAIN ShutdownOrder : ShutdownOrder[i] = r
  <1>1. Nth("runs") = 1 /\ Nth("index") = 2 /\ Nth("client") = 3 /\ Nth("traces") = 4
    <2>1. \A i \in DOMAIN ShutdownOrder : /\ ShutdownOrder[i] = "runs" <=> i = 1
                                          /\ ShutdownOrder[i] = "index" <=> i = 2
                                          /\ ShutdownOrder[i] = "client" <=> i = 3
                                          /\ ShutdownOrder[i] = "traces" <=> i = 4
      BY OrderIs
    <2>2. {1, 2, 3, 4} \subseteq DOMAIN ShutdownOrder
      BY OrderIs
    <2> QED
      BY <2>1, <2>2
  <1>2. \A r : Due(r) <=> /\ Owned(r) /\ ~Shut(r)
                          /\ \A i \in 1..Nth(r) - 1 : Owned(ShutdownOrder[i]) => Shut(ShutdownOrder[i])
                          /\ r = "traces" => ~ShutInError("client")
    BY DEF Due
  <1> HIDE DEF Nth
  <1>3. 1..0 = {} /\ 1..1 = {1} /\ 1..2 = {1, 2} /\ 1..3 = {1, 2, 3}
    OBVIOUS
  <1>4. /\ Nth("runs") - 1 = 0 /\ Nth("index") - 1 = 1 /\ Nth("client") - 1 = 2 /\ Nth("traces") - 1 = 3
    BY <1>1
  <1> QED
    BY <1>2, <1>3, <1>4, OrderIs

\* A service of the composition is there or not by what decides it.
LEMMA ServicesAre ==
  /\ "process" \in Services
  /\ "extractor" \in Services <=> ~settings.direct
  /\ "manager" \in Services <=> HasIndex
  /\ "runner" \in Services <=> HasIndex
  /\ "agentChat" \in Services => HasIndex
  /\ "index" \in Services <=> HasIndex
  BY DEF Services, ModelServices, DocumentServices, IngestionServices, LegacyServices,
         AgentServices, TopicServices

LEMMA RepliesAre ==
  /\ Reply("process") = "served" <=> "extractor" \in Services
  /\ Reply("ingest") = "served" <=> "indexDocument" \in Services
  /\ Reply("search") = "served" <=> "retrieve" \in Services
  /\ Reply("chat") = "served" <=> "answer" \in Services
  /\ \A route : /\ Reply(route) \in {"unavailable", "served", "error"}
                /\ Reply(route) = "error" => settings.direct
  <1>1. /\ Guards.process = {"process"} /\ Guards.ingest = {"indexDocument"}
        /\ Guards.search = {"retrieve"} /\ Guards.chat = {"answer"}
    BY DEF Guards
  <1>2. /\ Needs("process") = {"extractor"} /\ Needs("ingest") = {} /\ Needs("search") = {}
        /\ Needs("chat") = {} /\ \A route : Needs(route) \subseteq {"extractor"}
    BY DEF Needs
  <1> QED
    BY <1>1, <1>2, ServicesAre DEF Reply

LEMMA ProcessInvInit == ApplicationInit => ProcessInv
  <1> SUFFICES ASSUME ApplicationInit PROVE ProcessInv
    OBVIOUS
  <1>1. closings = <<>> /\ closings \in Seq(Closings)
    BY EmptySeq DEF ApplicationInit
  <1>2. answered.route = "none" /\ answered.reply = "none"
    BY DEF ApplicationInit, NothingAsked, AnswerOf
  <1>3. ~Shut("index")
    BY <1>1 DEF Shut
  <1>4. settings.direct \in BOOLEAN
    BY DEF ApplicationInit, NoSettings
  <1> QED
    BY <1>1, <1>2, <1>3, <1>4
       DEF ApplicationInit, ProcessInv, LifeInv, HealthHonest, GuardsSuffice, ClosingsInv

\* Before it serves, the process has answered nothing and closed nothing.
LEMMA StartingSound ==
  ASSUME ProcessInv, ReadEnvironment \/ Compose
  PROVE  ProcessInv'
  <1>1. /\ UNCHANGED <<answered, closings>> /\ answered = NothingAsked /\ closings = <<>>
        /\ life' \in {"layout", "composing", "refused", "serving"}
    BY DEF ReadEnvironment, Compose, ProcessInv, LifeInv
  <1>2. settings'.direct \in BOOLEAN
    <2>1. \A env : SettingsOf(env).direct \in BOOLEAN
      BY DEF SettingsOf, Direct
    <2> QED
      BY <2>1 DEF ReadEnvironment, Compose, ProcessInv, LifeInv
  <1>3. answered'.route = "none" /\ answered'.reply = "none"
    BY <1>1 DEF NothingAsked, AnswerOf
  <1>4. ~Shut("index")'
    BY <1>1 DEF Shut
  <1> QED
    BY <1>1, <1>2, <1>3, <1>4 DEF ProcessInv, LifeInv, HealthHonest, GuardsSuffice, ClosingsInv

LEMMA CallSound ==
  ASSUME ProcessInv, Call
  PROVE  ProcessInv'
  <1>1. life = "serving" /\ UNCHANGED <<life, settings, overrides, closings>> /\ closings = <<>>
    BY DEF Call, ProcessInv, LifeInv
  <1>2. LifeInv'
    BY <1>1 DEF ProcessInv, LifeInv
  <1>3. ClosingsInv'
    <2>1. ~Shut("index")'
      BY <1>1 DEF Shut
    <2> QED
      BY <1>1, <2>1 DEF ClosingsInv
  <1>4. Services' = Services /\ \A route : Reply(route)' = Reply(route)
    BY <1>1 DEF Services, ModelServices, DocumentServices, IngestionServices, LegacyServices,
                AgentServices, TopicServices, HasClient, HasIndex, Reply
  <1>5. ASSUME NEW route \in DOMAIN Guards, answered' = AnswerOf(route, Reply(route), NoStatuses)
        PROVE  HealthHonest' /\ GuardsSuffice'
    <2>1. route # "health" /\ route # "agentMessage"
      BY DEF Guards
    <2>2. answered'.route = route /\ answered'.reply = Reply(route)
      BY <1>5 DEF AnswerOf
    <2>3. Reply(route) # "grounded"
      BY DEF Reply
    <2> QED
      BY <1>1, <2>1, <2>2, <2>3, RepliesAre DEF HealthHonest, GuardsSuffice
  <1>6. ASSUME answered' = AnswerOf("agentMessage", MessageReply, NoStatuses)
        PROVE  HealthHonest' /\ GuardsSuffice'
    <2>1. MessageReply \in {"agent", "unavailable"}
      BY ServicesAre DEF MessageReply
    <2>2. answered'.route = "agentMessage" /\ answered'.reply = MessageReply
      BY <1>6 DEF AnswerOf
    <2>3. /\ answered'.route # "health" /\ answered'.reply # "error"
          /\ answered'.reply # "grounded"
      BY <2>1, <2>2
    <2> QED
      BY <2>3 DEF HealthHonest, GuardsSuffice
  <1>7. ASSUME NEW remote \in {"ready", "unavailable"},
               answered' = AnswerOf("health", "served",
                                    [r \in HealthRoutes |-> CapabilityStatus(r, remote)])
        PROVE  HealthHonest' /\ GuardsSuffice'
    <2>1. /\ answered'.route = "health" /\ answered'.reply = "served"
          /\ \A r \in HealthRoutes : answered'.health[r] = CapabilityStatus(r, remote)
      BY <1>7 DEF AnswerOf
    <2>2. \A r \in HealthRoutes : CapabilityStatus(r, remote) = "disabled" <=> Capability(r) \notin Services
      BY DEF CapabilityStatus
    <2>3. \A r \in HealthRoutes : Capability(r) \in Services <=> Reply(r) = "served"
      BY RepliesAre DEF Capability, HealthRoutes
    <2> QED
      BY <1>4, <2>1, <2>2, <2>3 DEF HealthHonest, GuardsSuffice
  <1>8. HealthHonest' /\ GuardsSuffice'
    BY <1>5, <1>6, <1>7 DEF Call
  <1> QED
    BY <1>2, <1>3, <1>8 DEF ProcessInv

LEMMA StopSound ==
  ASSUME ProcessInv, Stop
  PROVE  ProcessInv'
  <1>1. /\ life' = "stopping" /\ UNCHANGED <<settings, overrides, closings>>
        /\ answered'.route = "none" /\ answered'.reply = "none"
    BY DEF Stop, NothingAsked, AnswerOf
  <1>2. ClosingsInv'
    BY <1>1 DEF ProcessInv, ClosingsInv, Shut, Owned, HasIndex, HasClient, Services, ModelServices,
                DocumentServices, IngestionServices, LegacyServices, AgentServices, TopicServices
  <1> QED
    BY <1>1, <1>2 DEF ProcessInv, LifeInv, HealthHonest, GuardsSuffice

\* What the process owns and offers goes by its settings and overrides.
LEMMA OffersStay ==
  ASSUME UNCHANGED <<settings, overrides>>
  PROVE  /\ Services' = Services /\ \A r : Owned(r)' = Owned(r)
         /\ \A route : Reply(route)' = Reply(route)
  BY DEF Services, ModelServices, DocumentServices, IngestionServices, LegacyServices, AgentServices,
         TopicServices, HasClient, HasIndex, Reply, Owned

LEMMA CloseSound ==
  ASSUME ProcessInv, CloseResource
  PROVE  ProcessInv'
  <1>1. /\ life = "stopping" /\ UNCHANGED <<life, settings, overrides, answered>>
    BY DEF CloseResource
  <1>2. PICK resource \in {"runs", "index", "client", "traces"}, ok \in BOOLEAN :
              Due(resource) /\ closings' = Append(closings, [of |-> resource, ok |-> ok])
    BY OrderIs DEF CloseResource
  <1>3. /\ closings \in Seq(Closings) /\ [of |-> resource, ok |-> ok] \in Closings
    BY DEF ProcessInv, LifeInv, Closings
  <1>4. closings' \in Seq(Closings)
    BY <1>2, <1>3, AppendProperties
  <1>5. \A r : Shut(r)' <=> Shut(r) \/ r = resource
    <2>1. /\ DOMAIN closings' = 1..(Len(closings) + 1) /\ DOMAIN closings = 1..Len(closings)
          /\ Len(closings) \in Nat
          /\ closings'[Len(closings) + 1] = [of |-> resource, ok |-> ok]
          /\ \A i \in 1..Len(closings) : closings'[i] = closings[i]
      BY <1>2, <1>3, <1>4, AppendProperties, LenProperties
    <2> QED
      BY <2>1 DEF Shut
  <1>6. ClosingsInv'
    BY <1>1, <1>2, <1>5, OffersStay, DueIs DEF ProcessInv, ClosingsInv
  <1>7. LifeInv' /\ HealthHonest' /\ GuardsSuffice'
    BY <1>1, <1>4, OffersStay DEF ProcessInv, LifeInv, HealthHonest, GuardsSuffice
  <1> QED
    BY <1>6, <1>7 DEF ProcessInv

LEMMA ExitSound ==
  ASSUME ProcessInv, Exit
  PROVE  ProcessInv'
  <1>1. /\ life = "stopping" /\ life' = "stopped" /\ UNCHANGED <<settings, overrides, answered, closings>>
        /\ \A resource \in ToSet(ShutdownOrder) : ~Due(resource)
    BY DEF Exit
  <1>2. \A r : Due(r)' = Due(r) /\ Shut(r)' = Shut(r)
    BY <1>1, OffersStay DEF Due, Shut, ShutInError
  <1>3. ClosingsInv'
    BY <1>1, <1>2, OffersStay DEF ProcessInv, ClosingsInv
  <1> QED
    BY <1>1, <1>3, OffersStay DEF ProcessInv, LifeInv, HealthHonest, GuardsSuffice

LEMMA ProcessInvStep == ProcessInv /\ [ApplicationNext]_applicationVars => ProcessInv'
  <1> SUFFICES ASSUME ProcessInv, [ApplicationNext]_applicationVars PROVE ProcessInv'
    OBVIOUS
  <1>1. CASE UNCHANGED applicationVars
    <2>1. UNCHANGED <<life, settings, overrides, answered, closings>>
      BY <1>1 DEF applicationVars
    <2>2. \A r : Due(r)' = Due(r) /\ Shut(r)' = Shut(r)
      BY <2>1, OffersStay DEF Due, Shut, ShutInError
    <2> QED
      BY <2>1, <2>2, OffersStay
         DEF ProcessInv, LifeInv, HealthHonest, GuardsSuffice, ClosingsInv
  <1>2. CASE ApplicationNext
    BY <1>2, StartingSound, CallSound, StopSound, CloseSound, ExitSound DEF ApplicationNext
  <1> QED
    BY <1>1, <1>2

\* Whatever the environment and the overrides, in whatever order routes are asked and
\* resources fail to close: the health report agrees with what routes do, no guard is
\* too weak but that of an extraction, and the process closes what it owns in order.
THEOREM ProcessIsSound == ApplicationSpec => []ApplicationSound
  <1>1. ProcessInv => ApplicationSound
    <2> SUFFICES ASSUME ProcessInv PROVE ApplicationSound
      OBVIOUS
    <2>1. ASSUME life = "stopped", NEW resource \in ToSet(ShutdownOrder),
                 Owned(resource) /\ ~Shut(resource)
          PROVE  resource = "traces" /\ ShutInError("client")
      BY <2>1, DueIs, OrderIs DEF ProcessInv, ClosingsInv
    <2>2. "index" \in Services /\ Shut("index") => Shut("runs")
      BY ServicesAre DEF ProcessInv, ClosingsInv, Owned
    <2> QED
      BY <2>1, <2>2 DEF ProcessInv, ApplicationSound, ClosedInOrder
  <1> QED
    BY <1>1, ProcessInvInit, ProcessInvStep, PTL DEF ApplicationSpec

-----------------------------------------------------------------------------
(***************************************************************************)
(* Preparation                                                             *)
(***************************************************************************)

(* Parts of a row: what cutting may change.                                *)

\* The same tokens, but for halves of characters that were replaced.
Blurs(s, t) ==
    /\ s \in Seq(Tokens) /\ t \in Seq(Tokens) /\ Len(s) = Len(t)
    /\ \A i \in 1 .. Len(t) : s[i] = t[i] \/ (s[i] = "x" /\ t[i] \in {"h", "l"})

\* Nothing replaced.
LEMMA BlursSelf == \A s \in Seq(Tokens) : Blurs(s, s)
  BY DEF Blurs

\* Replacing in each of two replaces in both together ...
LEMMA BlursJoins ==
    ASSUME NEW a, NEW b, NEW c, NEW d, Blurs(a, c), Blurs(b, d)
    PROVE  Blurs(a \o b, c \o d)
  <1> DEFINE Y == Tokens
  <1> HIDE DEF Y
  <1>1. /\ a \in Seq(Y) /\ b \in Seq(Y) /\ c \in Seq(Y) /\ d \in Seq(Y)
        /\ Len(a) = Len(c) /\ Len(b) = Len(d)
    BY DEF Blurs, Y
  <1>2. /\ a \o b \in Seq(Y) /\ Len(a \o b) = Len(c) + Len(d)
        /\ \A i \in 1 .. Len(c) + Len(d) : (a \o b)[i] = IF i <= Len(c) THEN a[i] ELSE b[i - Len(c)]
    <2>1. /\ a \o b \in Seq(Y) /\ Len(a \o b) = Len(a) + Len(b)
          /\ \A i \in 1 .. Len(a) + Len(b) : (a \o b)[i] = IF i <= Len(a) THEN a[i] ELSE b[i - Len(a)]
      BY <1>1, ConcatProperties
    <2> QED
      BY <1>1, <2>1
  <1>3. /\ c \o d \in Seq(Y) /\ Len(c \o d) = Len(c) + Len(d) /\ Len(c) \in Nat /\ Len(d) \in Nat
        /\ \A i \in 1 .. Len(c) + Len(d) : (c \o d)[i] = IF i <= Len(c) THEN c[i] ELSE d[i - Len(c)]
    BY <1>1, ConcatProperties
  <1> DEFINE s == a \o b
             t == c \o d
  <1> HIDE DEF s, t
  <1>4. ASSUME NEW i \in 1 .. Len(t)
        PROVE  s[i] = t[i] \/ (s[i] = "x" /\ t[i] \in {"h", "l"})
    <2>1. i \in 1 .. Len(c) + Len(d)
      BY <1>3 DEF t
    <2>2. CASE i <= Len(c)
      <3>1. s[i] = a[i] /\ t[i] = c[i] /\ i \in 1 .. Len(c)
        BY <1>2, <1>3, <2>1, <2>2 DEF s, t
      <3> QED
        BY <3>1 DEF Blurs
    <2>3. CASE ~(i <= Len(c))
      <3>1. s[i] = b[i - Len(c)] /\ t[i] = d[i - Len(c)] /\ i - Len(c) \in 1 .. Len(d)
        BY <1>2, <1>3, <2>1, <2>3 DEF s, t
      <3> QED
        BY <3>1 DEF Blurs
    <2> QED
      BY <2>2, <2>3
  <1>5. s \in Seq(Tokens) /\ t \in Seq(Tokens) /\ Len(s) = Len(t)
    BY <1>2, <1>3 DEF s, t, Y
  <1>6. Blurs(s, t)
    BY <1>4, <1>5 DEF Blurs
  <1> QED
    BY <1>6 DEF s, t

\* ... and in all of a sequence.
LEMMA BlursFlatten ==
    ASSUME NEW ss \in Seq(Seq(Tokens)), NEW ts \in Seq(Seq(Tokens)), Len(ss) = Len(ts),
           \A i \in 1 .. Len(ts) : Blurs(ss[i], ts[i])
    PROVE  Blurs(FlattenSeq(ss), FlattenSeq(ts))
  <1> DEFINE X == Tokens
             n == Len(ts)
  <1> HIDE DEF X
  <1>1. ss \in Seq(Seq(X)) /\ ts \in Seq(Seq(X)) /\ n \in Nat /\ Len(ss) = n
    BY DEF X
  <1>2. PICK f : FlatAlong(f, X, ss)
    BY <1>1, FlattenSteps
  <1>3. PICK g : FlatAlong(g, X, ts)
    BY <1>1, FlattenSteps
  <1> DEFINE T == {k \in 0 .. n : Blurs(f[k], g[k])}
  <1>4. 0 \in T
    <2>1. f[0] = <<>> /\ g[0] = <<>> /\ <<>> \in Seq(Tokens) /\ 0 \in 0 .. n
      BY <1>1, <1>2, <1>3 DEF FlatAlong
    <2> QED
      BY <2>1, BlursSelf
  <1>5. ASSUME NEW k \in 1 .. n, k - 1 \in T
        PROVE  k \in T
    <2>1. f[k] = f[k - 1] \o ss[k] /\ g[k] = g[k - 1] \o ts[k]
      BY <1>1, <1>2, <1>3 DEF FlatAlong
    <2>2. Blurs(f[k - 1], g[k - 1]) /\ Blurs(ss[k], ts[k]) /\ k \in 0 .. n
      BY <1>1, <1>5
    <2>3. Blurs(f[k - 1] \o ss[k], g[k - 1] \o ts[k])
      BY <2>2, BlursJoins
    <2> QED
      BY <2>1, <2>2, <2>3
  <1> HIDE DEF T
  <1>6. n \in T
    <2>1. \A k \in 0 .. n : k \in T
      BY <1>1, <1>4, <1>5, Climb
    <2> QED
      BY <1>1, <2>1
  <1> QED
    BY <1>1, <1>2, <1>3, <1>6 DEF FlatAlong, T

\* What a text has but for its spaces ...
LEMMA LooseIs ==
    ASSUME NEW s \in Seq(Tokens)
    PROVE  Loose(s) \in Seq(Tokens)
  BY AmongIs DEF Loose

\* ... of two texts is that of each ...
LEMMA LooseJoins ==
    ASSUME NEW s \in Seq(Tokens), NEW t \in Seq(Tokens)
    PROVE  s \o t \in Seq(Tokens) /\ Loose(s \o t) = Loose(s) \o Loose(t)
  BY AmongJoins DEF Loose

\* ... and a replacement changes none of its places.
LEMMA BlursLoose ==
    ASSUME NEW s, NEW t, Blurs(s, t)
    PROVE  Blurs(Loose(s), Loose(t))
  <1> DEFINE X == Tokens
             n == Len(t)
             S == Tokens \ {"s"}
  <1>1. /\ s \in Seq(Tokens) /\ t \in Seq(Tokens) /\ n \in Nat /\ Len(s) = n
        /\ \A k \in 1 .. n : s[k] \in Tokens /\ t[k] \in Tokens
    BY DEF Blurs
  <1>2. PICK f : AmongAlong(f, Tokens, s, S)
    BY <1>1, AmongSteps
  <1>3. PICK g : AmongAlong(g, Tokens, t, S)
    BY <1>1, AmongSteps
  <1> DEFINE T == {k \in 0 .. n : Blurs(f[k], g[k])}
  <1>4. 0 \in T
    <2>1. f[0] = <<>> /\ g[0] = <<>> /\ <<>> \in Seq(Tokens) /\ 0 \in 0 .. n
      BY <1>1, <1>2, <1>3 DEF AmongAlong
    <2> QED
      BY <2>1, BlursSelf
  <1>5. ASSUME NEW k \in 1 .. n, k - 1 \in T
        PROVE  k \in T
    <2>1. f[k] = TakenWith(f[k - 1], s[k], S) /\ g[k] = TakenWith(g[k - 1], t[k], S)
      BY <1>1, <1>2, <1>3 DEF AmongAlong
    <2>2. Blurs(f[k - 1], g[k - 1]) /\ k \in 0 .. n
      BY <1>1, <1>5
    <2>3. f[k - 1] \in Seq(Tokens) /\ g[k - 1] \in Seq(Tokens)
      BY <2>2 DEF Blurs
    <2>4. s[k] = t[k] \/ (s[k] = "x" /\ t[k] \in {"h", "l"})
      BY DEF Blurs
    <2>5. CASE t[k] \notin S
      <3>1. f[k] = f[k - 1] /\ g[k] = g[k - 1]
        BY <1>1, <2>1, <2>4, <2>5 DEF TakenWith, Tokens
      <3> QED
        BY <2>2, <3>1
    <2>6. CASE t[k] \in S
      <3>1. f[k] = Append(f[k - 1], s[k]) /\ g[k] = Append(g[k - 1], t[k])
        BY <1>1, <2>1, <2>4, <2>6 DEF TakenWith, Tokens
      <3>2. f[k] = f[k - 1] \o <<s[k]>> /\ g[k] = g[k - 1] \o <<t[k]>>
        BY <1>1, <2>3, <3>1, AppendBehind
      <3>3. Blurs(<<s[k]>>, <<t[k]>>)
        BY <1>1, <2>4 DEF Blurs
      <3>4. Blurs(f[k - 1] \o <<s[k]>>, g[k - 1] \o <<t[k]>>)
        BY <2>2, <3>3, BlursJoins
      <3> QED
        BY <2>2, <3>2, <3>4
    <2> QED
      BY <2>5, <2>6
  <1> HIDE DEF T
  <1>6. n \in T
    <2>1. \A k \in 0 .. n : k \in T
      BY <1>1, <1>4, <1>5, Climb
    <2> QED
      BY <1>1, <2>1
  <1> QED
    BY <1>1, <1>2, <1>3, <1>6 DEF AmongAlong, T, Loose

\* Joining blocks adds spaces only.
LEMMA JoinedIs ==
    ASSUME NEW bs \in Seq(Seq(Tokens))
    PROVE  /\ Joined(bs) \in Seq(Tokens) /\ FlattenSeq(bs) \in Seq(Tokens)
           /\ Loose(Joined(bs)) = Loose(FlattenSeq(bs))
  <1> DEFINE n == Len(bs)
             js == [i \in DOMAIN bs |-> IF i = 1 THEN bs[i] ELSE <<"s">> \o bs[i]]
             solid == Tokens \ {"s"}
  <1>1. n \in Nat /\ DOMAIN bs = 1 .. n /\ \A i \in 1 .. n : bs[i] \in Seq(Tokens)
    OBVIOUS
  <1>2. <<"s">> \in Seq(Tokens) /\ Among(<<"s">>, solid) = <<>>
    <2>1. "s" \in Tokens /\ "s" \notin solid
      BY DEF Tokens
    <2> QED
      BY <2>1, AmongOne
  <1>3. ASSUME NEW i \in 1 .. n
        PROVE  js[i] \in Seq(Tokens) /\ Among(js[i], solid) = Among(bs[i], solid)
    <2>1. Among(bs[i], solid) \in Seq(Tokens)
      BY <1>1, AmongIs
    <2> HIDE DEF solid
    <2>2. Among(<<"s">> \o bs[i], solid) = Among(<<"s">>, solid) \o Among(bs[i], solid)
      <3>1. bs[i] \in Seq(Tokens)
        BY <1>1
      <3>2. \A a, b \in Seq(Tokens) : Loose(a \o b) = Loose(a) \o Loose(b)
        BY LooseJoins
      <3>3. Loose(<<"s">> \o bs[i]) = Loose(<<"s">>) \o Loose(bs[i])
        BY <1>2, <3>1, <3>2
      <3> QED
        BY <3>3 DEF Loose, solid
    <2>3. <<>> \o Among(bs[i], solid) = Among(bs[i], solid)
      BY <2>1, ConcatEmptySeq
    <2>4. <<"s">> \o bs[i] \in Seq(Tokens)
      BY <1>1, <1>2, ConcatProperties
    <2>5. js[i] = IF i = 1 THEN bs[i] ELSE <<"s">> \o bs[i]
      BY <1>1
    <2> HIDE DEF js
    <2> QED
      BY <1>1, <1>2, <2>2, <2>3, <2>4, <2>5
  <1>4. js \in Seq(Seq(Tokens)) /\ DOMAIN js = 1 .. n
    BY <1>1, <1>3
  <1>5. Joined(bs) = FlattenSeq(js)
    BY DEF Joined
  <1> HIDE DEF js, solid
  <1>6. [k \in DOMAIN js |-> Among(js[k], solid)] = [k \in DOMAIN bs |-> Among(bs[k], solid)]
    BY <1>1, <1>3, <1>4
  <1>7. Among(FlattenSeq(js), solid) = Among(FlattenSeq(bs), solid)
    <2>1. Among(FlattenSeq(js), solid) = FlattenSeq([k \in DOMAIN js |-> Among(js[k], solid)])
      BY <1>4, AmongFlattened
    <2>2. Among(FlattenSeq(bs), solid) = FlattenSeq([k \in DOMAIN bs |-> Among(bs[k], solid)])
      BY AmongFlattened
    <2> QED
      BY <1>6, <2>1, <2>2
  <1>8. FlattenSeq(js) \in Seq(Tokens) /\ FlattenSeq(bs) \in Seq(Tokens)
    BY <1>4, FlattenIs
  <1> QED
    BY <1>5, <1>7, <1>8 DEF Loose, solid

-----------------------------------------------------------------------------
(* A block that is too large.                                              *)

\* Stripping takes spaces only.
LEMMA Strips ==
    ASSUME NEW t \in Seq(Tokens)
    PROVE  /\ Stripped(t) \in Seq(Tokens) /\ Len(Stripped(t)) <= Len(t)
           /\ Loose(Stripped(t)) = Loose(t)
  <1> DEFINE hard == {i \in DOMAIN t : t[i] # "s"}
             solid == Tokens \ {"s"}
  <1>1. DOMAIN t = 1 .. Len(t) /\ Len(t) \in Nat /\ \A i \in 1 .. Len(t) : t[i] \in Tokens
    OBVIOUS
  <1>2. CASE hard = {}
    <2>1. Among(t, solid) = <<>>
      BY <1>1, <1>2, AmongOthers
    <2>2. Among(<<>>, solid) = <<>> /\ Stripped(t) = <<>> /\ <<>> \in Seq(Tokens) /\ Len(<<>>) = 0
      BY <1>2, AmongNone DEF Stripped
    <2> QED
      BY <1>1, <2>1, <2>2 DEF Loose
  <1>3. CASE hard # {}
    <2> DEFINE lo == Min(hard)
               hi == Max(hard)
               a == SubSeq(t, 1, lo - 1)
               b == SubSeq(t, lo, hi)
               c == SubSeq(t, hi + 1, Len(t))
    <2>1. lo \in hard /\ \A i \in hard : lo <= i
      <3>1. hard \subseteq Nat
        BY <1>1
      <3> HIDE DEF hard
      <3> QED
        BY <1>3, <3>1, Smallest
    <2>2. hi \in hard /\ \A i \in hard : i <= hi
      <3>1. hard \subseteq 0 .. Len(t)
        BY <1>1
      <3> HIDE DEF hard
      <3> QED
        BY <1>1, <1>3, <3>1, Greatest
    <2> HIDE DEF lo, hi
    <2>3. lo \in 1 .. Len(t) /\ hi \in lo .. Len(t)
      BY <1>1, <2>1, <2>2
    <2>4. /\ a \in Seq(Tokens) /\ b \in Seq(Tokens) /\ c \in Seq(Tokens)
          /\ Len(a) = lo - 1 /\ Len(b) = hi - lo + 1 /\ Len(c) = Len(t) - hi
          /\ \A i \in 1 .. lo - 1 : a[i] = t[i]
          /\ \A i \in 1 .. Len(t) - hi : c[i] = t[hi + i]
          /\ t = (a \o b) \o c
      <3>1. a \in Seq(Tokens) /\ Len(a) = lo - 1 /\ \A i \in 1 .. lo - 1 : a[i] = t[i]
        <4>1. 1 \in 1 .. Len(t) + 1 /\ lo - 1 \in 1 - 1 .. Len(t) /\ (lo - 1) - 1 + 1 = lo - 1
          BY <1>1, <2>3
        <4>2. /\ a \in Seq(Tokens) /\ Len(a) = (lo - 1) - 1 + 1
              /\ \A i \in 1 .. (lo - 1) - 1 + 1 : a[i] = t[1 + i - 1]
          BY <4>1, CutIs
        <4> HIDE DEF a
        <4> QED
          BY <2>3, <4>1, <4>2
      <3>2. b \in Seq(Tokens) /\ Len(b) = hi - lo + 1
        <4>1. lo \in 1 .. Len(t) + 1 /\ hi \in lo - 1 .. Len(t)
          BY <1>1, <2>3
        <4> QED
          BY <4>1, CutIs
      <3>3. c \in Seq(Tokens) /\ Len(c) = Len(t) - hi /\ \A i \in 1 .. Len(t) - hi : c[i] = t[hi + i]
        <4>1. /\ hi + 1 \in 1 .. Len(t) + 1 /\ Len(t) \in (hi + 1) - 1 .. Len(t)
              /\ Len(t) - (hi + 1) + 1 = Len(t) - hi
          BY <1>1, <2>3
        <4>2. /\ c \in Seq(Tokens) /\ Len(c) = Len(t) - (hi + 1) + 1
              /\ \A i \in 1 .. Len(t) - (hi + 1) + 1 : c[i] = t[hi + 1 + i - 1]
          BY <4>1, CutIs
        <4>3. \A i \in 1 .. Len(t) - hi : hi + 1 + i - 1 = hi + i
          BY <1>1, <2>3
        <4> HIDE DEF c
        <4> QED
          BY <4>1, <4>2, <4>3
      <3>4. t = (a \o b) \o c
        BY <2>3, CutTwice
      <3> QED
        BY <3>1, <3>2, <3>3, <3>4
    <2>5. Stripped(t) = b
      BY <1>3 DEF Stripped, lo, hi
    <2> HIDE DEF a, b, c
    <2>6. \A i \in 1 .. Len(a) : a[i] \notin solid
      <3> SUFFICES ASSUME NEW i \in 1 .. Len(a)
                   PROVE  a[i] \notin solid
        OBVIOUS
      <3>1. i \in 1 .. lo - 1 /\ i \in 1 .. Len(t) /\ ~(lo <= i)
        BY <1>1, <2>3, <2>4
      <3>2. a[i] = t[i] /\ i \notin hard
        BY <2>1, <2>4, <3>1
      <3> QED
        BY <1>1, <3>1, <3>2
    <2>7. \A i \in 1 .. Len(c) : c[i] \notin solid
      <3> SUFFICES ASSUME NEW i \in 1 .. Len(c)
                   PROVE  c[i] \notin solid
        OBVIOUS
      <3>1. i \in 1 .. Len(t) - hi /\ hi + i \in 1 .. Len(t) /\ ~(hi + i <= hi)
        BY <1>1, <2>3, <2>4
      <3>2. c[i] = t[hi + i] /\ hi + i \notin hard
        BY <2>2, <2>4, <3>1
      <3> QED
        BY <1>1, <3>1, <3>2
    <2>8. Loose(a) = <<>> /\ Loose(c) = <<>>
      BY <2>4, <2>6, <2>7, AmongOthers DEF Loose
    <2>9. Loose(b) \in Seq(Tokens) /\ a \o b \in Seq(Tokens)
      BY <2>4, LooseIs, LooseJoins
    <2>10. Loose((a \o b) \o c) = (Loose(a) \o Loose(b)) \o Loose(c)
      <3>1. Loose(a \o b) = Loose(a) \o Loose(b)
        BY <2>4, LooseJoins
      <3>2. Loose((a \o b) \o c) = Loose(a \o b) \o Loose(c)
        BY <2>4, <2>9, LooseJoins
      <3> QED
        BY <3>1, <3>2
    <2>11. (<<>> \o Loose(b)) \o <<>> = Loose(b)
      BY <2>9, ConcatEmptySeq
    <2>12. Len(b) <= Len(t)
      BY <1>1, <2>3, <2>4
    <2>13. Loose(t) = Loose(b)
      BY <2>4, <2>8, <2>10, <2>11
    <2> QED
      BY <2>4, <2>5, <2>12, <2>13
  <1> QED
    BY <1>2, <1>3

\* Decoding replaces halves that are alone.
LEMMA Decodes ==
    ASSUME NEW slice \in Seq(Tokens)
    PROVE  Blurs(Decoded(slice), slice)
  <1>1. DOMAIN slice = 1 .. Len(slice) /\ Len(slice) \in Nat
    OBVIOUS
  <1>2. Decoded(slice) = [i \in 1 .. Len(slice) |->
                             IF \/ slice[i] = "h" /\ i = Len(slice)
                                \/ slice[i] = "l" /\ i = 1
                             THEN "x" ELSE slice[i]]
    BY <1>1 DEF Decoded
  <1>3. Decoded(slice) \in [1 .. Len(slice) -> Tokens]
    BY <1>2 DEF Tokens
  <1>4. Decoded(slice) \in Seq(Tokens) /\ Len(Decoded(slice)) = Len(slice)
    BY <1>1, <1>3
  <1>5. \A i \in 1 .. Len(slice) :
           Decoded(slice)[i] = slice[i] \/ (Decoded(slice)[i] = "x" /\ slice[i] \in {"h", "l"})
    BY <1>2
  <1> QED
    BY <1>4, <1>5 DEF Blurs

\* The slices of a large block have its content, and fit.
LEMMA LargeBlockSplits ==
    ASSUME NEW header \in Nat, header < SplitTarget, NEW block \in Seq(Tokens)
    PROVE  /\ SplitLargeBlock(header, block) \in Seq(Seq(Tokens))
           /\ \A n \in 1 .. Len(SplitLargeBlock(header, block)) :
                 header + Len(SplitLargeBlock(header, block)[n]) <= SplitTarget
           /\ Blurs(Loose(FlattenSeq(SplitLargeBlock(header, block))), Loose(block))
  <1> DEFINE size == Len(block)
             budget == SplitTarget - header
             slices == (size + budget - 1) \div budget
             End(n) == IF n * budget < size THEN n * budget ELSE size
             Cut(n) == SubSeq(block, (n - 1) * budget + 1, End(n))
             cuts == [n \in 1 .. slices |-> Cut(n)]
             parts == [n \in 1 .. slices |-> Stripped(Decoded(Cut(n)))]
  <1>1. SplitLargeBlock(header, block) = parts
    BY DEF SplitLargeBlock
  <1>2. size \in Nat /\ budget \in Nat \ {0} /\ SplitTarget \in Nat /\ header + budget = SplitTarget
    BY PreparationAssumption
  <1>3. /\ slices \in Nat /\ size <= slices * budget
        /\ \A n \in 1 .. slices : /\ (n - 1) * budget \in 0 .. size /\ n * budget \in Nat
                                  /\ n * budget = (n - 1) * budget + budget
    <2> HIDE DEF size, budget
    <2> QED
      BY <1>2, SlicesCover
  <1> HIDE DEF budget, slices
  <1>4. ASSUME NEW n \in 1 .. slices
        PROVE  /\ End(n) \in (n - 1) * budget .. size /\ End(n) - (n - 1) * budget <= budget
               /\ End(n - 1) = (n - 1) * budget
    <2> DEFINE low == (n - 1) * budget
               high == n * budget
    <2>1. low \in 0 .. size /\ high \in Nat /\ high = low + budget
      BY <1>3
    <2> HIDE DEF low, high
    <2>2. End(n) = (IF high < size THEN high ELSE size) /\ End(n - 1) = (IF low < size THEN low ELSE size)
      BY DEF low, high
    <2> HIDE DEF End
    <2>3. End(n) \in low .. size /\ End(n) - low <= budget /\ End(n - 1) = low
      BY <1>2, <2>1, <2>2
    <2> QED
      BY <2>3 DEF low
  <1>5. ASSUME NEW n \in 1 .. slices
        PROVE  Cut(n) \in Seq(Tokens) /\ Len(Cut(n)) <= budget
    <2> DEFINE low == (n - 1) * budget
               high == End(n)
    <2>1. low \in 0 .. size /\ high \in low .. size /\ high - low <= budget
      BY <1>3, <1>4
    <2>2. Cut(n) = SubSeq(block, low + 1, high)
      OBVIOUS
    <2> HIDE DEF low, high, Cut
    <2>3. low + 1 \in 1 .. Len(block) + 1 /\ high \in (low + 1) - 1 .. Len(block) /\ high - (low + 1) + 1 = high - low
      BY <1>2, <2>1
    <2>4. SubSeq(block, low + 1, high) \in Seq(Tokens) /\ Len(SubSeq(block, low + 1, high)) = high - (low + 1) + 1
      BY <2>3, CutIs
    <2> QED
      BY <2>1, <2>2, <2>3, <2>4
  <1>6. cuts \in Seq(Seq(Tokens)) /\ Len(cuts) = slices /\ \A n \in 1 .. slices : cuts[n] = Cut(n)
    <2> HIDE DEF Cut
    <2> QED
      BY <1>3, <1>5
  <1>7. ASSUME NEW n \in 1 .. slices
        PROVE  /\ parts[n] \in Seq(Tokens) /\ Len(parts[n]) <= budget
               /\ Blurs(Loose(parts[n]), Loose(cuts[n]))
    <2> DEFINE cut == Cut(n)
               decoded == Decoded(cut)
    <2>1. cut \in Seq(Tokens) /\ Len(cut) <= budget
      BY <1>5
    <2>2. parts[n] = Stripped(decoded) /\ cuts[n] = cut
      OBVIOUS
    <2> HIDE DEF cut, Cut, parts, cuts
    <2>3. Blurs(decoded, cut)
      BY <2>1, Decodes
    <2> HIDE DEF decoded
    <2>4. decoded \in Seq(Tokens) /\ Len(decoded) = Len(cut)
      BY <2>3 DEF Blurs
    <2>5. /\ Stripped(decoded) \in Seq(Tokens) /\ Len(Stripped(decoded)) <= Len(decoded)
          /\ Loose(Stripped(decoded)) = Loose(decoded)
      BY <2>4, Strips
    <2>6. Blurs(Loose(decoded), Loose(cut))
      BY <2>3, BlursLoose
    <2>7. Len(Stripped(decoded)) \in Nat /\ Len(cut) \in Nat
      BY <2>1, <2>5
    <2> QED
      BY <1>2, <2>1, <2>2, <2>4, <2>5, <2>6, <2>7
  <1>8. parts \in Seq(Seq(Tokens)) /\ Len(parts) = slices
    <2>1. parts = [n \in 1 .. slices |-> parts[n]]
      OBVIOUS
    <2> HIDE DEF parts
    <2>2. \A n \in 1 .. slices : parts[n] \in Seq(Tokens)
      BY <1>7
    <2>3. \A X : \A m \in Nat : \A s :
             s = [n \in 1 .. m |-> s[n]] /\ (\A n \in 1 .. m : s[n] \in X) => s \in Seq(X) /\ Len(s) = m
      OBVIOUS
    <2>4. slices \in Nat
      BY <1>3
    <2> QED
      BY <2>1, <2>2, <2>3, <2>4
  <1>9. FlattenSeq(cuts) = block
    <2> HIDE DEF cuts, Cut
    <2>1. PICK g : FlatAlong(g, Tokens, cuts)
      BY <1>6, FlattenSteps
    <2> DEFINE T == {k \in 0 .. slices : g[k] = SubSeq(block, 1, End(k))}
    <2>2. 0 \in T
      <3>1. 0 * budget = 0
        BY <1>2
      <3>2. End(0) = 0
        BY <1>2, <3>1
      <3> HIDE DEF End
      <3> QED
        <4>1. SubSeq(block, 1, 0) = <<>>
          BY SubSeqEmpty
        <4>2. g[0] = <<>> /\ 0 \in 0 .. slices
          BY <1>3, <2>1 DEF FlatAlong
        <4> QED
          BY <3>2, <4>1, <4>2
    <2>3. ASSUME NEW k \in 1 .. slices, k - 1 \in T
          PROVE  k \in T
      <3> DEFINE low == End(k - 1)
                 high == End(k)
      <3>1. low \in 0 .. size /\ high \in low .. size
        BY <1>3, <1>4
      <3>2. g[k] = g[k - 1] \o cuts[k] /\ cuts[k] = Cut(k)
        BY <1>6, <2>1 DEF FlatAlong
      <3>3. g[k - 1] = SubSeq(block, 1, low) /\ k \in 0 .. slices
        BY <1>3, <2>3
      <3>4. Cut(k) = SubSeq(block, low + 1, high)
        BY <1>4 DEF Cut
      <3> HIDE DEF low, high, End
      <3>5. 1 \in 1 .. Len(block) + 1 /\ low \in 1 - 1 .. Len(block) /\ high \in low .. Len(block)
        BY <1>2, <3>1
      <3>6. SubSeq(block, 1, low) \o SubSeq(block, low + 1, high) = SubSeq(block, 1, high)
        BY <3>5, ConcatAdjacentSubSeq
      <3> QED
        BY <3>2, <3>3, <3>4, <3>6 DEF high
    <2> HIDE DEF T
    <2>4. slices \in T
      <3>1. \A k \in 0 .. slices : k \in T
        BY <1>3, <2>2, <2>3, Climb
      <3> QED
        BY <1>3, <3>1
    <2>5. End(slices) = size
      <3>1. slices * budget \in Int
        BY <1>2, <1>3
      <3> QED
        BY <1>2, <1>3, <3>1
    <2>6. FlattenSeq(cuts) = g[slices]
      BY <1>6, <2>1 DEF FlatAlong
    <2> QED
      BY <2>4, <2>5, <2>6, SubSeqFull DEF T
  <1>10. Blurs(Loose(FlattenSeq(parts)), Loose(block))
    <2> DEFINE solid == Tokens \ {"s"}
    <2> HIDE DEF parts, cuts
    <2> DEFINE ss == [k \in DOMAIN parts |-> Among(parts[k], solid)]
               ts == [k \in DOMAIN cuts |-> Among(cuts[k], solid)]
    <2>1. ss \in Seq(Seq(Tokens)) /\ Among(FlattenSeq(parts), solid) = FlattenSeq(ss)
      BY <1>8, AmongFlattened
    <2>2. ts \in Seq(Seq(Tokens)) /\ Among(FlattenSeq(cuts), solid) = FlattenSeq(ts)
      BY <1>6, AmongFlattened
    <2>3. DOMAIN parts = 1 .. slices /\ DOMAIN cuts = 1 .. slices
      BY <1>6, <1>8
    <2>4. Len(ss) = slices /\ Len(ts) = slices /\ \A i \in 1 .. slices : ss[i] = Loose(parts[i]) /\ ts[i] = Loose(cuts[i])
      BY <1>3, <2>3 DEF Loose
    <2> HIDE DEF ss, ts
    <2>5. Blurs(FlattenSeq(ss), FlattenSeq(ts))
      BY <1>7, <2>1, <2>2, <2>4, BlursFlatten
    <2> QED
      BY <1>9, <2>1, <2>2, <2>5 DEF Loose
  <1> HIDE DEF parts
  <1> QED
    BY <1>1, <1>2, <1>7, <1>8, <1>10

-----------------------------------------------------------------------------
(* The parts of a row.                                                     *)

Splits == [parts : Seq(Seq(Tokens)), open : Seq(Seq(Tokens))]

\* Emit and AddBlock keep the types of the parts ...
LEMMA EmitIs ==
    ASSUME NEW acc \in Splits
    PROVE  /\ Emit(acc) \in Splits /\ Emit(acc).open = <<>>
           /\ acc.open = <<>> => Emit(acc).parts = acc.parts
           /\ acc.open # <<>> => Emit(acc).parts = Append(acc.parts, Joined(acc.open))
  <1>1. acc.parts \in Seq(Seq(Tokens)) /\ acc.open \in Seq(Seq(Tokens)) /\ Joined(acc.open) \in Seq(Tokens)
    BY JoinedIs DEF Splits
  <1> DEFINE Y == Seq(Tokens)
             joined == Joined(acc.open)
             list == acc.parts
  <1> HIDE DEF Y, joined, list
  <1>2. joined \in Y /\ list \in Seq(Y)
    BY <1>1 DEF Y, joined, list
  <1>3. list \o <<joined>> = Append(list, joined) /\ Append(list, joined) \in Seq(Y) /\ list \o <<>> = list
    BY <1>2, AppendBehind, ConcatEmptySeq
  <1>4. Emit(acc) = [parts |-> list \o (IF acc.open = <<>> THEN <<>> ELSE <<joined>>), open |-> <<>>]
    BY DEF Emit, list, joined
  <1>5. /\ Emit(acc).open = <<>> /\ Emit(acc).parts = list \o (IF acc.open = <<>> THEN <<>> ELSE <<joined>>)
    BY <1>4
  <1>6. /\ acc.open = <<>> => Emit(acc).parts = list
        /\ acc.open # <<>> => Emit(acc).parts = Append(list, joined)
    BY <1>3, <1>5
  <1>7. Emit(acc).parts \in Seq(Y)
    BY <1>2, <1>3, <1>6
  <1>8. <<>> \in Seq(Y)
    OBVIOUS
  <1>9. Emit(acc) \in Splits
    BY <1>4, <1>5, <1>7, <1>8 DEF Splits, Y
  <1> QED
    BY <1>5, <1>6, <1>9 DEF list, joined

\* ... one block after the other ...
LEMMA AddIs ==
    ASSUME NEW header \in Nat, header < SplitTarget, NEW acc \in Splits, NEW block \in Seq(Tokens)
    PROVE  /\ AddBlock(header, acc, block) \in Splits
           /\ \/ /\ header + Len(Joined(Append(acc.open, block))) <= SplitTarget
                 /\ AddBlock(header, acc, block) = [acc EXCEPT !.open = Append(acc.open, block)]
              \/ /\ header + Len(block) <= SplitTarget
                 /\ AddBlock(header, acc, block) = [Emit(acc) EXCEPT !.open = <<block>>]
              \/ AddBlock(header, acc, block)
                    = [Emit(acc) EXCEPT !.parts = Emit(acc).parts \o SplitLargeBlock(header, block)]
  <1> DEFINE Y == Seq(Tokens)
             e == Emit(acc)
             large == SplitLargeBlock(header, block)
  <1>1. e \in Splits /\ large \in Seq(Y)
    BY EmitIs, LargeBlockSplits
  <1>2. block \in Y
    OBVIOUS
  <1> HIDE DEF Y, e, large
  <1>3. Append(acc.open, block) \in Seq(Y) /\ <<block>> \in Seq(Y) /\ e.parts \o large \in Seq(Y)
    <2>1. acc.open \in Seq(Y) /\ e.parts \in Seq(Y)
      BY <1>1 DEF Splits, Y
    <2> QED
      BY <1>1, <1>2, <2>1
  <1>4. /\ [acc EXCEPT !.open = Append(acc.open, block)] \in Splits
        /\ [e EXCEPT !.open = <<block>>] \in Splits
        /\ [e EXCEPT !.parts = e.parts \o large] \in Splits
    BY <1>1, <1>3 DEF Splits, Y
  <1>5. AddBlock(header, acc, block)
           = CASE header + Len(Joined(Append(acc.open, block))) <= SplitTarget ->
                     [acc EXCEPT !.open = Append(acc.open, block)]
               [] header + Len(block) <= SplitTarget -> [e EXCEPT !.open = <<block>>]
               [] OTHER -> [e EXCEPT !.parts = e.parts \o large]
    BY DEF AddBlock, Cost, e, large
  <1> DEFINE first == header + Len(Joined(Append(acc.open, block))) <= SplitTarget
             second == header + Len(block) <= SplitTarget
  <1> HIDE DEF first, second
  <1>6. AddBlock(header, acc, block)
           = CASE first -> [acc EXCEPT !.open = Append(acc.open, block)]
               [] second -> [e EXCEPT !.open = <<block>>]
               [] OTHER -> [e EXCEPT !.parts = e.parts \o large]
    BY <1>5 DEF first, second
  <1>7. \/ first /\ AddBlock(header, acc, block) = [acc EXCEPT !.open = Append(acc.open, block)]
        \/ second /\ AddBlock(header, acc, block) = [e EXCEPT !.open = <<block>>]
        \/ AddBlock(header, acc, block) = [e EXCEPT !.parts = e.parts \o large]
    BY <1>6
  <1> QED
    BY <1>4, <1>7 DEF first, second, e, large

AddAlong(g, header, blocks) ==
    /\ g \in [0 .. Len(blocks) -> Splits]
    /\ g[0] = [parts |-> <<>>, open |-> <<>>]
    /\ \A k \in 1 .. Len(blocks) : g[k] = AddBlock(header, g[k - 1], blocks[k])
    /\ FoldLeft(LAMBDA acc, b : AddBlock(header, acc, b), [parts |-> <<>>, open |-> <<>>], blocks) = g[Len(blocks)]

\* ... to the last.
LEMMA AddSteps ==
    ASSUME NEW header \in Nat, header < SplitTarget, NEW blocks \in Seq(Seq(Tokens))
    PROVE  \E g : AddAlong(g, header, blocks)
  <1> DEFINE n == Len(blocks)
             A == Splits
             base == [parts |-> <<>>, open |-> <<>>]
             With(a, x) == AddBlock(header, a, x)
             onward == [k \in 1 .. n |-> [a \in A |-> With(a, blocks[k])]]
             Solves(it) == it = [t \in SUBSET (1 .. n) |->
                                    IF t = {} THEN base ELSE With(it[t \ {Max(t)}], blocks[Max(t)])]
             c == CHOOSE it : Solves(it)
  <1>1. n \in Nat /\ DOMAIN blocks = 1 .. n /\ \A k \in 1 .. n : blocks[k] \in Seq(Tokens)
    OBVIOUS
  <1>2. base \in A /\ \A a \in A, x \in Seq(Tokens) : With(a, x) \in A
    <2>1. base \in A
      BY DEF Splits
    <2>2. \A a \in A, x \in Seq(Tokens) : With(a, x) \in A
      BY AddIs
    <2> QED
      BY <2>1, <2>2
  <1>3. onward \in [1 .. n -> [A -> A]]
    BY <1>1, <1>2
  <1>4. \E it : Solves(it)
    <2>1. PICK it : FoldOf(it, A, base, n, onward)
      <3> HIDE DEF base, onward, n, A, With
      <3> QED
        BY <1>1, <1>2, <1>3, FoldSolution
    <2>2. ASSUME NEW t \in SUBSET (1 .. n), t # {}
          PROVE  it[t] = With(it[t \ {Max(t)}], blocks[Max(t)])
      <3>1. Max(t) \in t
        <4>1. t \subseteq 0 .. n
          OBVIOUS
        <4> QED
          BY <1>1, <2>2, <4>1, Greatest
      <3>2. it[t \ {Max(t)}] \in A
        BY <2>1 DEF FoldOf
      <3> QED
        BY <2>1, <2>2, <3>1, <3>2 DEF FoldOf
    <2>3. Solves(it)
      BY <2>1, <2>2 DEF FoldOf
    <2> QED
      BY <2>3
  <1>5. Solves(c)
    <2> HIDE DEF Solves
    <2> QED
      BY <1>4
  <1>6. FoldLeft(LAMBDA acc, b : AddBlock(header, acc, b), [parts |-> <<>>, open |-> <<>>], blocks) = c[1 .. n]
    BY <1>1 DEF FoldLeft, MapThenFoldSet
  <1>7. c[{}] = base /\ \A k \in 1 .. n : c[1 .. k] = With(c[1 .. k - 1], blocks[k])
    <2>1. c[{}] = base
      BY <1>5
    <2>2. ASSUME NEW k \in 1 .. n
          PROVE  c[1 .. k] = With(c[1 .. k - 1], blocks[k])
      <3>1. /\ 1 .. k \in SUBSET (1 .. n) /\ 1 .. k # {}
            /\ Max(1 .. k) = k /\ (1 .. k) \ {k} = 1 .. k - 1
        <4>1. n \in Nat
          BY <1>1
        <4> HIDE DEF n
        <4> QED
          BY <4>1, LastOfPrefix
      <3> HIDE DEF c
      <3> QED
        BY <1>5, <3>1
    <2> HIDE DEF c
    <2> QED
      BY <2>1, <2>2
  <1>8. Walks(c, A, base, n, onward)
    <2> HIDE DEF c
    <2> QED
      BY <1>1, <1>7 DEF Walks
  <1>9. PICK g : Along(g, c, A, base, n, onward)
    <2> HIDE DEF c, base, onward, n, A, With
    <2> QED
      BY <1>1, <1>2, <1>3, <1>8, FoldAlong
  <1>10. \A k \in 1 .. n : g[k] = With(g[k - 1], blocks[k])
    <2> SUFFICES ASSUME NEW k \in 1 .. n
                 PROVE  g[k] = With(g[k - 1], blocks[k])
      OBVIOUS
    <2>1. g[k] = onward[k][g[k - 1]] /\ g[k - 1] \in A
      <3>1. k - 1 \in 0 .. n
        BY <1>1
      <3> HIDE DEF onward, A, n, base
      <3> QED
        BY <1>9, <3>1 DEF Along, Steps
    <2> QED
      BY <2>1
  <1>11. g \in [0 .. n -> A] /\ g[0] = base /\ g[n] = c[1 .. n]
    <2> HIDE DEF onward, A, n, base, c
    <2> QED
      BY <1>9 DEF Along, Steps
  <1> HIDE DEF c
  <1> QED
    BY <1>6, <1>10, <1>11 DEF AddAlong

FitsTarget(acc, header) ==
    /\ \A n \in 1 .. Len(acc.parts) : header + Len(acc.parts[n]) <= SplitTarget
    /\ acc.open # <<>> => header + Len(Joined(acc.open)) <= SplitTarget

Covers(acc, t) == Blurs(Loose(FlattenSeq(acc.parts)) \o Loose(FlattenSeq(acc.open)), Loose(t))

\* One part more.
LEMMA PartAdded ==
    ASSUME NEW ss \in Seq(Seq(Tokens)), NEW s \in Seq(Tokens), NEW header \in Nat,
           \A n \in 1 .. Len(ss) : header + Len(ss[n]) <= SplitTarget, header + Len(s) <= SplitTarget
    PROVE  /\ Append(ss, s) \in Seq(Seq(Tokens))
           /\ \A n \in 1 .. Len(Append(ss, s)) : header + Len(Append(ss, s)[n]) <= SplitTarget
           /\ Loose(FlattenSeq(Append(ss, s))) = Loose(FlattenSeq(ss)) \o Loose(s)
  <1>1. FlattenSeq(Append(ss, s)) = FlattenSeq(ss) \o s /\ FlattenSeq(ss) \in Seq(Tokens)
    BY FlattenFew, FlattenIs
  <1>2. Loose(FlattenSeq(ss) \o s) = Loose(FlattenSeq(ss)) \o Loose(s)
    BY <1>1, LooseJoins
  <1> DEFINE Y == Seq(Tokens)
             more == Append(ss, s)
  <1>3. more \in Seq(Y) /\ Len(more) = Len(ss) + 1 /\ more[Len(ss) + 1] = s /\ \A n \in 1 .. Len(ss) : more[n] = ss[n]
    <2>1. ss \in Seq(Y) /\ s \in Y
      OBVIOUS
    <2> HIDE DEF Y
    <2> QED
      BY <2>1
  <1> HIDE DEF more
  <1>4. \A n \in 1 .. Len(more) : header + Len(more[n]) <= SplitTarget
    <2> SUFFICES ASSUME NEW n \in 1 .. Len(more)
                 PROVE  header + Len(more[n]) <= SplitTarget
      OBVIOUS
    <2>1. Len(ss) \in Nat
      OBVIOUS
    <2>2. CASE n = Len(ss) + 1
      BY <1>3, <2>2
    <2>3. CASE n # Len(ss) + 1
      <3>1. n \in 1 .. Len(ss)
        BY <1>3, <2>1, <2>3
      <3> QED
        BY <1>3, <3>1
    <2> QED
      BY <2>2, <2>3
  <1> QED
    BY <1>1, <1>2, <1>3, <1>4 DEF more

\* A part that is emitted has the blocks that were open.
LEMMA EmitHolds ==
    ASSUME NEW header \in Nat, NEW acc \in Splits, NEW t \in Seq(Tokens), FitsTarget(acc, header), Covers(acc, t)
    PROVE  FitsTarget(Emit(acc), header) /\ Blurs(Loose(FlattenSeq(Emit(acc).parts)), Loose(t))
  <1> DEFINE ps == acc.parts
             os == acc.open
             e == Emit(acc)
             j == Joined(os)
  <1>1. /\ ps \in Seq(Seq(Tokens)) /\ os \in Seq(Seq(Tokens))
        /\ FlattenSeq(ps) \in Seq(Tokens) /\ FlattenSeq(os) \in Seq(Tokens)
        /\ j \in Seq(Tokens) /\ Loose(j) = Loose(FlattenSeq(os))
    <2>1. ps \in Seq(Seq(Tokens)) /\ os \in Seq(Seq(Tokens))
      BY DEF Splits
    <2> HIDE DEF ps, os
    <2> QED
      BY <2>1, FlattenIs, JoinedIs
  <1>2. /\ e \in Splits /\ e.open = <<>>
        /\ os = <<>> => e.parts = ps
        /\ os # <<>> => e.parts = Append(ps, j)
    BY EmitIs
  <1>3. /\ \A n \in 1 .. Len(ps) : header + Len(ps[n]) <= SplitTarget
        /\ os # <<>> => header + Len(j) <= SplitTarget
    BY DEF FitsTarget
  <1>4. Blurs(Loose(FlattenSeq(ps)) \o Loose(FlattenSeq(os)), Loose(t))
    BY DEF Covers
  <1> HIDE DEF ps, os, e, j
  <1>5. CASE os = <<>>
    <2>1. FlattenSeq(os) = <<>>
      BY <1>5, FlattenFew
    <2>2. Loose(<<>>) = <<>>
      BY AmongNone DEF Loose
    <2>3. Loose(FlattenSeq(ps)) \in Seq(Tokens)
      BY <1>1, LooseIs
    <2>4. Loose(FlattenSeq(ps)) \o <<>> = Loose(FlattenSeq(ps))
      BY <2>3, ConcatEmptySeq
    <2>5. Blurs(Loose(FlattenSeq(ps)), Loose(t))
      BY <1>4, <2>1, <2>2, <2>4
    <2> QED
      BY <1>2, <1>3, <1>5, <2>5 DEF FitsTarget, e
  <1>6. CASE os # <<>>
    <2>1. /\ \A n \in 1 .. Len(Append(ps, j)) : header + Len(Append(ps, j)[n]) <= SplitTarget
          /\ Loose(FlattenSeq(Append(ps, j))) = Loose(FlattenSeq(ps)) \o Loose(j)
      BY <1>1, <1>3, <1>6, PartAdded
    <2>2. Blurs(Loose(FlattenSeq(e.parts)), Loose(t))
      BY <1>1, <1>2, <1>4, <1>6, <2>1
    <2>3. FitsTarget(e, header)
      BY <1>2, <1>6, <2>1 DEF FitsTarget
    <2> QED
      BY <2>2, <2>3 DEF e
  <1> QED
    BY <1>5, <1>6

\* A block more.
LEMMA LooseMore ==
    ASSUME NEW s, NEW t \in Seq(Tokens), NEW block \in Seq(Tokens), NEW more, Blurs(s, Loose(t)), Blurs(more, Loose(block))
    PROVE  Blurs(s \o more, Loose(t \o block))
  <1>1. Blurs(s \o more, Loose(t) \o Loose(block))
    BY BlursJoins
  <1>2. Loose(t \o block) = Loose(t) \o Loose(block)
    BY LooseJoins
  <1> QED
    BY <1>1, <1>2

\* A block more is in the parts or open, and what is open fits.
LEMMA AddHolds ==
    ASSUME NEW header \in Nat, header < SplitTarget, NEW acc \in Splits, NEW t \in Seq(Tokens),
           NEW block \in Seq(Tokens), FitsTarget(acc, header), Covers(acc, t)
    PROVE  FitsTarget(AddBlock(header, acc, block), header) /\ Covers(AddBlock(header, acc, block), t \o block)
  <1> DEFINE e == Emit(acc)
             new == AddBlock(header, acc, block)
             os == acc.open
             large == SplitLargeBlock(header, block)
  <1>1. /\ e \in Splits /\ e.open = <<>> /\ FitsTarget(e, header) /\ Blurs(Loose(FlattenSeq(e.parts)), Loose(t))
    BY EmitIs, EmitHolds
  <1>2. \/ header + Len(Joined(Append(os, block))) <= SplitTarget /\ new = [acc EXCEPT !.open = Append(os, block)]
        \/ header + Len(block) <= SplitTarget /\ new = [e EXCEPT !.open = <<block>>]
        \/ new = [e EXCEPT !.parts = e.parts \o large]
    BY AddIs
  <1>3. acc.parts \in Seq(Seq(Tokens)) /\ os \in Seq(Seq(Tokens)) /\ e.parts \in Seq(Seq(Tokens))
    BY <1>1 DEF Splits
  <1>4. /\ \A n \in 1 .. Len(acc.parts) : header + Len(acc.parts[n]) <= SplitTarget
        /\ \A n \in 1 .. Len(e.parts) : header + Len(e.parts[n]) <= SplitTarget
    BY <1>1 DEF FitsTarget
  <1>5. Blurs(Loose(FlattenSeq(acc.parts)) \o Loose(FlattenSeq(os)), Loose(t))
    BY DEF Covers
  <1>6. Loose(block) \in Seq(Tokens) /\ Blurs(Loose(block), Loose(block))
    BY LooseIs, BlursSelf
  <1>7. FlattenSeq(<<block>>) = block /\ Loose(<<>>) = <<>> /\ FlattenSeq(<<>>) = <<>>
    BY FlattenFew, AmongNone DEF Loose
  <1> HIDE DEF e, os, large, new
  <1>8. CASE header + Len(Joined(Append(os, block))) <= SplitTarget /\ new = [acc EXCEPT !.open = Append(os, block)]
    <2>1. new.parts = acc.parts /\ new.open = Append(os, block)
      BY <1>8 DEF Splits
    <2> DEFINE a == Loose(FlattenSeq(acc.parts))
               b == Loose(FlattenSeq(os))
    <2>2. a \in Seq(Tokens) /\ b \in Seq(Tokens)
      BY <1>3, FlattenIs, LooseIs
    <2>3. Loose(FlattenSeq(Append(os, block))) = b \o Loose(block)
      <3>1. FlattenSeq(os) \in Seq(Tokens) /\ FlattenSeq(Append(os, block)) = FlattenSeq(os) \o block
        BY <1>3, FlattenFew, FlattenIs
      <3> QED
        BY <3>1, LooseJoins
    <2> HIDE DEF a, b
    <2>4. a \o (b \o Loose(block)) = (a \o b) \o Loose(block)
      BY <1>6, <2>2, Associates
    <2>5. Blurs((a \o b) \o Loose(block), Loose(t \o block))
      BY <1>5, <1>6, LooseMore DEF a, b
    <2>6. Covers(new, t \o block)
      BY <2>1, <2>3, <2>4, <2>5 DEF Covers, a
    <2>7. FitsTarget(new, header)
      BY <1>4, <1>8, <2>1 DEF FitsTarget
    <2> QED
      BY <2>6, <2>7 DEF new
  <1>9. CASE header + Len(block) <= SplitTarget /\ new = [e EXCEPT !.open = <<block>>]
    <2>1. new.parts = e.parts /\ new.open = <<block>>
      BY <1>1, <1>9 DEF Splits
    <2>2. Joined(<<block>>) = block
      <3> DEFINE b == <<block>>
      <3>1. DOMAIN b = 1 .. 1 /\ b = [i \in 1 .. 1 |-> block] /\ b[1] = block
        OBVIOUS
      <3>2. Joined(b) = FlattenSeq([i \in DOMAIN b |-> IF i = 1 THEN b[i] ELSE <<"s">> \o b[i]])
        BY DEF Joined
      <3>3. [i \in DOMAIN b |-> IF i = 1 THEN b[i] ELSE <<"s">> \o b[i]] = b
        BY <3>1
      <3> QED
        BY <1>7, <3>2, <3>3
    <2>3. Covers(new, t \o block)
      BY <1>1, <1>6, <1>7, <2>1, LooseMore DEF Covers
    <2>4. FitsTarget(new, header)
      BY <1>4, <1>9, <2>1, <2>2 DEF FitsTarget
    <2> QED
      BY <2>3, <2>4 DEF new
  <1>10. CASE new = [e EXCEPT !.parts = e.parts \o large]
    <2>1. /\ large \in Seq(Seq(Tokens)) /\ \A n \in 1 .. Len(large) : header + Len(large[n]) <= SplitTarget
          /\ Blurs(Loose(FlattenSeq(large)), Loose(block))
      BY LargeBlockSplits DEF large
    <2> DEFINE Y == Seq(Tokens)
               ps == e.parts \o large
               qs == e.parts
    <2>2. new.parts = ps /\ new.open = <<>>
      BY <1>1, <1>10 DEF Splits
    <2>3. qs \in Seq(Y) /\ large \in Seq(Y)
      BY <1>3, <2>1
    <2> HIDE DEF Y, qs
    <2>4. /\ ps \in Seq(Y) /\ Len(qs) \in Nat /\ Len(large) \in Nat /\ Len(ps) = Len(qs) + Len(large)
          /\ \A k \in 1 .. Len(qs) : ps[k] = qs[k]
          /\ \A k \in 1 .. Len(large) : ps[Len(qs) + k] = large[k]
      BY <2>3, PutTogether DEF qs
    <2>5. FlattenSeq(ps) = FlattenSeq(qs) \o FlattenSeq(large) /\ FlattenSeq(qs) \in Seq(Tokens) /\ FlattenSeq(large) \in Seq(Tokens)
      BY <1>3, <2>1, FlattenJoins, FlattenIs DEF qs
    <2> HIDE DEF ps
    <2>6. Loose(FlattenSeq(ps)) = Loose(FlattenSeq(qs)) \o Loose(FlattenSeq(large))
      BY <2>5, LooseJoins
    <2>7. Blurs(Loose(FlattenSeq(ps)), Loose(t \o block))
      BY <1>1, <2>1, <2>6, LooseMore DEF qs
    <2>8. Loose(FlattenSeq(ps)) \o <<>> = Loose(FlattenSeq(ps))
      <3>1. Loose(FlattenSeq(ps)) \in Seq(Tokens)
        BY <2>7 DEF Blurs
      <3> QED
        BY <3>1, ConcatEmptySeq
    <2>9. Covers(new, t \o block)
      BY <1>7, <2>2, <2>7, <2>8 DEF Covers
    <2>10. \A n \in 1 .. Len(ps) : header + Len(ps[n]) <= SplitTarget
      <3> SUFFICES ASSUME NEW n \in 1 .. Len(ps)
                   PROVE  header + Len(ps[n]) <= SplitTarget
        OBVIOUS
      <3>1. CASE n <= Len(qs)
        <4>1. n \in 1 .. Len(qs)
          BY <2>4, <3>1
        <4>2. ps[n] = qs[n]
          BY <2>4, <4>1
        <4>3. header + Len(qs[n]) <= SplitTarget
          BY <1>4, <4>1 DEF qs
        <4> QED
          BY <4>2, <4>3
      <3>2. CASE ~(n <= Len(qs))
        <4>1. n - Len(qs) \in 1 .. Len(large) /\ Len(qs) + (n - Len(qs)) = n
          BY <2>4, <3>2
        <4>2. ps[n] = large[n - Len(qs)]
          BY <2>4, <4>1
        <4> QED
          BY <2>1, <4>1, <4>2
      <3> QED
        BY <3>1, <3>2
    <2>11. FitsTarget(new, header)
      BY <2>2, <2>10 DEF FitsTarget
    <2> QED
      BY <2>9, <2>11 DEF new
  <1> QED
    BY <1>2, <1>8, <1>9, <1>10

\* The parts fit the target, and have what their blocks have.
LEMMA SplitHolds ==
    ASSUME NEW header \in Nat, header < SplitTarget, NEW blocks \in Seq(Seq(Tokens))
    PROVE  /\ SplitContent(header, blocks) \in Seq(Seq(Tokens))
           /\ \A n \in 1 .. Len(SplitContent(header, blocks)) :
                 header + Len(SplitContent(header, blocks)[n]) <= SplitTarget
           /\ Blurs(Loose(FlattenSeq(SplitContent(header, blocks))), Loose(FlattenSeq(blocks)))
  <1> DEFINE n == Len(blocks)
  <1>1. n \in Nat /\ \A k \in 1 .. n : blocks[k] \in Seq(Tokens)
    OBVIOUS
  <1>2. PICK f : FlatAlong(f, Tokens, blocks)
    BY FlattenSteps
  <1>3. PICK g : AddAlong(g, header, blocks)
    BY AddSteps
  <1> DEFINE T == {k \in 0 .. n : FitsTarget(g[k], header) /\ Covers(g[k], f[k])}
  <1>4. 0 \in T
    <2>1. g[0] = [parts |-> <<>>, open |-> <<>>] /\ f[0] = <<>> /\ 0 \in 0 .. n
      <3>1. 0 \in 0 .. n
        BY <1>1
      <3>2. g[0] = [parts |-> <<>>, open |-> <<>>]
        BY <1>3 DEF AddAlong
      <3>3. f[0] = <<>>
        BY <1>2 DEF FlatAlong
      <3> QED
        BY <3>1, <3>2, <3>3
    <2>2. Loose(<<>>) = <<>> /\ FlattenSeq(<<>>) = <<>> /\ <<>> \o <<>> = <<>>
      BY AmongNone, FlattenFew DEF Loose
    <2>3. <<>> \in Seq(Tokens) /\ Len(<<>>) = 0
      OBVIOUS
    <2>4. Blurs(<<>>, <<>>)
      BY <2>3, BlursSelf
    <2>5. g[0].parts = <<>> /\ g[0].open = <<>>
      BY <2>1
    <2>6. Covers(g[0], f[0])
      BY <2>1, <2>2, <2>4, <2>5 DEF Covers
    <2>7. FitsTarget(g[0], header)
      <3>1. 1 .. Len(g[0].parts) = {}
        BY <2>3, <2>5
      <3> QED
        BY <2>5, <3>1 DEF FitsTarget
    <2> QED
      BY <2>1, <2>6, <2>7
  <1>5. ASSUME NEW k \in 1 .. n, k - 1 \in T
        PROVE  k \in T
    <2>1. /\ g[k] = AddBlock(header, g[k - 1], blocks[k]) /\ f[k] = f[k - 1] \o blocks[k]
          /\ k - 1 \in 0 .. n /\ k \in 0 .. n
      <3>1. k - 1 \in 0 .. n /\ k \in 0 .. n
        BY <1>1
      <3>2. g[k] = AddBlock(header, g[k - 1], blocks[k])
        BY <1>3 DEF AddAlong
      <3>3. f[k] = f[k - 1] \o blocks[k]
        BY <1>2 DEF FlatAlong
      <3> QED
        BY <3>1, <3>2, <3>3
    <2>2. g[k - 1] \in Splits /\ f[k - 1] \in Seq(Tokens) /\ blocks[k] \in Seq(Tokens)
      BY <1>1, <1>2, <1>3, <2>1 DEF AddAlong, FlatAlong
    <2>3. FitsTarget(g[k - 1], header) /\ Covers(g[k - 1], f[k - 1])
      BY <1>5
    <2>4. FitsTarget(AddBlock(header, g[k - 1], blocks[k]), header) /\ Covers(AddBlock(header, g[k - 1], blocks[k]), f[k - 1] \o blocks[k])
      BY <2>2, <2>3, AddHolds
    <2> QED
      BY <2>1, <2>4
  <1> HIDE DEF T
  <1>6. n \in T
    <2>1. \A k \in 0 .. n : k \in T
      BY <1>1, <1>4, <1>5, Climb
    <2>2. n \in 0 .. n
      BY <1>1
    <2> QED
      BY <2>1, <2>2
  <1>7. FitsTarget(g[n], header) /\ Covers(g[n], FlattenSeq(blocks)) /\ g[n] \in Splits
    <2>1. n \in 0 .. n
      BY <1>1
    <2> QED
      BY <1>2, <1>3, <1>6, <2>1 DEF T, AddAlong, FlatAlong
  <1>8. SplitContent(header, blocks) = Emit(g[n]).parts
    BY <1>3 DEF AddAlong, SplitContent
  <1>9. FlattenSeq(blocks) \in Seq(Tokens)
    BY FlattenIs
  <1>10. FitsTarget(Emit(g[n]), header) /\ Blurs(Loose(FlattenSeq(Emit(g[n]).parts)), Loose(FlattenSeq(blocks)))
    BY <1>7, <1>9, EmitHolds
  <1>11. Emit(g[n]).parts \in Seq(Seq(Tokens))
    BY <1>7, EmitIs DEF Splits
  <1> QED
    BY <1>8, <1>10, <1>11 DEF FitsTarget

\* The parts of a row as the property wants them.
RowKept(p, blocks) ==
    LET got == FlattenSeq([n \in DOMAIN p |-> Loose(p[n].content)])
        content == Loose(FlattenSeq(blocks))
    IN /\ \A one \in ToSet(p) : Cost(one.header, one.content) <= TokenLimit
       /\ Len(got) = Len(content)
       /\ \A i \in DOMAIN content : got[i] # content[i] => got[i] = "x"

\* A row that is not too large is one part.
LEMMA RowWhole ==
    ASSUME NEW header \in Nat, NEW blocks \in Seq(Seq(Tokens)), header + Len(Joined(blocks)) <= TokenLimit
    PROVE  RowKept(<<[header |-> header, content |-> Joined(blocks)]>>, blocks)
  <1> DEFINE r == [header |-> header, content |-> Joined(blocks)]
             p == <<r>>
  <1>1. Joined(blocks) \in Seq(Tokens) /\ Loose(Joined(blocks)) = Loose(FlattenSeq(blocks))
    BY JoinedIs
  <1>2. r.header = header /\ r.content = Joined(blocks)
    OBVIOUS
  <1> HIDE DEF r
  <1>3. DOMAIN p = 1 .. 1 /\ p[1] = r
    OBVIOUS
  <1>4. ToSet(p) = {r}
    BY <1>3 DEF ToSet
  <1>5. [n \in DOMAIN p |-> Loose(p[n].content)] = <<Loose(r.content)>>
    <2>1. [n \in 1 .. 1 |-> Loose(p[n].content)] = [n \in 1 .. 1 |-> Loose(r.content)]
      BY <1>3
    <2>2. [n \in 1 .. 1 |-> Loose(r.content)] = <<Loose(r.content)>>
      OBVIOUS
    <2> QED
      BY <1>3, <2>1, <2>2
  <1>6. Loose(r.content) \in Seq(Tokens)
    BY <1>1, <1>2, LooseIs
  <1>7. FlattenSeq([n \in DOMAIN p |-> Loose(p[n].content)]) = Loose(FlattenSeq(blocks))
    BY <1>1, <1>2, <1>5, <1>6, FlattenFew
  <1>8. \A one \in ToSet(p) : Cost(one.header, one.content) <= TokenLimit
    BY <1>2, <1>4 DEF Cost
  <1>9. RowKept(p, blocks)
    BY <1>7, <1>8 DEF RowKept
  <1> QED
    BY <1>9 DEF r

\* A row that is: its parts have it all, and fit.
LEMMA RowParts ==
    ASSUME NEW header \in Nat, header < SplitTarget, NEW blocks \in Seq(Seq(Tokens)),
           NEW ps, ps = SplitContent(header, blocks)
    PROVE  RowKept([n \in DOMAIN ps |-> [header |-> header + SuffixCost, content |-> ps[n]]], blocks)
  <1> DEFINE p == [n \in DOMAIN ps |-> [header |-> header + SuffixCost, content |-> ps[n]]]
             content == Loose(FlattenSeq(blocks))
             got == FlattenSeq([n \in DOMAIN p |-> Loose(p[n].content)])
  <1>1. /\ ps \in Seq(Seq(Tokens)) /\ \A n \in 1 .. Len(ps) : header + Len(ps[n]) <= SplitTarget
        /\ Blurs(Loose(FlattenSeq(ps)), content)
    BY SplitHolds
  <1>2. DOMAIN ps = 1 .. Len(ps) /\ Len(ps) \in Nat /\ \A n \in 1 .. Len(ps) : Len(ps[n]) \in Nat
    BY <1>1
  <1>3. /\ DOMAIN p = DOMAIN ps
        /\ \A n \in DOMAIN ps : p[n].header = header + SuffixCost /\ p[n].content = ps[n]
    OBVIOUS
  <1> HIDE DEF p, content
  <1>4. [n \in DOMAIN p |-> Loose(p[n].content)] = [n \in DOMAIN ps |-> Loose(ps[n])]
    BY <1>3
  <1>5. Loose(FlattenSeq(ps)) = FlattenSeq([n \in DOMAIN ps |-> Loose(ps[n])])
    <2>1. \A S : Among(FlattenSeq(ps), S) = FlattenSeq([k \in DOMAIN ps |-> Among(ps[k], S)])
      BY <1>1, AmongFlattened
    <2> QED
      BY <2>1 DEF Loose
  <1>6. got = Loose(FlattenSeq(ps))
    BY <1>4, <1>5
  <1>7. \A one \in ToSet(p) : Cost(one.header, one.content) <= TokenLimit
    <2> SUFFICES ASSUME NEW one \in ToSet(p)
                 PROVE  Cost(one.header, one.content) <= TokenLimit
      OBVIOUS
    <2>1. PICK n \in DOMAIN ps : one = p[n]
      BY <1>3 DEF ToSet
    <2>2. n \in 1 .. Len(ps) /\ Len(ps[n]) \in Nat /\ header + Len(ps[n]) <= SplitTarget
      BY <1>1, <1>2
    <2>3. one.header = header + SuffixCost /\ one.content = ps[n]
      BY <1>3, <2>1
    <2>4. header + SuffixCost + Len(ps[n]) <= TokenLimit
      BY <2>2, PreparationAssumption
    <2> QED
      BY <2>3, <2>4 DEF Cost
  <1>8. RowKept(p, blocks)
    BY <1>1, <1>6, <1>7 DEF RowKept, Blurs, content
  <1> QED
    BY <1>8 DEF p

\* What a row is before it is split.
RowIs == step = "row" => source.header \in Nat /\ source.blocks \in Seq(Seq(Tokens))

\* The parts of a row hold what it says when a row is read ...
LEMMA PartsFirst == PreparationInit => RowIs /\ PartsFit
  <1> SUFFICES ASSUME PreparationInit
               PROVE  RowIs /\ PartsFit
    OBVIOUS
  <1>1. step = "read" \/ (step = "row" /\ \E row \in Rows, cost \in HeaderCosts : source = [header |-> cost, blocks |-> row])
    BY DEF PreparationInit
  <1>2. PartsFit
    BY <1>1 DEF PartsFit
  <1>3. ASSUME step = "row"
        PROVE  source.header \in Nat /\ source.blocks \in Seq(Seq(Tokens))
    <2>1. PICK row \in Rows, cost \in HeaderCosts : source = [header |-> cost, blocks |-> row]
      BY <1>1, <1>3
    <2>2. row \in Seq(Seq(Tokens)) /\ cost \in Nat
      BY PreparationAssumption
    <2> QED
      BY <2>1, <2>2
  <1> QED
    BY <1>2, <1>3 DEF RowIs

\* ... and whatever stage follows.
LEMMA PartsNext == RowIs /\ PartsFit /\ [PreparationNext]_preparationVars => RowIs' /\ PartsFit'
  <1> SUFFICES ASSUME RowIs, PartsFit, [PreparationNext]_preparationVars
               PROVE  RowIs' /\ PartsFit'
    OBVIOUS
  <1>1. CASE Chunk
    BY <1>1 DEF Chunk, Move, RowIs, PartsFit
  <1>2. CASE Parse
    BY <1>2 DEF Parse, Move, RowIs, PartsFit
  <1>3. CASE Requested
    BY <1>3 DEF Requested, Move, RowIs, PartsFit
  <1>4. CASE Index
    BY <1>4 DEF Index, Move, RowIs, PartsFit
  <1>5. CASE SplitRow
    <2> DEFINE parts == IF NoBudget(source) THEN <<>> ELSE SplitContent(source.header, source.blocks)
    <2>1. step = "row" /\ source' = source /\ step' \in {"split", "rejected"}
      BY <1>5 DEF SplitRow, Move
    <2>2. source.header \in Nat /\ source.blocks \in Seq(Seq(Tokens))
      BY <2>1 DEF RowIs
    <2>3. step' = "split" => RowKept(product', source.blocks)
      <3> SUFFICES ASSUME step' = "split"
                   PROVE  RowKept(product', source.blocks)
        OBVIOUS
      <3>1. CASE ~Oversized(source)
        <4>1. product' = <<[header |-> source.header, content |-> Joined(source.blocks)]>>
          BY <1>5, <3>1 DEF SplitRow, Move
        <4>2. source.header + Len(Joined(source.blocks)) <= TokenLimit
          <5>1. Len(Joined(source.blocks)) \in Nat
            BY <2>2, JoinedIs
          <5> QED
            BY <2>2, <3>1, <5>1, PreparationAssumption DEF Oversized, Cost
        <4> QED
          BY <2>2, <4>1, <4>2, RowWhole
      <3>2. CASE Oversized(source)
        <4>1. /\ ~NoBudget(source)
              /\ product' = [n \in DOMAIN parts |-> [header |-> source.header + SuffixCost,
                                                     content |-> parts[n]]]
          BY <1>5, <3>2 DEF SplitRow, Move
        <4>2. parts = SplitContent(source.header, source.blocks)
          BY <4>1
        <4>3. source.header < SplitTarget
          BY <2>2, <4>1, PreparationAssumption DEF NoBudget
        <4> HIDE DEF parts
        <4> QED
          BY <2>2, <4>1, <4>2, <4>3, RowParts
      <3> QED
        BY <3>1, <3>2
    <2> QED
      BY <2>1, <2>3 DEF RowIs, PartsFit, RowKept
  <1>6. CASE UNCHANGED preparationVars
    <2>1. step' = step /\ source' = source /\ product' = product
      BY <1>6 DEF preparationVars
    <2>2. RowIs'
      BY <2>1 DEF RowIs
    <2>3. PartsFit'
      BY <2>1 DEF PartsFit
    <2> QED
      BY <2>2, <2>3
  <1> QED
    BY <1>1, <1>2, <1>3, <1>4, <1>5, <1>6 DEF PreparationNext

\* Of every row, and for every limit of the tokens, the parts fit the embedding and have
\* its content in its order, but for the characters that a slice has cut.
THEOREM PartsHold == PreparationSpec => []PartsFit
  BY PartsFirst, PartsNext, PTL DEF PreparationSpec

-----------------------------------------------------------------------------
(* Increasing sequences are the sorted ones.                               *)

\* Of a finite set of lines, Sorted is the one increasing sequence.
LEMMA SortedIs ==
    ASSUME NEW s \in Seq(Int), Increasing(s)
    PROVE  Sorted(ToSet(s)) = s
  <1> DEFINE S == ToSet(s)
             n == Len(s)
             Under(x) == {y \in S : y < x}
  <1>1. n \in Nat /\ s \in [1 .. n -> Int]
    OBVIOUS
  <1>2. S = {s[j] : j \in 1 .. n}
    BY <1>1 DEF ToSet
  <1>3. n \in 0 .. Len(s)
    BY <1>1
  <1>4. Cardinality(S) = n
    BY <1>2, <1>3, CountFirst
  <1>5. \A i \in 1 .. n : s[i] \in S /\ Cardinality(Under(s[i])) = i - 1
    <2> SUFFICES ASSUME NEW i \in 1 .. n
                 PROVE  s[i] \in S /\ Cardinality(Under(s[i])) = i - 1
      OBVIOUS
    <2>1. Under(s[i]) = {s[j] : j \in 1 .. i - 1}
      <3>1. ASSUME NEW j \in 1 .. n
            PROVE  s[j] < s[i] <=> j \in 1 .. i - 1
        <4>1. s[i] \in Int /\ s[j] \in Int
          BY <1>1
        <4>2. /\ i < j => s[i] < s[j]
              /\ j < i => s[j] < s[i]
          BY DEF Increasing
        <4> QED
          BY <4>1, <4>2
      <3>2. \A j \in 1 .. i - 1 : j \in 1 .. n
        OBVIOUS
      <3> QED
        BY <1>2, <3>1, <3>2
    <2>2. i - 1 \in 0 .. Len(s)
      OBVIOUS
    <2> HIDE DEF Under
    <2> QED
      BY <1>2, <2>1, <2>2, CountFirst
  <1>6. \A x \in S : \E j \in 1 .. n : x = s[j]
    BY <1>2
  <1> HIDE DEF S, n, Under
  <1>7. \A i \in 1 .. n : (CHOOSE x \in S : Cardinality(Under(x)) = i - 1) = s[i]
    <2> SUFFICES ASSUME NEW i \in 1 .. n
                 PROVE  (CHOOSE x \in S : Cardinality(Under(x)) = i - 1) = s[i]
      OBVIOUS
    <2>1. \A x \in S : Cardinality(Under(x)) = i - 1 => x = s[i]
      BY <1>1, <1>5, <1>6
    <2>2. s[i] \in S /\ Cardinality(Under(s[i])) = i - 1
      BY <1>5
    <2> QED
      BY <2>1, <2>2
  <1>8. Sorted(S) = [i \in 1 .. n |-> CHOOSE x \in S : Cardinality(Under(x)) = i - 1]
    BY <1>4 DEF Sorted, InOrder, Under
  <1>9. Sorted(S) = [i \in 1 .. n |-> s[i]]
    BY <1>7, <1>8
  <1> QED
    BY <1>1, <1>9 DEF S

-----------------------------------------------------------------------------
(* Pages and owners, line by line.                                         *)

\* Pages are counted line by line, and never fall.
LEMMA PagesAre ==
    ASSUME source \in Markdowns
    PROVE  /\ PageOf(0) = 0
           /\ \A k \in 1 .. Length : PageOf(k) = PageOf(k - 1) + (IF source[k] = "page" THEN 1 ELSE 0)
           /\ \A i, j \in 0 .. Length : PageOf(i) \in Nat /\ (i <= j => PageOf(i) <= PageOf(j))
  <1> DEFINE P(k) == {j \in 1 .. k : source[j] = "page"}
  <1>1. Length \in Nat /\ \A k \in 0 .. Length : k \in Int
    BY PreparationAssumption
  <1>2. PageOf(0) = 0
    <2>1. {j \in 1 .. 0 : source[j] = "page"} = {}
      OBVIOUS
    <2> QED
      BY <2>1, FS_EmptySet DEF PageOf
  <1>3. \A k \in 0 .. Length : IsFiniteSet(P(k)) /\ Cardinality(P(k)) \in Nat /\ PageOf(k) = Cardinality(P(k))
    <2> SUFFICES ASSUME NEW k \in 0 .. Length
                 PROVE  IsFiniteSet(P(k)) /\ Cardinality(P(k)) \in Nat
      BY DEF PageOf
    <2>1. 1 \in Int /\ k \in Int
      BY <1>1
    <2>2. IsFiniteSet(1 .. k)
      BY <2>1, FS_Interval
    <2>3. P(k) \in SUBSET (1 .. k)
      OBVIOUS
    <2> QED
      BY <2>2, <2>3, FS_Subset, FS_CardinalityType
  <1>4. ASSUME NEW k \in 1 .. Length
        PROVE  PageOf(k) = PageOf(k - 1) + (IF source[k] = "page" THEN 1 ELSE 0)
    <2>1. k \in 0 .. Length /\ k - 1 \in 0 .. Length /\ k \notin P(k - 1)
      BY <1>1
    <2>2. P(k) = IF source[k] = "page" THEN P(k - 1) \cup {k} ELSE P(k - 1)
      <3>1. 1 .. k = (1 .. k - 1) \cup {k}
        BY <1>1
      <3> QED
        BY <3>1
    <2> HIDE DEF P
    <2>3. IsFiniteSet(P(k - 1)) /\ PageOf(k) = Cardinality(P(k)) /\ PageOf(k - 1) = Cardinality(P(k - 1)) /\ Cardinality(P(k - 1)) \in Nat
      BY <1>3, <2>1
    <2>4. Cardinality(P(k - 1) \cup {k}) = Cardinality(P(k - 1)) + 1
      BY <2>1, <2>3, FS_AddElement
    <2> QED
      BY <2>2, <2>3, <2>4
  <1>5. ASSUME NEW i \in 0 .. Length, NEW j \in 0 .. Length, i <= j
        PROVE  PageOf(i) <= PageOf(j)
    <2>1. P(i) \in SUBSET P(j)
      BY <1>1, <1>5
    <2> HIDE DEF P
    <2> QED
      BY <1>3, <2>1, FS_Subset
  <1>6. \A i \in 0 .. Length : PageOf(i) \in Nat
    BY <1>3
  <1> QED
    BY <1>2, <1>4, <1>5, <1>6

\* A line is owned by the heading of level 2 that no other heading parts from it.
LEMMA OwnerIs ==
    ASSUME source \in Markdowns, NEW i \in 0 .. Length
    PROVE  /\ Owner(i) \in 0 .. i
           /\ \A h \in 1 .. Length : Owner(i) = h <=>
                 /\ h <= i /\ source[h] = "h2"
                 /\ \A j \in 1 .. i : h < j => source[j] \notin {"h1", "h2"}
  <1> DEFINE above == {j \in 1 .. i : source[j] \in {"h1", "h2"}}
  <1>1. Length \in Nat /\ i \in Nat
    BY PreparationAssumption
  <1>2. above \subseteq 0 .. i
    OBVIOUS
  <1>3. Owner(i) = IF above # {} /\ source[Max(above)] = "h2" THEN Max(above) ELSE 0
    BY DEF Owner
  <1>4. above # {} => Max(above) \in above /\ \A m \in above : m <= Max(above)
    <2> HIDE DEF above
    <2> QED
      BY <1>1, <1>2, Greatest
  <1>5. \A j : j \in above <=> j \in 1 .. i /\ source[j] \in {"h1", "h2"}
    OBVIOUS
  <1> HIDE DEF above
  <1> DEFINE top == Max(above)
  <1> HIDE DEF top
  <1>6. Owner(i) = IF above # {} /\ source[top] = "h2" THEN top ELSE 0
    BY <1>3 DEF top
  <1>7. above # {} => top \in above /\ \A m \in above : m <= top
    BY <1>4 DEF top
  <1>8. ASSUME NEW h \in 1 .. Length, Owner(i) = h
        PROVE  h <= i /\ source[h] = "h2" /\ \A j \in 1 .. i : h < j => source[j] \notin {"h1", "h2"}
    <2>1. above # {} /\ source[top] = "h2" /\ h = top
      BY <1>6, <1>8
    <2> QED
      BY <1>1, <1>5, <1>7, <2>1
  <1>9. ASSUME NEW h \in 1 .. Length, h <= i, source[h] = "h2", \A j \in 1 .. i : h < j => source[j] \notin {"h1", "h2"}
        PROVE  Owner(i) = h
    <2>1. h \in above
      BY <1>5, <1>9
    <2>2. top \in 1 .. i /\ h <= top /\ source[top] \in {"h1", "h2"}
      BY <1>5, <1>7, <2>1
    <2>3. top = h
      BY <1>1, <1>9, <2>2
    <2> QED
      BY <1>6, <1>9, <2>1, <2>3
  <1>10. Owner(i) \in 0 .. i
    BY <1>1, <1>5, <1>6, <1>7
  <1> QED
    BY <1>8, <1>9, <1>10

\* The owner, line by line.
LEMMA OwnerSteps ==
    ASSUME source \in Markdowns
    PROVE  /\ Owner(0) = 0
           /\ \A k \in 1 .. Length :
                 Owner(k) = IF source[k] = "h2" THEN k ELSE IF source[k] = "h1" THEN 0 ELSE Owner(k - 1)
  <1>1. Length \in Nat
    BY PreparationAssumption
  <1>2. Owner(0) = 0
    <2>1. 0 \in 0 .. Length
      BY <1>1
    <2>2. Owner(0) \in 0 .. 0
      BY <2>1, OwnerIs
    <2> QED
      BY <2>2
  <1>3. ASSUME NEW k \in 1 .. Length
        PROVE  Owner(k) = IF source[k] = "h2" THEN k ELSE IF source[k] = "h1" THEN 0 ELSE Owner(k - 1)
    <2>1. k \in 0 .. Length /\ k - 1 \in 0 .. Length
      BY <1>1
    <2>2. /\ Owner(k) \in 0 .. k /\ Owner(k - 1) \in 0 .. k - 1
          /\ \A h \in 1 .. Length : Owner(k) = h <=>
                 /\ h <= k /\ source[h] = "h2"
                 /\ \A j \in 1 .. k : h < j => source[j] \notin {"h1", "h2"}
          /\ \A h \in 1 .. Length : Owner(k - 1) = h <=>
                 /\ h <= k - 1 /\ source[h] = "h2"
                 /\ \A j \in 1 .. k - 1 : h < j => source[j] \notin {"h1", "h2"}
      BY <2>1, OwnerIs
    <2>3. CASE source[k] = "h2"
      <3>1. \A j \in 1 .. k : ~(k < j)
        OBVIOUS
      <3> QED
        BY <2>2, <2>3, <3>1
    <2>4. CASE source[k] = "h1"
      <3>1. \A h \in 1 .. Length : Owner(k) # h
        <4> SUFFICES ASSUME NEW h \in 1 .. Length, Owner(k) = h
                     PROVE  FALSE
          OBVIOUS
        <4>1. h <= k /\ source[h] = "h2" /\ (k \in 1 .. k /\ h < k => source[k] \notin {"h1", "h2"})
          BY <2>2
        <4> QED
          BY <2>4, <4>1
      <3> QED
        BY <1>1, <2>2, <2>4, <3>1
    <2>5. CASE source[k] \notin {"h1", "h2"}
      <3>1. \A h \in 1 .. Length : Owner(k) = h <=> Owner(k - 1) = h
        <4> SUFFICES ASSUME NEW h \in 1 .. Length
                     PROVE  Owner(k) = h <=> Owner(k - 1) = h
          OBVIOUS
        <4>1. ASSUME Owner(k) = h
              PROVE  Owner(k - 1) = h
          <5>1. h <= k /\ source[h] = "h2" /\ \A j \in 1 .. k : h < j => source[j] \notin {"h1", "h2"}
            BY <2>2, <4>1
          <5>2. h <= k - 1 /\ \A j \in 1 .. k - 1 : h < j => source[j] \notin {"h1", "h2"}
            BY <2>5, <5>1
          <5> QED
            BY <2>2, <5>1, <5>2
        <4>2. ASSUME Owner(k - 1) = h
              PROVE  Owner(k) = h
          <5>1. h <= k - 1 /\ source[h] = "h2" /\ \A j \in 1 .. k - 1 : h < j => source[j] \notin {"h1", "h2"}
            BY <2>2, <4>2
          <5>2. h <= k /\ \A j \in 1 .. k : h < j => source[j] \notin {"h1", "h2"}
            <6>1. \A j \in 1 .. k : j = k \/ j \in 1 .. k - 1
              OBVIOUS
            <6> QED
              BY <2>5, <5>1, <6>1
          <5> QED
            BY <2>2, <5>1, <5>2
        <4> QED
          BY <4>1, <4>2
      <3>2. Owner(k) \in 0 .. Length /\ Owner(k - 1) \in 0 .. Length
        BY <1>1, <2>2
      <3>3. Owner(k) = Owner(k - 1)
        BY <1>1, <3>1, <3>2
      <3> QED
        BY <2>5, <3>3
    <2> QED
      BY <2>3, <2>4, <2>5
  <1> QED
    BY <1>2, <1>3

-----------------------------------------------------------------------------
(* The content of a section.                                               *)

Normal == [blank : BOOLEAN, out : Seq(0 .. Length)]

NormalStep(acc, i) ==
    CASE source[i] = "rule"  -> acc
      [] source[i] = "blank" -> [acc EXCEPT !.blank = TRUE]
      [] OTHER -> [blank |-> FALSE,
                   out |-> acc.out \o (IF acc.blank /\ acc.out # <<>> THEN <<0>> ELSE <<>>) \o <<i>>]

SolidKinds == {i \in 1 .. Length : source[i] \notin {"rule", "blank"}}

\* Types, and what one line adds.
LEMMA NormalStepIs ==
    ASSUME source \in Markdowns, NEW acc \in Normal, NEW i \in 1 .. Length
    PROVE  /\ NormalStep(acc, i) \in Normal
           /\ i \notin SolidKinds => NormalStep(acc, i).out = acc.out
           /\ i \in SolidKinds => \E gap \in {<<>>, <<0>>} :
                                     NormalStep(acc, i).out = (acc.out \o gap) \o <<i>>
  <1>1. i \in 0 .. Length /\ 0 \in 0 .. Length
    BY PreparationAssumption
  <1>2. acc.out \in Seq(0 .. Length) /\ acc.blank \in BOOLEAN
    BY DEF Normal
  <1> DEFINE gap == IF acc.blank /\ acc.out # <<>> THEN <<0>> ELSE <<>>
  <1>3. gap \in {<<>>, <<0>>} /\ gap \in Seq(0 .. Length) /\ <<i>> \in Seq(0 .. Length)
    <2>1. <<>> \in Seq(0 .. Length) /\ <<0>> \in Seq(0 .. Length) /\ <<i>> \in Seq(0 .. Length)
      BY <1>1, FewOf
    <2> QED
      BY <2>1
  <1>4. NormalStep(acc, i) = CASE source[i] = "rule"  -> acc
                               [] source[i] = "blank" -> [acc EXCEPT !.blank = TRUE]
                               [] OTHER -> [blank |-> FALSE, out |-> (acc.out \o gap) \o <<i>>]
    BY DEF NormalStep
  <1> HIDE DEF gap
  <1>5. (acc.out \o gap) \o <<i>> \in Seq(0 .. Length)
    BY <1>2, <1>3
  <1>6. CASE source[i] = "rule"
    BY <1>4, <1>6 DEF SolidKinds
  <1>7. CASE source[i] = "blank"
    BY <1>4, <1>7 DEF SolidKinds, Normal
  <1>8. CASE source[i] \notin {"rule", "blank"}
    <2>1. NormalStep(acc, i) = [blank |-> FALSE, out |-> (acc.out \o gap) \o <<i>>]
      BY <1>4, <1>8
    <2>2. NormalStep(acc, i) \in Normal
      BY <1>5, <2>1 DEF Normal
    <2>3. NormalStep(acc, i).out = (acc.out \o gap) \o <<i>>
      BY <2>1
    <2> QED
      BY <1>3, <1>8, <2>2, <2>3 DEF SolidKinds
  <1> QED
    BY <1>6, <1>7, <1>8

NormalAlong(g, lines) ==
    /\ g \in [0 .. Len(lines) -> Normal]
    /\ g[0] = [blank |-> FALSE, out |-> <<>>]
    /\ \A k \in 1 .. Len(lines) : g[k] = NormalStep(g[k - 1], lines[k])
    /\ NormalizeContent(lines) = g[Len(lines)].out

\* Line by line.
LEMMA NormalSteps ==
    ASSUME source \in Markdowns, NEW lines \in Seq(1 .. Length)
    PROVE  \E g : NormalAlong(g, lines)
  <1> DEFINE n == Len(lines)
             A == Normal
             base == [blank |-> FALSE, out |-> <<>>]
             With(a, x) == NormalStep(a, x)
             onward == [k \in 1 .. n |-> [a \in A |-> With(a, lines[k])]]
             Solves(it) == it = [t \in SUBSET (1 .. n) |->
                                    IF t = {} THEN base ELSE With(it[t \ {Max(t)}], lines[Max(t)])]
             c == CHOOSE it : Solves(it)
  <1>1. n \in Nat /\ DOMAIN lines = 1 .. n /\ \A k \in 1 .. n : lines[k] \in 1 .. Length
    BY ElementsOf
  <1>2. base \in A /\ \A a \in A, x \in 1 .. Length : With(a, x) \in A
    <2>1. base \in A
      BY DEF Normal
    <2>2. \A a \in A, x \in 1 .. Length : With(a, x) \in A
      BY NormalStepIs
    <2> QED
      BY <2>1, <2>2
  <1>3. onward \in [1 .. n -> [A -> A]]
    BY <1>1, <1>2
  <1>4. \E it : Solves(it)
    <2>1. PICK it : FoldOf(it, A, base, n, onward)
      <3> HIDE DEF base, onward, n, A, With
      <3> QED
        BY <1>1, <1>2, <1>3, FoldSolution
    <2>2. ASSUME NEW t \in SUBSET (1 .. n), t # {}
          PROVE  it[t] = With(it[t \ {Max(t)}], lines[Max(t)])
      <3>1. Max(t) \in t
        <4>1. t \subseteq 0 .. n
          OBVIOUS
        <4> QED
          BY <1>1, <2>2, <4>1, Greatest
      <3>2. it[t \ {Max(t)}] \in A
        BY <2>1 DEF FoldOf
      <3> QED
        BY <2>1, <2>2, <3>1, <3>2 DEF FoldOf
    <2>3. Solves(it)
      BY <2>1, <2>2 DEF FoldOf
    <2> QED
      BY <2>3
  <1>5. Solves(c)
    <2> HIDE DEF Solves
    <2> QED
      BY <1>4
  <1>6. NormalizeContent(lines) = c[1 .. n].out
    BY <1>1 DEF NormalizeContent, NormalStep, FoldLeft, MapThenFoldSet
  <1>7. c[{}] = base /\ \A k \in 1 .. n : c[1 .. k] = With(c[1 .. k - 1], lines[k])
    <2>1. c[{}] = base
      BY <1>5
    <2>2. ASSUME NEW k \in 1 .. n
          PROVE  c[1 .. k] = With(c[1 .. k - 1], lines[k])
      <3>1. /\ 1 .. k \in SUBSET (1 .. n) /\ 1 .. k # {}
            /\ Max(1 .. k) = k /\ (1 .. k) \ {k} = 1 .. k - 1
        <4>1. n \in Nat
          BY <1>1
        <4> HIDE DEF n
        <4> QED
          BY <4>1, LastOfPrefix
      <3> HIDE DEF c
      <3> QED
        BY <1>5, <3>1
    <2> HIDE DEF c
    <2> QED
      BY <2>1, <2>2
  <1>8. Walks(c, A, base, n, onward)
    <2> HIDE DEF c
    <2> QED
      BY <1>1, <1>7 DEF Walks
  <1>9. PICK g : Along(g, c, A, base, n, onward)
    <2> HIDE DEF c, base, onward, n, A, With
    <2> QED
      BY <1>1, <1>2, <1>3, <1>8, FoldAlong
  <1>10. \A k \in 1 .. n : g[k] = With(g[k - 1], lines[k])
    <2> SUFFICES ASSUME NEW k \in 1 .. n
                 PROVE  g[k] = With(g[k - 1], lines[k])
      OBVIOUS
    <2>1. g[k] = onward[k][g[k - 1]] /\ g[k - 1] \in A
      <3>1. k - 1 \in 0 .. n
        BY <1>1
      <3> HIDE DEF onward, A, n, base
      <3> QED
        BY <1>9, <3>1 DEF Along, Steps
    <2> QED
      BY <2>1
  <1>11. g \in [0 .. n -> A] /\ g[0] = base /\ g[n] = c[1 .. n]
    <2> HIDE DEF onward, A, n, base, c
    <2> QED
      BY <1>9 DEF Along, Steps
  <1> HIDE DEF c
  <1> QED
    BY <1>6, <1>10, <1>11 DEF NormalAlong

\* The lines that are not blank, of two sequences.
LEMMA SolidIs ==
    ASSUME NEW s \in Seq(0 .. Length), NEW t \in Seq(0 .. Length)
    PROVE  Solid(s) \in Seq(0 .. Length) /\ Solid(s \o t) = Solid(s) \o Solid(t) /\ s \o t \in Seq(0 .. Length)
  <1> DEFINE Y == 0 .. Length
             D == 1 .. Length
  <1>1. s \in Seq(Y) /\ t \in Seq(Y)
    OBVIOUS
  <1> HIDE DEF Y, D
  <1>2. Among(s, D) \in Seq(Y)
    BY <1>1, AmongIs
  <1>3. Among(s \o t, D) = Among(s, D) \o Among(t, D)
    BY <1>1, AmongJoins
  <1>4. s \o t \in Seq(Y)
    BY <1>1
  <1> QED
    BY <1>2, <1>3, <1>4 DEF Solid, Y, D

\* Normalising keeps the lines with content, in order.
LEMMA NormalizeIs ==
    ASSUME source \in Markdowns, NEW lines \in Seq(1 .. Length)
    PROVE  /\ NormalizeContent(lines) \in Seq(0 .. Length)
           /\ Solid(NormalizeContent(lines)) = Among(lines, SolidKinds)
           /\ NormalizeContent(lines) # <<>> => Among(lines, SolidKinds) # <<>>
  <1> DEFINE n == Len(lines)
  <1>1. n \in Nat /\ \A k \in 1 .. n : lines[k] \in 1 .. Length
    BY ElementsOf
  <1>2. PICK f : AmongAlong(f, 1 .. Length, lines, SolidKinds)
    BY AmongSteps
  <1>3. PICK g : NormalAlong(g, lines)
    BY NormalSteps
  <1>4. /\ f \in [0 .. n -> Seq(1 .. Length)] /\ f[0] = <<>>
        /\ \A k \in 1 .. n : f[k] = TakenWith(f[k - 1], lines[k], SolidKinds)
        /\ Among(lines, SolidKinds) = f[n]
    BY <1>2 DEF AmongAlong
  <1>5. /\ g \in [0 .. n -> Normal] /\ g[0] = [blank |-> FALSE, out |-> <<>>]
        /\ \A k \in 1 .. n : g[k] = NormalStep(g[k - 1], lines[k])
        /\ NormalizeContent(lines) = g[n].out
    BY <1>3 DEF NormalAlong
  <1> HIDE DEF n
  <1> DEFINE T == {k \in 0 .. n : Solid(g[k].out) = f[k] /\ (g[k].out # <<>> => f[k] # <<>>)}
  <1>6. 0 \in T
    <2>1. Solid(<<>>) = <<>>
      BY AmongNone DEF Solid
    <2>2. 0 \in 0 .. n /\ g[0].out = <<>>
      BY <1>1, <1>5
    <2> QED
      BY <1>4, <2>1, <2>2
  <1>7. ASSUME NEW k \in 1 .. n, k - 1 \in T
        PROVE  k \in T
    <2> DEFINE i == lines[k]
               out == g[k - 1].out
               taken == f[k - 1]
    <2>1. k \in 0 .. n /\ k - 1 \in 0 .. n /\ i \in 1 .. Length
      BY <1>1
    <2>2. g[k - 1] \in Normal /\ out \in Seq(0 .. Length) /\ taken \in Seq(1 .. Length)
      BY <1>4, <1>5, <2>1 DEF Normal
    <2>3. Solid(out) = taken /\ (out # <<>> => taken # <<>>)
      BY <1>7
    <2>4. g[k] = NormalStep(g[k - 1], i) /\ f[k] = TakenWith(taken, i, SolidKinds)
      BY <1>4, <1>5
    <2>5. /\ i \notin SolidKinds => NormalStep(g[k - 1], i).out = out
          /\ i \in SolidKinds => \E gap \in {<<>>, <<0>>} : NormalStep(g[k - 1], i).out = (out \o gap) \o <<i>>
      BY <2>1, <2>2, NormalStepIs
    <2> HIDE DEF i, out, taken
    <2>6. CASE i \notin SolidKinds
      <3>1. g[k].out = out /\ f[k] = taken
        BY <2>4, <2>5, <2>6 DEF TakenWith
      <3> QED
        BY <2>1, <2>3, <3>1
    <2>7. CASE i \in SolidKinds
      <3>1. PICK gap \in {<<>>, <<0>>} : g[k].out = (out \o gap) \o <<i>>
        BY <2>4, <2>5, <2>7
      <3>2. f[k] = Append(taken, i)
        BY <2>4, <2>7 DEF TakenWith
      <3>3. gap \in Seq(0 .. Length) /\ <<i>> \in Seq(0 .. Length) /\ i \in 0 .. Length /\ 0 \in 0 .. Length
        <4>1. i \in 0 .. Length /\ 0 \in 0 .. Length
          BY <2>1, PreparationAssumption
        <4>2. <<>> \in Seq(0 .. Length) /\ <<0>> \in Seq(0 .. Length) /\ <<i>> \in Seq(0 .. Length)
          BY <4>1, FewOf
        <4> QED
          BY <4>1, <4>2
      <3>4. Solid(gap) = <<>> /\ Solid(<<i>>) = <<i>>
        <4>1. Among(<<>>, 1 .. Length) = <<>>
          BY AmongNone
        <4>2. Among(<<0>>, 1 .. Length) = <<>>
          <5>1. 0 \notin 1 .. Length
            OBVIOUS
          <5>2. Among(<<0>>, 1 .. Length) = IF 0 \in 1 .. Length THEN <<0>> ELSE <<>>
            BY <3>3, AmongOne
          <5> QED
            BY <5>1, <5>2
        <4>3. Among(<<i>>, 1 .. Length) = <<i>>
          BY <2>1, <3>3, AmongOne
        <4> QED
          BY <4>1, <4>2, <4>3 DEF Solid
      <3>5. Solid(out) \in Seq(0 .. Length) /\ Solid(out \o gap) = Solid(out) \o <<>> /\ out \o gap \in Seq(0 .. Length)
        BY <2>2, <3>3, <3>4, SolidIs
      <3>6. Solid((out \o gap) \o <<i>>) = Solid(out \o gap) \o <<i>>
        <4>1. PICK held : held = out \o gap
          OBVIOUS
        <4>2. held \in Seq(0 .. Length) /\ <<i>> \in Seq(0 .. Length)
          BY <3>3, <3>5, <4>1
        <4>3. Solid(held \o <<i>>) = Solid(held) \o Solid(<<i>>)
          BY <4>2, SolidIs
        <4> QED
          BY <3>4, <4>1, <4>3
      <3>7. Solid(out) \o <<>> = Solid(out)
        BY <3>5, ConcatEmptySeq
      <3>8. Append(taken, i) = taken \o <<i>> /\ Append(taken, i) # <<>>
        <4>1. Append(taken, i) = taken \o <<i>>
          BY <2>1, <2>2, AppendBehind
        <4>2. Len(Append(taken, i)) = Len(taken) + 1 /\ Len(taken) \in Nat
          BY <2>1, <2>2
        <4> QED
          BY <4>1, <4>2
      <3>9. Solid(g[k].out) = f[k] /\ f[k] # <<>>
        BY <2>3, <3>1, <3>2, <3>5, <3>6, <3>7, <3>8
      <3> QED
        BY <2>1, <3>9
    <2> QED
      BY <2>6, <2>7
  <1> HIDE DEF T
  <1>8. \A k \in 0 .. n : k \in T
    BY <1>1, <1>6, <1>7, Climb
  <1>9. n \in 0 .. n
    BY <1>1
  <1>10. n \in T /\ g[n] \in Normal
    BY <1>5, <1>8, <1>9
  <1> QED
    BY <1>4, <1>5, <1>10 DEF T, Normal

-----------------------------------------------------------------------------
(* The sections, line by line.                                             *)

Section == [start : Nat, end : Nat, lines : Seq(0 .. Length)]
OpenSection == [start : Nat, end : Nat, lines : Seq(1 .. Length)]
Reading == [chunks : Seq(Section), current : {<<>>} \cup {<<x>> : x \in OpenSection}, page : Nat]

\* A sequence of one.
LEMMA OneIs == \A x, y : <<x>> # <<>> /\ <<x>>[1] = x /\ (<<x>> = <<y>> => x = y)
  <1> TAKE x, y
  <1>1. Len(<<x>>) = 1 /\ Len(<<>>) = 0
    OBVIOUS
  <1>2. <<x>>[1] = x /\ <<y>>[1] = y
    OBVIOUS
  <1> QED
    BY <1>1, <1>2

\* Types of what the last section leaves.
LEMMA FinishIs ==
    ASSUME source \in Markdowns, NEW acc \in Reading
    PROVE  /\ Finish(acc) \in Reading /\ Finish(acc).current = <<>> /\ Finish(acc).page = acc.page
           /\ acc.current = <<>> => Finish(acc).chunks = acc.chunks
           /\ \A cur \in OpenSection : acc.current = <<cur>> =>
                 /\ [cur EXCEPT !.lines = NormalizeContent(cur.lines)] \in Section
                 /\ Finish(acc).chunks = IF NormalizeContent(cur.lines) = <<>> THEN acc.chunks
                                         ELSE Append(acc.chunks, [cur EXCEPT !.lines = NormalizeContent(cur.lines)])
  <1>1. CASE acc.current = <<>>
    <2>1. Finish(acc) = acc
      BY <1>1 DEF Finish
    <2> QED
      BY <1>1, <2>1, OneIs
  <1>2. CASE acc.current # <<>>
    <2>1. PICK cur \in OpenSection : acc.current = <<cur>>
      BY <1>2 DEF Reading
    <2> DEFINE content == NormalizeContent(cur.lines)
               done == [cur EXCEPT !.lines = content]
               chunks == IF content = <<>> THEN acc.chunks ELSE Append(acc.chunks, done)
    <2>2. acc.current[1] = cur /\ \A other \in OpenSection : acc.current = <<other>> => other = cur
      BY <2>1, OneIs
    <2>3. content \in Seq(0 .. Length)
      <3>1. cur.lines \in Seq(1 .. Length)
        BY DEF OpenSection
      <3> QED
        BY <3>1, NormalizeIs
    <2>4. Finish(acc) = [acc EXCEPT !.chunks = chunks, !.current = <<>>]
      BY <1>2, <2>2 DEF Finish
    <2> HIDE DEF content
    <2>5. done \in Section
      BY <2>3 DEF Section, OpenSection
    <2> HIDE DEF done
    <2>6. chunks \in Seq(Section)
      <3>1. acc.chunks \in Seq(Section)
        BY DEF Reading
      <3> QED
        BY <2>5, <3>1
    <2> HIDE DEF chunks
    <2>7. /\ Finish(acc).current = <<>> /\ Finish(acc).page = acc.page /\ Finish(acc).chunks = chunks
      BY <2>4 DEF Reading
    <2>8. Finish(acc) \in Reading
      BY <2>4, <2>6 DEF Reading
    <2> QED
      BY <1>2, <2>2, <2>5, <2>7, <2>8 DEF chunks, done, content
  <1> QED
    BY <1>1, <1>2

\* A page marker ...
LEMMA PageRead ==
    ASSUME NEW acc \in Reading, NEW page \in Nat
    PROVE  /\ OnPage(acc, page) \in Reading /\ OnPage(acc, page).chunks = acc.chunks /\ OnPage(acc, page).page = page
           /\ acc.current = <<>> => OnPage(acc, page).current = <<>>
           /\ \A cur \in OpenSection : acc.current = <<cur>> =>
                 OnPage(acc, page).current = <<[cur EXCEPT !.end = page]>> /\ [cur EXCEPT !.end = page] \in OpenSection
  <1>1. CASE acc.current = <<>>
    <2>1. OnPage(acc, page) = [acc EXCEPT !.page = page, !.current = <<>>]
      BY <1>1 DEF OnPage
    <2> QED
      BY <1>1, <2>1, OneIs DEF Reading
  <1>2. CASE acc.current # <<>>
    <2>1. PICK cur \in OpenSection : acc.current = <<cur>>
      BY <1>2 DEF Reading
    <2> DEFINE new == [cur EXCEPT !.end = page]
    <2>2. acc.current[1] = cur /\ \A other \in OpenSection : acc.current = <<other>> => other = cur
      BY <2>1, OneIs
    <2>3. OnPage(acc, page) = [acc EXCEPT !.page = page, !.current = <<new>>]
      BY <1>2, <2>2 DEF OnPage
    <2>4. new \in OpenSection
      BY DEF OpenSection
    <2> HIDE DEF new
    <2>5. OnPage(acc, page) \in Reading /\ OnPage(acc, page).chunks = acc.chunks /\ OnPage(acc, page).page = page
          /\ OnPage(acc, page).current = <<new>>
      BY <2>3, <2>4 DEF Reading
    <2> QED
      BY <1>2, <2>2, <2>4, <2>5 DEF new
  <1> QED
    BY <1>1, <1>2

\* ... any other line ...
LEMMA LineRead ==
    ASSUME NEW acc \in Reading, NEW i \in 1 .. Length
    PROVE  /\ WithLine(acc, i) \in Reading /\ WithLine(acc, i).chunks = acc.chunks /\ WithLine(acc, i).page = acc.page
           /\ acc.current = <<>> => WithLine(acc, i).current = <<>>
           /\ \A cur \in OpenSection : acc.current = <<cur>> =>
                 \E e \in {cur.end, acc.page} :
                    /\ WithLine(acc, i).current = <<[start |-> cur.start, end |-> e, lines |-> Append(cur.lines, i)]>>
                    /\ [start |-> cur.start, end |-> e, lines |-> Append(cur.lines, i)] \in OpenSection
  <1>1. CASE acc.current = <<>>
    <2>1. WithLine(acc, i) = acc
      BY <1>1 DEF WithLine
    <2> QED
      BY <1>1, <2>1, OneIs
  <1>2. CASE acc.current # <<>>
    <2>1. PICK cur \in OpenSection : acc.current = <<cur>>
      BY <1>2 DEF Reading
    <2> DEFINE moves == acc.page # 0 /\ source[i] \in {"text", "image", "rule"}
               e == IF moves THEN acc.page ELSE cur.end
               new == [start |-> cur.start, end |-> e, lines |-> Append(cur.lines, i)]
    <2>2. acc.current[1] = cur /\ \A other \in OpenSection : acc.current = <<other>> => other = cur
      BY <2>1, OneIs
    <2>3. WithLine(acc, i) = [acc EXCEPT !.current = <<[cur EXCEPT !.lines = Append(cur.lines, i), !.end = e]>>]
      BY <1>2, <2>2 DEF WithLine
    <2>4. e \in {cur.end, acc.page} /\ e \in Nat
      BY DEF OpenSection, Reading
    <2> HIDE DEF e
    <2>5. Append(cur.lines, i) \in Seq(1 .. Length)
      <3>1. \A X : \A s \in Seq(X), x \in X : Append(s, x) \in Seq(X)
        OBVIOUS
      <3>2. cur.lines \in Seq(1 .. Length)
        BY DEF OpenSection
      <3> QED
        BY <3>1, <3>2
    <2>6. new \in OpenSection /\ [cur EXCEPT !.lines = Append(cur.lines, i), !.end = e] = new
      <3> DEFINE L == Seq(1 .. Length)
                 l == Append(cur.lines, i)
      <3>1. l \in L /\ cur \in [start : Nat, end : Nat, lines : L]
        BY <2>5 DEF OpenSection
      <3> HIDE DEF L, l
      <3>2. [start |-> cur.start, end |-> e, lines |-> l] \in [start : Nat, end : Nat, lines : L]
        BY <2>4, <3>1
      <3>3. [cur EXCEPT !.lines = l, !.end = e] = [start |-> cur.start, end |-> e, lines |-> l]
        <4>1. [cur EXCEPT !.lines = l] = [start |-> cur.start, end |-> cur.end, lines |-> l]
          BY <3>1
        <4>2. [[start |-> cur.start, end |-> cur.end, lines |-> l] EXCEPT !.end = e] = [start |-> cur.start, end |-> e, lines |-> l]
          BY <3>1
        <4> QED
          BY <4>1, <4>2
      <3> QED
        BY <3>2, <3>3 DEF L, l, OpenSection
    <2> HIDE DEF new
    <2>7. WithLine(acc, i) = [acc EXCEPT !.current = <<new>>]
      BY <2>3, <2>6
    <2>8. WithLine(acc, i) \in Reading /\ WithLine(acc, i).chunks = acc.chunks /\ WithLine(acc, i).page = acc.page
          /\ WithLine(acc, i).current = <<new>>
      BY <2>6, <2>7 DEF Reading
    <2> QED
      BY <1>2, <2>2, <2>4, <2>6, <2>8 DEF new
  <1> QED
    BY <1>1, <1>2

\* ... and a heading keep the types.
LEMMA OpenedIs ==
    ASSUME NEW acc \in Reading
    PROVE  /\ Opened(acc) \in Reading /\ Opened(acc).chunks = acc.chunks /\ Opened(acc).page = acc.page
           /\ Opened(acc).current = <<[start |-> acc.page, end |-> acc.page, lines |-> <<>>]>>
           /\ [start |-> acc.page, end |-> acc.page, lines |-> <<>>] \in OpenSection
  <1>1. [start |-> acc.page, end |-> acc.page, lines |-> <<>>] \in OpenSection
    BY FewOf DEF OpenSection, Reading
  <1> QED
    BY <1>1 DEF Opened, Reading

\* Any line.
LEMMA SectionRead ==
    ASSUME source \in Markdowns, NEW acc \in Reading, NEW i \in 1 .. Length
    PROVE  /\ ReadLine(acc, i) \in Reading
           /\ ReadLine(acc, i) = IF source[i] = "page" THEN OnPage(acc, acc.page + 1)
                                 ELSE IF source[i] = "h1" THEN Finish(acc)
                                 ELSE IF source[i] = "h2" THEN Opened(Finish(acc))
                                 ELSE WithLine(acc, i)
  <1>1. ReadLine(acc, i) = IF source[i] = "page" THEN OnPage(acc, acc.page + 1)
                           ELSE IF source[i] = "h1" THEN Finish(acc)
                           ELSE IF source[i] = "h2" THEN Opened(Finish(acc))
                           ELSE WithLine(acc, i)
    BY DEF ReadLine
  <1>2. acc.page + 1 \in Nat
    BY DEF Reading
  <1>3. OnPage(acc, acc.page + 1) \in Reading
    BY <1>2, PageRead
  <1>4. Finish(acc) \in Reading
    BY FinishIs
  <1>5. Opened(Finish(acc)) \in Reading
    BY <1>4, OpenedIs
  <1>6. WithLine(acc, i) \in Reading
    BY LineRead
  <1> QED
    BY <1>1, <1>3, <1>4, <1>5, <1>6

ReadAlong(g, all) ==
    /\ g \in [0 .. Len(all) -> Reading]
    /\ g[0] = [chunks |-> <<>>, current |-> <<>>, page |-> 0]
    /\ \A k \in 1 .. Len(all) : g[k] = ReadLine(g[k - 1], all[k])
    /\ FoldLeft(ReadLine, [chunks |-> <<>>, current |-> <<>>, page |-> 0], all) = g[Len(all)]

\* All of them.
LEMMA ReadSteps ==
    ASSUME source \in Markdowns, NEW all \in Seq(1 .. Length)
    PROVE  \E g : ReadAlong(g, all)
  <1> DEFINE n == Len(all)
             A == Reading
             base == [chunks |-> <<>>, current |-> <<>>, page |-> 0]
             With(a, x) == ReadLine(a, x)
             onward == [k \in 1 .. n |-> [a \in A |-> With(a, all[k])]]
             Solves(it) == it = [t \in SUBSET (1 .. n) |->
                                    IF t = {} THEN base ELSE With(it[t \ {Max(t)}], all[Max(t)])]
             c == CHOOSE it : Solves(it)
  <1>1. n \in Nat /\ DOMAIN all = 1 .. n /\ \A k \in 1 .. n : all[k] \in 1 .. Length
    BY ElementsOf
  <1>2. base \in A /\ \A a \in A, x \in 1 .. Length : With(a, x) \in A
    <2>1. base \in A
      BY FewOf DEF Reading
    <2>2. \A a \in A, x \in 1 .. Length : With(a, x) \in A
      BY SectionRead
    <2> QED
      BY <2>1, <2>2
  <1>3. onward \in [1 .. n -> [A -> A]]
    BY <1>1, <1>2
  <1>4. \E it : Solves(it)
    <2>1. PICK it : FoldOf(it, A, base, n, onward)
      <3> HIDE DEF base, onward, n, A, With
      <3> QED
        BY <1>1, <1>2, <1>3, FoldSolution
    <2>2. ASSUME NEW t \in SUBSET (1 .. n), t # {}
          PROVE  it[t] = With(it[t \ {Max(t)}], all[Max(t)])
      <3>1. Max(t) \in t
        <4>1. t \subseteq 0 .. n
          OBVIOUS
        <4> QED
          BY <1>1, <2>2, <4>1, Greatest
      <3>2. it[t \ {Max(t)}] \in A
        BY <2>1 DEF FoldOf
      <3> QED
        BY <2>1, <2>2, <3>1, <3>2 DEF FoldOf
    <2>3. Solves(it)
      BY <2>1, <2>2 DEF FoldOf
    <2> QED
      BY <2>3
  <1>5. Solves(c)
    <2> HIDE DEF Solves
    <2> QED
      BY <1>4
  <1>6. FoldLeft(ReadLine, [chunks |-> <<>>, current |-> <<>>, page |-> 0], all) = c[1 .. n]
    BY <1>1 DEF FoldLeft, MapThenFoldSet
  <1>7. c[{}] = base /\ \A k \in 1 .. n : c[1 .. k] = With(c[1 .. k - 1], all[k])
    <2>1. c[{}] = base
      BY <1>5
    <2>2. ASSUME NEW k \in 1 .. n
          PROVE  c[1 .. k] = With(c[1 .. k - 1], all[k])
      <3>1. /\ 1 .. k \in SUBSET (1 .. n) /\ 1 .. k # {}
            /\ Max(1 .. k) = k /\ (1 .. k) \ {k} = 1 .. k - 1
        <4>1. n \in Nat
          BY <1>1
        <4> HIDE DEF n
        <4> QED
          BY <4>1, LastOfPrefix
      <3> HIDE DEF c
      <3> QED
        BY <1>5, <3>1
    <2> HIDE DEF c
    <2> QED
      BY <2>1, <2>2
  <1>8. Walks(c, A, base, n, onward)
    <2> HIDE DEF c
    <2> QED
      BY <1>1, <1>7 DEF Walks
  <1>9. PICK g : Along(g, c, A, base, n, onward)
    <2> HIDE DEF c, base, onward, n, A, With
    <2> QED
      BY <1>1, <1>2, <1>3, <1>8, FoldAlong
  <1>10. \A k \in 1 .. n : g[k] = With(g[k - 1], all[k])
    <2> SUFFICES ASSUME NEW k \in 1 .. n
                 PROVE  g[k] = With(g[k - 1], all[k])
      OBVIOUS
    <2>1. g[k] = onward[k][g[k - 1]] /\ g[k - 1] \in A
      <3>1. k - 1 \in 0 .. n
        BY <1>1
      <3> HIDE DEF onward, A, n, base
      <3> QED
        BY <1>9, <3>1 DEF Along, Steps
    <2> QED
      BY <2>1
  <1>11. g \in [0 .. n -> A] /\ g[0] = base /\ g[n] = c[1 .. n]
    <2> HIDE DEF onward, A, n, base, c
    <2> QED
      BY <1>9 DEF Along, Steps
  <1> HIDE DEF c
  <1> QED
    BY <1>6, <1>10, <1>11 DEF ReadAlong

SectionIs(c, h) ==
    /\ Solid(c.lines) = Sorted(ContentOf(h)) /\ c.start = PageOf(h)
    /\ \A i \in ContentOf(h) : source[i] # "h3" => PageOf(i) <= c.end

Names(chunks, hs, H) ==
    /\ hs \in Seq(1 .. Length) /\ Increasing(hs) /\ ToSet(hs) = H /\ Len(hs) = Len(chunks)
    /\ \A c \in 1 .. Len(hs) : SectionIs(chunks[c], hs[c])

\* The headings above a line that have content, and the lines of a section so far.
HeadsOf(k) == {h \in 1 .. k : source[h] = "h2" /\ ContentOf(h) # {}}
LinesUnder(h, k) == {i \in 1 .. k : Owner(i) = h /\ source[i] \in {"h3", "text", "image", "blank", "rule"}}

OpenSo(cur, k) ==
    /\ cur.start = PageOf(Owner(k)) /\ cur.end = PageOf(k)
    /\ Increasing(cur.lines) /\ ToSet(cur.lines) = LinesUnder(Owner(k), k)

ReadSo(acc, k) ==
    /\ acc \in Reading /\ acc.page = PageOf(k)
    /\ \E hs : Names(acc.chunks, hs, HeadsOf(k) \ {Owner(k)})
    /\ Owner(k) = 0 => acc.current = <<>>
    /\ Owner(k) # 0 => \E cur \in OpenSection : acc.current = <<cur>> /\ OpenSo(cur, k)

\* Lines are numbers.
LEMMA NumbersOf == \A s \in Seq(1 .. Length) : s \in Seq(Int) /\ s \in Seq(0 .. Length)
  <1>1. (1 .. Length) \subseteq Int /\ (1 .. Length) \subseteq 0 .. Length
    BY PreparationAssumption
  <1> QED
    BY <1>1, Wider

\* One section more.
LEMMA NamesMore ==
    ASSUME NEW chunks \in Seq(Section), NEW hs, NEW H, Names(chunks, hs, H),
           NEW c \in Section, NEW h \in 1 .. Length, SectionIs(c, h), \A x \in H : x < h
    PROVE  Names(Append(chunks, c), Append(hs, h), H \cup {h})
  <1> DEFINE ms == Append(hs, h)
             ds == Append(chunks, c)
  <1>1. hs \in Seq(1 .. Length) /\ hs \in Seq(Int) /\ h \in Int /\ Increasing(hs) /\ ToSet(hs) = H /\ Len(hs) = Len(chunks)
    BY NumbersOf DEF Names
  <1>2. ms \in Seq(Int) /\ Increasing(ms) /\ ToSet(ms) = H \cup {h}
    BY <1>1, IncreasingMore
  <1>3. ms \in Seq(1 .. Length)
    <2>1. \A X : \A s \in Seq(X), x \in X : Append(s, x) \in Seq(X)
      OBVIOUS
    <2> QED
      BY <1>1, <2>1
  <1>4. /\ Len(ms) = Len(hs) + 1 /\ ms[Len(hs) + 1] = h /\ Len(hs) \in Nat
        /\ \A i \in 1 .. Len(hs) : ms[i] = hs[i]
    BY <1>1
  <1>5. /\ Len(ds) = Len(chunks) + 1 /\ ds[Len(chunks) + 1] = c
        /\ \A i \in 1 .. Len(chunks) : ds[i] = chunks[i]
    OBVIOUS
  <1> HIDE DEF ms, ds
  <1>6. \A d \in 1 .. Len(ms) : SectionIs(ds[d], ms[d])
    <2> SUFFICES ASSUME NEW d \in 1 .. Len(ms)
                 PROVE  SectionIs(ds[d], ms[d])
      OBVIOUS
    <2>1. CASE d = Len(hs) + 1
      BY <1>1, <1>4, <1>5, <2>1
    <2>2. CASE d # Len(hs) + 1
      <3>1. d \in 1 .. Len(hs)
        BY <1>4, <2>2
      <3>2. SectionIs(chunks[d], hs[d])
        BY <3>1 DEF Names
      <3> QED
        BY <1>1, <1>4, <1>5, <3>1, <3>2
    <2> QED
      BY <2>1, <2>2
  <1>7. Len(ms) = Len(ds)
    BY <1>1, <1>4, <1>5
  <1> QED
    BY <1>2, <1>3, <1>6, <1>7 DEF Names, ms, ds

\* A section that ends has all of its content, in the order of the lines.
LEMMA ContentIs ==
    ASSUME source \in Markdowns, NEW k \in 0 .. Length, k < Length => source[k + 1] \in {"h1", "h2"},
           NEW h \in 1 .. Length, Owner(k) = h, NEW lines \in Seq(1 .. Length),
           Increasing(lines), ToSet(lines) = LinesUnder(h, k)
    PROVE  /\ ContentOf(h) \subseteq 1 .. k
           /\ Solid(NormalizeContent(lines)) = Sorted(ContentOf(h))
           /\ NormalizeContent(lines) = <<>> <=> ContentOf(h) = {}
  <1>1. Length \in Nat /\ DOMAIN source = 1 .. Length
    BY PreparationAssumption DEF Markdowns
  <1>2. \A i \in ContentOf(h) : i \in 1 .. k
    <2> SUFFICES ASSUME NEW i \in 1 .. Length, Owner(i) = h, k < i
                 PROVE  FALSE
      BY <1>1 DEF ContentOf
    <2>1. i \in 0 .. Length /\ k + 1 \in 1 .. i /\ source[k + 1] \in {"h1", "h2"}
      BY <1>1
    <2>2. h <= k
      <3>1. Owner(k) \in 0 .. k
        BY OwnerIs
      <3> QED
        BY <3>1
    <2>3. \A j \in 1 .. i : h < j => source[j] \notin {"h1", "h2"}
      BY <2>1, OwnerIs
    <2> QED
      BY <1>1, <2>1, <2>2, <2>3
  <1> DEFINE t == Among(lines, SolidKinds)
  <1>3. lines \in Seq(Int)
    BY NumbersOf
  <1>4. t \in Seq(Int) /\ Increasing(t) /\ ToSet(t) = ToSet(lines) \cap SolidKinds
    BY <1>3, AmongIncreasing, AmongIs
  <1>5. LinesUnder(h, k) \cap SolidKinds = ContentOf(h)
    <2>1. \A i \in LinesUnder(h, k) \cap SolidKinds : i \in ContentOf(h)
      BY <1>1 DEF LinesUnder, SolidKinds, ContentOf
    <2>2. \A i \in ContentOf(h) : i \in LinesUnder(h, k) \cap SolidKinds
      BY <1>1, <1>2 DEF LinesUnder, SolidKinds, ContentOf
    <2> QED
      BY <2>1, <2>2
  <1> HIDE DEF t
  <1>6. ToSet(t) = ContentOf(h)
    BY <1>4, <1>5
  <1>7. t = Sorted(ContentOf(h))
    BY <1>4, <1>6, SortedIs
  <1>8. t = <<>> <=> ContentOf(h) = {}
    <2>1. Len(t) \in Nat /\ DOMAIN t = 1 .. Len(t) /\ (t = <<>> <=> Len(t) = 0)
      BY <1>4
    <2>2. ToSet(t) = {t[i] : i \in 1 .. Len(t)}
      BY <2>1 DEF ToSet
    <2>3. CASE t = <<>>
      BY <1>6, <2>1, <2>2, <2>3
    <2>4. CASE t # <<>>
      <3>1. 1 \in 1 .. Len(t)
        BY <2>1, <2>4
      <3>2. t[1] \in ToSet(t)
        BY <2>2, <3>1
      <3> QED
        BY <1>6, <2>4, <3>2
    <2> QED
      BY <2>3, <2>4
  <1>9. /\ Solid(NormalizeContent(lines)) = t
        /\ NormalizeContent(lines) # <<>> => t # <<>>
    BY NormalizeIs DEF t
  <1>10. Solid(<<>>) = <<>>
    BY AmongNone DEF Solid
  <1> QED
    BY <1>2, <1>7, <1>8, <1>9, <1>10

\* Finishing a section adds it, if it has content.
LEMMA FinishSo ==
    ASSUME source \in Markdowns, NEW k \in 0 .. Length, k < Length => source[k + 1] \in {"h1", "h2"},
           NEW acc, ReadSo(acc, k)
    PROVE  \E hs : Names(Finish(acc).chunks, hs, HeadsOf(k))
  <1>1. acc \in Reading /\ Length \in Nat
    BY PreparationAssumption DEF ReadSo
  <1>2. PICK hs : Names(acc.chunks, hs, HeadsOf(k) \ {Owner(k)})
    BY DEF ReadSo
  <1>3. Owner(k) \in 0 .. k
    BY OwnerIs
  <1>4. CASE Owner(k) = 0
    <2>1. HeadsOf(k) \ {Owner(k)} = HeadsOf(k)
      BY <1>4 DEF HeadsOf
    <2>2. Finish(acc).chunks = acc.chunks
      BY <1>1, <1>4, FinishIs DEF ReadSo
    <2> QED
      BY <1>2, <2>1, <2>2
  <1>5. CASE Owner(k) # 0
    <2> DEFINE h == Owner(k)
    <2>1. h \in 1 .. Length /\ h \in 1 .. k
      BY <1>1, <1>3, <1>5
    <2>2. source[h] = "h2" /\ \A j \in 1 .. k : h < j => source[j] \notin {"h1", "h2"}
      BY <2>1, OwnerIs
    <2>3. PICK cur \in OpenSection : acc.current = <<cur>> /\ OpenSo(cur, k)
      BY <1>5 DEF ReadSo
    <2> DEFINE content == NormalizeContent(cur.lines)
               done == [cur EXCEPT !.lines = content]
    <2>4. cur.lines \in Seq(1 .. Length) /\ cur.start = PageOf(h) /\ cur.end = PageOf(k)
          /\ Increasing(cur.lines) /\ ToSet(cur.lines) = LinesUnder(h, k)
      BY <2>3 DEF OpenSection, OpenSo
    <2>5. Finish(acc).chunks = (IF content = <<>> THEN acc.chunks ELSE Append(acc.chunks, done)) /\ done \in Section
      BY <1>1, <2>3, FinishIs
    <2>6. done.lines = content /\ done.start = cur.start /\ done.end = cur.end
      BY DEF OpenSection
    <2> HIDE DEF h, done
    <2>7. /\ ContentOf(h) \subseteq 1 .. k /\ Solid(content) = Sorted(ContentOf(h))
          /\ content = <<>> <=> ContentOf(h) = {}
      BY <2>1, <2>4, ContentIs DEF h
    <2> HIDE DEF content
    <2>8. Names(acc.chunks, hs, HeadsOf(k) \ {h})
      BY <1>2 DEF h
    <2>9. CASE content = <<>>
      <3>1. HeadsOf(k) \ {h} = HeadsOf(k)
        BY <2>7, <2>9 DEF HeadsOf
      <3> QED
        BY <2>5, <2>8, <2>9, <3>1
    <2>10. CASE content # <<>>
      <3>1. (HeadsOf(k) \ {h}) \cup {h} = HeadsOf(k)
        BY <2>1, <2>2, <2>7, <2>10 DEF HeadsOf
      <3>2. \A x \in HeadsOf(k) \ {h} : x < h
        BY <1>1, <2>1, <2>2 DEF HeadsOf
      <3>3. SectionIs(done, h)
        <4>1. \A i \in ContentOf(h) : PageOf(i) <= PageOf(k)
          <5> SUFFICES ASSUME NEW i \in ContentOf(h)
                       PROVE  PageOf(i) <= PageOf(k)
            OBVIOUS
          <5>1. i \in 0 .. Length /\ i <= k
            BY <1>1, <2>7
          <5> QED
            BY <5>1, PagesAre
        <4> QED
          BY <2>4, <2>6, <2>7, <4>1 DEF SectionIs
      <3>4. acc.chunks \in Seq(Section)
        BY <1>1 DEF Reading
      <3>5. Names(Append(acc.chunks, done), Append(hs, h), (HeadsOf(k) \ {h}) \cup {h})
        BY <2>1, <2>5, <2>8, <3>2, <3>3, <3>4, NamesMore
      <3> QED
        BY <2>5, <2>10, <3>1, <3>5
    <2> QED
      BY <2>9, <2>10
  <1> QED
    BY <1>4, <1>5

\* What the sections have of the lines read, one line further.
LEMMA ReadNext ==
    ASSUME source \in Markdowns, NEW k \in 1 .. Length, NEW acc, ReadSo(acc, k - 1)
    PROVE  ReadSo(ReadLine(acc, k), k)
  <1> DEFINE b == k - 1
             new == ReadLine(acc, k)
  <1>1. Length \in Nat /\ b \in 0 .. Length /\ b + 1 = k /\ k \in 0 .. Length /\ b < Length
    BY PreparationAssumption
  <1>2. acc \in Reading /\ acc.page = PageOf(b) /\ ReadSo(acc, b)
    BY DEF ReadSo
  <1>3. /\ Owner(k) = IF source[k] = "h2" THEN k ELSE IF source[k] = "h1" THEN 0 ELSE Owner(b)
        /\ PageOf(k) = PageOf(b) + (IF source[k] = "page" THEN 1 ELSE 0)
        /\ PageOf(b) \in Nat
    BY <1>1, OwnerSteps, PagesAre
  <1>4. /\ new \in Reading
        /\ new = IF source[k] = "page" THEN OnPage(acc, acc.page + 1)
                 ELSE IF source[k] = "h1" THEN Finish(acc)
                 ELSE IF source[k] = "h2" THEN Opened(Finish(acc))
                 ELSE WithLine(acc, k)
    BY <1>2, SectionRead
  <1>5. source[k] \in LineKinds
    BY DEF Markdowns
  <1>6. 1 .. k = (1 .. b) \cup {k} /\ k \notin 1 .. b
    BY <1>1
  <1>7. source[k] # "h2" => HeadsOf(k) = HeadsOf(b)
    BY <1>6 DEF HeadsOf
  <1>8. source[k] \in {"page", "h1", "h2"} => \A h : LinesUnder(h, k) = LinesUnder(h, b)
    BY <1>6 DEF LinesUnder
  <1>9. /\ Owner(b) = 0 => acc.current = <<>>
        /\ Owner(b) # 0 => \E cur \in OpenSection : acc.current = <<cur>> /\ OpenSo(cur, b)
        /\ \E hs : Names(acc.chunks, hs, HeadsOf(b) \ {Owner(b)})
    BY <1>2 DEF ReadSo
  <1> HIDE DEF b, new
  <1>10. CASE source[k] = "page"
    <2> DEFINE p == acc.page + 1
    <2>1. new = OnPage(acc, p) /\ p = PageOf(k) /\ p \in Nat
      BY <1>2, <1>3, <1>4, <1>10
    <2>2. Owner(k) = Owner(b) /\ HeadsOf(k) = HeadsOf(b) /\ LinesUnder(Owner(k), k) = LinesUnder(Owner(b), b)
      BY <1>3, <1>7, <1>8, <1>10
    <2> HIDE DEF p
    <2>3. /\ new.chunks = acc.chunks /\ new.page = p
          /\ acc.current = <<>> => new.current = <<>>
          /\ \A cur \in OpenSection : acc.current = <<cur>> =>
                new.current = <<[cur EXCEPT !.end = p]>> /\ [cur EXCEPT !.end = p] \in OpenSection
      BY <1>2, <2>1, PageRead
    <2>4. ASSUME Owner(k) # 0
          PROVE  \E cur \in OpenSection : new.current = <<cur>> /\ OpenSo(cur, k)
      <3>1. PICK cur \in OpenSection : acc.current = <<cur>> /\ OpenSo(cur, b)
        BY <1>9, <2>2, <2>4
      <3> DEFINE cur2 == [cur EXCEPT !.end = p]
      <3>2. cur2.start = cur.start /\ cur2.end = p /\ cur2.lines = cur.lines
        BY DEF OpenSection
      <3>3. new.current = <<cur2>> /\ cur2 \in OpenSection
        BY <2>3, <3>1
      <3> HIDE DEF cur2
      <3>4. OpenSo(cur2, k)
        BY <2>1, <2>2, <3>1, <3>2 DEF OpenSo
      <3> QED
        BY <3>3, <3>4
    <2> QED
      BY <1>4, <1>9, <2>1, <2>2, <2>3, <2>4 DEF ReadSo, new
  <1>11. CASE source[k] = "h1"
    <2>1. new = Finish(acc) /\ Owner(k) = 0 /\ PageOf(k) = PageOf(b)
      BY <1>3, <1>4, <1>11
    <2>2. new.current = <<>> /\ new.page = PageOf(k)
      BY <1>2, <2>1, FinishIs
    <2>3. \E hs : Names(new.chunks, hs, HeadsOf(b))
      BY <1>1, <1>2, <1>11, <2>1, FinishSo
    <2>4. HeadsOf(k) \ {Owner(k)} = HeadsOf(b)
      BY <1>7, <1>11, <2>1 DEF HeadsOf
    <2> QED
      BY <1>4, <2>1, <2>2, <2>3, <2>4 DEF ReadSo, new
  <1>12. CASE source[k] = "h2"
    <2> DEFINE f == Finish(acc)
               cur == [start |-> f.page, end |-> f.page, lines |-> <<>>]
    <2>1. new = Opened(f) /\ Owner(k) = k /\ k # 0 /\ PageOf(k) = PageOf(b)
      BY <1>1, <1>3, <1>4, <1>12
    <2>2. f \in Reading /\ f.page = PageOf(k)
      BY <1>2, <2>1, FinishIs
    <2>3. new.chunks = f.chunks /\ new.page = PageOf(k) /\ new.current = <<cur>> /\ cur \in OpenSection
      BY <2>1, <2>2, OpenedIs
    <2>4. \E hs : Names(new.chunks, hs, HeadsOf(b))
      BY <1>1, <1>2, <1>12, <2>3, FinishSo
    <2>5. HeadsOf(k) \ {Owner(k)} = HeadsOf(b)
      BY <1>6, <2>1 DEF HeadsOf
    <2>6. LinesUnder(k, k) = {}
      <3>1. LinesUnder(k, k) = LinesUnder(k, b)
        BY <1>8, <1>12
      <3>2. \A i \in 1 .. b : Owner(i) # k
        <4> SUFFICES ASSUME NEW i \in 1 .. b
                     PROVE  Owner(i) # k
          OBVIOUS
        <4>1. i \in 0 .. Length /\ i < k
          BY <1>1
        <4>2. Owner(i) \in 0 .. i
          BY <4>1, OwnerIs
        <4> QED
          BY <4>1, <4>2
      <3> QED
        BY <3>1, <3>2 DEF LinesUnder
    <2>7. cur.start = PageOf(k) /\ cur.end = PageOf(k) /\ cur.lines = <<>>
      BY <2>2
    <2>8. Increasing(<<>>) /\ ToSet(<<>>) = {}
      BY DEF Increasing, ToSet
    <2> HIDE DEF cur
    <2>9. OpenSo(cur, k)
      BY <2>1, <2>6, <2>7, <2>8 DEF OpenSo
    <2> QED
      BY <1>4, <2>1, <2>3, <2>4, <2>5, <2>9 DEF ReadSo, new
  <1>13. CASE source[k] \notin {"page", "h1", "h2"}
    <2>1. new = WithLine(acc, k) /\ Owner(k) = Owner(b) /\ PageOf(k) = PageOf(b) /\ HeadsOf(k) = HeadsOf(b)
      BY <1>3, <1>4, <1>7, <1>13
    <2>2. source[k] \in {"h3", "text", "image", "blank", "rule"}
      BY <1>5, <1>13 DEF LineKinds
    <2>3. /\ new.chunks = acc.chunks /\ new.page = acc.page
          /\ acc.current = <<>> => new.current = <<>>
          /\ \A cur \in OpenSection : acc.current = <<cur>> =>
                 \E e \in {cur.end, acc.page} :
                    /\ new.current = <<[start |-> cur.start, end |-> e, lines |-> Append(cur.lines, k)]>>
                    /\ [start |-> cur.start, end |-> e, lines |-> Append(cur.lines, k)] \in OpenSection
      BY <1>2, <2>1, LineRead
    <2>4. ASSUME Owner(k) # 0
          PROVE  \E cur \in OpenSection : new.current = <<cur>> /\ OpenSo(cur, k)
      <3>1. PICK cur \in OpenSection : acc.current = <<cur>> /\ OpenSo(cur, b)
        BY <1>9, <2>1, <2>4
      <3>2. PICK e \in {cur.end, acc.page} :
                    /\ new.current = <<[start |-> cur.start, end |-> e, lines |-> Append(cur.lines, k)]>>
                    /\ [start |-> cur.start, end |-> e, lines |-> Append(cur.lines, k)] \in OpenSection
        BY <2>3, <3>1
      <3>3. /\ cur.start = PageOf(Owner(k)) /\ cur.end = PageOf(k) /\ e = PageOf(k)
            /\ Increasing(cur.lines) /\ ToSet(cur.lines) = LinesUnder(Owner(k), b)
        BY <1>2, <2>1, <3>1, <3>2 DEF OpenSo
      <3>4. LinesUnder(Owner(k), k) = LinesUnder(Owner(k), b) \cup {k}
        BY <1>6, <2>2 DEF LinesUnder
      <3>5. cur.lines \in Seq(Int) /\ k \in Int
        <4>1. cur.lines \in Seq(1 .. Length)
          BY DEF OpenSection
        <4> QED
          BY <4>1, NumbersOf
      <3>6. \A y \in LinesUnder(Owner(k), b) : y < k
        BY <1>1 DEF LinesUnder
      <3>7. Increasing(Append(cur.lines, k)) /\ ToSet(Append(cur.lines, k)) = LinesUnder(Owner(k), k)
        BY <3>3, <3>4, <3>5, <3>6, IncreasingMore
      <3> DEFINE ls == Append(cur.lines, k)
                 cur2 == [start |-> cur.start, end |-> e, lines |-> ls]
      <3>8. cur2.start = cur.start /\ cur2.end = e /\ cur2.lines = ls
        OBVIOUS
      <3>9. new.current = <<cur2>> /\ cur2 \in OpenSection
        BY <3>2
      <3> HIDE DEF cur2
      <3>10. OpenSo(cur2, k)
        BY <3>3, <3>7, <3>8 DEF OpenSo
      <3> QED
        BY <3>9, <3>10
    <2> QED
      BY <1>2, <1>4, <1>9, <2>1, <2>3, <2>4 DEF ReadSo, new
  <1> QED
    BY <1>10, <1>11, <1>12, <1>13

\* The chunks are the sections that have content, in their order.
LEMMA ChunksAre ==
    ASSUME source \in Markdowns
    PROVE  BuildSourceChunks \in Seq(Section) /\ \E hs : Names(BuildSourceChunks, hs, HeadsOf(Length))
  <1> DEFINE all == [i \in DOMAIN source |-> i]
  <1>1. Length \in Nat /\ DOMAIN source = 1 .. Length
    BY PreparationAssumption DEF Markdowns
  <1>2. all \in Seq(1 .. Length) /\ Len(all) = Length /\ \A i \in 1 .. Length : all[i] = i
    <2>1. all = [i \in 1 .. Length |-> i]
      BY <1>1
    <2>2. \A X : \A m \in Nat : \A f \in [1 .. m -> X] : f \in Seq(X) /\ Len(f) = m
      OBVIOUS
    <2>3. all \in [1 .. Length -> 1 .. Length]
      BY <2>1
    <2> QED
      BY <1>1, <2>1, <2>2, <2>3
  <1>3. BuildSourceChunks = Finish(FoldLeft(ReadLine, [chunks |-> <<>>, current |-> <<>>, page |-> 0], all)).chunks
    BY DEF BuildSourceChunks
  <1> HIDE DEF all
  <1>4. PICK g : ReadAlong(g, all)
    BY <1>2, ReadSteps
  <1>5. /\ g \in [0 .. Length -> Reading] /\ g[0] = [chunks |-> <<>>, current |-> <<>>, page |-> 0]
        /\ \A k \in 1 .. Length : g[k] = ReadLine(g[k - 1], k)
        /\ BuildSourceChunks = Finish(g[Length]).chunks
    BY <1>2, <1>3, <1>4 DEF ReadAlong
  <1> DEFINE T == {k \in 0 .. Length : ReadSo(g[k], k)}
  <1>6. 0 \in T
    <2>1. 0 \in 0 .. Length
      BY <1>1
    <2>2. g[0] \in Reading /\ g[0].page = 0 /\ g[0].chunks = <<>> /\ g[0].current = <<>>
      BY <1>5, <2>1
    <2>3. Owner(0) = 0 /\ PageOf(0) = 0
      BY OwnerSteps, PagesAre
    <2>4. HeadsOf(0) \ {Owner(0)} = {}
      BY DEF HeadsOf
    <2>5. Names(<<>>, <<>>, {})
      <3>1. <<>> \in Seq(1 .. Length) /\ Len(<<>>) = 0
        BY FewOf
      <3>2. Increasing(<<>>) /\ ToSet(<<>>) = {}
        BY DEF Increasing, ToSet
      <3>3. \A c \in 1 .. 0 : SectionIs(<<>>[c], <<>>[c])
        OBVIOUS
      <3> QED
        BY <3>1, <3>2, <3>3 DEF Names
    <2> QED
      BY <2>1, <2>2, <2>3, <2>4, <2>5 DEF ReadSo
  <1>7. ASSUME NEW k \in 1 .. Length, k - 1 \in T
        PROVE  k \in T
    <2>1. g[k] = ReadLine(g[k - 1], k) /\ ReadSo(g[k - 1], k - 1) /\ k \in 0 .. Length
      BY <1>1, <1>5, <1>7
    <2>2. ReadSo(ReadLine(g[k - 1], k), k)
      BY <2>1, ReadNext
    <2> QED
      BY <2>1, <2>2
  <1> HIDE DEF T
  <1>8. \A k \in 0 .. Length : k \in T
    BY <1>1, <1>6, <1>7, Climb
  <1>9. Length \in 0 .. Length /\ ~(Length < Length)
    BY <1>1
  <1>10. ReadSo(g[Length], Length)
    BY <1>8, <1>9 DEF T
  <1>11. \E hs : Names(Finish(g[Length]).chunks, hs, HeadsOf(Length))
    BY <1>9, <1>10, FinishSo
  <1>12. Finish(g[Length]).chunks \in Seq(Section)
    <2>1. Finish(g[Length]) \in Reading
      BY <1>10, FinishIs DEF ReadSo
    <2> QED
      BY <2>1 DEF Reading
  <1> QED
    BY <1>5, <1>11, <1>12

\* What the property says of a list of chunks.
Owners == {h \in DOMAIN source : source[h] = "h2" /\ ContentOf(h) # {}}

SectionsOf(chunks) ==
    LET order == Sorted(Owners)
    IN /\ Len(chunks) = Len(order)
       /\ \A c \in DOMAIN chunks :
             /\ Solid(chunks[c].lines) = Sorted(ContentOf(order[c]))
             /\ chunks[c].start = PageOf(order[c])
             /\ \A i \in ContentOf(order[c]) : source[i] # "h3" => PageOf(i) <= chunks[c].end

\* The sections with content are those of the property.
LEMMA OwnersAre ==
    ASSUME source \in Markdowns, NEW chunks, NEW hs, Names(chunks, hs, HeadsOf(Length))
    PROVE  hs = Sorted(Owners) /\ ToSet(hs) = Owners
  <1>1. Owners = HeadsOf(Length)
    BY DEF HeadsOf, Markdowns, Owners
  <1>2. hs \in Seq(Int) /\ Increasing(hs) /\ ToSet(hs) = HeadsOf(Length)
    BY NumbersOf DEF Names
  <1> QED
    BY <1>1, <1>2, SortedIs

\* The sections are what the property says of them.
LEMMA SectionsHold ==
    ASSUME source \in Markdowns, NEW chunks \in Seq(Section), NEW hs, Names(chunks, hs, HeadsOf(Length))
    PROVE  SectionsOf(chunks)
  <1>1. hs = Sorted(Owners)
    BY OwnersAre
  <1>2. Len(hs) = Len(chunks) /\ \A c \in 1 .. Len(hs) : SectionIs(chunks[c], hs[c])
    BY DEF Names
  <1>3. DOMAIN chunks = 1 .. Len(chunks)
    OBVIOUS
  <1> QED
    BY <1>1, <1>2, <1>3 DEF SectionsOf, SectionIs

-----------------------------------------------------------------------------
(* The blocks of a section, line by line.                                  *)

Block == [lines : Seq(1 .. Length), path : Seq(1 .. Length), images : Seq(1 .. Length)]
Parsing == [blocks : Seq(Block), current : {<<>>} \cup {<<b>> : b \in Block},
            headings : Seq(1 .. Length), pending : Seq(1 .. Length)]

AllOf(acc) == acc.blocks \o acc.current

MoreImages(b, more) == [b EXCEPT !.images = b.images \o more]
MoreText(b, i) == [b EXCEPT !.lines = Append(b.lines, i)]

\* Types: an image more ...
LEMMA ImagesGrow ==
    ASSUME NEW b \in Block, NEW more \in Seq(1 .. Length)
    PROVE  /\ MoreImages(b, more) \in Block
           /\ MoreImages(b, more).images = b.images \o more /\ MoreImages(b, more).lines = b.lines
           /\ b.lines \in Seq(1 .. Length) /\ b.images \in Seq(1 .. Length)
  <1> DEFINE L == Seq(1 .. Length)
             im == b.images \o more
  <1>1. b \in [lines : L, path : L, images : L]
    BY DEF Block
  <1>2. im \in L
    <2>1. \A X : \A s, t \in Seq(X) : s \o t \in Seq(X)
      OBVIOUS
    <2>2. b.images \in Seq(1 .. Length)
      BY DEF Block
    <2> QED
      BY <2>1, <2>2
  <1> HIDE DEF L, im
  <1>3. /\ [b EXCEPT !.images = im] \in [lines : L, path : L, images : L]
        /\ [b EXCEPT !.images = im].images = im /\ [b EXCEPT !.images = im].lines = b.lines
        /\ b.lines \in L /\ b.images \in L
    BY <1>1, <1>2
  <1> QED
    BY <1>3 DEF L, im, Block, MoreImages

\* ... a line of text more ...
LEMMA TextGrows ==
    ASSUME NEW b \in Block, NEW i \in 1 .. Length
    PROVE  /\ MoreText(b, i) \in Block
           /\ MoreText(b, i).lines = Append(b.lines, i) /\ MoreText(b, i).images = b.images
  <1> DEFINE L == Seq(1 .. Length)
             ls == Append(b.lines, i)
  <1>1. b \in [lines : L, path : L, images : L]
    BY DEF Block
  <1>2. ls \in L
    <2>1. b.lines \in Seq(1 .. Length)
      BY DEF Block
    <2> QED
      BY <2>1, Extend
  <1> HIDE DEF L, ls
  <1>3. /\ [b EXCEPT !.lines = ls] \in [lines : L, path : L, images : L]
        /\ [b EXCEPT !.lines = ls].lines = ls /\ [b EXCEPT !.lines = ls].images = b.images
    BY <1>1, <1>2
  <1> QED
    BY <1>3 DEF L, ls, Block, MoreText

\* ... images given to a block ...
LEMMA WithImagesIs ==
    ASSUME NEW front \in Seq(Block), NEW b \in Block, NEW more \in Seq(1 .. Length)
    PROVE  WithImages(Append(front, b), more) = Append(front, MoreImages(b, more))
  <1> DEFINE s == Append(front, b)
             n == Len(front) + 1
             c == MoreImages(b, more)
             r == Append(front, c)
             u == WithImages(s, more)
  <1>0. c \in Block
    BY ImagesGrow
  <1>1. /\ s \in Seq(Block) /\ Len(s) = n /\ n \in Nat /\ s[n] = b /\ \A k \in 1 .. Len(front) : s[k] = front[k]
    BY Extend
  <1> HIDE DEF c
  <1>2. /\ r \in Seq(Block) /\ Len(r) = n /\ r[n] = c /\ \A k \in 1 .. Len(front) : r[k] = front[k]
    BY <1>0, Extend
  <1>3. n \in 1 .. n /\ \A k \in 1 .. n : k # n => k \in 1 .. Len(front)
    BY <1>1
  <1>4. DOMAIN s = 1 .. n
    BY <1>1
  <1>5. u = [s EXCEPT ![Len(s)].images = @ \o more]
    BY DEF WithImages
  <1> HIDE DEF s, r, u, n
  <1>6. u = [s EXCEPT ![n] = MoreImages(s[n], more)]
    BY <1>1, <1>3, <1>4, <1>5 DEF MoreImages
  <1>7. u = [k \in 1 .. n |-> IF k = n THEN c ELSE s[k]]
    BY <1>1, <1>4, <1>6 DEF c
  <1>8. r = [k \in 1 .. n |-> r[k]]
    BY <1>2
  <1>9. \A k \in 1 .. n : r[k] = IF k = n THEN c ELSE s[k]
    BY <1>1, <1>2, <1>3
  <1>10. u = r
    BY <1>7, <1>8, <1>9
  <1> QED
    BY <1>10 DEF u, r, s, c

\* What a line does to the blocks and to the images that wait for one.
Onward(i, a, p, b, q) ==
    \/ (i = 0 \/ source[i] = "h3") /\ b = a /\ q = p
    \/ i # 0 /\ source[i] = "image" /\ b = a /\ q = Append(p, i)
    \/ /\ i # 0 /\ source[i] = "image" /\ q = p
       /\ \E front \in Seq(Block), x \in Block : a = Append(front, x) /\ b = Append(front, MoreImages(x, <<i>>))
    \/ /\ i # 0 /\ source[i] \notin {"h3", "image"} /\ q = <<>>
       /\ \E x \in Block : x.lines = <<i>> /\ x.images = p /\ b = Append(a, x)
    \/ /\ i # 0 /\ source[i] \notin {"h3", "image"} /\ q = p
       /\ \E front \in Seq(Block), x \in Block : a = Append(front, x) /\ b = Append(front, MoreText(x, i))

\* ... the open block closed.
LEMMA FlushIs ==
    ASSUME NEW acc \in Parsing
    PROVE  /\ Flush(acc) \in Parsing /\ AllOf(acc) \in Seq(Block) /\ Flush(acc).blocks = AllOf(acc)
           /\ Flush(acc).current = <<>> /\ Flush(acc).pending = acc.pending /\ Flush(acc).headings = acc.headings
           /\ AllOf(Flush(acc)) = AllOf(acc)
  <1>1. AllOf(acc) \in Seq(Block)
    <2>1. acc.blocks \in Seq(Block) /\ acc.current \in Seq(Block)
      BY FewOf DEF Parsing
    <2> QED
      BY <2>1 DEF AllOf
  <1>2. Flush(acc) = [acc EXCEPT !.blocks = AllOf(acc), !.current = <<>>]
    BY DEF Flush, AllOf
  <1> DEFINE all == AllOf(acc)
             new == Flush(acc)
  <1> HIDE DEF all
  <1>3. new = [acc EXCEPT !.blocks = all, !.current = <<>>] /\ all \in Seq(Block)
    BY <1>1, <1>2 DEF all
  <1> HIDE DEF new
  <1>4. /\ new.blocks = all /\ new.current = <<>> /\ new.pending = acc.pending /\ new.headings = acc.headings
    BY <1>3 DEF Parsing
  <1>5. new \in Parsing
    BY <1>3 DEF Parsing
  <1>6. AllOf(new) = all
    <2>1. all \o <<>> = all
      BY <1>3, ConcatEmptySeq
    <2> QED
      BY <1>4, <2>1 DEF AllOf
  <1> QED
    BY <1>3, <1>4, <1>5, <1>6 DEF all, new

\* What a heading ...
LEMMA HeadingParsed ==
    ASSUME NEW acc \in Parsing, NEW i \in 1 .. Length
    PROVE  /\ UnderHeading(acc, i) \in Parsing /\ AllOf(UnderHeading(acc, i)) = AllOf(acc)
           /\ UnderHeading(acc, i).pending = acc.pending
  <1> DEFINE size == IF Len(acc.headings) < 2 THEN Len(acc.headings) ELSE 2
             kept == SubSeq(acc.headings, 1, size)
             flushed == Flush(acc)
             path == Append(kept, i)
             new == UnderHeading(acc, i)
  <1>1. acc.headings \in Seq(1 .. Length)
    BY DEF Parsing
  <1>2. path \in Seq(1 .. Length)
    <2>1. Len(acc.headings) \in Nat
      BY <1>1
    <2>2. 1 \in 1 .. Len(acc.headings) + 1 /\ size \in 1 - 1 .. Len(acc.headings)
      BY <2>1
    <2> HIDE DEF size
    <2>3. kept \in Seq(1 .. Length)
      BY <1>1, <2>2, CutIs
    <2> HIDE DEF kept
    <2> QED
      BY <2>3, Extend
  <1>3. new = [flushed EXCEPT !.headings = path]
    BY DEF UnderHeading
  <1>4. /\ flushed \in Parsing /\ AllOf(flushed) = AllOf(acc) /\ flushed.pending = acc.pending
    BY FlushIs
  <1> HIDE DEF new, flushed, path
  <1>5. /\ new \in Parsing /\ new.blocks = flushed.blocks /\ new.current = flushed.current /\ new.pending = flushed.pending
    BY <1>2, <1>3, <1>4 DEF Parsing
  <1> QED
    BY <1>4, <1>5 DEF AllOf, new

\* ... an image ...
LEMMA ImageParsed ==
    ASSUME NEW acc \in Parsing, NEW i \in 1 .. Length, source[i] = "image"
    PROVE  /\ WithImage(acc, i) \in Parsing
           /\ Onward(i, AllOf(acc), acc.pending, AllOf(WithImage(acc, i)), WithImage(acc, i).pending)
  <1> DEFINE new == WithImage(acc, i)
             bs == acc.blocks
  <1>1. bs \in Seq(Block) /\ acc.pending \in Seq(1 .. Length) /\ i # 0 /\ <<i>> \in Seq(1 .. Length)
    BY FewOf DEF Parsing
  <1>2. CASE bs # <<>> /\ acc.current = <<>>
    <2>1. PICK front \in Seq(Block), x \in Block : bs = Append(front, x)
      BY <1>1, <1>2, LastApart
    <2> DEFINE ds == Append(front, MoreImages(x, <<i>>))
    <2>2. ds \in Seq(Block)
      BY <1>1, ImagesGrow, Extend
    <2>3. WithImages(bs, <<i>>) = ds
      BY <1>1, <2>1, WithImagesIs
    <2>4. new = [acc EXCEPT !.blocks = ds]
      BY <1>2, <2>3 DEF WithImage
    <2> HIDE DEF new, ds
    <2>5. new \in Parsing /\ new.blocks = ds /\ new.current = <<>> /\ new.pending = acc.pending
      BY <1>2, <2>2, <2>4 DEF Parsing
    <2>6. AllOf(new) = ds /\ AllOf(acc) = bs
      <3>1. ds \o <<>> = ds /\ bs \o <<>> = bs
        BY <1>1, <2>2, ConcatEmptySeq
      <3> QED
        BY <1>2, <2>5, <3>1 DEF AllOf
    <2> QED
      BY <1>1, <2>1, <2>5, <2>6 DEF Onward, new, ds
  <1>3. CASE ~(bs # <<>> /\ acc.current = <<>>)
    <2> DEFINE qs == Append(acc.pending, i)
    <2>1. new = [acc EXCEPT !.pending = qs]
      BY <1>3 DEF WithImage
    <2>2. qs \in Seq(1 .. Length)
      BY <1>1, Extend
    <2> HIDE DEF new, qs
    <2>3. new \in Parsing /\ new.blocks = bs /\ new.current = acc.current /\ new.pending = qs
      BY <2>1, <2>2 DEF Parsing
    <2> QED
      BY <1>1, <2>3 DEF Onward, AllOf, new, qs
  <1> QED
    BY <1>2, <1>3

\* ... and a line of text do.
LEMMA TextParsed ==
    ASSUME NEW acc \in Parsing, NEW i \in 1 .. Length, source[i] \notin {"h3", "image"}
    PROVE  /\ WithText(acc, i) \in Parsing
           /\ Onward(i, AllOf(acc), acc.pending, AllOf(WithText(acc, i)), WithText(acc, i).pending)
  <1> DEFINE new == WithText(acc, i)
             bs == acc.blocks
  <1>1. /\ bs \in Seq(Block) /\ acc.pending \in Seq(1 .. Length) /\ acc.headings \in Seq(1 .. Length)
        /\ i # 0 /\ <<i>> \in Seq(1 .. Length) /\ <<>> \in Seq(1 .. Length)
    BY FewOf DEF Parsing
  <1>2. CASE acc.current = <<>>
    <2> DEFINE x == [lines |-> <<i>>, path |-> acc.headings, images |-> acc.pending]
    <2>1. x \in Block /\ x.lines = <<i>> /\ x.images = acc.pending
      BY <1>1 DEF Block
    <2>2. new = [acc EXCEPT !.current = <<x>>, !.pending = <<>>]
      BY <1>2 DEF WithText
    <2> HIDE DEF x, new
    <2>3. new \in Parsing /\ new.blocks = bs /\ new.current = <<x>> /\ new.pending = <<>>
      BY <1>1, <2>1, <2>2 DEF Parsing
    <2>4. AllOf(new) = Append(bs, x) /\ AllOf(acc) = bs
      <3>1. bs \o <<>> = bs /\ Append(bs, x) = bs \o <<x>>
        BY <1>1, <2>1, ConcatEmptySeq, AppendBehind
      <3> QED
        BY <1>2, <2>3, <3>1 DEF AllOf
    <2> QED
      BY <1>1, <2>1, <2>3, <2>4 DEF Onward, new
  <1>3. CASE acc.current # <<>>
    <2>1. PICK x \in Block : acc.current = <<x>>
      BY <1>3 DEF Parsing
    <2> DEFINE y == MoreText(x, i)
    <2>2. acc.current[1] = x
      BY <2>1
    <2>3. new = [acc EXCEPT !.current = <<y>>]
      <3>1. new = [acc EXCEPT !.current = <<[acc.current[1] EXCEPT !.lines = Append(acc.current[1].lines, i)]>>]
        BY <1>3 DEF WithText
      <3> QED
        BY <2>2, <3>1 DEF MoreText
    <2>4. y \in Block
      BY <1>1, TextGrows
    <2> HIDE DEF y, new
    <2>5. new \in Parsing /\ new.blocks = bs /\ new.current = <<y>> /\ new.pending = acc.pending
      BY <2>3, <2>4 DEF Parsing
    <2>6. AllOf(new) = Append(bs, y) /\ AllOf(acc) = Append(bs, x)
      <3>1. Append(bs, x) = bs \o <<x>> /\ Append(bs, y) = bs \o <<y>>
        BY <1>1, <2>4, AppendBehind
      <3> QED
        BY <2>1, <2>5, <3>1 DEF AllOf
    <2> QED
      BY <1>1, <2>5, <2>6 DEF Onward, new, y
  <1> QED
    BY <1>2, <1>3

\* What any line does.
LEMMA ParseIs ==
    ASSUME source \in Markdowns, NEW acc \in Parsing, NEW i \in 0 .. Length
    PROVE  /\ ParseLine(acc, i) \in Parsing /\ AllOf(acc) \in Seq(Block)
           /\ Onward(i, AllOf(acc), acc.pending, AllOf(ParseLine(acc, i)), ParseLine(acc, i).pending)
  <1>1. AllOf(acc) \in Seq(Block)
    BY FlushIs
  <1>2. CASE i = 0
    <2>1. ParseLine(acc, i) = Flush(acc)
      BY <1>2 DEF ParseLine
    <2> QED
      BY <1>1, <1>2, <2>1, FlushIs DEF Onward
  <1>3. CASE i # 0
    <2>1. i \in 1 .. Length
      BY <1>3, PreparationAssumption
    <2>2. ParseLine(acc, i) = IF source[i] = "h3" THEN UnderHeading(acc, i)
                              ELSE IF source[i] = "image" THEN WithImage(acc, i)
                              ELSE WithText(acc, i)
      BY <1>3 DEF ParseLine
    <2>3. CASE source[i] = "h3"
      <3>1. ParseLine(acc, i) = UnderHeading(acc, i)
        BY <2>2, <2>3
      <3> QED
        BY <1>1, <2>1, <2>3, <3>1, HeadingParsed DEF Onward
    <2>4. CASE source[i] = "image"
      <3>1. ParseLine(acc, i) = WithImage(acc, i)
        BY <2>2, <2>4
      <3> QED
        BY <1>1, <2>1, <2>4, <3>1, ImageParsed
    <2>5. CASE source[i] \notin {"h3", "image"}
      <3>1. ParseLine(acc, i) = WithText(acc, i)
        BY <2>2, <2>5
      <3> QED
        BY <1>1, <2>1, <2>5, <3>1, TextParsed
    <2> QED
      BY <2>3, <2>4, <2>5
  <1> QED
    BY <1>2, <1>3

ParseAlong(g, lines) ==
    /\ g \in [0 .. Len(lines) -> Parsing]
    /\ g[0] = [blocks |-> <<>>, current |-> <<>>, headings |-> <<>>, pending |-> <<>>]
    /\ \A k \in 1 .. Len(lines) : g[k] = ParseLine(g[k - 1], lines[k])
    /\ FoldLeft(ParseLine, [blocks |-> <<>>, current |-> <<>>, headings |-> <<>>, pending |-> <<>>], lines) = g[Len(lines)]

\* Line by line.
LEMMA ParseSteps ==
    ASSUME source \in Markdowns, NEW lines \in Seq(0 .. Length)
    PROVE  \E g : ParseAlong(g, lines)
  <1> DEFINE n == Len(lines)
             A == Parsing
             base == [blocks |-> <<>>, current |-> <<>>, headings |-> <<>>, pending |-> <<>>]
             With(a, x) == ParseLine(a, x)
             onward == [k \in 1 .. n |-> [a \in A |-> With(a, lines[k])]]
             Solves(it) == it = [t \in SUBSET (1 .. n) |->
                                    IF t = {} THEN base ELSE With(it[t \ {Max(t)}], lines[Max(t)])]
             c == CHOOSE it : Solves(it)
  <1>1. n \in Nat /\ DOMAIN lines = 1 .. n /\ \A k \in 1 .. n : lines[k] \in 0 .. Length
    BY ElementsOf
  <1>2. base \in A /\ \A a \in A, x \in 0 .. Length : With(a, x) \in A
    <2>1. base \in A
      BY FewOf DEF Parsing
    <2>2. \A a \in A, x \in 0 .. Length : With(a, x) \in A
      BY ParseIs
    <2> QED
      BY <2>1, <2>2
  <1>3. onward \in [1 .. n -> [A -> A]]
    BY <1>1, <1>2
  <1>4. \E it : Solves(it)
    <2>1. PICK it : FoldOf(it, A, base, n, onward)
      <3> HIDE DEF base, onward, n, A, With
      <3> QED
        BY <1>1, <1>2, <1>3, FoldSolution
    <2>2. ASSUME NEW t \in SUBSET (1 .. n), t # {}
          PROVE  it[t] = With(it[t \ {Max(t)}], lines[Max(t)])
      <3>1. Max(t) \in t
        <4>1. t \subseteq 0 .. n
          OBVIOUS
        <4> QED
          BY <1>1, <2>2, <4>1, Greatest
      <3>2. it[t \ {Max(t)}] \in A
        BY <2>1 DEF FoldOf
      <3> QED
        BY <2>1, <2>2, <3>1, <3>2 DEF FoldOf
    <2>3. Solves(it)
      BY <2>1, <2>2 DEF FoldOf
    <2> QED
      BY <2>3
  <1>5. Solves(c)
    <2> HIDE DEF Solves
    <2> QED
      BY <1>4
  <1>6. FoldLeft(ParseLine, [blocks |-> <<>>, current |-> <<>>, headings |-> <<>>, pending |-> <<>>], lines) = c[1 .. n]
    BY <1>1 DEF FoldLeft, MapThenFoldSet
  <1>7. c[{}] = base /\ \A k \in 1 .. n : c[1 .. k] = With(c[1 .. k - 1], lines[k])
    <2>1. c[{}] = base
      BY <1>5
    <2>2. ASSUME NEW k \in 1 .. n
          PROVE  c[1 .. k] = With(c[1 .. k - 1], lines[k])
      <3>1. /\ 1 .. k \in SUBSET (1 .. n) /\ 1 .. k # {}
            /\ Max(1 .. k) = k /\ (1 .. k) \ {k} = 1 .. k - 1
        <4>1. n \in Nat
          BY <1>1
        <4> HIDE DEF n
        <4> QED
          BY <4>1, LastOfPrefix
      <3> HIDE DEF c
      <3> QED
        BY <1>5, <3>1
    <2> HIDE DEF c
    <2> QED
      BY <2>1, <2>2
  <1>8. Walks(c, A, base, n, onward)
    <2> HIDE DEF c
    <2> QED
      BY <1>1, <1>7 DEF Walks
  <1>9. PICK g : Along(g, c, A, base, n, onward)
    <2> HIDE DEF c, base, onward, n, A, With
    <2> QED
      BY <1>1, <1>2, <1>3, <1>8, FoldAlong
  <1>10. \A k \in 1 .. n : g[k] = With(g[k - 1], lines[k])
    <2> SUFFICES ASSUME NEW k \in 1 .. n
                 PROVE  g[k] = With(g[k - 1], lines[k])
      OBVIOUS
    <2>1. g[k] = onward[k][g[k - 1]] /\ g[k - 1] \in A
      <3>1. k - 1 \in 0 .. n
        BY <1>1
      <3> HIDE DEF onward, A, n, base
      <3> QED
        BY <1>9, <3>1 DEF Along, Steps
    <2> QED
      BY <2>1
  <1>11. g \in [0 .. n -> A] /\ g[0] = base /\ g[n] = c[1 .. n]
    <2> HIDE DEF onward, A, n, base, c
    <2> QED
      BY <1>9 DEF Along, Steps
  <1> HIDE DEF c
  <1> QED
    BY <1>6, <1>10, <1>11 DEF ParseAlong

Texts == {i \in 1 .. Length : source[i] = "text"}
Pictures == {i \in 1 .. Length : source[i] = "image"}

\* The lines and the images of blocks, one block behind the other.
TextsOf(bs) == [b \in DOMAIN bs |-> bs[b].lines]
PicturesOf(bs) == [b \in DOMAIN bs |-> bs[b].images]
Words(bs) == FlattenSeq(TextsOf(bs))
Views(bs) == FlattenSeq(PicturesOf(bs))

\* The texts and the images of blocks are sequences of sequences.
LEMMA ListsOf ==
    ASSUME NEW bs \in Seq(Block)
    PROVE  /\ TextsOf(bs) \in Seq(Seq(1 .. Length)) /\ Len(TextsOf(bs)) = Len(bs)
           /\ PicturesOf(bs) \in Seq(Seq(1 .. Length)) /\ Len(PicturesOf(bs)) = Len(bs)
           /\ \A b \in 1 .. Len(bs) : TextsOf(bs)[b] = bs[b].lines /\ PicturesOf(bs)[b] = bs[b].images
  <1> DEFINE L == Seq(1 .. Length)
             n == Len(bs)
  <1>1. n \in Nat /\ DOMAIN bs = 1 .. n /\ \A b \in 1 .. n : bs[b] \in Block
    BY ElementsOf
  <1>2. \A b \in 1 .. n : bs[b].lines \in L /\ bs[b].images \in L
    BY <1>1 DEF Block
  <1>3. \A X : \A m \in Nat : \A f \in [1 .. m -> X] : f \in Seq(X) /\ Len(f) = m
    OBVIOUS
  <1> HIDE DEF L, n
  <1>4. TextsOf(bs) = [b \in 1 .. n |-> bs[b].lines] /\ PicturesOf(bs) = [b \in 1 .. n |-> bs[b].images]
    BY <1>1 DEF TextsOf, PicturesOf
  <1>5. TextsOf(bs) \in [1 .. n -> L] /\ PicturesOf(bs) \in [1 .. n -> L]
    BY <1>2, <1>4
  <1>6. TextsOf(bs) \in Seq(L) /\ Len(TextsOf(bs)) = n /\ PicturesOf(bs) \in Seq(L) /\ Len(PicturesOf(bs)) = n
    BY <1>1, <1>3, <1>5
  <1>7. \A b \in 1 .. n : TextsOf(bs)[b] = bs[b].lines /\ PicturesOf(bs)[b] = bs[b].images
    BY <1>4
  <1> QED
    BY <1>6, <1>7 DEF L, n

\* The lines and the images of blocks, of two sequences of them.
LEMMA WordsAre ==
    ASSUME NEW bs \in Seq(Block)
    PROVE  /\ Words(bs) \in Seq(1 .. Length) /\ Views(bs) \in Seq(1 .. Length)
           /\ \A b \in 1 .. Len(bs) : /\ ToSet(bs[b].images) \subseteq ToSet(Views(bs))
                                      /\ ToSet(bs[b].lines) \subseteq ToSet(Words(bs))
           /\ \A i \in ToSet(Views(bs)) : \E b \in 1 .. Len(bs) : i \in ToSet(bs[b].images)
  <1> DEFINE X == 1 .. Length
             ts == TextsOf(bs)
             vs == PicturesOf(bs)
  <1>1. /\ ts \in Seq(Seq(X)) /\ Len(ts) = Len(bs) /\ vs \in Seq(Seq(X)) /\ Len(vs) = Len(bs)
        /\ \A b \in 1 .. Len(bs) : ts[b] = bs[b].lines /\ vs[b] = bs[b].images
    BY ListsOf
  <1> HIDE DEF X, ts, vs
  <1>2. /\ FlattenSeq(ts) \in Seq(X) /\ \A x : x \in ToSet(FlattenSeq(ts)) <=> \E i \in 1 .. Len(ts) : x \in ToSet(ts[i])
    BY <1>1, FlattenIs
  <1>3. /\ FlattenSeq(vs) \in Seq(X) /\ \A x : x \in ToSet(FlattenSeq(vs)) <=> \E i \in 1 .. Len(vs) : x \in ToSet(vs[i])
    BY <1>1, FlattenIs
  <1>4. Words(bs) = FlattenSeq(ts) /\ Views(bs) = FlattenSeq(vs)
    BY DEF Words, Views, ts, vs
  <1> QED
    BY <1>1, <1>2, <1>3, <1>4 DEF X

\* One sequence more.
LEMMA FlattenBehind ==
    ASSUME NEW ts \in Seq(Seq(1 .. Length)), NEW s \in Seq(1 .. Length)
    PROVE  FlattenSeq(Append(ts, s)) = FlattenSeq(ts) \o s
  <1>1. \A X : \A ss \in Seq(Seq(X)), t \in Seq(X) : FlattenSeq(Append(ss, t)) = FlattenSeq(ss) \o t
    BY FlattenFew
  <1> QED
    BY <1>1

\* One block more.
LEMMA WordsMore ==
    ASSUME NEW bs \in Seq(Block), NEW x \in Block
    PROVE  Words(Append(bs, x)) = Words(bs) \o x.lines /\ Views(Append(bs, x)) = Views(bs) \o x.images
  <1> DEFINE L == Seq(1 .. Length)
             ds == Append(bs, x)
             n == Len(bs)
  <1>1. /\ ds \in Seq(Block) /\ n \in Nat /\ Len(ds) = n + 1 /\ ds[n + 1] = x /\ \A k \in 1 .. n : ds[k] = bs[k]
    BY Extend
  <1>2. x.lines \in L /\ x.images \in L
    BY DEF Block
  <1> HIDE DEF ds
  <1>3. /\ TextsOf(ds) \in Seq(L) /\ Len(TextsOf(ds)) = n + 1 /\ PicturesOf(ds) \in Seq(L) /\ Len(PicturesOf(ds)) = n + 1
        /\ \A b \in 1 .. n + 1 : TextsOf(ds)[b] = ds[b].lines /\ PicturesOf(ds)[b] = ds[b].images
    BY <1>1, ListsOf
  <1>4. /\ TextsOf(bs) \in Seq(L) /\ Len(TextsOf(bs)) = n /\ PicturesOf(bs) \in Seq(L) /\ Len(PicturesOf(bs)) = n
        /\ \A b \in 1 .. n : TextsOf(bs)[b] = bs[b].lines /\ PicturesOf(bs)[b] = bs[b].images
    BY ListsOf
  <1> HIDE DEF L, n
  <1> DEFINE ts == TextsOf(bs)
             vs == PicturesOf(bs)
             us == Append(ts, x.lines)
             ws == Append(vs, x.images)
  <1>5. /\ us \in Seq(L) /\ Len(us) = n + 1 /\ us[n + 1] = x.lines /\ \A k \in 1 .. n : us[k] = ts[k]
    BY <1>2, <1>4, Extend
  <1>6. /\ ws \in Seq(L) /\ Len(ws) = n + 1 /\ ws[n + 1] = x.images /\ \A k \in 1 .. n : ws[k] = vs[k]
    BY <1>2, <1>4, Extend
  <1> HIDE DEF us, ws
  <1>7. \A k \in 1 .. n + 1 : TextsOf(ds)[k] = us[k] /\ PicturesOf(ds)[k] = ws[k]
    <2> SUFFICES ASSUME NEW k \in 1 .. n + 1
                 PROVE  TextsOf(ds)[k] = us[k] /\ PicturesOf(ds)[k] = ws[k]
      OBVIOUS
    <2>1. CASE k = n + 1
      BY <1>1, <1>3, <1>5, <1>6, <2>1
    <2>2. CASE k # n + 1
      <3>1. k \in 1 .. n
        BY <1>1, <2>2
      <3>2. TextsOf(ds)[k] = bs[k].lines /\ PicturesOf(ds)[k] = bs[k].images
        BY <1>1, <1>3, <3>1
      <3> QED
        BY <1>4, <1>5, <1>6, <3>1, <3>2
    <2> QED
      BY <2>1, <2>2
  <1>8. TextsOf(ds) = us
    BY <1>3, <1>5, <1>7, SeqEqual
  <1>9. PicturesOf(ds) = ws
    BY <1>3, <1>6, <1>7, SeqEqual
  <1>10. FlattenSeq(us) = FlattenSeq(ts) \o x.lines
    BY <1>2, <1>4, FlattenBehind DEF us, L
  <1>11. FlattenSeq(ws) = FlattenSeq(vs) \o x.images
    BY <1>2, <1>4, FlattenBehind DEF ws, L
  <1> QED
    BY <1>8, <1>9, <1>10, <1>11 DEF Words, Views, ds

\* No blocks.
LEMMA WordsNone == Words(<<>>) = <<>> /\ Views(<<>>) = <<>>
  <1>1. <<>> \in Seq(Block) /\ Len(<<>>) = 0
    OBVIOUS
  <1>2. /\ TextsOf(<<>>) \in Seq(Seq(1 .. Length)) /\ Len(TextsOf(<<>>)) = 0
        /\ PicturesOf(<<>>) \in Seq(Seq(1 .. Length)) /\ Len(PicturesOf(<<>>)) = 0
    BY <1>1, ListsOf
  <1>3. TextsOf(<<>>) = <<>> /\ PicturesOf(<<>>) = <<>>
    BY <1>2
  <1> QED
    BY <1>3, FlattenFew DEF Words, Views

-----------------------------------------------------------------------------
(* Where blocks begin.                                                     *)

StartsIn(bs, R) == \A c \in 1 .. Len(bs) : bs[c].lines # <<>> /\ bs[c].lines[1] \in R
AllBefore(bs, R) == \A c \in 1 .. Len(bs) : \A i \in R : bs[c].lines[1] < i
AllBehind(bs, n) == \A c \in 1 .. Len(bs) : \A i \in ToSet(bs[c].images) : i < n

\* No block begins between a block and an image of it.
Beside(bs) ==
    \A b, c \in 1 .. Len(bs) : \A i \in ToSet(bs[b].images) :
        (c < b => bs[c].lines[1] < i) /\ (b < c => i < bs[c].lines[1])

\* Where blocks begin, with one block more.
LEMMA BeginMore ==
    ASSUME NEW bs \in Seq(Block), NEW x \in Block
    PROVE  /\ \A R : /\ StartsIn(Append(bs, x), R) <=> StartsIn(bs, R) /\ x.lines # <<>> /\ x.lines[1] \in R
                     /\ AllBefore(Append(bs, x), R) <=> AllBefore(bs, R) /\ \A i \in R : x.lines[1] < i
           /\ Beside(Append(bs, x)) <=> Beside(bs) /\ AllBefore(bs, ToSet(x.images)) /\ AllBehind(bs, x.lines[1])
  <1> DEFINE ds == Append(bs, x)
             n == Len(bs)
  <1>1. /\ n \in Nat /\ Len(ds) = n + 1 /\ ds[n + 1] = x /\ \A k \in 1 .. n : ds[k] = bs[k]
    BY Extend
  <1> HIDE DEF ds, n
  <1>2. \A k \in 1 .. n + 1 : k = n + 1 \/ k \in 1 .. n
    BY <1>1
  <1>3. n + 1 \in 1 .. n + 1 /\ \A k \in 1 .. n : k \in 1 .. n + 1 /\ k < n + 1 /\ ~(n + 1 < k)
    BY <1>1
  <1>4. \A R : StartsIn(ds, R) <=> StartsIn(bs, R) /\ x.lines # <<>> /\ x.lines[1] \in R
    BY <1>1, <1>2, <1>3 DEF StartsIn, n
  <1>5. \A R : AllBefore(ds, R) <=> AllBefore(bs, R) /\ \A i \in R : x.lines[1] < i
    BY <1>1, <1>2, <1>3 DEF AllBefore, n
  <1>6. Beside(ds) => Beside(bs) /\ AllBefore(bs, ToSet(x.images)) /\ AllBehind(bs, x.lines[1])
    BY <1>1, <1>2, <1>3 DEF AllBefore, AllBehind, Beside, n
  <1>7. ASSUME Beside(bs), AllBefore(bs, ToSet(x.images)), AllBehind(bs, x.lines[1])
        PROVE  Beside(ds)
    <2> SUFFICES ASSUME NEW b \in 1 .. n + 1, NEW c \in 1 .. n + 1, NEW i \in ToSet(ds[b].images)
                 PROVE  (c < b => ds[c].lines[1] < i) /\ (b < c => i < ds[c].lines[1])
      BY <1>1 DEF Beside
    <2>1. CASE b \in 1 .. n /\ c \in 1 .. n
      BY <1>1, <1>7, <2>1 DEF Beside, n
    <2>2. CASE b = n + 1 /\ c \in 1 .. n
      <3>1. ~(b < c)
        BY <1>3, <2>2
      <3> QED
        BY <1>1, <1>7, <2>2, <3>1 DEF AllBefore, n
    <2>3. CASE b \in 1 .. n /\ c = n + 1
      <3>1. ~(c < b)
        BY <1>3, <2>3
      <3> QED
        BY <1>1, <1>7, <2>3, <3>1 DEF AllBehind, n
    <2>4. CASE b = n + 1 /\ c = n + 1
      <3>1. ~(c < b) /\ ~(b < c)
        BY <1>1, <2>4
      <3> QED
        BY <3>1
    <2> QED
      BY <1>2, <2>1, <2>2, <2>3, <2>4
  <1> QED
    BY <1>4, <1>5, <1>6, <1>7 DEF ds

-----------------------------------------------------------------------------
(* What the blocks and the images that wait have of the lines read.        *)

ParsedSo(bs, p, read) ==
    /\ bs \in Seq(Block) /\ p \in Seq(1 .. Length) /\ read \in Seq(1 .. Length)
    /\ StartsIn(bs, ToSet(read))
    /\ Words(bs) = Among(read, Texts)
    /\ IsInjective(Views(bs)) /\ IsInjective(p) /\ ToSet(Views(bs)) \cap ToSet(p) = {}
    /\ ToSet(Views(bs)) \cup ToSet(p) = ToSet(read) \cap Pictures
    /\ Beside(bs) /\ AllBefore(bs, ToSet(p))

\* What has been read, with one line more.
LEMMA ReadMore ==
    ASSUME NEW read \in Seq(1 .. Length), NEW i \in 1 .. Length
    PROVE  /\ Append(read, i) \in Seq(1 .. Length) /\ ToSet(Append(read, i)) = ToSet(read) \cup {i}
           /\ Among(read, Texts) \in Seq(1 .. Length)
           /\ Among(Append(read, i), Texts) = IF i \in Texts THEN Among(read, Texts) \o <<i>> ELSE Among(read, Texts)
           /\ <<i>> \in Seq(1 .. Length) /\ ToSet(<<i>>) = {i} /\ IsInjective(<<i>>)
  <1> DEFINE X == 1 .. Length
  <1>1. read \in Seq(X) /\ i \in X
    OBVIOUS
  <1> HIDE DEF X
  <1>2. <<i>> \in Seq(X) /\ Append(read, i) = read \o <<i>> /\ Append(read, i) \in Seq(X)
    BY <1>1, FewOf, AppendBehind, Extend
  <1>3. DOMAIN <<i>> = 1 .. 1 /\ <<i>>[1] = i
    OBVIOUS
  <1>4. ToSet(<<i>>) = {i}
    BY <1>3 DEF ToSet
  <1>5. IsInjective(<<i>>)
    BY <1>3 DEF IsInjective
  <1>6. ToSet(Append(read, i)) = ToSet(read) \cup {i}
    <2>1. \A t \in Seq(X) : ToSet(read \o t) = ToSet(read) \cup ToSet(t)
      BY <1>1, SetsJoin
    <2>2. ToSet(read \o <<i>>) = ToSet(read) \cup ToSet(<<i>>)
      BY <1>2, <2>1
    <2> QED
      BY <1>2, <1>4, <2>2
  <1>7. Among(read, Texts) \in Seq(X)
    BY <1>1, AmongIs
  <1>8. Among(read \o <<i>>, Texts) = Among(read, Texts) \o Among(<<i>>, Texts)
    <2>1. \A t \in Seq(X) : Among(read \o t, Texts) = Among(read, Texts) \o Among(t, Texts)
      BY <1>1, AmongJoins
    <2> QED
      BY <1>2, <2>1
  <1>9. Among(<<i>>, Texts) = IF i \in Texts THEN <<i>> ELSE <<>>
    BY <1>1, AmongOne
  <1>10. Among(read, Texts) \o <<>> = Among(read, Texts)
    BY <1>7, ConcatEmptySeq
  <1> QED
    BY <1>2, <1>4, <1>5, <1>6, <1>7, <1>8, <1>9, <1>10 DEF X

\* Of more lines.
LEMMA StartsStay == \A bs, R, S : StartsIn(bs, R) /\ R \subseteq S => StartsIn(bs, S)
  BY DEF StartsIn

\* A heading or a gap.
LEMMA ParsedGap ==
    ASSUME NEW bs, NEW p, NEW read, ParsedSo(bs, p, read), NEW i \in 1 .. Length, source[i] = "h3"
    PROVE  ParsedSo(bs, p, Append(read, i))
  <1>1. /\ Append(read, i) \in Seq(1 .. Length) /\ ToSet(Append(read, i)) = ToSet(read) \cup {i}
        /\ Among(Append(read, i), Texts) = IF i \in Texts THEN Among(read, Texts) \o <<i>> ELSE Among(read, Texts)
    BY ReadMore DEF ParsedSo
  <1>2. i \notin Texts /\ i \notin Pictures
    BY DEF Texts, Pictures
  <1>3. StartsIn(bs, ToSet(Append(read, i)))
    BY <1>1, StartsStay DEF ParsedSo
  <1> QED
    BY <1>1, <1>2, <1>3 DEF ParsedSo

\* An image that waits.
LEMMA ParsedWaits ==
    ASSUME NEW bs, NEW p, NEW read, ParsedSo(bs, p, read), NEW i \in 1 .. Length, source[i] = "image",
           \A y \in ToSet(read) : y < i
    PROVE  ParsedSo(bs, Append(p, i), Append(read, i))
  <1>1. /\ Append(read, i) \in Seq(1 .. Length) /\ ToSet(Append(read, i)) = ToSet(read) \cup {i}
        /\ Among(Append(read, i), Texts) = IF i \in Texts THEN Among(read, Texts) \o <<i>> ELSE Among(read, Texts)
        /\ <<i>> \in Seq(1 .. Length) /\ ToSet(<<i>>) = {i} /\ IsInjective(<<i>>)
    BY ReadMore DEF ParsedSo
  <1>2. i \notin Texts /\ i \in Pictures /\ i \notin ToSet(read)
    BY DEF Texts, Pictures
  <1>3. StartsIn(bs, ToSet(Append(read, i)))
    BY <1>1, StartsStay DEF ParsedSo
  <1>4. p \in Seq(1 .. Length) /\ ToSet(p) \subseteq ToSet(read) /\ IsInjective(p)
    BY DEF ParsedSo
  <1>5. Append(p, i) = p \o <<i>> /\ Append(p, i) \in Seq(1 .. Length)
    BY <1>4, AppendBehind, Extend
  <1>6. IsInjective(p \o <<i>>)
    BY <1>1, <1>2, <1>4, InjectiveJoins
  <1>7. ToSet(p \o <<i>>) = ToSet(p) \cup {i}
    <2>1. ToSet(Append(p, i)) = ToSet(p) \cup {i}
      BY <1>4, ReadMore
    <2> QED
      BY <1>5, <2>1
  <1>8. AllBefore(bs, ToSet(p) \cup {i})
    BY DEF ParsedSo, AllBefore, StartsIn
  <1>9. ToSet(Views(bs)) \cap (ToSet(p) \cup {i}) = {}
    BY <1>2 DEF ParsedSo
  <1>10. ToSet(Views(bs)) \cup (ToSet(p) \cup {i}) = ToSet(Append(read, i)) \cap Pictures
    BY <1>1, <1>2 DEF ParsedSo
  <1> DEFINE q == Append(p, i)
             more == Append(read, i)
  <1>11. q \in Seq(1 .. Length) /\ IsInjective(q) /\ ToSet(q) = ToSet(p) \cup {i}
    BY <1>5, <1>6, <1>7
  <1>12. Words(bs) = Among(more, Texts)
    BY <1>1, <1>2 DEF ParsedSo
  <1>13. more \in Seq(1 .. Length) /\ StartsIn(bs, ToSet(more)) /\ ToSet(Views(bs)) \cup ToSet(q) = ToSet(more) \cap Pictures
    BY <1>1, <1>3, <1>10, <1>11
  <1> HIDE DEF q, more
  <1>14. ParsedSo(bs, q, more)
    BY <1>8, <1>9, <1>11, <1>12, <1>13 DEF ParsedSo
  <1> QED
    BY <1>14 DEF q, more

\* Images that go to the last block.
LEMMA ParsedJoined ==
    ASSUME NEW front \in Seq(Block), NEW x \in Block, NEW p \in Seq(1 .. Length), NEW im \in Seq(1 .. Length),
           NEW read, NEW more, ParsedSo(Append(front, x), p, read), more \in Seq(1 .. Length),
           Among(more, Texts) = Among(read, Texts), ToSet(read) \subseteq ToSet(more),
           IsInjective(im), ToSet(im) \cap ToSet(Views(Append(front, x))) = {},
           NEW q \in Seq(1 .. Length), IsInjective(q), ToSet(q) \subseteq ToSet(p), ToSet(q) \cap ToSet(im) = {},
           ToSet(im) \cup ToSet(q) \cup ToSet(Views(Append(front, x))) = ToSet(more) \cap Pictures,
           AllBefore(Append(front, x), ToSet(im))
    PROVE  ParsedSo(Append(front, MoreImages(x, im)), q, more)
  <1> DEFINE a == Append(front, x)
             y == MoreImages(x, im)
             b == Append(front, y)
  <1>1. /\ y \in Block /\ y.images = x.images \o im /\ y.lines = x.lines
        /\ x.images \in Seq(1 .. Length) /\ x.lines \in Seq(1 .. Length)
    BY ImagesGrow
  <1>2. a \in Seq(Block) /\ b \in Seq(Block)
    BY <1>1, Extend
  <1>3. /\ Words(a) = Words(front) \o x.lines /\ Views(a) = Views(front) \o x.images
        /\ Words(b) = Words(front) \o y.lines /\ Views(b) = Views(front) \o y.images
    BY <1>1, WordsMore
  <1>4. Views(front) \in Seq(1 .. Length) /\ Views(a) \in Seq(1 .. Length)
    BY <1>2, WordsAre
  <1>5. /\ \A R : /\ StartsIn(a, R) <=> StartsIn(front, R) /\ x.lines # <<>> /\ x.lines[1] \in R
                  /\ AllBefore(a, R) <=> AllBefore(front, R) /\ \A i \in R : x.lines[1] < i
        /\ Beside(a) <=> Beside(front) /\ AllBefore(front, ToSet(x.images)) /\ AllBehind(front, x.lines[1])
    BY BeginMore
  <1>6. /\ \A R : /\ StartsIn(b, R) <=> StartsIn(front, R) /\ y.lines # <<>> /\ y.lines[1] \in R
                  /\ AllBefore(b, R) <=> AllBefore(front, R) /\ \A i \in R : y.lines[1] < i
        /\ Beside(b) <=> Beside(front) /\ AllBefore(front, ToSet(y.images)) /\ AllBehind(front, y.lines[1])
    BY <1>1, BeginMore
  <1> HIDE DEF a, b, y
  <1>7. ParsedSo(a, p, read)
    BY DEF a
  <1>8. Words(b) = Among(more, Texts)
    BY <1>1, <1>3, <1>7 DEF ParsedSo
  <1>9. StartsIn(b, ToSet(more))
    <2>1. StartsIn(a, ToSet(read))
      BY <1>7 DEF ParsedSo
    <2>2. StartsIn(a, ToSet(more))
      BY <2>1, StartsStay
    <2>3. StartsIn(front, ToSet(more)) /\ x.lines # <<>> /\ x.lines[1] \in ToSet(more)
      BY <1>5, <2>2
    <2> QED
      BY <1>1, <1>6, <2>3
  <1>10. Views(b) = Views(a) \o im
    <2> DEFINE s == Views(front)
               t == x.images
    <2>1. s \in Seq(1 .. Length) /\ t \in Seq(1 .. Length)
      BY <1>1, <1>4
    <2> HIDE DEF s, t
    <2>2. (s \o t) \o im = s \o (t \o im)
      BY <2>1, ConcatAssociative
    <2>3. Views(a) = s \o t /\ Views(b) = s \o (t \o im)
      BY <1>1, <1>3 DEF s, t
    <2> QED
      BY <2>2, <2>3
  <1>11. IsInjective(Views(b)) /\ ToSet(Views(b)) = ToSet(Views(a)) \cup ToSet(im)
    <2>1. IsInjective(Views(a)) /\ ToSet(Views(a)) \cap ToSet(im) = {}
      BY <1>7 DEF ParsedSo, a
    <2>2. IsInjective(Views(a) \o im)
      BY <1>4, <2>1, InjectiveJoins
    <2>3. ToSet(Views(a) \o im) = ToSet(Views(a)) \cup ToSet(im)
      BY <1>4, SetsJoin
    <2> QED
      BY <1>10, <2>2, <2>3
  <1>12. Beside(b)
    <2>1. AllBefore(front, ToSet(im)) /\ AllBefore(front, ToSet(x.images))
      BY <1>5, <1>7 DEF ParsedSo, a
    <2>2. ToSet(y.images) = ToSet(x.images) \cup ToSet(im)
      BY <1>1, SetsJoin
    <2>3. AllBefore(front, ToSet(y.images))
      BY <2>1, <2>2 DEF AllBefore
    <2> QED
      BY <1>1, <1>5, <1>6, <1>7, <2>3 DEF ParsedSo
  <1>13. AllBefore(b, ToSet(q))
    <2>1. AllBefore(a, ToSet(p))
      BY <1>7 DEF ParsedSo
    <2>2. AllBefore(a, ToSet(q))
      BY <2>1 DEF AllBefore
    <2> QED
      BY <1>1, <1>5, <1>6, <2>2
  <1>14. ToSet(Views(b)) \cap ToSet(q) = {} /\ ToSet(Views(b)) \cup ToSet(q) = ToSet(more) \cap Pictures
    <2>1. ToSet(Views(a)) \cap ToSet(p) = {}
      BY <1>7 DEF ParsedSo
    <2>2. ToSet(im) \cup ToSet(q) \cup ToSet(Views(a)) = ToSet(more) \cap Pictures
      BY DEF a
    <2> QED
      BY <1>11, <2>1, <2>2
  <1>15. ParsedSo(b, q, more)
    BY <1>2, <1>8, <1>9, <1>11, <1>12, <1>13, <1>14 DEF ParsedSo
  <1> QED
    BY <1>15 DEF b, y

\* A block that begins.
LEMMA ParsedBegins ==
    ASSUME NEW a, NEW p, NEW read, ParsedSo(a, p, read), NEW i \in 1 .. Length, source[i] = "text",
           \A y \in ToSet(read) : y < i,
           NEW x \in Block, x.lines = <<i>>, x.images = p
    PROVE  ParsedSo(Append(a, x), <<>>, Append(read, i))
  <1> DEFINE b == Append(a, x)
             more == Append(read, i)
  <1>1. /\ more \in Seq(1 .. Length) /\ ToSet(more) = ToSet(read) \cup {i}
        /\ Among(more, Texts) = Among(read, Texts) \o <<i>>
    <2>1. read \in Seq(1 .. Length) /\ i \in Texts
      BY DEF ParsedSo, Texts
    <2> QED
      BY <2>1, ReadMore
  <1>2. a \in Seq(Block) /\ b \in Seq(Block) /\ <<>> \in Seq(1 .. Length) /\ ToSet(<<>>) = {} /\ IsInjective(<<>>)
    <2>1. a \in Seq(Block)
      BY DEF ParsedSo
    <2>2. <<>> \in Seq(1 .. Length) /\ DOMAIN <<>> = {}
      OBVIOUS
    <2>3. ToSet(<<>>) = {} /\ IsInjective(<<>>)
      BY <2>2 DEF ToSet, IsInjective
    <2> QED
      BY <2>1, <2>2, <2>3, Extend
  <1>3. Words(b) = Words(a) \o x.lines /\ Views(b) = Views(a) \o x.images
    BY <1>2, WordsMore
  <1>4. /\ \A R : /\ StartsIn(b, R) <=> StartsIn(a, R) /\ x.lines # <<>> /\ x.lines[1] \in R
                  /\ AllBefore(b, R) <=> AllBefore(a, R) /\ \A y \in R : x.lines[1] < y
        /\ Beside(b) <=> Beside(a) /\ AllBefore(a, ToSet(x.images)) /\ AllBehind(a, x.lines[1])
    BY <1>2, BeginMore
  <1>5. x.lines # <<>> /\ x.lines[1] = i
    OBVIOUS
  <1> HIDE DEF b, more
  <1>6. StartsIn(b, ToSet(more))
    <2>1. StartsIn(a, ToSet(read))
      BY DEF ParsedSo
    <2>2. StartsIn(a, ToSet(more)) /\ i \in ToSet(more)
      BY <1>1, <2>1, StartsStay
    <2> QED
      BY <1>4, <1>5, <2>2
  <1>7. Words(b) = Among(more, Texts)
    BY <1>1, <1>3 DEF ParsedSo
  <1>8. IsInjective(Views(b)) /\ ToSet(Views(b)) = ToSet(Views(a)) \cup ToSet(p)
    <2>1. Views(a) \in Seq(1 .. Length) /\ p \in Seq(1 .. Length)
      BY <1>2, WordsAre DEF ParsedSo
    <2>2. IsInjective(Views(a)) /\ IsInjective(p) /\ ToSet(Views(a)) \cap ToSet(p) = {}
      BY DEF ParsedSo
    <2>3. IsInjective(Views(a) \o p)
      BY <2>1, <2>2, InjectiveJoins
    <2>4. ToSet(Views(a) \o p) = ToSet(Views(a)) \cup ToSet(p)
      BY <2>1, SetsJoin
    <2> QED
      BY <1>3, <2>3, <2>4
  <1>9. ToSet(Views(a)) \cup ToSet(p) = ToSet(read) \cap Pictures
    BY DEF ParsedSo
  <1>10. Beside(b)
    <2>1. Beside(a) /\ AllBefore(a, ToSet(p))
      BY DEF ParsedSo
    <2>2. AllBehind(a, i)
      <3>1. \A c \in 1 .. Len(a) : ToSet(a[c].images) \subseteq ToSet(Views(a))
        BY <1>2, WordsAre
      <3> QED
        BY <1>9, <3>1 DEF AllBehind
    <2> QED
      BY <1>4, <1>5, <2>1, <2>2
  <1>11. AllBefore(b, {})
    BY DEF AllBefore
  <1>12. i \notin Pictures
    BY DEF Pictures
  <1>13. ToSet(Views(b)) \cup {} = ToSet(more) \cap Pictures
    BY <1>1, <1>8, <1>9, <1>12
  <1>14. ParsedSo(b, <<>>, more)
    BY <1>1, <1>2, <1>6, <1>7, <1>8, <1>10, <1>11, <1>13 DEF ParsedSo
  <1> QED
    BY <1>14 DEF b, more

\* A line that its block takes.
LEMMA ParsedLine ==
    ASSUME NEW front \in Seq(Block), NEW x \in Block, NEW p, NEW read, ParsedSo(Append(front, x), p, read),
           NEW i \in 1 .. Length, source[i] = "text"
    PROVE  ParsedSo(Append(front, MoreText(x, i)), p, Append(read, i))
  <1> DEFINE a == Append(front, x)
             y == MoreText(x, i)
             b == Append(front, y)
             more == Append(read, i)
  <1>1. /\ more \in Seq(1 .. Length) /\ ToSet(more) = ToSet(read) \cup {i}
        /\ Among(more, Texts) = Among(read, Texts) \o <<i>> /\ <<i>> \in Seq(1 .. Length)
    <2>1. read \in Seq(1 .. Length) /\ i \in Texts
      BY DEF ParsedSo, Texts
    <2> QED
      BY <2>1, ReadMore
  <1>2. /\ y \in Block /\ y.images = x.images /\ y.lines = Append(x.lines, i) /\ x.lines \in Seq(1 .. Length)
    BY TextGrows DEF Block
  <1>3. a \in Seq(Block) /\ b \in Seq(Block)
    BY <1>2, Extend
  <1>4. /\ Words(a) = Words(front) \o x.lines /\ Views(a) = Views(front) \o x.images
        /\ Words(b) = Words(front) \o y.lines /\ Views(b) = Views(front) \o y.images
    BY <1>2, WordsMore
  <1>5. /\ \A R : /\ StartsIn(a, R) <=> StartsIn(front, R) /\ x.lines # <<>> /\ x.lines[1] \in R
                  /\ AllBefore(a, R) <=> AllBefore(front, R) /\ \A z \in R : x.lines[1] < z
        /\ Beside(a) <=> Beside(front) /\ AllBefore(front, ToSet(x.images)) /\ AllBehind(front, x.lines[1])
    BY BeginMore
  <1>6. /\ \A R : /\ StartsIn(b, R) <=> StartsIn(front, R) /\ y.lines # <<>> /\ y.lines[1] \in R
                  /\ AllBefore(b, R) <=> AllBefore(front, R) /\ \A z \in R : y.lines[1] < z
        /\ Beside(b) <=> Beside(front) /\ AllBefore(front, ToSet(y.images)) /\ AllBehind(front, y.lines[1])
    BY <1>2, BeginMore
  <1> HIDE DEF a, b, y, more
  <1>7. ParsedSo(a, p, read)
    BY DEF a
  <1>8. StartsIn(a, ToSet(read)) /\ StartsIn(a, ToSet(more)) /\ x.lines # <<>>
    BY <1>1, <1>5, <1>7, StartsStay DEF ParsedSo
  <1>9. y.lines # <<>> /\ y.lines[1] = x.lines[1]
    <2>1. Len(x.lines) \in Nat /\ (Len(x.lines) = 0 => x.lines = <<>>)
      BY <1>2
    <2>2. 1 \in 1 .. Len(x.lines)
      BY <1>8, <2>1
    <2> QED
      BY <1>2, <2>2, Extend
  <1>10. StartsIn(b, ToSet(more))
    BY <1>5, <1>6, <1>8, <1>9
  <1>11. Words(b) = Words(a) \o <<i>>
    <2> DEFINE s == Words(front)
               t == x.lines
    <2>1. s \in Seq(1 .. Length) /\ t \in Seq(1 .. Length)
      BY <1>2, WordsAre
    <2>2. Words(a) = s \o t
      BY <1>4
    <2>3. y.lines = t \o <<i>>
      BY <1>2, AppendBehind
    <2>4. Words(b) = s \o (t \o <<i>>)
      BY <1>4, <2>3
    <2> HIDE DEF s, t
    <2>5. (s \o t) \o <<i>> = s \o (t \o <<i>>)
      BY <1>1, <2>1, ConcatAssociative
    <2> QED
      BY <2>2, <2>4, <2>5
  <1>12. Words(b) = Among(more, Texts)
    BY <1>1, <1>7, <1>11 DEF ParsedSo
  <1>13. Views(b) = Views(a)
    BY <1>2, <1>4
  <1>14. Beside(b) /\ AllBefore(b, ToSet(p))
    <2>1. Beside(a) /\ AllBefore(a, ToSet(p))
      BY <1>7 DEF ParsedSo
    <2>2. Beside(b)
      BY <1>2, <1>5, <1>6, <1>9, <2>1
    <2>3. AllBefore(b, ToSet(p))
      BY <1>5, <1>6, <1>9, <2>1
    <2> QED
      BY <2>2, <2>3
  <1>15. ToSet(more) \cap Pictures = ToSet(read) \cap Pictures
    BY <1>1 DEF Pictures
  <1>16. ParsedSo(b, p, more)
    BY <1>1, <1>3, <1>7, <1>10, <1>12, <1>13, <1>14, <1>15 DEF ParsedSo
  <1> QED
    BY <1>16 DEF b, more, y

\* What precedes the next element of an increasing sequence.
LEMMA BeforeNext ==
    ASSUME NEW a \in Seq(Int), NEW x \in Int, NEW rest \in Seq(Int), Increasing(Append(a, x) \o rest)
    PROVE  \A y \in ToSet(a) : y < x
  <1> DEFINE b == Append(a, x)
             r == b \o rest
  <1>1. /\ b \in Seq(Int) /\ Len(a) \in Nat /\ Len(b) = Len(a) + 1 /\ b[Len(a) + 1] = x
        /\ \A k \in 1 .. Len(a) : b[k] = a[k]
    BY Extend
  <1> HIDE DEF b
  <1>2. Len(r) = Len(b) + Len(rest) /\ Len(rest) \in Nat /\ \A k \in 1 .. Len(b) : r[k] = b[k]
    BY <1>1, PutTogether
  <1>3. Increasing(r)
    BY DEF b
  <1> HIDE DEF r
  <1>4. ASSUME NEW k \in 1 .. Len(a)
        PROVE  a[k] < x
    <2>1. k \in 1 .. Len(b) /\ Len(a) + 1 \in 1 .. Len(b) /\ k < Len(a) + 1
      BY <1>1
    <2>2. k \in 1 .. Len(r) /\ Len(a) + 1 \in 1 .. Len(r)
      BY <1>1, <1>2, <2>1
    <2>3. r[k] < r[Len(a) + 1]
      BY <1>3, <2>1, <2>2 DEF Increasing
    <2> QED
      BY <1>1, <1>2, <2>1, <2>3
  <1>5. DOMAIN a = 1 .. Len(a)
    BY ElementsOf
  <1> QED
    BY <1>4, <1>5 DEF ToSet

\* A line of a section.
LEMMA ParsedNext ==
    ASSUME NEW a, NEW p, NEW read, ParsedSo(a, p, read), NEW i \in 1 .. Length,
           source[i] \in {"h3", "text", "image"}, \A y \in ToSet(read) : y < i,
           NEW b, NEW q, Onward(i, a, p, b, q)
    PROVE  ParsedSo(b, q, Append(read, i))
  <1>1. i # 0 /\ a \in Seq(Block) /\ p \in Seq(1 .. Length) /\ read \in Seq(1 .. Length)
    BY DEF ParsedSo
  <1>2. CASE source[i] = "h3" /\ b = a /\ q = p
    BY <1>2, ParsedGap
  <1>3. CASE source[i] = "image" /\ b = a /\ q = Append(p, i)
    BY <1>3, ParsedWaits
  <1>4. CASE /\ source[i] = "image" /\ q = p
             /\ \E front \in Seq(Block), x \in Block : a = Append(front, x) /\ b = Append(front, MoreImages(x, <<i>>))
    <2>1. PICK front \in Seq(Block), x \in Block : a = Append(front, x) /\ b = Append(front, MoreImages(x, <<i>>))
      BY <1>4
    <2> DEFINE more == Append(read, i)
               im == <<i>>
    <2>2. /\ more \in Seq(1 .. Length) /\ ToSet(more) = ToSet(read) \cup {i}
          /\ Among(more, Texts) = IF i \in Texts THEN Among(read, Texts) \o <<i>> ELSE Among(read, Texts)
          /\ im \in Seq(1 .. Length) /\ ToSet(im) = {i} /\ IsInjective(im)
      BY <1>1, ReadMore
    <2>3. i \notin Texts /\ i \in Pictures /\ i \notin ToSet(read)
      BY <1>1, <1>4 DEF Texts, Pictures
    <2> HIDE DEF more, im
    <2>4. Among(more, Texts) = Among(read, Texts)
      BY <2>2, <2>3
    <2>5. /\ ToSet(Views(a)) \cup ToSet(p) = ToSet(read) \cap Pictures /\ ToSet(Views(a)) \cap ToSet(p) = {}
          /\ IsInjective(p) /\ AllBefore(a, ToSet(p)) /\ StartsIn(a, ToSet(read))
      BY DEF ParsedSo
    <2>6. ToSet(im) \cap ToSet(Views(a)) = {} /\ ToSet(p) \cap ToSet(im) = {}
      BY <2>2, <2>3, <2>5
    <2>7. ToSet(im) \cup ToSet(p) \cup ToSet(Views(a)) = ToSet(more) \cap Pictures
      BY <2>2, <2>3, <2>5
    <2>8. AllBefore(a, ToSet(im))
      BY <2>2, <2>5 DEF AllBefore, StartsIn
    <2>9. ParsedSo(Append(front, MoreImages(x, im)), p, more)
      <3>1. ParsedSo(Append(front, x), p, read)
        BY <2>1
      <3>2. ToSet(read) \subseteq ToSet(more) /\ ToSet(p) \subseteq ToSet(p)
        BY <2>2
      <3> QED
        BY <1>1, <2>1, <2>2, <2>4, <2>5, <2>6, <2>7, <2>8, <3>1, <3>2, ParsedJoined
    <2> QED
      BY <1>4, <2>1, <2>9 DEF more, im
  <1>5. CASE /\ source[i] = "text" /\ q = <<>>
             /\ \E x \in Block : x.lines = <<i>> /\ x.images = p /\ b = Append(a, x)
    BY <1>5, ParsedBegins
  <1>6. CASE /\ source[i] = "text" /\ q = p
             /\ \E front \in Seq(Block), x \in Block : a = Append(front, x) /\ b = Append(front, MoreText(x, i))
    BY <1>6, ParsedLine
  <1> QED
    BY <1>1, <1>2, <1>3, <1>4, <1>5, <1>6 DEF Onward

BlocksSo(bs, read) ==
    /\ bs \in Seq(Block) /\ StartsIn(bs, ToSet(read)) /\ Words(bs) = Among(read, Texts)
    /\ Beside(bs) /\ IsInjective(Views(bs))
    /\ ToSet(Views(bs)) = IF bs = <<>> THEN {} ELSE ToSet(read) \cap Pictures

\* The blocks of a section have its lines and its images, each where it belongs.
LEMMA BlocksAre ==
    ASSUME source \in Markdowns, NEW lines \in Seq(0 .. Length), Increasing(Solid(lines)),
           \A i \in ToSet(Solid(lines)) : source[i] \in {"h3", "text", "image"}
    PROVE  BlocksSo(Blocks(lines), Solid(lines))
  <1> DEFINE n == Len(lines)
             read == Solid(lines)
             D == 1 .. Length
  <1>1. n \in Nat /\ \A k \in 1 .. n : lines[k] \in 0 .. Length
    BY ElementsOf
  <1>2. PICK f : AmongAlong(f, 0 .. Length, lines, D)
    BY AmongSteps
  <1>3. PICK g : ParseAlong(g, lines)
    BY ParseSteps
  <1>4. /\ f \in [0 .. n -> Seq(0 .. Length)] /\ f[0] = <<>> /\ read = f[n]
        /\ \A k \in 1 .. n : f[k] = TakenWith(f[k - 1], lines[k], D)
    BY <1>2 DEF AmongAlong, Solid
  <1>5. \A k \in 0 .. n : Continues(read, f[k], 0 .. Length)
    BY <1>2, AmongBegins DEF Solid
  <1> DEFINE base == [blocks |-> <<>>, current |-> <<>>, headings |-> <<>>, pending |-> <<>>]
  <1>6. /\ g \in [0 .. n -> Parsing] /\ g[0] = base
        /\ \A k \in 1 .. n : g[k] = ParseLine(g[k - 1], lines[k])
        /\ FoldLeft(ParseLine, base, lines) = g[n]
    BY <1>3 DEF ParseAlong
  <1>7. base.blocks = <<>> /\ base.current = <<>> /\ base.pending = <<>>
    OBVIOUS
  <1>8. \A i \in ToSet(read) : source[i] \in {"h3", "text", "image"}
    OBVIOUS
  <1>9. Increasing(read)
    OBVIOUS
  <1> DEFINE SectionsRead(k) == ParsedSo(AllOf(g[k]), g[k].pending, f[k])
             T == {k \in 0 .. n : SectionsRead(k)}
  <1> HIDE DEF n, base, read, D
  <1>10. 0 \in T
    <2>1. 0 \in 0 .. n
      BY <1>1
    <2>2. AllOf(g[0]) = <<>> /\ g[0].pending = <<>>
      BY <1>6, <1>7, ConcatEmptySeq DEF AllOf
    <2>3. <<>> \in Seq(Block) /\ <<>> \in Seq(1 .. Length) /\ DOMAIN <<>> = {} /\ Len(<<>>) = 0
      OBVIOUS
    <2>4. ToSet(<<>>) = {} /\ IsInjective(<<>>)
      BY <2>3 DEF ToSet, IsInjective
    <2>5. StartsIn(<<>>, {}) /\ Beside(<<>>) /\ AllBefore(<<>>, {})
      BY <2>3 DEF StartsIn, Beside, AllBefore
    <2>6. Words(<<>>) = Among(<<>>, Texts) /\ Views(<<>>) = <<>>
      BY WordsNone, AmongNone
    <2>7. ParsedSo(<<>>, <<>>, <<>>)
      BY <2>3, <2>4, <2>5, <2>6 DEF ParsedSo
    <2> QED
      BY <1>4, <2>1, <2>2, <2>7
  <1>11. ASSUME NEW k \in 1 .. n, k - 1 \in T
         PROVE  k \in T
    <2> DEFINE i == lines[k]
               a == AllOf(g[k - 1])
               p == g[k - 1].pending
               b == AllOf(g[k])
               q == g[k].pending
               old == f[k - 1]
    <2>1. k \in 0 .. n /\ k - 1 \in 0 .. n /\ i \in 0 .. Length
      BY <1>1
    <2>2. ParsedSo(a, p, old)
      BY <1>11
    <2>3. Onward(i, a, p, b, q) /\ a \in Seq(Block)
      <3>1. g[k - 1] \in Parsing /\ g[k] = ParseLine(g[k - 1], i)
        BY <1>6, <2>1
      <3> QED
        BY <2>1, <3>1, ParseIs
    <2>4. f[k] = TakenWith(old, i, D) /\ old \in Seq(0 .. Length)
      BY <1>4, <2>1
    <2>5. \E rest \in Seq(0 .. Length) : read = f[k] \o rest
      BY <1>5, <2>1 DEF Continues
    <2> HIDE DEF i, a, p, b, q, old
    <2>6. ParsedSo(b, q, f[k])
      <3>1. CASE i = 0
        <4>1. f[k] = old
          BY <2>4, <3>1 DEF TakenWith, D
        <4>2. b = a /\ q = p
          BY <2>3, <3>1 DEF Onward
        <4> QED
          BY <2>2, <4>1, <4>2
      <3>2. CASE i # 0
        <4>1. i \in 1 .. Length /\ i \in Int
          BY <2>1, <3>2, PreparationAssumption
        <4>2. f[k] = Append(old, i)
          BY <2>4, <4>1 DEF TakenWith, D
        <4>3. PICK rest \in Seq(0 .. Length) : read = Append(old, i) \o rest
          BY <2>5, <4>2
        <4>4. \A y \in ToSet(old) : y < i
          <5>1. old \in Seq(Int) /\ rest \in Seq(Int)
            <6>1. 0 .. Length \subseteq Int
              OBVIOUS
            <6> QED
              BY <2>4, <6>1, Wider
          <5> QED
            BY <1>9, <4>1, <4>3, <5>1, BeforeNext
        <4>5. source[i] \in {"h3", "text", "image"}
          <5>1. i \in ToSet(Append(old, i))
            <6>1. Append(old, i) \in Seq(0 .. Length) /\ Len(old) \in Nat /\ Len(Append(old, i)) = Len(old) + 1 /\ Append(old, i)[Len(old) + 1] = i
              BY <2>1, <2>4, Extend
            <6>2. Len(old) + 1 \in DOMAIN Append(old, i)
              BY <6>1
            <6> QED
              BY <6>1, <6>2 DEF ToSet
          <5>2. Append(old, i) \in Seq(0 .. Length)
            BY <2>1, <2>4, Extend
          <5>3. ToSet(read) = ToSet(Append(old, i)) \cup ToSet(rest)
            BY <4>3, <5>2, SetsJoin
          <5> QED
            BY <1>8, <5>1, <5>3
        <4> QED
          BY <2>2, <2>3, <4>1, <4>2, <4>4, <4>5, ParsedNext
      <3> QED
        BY <3>1, <3>2
    <2> QED
      BY <2>1, <2>6 DEF b, q
  <1> HIDE DEF T
  <1>12. \A k \in 0 .. n : k \in T
    BY <1>1, <1>10, <1>11, Climb
  <1> DEFINE last == g[n]
             a == AllOf(last)
             p == last.pending
             parsed == Flush(last)
             bs == Blocks(lines)
  <1>13. ParsedSo(a, p, read) /\ last \in Parsing
    <2>1. n \in 0 .. n
      BY <1>1
    <2>2. n \in T
      BY <1>12, <2>1
    <2> QED
      BY <1>4, <1>6, <2>1, <2>2 DEF T
  <1>14. parsed.blocks = a /\ parsed.pending = p
    BY <1>13, FlushIs
  <1>15. bs = IF a = <<>> THEN <<>> ELSE WithImages(a, p)
    <2>1. bs = IF parsed.blocks = <<>> THEN <<>> ELSE WithImages(parsed.blocks, parsed.pending)
      BY <1>6 DEF Blocks, base
    <2> HIDE DEF bs, parsed, a, p
    <2> QED
      BY <1>14, <2>1
  <1> HIDE DEF last, a, p, parsed, bs
  <1>16. BlocksSo(bs, read)
    <2>1. CASE a = <<>>
      <3>1. bs = a
        BY <1>15, <2>1
      <3>2. ToSet(Views(a)) = {}
        <4>1. DOMAIN <<>> = {}
          OBVIOUS
        <4> QED
          BY <2>1, <4>1, WordsNone DEF ToSet
      <3> QED
        BY <1>13, <2>1, <3>1, <3>2 DEF BlocksSo, ParsedSo
    <2>2. CASE a # <<>>
      <3>1. /\ a \in Seq(Block) /\ p \in Seq(1 .. Length) /\ read \in Seq(1 .. Length) /\ IsInjective(p) /\ AllBefore(a, ToSet(p))
            /\ ToSet(Views(a)) \cap ToSet(p) = {} /\ ToSet(Views(a)) \cup ToSet(p) = ToSet(read) \cap Pictures
        BY <1>13 DEF ParsedSo
      <3>2. PICK front \in Seq(Block), x \in Block : a = Append(front, x)
        BY <2>2, <3>1, LastApart
      <3> DEFINE new == Append(front, MoreImages(x, p))
                 none == <<>>
      <3>3. bs = new
        BY <1>15, <2>2, <3>1, <3>2, WithImagesIs
      <3>4. none \in Seq(1 .. Length) /\ ToSet(none) = {} /\ IsInjective(none)
        <4>1. none \in Seq(1 .. Length) /\ DOMAIN none = {}
          OBVIOUS
        <4> QED
          BY <4>1 DEF ToSet, IsInjective
      <3> HIDE DEF none
      <3>5. ParsedSo(new, none, read)
        <4>1. ParsedSo(Append(front, x), p, read)
          BY <1>13, <3>2
        <4>2. ToSet(p) \cap ToSet(Views(Append(front, x))) = {} /\ AllBefore(Append(front, x), ToSet(p))
          BY <3>1, <3>2
        <4>3. /\ ToSet(none) \subseteq ToSet(p) /\ ToSet(none) \cap ToSet(p) = {} /\ ToSet(read) \subseteq ToSet(read)
              /\ Among(read, Texts) = Among(read, Texts)
          BY <3>4
        <4>4. ToSet(p) \cup ToSet(none) \cup ToSet(Views(Append(front, x))) = ToSet(read) \cap Pictures
          BY <3>1, <3>2, <3>4
        <4> QED
          BY <3>1, <3>2, <3>4, <4>1, <4>2, <4>3, <4>4, ParsedJoined
      <3>6. new # <<>>
        <4>1. MoreImages(x, p) \in Block
          BY <3>1, ImagesGrow
        <4> QED
          BY <4>1, Extend
      <3> HIDE DEF new
      <3>7. ToSet(Views(new)) = ToSet(read) \cap Pictures
        BY <3>4, <3>5 DEF ParsedSo
      <3> QED
        BY <3>3, <3>5, <3>6, <3>7 DEF BlocksSo, ParsedSo
    <2> QED
      BY <2>1, <2>2
  <1> QED
    BY <1>16 DEF bs, read

-----------------------------------------------------------------------------
(* The content of sections.                                                *)

\* The elements of a sorted sequence.
LEMMA SortedSet ==
    ASSUME NEW S \in SUBSET (1 .. Length)
    PROVE  /\ Sorted(S) \in Seq(1 .. Length) /\ Sorted(S) \in Seq(Int)
           /\ Increasing(Sorted(S)) /\ ToSet(Sorted(S)) = S
  <1> DEFINE all == [i \in 1 .. Length |-> i]
             s == Among(all, S)
  <1>1. Length \in Nat
    BY PreparationAssumption
  <1>2. all \in Seq(1 .. Length) /\ Len(all) = Length /\ DOMAIN all = 1 .. Length /\ \A i \in 1 .. Length : all[i] = i
    BY <1>1
  <1> HIDE DEF all
  <1>3. ToSet(all) = 1 .. Length /\ Increasing(all)
    BY <1>2 DEF ToSet, Increasing
  <1>4. s \in Seq(1 .. Length) /\ ToSet(s) = ToSet(all) \cap S
    BY <1>2, AmongIs
  <1>5. all \in Seq(Int) /\ s \in Seq(Int)
    BY <1>2, <1>4, NumbersOf
  <1>6. Increasing(s)
    BY <1>3, <1>5, AmongIncreasing
  <1> HIDE DEF s
  <1>7. ToSet(s) = S
    BY <1>3, <1>4
  <1>8. Sorted(S) = s
    BY <1>5, <1>6, <1>7, SortedIs
  <1> QED
    BY <1>4, <1>5, <1>6, <1>7, <1>8

\* What is in an earlier part of an increasing sequence.
LEMMA PartsInOrder ==
    ASSUME NEW seqs \in Seq(Seq(Int)), Increasing(FlattenSeq(seqs)),
           NEW b \in 1 .. Len(seqs), NEW c \in 1 .. Len(seqs), b < c,
           NEW x \in ToSet(seqs[b]), NEW y \in ToSet(seqs[c])
    PROVE  x < y
  <1> DEFINE t == FlattenSeq(seqs)
  <1>1. t \in Seq(Int) /\ \E of, nth : Spreads(of, nth, t, seqs, Len(seqs))
    BY FlattenSpreads
  <1>2. PICK of, nth : Spreads(of, nth, t, seqs, Len(seqs))
    BY <1>1
  <1>3. Increasing(t) /\ Len(t) \in Nat
    BY <1>1
  <1> HIDE DEF t
  <1>4. /\ DOMAIN seqs[b] = 1 .. Len(seqs[b]) /\ DOMAIN seqs[c] = 1 .. Len(seqs[c])
    <2>1. seqs[b] \in Seq(Int) /\ seqs[c] \in Seq(Int)
      BY ElementsOf
    <2> QED
      BY <2>1
  <1>5. PICK i \in 1 .. Len(seqs[b]), j \in 1 .. Len(seqs[c]) : x = seqs[b][i] /\ y = seqs[c][j]
    BY <1>4 DEF ToSet
  <1>6. PICK q \in 1 .. Len(t) : of[q] = b /\ nth[q] = i
    BY <1>2 DEF Spreads
  <1>7. PICK r \in 1 .. Len(t) : of[r] = c /\ nth[r] = j
    BY <1>2 DEF Spreads
  <1>8. t[q] = x /\ t[r] = y
    BY <1>2, <1>5, <1>6, <1>7 DEF Spreads
  <1>9. q < r
    <2>1. q # r /\ ~(r < q)
      <3>1. r < q => of[r] < of[q] \/ (of[r] = of[q] /\ nth[r] < nth[q])
        BY <1>2 DEF Spreads
      <3> QED
        BY <1>6, <1>7, <3>1
    <2> QED
      BY <1>3, <2>1
  <1> QED
    BY <1>3, <1>8, <1>9 DEF Increasing

\* The content of a heading is lines that it owns ...
LEMMA ContentIn ==
    ASSUME source \in Markdowns, NEW h
    PROVE  /\ ContentOf(h) \in SUBSET (1 .. Length)
           /\ \A i \in ContentOf(h) : Owner(i) = h /\ source[i] \in {"h3", "text", "image"}
  BY DEF ContentOf, Markdowns

\* ... and lies before that of every later heading.
LEMMA ContentApart ==
    ASSUME source \in Markdowns, NEW g \in 1 .. Length, NEW h \in 1 .. Length, source[h] = "h2", g < h,
           NEW i \in ContentOf(g), NEW j \in ContentOf(h)
    PROVE  i < j
  <1>1. /\ i \in 1 .. Length /\ j \in 1 .. Length /\ i \in 0 .. Length /\ j \in 0 .. Length
        /\ Owner(i) = g /\ Owner(j) = h
    <2>1. i \in 1 .. Length /\ j \in 1 .. Length
      BY ContentIn
    <2> QED
      BY <2>1, ContentIn
  <1>2. g <= i /\ \A k \in 1 .. i : g < k => source[k] \notin {"h1", "h2"}
    BY <1>1, OwnerIs
  <1>3. h <= j
    BY <1>1, OwnerIs
  <1>4. ~(h <= i)
    BY <1>1, <1>2
  <1> QED
    BY <1>1, <1>3, <1>4

\* What is known of the sections that the paragraphs are made of.
Sectioned(chunks, hs) == source \in Markdowns /\ chunks \in Seq(Section) /\ Names(chunks, hs, HeadsOf(Length))

ContentAt(hs, c) == ContentOf(hs[c])
BlocksAt(chunks, c) == Blocks(chunks[c].lines)

\* What the sections say of each chunk ...
LEMMA SectionFacts ==
    ASSUME NEW chunks, NEW hs, Sectioned(chunks, hs)
    PROVE  /\ Len(chunks) \in Nat /\ DOMAIN chunks = 1 .. Len(chunks)
           /\ \A c \in 1 .. Len(chunks) :
                 /\ hs[c] \in 1 .. Length /\ source[hs[c]] = "h2" /\ ContentAt(hs, c) # {}
                 /\ ContentAt(hs, c) \in SUBSET (1 .. Length)
                 /\ Solid(chunks[c].lines) = Sorted(ContentAt(hs, c)) /\ chunks[c].lines \in Seq(0 .. Length)
           /\ \A c, d \in 1 .. Len(chunks) : c < d => \A i \in ContentAt(hs, c), j \in ContentAt(hs, d) : i < j
           /\ \A i \in 1 .. Length : Owner(i) # 0 /\ source[i] \in {"h3", "text", "image"} =>
                 \E c \in 1 .. Len(chunks) : i \in ContentAt(hs, c)
  <1>1. /\ source \in Markdowns /\ chunks \in Seq(Section) /\ hs \in Seq(1 .. Length) /\ Increasing(hs)
        /\ ToSet(hs) = HeadsOf(Length) /\ Len(hs) = Len(chunks)
        /\ \A c \in 1 .. Len(chunks) : SectionIs(chunks[c], hs[c])
    BY DEF Sectioned, Names
  <1>2. /\ Len(chunks) \in Nat /\ DOMAIN chunks = 1 .. Len(chunks) /\ DOMAIN hs = 1 .. Len(chunks)
        /\ \A c \in 1 .. Len(chunks) : chunks[c] \in Section /\ hs[c] \in 1 .. Length
    BY <1>1, ElementsOf
  <1>3. \A c \in 1 .. Len(chunks) : hs[c] \in HeadsOf(Length)
    BY <1>1, <1>2 DEF ToSet
  <1>4. ASSUME NEW c \in 1 .. Len(chunks)
        PROVE  /\ hs[c] \in 1 .. Length /\ source[hs[c]] = "h2" /\ ContentAt(hs, c) # {}
               /\ ContentAt(hs, c) \in SUBSET (1 .. Length)
               /\ Solid(chunks[c].lines) = Sorted(ContentAt(hs, c)) /\ chunks[c].lines \in Seq(0 .. Length)
    <2>1. hs[c] \in 1 .. Length /\ source[hs[c]] = "h2" /\ ContentAt(hs, c) # {}
      BY <1>3 DEF HeadsOf, ContentAt
    <2>2. ContentAt(hs, c) \in SUBSET (1 .. Length)
      BY <1>1, ContentIn DEF ContentAt
    <2>3. Solid(chunks[c].lines) = Sorted(ContentAt(hs, c))
      BY <1>1 DEF SectionIs, ContentAt
    <2>4. chunks[c].lines \in Seq(0 .. Length)
      BY <1>2 DEF Section
    <2> QED
      BY <2>1, <2>2, <2>3, <2>4
  <1>5. ASSUME NEW c \in 1 .. Len(chunks), NEW d \in 1 .. Len(chunks), c < d,
               NEW i \in ContentAt(hs, c), NEW j \in ContentAt(hs, d)
        PROVE  i < j
    <2>1. hs[c] < hs[d]
      BY <1>1, <1>5 DEF Increasing
    <2>2. i \in ContentOf(hs[c]) /\ j \in ContentOf(hs[d])
      BY DEF ContentAt
    <2> QED
      BY <1>1, <1>4, <2>1, <2>2, ContentApart
  <1>6. ASSUME NEW i \in 1 .. Length, Owner(i) # 0, source[i] \in {"h3", "text", "image"}
        PROVE  \E c \in 1 .. Len(chunks) : i \in ContentAt(hs, c)
    <2> DEFINE h == Owner(i)
    <2>1. i \in 0 .. Length /\ Length \in Nat
      BY PreparationAssumption
    <2>2. h \in 0 .. i
      BY <1>1, <2>1, OwnerIs
    <2>3. h \in 1 .. Length
      BY <1>6, <2>1, <2>2
    <2>4. source[h] = "h2"
      BY <1>1, <2>1, <2>3, OwnerIs
    <2>5. i \in ContentOf(h)
      BY <1>1, <1>6 DEF ContentOf, Markdowns
    <2> HIDE DEF h
    <2>6. h \in HeadsOf(Length)
      BY <2>3, <2>4, <2>5 DEF HeadsOf
    <2>7. PICK c \in 1 .. Len(chunks) : hs[c] = h
      BY <1>1, <1>2, <2>6 DEF ToSet
    <2> QED
      BY <2>5, <2>7 DEF ContentAt
  <1> QED
    BY <1>2, <1>4, <1>5, <1>6

\* ... and of its blocks.
LEMMA SectionBlocks ==
    ASSUME NEW chunks, NEW hs, Sectioned(chunks, hs), NEW c \in 1 .. Len(chunks)
    PROVE  /\ BlocksSo(BlocksAt(chunks, c), Sorted(ContentAt(hs, c)))
           /\ Sorted(ContentAt(hs, c)) \in Seq(1 .. Length) /\ Increasing(Sorted(ContentAt(hs, c)))
           /\ ToSet(Sorted(ContentAt(hs, c))) = ContentAt(hs, c)
           /\ Increasing(Words(BlocksAt(chunks, c)))
           /\ ToSet(Words(BlocksAt(chunks, c))) = ContentAt(hs, c) \cap Texts
  <1> DEFINE r == Sorted(ContentAt(hs, c))
             bs == BlocksAt(chunks, c)
  <1>1. /\ ContentAt(hs, c) \in SUBSET (1 .. Length) /\ Solid(chunks[c].lines) = r
        /\ chunks[c].lines \in Seq(0 .. Length)
    BY SectionFacts
  <1>2. r \in Seq(1 .. Length) /\ r \in Seq(Int) /\ Increasing(r) /\ ToSet(r) = ContentAt(hs, c)
    BY <1>1, SortedSet
  <1> HIDE DEF r
  <1>3. \A i \in ToSet(r) : source[i] \in {"h3", "text", "image"}
    <2>1. source \in Markdowns
      BY DEF Sectioned
    <2> QED
      BY <1>2, <2>1, ContentIn DEF ContentAt
  <1>4. BlocksSo(bs, r)
    <2>1. source \in Markdowns
      BY DEF Sectioned
    <2> QED
      BY <1>1, <1>2, <1>3, <2>1, BlocksAre DEF BlocksAt
  <1> HIDE DEF bs
  <1>5. Words(bs) = Among(r, Texts)
    BY <1>4 DEF BlocksSo
  <1>6. Increasing(Among(r, Texts)) /\ ToSet(Among(r, Texts)) = ToSet(r) \cap Texts
    BY <1>2, AmongIncreasing, AmongIs
  <1> QED
    BY <1>2, <1>4, <1>5, <1>6 DEF r, bs

-----------------------------------------------------------------------------
(* The paragraphs of a section.                                            *)

Paras == [id : Nat \X Nat \X Nat, chunk : Nat, ordinal : Nat, text : Seq(1 .. Length),
          path : Seq(1 .. Length), images : Seq(1 .. Length)]
TextIn == [p \in Paras |-> p.text]
ImagesIn == [p \in Paras |-> p.images]

ParasOf(c, bs) == [k \in DOMAIN bs |-> Paragraph(c, bs, k)]

\* A paragraph is one more of its text than the last of that text.
LEMMA OccursMore ==
    ASSUME NEW bs \in Seq(Block), NEW j \in 1 .. Len(bs), NEW k \in 1 .. Len(bs), j < k,
           Len(bs[j].lines) = Len(bs[k].lines)
    PROVE  Occurrence(bs, j) # Occurrence(bs, k)
  <1> DEFINE S == {i \in 1 .. j : Len(bs[i].lines) = Len(bs[j].lines)}
             R == {i \in 1 .. k : Len(bs[i].lines) = Len(bs[k].lines)}
  <1>1. S \subseteq R /\ k \in R /\ k \notin S
    BY ElementsOf
  <1>2. IsFiniteSet(R)
    <2>1. IsFiniteSet(1 .. k)
      <3>1. 1 \in Int /\ k \in Int
        OBVIOUS
      <3> QED
        BY <3>1, FS_Interval
    <2> QED
      BY <2>1, FS_Subset
  <1>3. Occurrence(bs, j) = Cardinality(S) /\ Occurrence(bs, k) = Cardinality(R)
    BY DEF Occurrence
  <1> HIDE DEF S, R
  <1>4. Cardinality(S) # Cardinality(R)
    BY <1>1, <1>2, FS_Subset
  <1> QED
    BY <1>3, <1>4

\* Occurrences are counted.
LEMMA OccursIs == \A bs \in Seq(Block) : \A k \in 1 .. Len(bs) : Occurrence(bs, k) \in Nat
  <1> SUFFICES ASSUME NEW bs \in Seq(Block), NEW k \in 1 .. Len(bs)
               PROVE  Occurrence(bs, k) \in Nat
    OBVIOUS
  <1> DEFINE R == {i \in 1 .. k : Len(bs[i].lines) = Len(bs[k].lines)}
  <1>1. IsFiniteSet(1 .. k)
    <2>1. 1 \in Int /\ k \in Int
      OBVIOUS
    <2> QED
      BY <2>1, FS_Interval
  <1>2. IsFiniteSet(R)
    BY <1>1, FS_Subset
  <1>3. Occurrence(bs, k) = Cardinality(R)
    BY DEF Occurrence
  <1> HIDE DEF R
  <1> QED
    BY <1>2, <1>3, FS_CardinalityType

\* The paragraphs of blocks, one each.
LEMMA ParasAre ==
    ASSUME NEW c \in Nat, NEW bs \in Seq(Block)
    PROVE  /\ ParasOf(c, bs) \in Seq(Paras) /\ Len(ParasOf(c, bs)) = Len(bs)
           /\ \A k \in 1 .. Len(bs) :
                 /\ ParasOf(c, bs)[k].chunk = c /\ ParasOf(c, bs)[k].text = bs[k].lines
                 /\ ParasOf(c, bs)[k].images = bs[k].images
                 /\ ParasOf(c, bs)[k].id = <<c, Len(bs[k].lines), Occurrence(bs, k)>>
           /\ \A j, k \in 1 .. Len(bs) : ParasOf(c, bs)[j].id = ParasOf(c, bs)[k].id => j = k
  <1> DEFINE n == Len(bs)
             ps == ParasOf(c, bs)
  <1>1. n \in Nat /\ DOMAIN bs = 1 .. n /\ \A k \in 1 .. n : bs[k] \in Block
    BY ElementsOf
  <1>2. ASSUME NEW k \in 1 .. n
        PROVE  Paragraph(c, bs, k) \in Paras
    <2>1. bs[k].lines \in Seq(1 .. Length) /\ bs[k].path \in Seq(1 .. Length) /\ bs[k].images \in Seq(1 .. Length)
      BY <1>1 DEF Block
    <2>2. Len(bs[k].lines) \in Nat /\ Occurrence(bs, k) \in Nat /\ k \in Nat
      BY <1>1, <2>1, OccursIs
    <2>3. <<c, Len(bs[k].lines), Occurrence(bs, k)>> \in Nat \X Nat \X Nat
      BY <2>2
    <2>4. ParagraphId(c, bs, k) \in Nat \X Nat \X Nat
      BY <2>3 DEF ParagraphId
    <2> QED
      BY <2>1, <2>2, <2>4 DEF Paras, Paragraph
  <1>3. ps = [k \in 1 .. n |-> Paragraph(c, bs, k)]
    BY <1>1 DEF ParasOf
  <1>4. \A X : \A m \in Nat : \A f \in [1 .. m -> X] : f \in Seq(X) /\ Len(f) = m
    OBVIOUS
  <1> HIDE DEF n, ps
  <1>5. ps \in [1 .. n -> Paras]
    BY <1>2, <1>3
  <1>6. ps \in Seq(Paras) /\ Len(ps) = n
    BY <1>1, <1>4, <1>5
  <1>7. ASSUME NEW k \in 1 .. n
        PROVE  /\ ps[k].chunk = c /\ ps[k].text = bs[k].lines /\ ps[k].images = bs[k].images
               /\ ps[k].id = <<c, Len(bs[k].lines), Occurrence(bs, k)>>
    <2>1. ps[k] = Paragraph(c, bs, k)
      BY <1>3
    <2> QED
      BY <2>1 DEF Paragraph, ParagraphId
  <1>8. ASSUME NEW j \in 1 .. n, NEW k \in 1 .. n, ps[j].id = ps[k].id
        PROVE  j = k
    <2>1. Len(bs[j].lines) = Len(bs[k].lines) /\ Occurrence(bs, j) = Occurrence(bs, k)
      BY <1>7, <1>8
    <2>2. ~(j < k) /\ ~(k < j)
      BY <2>1, OccursMore DEF n
    <2> QED
      BY <1>1, <2>2
  <1> QED
    BY <1>6, <1>7, <1>8 DEF n, ps

\* Their texts and images are those of the blocks.
LEMMA ParasThrough ==
    ASSUME NEW c \in Nat, NEW bs \in Seq(Block)
    PROVE  /\ FlattenSeq(Through(TextIn, ParasOf(c, bs))) = Words(bs)
           /\ FlattenSeq(Through(ImagesIn, ParasOf(c, bs))) = Views(bs)
  <1> DEFINE n == Len(bs)
             ps == ParasOf(c, bs)
  <1>1. /\ ps \in Seq(Paras) /\ Len(ps) = n /\ n \in Nat /\ DOMAIN bs = 1 .. n
        /\ \A k \in 1 .. n : ps[k].text = bs[k].lines /\ ps[k].images = bs[k].images
    BY ParasAre, ElementsOf
  <1> HIDE DEF n, ps
  <1>2. DOMAIN ps = 1 .. n /\ \A k \in 1 .. n : ps[k] \in Paras
    BY <1>1, ElementsOf
  <1>3. \A k \in 1 .. n : TextIn[ps[k]] = bs[k].lines /\ ImagesIn[ps[k]] = bs[k].images
    BY <1>1, <1>2 DEF TextIn, ImagesIn
  <1>4. Through(TextIn, ps) = TextsOf(bs)
    BY <1>1, <1>2, <1>3 DEF Through, TextsOf
  <1>5. Through(ImagesIn, ps) = PicturesOf(bs)
    BY <1>1, <1>2, <1>3 DEF Through, PicturesOf
  <1> QED
    BY <1>4, <1>5 DEF Words, Views, ps

-----------------------------------------------------------------------------
(* The paragraphs of a document.                                           *)

ParasBy(chunks) == [c \in DOMAIN chunks |-> ParasOf(c, BlocksAt(chunks, c))]

\* The paragraphs of a document are those of its sections, in order.
LEMMA ParasTogether ==
    ASSUME NEW chunks, NEW hs, Sectioned(chunks, hs)
    PROVE  /\ ParasBy(chunks) \in Seq(Seq(Paras)) /\ Len(ParasBy(chunks)) = Len(chunks)
           /\ \A c \in 1 .. Len(chunks) : /\ ParasBy(chunks)[c] = ParasOf(c, BlocksAt(chunks, c))
                                          /\ BlocksAt(chunks, c) \in Seq(Block) /\ c \in Nat
           /\ ParseChunkParagraphs(chunks) = FlattenSeq(ParasBy(chunks))
  <1> DEFINE n == Len(chunks)
             pss == ParasBy(chunks)
  <1>1. n \in Nat /\ DOMAIN chunks = 1 .. n
    BY SectionFacts
  <1>2. \A c \in 1 .. n : BlocksAt(chunks, c) \in Seq(Block) /\ c \in Nat
    BY SectionBlocks DEF BlocksSo
  <1>3. \A X : \A m \in Nat : \A f \in [1 .. m -> X] : f \in Seq(X) /\ Len(f) = m
    OBVIOUS
  <1>4. ParseChunkParagraphs(chunks) = FlattenSeq(pss)
    BY DEF ParseChunkParagraphs, ParasBy, ParasOf, BlocksAt
  <1> HIDE DEF n
  <1>5. pss = [c \in 1 .. n |-> ParasOf(c, BlocksAt(chunks, c))]
    BY <1>1 DEF ParasBy
  <1>6. \A c \in 1 .. n : ParasOf(c, BlocksAt(chunks, c)) \in Seq(Paras)
    BY <1>2, ParasAre
  <1> HIDE DEF pss
  <1>7. pss \in [1 .. n -> Seq(Paras)]
    BY <1>5, <1>6
  <1>8. pss \in Seq(Seq(Paras)) /\ Len(pss) = n
    BY <1>1, <1>3, <1>7
  <1>9. \A c \in 1 .. n : pss[c] = ParasOf(c, BlocksAt(chunks, c))
    BY <1>5
  <1> QED
    BY <1>2, <1>4, <1>8, <1>9 DEF n, pss

\* A paragraph of a document is a block of one of its sections.
LEMMA ParaIs ==
    ASSUME NEW chunks, NEW hs, Sectioned(chunks, hs)
    PROVE  /\ ParseChunkParagraphs(chunks) \in Seq(Paras)
           /\ \A p : p \in ToSet(ParseChunkParagraphs(chunks)) <=>
                 \E c \in 1 .. Len(chunks) : \E k \in 1 .. Len(BlocksAt(chunks, c)) :
                     p = ParasOf(c, BlocksAt(chunks, c))[k]
  <1> DEFINE pss == ParasBy(chunks)
  <1>1. /\ pss \in Seq(Seq(Paras)) /\ Len(pss) = Len(chunks)
        /\ \A c \in 1 .. Len(chunks) : /\ pss[c] = ParasOf(c, BlocksAt(chunks, c))
                                       /\ BlocksAt(chunks, c) \in Seq(Block) /\ c \in Nat
        /\ ParseChunkParagraphs(chunks) = FlattenSeq(pss)
    BY ParasTogether
  <1> HIDE DEF pss
  <1>2. /\ FlattenSeq(pss) \in Seq(Paras)
        /\ \A x : x \in ToSet(FlattenSeq(pss)) <=> \E i \in 1 .. Len(pss) : x \in ToSet(pss[i])
    BY <1>1, FlattenIs
  <1>3. ASSUME NEW c \in 1 .. Len(chunks)
        PROVE  DOMAIN pss[c] = 1 .. Len(BlocksAt(chunks, c))
    <2>1. pss[c] \in Seq(Paras) /\ Len(pss[c]) = Len(BlocksAt(chunks, c))
      BY <1>1, ParasAre
    <2> QED
      BY <2>1
  <1>4. \A c \in 1 .. Len(chunks) : \A x : x \in ToSet(pss[c]) <=>
            \E k \in 1 .. Len(BlocksAt(chunks, c)) : x = ParasOf(c, BlocksAt(chunks, c))[k]
    BY <1>1, <1>3 DEF ToSet
  <1>5. \A x : x \in ToSet(ParseChunkParagraphs(chunks)) <=> \E c \in 1 .. Len(chunks) : x \in ToSet(pss[c])
    BY <1>1, <1>2
  <1>6. ParseChunkParagraphs(chunks) \in Seq(Paras)
    BY <1>1, <1>2
  <1>7. ASSUME NEW p
        PROVE  p \in ToSet(ParseChunkParagraphs(chunks)) <=>
                 \E c \in 1 .. Len(chunks) : \E k \in 1 .. Len(BlocksAt(chunks, c)) :
                     p = ParasOf(c, BlocksAt(chunks, c))[k]
    <2> DEFINE InIt(c) == \E k \in 1 .. Len(BlocksAt(chunks, c)) : p = ParasOf(c, BlocksAt(chunks, c))[k]
    <2>1. \A c \in 1 .. Len(chunks) : p \in ToSet(pss[c]) <=> InIt(c)
      BY <1>4
    <2> HIDE DEF InIt
    <2>2. p \in ToSet(ParseChunkParagraphs(chunks)) <=> \E c \in 1 .. Len(chunks) : InIt(c)
      BY <1>5, <2>1
    <2> QED
      BY <2>2 DEF InIt
  <1> QED
    BY <1>6, <1>7

-----------------------------------------------------------------------------
(* The text and the images of a document.                                  *)

WordsBy(chunks) == [c \in DOMAIN chunks |-> Words(BlocksAt(chunks, c))]
ViewsBy(chunks) == [c \in DOMAIN chunks |-> Views(BlocksAt(chunks, c))]

\* The lines of sections.
Content(chunks, hs) == UNION {ContentAt(hs, c) : c \in 1 .. Len(chunks)}

\* The lines and the images, section by section.
LEMMA WordsBySections ==
    ASSUME NEW chunks, NEW hs, Sectioned(chunks, hs)
    PROVE  /\ WordsBy(chunks) \in Seq(Seq(1 .. Length)) /\ Len(WordsBy(chunks)) = Len(chunks)
           /\ ViewsBy(chunks) \in Seq(Seq(1 .. Length)) /\ Len(ViewsBy(chunks)) = Len(chunks)
           /\ \A c \in 1 .. Len(chunks) : /\ WordsBy(chunks)[c] = Words(BlocksAt(chunks, c))
                                          /\ ViewsBy(chunks)[c] = Views(BlocksAt(chunks, c))
  <1> DEFINE n == Len(chunks)
  <1>1. n \in Nat /\ DOMAIN chunks = 1 .. n
    BY SectionFacts
  <1>2. \A c \in 1 .. n : Words(BlocksAt(chunks, c)) \in Seq(1 .. Length) /\ Views(BlocksAt(chunks, c)) \in Seq(1 .. Length)
    BY SectionBlocks, WordsAre DEF BlocksSo
  <1>3. \A X : \A m \in Nat : \A f \in [1 .. m -> X] : f \in Seq(X) /\ Len(f) = m
    OBVIOUS
  <1> HIDE DEF n
  <1>4. /\ WordsBy(chunks) = [c \in 1 .. n |-> Words(BlocksAt(chunks, c))]
        /\ ViewsBy(chunks) = [c \in 1 .. n |-> Views(BlocksAt(chunks, c))]
    BY <1>1 DEF WordsBy, ViewsBy
  <1>5. WordsBy(chunks) \in [1 .. n -> Seq(1 .. Length)] /\ ViewsBy(chunks) \in [1 .. n -> Seq(1 .. Length)]
    BY <1>2, <1>4
  <1>6. /\ WordsBy(chunks) \in Seq(Seq(1 .. Length)) /\ Len(WordsBy(chunks)) = n
        /\ ViewsBy(chunks) \in Seq(Seq(1 .. Length)) /\ Len(ViewsBy(chunks)) = n
    BY <1>1, <1>3, <1>5
  <1>7. \A c \in 1 .. n : /\ WordsBy(chunks)[c] = Words(BlocksAt(chunks, c))
                          /\ ViewsBy(chunks)[c] = Views(BlocksAt(chunks, c))
    BY <1>4
  <1> QED
    BY <1>6, <1>7 DEF n

\* The text of all sections is all text, in the order of the document.
LEMMA TextInOrder ==
    ASSUME NEW chunks, NEW hs, Sectioned(chunks, hs)
    PROVE  /\ FlattenSeq(WordsBy(chunks)) \in Seq(Int) /\ Increasing(FlattenSeq(WordsBy(chunks)))
           /\ FlattenSeq(WordsBy(chunks)) = Sorted({i \in Content(chunks, hs) : source[i] = "text"})
  <1> DEFINE ws == WordsBy(chunks)
             n == Len(chunks)
             S == {i \in Content(chunks, hs) : source[i] = "text"}
  <1>1. /\ ws \in Seq(Seq(1 .. Length)) /\ Len(ws) = n
        /\ \A c \in 1 .. n : ws[c] = Words(BlocksAt(chunks, c))
    BY WordsBySections
  <1>2. \A c \in 1 .. n : Increasing(ws[c]) /\ ToSet(ws[c]) = ContentAt(hs, c) \cap Texts
    BY <1>1, SectionBlocks
  <1>3. ws \in Seq(Seq(Int))
    <2>1. Seq(1 .. Length) \subseteq Seq(Int)
      BY NumbersOf
    <2> HIDE DEF ws
    <2> QED
      BY <1>1, <2>1, Wider
  <1>4. \A c, d \in 1 .. n : c < d => \A i \in ContentAt(hs, c), j \in ContentAt(hs, d) : i < j
    BY SectionFacts
  <1>5. \A c \in 1 .. n : ContentAt(hs, c) \in SUBSET (1 .. Length)
    BY SectionFacts
  <1> HIDE DEF ws, n
  <1>6. \A c, d \in 1 .. Len(ws) : c < d => \A x \in ToSet(ws[c]), y \in ToSet(ws[d]) : x < y
    BY <1>1, <1>2, <1>4
  <1>7. FlattenSeq(ws) \in Seq(Int) /\ Increasing(FlattenSeq(ws))
    BY <1>1, <1>2, <1>3, <1>6, FlattenIncreasing
  <1>8. ToSet(FlattenSeq(ws)) = S
    <2>1. \A x : x \in ToSet(FlattenSeq(ws)) <=> \E i \in 1 .. Len(ws) : x \in ToSet(ws[i])
      BY <1>1, FlattenIs
    <2>2. \A x : x \in ToSet(FlattenSeq(ws)) <=> \E c \in 1 .. n : x \in ContentAt(hs, c) \cap Texts
      BY <1>1, <1>2, <2>1
    <2>3. \A x : x \in S <=> \E c \in 1 .. n : x \in ContentAt(hs, c) \cap Texts
      BY <1>5 DEF Content, Texts, n
    <2> HIDE DEF S
    <2> QED
      BY <2>2, <2>3
  <1>9. FlattenSeq(ws) = Sorted(S)
    BY <1>7, <1>8, SortedIs
  <1> QED
    BY <1>7, <1>9 DEF ws

\* The images with paragraphs are those of the sections with text, each once.
LEMMA ImagesTogether ==
    ASSUME NEW chunks, NEW hs, Sectioned(chunks, hs)
    PROVE  /\ IsInjective(FlattenSeq(ViewsBy(chunks)))
           /\ \A i : i \in ToSet(FlattenSeq(ViewsBy(chunks))) <=>
                 \E c \in 1 .. Len(chunks) : /\ BlocksAt(chunks, c) # <<>>
                                             /\ i \in ContentAt(hs, c) /\ source[i] = "image"
  <1> DEFINE vs == ViewsBy(chunks)
             n == Len(chunks)
  <1>1. /\ vs \in Seq(Seq(1 .. Length)) /\ Len(vs) = n /\ n \in Nat
        /\ \A c \in 1 .. n : vs[c] = Views(BlocksAt(chunks, c))
    BY WordsBySections, SectionFacts
  <1>2. ASSUME NEW c \in 1 .. n
        PROVE  /\ IsInjective(vs[c])
               /\ ToSet(vs[c]) = IF BlocksAt(chunks, c) = <<>> THEN {} ELSE ContentAt(hs, c) \cap Pictures
    <2>1. BlocksSo(BlocksAt(chunks, c), Sorted(ContentAt(hs, c))) /\ ToSet(Sorted(ContentAt(hs, c))) = ContentAt(hs, c)
      BY SectionBlocks
    <2> QED
      BY <1>1, <2>1 DEF BlocksSo
  <1>3. \A c, d \in 1 .. n : c < d => \A i \in ContentAt(hs, c), j \in ContentAt(hs, d) : i < j
    BY SectionFacts
  <1>4. \A c \in 1 .. n : ContentAt(hs, c) \in SUBSET (1 .. Length)
    BY SectionFacts
  <1> HIDE DEF vs, n
  <1>5. ASSUME NEW c \in 1 .. n, NEW d \in 1 .. n, c # d
        PROVE  ToSet(vs[c]) \cap ToSet(vs[d]) = {}
    <2>1. ToSet(vs[c]) \subseteq ContentAt(hs, c) /\ ToSet(vs[d]) \subseteq ContentAt(hs, d)
      BY <1>2
    <2>2. ContentAt(hs, c) \cap ContentAt(hs, d) = {}
      <3>1. c < d \/ d < c
        BY <1>1, <1>5
      <3>2. \A i \in ContentAt(hs, c) : i \in Int /\ ~(i < i)
        BY <1>4
      <3> QED
        BY <1>3, <3>1, <3>2
    <2> QED
      BY <2>1, <2>2
  <1>6. IsInjective(FlattenSeq(vs))
    BY <1>1, <1>2, <1>5, FlattenInjective
  <1>7. \A x : x \in ToSet(FlattenSeq(vs)) <=> \E i \in 1 .. Len(vs) : x \in ToSet(vs[i])
    BY <1>1, FlattenIs
  <1>8. ASSUME NEW i
        PROVE  i \in ToSet(FlattenSeq(vs)) <=>
                 \E c \in 1 .. n : BlocksAt(chunks, c) # <<>> /\ i \in ContentAt(hs, c) /\ source[i] = "image"
    <2>1. \A c \in 1 .. n : i \in ToSet(vs[c]) <=>
             BlocksAt(chunks, c) # <<>> /\ i \in ContentAt(hs, c) /\ source[i] = "image"
      BY <1>2, <1>4 DEF Pictures
    <2> QED
      BY <1>1, <1>7, <2>1
  <1> QED
    BY <1>6, <1>8 DEF vs, n

\* The text and the images of paragraphs, taken along all of them.
LEMMA TakenAlong ==
    ASSUME NEW chunks, NEW hs, Sectioned(chunks, hs)
    PROVE  /\ FlattenSeq(Through(TextIn, ParseChunkParagraphs(chunks))) = FlattenSeq(WordsBy(chunks))
           /\ FlattenSeq(Through(ImagesIn, ParseChunkParagraphs(chunks))) = FlattenSeq(ViewsBy(chunks))
  <1> DEFINE pss == ParasBy(chunks)
             n == Len(chunks)
             L == Seq(1 .. Length)
  <1>1. /\ pss \in Seq(Seq(Paras)) /\ Len(pss) = n /\ ParseChunkParagraphs(chunks) = FlattenSeq(pss)
        /\ \A c \in 1 .. n : /\ pss[c] = ParasOf(c, BlocksAt(chunks, c))
                             /\ BlocksAt(chunks, c) \in Seq(Block) /\ c \in Nat
    BY ParasTogether
  <1>2. n \in Nat /\ DOMAIN chunks = 1 .. n
    BY SectionFacts
  <1>3. TextIn \in [Paras -> Seq(1 .. Length)] /\ ImagesIn \in [Paras -> Seq(1 .. Length)]
    BY DEF TextIn, ImagesIn, Paras
  <1> HIDE DEF pss, n
  <1>4. DOMAIN pss = 1 .. n
    BY <1>1, ElementsOf
  <1>5. /\ FlattenSeq(Through(TextIn, FlattenSeq(pss))) = FlattenSeq(Mapped(TextIn, pss))
        /\ FlattenSeq(Through(ImagesIn, FlattenSeq(pss))) = FlattenSeq(Mapped(ImagesIn, pss))
    BY <1>1, <1>3, FlattenMapped
  <1>6. \A c \in 1 .. n : /\ FlattenSeq(Through(TextIn, pss[c])) = Words(BlocksAt(chunks, c))
                          /\ FlattenSeq(Through(ImagesIn, pss[c])) = Views(BlocksAt(chunks, c))
    BY <1>1, ParasThrough
  <1>7. Mapped(TextIn, pss) = WordsBy(chunks)
    BY <1>2, <1>4, <1>6 DEF WordsBy, Mapped
  <1>8. Mapped(ImagesIn, pss) = ViewsBy(chunks)
    BY <1>2, <1>4, <1>6 DEF ViewsBy, Mapped
  <1> QED
    BY <1>1, <1>5, <1>7, <1>8

\* The lines of the chunks are the content of the headings.
LEMMA LinesInChunks ==
    ASSUME NEW chunks, NEW hs, Sectioned(chunks, hs)
    PROVE  UNION {ToSet(Solid(c.lines)) : c \in ToSet(chunks)} = Content(chunks, hs)
  <1> DEFINE n == Len(chunks)
  <1>1. n \in Nat /\ DOMAIN chunks = 1 .. n /\ \A c \in 1 .. n : Solid(chunks[c].lines) = Sorted(ContentAt(hs, c))
    BY SectionFacts
  <1>2. \A c \in 1 .. n : ToSet(Sorted(ContentAt(hs, c))) = ContentAt(hs, c)
    BY SectionBlocks
  <1> HIDE DEF n
  <1>3. \A c \in 1 .. n : ToSet(Solid(chunks[c].lines)) = ContentAt(hs, c)
    BY <1>1, <1>2
  <1>4. \A x : (\E c \in ToSet(chunks) : x \in ToSet(Solid(c.lines))) <=> \E c \in 1 .. n : x \in ContentAt(hs, c)
    BY <1>1, <1>3 DEF ToSet
  <1>5. \A x : x \in UNION {ToSet(Solid(c.lines)) : c \in ToSet(chunks)} <=> \E c \in ToSet(chunks) : x \in ToSet(Solid(c.lines))
    OBVIOUS
  <1>6. \A x : x \in Content(chunks, hs) <=> \E c \in 1 .. n : x \in ContentAt(hs, c)
    BY DEF Content, n
  <1> QED
    BY <1>4, <1>5, <1>6

-----------------------------------------------------------------------------
(* What the property says of the paragraphs.                               *)

ParagraphsOf(ps, chunks) ==
    LET lines == FlattenSeq([n \in DOMAIN ps |-> ps[n].text])
        inChunks == UNION {ToSet(Solid(c.lines)) : c \in ToSet(chunks)}
        images == FlattenSeq([n \in DOMAIN ps |-> ps[n].images])
    IN /\ lines = Sorted({i \in inChunks : source[i] = "text"})
       /\ \A m, n \in DOMAIN ps : ps[m].id = ps[n].id => m = n
       /\ IsInjective(images)
       /\ ToSet(images) = {i \in inChunks : source[i] = "image"
                              /\ \E p \in ToSet(ps) : Owner(p.text[1]) = Owner(i)}
       /\ \A p \in ToSet(ps) : \A i \in ToSet(p.images) : Owner(p.text[1]) = Owner(i) /\ NextTo(ps, p, i)

\* The texts and the images of paragraphs, one by one.
LEMMA TakenFrom ==
    ASSUME NEW ps \in Seq(Paras)
    PROVE  /\ [n \in DOMAIN ps |-> ps[n].text] = Through(TextIn, ps)
           /\ [n \in DOMAIN ps |-> ps[n].images] = Through(ImagesIn, ps)
  <1>1. \A n \in DOMAIN ps : ps[n] \in Paras
    BY ElementsOf
  <1>2. \A n \in DOMAIN ps : TextIn[ps[n]] = ps[n].text /\ ImagesIn[ps[n]] = ps[n].images
    BY <1>1 DEF TextIn, ImagesIn
  <1> QED
    BY <1>2 DEF Through

TextFrom(t, hs, c) ==
    /\ t \in Seq(1 .. Length) /\ Len(t) \in Nat \ {0} /\ DOMAIN t = 1 .. Len(t)
    /\ \A j \in 1 .. Len(t) : /\ t[j] \in ContentAt(hs, c) /\ t[j] \in 1 .. Length
                              /\ t[j] \in ToSet(t) /\ Owner(t[j]) = hs[c]

\* A paragraph has text of its section.
LEMMA ParaText ==
    ASSUME NEW chunks, NEW hs, Sectioned(chunks, hs), NEW c \in 1 .. Len(chunks),
           NEW k \in 1 .. Len(BlocksAt(chunks, c))
    PROVE  TextFrom(BlocksAt(chunks, c)[k].lines, hs, c)
  <1> DEFINE bs == BlocksAt(chunks, c)
             b == bs[k]
  <1>1. /\ bs \in Seq(Block) /\ StartsIn(bs, ToSet(Sorted(ContentAt(hs, c))))
        /\ ToSet(Words(bs)) = ContentAt(hs, c) \cap Texts
    BY SectionBlocks DEF BlocksSo
  <1>2. k \in 1 .. Len(bs)
    OBVIOUS
  <1> HIDE DEF bs
  <1>3. b.lines # <<>> /\ ToSet(b.lines) \subseteq ToSet(Words(bs)) /\ b \in Block
    BY <1>1, <1>2, WordsAre, ElementsOf DEF StartsIn
  <1>4. b.lines \in Seq(1 .. Length)
    BY <1>3 DEF Block
  <1> HIDE DEF b
  <1>5. Len(b.lines) \in Nat \ {0} /\ DOMAIN b.lines = 1 .. Len(b.lines) /\ \A j \in 1 .. Len(b.lines) : b.lines[j] \in 1 .. Length
    <2>1. \A X : \A s \in Seq(X) : s # <<>> => Len(s) \in Nat \ {0}
      OBVIOUS
    <2>2. Len(b.lines) \in Nat \ {0}
      BY <1>3, <1>4, <2>1
    <2> QED
      BY <1>4, <2>2, ElementsOf
  <1>6. ASSUME NEW j \in 1 .. Len(b.lines)
        PROVE  /\ b.lines[j] \in ContentAt(hs, c) /\ b.lines[j] \in 1 .. Length /\ b.lines[j] \in ToSet(b.lines)
               /\ Owner(b.lines[j]) = hs[c]
    <2>1. b.lines[j] \in ToSet(b.lines)
      BY <1>5 DEF ToSet
    <2>2. b.lines[j] \in ContentAt(hs, c)
      BY <1>1, <1>3, <2>1
    <2>3. Owner(b.lines[j]) = hs[c]
      BY <2>2, ContentIn DEF ContentAt, Sectioned
    <2> QED
      BY <1>5, <2>1, <2>2, <2>3
  <1> QED
    BY <1>4, <1>5, <1>6 DEF b, bs, TextFrom

\* Where paragraphs of one section stand to one another and to their images.
LEMMA BlocksStand ==
    ASSUME NEW chunks, NEW hs, Sectioned(chunks, hs), NEW c \in 1 .. Len(chunks),
           NEW k \in 1 .. Len(BlocksAt(chunks, c)), NEW m \in 1 .. Len(BlocksAt(chunks, c)),
           NEW i \in ToSet(BlocksAt(chunks, c)[k].images)
    PROVE  LET b == BlocksAt(chunks, c)[k]
               d == BlocksAt(chunks, c)[m]
           IN /\ i \in ContentAt(hs, c) /\ i \in 1 .. Length
              /\ m < k => d.lines[1] < i /\ \A j \in 1 .. Len(b.lines) : d.lines[1] < b.lines[j]
              /\ k < m => i < d.lines[1] /\ \A j \in 1 .. Len(b.lines) : b.lines[j] < d.lines[1]
  <1> DEFINE bs == BlocksAt(chunks, c)
             b == bs[k]
             d == bs[m]
             ts == TextsOf(bs)
  <1>1. /\ bs \in Seq(Block) /\ Beside(bs) /\ Increasing(Words(bs))
        /\ ToSet(Views(bs)) \subseteq ContentAt(hs, c)
    <2>1. /\ BlocksSo(bs, Sorted(ContentAt(hs, c))) /\ ToSet(Sorted(ContentAt(hs, c))) = ContentAt(hs, c)
          /\ Increasing(Words(bs))
      BY SectionBlocks
    <2> QED
      BY <2>1 DEF BlocksSo
  <1>2. ContentAt(hs, c) \in SUBSET (1 .. Length)
    BY SectionFacts
  <1>3. /\ Len(b.lines) \in Nat \ {0} /\ \A j \in 1 .. Len(b.lines) : b.lines[j] \in ToSet(b.lines)
        /\ Len(d.lines) \in Nat \ {0} /\ \A j \in 1 .. Len(d.lines) : d.lines[j] \in ToSet(d.lines)
    BY ParaText DEF TextFrom
  <1>4. k \in 1 .. Len(bs) /\ m \in 1 .. Len(bs) /\ i \in ToSet(b.images)
    OBVIOUS
  <1> HIDE DEF bs
  <1>5. i \in ToSet(Views(bs))
    BY <1>1, <1>4, WordsAre
  <1>6. (m < k => d.lines[1] < i) /\ (k < m => i < d.lines[1])
    BY <1>1, <1>4 DEF Beside
  <1>7. /\ ts \in Seq(Seq(1 .. Length)) /\ Len(ts) = Len(bs) /\ ts[k] = b.lines /\ ts[m] = d.lines
    BY <1>1, <1>4, ListsOf
  <1>8. Increasing(FlattenSeq(ts))
    BY <1>1 DEF Words
  <1> HIDE DEF ts, b, d
  <1>9. ts \in Seq(Seq(Int))
    <2>1. Seq(1 .. Length) \subseteq Seq(Int)
      BY NumbersOf
    <2> QED
      BY <1>7, <2>1, Wider
  <1>10. 1 \in 1 .. Len(d.lines)
    BY <1>3
  <1>11. ASSUME m < k, NEW j \in 1 .. Len(b.lines)
         PROVE  d.lines[1] < b.lines[j]
    <2>1. d.lines[1] \in ToSet(ts[m]) /\ b.lines[j] \in ToSet(ts[k])
      BY <1>3, <1>7, <1>10
    <2>2. m \in 1 .. Len(ts) /\ k \in 1 .. Len(ts)
      BY <1>4, <1>7
    <2> QED
      BY <1>8, <1>9, <1>11, <2>1, <2>2, PartsInOrder
  <1>12. ASSUME k < m, NEW j \in 1 .. Len(b.lines)
         PROVE  b.lines[j] < d.lines[1]
    <2>1. d.lines[1] \in ToSet(ts[m]) /\ b.lines[j] \in ToSet(ts[k])
      BY <1>3, <1>7, <1>10
    <2>2. m \in 1 .. Len(ts) /\ k \in 1 .. Len(ts)
      BY <1>4, <1>7
    <2> QED
      BY <1>8, <1>9, <1>12, <2>1, <2>2, PartsInOrder
  <1>13. i \in ContentAt(hs, c) /\ i \in 1 .. Length
    BY <1>1, <1>2, <1>5
  <1> QED
    BY <1>6, <1>11, <1>12, <1>13 DEF b, d, bs

\* Every image stands beside its paragraph.
LEMMA ImagesStand ==
    ASSUME NEW chunks, NEW hs, Sectioned(chunks, hs), NEW p \in ToSet(ParseChunkParagraphs(chunks)),
           NEW i \in ToSet(p.images)
    PROVE  Owner(p.text[1]) = Owner(i) /\ NextTo(ParseChunkParagraphs(chunks), p, i)
  <1> DEFINE ps == ParseChunkParagraphs(chunks)
             BAt(c) == BlocksAt(chunks, c)
  <1>1. \A q \in ToSet(ps) : \E c \in 1 .. Len(chunks) : \E k \in 1 .. Len(BAt(c)) : q = ParasOf(c, BAt(c))[k]
    BY ParaIs
  <1>2. PICK c \in 1 .. Len(chunks) : \E k \in 1 .. Len(BAt(c)) : p = ParasOf(c, BAt(c))[k]
    BY <1>1
  <1>3. PICK k \in 1 .. Len(BAt(c)) : p = ParasOf(c, BAt(c))[k]
    BY <1>2
  <1>4. \A d \in 1 .. Len(chunks) : d \in Nat /\ BAt(d) \in Seq(Block)
    BY ParasTogether
  <1>5. p.text = BAt(c)[k].lines /\ p.images = BAt(c)[k].images
    BY <1>3, <1>4, ParasAre
  <1>6. /\ Len(p.text) \in Nat \ {0} /\ DOMAIN p.text = 1 .. Len(p.text)
        /\ \A j \in 1 .. Len(p.text) : p.text[j] \in ContentAt(hs, c) /\ p.text[j] \in 1 .. Length /\ Owner(p.text[j]) = hs[c]
    <2>1. TextFrom(BAt(c)[k].lines, hs, c)
      BY ParaText
    <2>2. TextFrom(p.text, hs, c)
      BY <1>5, <2>1
    <2> QED
      BY <2>2 DEF TextFrom
  <1>7. i \in ContentAt(hs, c) /\ i \in 1 .. Length
    BY <1>5, BlocksStand
  <1>8. Owner(i) = hs[c]
    BY <1>7, ContentIn DEF ContentAt, Sectioned
  <1>9. 1 \in 1 .. Len(p.text) /\ Len(p.text) \in 1 .. Len(p.text) /\ Last(p.text) = p.text[Len(p.text)]
    BY <1>6 DEF Last
  <1>10. ASSUME NEW q \in ToSet(ps), q # p
         PROVE  /\ ~(i < q.text[1] /\ q.text[1] < p.text[1])
                /\ ~(Last(p.text) < q.text[1] /\ q.text[1] < i)
    <2>1. PICK d \in 1 .. Len(chunks) : \E m \in 1 .. Len(BAt(d)) : q = ParasOf(d, BAt(d))[m]
      BY <1>1
    <2>2. PICK m \in 1 .. Len(BAt(d)) : q = ParasOf(d, BAt(d))[m]
      BY <2>1
    <2>3. q.text = BAt(d)[m].lines
      BY <1>4, <2>2, ParasAre
    <2>4. /\ Len(q.text) \in Nat \ {0}
          /\ \A j \in 1 .. Len(q.text) : q.text[j] \in ContentAt(hs, d) /\ q.text[j] \in 1 .. Length
      <3>1. TextFrom(BAt(d)[m].lines, hs, d)
        BY ParaText
      <3>2. TextFrom(q.text, hs, d)
        BY <2>3, <3>1
      <3> QED
        BY <3>2 DEF TextFrom
    <2>5. q.text[1] \in ContentAt(hs, d) /\ q.text[1] \in Int
      <3>1. 1 \in 1 .. Len(q.text)
        BY <2>4
      <3> QED
        BY <2>4, <3>1
    <2>6. /\ p.text[1] \in ContentAt(hs, c) /\ p.text[1] \in Int
          /\ Last(p.text) \in ContentAt(hs, c) /\ Last(p.text) \in Int /\ i \in Int
      BY <1>6, <1>7, <1>9
    <2>7. \A g, h \in 1 .. Len(chunks) : g < h => \A x \in ContentAt(hs, g), y \in ContentAt(hs, h) : x < y
      BY SectionFacts
    <2>8. CASE d < c
      <3>1. q.text[1] < i /\ q.text[1] < Last(p.text)
        BY <1>7, <2>5, <2>6, <2>7, <2>8
      <3> QED
        BY <2>5, <2>6, <3>1
    <2>9. CASE c < d
      <3>1. i < q.text[1] /\ p.text[1] < q.text[1]
        BY <1>7, <2>5, <2>6, <2>7, <2>9
      <3> QED
        BY <2>5, <2>6, <3>1
    <2>10. CASE c = d
      <3>1. m \in 1 .. Len(BAt(c)) /\ m # k
        BY <1>3, <1>10, <2>2, <2>10
      <3>2. /\ m < k => q.text[1] < i /\ \A j \in 1 .. Len(p.text) : q.text[1] < p.text[j]
            /\ k < m => i < q.text[1] /\ \A j \in 1 .. Len(p.text) : p.text[j] < q.text[1]
        BY <1>5, <2>3, <2>10, <3>1, BlocksStand
      <3>3. m < k \/ k < m
        BY <3>1
      <3>4. CASE m < k
        <4>1. q.text[1] < i /\ q.text[1] < Last(p.text)
          BY <1>9, <3>2, <3>4
        <4> QED
          BY <2>5, <2>6, <4>1
      <3>5. CASE k < m
        <4>1. i < q.text[1] /\ p.text[1] < q.text[1]
          BY <1>9, <3>2, <3>5
        <4> QED
          BY <2>5, <2>6, <4>1
      <3> QED
        BY <3>3, <3>4, <3>5
    <2>11. c \in Int /\ d \in Int
      BY <1>4
    <2> QED
      BY <2>8, <2>9, <2>10, <2>11
  <1>11. NextTo(ps, p, i)
    BY <1>10 DEF NextTo
  <1>12. Owner(p.text[1]) = Owner(i)
    BY <1>6, <1>8, <1>9
  <1> QED
    BY <1>11, <1>12

\* No two paragraphs have one name.
LEMMA NamesApart ==
    ASSUME NEW chunks, NEW hs, Sectioned(chunks, hs)
    PROVE  LET ps == ParseChunkParagraphs(chunks)
           IN /\ \A p, q \in ToSet(ps) : p.id = q.id => p = q
              /\ \A m, n \in DOMAIN ps : ps[m].id = ps[n].id => m = n
  <1> DEFINE ps == ParseChunkParagraphs(chunks)
             BAt(c) == BlocksAt(chunks, c)
             pss == ParasBy(chunks)
  <1>1. \A q \in ToSet(ps) : \E c \in 1 .. Len(chunks) : \E k \in 1 .. Len(BAt(c)) : q = ParasOf(c, BAt(c))[k]
    BY ParaIs
  <1>2. \A d \in 1 .. Len(chunks) : d \in Nat /\ BAt(d) \in Seq(Block) /\ pss[d] = ParasOf(d, BAt(d))
    BY ParasTogether
  <1>3. pss \in Seq(Seq(Paras)) /\ Len(pss) = Len(chunks) /\ ps = FlattenSeq(pss) /\ ps \in Seq(Paras)
    BY ParasTogether, ParaIs
  <1>4. \A c \in 1 .. Len(chunks) :
            /\ ParasOf(c, BAt(c)) \in Seq(Paras) /\ Len(ParasOf(c, BAt(c))) = Len(BAt(c))
            /\ \A k \in 1 .. Len(BAt(c)) : ParasOf(c, BAt(c))[k].id = <<c, Len(BAt(c)[k].lines), Occurrence(BAt(c), k)>>
            /\ \A j, k \in 1 .. Len(BAt(c)) : ParasOf(c, BAt(c))[j].id = ParasOf(c, BAt(c))[k].id => j = k
    BY <1>2, ParasAre
  <1> HIDE DEF ps, BAt, pss
  <1>5. ASSUME NEW p \in ToSet(ps), NEW q \in ToSet(ps), p.id = q.id
        PROVE  p = q
    <2>1. PICK c \in 1 .. Len(chunks) : \E k \in 1 .. Len(BAt(c)) : p = ParasOf(c, BAt(c))[k]
      BY <1>1
    <2>2. PICK k \in 1 .. Len(BAt(c)) : p = ParasOf(c, BAt(c))[k]
      BY <2>1
    <2>3. PICK d \in 1 .. Len(chunks) : \E m \in 1 .. Len(BAt(d)) : q = ParasOf(d, BAt(d))[m]
      BY <1>1
    <2>4. PICK m \in 1 .. Len(BAt(d)) : q = ParasOf(d, BAt(d))[m]
      BY <2>3
    <2>5. c = d
      <3>1. /\ p.id = <<c, Len(BAt(c)[k].lines), Occurrence(BAt(c), k)>>
            /\ q.id = <<d, Len(BAt(d)[m].lines), Occurrence(BAt(d), m)>>
        BY <1>4, <2>2, <2>4
      <3>2. \A a, e, f, b, g, h : <<a, e, f>> = <<b, g, h>> => a = b
        OBVIOUS
      <3>3. <<c, Len(BAt(c)[k].lines), Occurrence(BAt(c), k)>> = <<d, Len(BAt(d)[m].lines), Occurrence(BAt(d), m)>>
        BY <1>5, <3>1
      <3> QED
        BY <3>2, <3>3
    <2>6. m \in 1 .. Len(BAt(c)) /\ q = ParasOf(c, BAt(c))[m]
      BY <2>4, <2>5
    <2>7. k = m
      BY <1>4, <1>5, <2>2, <2>6
    <2> QED
      BY <2>2, <2>6, <2>7
  <1>6. \A c \in 1 .. Len(pss) : IsInjective(pss[c]) /\ DOMAIN pss[c] = 1 .. Len(BAt(c))
    <2> SUFFICES ASSUME NEW c \in 1 .. Len(chunks)
                 PROVE  IsInjective(pss[c]) /\ DOMAIN pss[c] = 1 .. Len(BAt(c))
      BY <1>3
    <2>1. DOMAIN pss[c] = 1 .. Len(BAt(c))
      <3>1. pss[c] \in Seq(Paras) /\ Len(pss[c]) = Len(BAt(c))
        BY <1>2, <1>4
      <3> QED
        BY <3>1
    <2>2. \A j, k \in 1 .. Len(BAt(c)) : pss[c][j] = pss[c][k] => j = k
      BY <1>2, <1>4
    <2> QED
      BY <2>1, <2>2 DEF IsInjective
  <1>7. \A c, d \in 1 .. Len(pss) : c # d => ToSet(pss[c]) \cap ToSet(pss[d]) = {}
    <2> SUFFICES ASSUME NEW c \in 1 .. Len(chunks), NEW d \in 1 .. Len(chunks), NEW x,
                        x \in ToSet(pss[c]), x \in ToSet(pss[d])
                 PROVE  c = d
      BY <1>3
    <2>1. PICK k \in 1 .. Len(BAt(c)) : x = pss[c][k]
      BY <1>3, <1>6 DEF ToSet
    <2>2. PICK m \in 1 .. Len(BAt(d)) : x = pss[d][m]
      BY <1>3, <1>6 DEF ToSet
    <2>3. /\ x.id = <<c, Len(BAt(c)[k].lines), Occurrence(BAt(c), k)>>
          /\ x.id = <<d, Len(BAt(d)[m].lines), Occurrence(BAt(d), m)>>
      BY <1>2, <1>4, <2>1, <2>2
    <2> QED
      BY <2>3
  <1>8. IsInjective(ps)
    BY <1>3, <1>6, <1>7, FlattenInjective
  <1>9. ASSUME NEW m \in DOMAIN ps, NEW n \in DOMAIN ps, ps[m].id = ps[n].id
        PROVE  m = n
    <2>1. ps[m] \in ToSet(ps) /\ ps[n] \in ToSet(ps)
      BY DEF ToSet
    <2>2. ps[m] = ps[n]
      BY <1>5, <1>9, <2>1
    <2> QED
      BY <1>8, <2>2 DEF IsInjective
  <1> QED
    BY <1>5, <1>9 DEF ps

\* The paragraphs are what the property says of them.
LEMMA ParagraphsHold ==
    ASSUME NEW chunks, NEW hs, Sectioned(chunks, hs)
    PROVE  ParagraphsOf(ParseChunkParagraphs(chunks), chunks)
  <1> DEFINE ps == ParseChunkParagraphs(chunks)
             BAt(c) == BlocksAt(chunks, c)
             texts == [n \in DOMAIN ps |-> ps[n].text]
             views == [n \in DOMAIN ps |-> ps[n].images]
             inChunks == UNION {ToSet(Solid(c.lines)) : c \in ToSet(chunks)}
             images == FlattenSeq(views)
  <1>1. ps \in Seq(Paras)
    BY ParaIs
  <1>2. texts = Through(TextIn, ps) /\ views = Through(ImagesIn, ps)
    BY <1>1, TakenFrom
  <1>3. inChunks = Content(chunks, hs)
    BY LinesInChunks
  <1>4. FlattenSeq(texts) = FlattenSeq(WordsBy(chunks)) /\ images = FlattenSeq(ViewsBy(chunks))
    BY <1>2, TakenAlong
  <1>5. FlattenSeq(texts) = Sorted({i \in inChunks : source[i] = "text"})
    BY <1>3, <1>4, TextInOrder
  <1>6. /\ IsInjective(images)
        /\ \A i : i \in ToSet(images) <=>
              \E c \in 1 .. Len(chunks) : BAt(c) # <<>> /\ i \in ContentAt(hs, c) /\ source[i] = "image"
    BY <1>4, ImagesTogether
  <1>7. \A m, n \in DOMAIN ps : ps[m].id = ps[n].id => m = n
    BY NamesApart
  <1>8. \A p \in ToSet(ps) : \A i \in ToSet(p.images) : Owner(p.text[1]) = Owner(i) /\ NextTo(ps, p, i)
    BY ImagesStand
  <1>9. \A c \in 1 .. Len(chunks) : \A i \in ContentAt(hs, c) : Owner(i) = hs[c]
    BY ContentIn DEF ContentAt, Sectioned
  <1>10. \A x : x \in inChunks <=> \E c \in 1 .. Len(chunks) : x \in ContentAt(hs, c)
    BY <1>3 DEF Content
  <1>11. \A p : p \in ToSet(ps) <=> \E c \in 1 .. Len(chunks) : \E k \in 1 .. Len(BAt(c)) : p = ParasOf(c, BAt(c))[k]
    BY ParaIs
  <1>12. \A c \in 1 .. Len(chunks) : /\ c \in Nat /\ BAt(c) \in Seq(Block)
                                     /\ \A k \in 1 .. Len(BAt(c)) : Owner(ParasOf(c, BAt(c))[k].text[1]) = hs[c]
    <2> SUFFICES ASSUME NEW c \in 1 .. Len(chunks)
                 PROVE  /\ c \in Nat /\ BAt(c) \in Seq(Block)
                        /\ \A k \in 1 .. Len(BAt(c)) : Owner(ParasOf(c, BAt(c))[k].text[1]) = hs[c]
      OBVIOUS
    <2>1. c \in Nat /\ BAt(c) \in Seq(Block)
      BY ParasTogether
    <2>2. ASSUME NEW k \in 1 .. Len(BAt(c))
          PROVE  Owner(ParasOf(c, BAt(c))[k].text[1]) = hs[c]
      <3>1. ParasOf(c, BAt(c))[k].text = BAt(c)[k].lines
        BY <2>1, ParasAre
      <3>2. TextFrom(BAt(c)[k].lines, hs, c)
        BY ParaText
      <3> HIDE DEF BAt
      <3>3. 1 \in 1 .. Len(BAt(c)[k].lines)
        BY <3>2 DEF TextFrom
      <3>4. Owner(BAt(c)[k].lines[1]) = hs[c]
        BY <3>2, <3>3 DEF TextFrom
      <3> QED
        BY <3>1, <3>4
    <2> QED
      BY <2>1, <2>2
  <1>13. \A c, d \in 1 .. Len(chunks) : hs[c] = hs[d] => c = d
    <2>1. /\ \A c \in 1 .. Len(chunks) : hs[c] \in 1 .. Length
          /\ Len(hs) = Len(chunks) /\ Increasing(hs) /\ Len(chunks) \in Nat
      BY SectionFacts DEF Sectioned, Names
    <2>2. \A c, d \in 1 .. Len(chunks) : c < d => hs[c] < hs[d]
      BY <2>1 DEF Increasing
    <2> QED
      BY <2>1, <2>2
  <1> HIDE DEF ps, BAt, inChunks, images, texts, views
  <1>14. ASSUME NEW i \in ToSet(images)
         PROVE  i \in inChunks /\ source[i] = "image" /\ \E p \in ToSet(ps) : Owner(p.text[1]) = Owner(i)
    <2>1. PICK c \in 1 .. Len(chunks) : BAt(c) # <<>> /\ i \in ContentAt(hs, c) /\ source[i] = "image"
      BY <1>6
    <2>2. 1 \in 1 .. Len(BAt(c))
      <3>1. \A X : \A s \in Seq(X) : s # <<>> => 1 \in 1 .. Len(s)
        OBVIOUS
      <3> QED
        BY <1>12, <2>1, <3>1
    <2> DEFINE p == ParasOf(c, BAt(c))[1]
    <2>3. p \in ToSet(ps) /\ Owner(p.text[1]) = hs[c]
      BY <1>11, <1>12, <2>2
    <2>4. Owner(i) = hs[c] /\ i \in inChunks
      BY <1>9, <1>10, <2>1
    <2> QED
      BY <2>1, <2>3, <2>4
  <1>15. ASSUME NEW i \in inChunks, source[i] = "image", NEW p \in ToSet(ps), Owner(p.text[1]) = Owner(i)
         PROVE  i \in ToSet(images)
    <2>1. PICK c \in 1 .. Len(chunks) : i \in ContentAt(hs, c)
      BY <1>10
    <2>2. PICK d \in 1 .. Len(chunks) : \E k \in 1 .. Len(BAt(d)) : p = ParasOf(d, BAt(d))[k]
      BY <1>11
    <2>3. PICK k \in 1 .. Len(BAt(d)) : p = ParasOf(d, BAt(d))[k]
      BY <2>2
    <2>4. c = d
      BY <1>9, <1>12, <1>13, <1>15, <2>1, <2>3
    <2>5. BAt(c) # <<>>
      <3>1. Len(<<>>) = 0
        OBVIOUS
      <3> QED
        BY <2>3, <2>4, <3>1
    <2> QED
      BY <1>6, <1>15, <2>1, <2>5
  <1>16. ToSet(images) = {i \in inChunks : source[i] = "image" /\ \E p \in ToSet(ps) : Owner(p.text[1]) = Owner(i)}
    BY <1>14, <1>15
  <1> QED
    BY <1>5, <1>6, <1>7, <1>8, <1>16 DEF ParagraphsOf, ps, texts, views, images, inChunks

-----------------------------------------------------------------------------
(* The requests.                                                           *)

\* The paragraphs of a section, found again.
LEMMA OfIs ==
    ASSUME NEW chunks, NEW hs, Sectioned(chunks, hs), NEW c \in 1 .. Len(chunks)
    PROVE  Of(ParseChunkParagraphs(chunks), c) = ParasBy(chunks)[c]
  <1> DEFINE ps == ParseChunkParagraphs(chunks)
             pss == ParasBy(chunks)
             n == Len(chunks)
             S == {p \in ToSet(ps) : p.chunk = c}
             taken == [k \in DOMAIN pss |-> Among(pss[k], S)]
  <1>1. /\ pss \in Seq(Seq(Paras)) /\ Len(pss) = n /\ ps = FlattenSeq(pss)
        /\ \A d \in 1 .. n : /\ pss[d] = ParasOf(d, BlocksAt(chunks, d))
                             /\ BlocksAt(chunks, d) \in Seq(Block) /\ d \in Nat
    BY ParasTogether
  <1>2. Of(ps, c) = Among(FlattenSeq(pss), S)
    BY <1>1 DEF Of
  <1>3. c \in 1 .. n
    OBVIOUS
  <1>4. \A x : x \in ToSet(ps) <=> \E i \in 1 .. Len(pss) : x \in ToSet(pss[i])
    BY <1>1, FlattenIs
  <1> HIDE DEF ps, pss, n
  <1>5. ASSUME NEW d \in 1 .. n, NEW k \in 1 .. Len(pss[d])
        PROVE  pss[d][k].chunk = d
    <2>1. Len(ParasOf(d, BlocksAt(chunks, d))) = Len(BlocksAt(chunks, d))
      BY <1>1, ParasAre
    <2>2. k \in 1 .. Len(BlocksAt(chunks, d))
      BY <1>1, <2>1
    <2>3. ParasOf(d, BlocksAt(chunks, d))[k].chunk = d
      BY <1>1, <2>2, ParasAre
    <2> QED
      BY <1>1, <2>3
  <1>6. DOMAIN pss = 1 .. n /\ \A d \in 1 .. n : pss[d] \in Seq(Paras) /\ DOMAIN pss[d] = 1 .. Len(pss[d])
    BY <1>1, ElementsOf
  <1>7. Among(pss[c], S) = pss[c]
    <2>1. ASSUME NEW k \in 1 .. Len(pss[c])
          PROVE  pss[c][k] \in S
      <3>1. pss[c][k] \in ToSet(pss[c])
        BY <1>3, <1>6 DEF ToSet
      <3> QED
        BY <1>1, <1>3, <1>4, <1>5, <3>1
    <2> HIDE DEF S
    <2> QED
      BY <1>3, <1>6, <2>1, AmongAll
  <1>8. ASSUME NEW d \in 1 .. n, d # c
        PROVE  Among(pss[d], S) = <<>>
    <2>1. \A k \in 1 .. Len(pss[d]) : pss[d][k] \notin S
      BY <1>5, <1>8
    <2> HIDE DEF S
    <2> QED
      BY <1>6, <2>1, AmongOthers
  <1> HIDE DEF S
  <1>9. taken \in Seq(Seq(Paras)) /\ Among(FlattenSeq(pss), S) = FlattenSeq(taken)
    BY <1>1, AmongFlattened
  <1>10. DOMAIN taken = 1 .. n /\ \A d \in 1 .. n : taken[d] = Among(pss[d], S)
    BY <1>6
  <1> HIDE DEF taken
  <1>11. Len(taken) = n
    <2>1. n \in Nat
      BY <1>1, ElementsOf
    <2>2. DOMAIN taken = 1 .. Len(taken) /\ Len(taken) \in Nat
      BY <1>9, ElementsOf
    <2> QED
      BY <1>10, <2>1, <2>2
  <1>12. FlattenSeq(taken) = taken[c]
    BY <1>3, <1>8, <1>9, <1>10, <1>11, FlattenOnly
  <1>13. Of(ps, c) = pss[c]
    BY <1>2, <1>3, <1>7, <1>9, <1>10, <1>12
  <1> QED
    BY <1>13 DEF ps, pss

\* What is asked of the paragraphs of a section.
Asked(ps) ==
    [k \in DOMAIN ps |-> [id |-> ps[k].id, previous |-> TextAt(ps, k - 1), target |-> ps[k].text,
                          next |-> TextAt(ps, k + 1)]]
Questions == [id : Nat \X Nat \X Nat, previous : Seq(1 .. Length), target : Seq(1 .. Length), next : Seq(1 .. Length)]
TargetIn == [r \in Questions |-> r.target]

\* The requests have every paragraph of every section once.
LEMMA AskedIs ==
    ASSUME NEW ps \in Seq(Paras)
    PROVE  Asked(ps) \in Seq(Questions) /\ Through(TargetIn, Asked(ps)) = Through(TextIn, ps)
  <1> DEFINE n == Len(ps)
             ask == Asked(ps)
  <1>1. n \in Nat /\ DOMAIN ps = 1 .. n /\ \A k \in 1 .. n : ps[k] \in Paras
    BY ElementsOf
  <1>2. \A k \in 1 .. n : ps[k].text \in Seq(1 .. Length) /\ ps[k].id \in Nat \X Nat \X Nat
    BY <1>1 DEF Paras
  <1>3. \A k \in Int : TextAt(ps, k) \in Seq(1 .. Length)
    <2>1. <<>> \in Seq(1 .. Length)
      BY FewOf
    <2> QED
      BY <1>1, <1>2, <2>1 DEF TextAt
  <1>4. \A X : \A m \in Nat : \A f \in [1 .. m -> X] : f \in Seq(X) /\ Len(f) = m
    OBVIOUS
  <1> HIDE DEF n
  <1>5. ask = [k \in 1 .. n |-> [id |-> ps[k].id, previous |-> TextAt(ps, k - 1), target |-> ps[k].text,
                                 next |-> TextAt(ps, k + 1)]]
    BY <1>1 DEF Asked
  <1> HIDE DEF ask
  <1>6. \A k \in 1 .. n : ask[k] \in Questions /\ ask[k].target = ps[k].text
    <2> SUFFICES ASSUME NEW k \in 1 .. n
                 PROVE  ask[k] \in Questions /\ ask[k].target = ps[k].text
      OBVIOUS
    <2>1. ask[k] = [id |-> ps[k].id, previous |-> TextAt(ps, k - 1), target |-> ps[k].text,
                    next |-> TextAt(ps, k + 1)]
      BY <1>5
    <2>2. k - 1 \in Int /\ k + 1 \in Int
      OBVIOUS
    <2>3. TextAt(ps, k - 1) \in Seq(1 .. Length) /\ TextAt(ps, k + 1) \in Seq(1 .. Length)
      BY <1>3, <2>2
    <2> QED
      BY <1>2, <2>1, <2>3 DEF Questions
  <1>7. ask \in [1 .. n -> Questions]
    BY <1>5, <1>6
  <1>8. ask \in Seq(Questions)
    BY <1>1, <1>4, <1>7
  <1>9. DOMAIN ask = 1 .. n
    BY <1>5
  <1>10. \A k \in 1 .. n : TargetIn[ask[k]] = ask[k].target /\ TextIn[ps[k]] = ps[k].text
    BY <1>1, <1>6 DEF TargetIn, TextIn
  <1>11. Through(TargetIn, ask) = Through(TextIn, ps)
    BY <1>1, <1>6, <1>9, <1>10 DEF Through
  <1> QED
    BY <1>8, <1>11 DEF ask

\* The lines of text under headings are those of the sections.
LEMMA AllText ==
    ASSUME NEW chunks, NEW hs, Sectioned(chunks, hs)
    PROVE  {i \in Content(chunks, hs) : source[i] = "text"} = {i \in DOMAIN source : source[i] = "text" /\ Owner(i) # 0}
  <1>1. DOMAIN source = 1 .. Length
    BY DEF Sectioned, Markdowns
  <1>2. /\ \A c \in 1 .. Len(chunks) : hs[c] \in 1 .. Length /\ ContentAt(hs, c) \in SUBSET (1 .. Length)
        /\ \A i \in 1 .. Length : Owner(i) # 0 /\ source[i] \in {"h3", "text", "image"} =>
                 \E c \in 1 .. Len(chunks) : i \in ContentAt(hs, c)
    BY SectionFacts
  <1>3. \A c \in 1 .. Len(chunks) : \A i \in ContentAt(hs, c) : Owner(i) = hs[c]
    BY ContentIn DEF ContentAt, Sectioned
  <1>4. ASSUME NEW i \in Content(chunks, hs), source[i] = "text"
        PROVE  i \in DOMAIN source /\ Owner(i) # 0
    <2>1. PICK c \in 1 .. Len(chunks) : i \in ContentAt(hs, c)
      BY DEF Content
    <2>2. Owner(i) = hs[c] /\ hs[c] # 0 /\ i \in 1 .. Length
      BY <1>2, <1>3, <2>1
    <2> QED
      BY <1>1, <2>2
  <1>5. ASSUME NEW i \in DOMAIN source, source[i] = "text", Owner(i) # 0
        PROVE  i \in Content(chunks, hs)
    <2>1. PICK c \in 1 .. Len(chunks) : i \in ContentAt(hs, c)
      BY <1>1, <1>2, <1>5
    <2> QED
      BY <2>1 DEF Content
  <1> QED
    BY <1>4, <1>5

\* What the property says of the requests.
RequestsOf(reqs) ==
    LET asked == FlattenSeq(reqs) IN
    FlattenSeq([n \in DOMAIN asked |-> asked[n].target]) = Sorted({i \in DOMAIN source : source[i] = "text" /\ Owner(i) # 0})

\* The requests are what the property says of them.
LEMMA RequestsHold ==
    ASSUME NEW chunks, NEW hs, Sectioned(chunks, hs)
    PROVE  RequestsOf(BuildRequests(chunks, ParseChunkParagraphs(chunks)))
  <1> DEFINE ps == ParseChunkParagraphs(chunks)
             pss == ParasBy(chunks)
             n == Len(chunks)
             reqs == BuildRequests(chunks, ps)
             asked == FlattenSeq(reqs)
             targets == [k \in DOMAIN asked |-> asked[k].target]
  <1>1. /\ pss \in Seq(Seq(Paras)) /\ Len(pss) = n
        /\ \A d \in 1 .. n : /\ pss[d] = ParasOf(d, BlocksAt(chunks, d))
                             /\ BlocksAt(chunks, d) \in Seq(Block) /\ d \in Nat
    BY ParasTogether
  <1>2. n \in Nat /\ DOMAIN chunks = 1 .. n
    BY SectionFacts
  <1>3. \A c \in 1 .. n : Of(ps, c) = pss[c]
    BY OfIs
  <1>4. reqs = [c \in DOMAIN chunks |-> Asked(Of(ps, c))]
    BY DEF BuildRequests, Asked
  <1>5. \A c \in 1 .. n : pss[c] \in Seq(Paras)
    BY <1>1, ElementsOf
  <1>6. \A X : \A m \in Nat : \A f \in [1 .. m -> X] : f \in Seq(X) /\ Len(f) = m
    OBVIOUS
  <1> HIDE DEF ps, pss, n, reqs
  <1>7. reqs = [c \in 1 .. n |-> Asked(pss[c])]
    BY <1>2, <1>3, <1>4
  <1>8. \A c \in 1 .. n : Asked(pss[c]) \in Seq(Questions) /\ Through(TargetIn, Asked(pss[c])) = Through(TextIn, pss[c])
    BY <1>5, AskedIs
  <1>9. reqs \in [1 .. n -> Seq(Questions)]
    BY <1>7, <1>8
  <1>10. reqs \in Seq(Seq(Questions)) /\ DOMAIN reqs = 1 .. n
    BY <1>2, <1>6, <1>7, <1>9
  <1>11. TargetIn \in [Questions -> Seq(1 .. Length)]
    BY DEF TargetIn, Questions
  <1>12. FlattenSeq(Through(TargetIn, FlattenSeq(reqs))) = FlattenSeq(Mapped(TargetIn, reqs))
    BY <1>10, <1>11, FlattenMapped
  <1>13. Mapped(TargetIn, reqs) = WordsBy(chunks)
    <2>1. \A c \in 1 .. n : FlattenSeq(Through(TargetIn, reqs[c])) = Words(BlocksAt(chunks, c))
      <3> SUFFICES ASSUME NEW c \in 1 .. n
                   PROVE  FlattenSeq(Through(TargetIn, reqs[c])) = Words(BlocksAt(chunks, c))
        OBVIOUS
      <3>1. Through(TargetIn, reqs[c]) = Through(TextIn, pss[c])
        BY <1>7, <1>8
      <3>2. FlattenSeq(Through(TextIn, ParasOf(c, BlocksAt(chunks, c)))) = Words(BlocksAt(chunks, c))
        BY <1>1, ParasThrough
      <3> QED
        BY <1>1, <3>1, <3>2
    <2> QED
      BY <1>2, <1>10, <2>1 DEF Mapped, WordsBy
  <1>14. targets = Through(TargetIn, asked)
    <2>1. asked \in Seq(Questions)
      BY <1>10, FlattenIs
    <2> HIDE DEF asked
    <2>2. \A k \in DOMAIN asked : asked[k] \in Questions
      BY <2>1, ElementsOf
    <2>3. \A k \in DOMAIN asked : TargetIn[asked[k]] = asked[k].target
      BY <2>2 DEF TargetIn
    <2> QED
      BY <2>3 DEF Through
  <1>15. FlattenSeq(targets) = FlattenSeq(WordsBy(chunks))
    BY <1>12, <1>13, <1>14
  <1>16. FlattenSeq(WordsBy(chunks)) = Sorted({i \in DOMAIN source : source[i] = "text" /\ Owner(i) # 0})
    BY TextInOrder, AllText
  <1> QED
    BY <1>15, <1>16 DEF RequestsOf, ps, reqs

\* What the property says of a refusal.
Textless == \E h \in DOMAIN source : /\ source[h] = "h2" /\ ContentOf(h) # {}
                                     /\ \A i \in ContentOf(h) : source[i] # "text"

\* Who is refused has a section without text.
LEMMA RefusalsHold ==
    ASSUME NEW chunks, NEW hs, Sectioned(chunks, hs), NEW ps, ps = ParseChunkParagraphs(chunks),
           \/ Cardinality({p.id : p \in ToSet(ps)}) < Len(ps)
           \/ \E c \in DOMAIN chunks : Of(ps, c) = <<>>
    PROVE  Textless
  <1> DEFINE ids == {p.id : p \in ToSet(ps)}
  <1>1. ps \in Seq(Paras) /\ Len(ps) \in Nat /\ DOMAIN ps = 1 .. Len(ps)
    BY ParaIs, ElementsOf
  <1>2. \A j, k \in DOMAIN ps : ps[j].id = ps[k].id => j = k
    BY NamesApart
  <1>3. Cardinality(ids) = Len(ps)
    <2> DEFINE f == [k \in 1 .. Len(ps) |-> ps[k].id]
    <2>1. f \in [1 .. Len(ps) -> ids] /\ \A y \in ids : \E j \in 1 .. Len(ps) : f[j] = y
      BY <1>1 DEF ToSet
    <2>2. \A j, k \in 1 .. Len(ps) : f[j] = f[k] => j = k
      BY <1>1, <1>2
    <2> HIDE DEF f, ids
    <2> QED
      BY <1>1, <2>1, <2>2, CountNames
  <1>4. DOMAIN chunks = 1 .. Len(chunks)
    BY SectionFacts
  <1>5. PICK c \in 1 .. Len(chunks) : Of(ps, c) = <<>>
    BY <1>1, <1>3, <1>4
  <1> DEFINE bs == BlocksAt(chunks, c)
  <1>6. ParasOf(c, bs) = <<>> /\ c \in Nat /\ bs \in Seq(Block)
    BY <1>5, OfIs, ParasTogether
  <1>7. Len(bs) = 0
    <2>1. Len(ParasOf(c, bs)) = Len(bs)
      BY <1>6, ParasAre
    <2>2. Len(<<>>) = 0
      OBVIOUS
    <2> QED
      BY <1>6, <2>1, <2>2
  <1>8. Words(bs) = <<>>
    <2>1. bs = <<>>
      BY <1>6, <1>7
    <2> QED
      BY <2>1, WordsNone
  <1>9. ToSet(Words(bs)) = ContentAt(hs, c) \cap Texts
    BY SectionBlocks
  <1>10. ToSet(<<>>) = {}
    BY DEF ToSet
  <1>11. ContentAt(hs, c) \cap Texts = {}
    BY <1>8, <1>9, <1>10
  <1>12. hs[c] \in 1 .. Length /\ source[hs[c]] = "h2" /\ ContentAt(hs, c) # {} /\ ContentAt(hs, c) \in SUBSET (1 .. Length)
    BY SectionFacts
  <1>13. \A i \in ContentOf(hs[c]) : source[i] # "text"
    BY <1>11, <1>12 DEF Texts, ContentAt
  <1>14. DOMAIN source = 1 .. Length
    BY DEF Sectioned, Markdowns
  <1> QED
    BY <1>12, <1>13, <1>14 DEF Textless, ContentAt

-----------------------------------------------------------------------------
(* The stages of a document.                                               *)

\* What is said of the source stays with it ...
LEMMA SourceStays ==
    ASSUME source' = source
    PROVE  /\ \A i : Owner(i)' = Owner(i) /\ PageOf(i)' = PageOf(i)
           /\ \A h : ContentOf(h)' = ContentOf(h)
           /\ HeadsOf(Length)' = HeadsOf(Length)
  <1>1. \A i : Owner(i)' = Owner(i)
    BY DEF Owner
  <1>2. \A i : PageOf(i)' = PageOf(i)
    BY DEF PageOf
  <1>3. \A h : ContentOf(h)' = ContentOf(h)
    BY <1>1 DEF ContentOf
  <1>4. HeadsOf(Length)' = HeadsOf(Length)
    BY <1>3 DEF HeadsOf
  <1> QED
    BY <1>1, <1>2, <1>3, <1>4

\* ... so do the sections ...
LEMMA SectionedStays ==
    ASSUME source' = source, NEW chunks, NEW hs
    PROVE  Sectioned(chunks, hs)' <=> Sectioned(chunks, hs)
  <1>1. \A c, h : SectionIs(c, h)' <=> SectionIs(c, h)
    BY SourceStays DEF SectionIs
  <1>2. Names(chunks, hs, HeadsOf(Length))' <=> Names(chunks, hs, HeadsOf(Length))
    BY <1>1, SourceStays DEF Names
  <1> QED
    BY <1>2 DEF Sectioned

\* Why a document is refused.
Refusing(chunks, ps) ==
    \/ Cardinality({p.id : p \in ToSet(ps)}) < Len(ps)
    \/ \E c \in DOMAIN chunks : Of(ps, c) = <<>>

\* The sections are counted ...
Counted(chunks) ==
    Len(chunks) \in Nat /\ DOMAIN chunks = 1 .. Len(chunks) /\ Len(chunks) = Len(Sorted(Owners))

\* ... and each asks for paragraphs of its own.
Asks(chunks, reqs) ==
    \A c \in DOMAIN chunks :
        LET names == {r.id : r \in ToSet(reqs[c])}
        IN names # {} /\ \A name \in names : name[1] = c

\* What the property says of the records.
RecordsOf(rows) ==
    /\ Len(rows) = Len(Sorted(Owners))
    /\ \A c \in DOMAIN rows : rows[c].chunk = c /\ \A name \in rows[c].tagged : name[1] = c
    /\ \/ \A c \in DOMAIN rows : rows[c].tagged = {}
       \/ \A c \in DOMAIN rows : rows[c].tagged # {}

\* Who is not refused asks for every section.
LEMMA AsksHold ==
    ASSUME NEW chunks, NEW hs, Sectioned(chunks, hs), NEW ps, ps = ParseChunkParagraphs(chunks),
           ~Refusing(chunks, ps)
    PROVE  Asks(chunks, BuildRequests(chunks, ps))
  <1>1. DOMAIN chunks = 1 .. Len(chunks) /\ Len(chunks) \in Nat
    BY SectionFacts
  <1> SUFFICES ASSUME NEW c \in 1 .. Len(chunks)
               PROVE  LET names == {r.id : r \in ToSet(BuildRequests(chunks, ps)[c])}
                      IN names # {} /\ \A name \in names : name[1] = c
    BY <1>1 DEF Asks
  <1>2. PICK bs : bs = BlocksAt(chunks, c) /\ bs \in Seq(Block)
    BY ParasTogether
  <1>3. PICK own : own = Of(ps, c)
    OBVIOUS
  <1>4. own = ParasOf(c, bs) /\ own # <<>> /\ c \in Nat
    BY <1>1, <1>2, <1>3, OfIs, ParasTogether DEF Refusing
  <1>5. /\ own \in Seq(Paras) /\ DOMAIN own = 1 .. Len(own) /\ 1 \in DOMAIN own
        /\ \A k \in DOMAIN own : own[k].id[1] = c
    <2>1. own \in Seq(Paras) /\ Len(own) = Len(bs) /\ Len(own) \in Nat /\ DOMAIN own = 1 .. Len(own)
      BY <1>2, <1>4, ParasAre, ElementsOf
    <2>2. \A k \in DOMAIN own : own[k].id = <<c, Len(bs[k].lines), Occurrence(bs, k)>>
      BY <1>2, <1>4, <2>1, ParasAre
    <2>3. \A X : \A s \in Seq(X) : s # <<>> => 1 \in DOMAIN s
      OBVIOUS
    <2> QED
      BY <1>4, <2>1, <2>2, <2>3
  <1>6. BuildRequests(chunks, ps)[c] = Asked(own)
    BY <1>1, <1>3 DEF BuildRequests, Asked
  <1>7. DOMAIN Asked(own) = DOMAIN own /\ \A k \in DOMAIN own : Asked(own)[k].id = own[k].id
    BY DEF Asked
  <1>8. ToSet(Asked(own)) = {Asked(own)[k] : k \in DOMAIN own}
    BY <1>7 DEF ToSet
  <1> QED
    BY <1>5, <1>6, <1>7, <1>8

\* A record for each section, once all have asked.
LEMMA RecordsHold ==
    ASSUME NEW chunks, NEW reqs, Counted(chunks), Asks(chunks, reqs)
    PROVE  RecordsOf([c \in DOMAIN chunks |-> [chunk |-> c, tagged |-> {r.id : r \in ToSet(reqs[c])}]])
  <1> DEFINE rows == [c \in DOMAIN chunks |-> [chunk |-> c, tagged |-> {r.id : r \in ToSet(reqs[c])}]]
  <1>1. DOMAIN rows = 1 .. Len(chunks) /\ Len(rows) = Len(chunks)
    BY DEF Counted
  <1>2. \A c \in DOMAIN rows : rows[c].chunk = c /\ rows[c].tagged = {r.id : r \in ToSet(reqs[c])}
    BY DEF Counted
  <1>3. \A c \in DOMAIN rows : rows[c].tagged # {} /\ \A name \in rows[c].tagged : name[1] = c
    BY <1>1, <1>2 DEF Asks, Counted
  <1> HIDE DEF rows
  <1>4. RecordsOf(rows)
    BY <1>1, <1>2, <1>3 DEF RecordsOf, Counted
  <1> QED
    BY <1>4 DEF rows

\* A record for each section that is indexed as it is.
LEMMA PlainRecordsHold ==
    ASSUME NEW chunks, Counted(chunks)
    PROVE  RecordsOf([c \in DOMAIN chunks |-> [chunk |-> c, tagged |-> {}]])
  BY DEF RecordsOf, Counted

\* ... and what is said of each stage.
LEMMA ClaimsStay ==
    ASSUME source' = source
    PROVE  /\ Textless' <=> Textless
           /\ \A chunks : SectionsOf(chunks)' <=> SectionsOf(chunks)
           /\ \A chunks, ps : ParagraphsOf(ps, chunks)' <=> ParagraphsOf(ps, chunks)
           /\ \A reqs : RequestsOf(reqs)' <=> RequestsOf(reqs)
           /\ \A chunks : Counted(chunks)' <=> Counted(chunks)
           /\ \A rows : RecordsOf(rows)' <=> RecordsOf(rows)
  <1>1. Textless' <=> Textless
    BY SourceStays DEF Textless
  <1>2. ASSUME NEW chunks
        PROVE  SectionsOf(chunks)' <=> SectionsOf(chunks)
    <2>1. Owners' = Owners
      BY SourceStays DEF Owners
    <2> QED
      BY <2>1, SourceStays DEF SectionsOf
  <1>3. ASSUME NEW chunks, NEW ps
        PROVE  ParagraphsOf(ps, chunks)' <=> ParagraphsOf(ps, chunks)
    <2>1. \A p, i : NextTo(ps, p, i)' <=> NextTo(ps, p, i)
      BY DEF NextTo
    <2> QED
      BY <2>1, SourceStays DEF ParagraphsOf
  <1>4. ASSUME NEW reqs
        PROVE  RequestsOf(reqs)' <=> RequestsOf(reqs)
    BY SourceStays DEF RequestsOf
  <1>5. Owners' = Owners
    BY SourceStays DEF Owners
  <1>6. \A chunks : Counted(chunks)' <=> Counted(chunks)
    BY <1>5 DEF Counted
  <1>7. \A rows : RecordsOf(rows)' <=> RecordsOf(rows)
    BY <1>5 DEF RecordsOf
  <1> QED
    BY <1>1, <1>2, <1>3, <1>4, <1>6, <1>7

\* What each stage has made of the source.
Prepared ==
    /\ step = "read" => source \in Markdowns
    /\ step = "chunked" => \E chunks : product = chunks /\ SectionsOf(chunks) /\ \E hs : Sectioned(chunks, hs)
    /\ step = "parsed" => \E chunks, ps :
          /\ product = [chunks |-> chunks, paragraphs |-> ps]
          /\ ParagraphsOf(ps, chunks)
          /\ Refusing(chunks, ps) => Textless
          /\ RequestsOf(BuildRequests(chunks, ps))
          /\ Counted(chunks)
          /\ Refusing(chunks, ps) \/ Asks(chunks, BuildRequests(chunks, ps))
    /\ step = "refused" => Textless
    /\ step = "requested" => \E chunks, reqs :
          /\ product = [chunks |-> chunks, requests |-> reqs]
          /\ RequestsOf(reqs) /\ Counted(chunks) /\ Asks(chunks, reqs)
    /\ step = "indexed" => RecordsOf(product)

\* Prepared is inductive: it holds at first ...
LEMMA PreparedFirst == PreparationInit => Prepared
  BY DEF PreparationInit, Prepared

\* ... and after every step ...
LEMMA PreparedNext == Prepared /\ [PreparationNext]_preparationVars => Prepared'
  <1> SUFFICES ASSUME Prepared, [PreparationNext]_preparationVars
               PROVE  Prepared'
    OBVIOUS
  <1>0. source' = source
    BY DEF PreparationNext, Chunk, Parse, Requested, Index, SplitRow, Move, preparationVars
  <1>1. CASE UNCHANGED preparationVars
    <2>1. UNCHANGED <<step, source, product>>
      BY <1>1 DEF preparationVars
    <2>2. \A chunks, hs : Sectioned(chunks, hs)' <=> Sectioned(chunks, hs)
      BY <2>1, SectionedStays
    <2> QED
      BY <2>1, <2>2, ClaimsStay DEF Prepared
  <1>2. CASE Chunk
    <2>1. step = "read" /\ step' = "chunked" /\ product' = BuildSourceChunks
      BY <1>2 DEF Chunk, Move
    <2>2. source \in Markdowns
      BY <2>1 DEF Prepared
    <2>3. BuildSourceChunks \in Seq(Section) /\ \E hs : Names(BuildSourceChunks, hs, HeadsOf(Length))
      BY <2>2, ChunksAre
    <2>4. PICK chunks : chunks = BuildSourceChunks
      OBVIOUS
    <2>5. PICK hs : Names(chunks, hs, HeadsOf(Length))
      BY <2>3, <2>4
    <2>6. Sectioned(chunks, hs) /\ SectionsOf(chunks)
      BY <2>2, <2>3, <2>4, <2>5, SectionsHold DEF Sectioned
    <2>7. Sectioned(chunks, hs)' /\ SectionsOf(chunks)'
      BY <1>0, <2>6, SectionedStays, ClaimsStay
    <2>8. product' = chunks
      BY <2>1, <2>4
    <2> QED
      BY <2>1, <2>7, <2>8 DEF Prepared
  <1>3. CASE Parse
    <2>1. step = "chunked" /\ step' \in {"parsed", "indexed"}
      BY <1>3 DEF Parse, Move
    <2>2. PICK chunks : product = chunks /\ SectionsOf(chunks) /\ \E hs : Sectioned(chunks, hs)
      BY <2>1 DEF Prepared
    <2>3. PICK hs : Sectioned(chunks, hs)
      BY <2>2
    <2>4. PICK ps : ps = ParseChunkParagraphs(chunks)
      OBVIOUS
    <2>5. /\ ParagraphsOf(ps, chunks) /\ RequestsOf(BuildRequests(chunks, ps))
          /\ Refusing(chunks, ps) => Textless
      BY <2>3, <2>4, ParagraphsHold, RequestsHold, RefusalsHold DEF Refusing
    <2>6. /\ ParagraphsOf(ps, chunks)' /\ RequestsOf(BuildRequests(chunks, ps))'
          /\ Refusing(chunks, ps) => Textless'
      <3>1. PICK reqs : reqs = BuildRequests(chunks, ps)
        OBVIOUS
      <3>2. RequestsOf(reqs)'
        BY <1>0, <2>5, <3>1, ClaimsStay
      <3> QED
        BY <1>0, <2>5, <3>1, <3>2, ClaimsStay
    <2>7. step' = "parsed" => product' = [chunks |-> chunks, paragraphs |-> ps]
      BY <1>3, <2>2, <2>4 DEF Parse, Move
    <2>8. Counted(chunks)
      BY <2>2, <2>3, SectionFacts DEF SectionsOf, Counted
    <2>9. Counted(chunks)' /\ (Refusing(chunks, ps) \/ Asks(chunks, BuildRequests(chunks, ps)))
      BY <1>0, <2>3, <2>4, <2>8, AsksHold, ClaimsStay
    <2>10. step' = "indexed" => RecordsOf(product)'
      <3>1. PICK rows : rows = [c \in DOMAIN chunks |-> [chunk |-> c, tagged |-> {}]]
        OBVIOUS
      <3>2. RecordsOf(rows)'
        BY <1>0, <2>8, <3>1, PlainRecordsHold, ClaimsStay
      <3>3. step' = "indexed" => product' = rows
        BY <1>3, <2>2, <3>1 DEF Parse, Move
      <3> QED
        BY <3>2, <3>3
    <2> QED
      BY <2>1, <2>6, <2>7, <2>9, <2>10 DEF Prepared
  <1>4. CASE Requested
    <2>1. step = "parsed" /\ step' \in {"refused", "requested"}
      BY <1>4 DEF Requested, Move
    <2>2. PICK chunks, ps :
             /\ product = [chunks |-> chunks, paragraphs |-> ps]
             /\ Refusing(chunks, ps) => Textless
             /\ RequestsOf(BuildRequests(chunks, ps)) /\ Counted(chunks)
             /\ Refusing(chunks, ps) \/ Asks(chunks, BuildRequests(chunks, ps))
      BY <2>1 DEF Prepared
    <2>3. product.chunks = chunks /\ product.paragraphs = ps
      BY <2>2
    <2>4. step' = "refused" <=> Refusing(chunks, ps)
      BY <1>4, <2>3 DEF Requested, Move, Refusing
    <2>5. step' = "refused" => Textless'
      BY <1>0, <2>2, <2>4, ClaimsStay
    <2>6. PICK reqs : reqs = BuildRequests(chunks, ps)
      OBVIOUS
    <2>7. step' = "requested" => product' = [chunks |-> chunks, requests |-> reqs]
      BY <1>4, <2>3, <2>6 DEF Requested, Move
    <2>8. RequestsOf(reqs)' /\ Counted(chunks)'
      BY <1>0, <2>2, <2>6, ClaimsStay
    <2>9. step' = "requested" => Asks(chunks, reqs)
      BY <2>2, <2>4, <2>6
    <2> QED
      BY <2>1, <2>5, <2>7, <2>8, <2>9 DEF Prepared
  <1>5. CASE Index
    <2>1. step = "requested" /\ step' = "indexed"
      BY <1>5 DEF Index, Move
    <2>2. PICK chunks, reqs :
             product = [chunks |-> chunks, requests |-> reqs] /\ Counted(chunks) /\ Asks(chunks, reqs)
      BY <2>1 DEF Prepared
    <2>3. PICK rows : rows = [c \in DOMAIN chunks |-> [chunk |-> c, tagged |-> {r.id : r \in ToSet(reqs[c])}]]
      OBVIOUS
    <2>4. product' = rows
      BY <1>5, <2>2, <2>3 DEF Index, Move
    <2>5. RecordsOf(rows)'
      BY <1>0, <2>2, <2>3, RecordsHold, ClaimsStay
    <2> QED
      BY <2>1, <2>4, <2>5 DEF Prepared
  <1>6. CASE SplitRow
    BY <1>6 DEF SplitRow, Move, Prepared
  <1> QED
    BY <1>1, <1>2, <1>3, <1>4, <1>5, <1>6 DEF PreparationNext

\* ... and it is what the properties ask.
LEMMA PreparedMeans ==
    Prepared => SectionsComplete /\ ParagraphsComplete /\ RequestsComplete /\ RecordsComplete
  <1> SUFFICES ASSUME Prepared
               PROVE  SectionsComplete /\ ParagraphsComplete /\ RequestsComplete /\ RecordsComplete
    OBVIOUS
  <1>1. SectionsComplete
    BY DEF Prepared, SectionsComplete, SectionsOf, Owners
  <1>2. ParagraphsComplete
    <2> SUFFICES ASSUME step = "parsed"
                 PROVE  ParagraphsOf(product.paragraphs, product.chunks)
      BY DEF ParagraphsComplete, ParagraphsOf
    <2>1. PICK chunks, ps : product = [chunks |-> chunks, paragraphs |-> ps] /\ ParagraphsOf(ps, chunks)
      BY DEF Prepared
    <2> QED
      BY <2>1
  <1>3. step = "refused" => Textless
    BY DEF Prepared
  <1>4. step = "requested" => RequestsOf(product.requests)
    BY DEF Prepared
  <1>5. RequestsComplete
    BY <1>3, <1>4 DEF RequestsComplete, Textless, RequestsOf
  <1>6. RecordsComplete
    BY DEF Prepared, RecordsComplete, RecordsOf, Owners
  <1> QED
    BY <1>1, <1>2, <1>5, <1>6

\* Whatever the lines of a document and the blocks of a row, and whatever the limits: its
\* sections have all its content in order and within their pages, its paragraphs have each
\* line of text once and in order and each image beside it, it is refused for a section
\* without text only, every paragraph is asked for, every section has its record, and the parts of a
\* row have its content.
THEOREM PreparationIsExact == PreparationSpec => []PreparationExact
  <1>1. PreparationSpec => []Prepared
    BY PreparedFirst, PreparedNext, PTL DEF PreparationSpec
  <1> QED
    BY <1>1, PreparedMeans, PartsHold, PTL DEF PreparationExact

-----------------------------------------------------------------------------
(***************************************************************************)
(* The texts, together (MCDocuments)                                       *)
(***************************************************************************)

\* What the stages of a document, the tagging of its chunks and the catalog rest on.
TextsInv == Prepared /\ RowIs /\ PartsFit /\ TaggingInv /\ ConceptsInv

\* It holds at first.
LEMMA TextsFirst == SuiteInit => TextsInv
  <1> SUFFICES ASSUME SuiteInit
               PROVE  TextsInv
    OBVIOUS
  <1>1. TaggingInv /\ ConceptsInv
    BY TaggingInvInit, ConceptsInvInit DEF SuiteInit
  <1>2. CASE part = "preparation"
    <2>1. PreparationInit
      BY <1>2 DEF SuiteInit
    <2> QED
      BY <1>1, <2>1, PreparedFirst, PartsFirst DEF TextsInv
  <1>3. CASE part # "preparation"
    <2>1. step = "read" /\ source = [i \in 1 .. Length |-> "text"]
      BY <1>3 DEF SuiteInit
    <2>2. [i \in 1 .. Length |-> "text"] \in Markdowns
      BY DEF Markdowns, LineKinds
    <2>3. source \in Markdowns
      BY <2>1, <2>2
    <2>4. Prepared
      BY <2>1, <2>3 DEF Prepared
    <2>5. RowIs /\ PartsFit
      BY <2>1 DEF RowIs, PartsFit
    <2> QED
      BY <1>1, <2>4, <2>5 DEF TextsInv
  <1> QED
    BY <1>2, <1>3

\* Of the three, a step is a step of one, and leaves the others as they are.
LEMMA TextsApart ==
    [SuiteNext]_suiteVars => /\ [PreparationNext]_preparationVars
                             /\ [TaggingNext]_taggingVars
                             /\ [ConceptsNext]_conceptVars
  <1> SUFFICES ASSUME [SuiteNext]_suiteVars
               PROVE  /\ [PreparationNext]_preparationVars
                      /\ [TaggingNext]_taggingVars
                      /\ [ConceptsNext]_conceptVars
    OBVIOUS
  <1>1. CASE PreparationStep
    BY <1>1 DEF PreparationStep
  <1>2. CASE TaggingStep
    BY <1>2 DEF TaggingStep
  <1>3. CASE ConceptsStep
    BY <1>3 DEF ConceptsStep
  <1>4. CASE LayoutStep \/ PutsStep \/ OutputsStep \/ TagsStep
    BY <1>4 DEF LayoutStep, PutsStep, OutputsStep, TagsStep
  <1>5. CASE IndexingStep \/ CallsStep \/ HealthStep \/ ProcessStep
    BY <1>5 DEF IndexingStep, CallsStep, HealthStep, ProcessStep
  <1>6. CASE UNCHANGED suiteVars
    BY <1>6 DEF suiteVars
  <1> QED
    BY <1>1, <1>2, <1>3, <1>4, <1>5, <1>6 DEF SuiteNext

\* Whatever a document, a row, a model's answer and the counts of a catalog are: what is
\* told apart, tagged and counted is what the document says.
THEOREM TextsAreSound == SuiteSpec => []TextsSound
  <1>1. TextsInv /\ [SuiteNext]_suiteVars => TextsInv'
    BY TextsApart, PreparedNext, PartsNext, TaggingInvStep, ConceptsInvStep DEF TextsInv
  <1>2. TextsInv => TextsSound
    BY PreparedMeans, TaggingHolds, ConceptsHold DEF TextsInv, TextsSound, PreparationExact
  <1> QED
    BY <1>1, <1>2, TextsFirst, PTL DEF SuiteSpec
================================================================================
