----------------------------- MODULE ReplayLog -----------------------------
(***************************************************************************)
(* What an event stream promises its readers, with no queues, tasks or     *)
(* connections in sight: a log that only grows and only while it is open,  *)
(* which a last event closes, and readers that are handed events of it in  *)
(* the log's order and none twice, until they leave.                       *)
(***************************************************************************)
EXTENDS Naturals, Sequences

CONSTANTS
    Readers,
    Events,        \* what may be logged
    Final          \* the events that close the log

VARIABLES
    log,
    open,          \* whether the log takes events
    read           \* the position each reader has got to

vars == <<log, open, read>>

Init ==
    /\ log = <<>>
    /\ open = TRUE
    /\ read = [r \in Readers |-> 0]

\* A reader may close the log as it leaves.
Write(e) ==
    /\ open
    /\ log' = Append(log, e)
    /\ open' = (e \notin Final)
    /\ \/ UNCHANGED read
       \/ e \in Final /\ \E r \in Readers : read' = [read EXCEPT ![r] = 0]

\* Whoever reopens the log goes on reading at its end.
Reopen ==
    /\ ~open
    /\ open' = TRUE
    /\ UNCHANGED log
    /\ \E r \in Readers : read[r] = 0 /\ read' = [read EXCEPT ![r] = Len(log)]

Read(r, n) ==
    /\ read[r] < n /\ n <= Len(log)
    /\ read' = [read EXCEPT ![r] = n]
    /\ UNCHANGED <<log, open>>

Leave(r) ==
    /\ read' = [read EXCEPT ![r] = 0]
    /\ UNCHANGED <<log, open>>

Next ==
    \/ \E e \in Events : Write(e)
    \/ Reopen
    \/ \E r \in Readers, n \in 0 .. Len(log) : Read(r, n) \/ Leave(r)

Spec == Init /\ [][Next]_vars
=============================================================================
