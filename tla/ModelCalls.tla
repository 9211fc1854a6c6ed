------------------------------- MODULE ModelCalls -------------------------------
(***************************************************************************)
(* The clients of the model services, when several tasks share them:       *)
(* LiteLLMModelClient (platform/model_client.py), which retries only what  *)
(* has an idempotency key and has a circuit breaker, DirectApiModelClient  *)
(* (platform/direct_model_client.py), which retries everything and knows   *)
(* what a response cost, the metrics both report to                        *)
(* (platform/observability.py), and the cached health of the remote        *)
(* service (platform/remote_gpu.py). Between two awaits a request is one   *)
(* step. The clock advances in units; a delay before a retry takes any     *)
(* time. A task can be cancelled wherever it waits.                        *)
(***************************************************************************)
EXTENDS Naturals, FiniteSets, Sequences

CONSTANTS Requests,    \* the requests made of the client
          MaxAttempts, \* max_attempts
          Threshold,   \* circuit_breaker_failure_threshold, 0 to switch it off
          Cooldown,    \* circuit_breaker_cooldown_seconds
          Probers,     \* the requests for the health of the service
          Ttl,         \* ttl_seconds of the cached health
          MaxTime      \* bound on the clock

\* The clients refuse negative settings (platform/model_client.py, platform/remote_gpu.py);
\* times are counted in units.
ASSUME ClientsAssumption == {MaxAttempts, Threshold, Cooldown, Ttl, MaxTime} \subseteq Nat

VARIABLES client,   \* "gateway" or "direct"
          requests, \* phase, idempotency key and attempt of each request
          circuit,  \* _consecutive_failures and _circuit_opened_at, 0 when closed
          outcomes, \* what _record_success and _record_retryable_failure were told
          gauges,   \* _in_flight and _max_concurrency
          reports,   \* the events sent about each request
          counted,   \* what those events say was used
          used,     \* the requests whose response reached the client with its usage
          now       \* the clock of the process

callVars == <<client, requests, circuit, outcomes, gauges, reports, counted, used, now>>

VARIABLES probers,  \* phase of each call of health, when it began to probe, and what it found
          services, \* whether DeepSeek and OpenAI answer
          cached    \* _cached: when it was found, and what

healthVars == <<probers, services, cached>>

Waiting == {r \in Requests : requests[r].phase \in {"posting", "delayed"}}

CallsInit ==
    /\ client \in {"gateway", "direct"}
    /\ requests = [r \in Requests |-> [phase |-> "new", keyed |-> FALSE, attempt |-> 0]]
    /\ circuit = [failures |-> 0, openedAt |-> 0] /\ outcomes = <<>>
    /\ gauges = [inFlight |-> 0, highest |-> 0]
    /\ reports = [r \in Requests |-> <<>>] /\ counted = 0 /\ used = {} /\ now = 1

-----------------------------------------------------------------------------
(***************************************************************************)
(* Metrics and the circuit                                                 *)
(***************************************************************************)
\* request_started and, in a finally, request_finished.
Started(g) ==
    [inFlight |-> g.inFlight + 1, highest |-> IF g.inFlight < g.highest THEN g.highest ELSE g.inFlight + 1]
Finished(g) == [g EXCEPT !.inFlight = @ - 1]

Observe(r, name, attempt, usage) ==
    /\ reports' = [reports EXCEPT ![r] = Append(@, [name |-> name, attempt |-> attempt])]
    /\ counted' = counted + usage

Closed == [failures |-> 0, openedAt |-> 0]
IsOpen == circuit.openedAt # 0 /\ now - circuit.openedAt < Cooldown

\* Fault: the success of a request leaves the failures of the others counted.
SucceededAlone(c) == [c EXCEPT !.openedAt = 0]

Succeeded(c) == Closed

RetryableFailure(c) ==
    IF Threshold = 0 THEN c
    ELSE [failures |-> c.failures + 1, openedAt |-> IF c.failures + 1 >= Threshold THEN now ELSE c.openedAt]

Record(outcome) ==
    IF client = "gateway"
    THEN /\ circuit' = IF outcome = "success" THEN Succeeded(circuit) ELSE RetryableFailure(circuit)
         /\ outcomes' = Append(outcomes, outcome)
    ELSE UNCHANGED <<circuit, outcomes>>

Attempts(r) == IF client = "gateway" /\ ~requests[r].keyed THEN 1 ELSE MaxAttempts

EndsAs(r, phase) ==
    /\ requests' = [requests EXCEPT ![r].phase = phase]
    /\ gauges' = Finished(gauges)

\* What invoke knows of the attempts when the posting itself has raised.
UnknownAttempt == 1

-----------------------------------------------------------------------------
(***************************************************************************)
(* A request                                                               *)
(***************************************************************************)
\* invoke until the first await; _ensure_circuit_closed forgets a circuit that has cooled.
Invoke(r, keyed) ==
    /\ requests[r].phase = "new"
    /\ IF client = "gateway" /\ IsOpen
       THEN /\ requests' = [requests EXCEPT ![r] = [@ EXCEPT !.phase = "refused", !.keyed = keyed]]
            /\ gauges' = Finished(Started(gauges))
            /\ Observe(r, "failed", UnknownAttempt, 0)
            /\ UNCHANGED circuit
       ELSE /\ requests' = [requests EXCEPT ![r] = [phase |-> "posting", keyed |-> keyed, attempt |-> 1]]
            /\ gauges' = Started(gauges)
            /\ circuit' = IF client = "gateway" /\ circuit.openedAt # 0 THEN Closed ELSE circuit
            /\ UNCHANGED <<reports, counted>>
    /\ UNCHANGED <<client, outcomes, used, now>>

\* A status that cannot be retried, and what no client can read.
Rejected(r) ==
    /\ requests[r].phase = "posting"
    /\ EndsAs(r, "failed")
    /\ Observe(r, "failed", UnknownAttempt, 0)
    /\ UNCHANGED <<client, circuit, outcomes, used, now>>

\* A status that can be retried, or no answer before the time-out.
PostFailed(r) ==
    /\ requests[r].phase = "posting"
    /\ Record("failure")
    /\ IF requests[r].attempt = Attempts(r)
       THEN EndsAs(r, "failed") /\ Observe(r, "failed", UnknownAttempt, 0)
       ELSE /\ requests' = [requests EXCEPT ![r].phase = "delayed"]
            /\ UNCHANGED <<gauges, reports, counted>>
    /\ UNCHANGED <<client, used, now>>

\* The circuit is not asked again.
PostAgain(r) ==
    /\ requests[r].phase = "delayed"
    /\ requests' = [requests EXCEPT ![r].phase = "posting", ![r].attempt = @ + 1]
    /\ UNCHANGED <<client, circuit, outcomes, gauges, reports, counted, used, now>>

\* Only the direct client reads the usage, before it validates the response.
UsageOf(valid) == IF client = "direct" THEN 1 ELSE 0

Responded(r, valid) ==
    /\ requests[r].phase = "posting"
    /\ Record("success")
    /\ EndsAs(r, IF valid THEN "completed" ELSE "failed")
    /\ Observe(r, IF valid THEN "completed" ELSE "failed", requests[r].attempt, UsageOf(valid))
    /\ used' = IF client = "direct" THEN used \cup {r} ELSE used
    /\ UNCHANGED <<client, now>>

\* CancelledError passes the handlers of Exception; the finally runs.
CancelRequest(r) ==
    /\ r \in Waiting
    /\ EndsAs(r, "cancelled")
    /\ UNCHANGED <<client, circuit, outcomes, reports, counted, used, now>>

Tick == now < MaxTime /\ now' = now + 1
        /\ UNCHANGED <<client, requests, circuit, outcomes, gauges, reports, counted, used>>

Request ==
    \E r \in Requests :
        \/ \E keyed \in BOOLEAN : Invoke(r, keyed)
        \/ Rejected(r) \/ PostFailed(r) \/ PostAgain(r) \/ CancelRequest(r)
        \/ \E valid \in BOOLEAN : Responded(r, valid)

CallsNext == Request \/ Tick

-----------------------------------------------------------------------------
(***************************************************************************)
(* The health of the service                                               *)
(***************************************************************************)
Providers == {"deepseek", "openai"}
NoHealth == [at |-> 0, status |-> "none"]

HealthInit ==
    /\ probers = [p \in Probers |-> [phase |-> "new", since |-> 0, found |-> <<>>, answer |-> "none"]]
    /\ services = [s \in Providers |-> TRUE] /\ cached = NoHealth

IsFresh == cached.at # 0 /\ now - cached.at < Ttl

HealthAnswer(p, status) == probers' = [probers EXCEPT ![p].phase = "answered", ![p].answer = status]

AskHealth(p) ==
    /\ probers[p].phase = "new"
    /\ IF IsFresh THEN HealthAnswer(p, cached.status)
       ELSE probers' = [probers EXCEPT ![p].phase = "waiting"]
    /\ UNCHANGED <<services, cached>>

Enter(p) ==
    /\ probers[p].phase = "waiting"
    /\ \A q \in Probers : probers[q].phase # "probing"
    /\ IF IsFresh THEN HealthAnswer(p, cached.status)
       ELSE probers' = [probers EXCEPT ![p].phase = "probing", ![p].since = now]
    /\ UNCHANGED <<services, cached>>

\* _probe of one provider; a probe that raises is a provider that does not answer.
Probe(p, s) ==
    /\ probers[p].phase = "probing" /\ s \notin DOMAIN probers[p].found
    /\ probers' = [probers EXCEPT ![p].found =
                      [x \in DOMAIN @ \cup {s} |-> IF x = s THEN services[s] ELSE @[x]]]
    /\ UNCHANGED <<services, cached>>

HealthOf(found) ==
    IF \A s \in Providers : found[s] THEN "ready"
    ELSE IF \E s \in Providers : found[s] THEN "degraded" ELSE "unavailable"

Keep(p) ==
    /\ probers[p].phase = "probing" /\ DOMAIN probers[p].found = Providers
    /\ cached' = [at |-> now, status |-> HealthOf(probers[p].found)]
    /\ HealthAnswer(p, HealthOf(probers[p].found))
    /\ UNCHANGED services

\* The lock is released, and nothing is kept.
Leave(p) ==
    /\ probers[p].phase \in {"waiting", "probing"}
    /\ HealthAnswer(p, "none")
    /\ UNCHANGED <<services, cached>>

Change(s) == services' = [services EXCEPT ![s] = ~@] /\ UNCHANGED <<probers, cached>>

HealthNext ==
    /\ \/ \E p \in Probers : AskHealth(p) \/ Enter(p) \/ Keep(p) \/ Leave(p) \/ \E s \in Providers : Probe(p, s)
       \/ \E s \in Providers : Change(s)
    /\ UNCHANGED now

HealthTick == now < MaxTime /\ now' = now + 1 /\ UNCHANGED healthVars

\* A client and the cached health, which share the clock only.
ClientsNext ==
    \/ CallsNext /\ UNCHANGED healthVars
    \/ /\ HealthNext \/ HealthTick
       /\ UNCHANGED <<client, requests, circuit, outcomes, gauges, reports, counted, used>>

ClientsSpec == CallsInit /\ HealthInit /\ [][ClientsNext]_<<callVars, healthVars>>

-----------------------------------------------------------------------------
(***************************************************************************)
(* Properties                                                              *)
(***************************************************************************)
\* Whatever order the answers of concurrent requests come in, the circuit is open after
\* Threshold failures in a row and not otherwise (_record_success, _record_retryable_failure).
CircuitHonest ==
    /\ Threshold # 0 => (circuit.openedAt # 0 <=> circuit.failures >= Threshold)
    /\ circuit.openedAt # 0 =>
          /\ Len(outcomes) >= Threshold
          /\ \A i \in Len(outcomes) - Threshold + 1..Len(outcomes) : outcomes[i] = "failure"

\* A request that is not cancelled tells its end once, the in-flight gauge counts the
\* requests still waiting, and what a response has cost is counted even when it is refused.
RequestsTold ==
    /\ \A r \in Requests :
          /\ requests[r].phase \in {"completed", "failed", "refused"} => Len(reports[r]) = 1
          /\ requests[r].phase \in {"new", "posting", "delayed", "cancelled"} => reports[r] = <<>>
          /\ requests[r].phase = "completed" <=> \E i \in DOMAIN reports[r] : reports[r][i].name = "completed"
    /\ gauges.inFlight = Cardinality(Waiting) /\ gauges.inFlight <= gauges.highest
    /\ counted = Cardinality(used)

\* CachedRemoteGpuGateway bounds the polling: one probe at a time, and none until the
\* result of the last has been kept for its time.
PollBounded ==
    \A p \in Probers : probers[p].phase = "probing" =>
        /\ \A q \in Probers \ {p} : probers[q].phase # "probing"
        /\ cached.at # 0 => probers[p].since - cached.at >= Ttl

\* The three above.
CallsSound == CircuitHonest /\ RequestsTold /\ PollBounded
=================================================================================
