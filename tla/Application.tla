------------------------------- MODULE Application -------------------------------
(***************************************************************************)
(* One process of the server, from its environment to its shutdown: the    *)
(* environment becomes settings or is refused (app/settings.py), the       *)
(* settings and the overrides of the caller decide which services exist    *)
(* (app/factory.py), a route answers by the services it was built with     *)
(* (interfaces/api.py), and the lifespan closes what the process owns. A   *)
(* service is its name; what it does is in the other modules. Texts,       *)
(* numbers and addresses of the environment are left out, except for the   *)
(* variables that decide what exists.                                      *)
(***************************************************************************)
EXTENDS Naturals, Sequences, SequencesExt

CONSTANTS Overridable   \* the overrides a caller of create_app may give

VARIABLES life,         \* how far the process is
          settings,     \* the accepted settings
          overrides,    \* what the caller replaces
          answered,     \* the last answer of a route
          closings      \* the resources closed so far, and whether without an error

applicationVars == <<life, settings, overrides, answered, closings>>

NoSettings == [direct |-> FALSE, tagging |-> FALSE, images |-> FALSE, web |-> FALSE]
\* The routes whose capabilities the health route reports.
HealthRoutes == {"process", "ingest", "search", "chat"}
AnswerOf(route, reply, health) == [route |-> route, reply |-> reply, health |-> health]
NoStatuses == [r \in HealthRoutes |-> "none"]
NothingAsked == AnswerOf("none", "none", NoStatuses)

ApplicationInit ==
    /\ life = "starting" /\ settings = NoSettings /\ overrides = {}
    /\ answered = NothingAsked /\ closings = <<>>

-----------------------------------------------------------------------------
(***************************************************************************)
(* Settings                                                                *)
(***************************************************************************)
\* Each variable is unset, blank (white space only) or set.
Environments ==
    [layoutOnly : BOOLEAN, provider : {"unset", "gateway", "direct"},
     deepseek : {"unset", "blank", "set"}, deepseekAlias : {"unset", "set"},
     openai : {"unset", "set"}, gateway : {"unset", "set"},
     mode : {"unset", "json_schema", "json_object"}, tagging : {"unset", "false", "true"},
     images : {"unset", "blank", "set"}, tavily : {"unset", "blank", "set"},
     langfuse : BOOLEAN, langfuseKeys : BOOLEAN, oneCollection : BOOLEAN]

Direct(env) == env.provider = "direct"

\* The alias counts only if the variable is unset: white space hides it.
DeepseekKey(env) ==
    IF env.deepseek = "unset" THEN env.deepseekAlias = "set" ELSE env.deepseek = "set"

\* Each provider has its own default.
Mode(env) ==
    IF env.mode # "unset" THEN env.mode ELSE IF Direct(env) THEN "json_object" ELSE "json_schema"

\* What from_environment and the settings themselves require.
Accepted(env) ==
    /\ env.images # "blank" /\ env.tavily # "blank"
    /\ ~Direct(env) => env.gateway = "set"
    /\ Direct(env) => /\ DeepseekKey(env) /\ env.openai = "set"
                      /\ Mode(env) = "json_object" /\ env.tagging = "true"
    /\ env.langfuse => env.langfuseKeys
    /\ ~env.oneCollection

SettingsOf(env) ==
    [direct |-> Direct(env), tagging |-> env.tagging = "true",
     images |-> env.images = "set", web |-> env.tavily = "set"]

\* main.create_application: layout mode asks nothing of the environment.
ReadEnvironment ==
    /\ life = "starting"
    /\ \E env \in Environments :
          IF env.layoutOnly THEN life' = "layout" /\ UNCHANGED settings
          ELSE IF Accepted(env) THEN life' = "composing" /\ settings' = SettingsOf(env)
          ELSE life' = "refused" /\ UNCHANGED settings
    /\ UNCHANGED <<overrides, answered, closings>>

-----------------------------------------------------------------------------
(***************************************************************************)
(* Composition                                                             *)
(***************************************************************************)
HasClient == "clients" \notin overrides
HasIndex == "no_index" \notin overrides

\* The clients of a direct provider are built with both keys, of which the composition
\* asserts that they are there.
ModelServices == {"model"} \cup IF HasClient THEN {"http"} ELSE {}

\* Only a gateway extracts; the workflows around the extractor exist in any case.
DocumentServices ==
    {"artifacts", "process", "persist"}
    \cup IF settings.direct THEN {} ELSE {"extractor"}
    \cup IF settings.images THEN {"resolver", "gate"} ELSE {}

IngestionServices ==
    (IF settings.tagging THEN {"ledger", "chunkTagging", "transactions"} ELSE {"reuseFile"})
    \cup (IF HasIndex THEN {"index", "indexDocument", "ingestExtracted"} ELSE {})
    \cup IF HasIndex /\ settings.tagging THEN {"documentIngestion"} ELSE {}

\* The legacy routes have services in tests only.
LegacyServices ==
    (IF "retriever" \in overrides THEN {"retrieve"} ELSE {})
    \cup IF {"retriever", "generator"} \subseteq overrides THEN {"answer"} ELSE {}

AgentServices ==
    (IF HasIndex THEN {"runner", "manager"} ELSE {})
    \cup IF HasIndex /\ settings.web /\ HasClient THEN {"webSearch"} ELSE {}

TopicServices ==
    IF {"chunkTagging", "documentIngestion", "transactions"} \subseteq IngestionServices
    THEN {"groundedAnswer", "agentChat", "extractTopic"} ELSE {}

Services ==
    ModelServices \cup DocumentServices \cup IngestionServices \cup LegacyServices
    \cup AgentServices \cup TopicServices

Compose ==
    /\ life = "composing" /\ life' = "serving"
    /\ overrides' \in SUBSET Overridable
    /\ UNCHANGED <<settings, answered, closings>>

-----------------------------------------------------------------------------
(***************************************************************************)
(* Routes                                                                  *)
(***************************************************************************)
\* What a route asks for before it does anything, or answers 503.
Guards ==
    [search         |-> {"retrieve"},
     chat           |-> {"answer"},
     process        |-> {"process"},
     processIngest  |-> {"persist", "ingestExtracted"},
     source         |-> {"artifacts"},
     assets         |-> {"resolver", "artifacts", "gate"},
     ingest         |-> {"indexDocument"},
     agentStream    |-> {"manager", "runner"},
     agentResume    |-> {"manager", "runner"},
     records        |-> {"index"}]

\* What its work calls and finds missing only then: an error of the server.
Needs(route) == IF route \in {"process", "processIngest"} THEN {"extractor"} ELSE {}

Reply(route) ==
    IF ~(Guards[route] \subseteq Services) THEN "unavailable"
    ELSE IF Needs(route) \subseteq Services THEN "served" ELSE "error"

\* The agent answers if there is one, else the grounded chat.
MessageReply ==
    IF "runner" \in Services THEN "agent"
    ELSE IF "agentChat" \in Services THEN "grounded" ELSE "unavailable"

\* The service each capability of the health route stands for.
Capability(route) ==
    CASE route = "process" -> "extractor" [] route = "ingest" -> "indexDocument"
      [] route = "search" -> "retrieve"   [] route = "chat" -> "answer"
CapabilityStatus(route, remote) ==
    IF Capability(route) \notin Services THEN "disabled"
    ELSE IF remote = "ready" THEN "ready" ELSE "degraded"

Call ==
    /\ life = "serving"
    /\ \/ \E route \in DOMAIN Guards : answered' = AnswerOf(route, Reply(route), NoStatuses)
       \/ answered' = AnswerOf("agentMessage", MessageReply, NoStatuses)
       \/ \E remote \in {"ready", "unavailable"} :
             answered' = AnswerOf("health", "served",
                                  [r \in HealthRoutes |-> CapabilityStatus(r, remote)])
    /\ UNCHANGED <<life, settings, overrides, closings>>

-----------------------------------------------------------------------------
(***************************************************************************)
(* Shutdown                                                                *)
(***************************************************************************)
Owned(resource) ==
    CASE resource = "runs"   -> "manager" \in Services
      [] resource = "index"  -> HasIndex
      [] resource = "client" -> HasClient
      [] resource = "traces" -> TRUE

ShutdownOrder == <<"runs", "index", "client", "traces">>

\* The lifespan ends: the nested finally blocks go on after an error, only the client and
\* the traces share one.
Stop ==
    /\ life = "serving" /\ life' = "stopping"
    /\ answered' = NothingAsked /\ UNCHANGED <<settings, overrides, closings>>

Shut(resource) == \E i \in DOMAIN closings : closings[i].of = resource
ShutInError(resource) == \E i \in DOMAIN closings : closings[i] = [of |-> resource, ok |-> FALSE]

\* Fault: one call after the other, the first error leaves the rest open.
DueUntilError(resource) ==
    LET at == CHOOSE i \in DOMAIN ShutdownOrder : ShutdownOrder[i] = resource IN
    /\ Owned(resource) /\ ~Shut(resource)
    /\ \A i \in 1..at - 1 : /\ Owned(ShutdownOrder[i]) => Shut(ShutdownOrder[i])
                            /\ ~ShutInError(ShutdownOrder[i])

\* Is the turn of the resource: those before it are closed or not owned.
Due(resource) ==
    LET at == CHOOSE i \in DOMAIN ShutdownOrder : ShutdownOrder[i] = resource IN
    /\ Owned(resource) /\ ~Shut(resource)
    /\ \A i \in 1..at - 1 : Owned(ShutdownOrder[i]) => Shut(ShutdownOrder[i])
    /\ resource = "traces" => ~ShutInError("client")

CloseResource ==
    /\ life = "stopping"
    /\ \E resource \in ToSet(ShutdownOrder), ok \in BOOLEAN :
          /\ Due(resource)
          /\ closings' = Append(closings, [of |-> resource, ok |-> ok])
    /\ UNCHANGED <<life, settings, overrides, answered>>

Exit ==
    /\ life = "stopping" /\ \A resource \in ToSet(ShutdownOrder) : ~Due(resource)
    /\ life' = "stopped" /\ UNCHANGED <<settings, overrides, answered, closings>>

ApplicationNext == ReadEnvironment \/ Compose \/ Call \/ Stop \/ CloseResource \/ Exit

ApplicationSpec == ApplicationInit /\ [][ApplicationNext]_applicationVars

-----------------------------------------------------------------------------
(***************************************************************************)
(* Properties                                                              *)
(***************************************************************************)
\* What the health route calls disabled is not served, and what it calls ready or degraded
\* is: a deployment of a direct provider does not pretend to extract.
HealthHonest ==
    answered.route = "health" =>
        \A route \in HealthRoutes : answered.health[route] = "disabled" <=> Reply(route) # "served"

\* No route fails for want of a service that its guard did not ask for, unless it is the
\* extraction of a direct provider; and the message route never has to fall back on the
\* grounded chat: whatever composes that chat composes the agent as well (factory.py).
GuardsSuffice ==
    /\ answered.reply = "error" => settings.direct
    /\ answered.reply # "grounded"

\* When the process has stopped, everything it owns was closed in the order in which one
\* uses the other, whatever failed on the way; only a client that fails costs the traces.
ClosedInOrder ==
    /\ life = "stopped" =>
          \A resource \in ToSet(ShutdownOrder) :
             Owned(resource) /\ ~Shut(resource) => resource = "traces" /\ ShutInError("client")
    /\ "index" \in Services /\ Shut("index") => Shut("runs")

ApplicationSound == HealthHonest /\ GuardsSuffice /\ ClosedInOrder
=================================================================================
