-------------------------- MODULE DiscoveryClient --------------------------
(***************************************************************************)
(* DuadpClient (sdk/typescript/src/client.ts) against the manifest and the *)
(* routes of a node (reference-node/src/index.ts).                         *)
(*                                                                         *)
(* A client reads the node's manifest when it first needs an endpoint and   *)
(* keeps it for life.  Nothing keeps its calls from overlapping: several   *)
(* may fetch the manifest at a time, and each puts what it got in the same  *)
(* field.  A request is aborted when its answer has not begun in time, but  *)
(* the timer is stopped before the body of the answer is read.             *)
(*                                                                         *)
(* A method is a record: the endpoint of the manifest it asks for, what it  *)
(* appends ("-" for nothing, ":" for a name or a GAID) and what it does     *)
(* without an endpoint.  Parameters, bodies and headers are left out.      *)
(***************************************************************************)
EXTENDS Naturals

CONSTANTS Client,     \* the instances of DuadpClient
          Call,       \* slots: calls of their methods
          Exposed,    \* Exposed[v]: the endpoints in manifest v of the node
          MaxVersion, \* bound: how often the node's manifest changes, plus 1
          NoCall      \* an empty slot

Version == 1..MaxVersion

ASSUME DiscoveryAssumption ==
    /\ MaxVersion \in Nat \ {0}
    /\ Exposed \in [Version -> SUBSET STRING]

-----------------------------------------------------------------------------
(* The methods of the client. *)

Via(name, verb, endpoint, suffix) ==
    [name |-> name, by |-> "manifest", verb |-> verb, endpoint |-> endpoint,
     suffix |-> suffix, otherwise |-> "throw"]

(* Without the endpoint: the same path under the base URL. *)
OrDefault(method) == [method EXCEPT !.otherwise = "default"]

(* Without the endpoint: /audit under another. *)
OrGovernance(method) == [method EXCEPT !.otherwise = "governance"]

(* A path under the base URL, whatever the manifest says. *)
Fixed(name, verb, endpoint, suffix) ==
    [Via(name, verb, endpoint, suffix) EXCEPT !.by = "base"]

SkillMethods ==
    {Via("listSkills",   "GET",    "skills", "-"),
     Via("getSkill",     "GET",    "skills", "/:"),
     Via("publishSkill", "POST",   "skills", "-"),
     Via("updateSkill",  "PUT",    "skills", "/:"),
     Via("deleteSkill",  "DELETE", "skills", "/:")}

AgentMethods ==
    {Via("listAgents",   "GET",  "agents", "-"),
     Via("getAgent",     "GET",  "agents", "/:"),
     Via("publishAgent", "POST", "agents", "-")}

ToolMethods ==
    {Via("listTools",   "GET",  "tools", "-"),
     Via("getTool",     "GET",  "tools", "/:"),
     Via("publishTool", "POST", "tools", "-"),
     Via("authorizeGitLabContext", "POST", "control_plane", "/authorize")}

NodeMethods ==
    {Via("listPolicies",   "GET",  "policies", "-"),
     Via("getPolicy",      "GET",  "policies", "/:"),
     Via("publish",        "POST", "publish", "-"),
     Via("getFederation",  "GET",  "federation", "-"),
     Via("registerAsPeer", "POST", "federation", "-"),
     Via("validate",       "POST", "validate", "-")}

GovernanceMethods ==
    {Via("getGovernance",   "GET", "governance", "-"),
     Via("getResourceRisk", "GET", "governance", "/risk/:"),
     OrGovernance(Via("getAuditLog", "GET", "audit_log", "-")),
     Via("getProvenance",   "GET", "provenance", "/:"),
     Via("getRevocations",  "GET", "revocations", "-"),
     Via("federationSync",  "GET", "federation", "/sync"),
     Via("subscribeWebhook", "POST", "events", "/subscribe"),
     Via("getAgentIdentity", "GET", "identity", "/:")}

LookupMethods ==
    {OrDefault(Via("getHealth",       "GET", "health", "-")),
     OrDefault(Via("resolveResource", "GET", "resolve", "/:")),
     OrDefault(Via("inspectGaid",     "GET", "inspect", "-")),
     Via("search",         "GET",  "search", "-"),
     Via("getAgentIndex",  "GET",  "index", "/:"),
     Via("batchPublish",   "POST", "publish", "/batch"),
     Via("getA2ACard",     "GET",  "agents", "/:/card"),
     Via("getMcpManifest", "GET",  "tools", "/mcp-manifest"),
     Fixed("query",        "POST", "query", "-")}

ExecutionMethods ==
    {Via("negotiateContext",   "POST", "context", "/negotiate"),
     Via("getContextSummary",  "GET",  "context", "/summary"),
     Via("reportTokenUsage",   "POST", "analytics", "/tokens"),
     Via("getTokenAnalytics",  "GET",  "analytics", "/tokens/:"),
     Via("submitFeedback",     "POST", "feedback", "-"),
     Via("getAgentFeedback",   "GET",  "feedback", "/:"),
     Via("getAgentReputation", "GET",  "feedback", "/:/reputation"),
     Via("recordReward",       "POST", "feedback", "/rewards"),
     Via("getCapabilityFingerprint", "GET", "analytics", "/fingerprint/:"),
     Via("submitAttestation",  "POST", "attestations", "-"),
     Via("getAttestations",    "GET",  "attestations", "/:"),
     Via("delegate",           "POST", "delegate", "-"),
     Via("getOrchestrationPlan",    "GET",  "delegate", "/plans/:"),
     Via("createOrchestrationPlan", "POST", "delegate", "/plans")}

(* discover itself, and WebFinger. *)
DiscoveryMethods ==
    {[Via("discover", "GET", "well-known", "/duadp.json") EXCEPT !.by = "discovery"],
     Fixed("resolveGaid", "GET", "well-known", "/webfinger")}

Methods ==
    SkillMethods \cup AgentMethods \cup ToolMethods \cup NodeMethods
        \cup GovernanceMethods \cup LookupMethods \cup ExecutionMethods
        \cup DiscoveryMethods

-----------------------------------------------------------------------------
(* The node. *)

ReferenceEndpoints ==
    {"skills", "agents", "tools", "policies", "federation", "validate", "verify",
     "publish", "search", "resolve", "inspect", "governance", "control_plane",
     "revocations", "health"}

CatalogRoutes ==
    {<<"GET", e, s>> : e \in {"skills", "agents", "tools", "policies"}, s \in {"-", "/:"}}
        \cup {<<"GET", "agents", "/:/card">>}
        \cup {<<"POST", e, "-">> : e \in {"skills", "agents", "tools", "publish"}}
        \cup {<<v, e, "/:">> : v \in {"PUT", "DELETE"}, e \in {"skills", "agents", "tools"}}

NodeRoutes ==
    {<<"GET", "well-known", "/duadp.json">>, <<"GET", "well-known", "/webfinger">>,
     <<"POST", "policies", "/evaluate">>, <<"GET", "search", "-">>, <<"POST", "verify", "-">>,
     <<"POST", "validate", "-">>, <<"GET", "federation", "-">>, <<"GET", "federation", "/peers">>,
     <<"POST", "federation", "-">>, <<"GET", "revocations", "-">>, <<"GET", "revocations", "/:">>,
     <<"POST", "federation", "/revocations">>, <<"GET", "resolve", "/:">>,
     <<"GET", "inspect", "-">>, <<"POST", "control_plane", "/authorize">>}

GovernanceRoutes ==
    {<<"GET", "health", "-">>, <<"GET", "governance", "-">>, <<"GET", "audit", "-">>,
     <<"POST", "feedback", "-">>, <<"GET", "feedback", "/:">>, <<"GET", "reputation", "/:">>,
     <<"POST", "analytics", "/tokens">>, <<"GET", "analytics", "/tokens/:">>,
     <<"POST", "attestations", "-">>, <<"GET", "attestations", "/:">>}

Routes == CatalogRoutes \cup NodeRoutes \cup GovernanceRoutes

-----------------------------------------------------------------------------
VARIABLES version,  \* of the node's manifest
          manifest, \* manifest[k]: the manifest that client k keeps, or 0
          calls     \* calls[c]: the call in slot c

clientVars == <<version, manifest, calls>>

Stage == {"discovering", "manifest", "asked", "body", "done"}

(* second: that the audit log is looked for under governance.  base: the     *)
(* manifest that named the address, or 0 for the base URL.  got: the        *)
(* manifest in the answer that is being read.  since, own: history, the    *)
(* node's manifest when the call began, and that it got one itself.        *)
CallRecord(methods) ==
    [client : Client, method : methods, stage : Stage, second : BOOLEAN,
     base : 0..MaxVersion, got : 0..MaxVersion, since : Version, own : BOOLEAN,
     result : {"none", "value", "no content", "no route", "error", "unexposed", "undiscovered"}]

ClientTypeOK(methods) ==
    /\ version  \in Version
    /\ manifest \in [Client -> 0..MaxVersion]
    /\ calls    \in [Call -> CallRecord(methods) \cup {NoCall}]

ClientInit ==
    /\ version  = 1
    /\ manifest = [k \in Client |-> 0]
    /\ calls    = [c \in Call |-> NoCall]

At(c, stage) == calls[c] # NoCall /\ calls[c].stage = stage

Set(c, call) == calls' = [calls EXCEPT ![c] = call]

Done(call, result) == [call EXCEPT !.stage = "done", !.result = result]

Ask(call, base) == [call EXCEPT !.stage = "asked", !.base = base]

-----------------------------------------------------------------------------
EndpointOf(call) == IF call.second THEN "governance" ELSE call.method.endpoint
SuffixOf(call)   == IF call.second THEN "/audit" ELSE call.method.suffix

(* resolveEndpoint, once the manifest is there; 0 when it is not. *)
Look(call, v) ==
    IF v = 0 THEN [call EXCEPT !.stage = "discovering"]
    ELSE IF EndpointOf(call) \in Exposed[v] THEN Ask(call, v)
    ELSE Done(call, "unexposed")

(* resolveEndpoint threw.  getAuditLog looks for another endpoint, and that  *)
(* fetches the manifest again when there is none yet.                      *)
Otherwise(call, v, why) ==
    CASE call.method.otherwise = "default" -> Ask(call, 0)
      [] call.method.otherwise = "governance" /\ ~call.second ->
            Look([call EXCEPT !.second = TRUE], v)
      [] OTHER -> Done(call, why)

Resolve(call, v) ==
    LET looked == Look(call, v) IN
    IF looked.result = "unexposed" THEN Otherwise(call, v, "unexposed") ELSE looked

Begin(k, method) ==
    LET call == [client |-> k, method |-> method, stage |-> "discovering",
                 second |-> FALSE, base |-> 0, got |-> 0, since |-> version, own |-> FALSE,
                 result |-> "none"] IN
    CASE method.by = "manifest"  -> Resolve(call, manifest[k])
      [] method.by = "discovery" -> call
      [] OTHER                   -> Ask(call, 0)

(* A method of client k is called. *)
Start(c, k, method) ==
    /\ calls[c] = NoCall
    /\ Set(c, Begin(k, method))
    /\ UNCHANGED <<version, manifest>>

-----------------------------------------------------------------------------
(* The answer with the manifest begins. *)
ManifestServed(c) ==
    /\ At(c, "discovering")
    /\ Set(c, [calls[c] EXCEPT !.stage = "manifest", !.got = version])
    /\ UNCHANGED <<version, manifest>>

(* Mutant: a manifest that is there already is kept. *)
KeepFirst(k, v) == IF manifest[k] = 0 THEN v ELSE manifest[k]

Cached(k, v) == v

(* discover: the manifest is stored, and the call goes on with the stored,   *)
(* before the answer on another connection is read.                        *)
Discovered(c) ==
    /\ At(c, "manifest")
    /\ LET call == [calls[c] EXCEPT !.own = TRUE]
           v    == Cached(call.client, call.got) IN
         /\ manifest' = [manifest EXCEPT ![call.client] = v]
         /\ Set(c, IF call.method.by = "discovery"
                   THEN [Done(call, "value") EXCEPT !.base = v]
                   ELSE Resolve(call, v))
    /\ UNCHANGED version

(* The manifest could not be had: no answer, an error status, the timer, or  *)
(* a body that broke off.                                                  *)
DiscoveryFails(c) ==
    /\ At(c, "discovering") \/ At(c, "manifest")
    /\ Set(c, IF calls[c].method.by = "discovery" THEN Done(calls[c], "error")
              ELSE Otherwise(calls[c], manifest[calls[c].client], "undiscovered"))
    /\ UNCHANGED <<version, manifest>>

-----------------------------------------------------------------------------
Route(call) == <<call.method.verb, EndpointOf(call), SuffixOf(call)>>

(* Whether what is at the address of the call is the node as it is now. *)
Current(call) == call.base \in {0, version}

(* An answer begins.  Where the endpoint was under an earlier manifest there *)
(* may be something still, or nothing.  204 and the errors are the end of  *)
(* it, for the text of an error is read under the timer.                   *)
Answers(c) ==
    /\ At(c, "asked")
    /\ calls[c].method.by \in {"manifest", "base"}
    /\ \/ /\ Current(calls[c]) => Route(calls[c]) \in Routes
          /\ \/ Set(c, [calls[c] EXCEPT !.stage = "body"])
             \/ \E result \in {"no content", "error"} : Set(c, Done(calls[c], result))
       \/ /\ Current(calls[c]) => Route(calls[c]) \notin Routes
          /\ Set(c, Done(calls[c], "no route"))
    /\ UNCHANGED <<version, manifest>>

(* Mutant: no timer. *)
NoTimer(c) == FALSE

(* The timer, or no connection. *)
Aborts(c) ==
    /\ At(c, "asked")
    /\ Set(c, Done(calls[c], "error"))
    /\ UNCHANGED <<version, manifest>>

(* res.json(): the body is there, or the connection broke. *)
BodyRead(c) ==
    /\ At(c, "body")
    /\ \E result \in {"value", "error"} : Set(c, Done(calls[c], result))
    /\ UNCHANGED <<version, manifest>>

(* The endpoints move, or the node is replaced by another release. *)
NodeMoves ==
    /\ version < MaxVersion
    /\ version' = version + 1
    /\ UNCHANGED <<manifest, calls>>

CallStep(c) ==
    \/ ManifestServed(c) \/ Discovered(c) \/ DiscoveryFails(c)
    \/ Answers(c) \/ Aborts(c) \/ BodyRead(c)

(* The timer fires.  For a body there is none: it ends with the connection. *)
CallFairness(c) ==
    /\ WF_clientVars(DiscoveryFails(c))
    /\ WF_clientVars(Aborts(c))
    /\ WF_clientVars(BodyRead(c))

-----------------------------------------------------------------------------
(* PROPERTIES *)

(* A call that got the manifest by itself goes by one at least as new as    *)
(* the node's when the call began, although other calls of the client fetch *)
(* and store theirs meanwhile (discover, getManifest).  It says nothing of  *)
(* the manifest the client keeps: a discovery that ends late puts its older *)
(* one in place of a newer, and later calls go by that.                    *)
OwnDiscoveryIsFresh ==
    \A c \in Call : calls[c] # NoCall /\ calls[c].own /\ calls[c].base # 0 =>
        calls[c].base >= calls[c].since
=============================================================================
