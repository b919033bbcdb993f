---------------------------- MODULE McpEndpoint ----------------------------
(***************************************************************************)
(* The MCP endpoint of a node (reference-node/src/mcp.ts): streams of      *)
(* server-sent events under session ids, messages posted to a session, and *)
(* the tools a message calls.  All tools share one DuadpClient, which asks *)
(* the node itself by its public URL; the others fetch a fixed path of it. *)
(* Besides, programs of their own use other clients of the node.           *)
(*                                                                         *)
(* The MCP library (McpServer, SSEServerTransport) is external: it runs the *)
(* tool that a message names and writes its result, or its exception as an *)
(* error, to the stream, unless that is closed.                            *)
(*                                                                         *)
(* Whether the library takes a posted message is not said here.  index.ts  *)
(* parses every JSON body before the router sees it, and handlePostMessage *)
(* is not given what was parsed (mcp.ts:487): a library that reads the     *)
(* body itself then refuses the message (mcp.ts:488-492), which changes    *)
(* nothing here and is left out.  The properties speak of the messages     *)
(* that are taken.                                                         *)
(***************************************************************************)
EXTENDS DiscoveryClient

CONSTANTS Stream,   \* connections to GET /mcp
          Id,       \* session ids; short and random, so they may coincide
          Mcp,      \* the client of the endpoint
          Direct,   \* methods that programs with other clients call
          Called,   \* the tools that are called
          None      \* no stream

StreamRecord == [id : Id, open : BOOLEAN]

-----------------------------------------------------------------------------
(* The tools that go through the client.  Mutant: the audit log, too. *)
ClientToolsWithAudit ==
    {m \in Methods : m.name \in
        {"discover", "listAgents", "listSkills", "listTools", "search", "publish",
         "validate", "getFederation", "getAuditLog"}}

ClientTools ==
    {m \in Methods : m.name \in
        {"discover", "listAgents", "listSkills", "listTools", "search", "publish",
         "validate", "getFederation"}}

Raw(name, verb, endpoint, suffix) ==
    [Via(name, verb, endpoint, suffix) EXCEPT !.by = "raw"]

(* Those that fetch for themselves, without a timer of their own and without *)
(* a look at the status.                                                   *)
GovernanceTools ==
    {Raw("duadp_governance",         "GET",  "governance", "-"),
     Raw("duadp_audit_log",          "GET",  "audit", "-"),
     Raw("duadp_agent_reputation",   "GET",  "reputation", "/:"),
     Raw("duadp_submit_attestation", "POST", "attestations", "-"),
     Raw("duadp_get_attestations",   "GET",  "attestations", "/:"),
     Raw("duadp_submit_feedback",    "POST", "feedback", "-"),
     Raw("duadp_token_analytics",    "GET",  "analytics", "/tokens/:")}

TrustTools ==
    {Raw("duadp_health",           "GET",  "health", "-"),
     Raw("duadp_verify_trust",     "POST", "verify", "-"),
     Raw("duadp_list_revocations", "GET",  "revocations", "-"),
     Raw("duadp_check_revocation", "GET",  "revocations", "/:"),
     Raw("duadp_evaluate_cedar",   "POST", "policies", "/evaluate")}

BridgeTool == Raw("duadp_mcp_bridge", "POST", "elsewhere", "-")

(* duadp_resolve_gaid, by resolveGaid of the SDK. *)
ResolveTool == [Via("duadp_resolve_gaid", "TXT", "dns", "-") EXCEPT !.by = "dns"]

Tools == ClientTools \cup GovernanceTools \cup TrustTools \cup {BridgeTool, ResolveTool}

ASSUME McpAssumption ==
    /\ Mcp \in Client
    /\ Direct \subseteq Methods
    /\ Called \subseteq Tools
    /\ None \notin Stream \cup StreamRecord
    /\ NoCall \notin CallRecord(Methods \cup Tools)

-----------------------------------------------------------------------------
VARIABLES streams, \* streams[s]: the session id and whether it is open
          active,  \* activeTransports: the stream of a session id
          caller,  \* caller[c]: the stream whose message made call c
          written  \* written[c]: what became of the result of call c

mcpVars == <<version, manifest, calls, streams, active, caller, written>>

TypeOK ==
    /\ ClientTypeOK(Methods \cup Tools)
    /\ streams \in [Stream -> StreamRecord \cup {None}]
    /\ active  \in [Id -> Stream \cup {None}]
    /\ caller  \in [Call -> Stream \cup {None}]
    /\ written \in [Call -> {"no", "sent", "lost"}]

Init ==
    /\ ClientInit
    /\ streams = [s \in Stream |-> None]
    /\ active  = [i \in Id |-> None]
    /\ caller  = [c \in Call |-> None]
    /\ written = [c \in Call |-> "no"]

-----------------------------------------------------------------------------
(* GET /mcp: the transport is put under a fresh id, whether or not it is one *)
(* in use, and the stream opened.                                          *)
Connect(s, i) ==
    /\ streams[s] = None
    /\ streams' = [streams EXCEPT ![s] = [id |-> i, open |-> TRUE]]
    /\ active' = [active EXCEPT ![i] = s]
    /\ UNCHANGED <<version, manifest, calls, caller, written>>

(* Mutant: the transport is not taken out of the map. *)
CloseForgets(s) ==
    /\ streams[s] # None /\ streams[s].open
    /\ streams' = [streams EXCEPT ![s].open = FALSE]
    /\ UNCHANGED <<version, manifest, calls, active, caller, written>>

(* The connection closes: whatever is under the id goes. *)
Close(s) ==
    /\ streams[s] # None /\ streams[s].open
    /\ streams' = [streams EXCEPT ![s].open = FALSE]
    /\ active' = [active EXCEPT ![streams[s].id] = None]
    /\ UNCHANGED <<version, manifest, calls, caller, written>>

(* POST /mcp/messages calls a tool; under an id that is not in the map it is *)
(* answered with 404.                                                      *)
PostMessage(i, c, tool) ==
    /\ active[i] # None
    /\ Start(c, Mcp, tool)
    /\ caller' = [caller EXCEPT ![c] = active[i]]
    /\ UNCHANGED <<streams, active, written>>

(* A program calls a method of its client. *)
DirectCall(c, k, method) ==
    /\ k # Mcp
    /\ Start(c, k, method)
    /\ UNCHANGED <<streams, active, caller, written>>

(* fetch has its answer, of any status; the body is parsed. *)
RawAnswers(c) ==
    /\ At(c, "asked")
    /\ calls[c].method.by = "raw"
    /\ Set(c, [calls[c] EXCEPT !.stage = "body"])
    /\ UNCHANGED <<version, manifest, streams, active, caller, written>>

(* A GAID that is none makes resolveGaid throw, before any lookup, and the   *)
(* tool does not catch it.  Of others verifyDuadpDns answers, whatever it   *)
(* finds: the default tier, community, does not call for a TXT record.     *)
DnsAnswers(c) ==
    /\ At(c, "asked")
    /\ calls[c].method.by = "dns"
    /\ \E result \in {"value", "error"} : Set(c, Done(calls[c], result))
    /\ UNCHANGED <<version, manifest, streams, active, caller, written>>

(* The tool is done, and the library writes the result. *)
Write(c) ==
    /\ At(c, "done")
    /\ caller[c] # None
    /\ written[c] = "no"
    /\ written' = [written EXCEPT ![c] = IF streams[caller[c]].open THEN "sent" ELSE "lost"]
    /\ UNCHANGED <<version, manifest, calls, streams, active, caller>>

-----------------------------------------------------------------------------
Session ==
    \/ \E s \in Stream : Close(s) \/ \E i \in Id : Connect(s, i)
    \/ \E i \in Id, c \in Call, tool \in Called : PostMessage(i, c, tool)

Calling ==
    \E c \in Call :
        \/ \E k \in Client, method \in Direct : DirectCall(c, k, method)
        \/ CallStep(c) /\ UNCHANGED <<streams, active, caller, written>>
        \/ RawAnswers(c) \/ DnsAnswers(c) \/ Write(c)

Moving == NodeMoves /\ UNCHANGED <<streams, active, caller, written>>

Next == Session \/ Calling \/ Moving

Spec == Init /\ [][Next]_mcpVars

Fairness ==
    \A c \in Call :
        /\ CallFairness(c)
        /\ WF_mcpVars(DnsAnswers(c))
        /\ WF_mcpVars(Write(c))

FairSpec == Spec /\ Fairness

-----------------------------------------------------------------------------
(* PROPERTIES *)

(* Every tool asks for a path that the node serves: the endpoints of the     *)
(* manifest that the client keeps, what the client makes of them, the paths *)
(* that mcp.ts spells out and the routes of index.ts and governance.ts     *)
(* agree, although each is written down in a place of its own.             *)
ToolsReachRoutes ==
    \A tool \in ClientTools \cup GovernanceTools \cup TrustTools :
        /\ tool.by = "manifest" /\ manifest[Mcp] # 0 =>
              tool.endpoint \in Exposed[manifest[Mcp]]
        /\ <<tool.verb, tool.endpoint, tool.suffix>> \in Routes

(* The map follows the connections: no id leads to a stream that has closed, *)
(* and that of an open stream leads to it as long as no other drew the same *)
(* one; the result of a tool is lost only with the stream that its message  *)
(* came by.  Whether a message that finds its stream is understood is not   *)
(* part of it.                                                             *)
SessionsTrackStreams ==
    /\ \A i \in Id : active[i] # None =>
          /\ streams[active[i]].open
          /\ streams[active[i]].id = i
    /\ \A s \in Stream :
          /\ streams[s] # None
          /\ streams[s].open
          /\ \A t \in Stream \ {s} : streams[t] # None => streams[t].id # streams[s].id
          => active[streams[s].id] = s
    /\ \A c \in Call : written[c] = "lost" => ~streams[caller[c]].open

(* Every call settles, and the result of a tool is written to its stream:    *)
(* a call can wait for the manifest, twice, and for its own answer, but     *)
(* each of these waits ends with an answer or the timer, and each body with *)
(* its last byte or the connection.                                        *)
CallsEnd ==
    \A c \in Call :
        calls[c] # NoCall ~> (At(c, "done") /\ (caller[c] # None => written[c] # "no"))
=============================================================================
