# Formal models of DUADP

DUADP is a discovery protocol for AI agents, skills and tools. The repository
holds a reference node (`reference-node/`, Express and SQLite), SDKs in
TypeScript, Go and Python (`sdk/`), a command line tool (`cli/`) and the
specification (`spec/`). This directory holds TLA+ models of the parts whose
correctness depends on the order of events, the TLC runs that check them on
small instances, and proofs, checked by TLAPS, of what holds on all instances.

All paths below are relative to the repository; `RN/` is
`reference-node/src/`, `TS/` is `sdk/typescript/src/`.

## 1. Inventory

A node is one Node.js process with one SQLite file. Handlers are `async`
functions: between two awaits that do real I/O a handler runs alone, and at
such an await any other handler may run. `better-sqlite3` is synchronous, so a
statement is never interrupted; no handler opens a transaction over several.
Nodes talk over HTTP only, without retries.

| Component | State | Operations | What makes it hard | What makes it correct |
|---|---|---|---|---|
| Revocation (`RN/revocation.ts`, DELETE, POST /federation/revocations) | tables `revocations`, `resources` | store, look up by GAID or name, gossip to the peers, receive | one attempt per peer, 5 s abort, crash between statements, publish in progress, clients that post a revocation, a seed at the start | what is revoked stays away, but for PUT and a seed; peers block only what somebody revoked or posted; who is counted as notified does block |
| Publish pipeline (`index.ts:67-153`, `signature-verifier.ts`, `publish-authorization.ts`, `confidence-gate.ts`, `trust.ts`) | the request body, whose tier is rewritten; a row | five stages, three of them waiting for the network | lookups that change their answer, three tables of tiers, a review path that leaves early | a stored tier is earned and never above the claim; the answer tells what was stored |
| Policy evaluation (`cedar-evaluator.ts`) | none | ask the compliance service, deny on failure | external, no timeout of its own | fail closed |
| Federated queries, health (`RN/federation.ts:32-226`) | `peers.status` | query, resolve, health round | every answer writes the status, last writer wins, rounds overlap | the status follows the peer; a merged answer has every key (GAID, or else bare name) once, with its first arrival; every query ends whose bodies end |
| Peer registration (`RN/federation.ts:229-272`, POST /federation) | `peers` | DUADP_PEERS at start, reciprocal POST, gossiped lists | start order, one attempt, crash between insert and POST, a hop that nobody validates | bounded hops; peers listed; listed in return |
| Circuit breaker (`TS/client.ts:55-104`) | one record per URL | canRequest, recordSuccess, recordFailure, reset | outcomes after the circuit opened | opens at the threshold, stays open for the backoff, reopens |
| GAID resolution (`index.ts:315-331, 796-864`, `federation.ts:118-196`, `inspector.ts`) | none of its own | WebFinger, resolve, inspect, each falling back to peers | recursion among nodes without hop count; two readings of a GAID; a revocation or a publish during the lookup; bodies and policy requests without a timer | it ends, unless it waits for what has no timer; the answer is of a row that exists or existed; "not found" is said where nothing was when the request was taken up, and nothing is but what was stored since; a known revocation is reported |
| P2P mesh and CRDT registry (`RN/p2p.ts`, `RN/crdt-registry.ts`, `index.ts:896-949`) | a Yjs document in memory | join, publish, receive, put | late subscription, lost messages, restart with an empty document, DELETE and review that never reach the document | same manifests, same listing; only what was shared is listed |
| Content store (`RN/content-store.ts`) | Helia, or a map from CID | put | 32-bit hash of the fallback, Helia that fails | a CID that was handed out names one content |
| Governance (`RN/governance.ts`) and storage (`RN/db.ts`, `RN/provider.ts`) | feedback, token usage, attestations, audit log, resources | insert, page, aggregate | row and audit row are two statements; a peer's revocation logged without the name; two ways to seed; pages shift under a reader; partial, fractional and negative ratings | the audit log agrees with the tables, but for what left no event of its name; pages miss nothing; averages stay in range up to their rounding; parts add up |
| TypeScript client (`TS/client.ts`) | cached manifest | discover, resolve an endpoint, request | overlapping discoveries, a cache for life, a timer that stops before the body | a call goes by a manifest no older than itself when it fetched one; every call ends |
| MCP endpoint (`RN/mcp.ts`) | map of sessions to streams | connect, close, message, 22 tools | ids that coincide, results after the stream has closed, paths written down in four places | the map leads to open streams of that id; every tool reaches a route |
| Go and Python SDKs | as the TypeScript client | | ports that drift apart | same answers |
| SDK server router, validation, conformance, CLIs, control plane, seeds, actor names | none, or start-up data | read-only or pure | | |

How they interact: a publish reads the revocation tables at its start and writes
`resources` at its end; a DELETE writes `resources` and `revocations` and sends
to the peers whose status queries and the health loop maintain; that table is
filled by peer registration; a start may run the seed over all of it; resolve
and search read `resources` and ask the same peers; a publish that was stored is
shared with the mesh; every
write of a handler is followed by its audit row; the MCP endpoint is a
client of its own node.

## 2. Plan

In the order of what matters most to the registry:

1. *(done)* `RevocationLedger`, `RevocationGossip`: who may come back after a
   revocation, and what peers learn of it.
2. *(done)* `CircuitBreaker`: the one stateful algorithm of the SDK.
3. *(done)* `FederatedSearch`: status of peers and merged answers.
4. *(done)* `PeerRegistration`: how the peers table fills.
5. *(done)* `PublishGate`: what tier is stored.
6. *(done)* `Resolution`: lookups among nodes that fall back on one another.
7. *(done)* `MeshListing`, `CrdtMesh`: the in-memory registries and the content
   store, and the abstract listing they implement.
8. *(done)* `DiscoveryClient`, `McpEndpoint` (which extends it): manifest
   cache, requests, sessions and tools. `RecordStore`: tables and audit log.
9. Left: a composition of `PeerRegistration` and `RevocationGossip`, in place
   of the constant `Joins`; the Go and Python clients as instances of
   `DiscoveryClient` with their own tables of methods. Every safety property a
   run checks is proved (section 7); what stays with TLC is the liveness.

## 3. Modules and code

### RevocationLedger
What revocation promises, without messages or tables: an operator revokes an
identifier at a node, which blocks it in the same step (`Revoke`); another node
may block it only after somebody has issued it (`Learn`); a client may have one
node block anything (`Post`), which no other node learns from it; nothing is
unblocked.

### RevocationGossip (MCRevocationGossip)
Any number of nodes. `resources[n]` maps a name to its row (the column `name`
is UNIQUE across kinds), `revocations[n]` is the table as a set, `peers[n]` the
status column, `propagated[n]` the flag. These survive `Crash`; `publish`,
`deletes` (handlers) do not, and `net` holds requests on the wire.

* POST /publish is cut at its awaits: `PublishStart` (the only lookup of
  revocations), `SignatureVerified`, `PolicyAllowed`, `PublishStore`, with
  `PublishRefused` at any stage. The verdicts are free here; `PublishGate` says
  what they are.
* `Update` is PUT: no revocation is looked up, and the row keeps the name of
  the path but may change its GAID.
* `DeleteResource` deletes, stores the revocation and sends one request per
  peer that is not unreachable. `Receive`, `RequestFails`, `FetchTimeout` and
  `DeleteDone` are the peer's handler, a failed request, the 5 s abort (the
  request may still arrive afterwards) and the end of `Promise.allSettled`.
* POST /federation/revocations takes no token. `ReceivePosted` is the same
  handler for a body that no DELETE made; `origin` says where a record comes
  from in truth, and is `Outsider` for those. The column `origin_node` holds
  what the client wrote, and nothing decides by it.
* `CrashInDelete`, `CrashInReceive` and `CrashInPosted` stop a node between the
  two statements of the handler; `Crash` stops it anywhere else.
* `Restart` starts it again. `reference-node/Dockerfile:20` runs the seed at
  each start unless /data/duadp.db is there, and
  `reference-node/docker-compose.yml` keeps the database elsewhere. `Reseed[n]`
  is "never", "anew" (the built-in seed: all rows and peers go and those of the
  seed come) or "over" (`DUADP_SEED_FILE`: the rows of the file replace those of
  their names). Revocations stay in every case. `AddPeer` also stands for the
  registration of DUADP_PEERS after a seed that emptied the table.

### PublishGate
One submission, from the revocation check to the answer. The stages are the
awaits of `publishResourceWithChecks` and `verifyTrustTier`. A manifest is a
record of what the checks tell apart, and a claimed tier is any name the tables
know or a number (`tier_0` to `tier_5`, `tier_9`). Three functions translate the
three views of a tier: `ParseTier` (`signature-verifier.ts`), `TierRank`
(`trust.ts`) and the literal tiers in `NeedsReview` (`confidence-gate.ts`). The
compliance service may decide anything: the properties then hold whatever
policies are loaded there (`reference-node/policies/duadp-authorization.cedar`
permits only community-tier publishing, so under it most branches are
unreachable). PUT does not pass this pipeline; it is an action of
`RevocationGossip`.

### FederatedSearch (MCFederatedSearch)
`status` is the column, `real` how a peer would answer now (the environment):
"ok", "erring", "down", or "slow", which is too late for the 3 s of a query and
in time for the 5 s of a health check.
`rounds` are health rounds, which visit peers in order, one await each; two may
overlap as `setInterval` does not wait. `queries` are `federatedFetch` or
`resolveResourceFromPeers`, which ask all peers at once. An answer and its
handling are two actions, as a status may change between them.
`DeduplicateByGaid` is the merge, a recursive function over the answers: an item
is dropped when one of the same key was there, the key (`KeyOf`) being its GAID
or else its name. Resources and keys are different sets, so that the model can
have two resources of one name. Items with neither are left out: they always
pass. That the body of an answer ends is assumed, as its timer is off by then.

### PeerRegistration (MCPeerRegistration)
`rows[n][p]` is the hop of the row for p, `boot[n]` the position of
`registerEnvPeers` in DUADP_PEERS: `Probe`, `Reach`, `Reciprocate` are its
three requests. `Register` is POST /federation with its list. Nothing validates
a hop: it is any integer here, or `NotANumber` for what becomes NaN, which
the comparison for the sender lets pass and the one for its list does not
(`TooFar`, `Near`). A string of digits
is taken for the number it is compared as.

### CircuitBreaker
The class, and callers that ask `canRequest`, send when it says yes, and record
an outcome later or never. Time is an age per URL, capped where the comparison
stops caring. In the repository only the tests construct a breaker: the callers
are the documented use.

### Resolution (MCResolution)
A request is known by the path of nodes it came along; `requests[path]` is its
handler: it answers from its own rows (`Handle`, with `Local` for the reading of
each endpoint), or asks its peers and waits for each of them. A peer has nothing
(`PeerHasNone`, which counts as degraded), refuses (`Refuses`), gives no response
in 3 s (`Aborts`, no status written), or has found something: with the headers
the timer is cleared and the peer is healthy (`HeadersArrive`), and then the
body arrives, breaks, or never ends (`BodyArrives`, `BodyBreaks`). `PeersDone` is
`Promise.allSettled`. An inspection then checks what it found
(`CheckingDone`, `InspectDone`, the awaits of `inspector.ts`). Rows may be
stored by a publish or a PUT (`Store`) or
deleted (`Revoke`), the revocation gossiped (`gossip`, `LearnRevocation`) and
the status of peers may change (`UpdateStatus` by an answer, `CheckPeer` by the
health loop) at any point of a lookup. `early` and `known` record whether the
revocation was known before and whether it was reported; two history variables
have the rows a node ever had (`had`) and the requests whose node stored a row
after it had taken them up (`late`). Nodes do not restart here.

### MeshListing, CrdtMesh (MCCrdtMesh)
`MeshListing` is the promise: a node lists only shared manifests, changes one
entry at a time and loses them only by starting over. `CrdtMesh` has the table
(`resources`), the document (`replica`), the content store (`content`, `puts`,
`adding` for puts that wait for Helia), the start of a node (`phase`) and the
messages (`net`). Publish and PUT are stored, put and gossiped where the node
has joined; the review path and DELETE touch only the table. `AddFailsUncaught`
is the rejection nobody catches (`index.ts:936`), which ends the process.
The stamp `_updatedAt` that each replica gives an entry (`crdt-registry.ts:72`)
is left out: the same listing means the same up to that field. So is the
seed at a start, which changes the table only.

### DiscoveryClient, McpEndpoint (MCMcpEndpoint)
`DiscoveryClient` has every method of `DuadpClient` as a record of what it asks
for, the routes of the node, the kept manifest and the calls. A call runs from
`Start` by `ManifestServed` and `Discovered` (the manifest is stored and the
call goes on in one step: between the two in the code there is a microtask only,
and no other continuation that stores) to `Answers` or `Aborts`, and `BodyRead`.
`NodeMoves` changes the endpoints. `McpEndpoint` extends it with the 22 tools,
the streams and the map `active` of sessions. A tool that resolves by DNS gets a
value or an error (`client.ts:848` throws on a malformed GAID). What the MCP
library makes of a posted message is not modelled: `index.ts:59` has parsed its
body before `mcp.ts:487` hands the request on, and an error of the library is
answered there (`mcp.ts:488-492`). `SessionsTrackStreams` is therefore about the
map, not about delivery.

### RecordStore (MCRecordStore)
`feedback`, `usage` and `attestations` are sequences in the order of their ids,
`resources` maps a name (UNIQUE) to its row, whose id comes from `lastId`
(AUTOINCREMENT never gives an id again). `Seed` is the one transaction of the
built-in seed: it empties the tables and inserts the seed, in which a name may
come twice (`code-reviewer` does), when the later row replaces the earlier.
`SeedItem` is one statement of the other way to seed, `DUADP_SEED_FILE`, which
empties nothing, has no transaction and logs nothing. `ReceiveRevocation` is the
receiver of a peer's revocation: it deletes by name and logs the GAID alone. A
write and its audit row are one action with two outcomes, the second being that
the process ends in between (`cuts`). Two history variables say what such an end
or a seed or a peer's revocation leaves without an event: `unlogged` counts the
rows of a table, `silent` has the names whose last write left no event of
theirs. `reader` is a client that fetches page after page: `owed` are the rows
there when it began, `seen` those it was given, `calm` that nothing it reads was
removed or moved since. `OverallScore` and `ModelBreakdown` are the aggregates,
with averages as exact fractions and scores as integers in units of 1/`Scale`,
negative ones included. The catalog's filters, which are applied to a page after
LIMIT, are left out.

## 4. Runs

| Run | Question | Instance |
|---|---|---|
| `gossip_crash` | what of a revocation survives crashes and loss; refinement of the ledger; is every DELETE answered | 2 crashing nodes, seeded over and anew at each start, 1 name, 2 GAIDs, 1 publish, 1 revocation that a client posts, lossy network |
| `gossip_names` | can a write bring a revoked identifier back | 1 node that may be its own peer, crashes and is seeded anew at each start, 2 names, 2 kinds, 3 GAIDs, 1 posted revocation |
| `gossip_live` | does a revocation reach all | 3 nodes, full mesh, two of them hosting the name; nothing lost, nothing crashes, a client may post the same revocation |
| `race_publish` | violation: a publish admitted before a revocation stores after it | as `gossip_crash`, without seeds and posts |
| `publish_gate` | which tier is stored, and what the publisher is told | every combination of tier (named and numbered), DID, signature, scores around 50 and 90 |
| `federated_search` | last word on a status; content of a merged answer; termination | 2 peers, one of them at times too slow for queries only, 2 rounds, 1 query, hits that repeat one another, two resources of one name |
| `registration` | what the peers tables end up with | 2 mutual peers and one that lists both, 2 crashing, 4 bodies, with hops at the limit, past it, negative and no number |
| `breaker` | late outcomes | 2 URLs, threshold 3, 3 requests in flight each |
| `resolution` | what lookups answer, and that they do | 2 mutual peers and a third in a ring with them, a GAID with two readings, paths of up to 4 nodes, 1 deleting node, 1 publish at a node that is asked |
| `crdt_mesh` | what the registries list; refinement of `MeshListing` | 2 nodes, one crashing, one the gossip may miss; 2 names, 2 versions, all hashes equal; 2 writes |
| `mcp_client` | which address a call goes by, where its result goes, that it ends | 2 clients, 2 calls at a time, 2 manifests, 2 streams that draw the same id |
| `records` | what tables, audit log, pages and aggregates say of one another | 2 kinds, 2 names, one of them twice in the seed, 1 agent with ratings on none, one and two dimensions in thousandths (0.996, 0.85, -0.105), pages of 1 row, 2 cuts, 2 audit rows, both seeds |

Why the bounds are enough: gossip makes one hop, so sender and receiver are two
nodes and a third adds only another receiver; the publish race needs one
request; identifier sharing needs two names and one declared GAID. Statuses are
written by one round against another and against a query, so two rounds and one
query contain each pair of writers, and two peers a round that is past one of
them. Hops: `MaxHops` 2 of the registration is reached and exceeded by the
bodies. The scores are those on both sides of every threshold; the numbered
tiers those on both sides of rank 3, from which a signature is asked. The
breaker's threshold 3 with three in flight lets a burst trip it with two
outcomes still due. In `resolution` a path of four nodes goes round each cycle
and comes back to a node that waits; a longer one repeats it. In `crdt_mesh` two
writes give each pair of orders of one entry, and a hash that never tells two
manifests apart is the worst there is. In `mcp_client` two discoveries may be
answered before and after the one move, and two streams of one id may close in
either order. In `records` pages of one row shift with every write that can move
them. Growing tables need no bound where they are sets over small constants.
Named bounds are `Posted`, `Joins`, `Declared`, `Observed`, `Request`, `Round`,
`Query`, `Post`, `Confidence`, `MaxInFlight`, `MaxHops`, `Origin`, `Watched`,
`Deleting`, `Offered`, `Sent`, `MaxWrites`, `MaxVersion`, `Direct`, `Called`,
`Given`, `MaxRows`, `MaxCuts`, `MaxAudit` and `MaxIds`. `Slow` says which peers
may be slow, `Reseed` which nodes are seeded again.

`DeleteAnswered` also counts a crash of the node as the end of the DELETE.
`CHECK_DEADLOCK FALSE` appears where the modelled work ends: `publish_gate` (one
submission), `resolution` (one GAID looked up, all requests answered) and
`mcp_client` (the slots for calls used up, the streams closed). In `gossip_live`
nothing fails, since a lost gossip is never sent again. TLAPS proves the type
invariant of every module (section 7); the runs repeat those of `Resolution` and
`RecordStore`, which say more than types (unique ids, for one).

## 5. Fairness

* `RevocationGossip`: the abort timer of each request, the end of a DELETE with
  nothing left to wait for, and the receipt of a delivered request by a node
  that is up. No client is obliged to call, no node to restart, no publish to
  end (the policy request sets no timeout of its own).
* `FederatedSearch`: the timer of the health loop, and the end of every fetch.
  The abort timer ends the wait for the headers only (`federation.ts:40-42`);
  that a body then ends is an assumption about the peer and TCP.
* `PeerRegistration`: each node is started and its requests end.
* `CircuitBreaker`: the clock, the end of every request, and clients that go on
  asking. Without the last, an open circuit nobody asks about stays open.
* `Resolution`: handlers go on, and the wait for the headers of a peer ends by
  the abort timer at the latest. No peer is obliged to answer, no body to end, no
  policy request to be decided: a request may wait for these for ever, and
  `RequestsAnswered` says that it waits for nothing else (`Untimed`). The timer is
  what ends a circle of nodes that ask one another: nothing else in the code does.
* `CrdtMesh`: a message is handed to a node that is subscribed (one that
  `Lossy` names may miss it), and Helia settles. P2P need not come up.
* `McpEndpoint`: the abort timer until the answer begins; after that the body,
  which ends with its last byte or with the connection (an assumption about TCP,
  since the client's timer is stopped by then); the raw tools, which set no
  timer, end by the defaults of `fetch`.

All of it is weak: nothing relies on an action that is enabled only now and
then being taken.

## 6. Findings

1. `race_publish` (`index.ts:138`): the revocation is checked before three
   awaits and not again. A publish in progress re-registers what a DELETE or a
   peer has revoked meanwhile, although `index.ts:78` says it cannot be.

Observed while modelling and visible in the models, with no run of their own:

* A node that seeds its database again at each start (`reference-node/Dockerfile:20`
  with the DB_PATH of `reference-node/docker-compose.yml`) lists revoked names of
  the seed again and loses rows that nobody deleted, while its revocations stay.
  `NameStaysDown`, `GaidReturnsOnlyByUpdate` and `DeletedMeansRevoked` except it.
* POST /federation/revocations has no token (`index.ts:767`): what a client posts
  blocks a GAID at that node and takes the row of the name it gives. A revocation
  of a GAID that is known ends the handler before the row (`index.ts:775`).
* `parseTier` reads any `tier_N` as N and asks for a signature from 3
  (`signature-verifier.ts:181-182`), and `trust.ts:74` leaves names it does not
  know as they are: `tier_2` is stored unsigned. `StoredTierIsEarned` says what a
  stored name does vouch for.
* A merged answer keeps one resource per GAID or bare name (`federation.ts:102-108`);
  `spec/README.md:547` has the GAID or name and node_id. Of two resources of one
  name at two nodes the later arrival is dropped.
* A lookup that waited for its peers answers 404 without looking again
  (`index.ts:813`), so that it may deny a row stored meanwhile.
* `fetchPeer` clears its timer at the headers (`federation.ts:40-42`), the client
  of the SDK too (`client.ts:757`), and the policy requests of an inspection set
  none (`cedar-evaluator.ts:117`).
* A hop is not validated (`index.ts:727-740`): one that is no number fails both the
  comparison that refuses and the one that takes a peer of the list.
* A score is rounded to hundredths (`governance.ts:202`), so that one rating of
  0.996 gives 1; nothing validates it (`governance.ts:183`).
* resource.revoked_by_peer (`index.ts:787`) does not name the resource it took.
* Discoveries of one client may overlap, and the older manifest may be the one
  that stays (`client.ts:165`). `resolveGaid` throws on a malformed GAID
  (`client.ts:848`), which its MCP tool does not catch (`mcp.ts:100`).
* A POST to /mcp/messages reaches the MCP library with its body already parsed
  (`index.ts:59`, `mcp.ts:487`).
* `propagated` is set whatever became of the requests (`revocation.ts:160`), and
  nothing reads it.
* The review path answers 202 also for a resource that `publishResource` refused
  (`index.ts:123`); `AnswerTellsStored` states what an answer does tell.
* Reciprocal registration is tried once, and a row makes every later start skip
  it (`federation.ts:237, 267`): `PeerListsBack` holds of peers that are up.
* Two nodes that are peers and look up what neither has ask one another until the
  3 s timers fire; each handler goes on and asks again. WebFinger has no hop count.
* WebFinger takes the first segment of `agent://a/b/c` for the name, resolve the
  last (`provider.ts:351`, `federation.ts:183`; `spec/README.md:119`): one GAID may
  name two resources, and a resolve that finds nothing falls back on the other
  reading of its peers. `AnswersAreTrue` says which reading an answer has.
* A DELETE or a review never reaches the registry of the mesh, and syncState,
  onSyncState, applyUpdate and delete have no caller: a late node gets nothing.
* The fallback content store names contents by a hash of 32 bits and a counter.
* The listings of `index.ts:350-458` put the length of the page for `meta.total`.
* Raw MCP tools return the body of an error status as their result.
* `npm run seed` empties the audit log, which `mcp.ts:188` calls immutable, and
  leaves the revocations.
* `/api/v1/search` and `/health` in `governance.ts` are shadowed by `index.ts`.
* Of the methods of the SDK, those for context, provenance, identity, events,
  index, delegate, query, batch and the MCP manifest have no route at the
  reference node, and the second endpoint of `getAuditLog`, /governance/audit,
  has none either; `ToolsReachRoutes` shows that no MCP tool is among them.
* `spec/README.md:523` refuses a hop `>= max_hops`, the code `> max_hops`
  (`index.ts:728`); `spec/README.md:525-535` degrades a peer after several
  failures, the node after one answer that is not 2xx, a 404 included
  (`federation.ts:160`), which is why `StatusFollowsPeer` promises for a peer in
  order only that it returns to healthy again and again; `spec/README.md:605` has
  a tier `experimental` that no table of the code knows.

## 7. Proofs

Each proof module extends the module it is about; nothing is assumed but the
named assumptions on the constants, which TLC evaluates in the runs, and one
hypothesis of `ToolsReach`, which the theorem states. Every invariant and every
action property that a passing run checks on its instance is proved here for all
instances.

`RevocationGossipProofs`, for any sets of nodes, names, GAIDs and requests:
`TypeCorrect`; `GossipIsBacked`: `StoredBeforeGossip` is inductive with
`TypeOK`, because messages and handlers are created by `DeleteResource`, which
stores first, and because revocation tables only grow (`RevocationsGrow`);
`NotifiedSound`; `NameDownForever` and `GaidDownForPublish`: the three conjuncts
of `NameDown` (revoked, gone, not in progress) are needed together, as each of
them alone can be undone, and a restart undoes them together where the node is
seeded again with that name, which both theorems except by name;
`DeletedAreBlocked`: of all the steps that take a row away, each blocks its name,
but for a node that goes down between its two statements and the built-in seed;
`LedgerRefined`: every step is a `Revoke`, a `Learn`, a `Post` or a stutter of the
ledger, where `Learn` needs `StoredBeforeGossip` to name the node that issued.
`LedgerHasNoOrphan` is a fact about the ledger alone, which the refinement carries
over to the federation as `NoBlockWithoutRevocation`: a node refuses a GAID only
if a client posted it to that very node, or a node deleted a resource under it.

`ClientProofs`, for what is built on `client.ts`. Of the breaker, for any
threshold, backoff and number of requests in flight: type, trip point, overrun
bound and `StaysOpen`. The overrun bound is inductive only together with the
trip point. Of calls and sessions, for any clients, calls, streams and ids:
`Fresh` adds to `OwnDiscoveryIsFresh` what a call knows while it has no address
(it owns no manifest and goes by none) and that the manifest it is reading is
not older than itself; `Sessions` adds that sessions and callers name streams
that exist and that an empty slot has no result. `Follows` says once what looking
for an endpoint makes of a call, for all the ways a method may go on without it.
`ToolsReach` compares the tables of tools, endpoints and routes for any sequence
of manifests, under the hypothesis that each of them has the endpoints
`index.ts` writes down but for `health` and `governance`, for which the client
has a way out; the manifests of `mcp_client` are of that kind.

`PublishGateProofs`, for any scores and every tier, named or numbered:
`PipelineInv` adds to the stored row what earlier stages know: past the
signature check a claim that needs a signature has a genuine one (`Admitted`),
and the rank never exceeds the checks done (`Ranked`). `OnlyEarnedTiers` and
`NoTierIsRaised` follow; `AnswerIsTrue` is the same for the answer and the row.

`PeerRegistrationProofs`, for any federation, environment and bodies, hops that
are no numbers included: type, the bound on hops, and `OwnPeerOnlyByName`. All
three come from one lemma, `NewRow`, which says of every row a step adds which
hop it has and who named it.

`FederatedSearchProofs`, for any peers, hits, rounds and queries: type;
`ArrivalsAreKept`: up to the merge, what a query counts as a source has all its
hits among the results, because arrivals are only added; and `SearchMergesOnce`:
`MergedSoFar` is what the merge keeps true from one remote entry to the next
(the local page in front, behind it no key twice, of each key the first that
came, which `StaysFirst` carries on), and with the second theorem that makes
`MergedOnce` of any answer. It says what is dropped, not that nothing is: a
resource goes for another of the same key, which need not be the same resource.

`CrdtMeshProofs`, for any mesh, bodies and hash: type; `SameMessages`: a replica
is a function of what was put into it where no key was written twice, whatever
the order (the invariant ties each entry to `seen`); `ContentStays`;
`MeshRefinesListing`: every step is a `Share`, a `Learn`, a `Forget` or a
stutter of `MeshListing`, where `Learn` needs that every message in flight was
shared.

`ResolutionProofs`, for any peers tables, rows, readings of a GAID and length of
path: type, `LookupsTellTheTruth`, `NotFoundIsWarranted`,
`RevocationIsReported`. None of the three properties is inductive, as each
speaks of answers that have been given. `IInv` says of requests under way how
far they can be and what they found by then (`Progress`), that nothing was found
where a peer said so, nor has appeared since unless the request is in `late`
(`NothingHere`), that what was known at the start still is (`Reported`), and
what the answer of a peer claims before it is taken up (`Documents`); `Asks` and
`Kinds` tie a request to those it made of its peers, so that the answer of a
child has the kind its parent expects.

`RecordStoreProofs`, for any seed, agents, ratings and size of page:
`RecordsTypeCorrect` and `AuditIsTold` (inductive together; what an append does
to the events of a subject and to their last one are the lemmas `Tally*` and
`Taken*`); `PagedReadsAreComplete`: `ReaderAhead` says of a reading that is not
finished that each row it owes and has not shown lies at or after the offset of
the next page, which holds because rows come in only where they cannot move it
out of reach (`AheadStays`) and because a page that is not full is the last
(`PageFull`). `ReputationsStayInRange` and `AnalyticsAlwaysAddUp` follow from the
types alone, but are about sums: `TotalAny` and `TotalUnion` show that the order
in which `MapThenSumSet` takes the members of a set does not matter, `FoldWithin`
bounds the sum of the averages, and `HundredthsWithin` the rounding: a score lies
between the least and the greatest rating, each rounded as the code rounds.

Induction over data (a merge of any length, a sum over any set) is done without
the induction theorems of the library, which take an operator as a parameter:
the least counterexample (`LeastMember`, `MinimalSet`) is refuted, and the
function that a recursive definition chooses is shown to exist first
(`MergingExists`, `SummingExists`).

Model-checked only: all liveness (`EveryPeerBlocks`, `DeleteAnswered`,
`StatusFollowsPeer`, `QueryAnswered`, `EnvPeersListed`, `PeerListsBack`,
`Reopens`, `GossipArrives`, `RequestsAnswered`, `CallsEnd`), since the prover
handles neither fairness nor ENABLED.

## 8. Not modelled

What no property catches, although the models have the steps: a row that stays
because its GAID was known (`index.ts:775`); a revocation lost by a crash between
the statements of a DELETE (`index.ts:665`), which is a stutter of the ledger; a
peer that never hears of a revocation, or joins later (`revocation.ts:129, 152`); a
reciprocal registration that a row suppresses (`federation.ts:237`); a revocation
during the checks of an inspection (`index.ts:847`); a manifest that the mesh never
gives to a late node, and one that stays listed after its DELETE; calls to
addresses a client has kept too long (`client.ts:171`). The code promises nothing
there that could be stated and held; the hazards in `PROJECT.json` say it one by
one.

* Content of resources, filters of listings by text, tag or tier, access tokens
  and actor names, key formats and canonical JSON: data that no order of events
  changes.
* The control plane, demos, CLIs, SDK router, validation and conformance suites:
  stateless, or sequences of requests. The trust, signature and policy sections
  of an inspection are those of `PublishGate`; it stores nothing.
* The compliance service and the MCP and libp2p libraries: external, modelled
  from how the node uses them.
* `acct:` identifiers of WebFinger: a third way to name a resource by its name.
* The parts of `crdt-registry.ts` and `content-store.ts` that nothing calls.
* The Go and Python SDKs: not compared with the model of the TypeScript client.
* The policies themselves: evaluated by the service, any decision is allowed for.
