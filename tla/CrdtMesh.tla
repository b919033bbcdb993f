------------------------------ MODULE CrdtMesh ------------------------------
(***************************************************************************)
(* The decentralisation layer of the reference node: GossipSub (p2p.ts),   *)
(* the Yjs registry (crdt-registry.ts), the content store                  *)
(* (content-store.ts), and the wiring of the three in index.ts.            *)
(*                                                                         *)
(* The resources table survives a restart; the registry and the content    *)
(* store are in memory.  A node serves HTTP from its start, and joins the  *)
(* mesh later, or never when P2P fails.  A POST or PUT that stores a row   *)
(* on a joined node is gossiped and put into its own registry; a message   *)
(* is put into the registry of the receiver.  No code merges documents:    *)
(* syncState, onSyncState, applyUpdate and delete have no caller.          *)
(*                                                                         *)
(* GossipSub is external: a message is handled at most once by each peer   *)
(* that is subscribed, in any order.  It is configured to accept a publish *)
(* without subscribers (allowPublishToZeroTopicPeers), so that the retries *)
(* of publishAgent never start and are left out.  The seed that a node may *)
(* run as it starts is left out as well: it shares nothing, and a row is   *)
(* looked at only to find whether there is one to update or delete.        *)
(* Revocations and the checks of a publish are in RevocationGossip and     *)
(* PublishGate.                                                            *)
(***************************************************************************)
EXTENDS Naturals

CONSTANTS Node,         \* the nodes of the mesh
          Kind,         \* values of kind
          DefaultKind,  \* 'Agent'
          Name,         \* values of metadata.name
          Unknown,      \* 'unknown'
          Absent,       \* a kind or a name the body does not give
          Body,         \* the rest of a manifest
          NoRow,        \* no row of that name in the resources table
          NoEntry,      \* no entry of that kind and name in the registry
          Hash,         \* Hash[m]: the 32-bit hash of the in-memory store
          Sent,         \* bound: the bodies clients send
          Crashable,    \* the nodes that may crash
          Lossy,        \* the nodes GossipSub may fail to reach
          MaxWrites     \* bound: POST and PUT requests in all

Manifest == [kind : Kind \cup {Absent}, name : Name \cup {Absent}, body : Body]

ASSUME MeshAssumption ==
    /\ DefaultKind \in Kind
    /\ Absent \notin Kind \cup Name
    /\ NoEntry \notin Manifest
    /\ Sent \subseteq Manifest
    /\ Crashable \subseteq Node
    /\ Lossy \subseteq Node
    /\ MaxWrites \in Nat

VARIABLES phase,      \* phase[n]: how far n has come in its start
          resources,  \* resources[n][x]: the row named x, or NoRow
          replica,    \* replica[n][<<k, x>>]: the entry x of the map of kind k
          helia,      \* helia[n]: the content store is Helia, not the fallback
          content,    \* content[n]: the store, pairs of a CID and a manifest
          puts,       \* puts[n]: the counter of the content store
          adding,     \* adding[n]: puts that wait for Helia
          net,        \* messages on their way
          writes,     \* POST and PUT requests so far
          seen,       \* history: seen[n], what was put into the replica
          shared      \* history: the manifests that were gossiped

vars == <<phase, resources, replica, helia, content, puts, adding, net,
          writes, seen, shared>>

Phase   == {"down", "booting", "joined", "httpOnly"}
Key     == Kind \X (Name \cup {Unknown})
Row     == [kind : Kind, data : Manifest]
Cid     == [hash : {Hash[m] : m \in Manifest}, seq : Nat] \cup Manifest
Stored  == [cid : Cid, manifest : Manifest]
Adding  == [manifest : Manifest, gossip : BOOLEAN]
Message == [to : Node, manifest : Manifest]
Put     == [key : Key, manifest : Manifest]

TypeOK ==
    /\ phase     \in [Node -> Phase]
    /\ resources \in [Node -> [Name -> Row \cup {NoRow}]]
    /\ replica   \in [Node -> [Key -> Manifest \cup {NoEntry}]]
    /\ helia     \in [Node -> BOOLEAN]
    /\ content   \in [Node -> SUBSET Stored]
    /\ puts      \in [Node -> Nat]
    /\ adding    \in [Node -> SUBSET Adding]
    /\ net       \in SUBSET Message
    /\ writes    \in 0..MaxWrites
    /\ seen      \in [Node -> SUBSET Put]
    /\ shared    \in SUBSET Manifest

Empty == [k \in Key |-> NoEntry]

Init ==
    /\ phase     = [n \in Node |-> "booting"]
    /\ resources = [n \in Node |-> [x \in Name |-> NoRow]]
    /\ replica   = [n \in Node |-> Empty]
    /\ helia     = [n \in Node |-> FALSE]
    /\ content   = [n \in Node |-> {}]
    /\ puts      = [n \in Node |-> 0]
    /\ adding    = [n \in Node |-> {}]
    /\ net       = {}
    /\ writes    = 0
    /\ seen      = [n \in Node |-> {}]
    /\ shared    = {}

-----------------------------------------------------------------------------
(* What a receiver files a manifest under. *)
KindOf(m) == IF m.kind = Absent THEN DefaultKind ELSE m.kind
NameOf(m) == IF m.name = Absent THEN Unknown ELSE m.name

(* Mutant: put makes a new map for the kind without looking for the old one. *)
PutEntryInNewMap(n, key, m) ==
    /\ replica' = [replica EXCEPT ![n] =
         [k \in Key |-> IF k = key THEN m
                        ELSE IF k[1] = key[1] THEN NoEntry ELSE @[k]]]
    /\ seen' = [seen EXCEPT ![n] = @ \cup {[key |-> key, manifest |-> m]}]

(* CRDTRegistry.put: the entry is replaced whole, in the map of its kind.    *)
(* The time that put adds to it, _updatedAt, is left out: it is that of the *)
(* node's own clock and differs from node to node.                         *)
PutEntry(n, key, m) ==
    /\ replica' = [replica EXCEPT ![n] = [@ EXCEPT ![key] = m]]
    /\ seen' = [seen EXCEPT ![n] = @ \cup {[key |-> key, manifest |-> m]}]

(* Mutant: the fallback key is the hash alone. *)
CidByHash(n, m) ==
    IF helia[n] THEN m ELSE [hash |-> Hash[m], seq |-> 0]

(* Helia: the content. In memory: a 32-bit hash and a counter. *)
CidOf(n, m) ==
    IF helia[n] THEN m ELSE [hash |-> Hash[m], seq |-> puts[n]]

(* The store is a Map: the last manifest put under a key is the one kept. *)
StoreContent(n, m) ==
    /\ content' = [content EXCEPT ![n] =
         {s \in @ : s.cid # CidOf(n, m)} \cup {[cid |-> CidOf(n, m), manifest |-> m]}]
    /\ puts' = [puts EXCEPT ![n] = @ + 1]

(* ContentStore.put: at once in memory, after an await with Helia. *)
PutContent(n, m, gossip) ==
    \/ /\ helia[n]
       /\ adding' = [adding EXCEPT ![n] = @ \cup {[manifest |-> m, gossip |-> gossip]}]
       /\ UNCHANGED <<content, puts>>
    \/ /\ ~ helia[n]
       /\ StoreContent(n, m)
       /\ UNCHANGED adding

(* The end of a successful POST or PUT: nothing unless n has joined. *)
ShareIfJoined(n, key, m) ==
    \/ /\ phase[n] = "joined"
       /\ net' = net \cup [to : Node \ {n}, manifest : {m}]
       /\ shared' = shared \cup {m}
       /\ PutEntry(n, key, m)
       /\ PutContent(n, m, FALSE)
    \/ /\ phase[n] # "joined"
       /\ UNCHANGED <<net, shared, replica, seen, content, puts, adding>>

StoreRow(n, x, k, m) ==
    /\ phase[n] # "down"
    /\ writes < MaxWrites
    /\ writes' = writes + 1
    /\ resources' = [resources EXCEPT ![n][x] = [kind |-> k, data |-> m]]

-----------------------------------------------------------------------------
(* The handlers.  None of them waits between the row and the registry. *)

(* POST, when every check says proceed. *)
Publish(n, m) ==
    /\ m.kind # Absent
    /\ m.name # Absent
    /\ StoreRow(n, m.name, m.kind, m)
    /\ ShareIfJoined(n, <<m.kind, m.name>>, m)
    /\ UNCHANGED <<phase, helia>>

(* Mutant: put is no longer under the condition that n shares. *)
PublishForReviewListed(n, m) ==
    /\ m.kind # Absent
    /\ m.name # Absent
    /\ StoreRow(n, m.name, m.kind, m)
    /\ PutEntry(n, <<m.kind, m.name>>, m)
    /\ UNCHANGED <<phase, helia, content, puts, adding, net, shared>>

(* POST, when the confidence gate asks for human review: stored, not shared. *)
PublishForReview(n, m) ==
    /\ m.kind # Absent
    /\ m.name # Absent
    /\ StoreRow(n, m.name, m.kind, m)
    /\ UNCHANGED <<phase, replica, helia, content, puts, adding, net, seen, shared>>

(* PUT /api/v1/<k>/:x: any body for an existing row.  The node files it      *)
(* under the name of the path and the kind of the body.                    *)
Update(n, k, x, m) ==
    /\ resources[n][x] # NoRow
    /\ resources[n][x].kind = k
    /\ StoreRow(n, x, k, m)
    /\ ShareIfJoined(n, <<IF m.kind = Absent THEN k ELSE m.kind, x>>, m)
    /\ UNCHANGED <<phase, helia>>

(* DELETE: the registry is left as it is. *)
Delete(n, k, x) ==
    /\ phase[n] # "down"
    /\ resources[n][x] # NoRow
    /\ resources[n][x].kind = k
    /\ resources' = [resources EXCEPT ![n][x] = NoRow]
    /\ UNCHANGED <<phase, replica, helia, content, puts, adding, net, writes,
                   seen, shared>>

-----------------------------------------------------------------------------
(* The mesh. *)

(* Mutant: a node keeps the entry it has. *)
ReceiveIfNew(msg) ==
    /\ msg \in net
    /\ phase[msg.to] = "joined"
    /\ net' = net \ {msg}
    /\ LET n == msg.to
           m == msg.manifest
           key == <<KindOf(m), NameOf(m)>> IN
         /\ IF replica[n][key] # NoEntry THEN UNCHANGED <<replica, seen>>
                                         ELSE PutEntry(n, key, m)
         /\ PutContent(n, m, TRUE)
    /\ UNCHANGED <<phase, resources, helia, writes, shared>>

(* The message listener and the handler index.ts gives to onAgentPublished: *)
(* neither the resources nor the revocations table is looked at.           *)
Receive(msg) ==
    /\ msg \in net
    /\ phase[msg.to] = "joined"
    /\ net' = net \ {msg}
    /\ LET m == msg.manifest IN
         /\ PutEntry(msg.to, <<KindOf(m), NameOf(m)>>, m)
         /\ PutContent(msg.to, m, TRUE)
    /\ UNCHANGED <<phase, resources, helia, writes, shared>>

(* A message is kept for late subscribers for a few heartbeats only. *)
Lost(msg) ==
    /\ msg \in net
    /\ msg.to \in Lossy \/ phase[msg.to] # "joined"
    /\ net' = net \ {msg}
    /\ UNCHANGED <<phase, resources, replica, helia, content, puts, adding,
                   writes, seen, shared>>

(* Helia has added the block. *)
Added(n, a) ==
    /\ a \in adding[n]
    /\ StoreContent(n, a.manifest)
    /\ adding' = [adding EXCEPT ![n] = @ \ {a}]
    /\ UNCHANGED <<phase, resources, replica, helia, net, writes, seen, shared>>

(* Helia rejects a manifest of this node: logged (.catch). *)
AddFails(n, a) ==
    /\ a \in adding[n]
    /\ ~ a.gossip
    /\ adding' = [adding EXCEPT ![n] = @ \ {a}]
    /\ UNCHANGED <<phase, resources, replica, helia, content, puts, net, writes,
                   seen, shared>>

-----------------------------------------------------------------------------
(* Start and crash. *)

StopProcess(n) ==
    /\ phase' = [phase EXCEPT ![n] = "down"]
    /\ replica' = [replica EXCEPT ![n] = Empty]
    /\ content' = [content EXCEPT ![n] = {}]
    /\ puts' = [puts EXCEPT ![n] = 0]
    /\ adding' = [adding EXCEPT ![n] = {}]
    /\ seen' = [seen EXCEPT ![n] = {}]
    /\ UNCHANGED <<resources, helia, net, writes, shared>>

Crash(n) ==
    /\ n \in Crashable
    /\ phase[n] # "down"
    /\ StopProcess(n)

(* Helia rejects a manifest that came by gossip: nothing catches the error of *)
(* the async handler, and an unhandled rejection ends the process.          *)
AddFailsUncaught(n, a) ==
    /\ n \in Crashable
    /\ a \in adding[n]
    /\ a.gossip
    /\ StopProcess(n)

Restart(n) ==
    /\ phase[n] = "down"
    /\ phase' = [phase EXCEPT ![n] = "booting"]
    /\ UNCHANGED <<resources, replica, helia, content, puts, adding, net, writes,
                   seen, shared>>

(* createContentStore settles for Helia or the fallback, createP2PNode       *)
(* subscribes, and the handler is set before any message can come in.      *)
Join(n) ==
    /\ phase[n] = "booting"
    /\ phase' = [phase EXCEPT ![n] = "joined"]
    /\ \E h \in BOOLEAN : helia' = [helia EXCEPT ![n] = h]
    /\ UNCHANGED <<resources, replica, content, puts, adding, net, writes, seen,
                   shared>>

(* "Node continues with HTTP federation only." *)
JoinFails(n) ==
    /\ phase[n] = "booting"
    /\ phase' = [phase EXCEPT ![n] = "httpOnly"]
    /\ UNCHANGED <<resources, replica, helia, content, puts, adding, net, writes,
                   seen, shared>>

-----------------------------------------------------------------------------
Writing ==
    \E n \in Node :
        \/ \E m \in Sent : Publish(n, m) \/ PublishForReview(n, m)
        \/ \E k \in Kind, x \in Name :
              \/ \E m \in Sent : Update(n, k, x, m)
              \/ Delete(n, k, x)

Gossiping == \E msg \in net : Receive(msg) \/ Lost(msg)

Storing ==
    \E n \in Node : \E a \in adding[n] :
        Added(n, a) \/ AddFails(n, a) \/ AddFailsUncaught(n, a)

Starting == \E n \in Node : Crash(n) \/ Restart(n) \/ Join(n) \/ JoinFails(n)

Next == Writing \/ Gossiping \/ Storing \/ Starting

Spec == Init /\ [][Next]_vars

(* GossipSub delivers to a peer that stays subscribed, unless it loses the   *)
(* message; Helia answers.  Nothing obliges P2P to come up.                *)
Fairness ==
    /\ \A msg \in Message : WF_vars(Receive(msg))
    /\ \A n \in Node, a \in Adding : WF_vars(Added(n, a))

FairSpec == Spec /\ Fairness

-----------------------------------------------------------------------------
(* Properties. *)

(* No two manifests were put under one key. *)
Apart(log) == \A a, b \in log : a.key = b.key => a = b

(* crdt-registry.ts:4-6: nodes that were given the same manifests list the   *)
(* same manifests, in whatever order they came and whatever was lost or     *)
(* restarted on the way; but only if no kind and name was written twice, as *)
(* entries are replaced in order of arrival.  The same holds of manifests,  *)
(* not of entries: each node stamps its own with its own time.  And it says *)
(* nothing of nodes that were given different manifests.                   *)
SameMessagesSameListing ==
    \A n, p \in Node :
        seen[n] = seen[p] /\ Apart(seen[n]) => replica[n] = replica[p]

(* A CID that was handed out keeps naming its manifest until the process     *)
(* ends, also in the fallback, whose hash has 32 bits.                     *)
StoredStaysResolvable ==
    [][\A n \in Node : phase'[n] # "down" => content[n] \subseteq content'[n]]_vars

(* What is gossiped to a subscribed node that loses nothing is listed by it  *)
(* at some time, unless the node stops.                                    *)
GossipArrives ==
    \A n \in Node \ Lossy, m \in Sent :
        [to |-> n, manifest |-> m] \in net /\ phase[n] = "joined" ~>
            \/ replica[n][<<KindOf(m), NameOf(m)>>] = m
            \/ phase[n] # "joined"

(* The mesh keeps the promise of MeshListing: no review, late message,       *)
(* failed write or restart lists what was not shared, and nothing, not even *)
(* a DELETE, takes an entry out of a running node.                         *)
Listing == INSTANCE MeshListing WITH listed <- replica

ImplementsListing == Listing!ListingSpec
=============================================================================
