-------------------------- MODULE RevocationGossip --------------------------
(***************************************************************************)
(* The write side of a federation of DUADP reference nodes: publishing,    *)
(* replacing and deleting resources, and the gossip of revocations.        *)
(*                                                                         *)
(* A node is one Node.js process with one SQLite file.  The resources,     *)
(* revocations and peers tables survive a crash; the handlers in progress  *)
(* do not.  A handler runs without interruption between two awaits that    *)
(* do real I/O, so each action below is the code between two such awaits.  *)
(* Publishing awaits three times (publisher signature, policy, trust tier) *)
(* and checks revocation only before the first.                            *)
(*                                                                         *)
(* The verdicts of the signature, policy and trust checks depend on data   *)
(* this module leaves out: they are nondeterministic here.  Reads (list,   *)
(* resolve, inspect) change nothing and are left out.                      *)
(*                                                                         *)
(* POST /federation/revocations asks for no token: besides the peers, any  *)
(* client may post a revocation there.  The field origin below says where  *)
(* a record comes from in truth, a node's DELETE or such a client; the     *)
(* column origin_node of a client's row holds what the client wrote, and   *)
(* nothing decides by it.                                                  *)
(*                                                                         *)
(* The image starts a node by seed.ts unless the file /data/duadp.db is     *)
(* there, which it never is where DB_PATH names another one: such a node    *)
(* (Reseed) seeds its database again at every start.                       *)
(***************************************************************************)
EXTENDS Naturals

CONSTANTS Node,         \* the nodes of the federation
          Name,         \* values of metadata.name
          Kind,         \* Skill, Agent, Tool
          Gaid,         \* values of identity.gaid and of agent://<name>
          NoGaid,       \* a manifest that declares no identity.gaid
          DefaultGaid,  \* DefaultGaid[x] stands for agent://x
          Request,      \* publish requests that can be in progress at once
          NoRow,        \* no row of that name in the resources table
          Seed,         \* Seed[n][x]: the row seed.ts put there, or NoRow
          Reseed,       \* Reseed[n]: what seed.ts does when n starts again
          InitPeers,    \* InitPeers[n]: the peers n got from DUADP_PEERS
          Outsider,     \* the origin of a revocation that a client posts
          Crashable,    \* the nodes that may crash and restart
          Lossy,        \* whether requests between nodes can fail
          Posted,       \* bound: the revocations that clients may post
          Joins,        \* bound: pairs <<n, p>> such that p may register at n
          Declared,     \* bound: what a manifest may declare as its GAID
          Observed      \* bound: the peer statuses a fetch may report

Manifest == [kind : Kind, gaid : Gaid \cup {NoGaid}]
Status   == {"absent", "healthy", "degraded", "unreachable"}
Stage    == {"signature", "policy", "trust"}

(* What a node's own DELETE records, and what a client may make up.        *)
OwnRecord  == [gaid : Gaid, name : Name, origin : Node]
Revocation == OwnRecord \cup [gaid : Gaid, name : Name, origin : {Outsider}]

ASSUME ConstantsAssumption ==
    /\ DefaultGaid \in [Name -> Gaid]
    /\ NoGaid \notin Gaid
    /\ NoRow \notin Manifest
    /\ Seed \in [Node -> [Name -> Manifest \cup {NoRow}]]
    /\ Reseed \in [Node -> {"never", "anew", "over"}]
    /\ InitPeers \in [Node -> SUBSET Node]
    /\ Outsider \notin Node
    /\ Crashable \subseteq Node
    /\ Lossy \in BOOLEAN
    /\ Crashable # {} => Lossy
    /\ Posted \subseteq [gaid : Gaid, name : Name, origin : {Outsider}]
    /\ Joins \subseteq Node \X Node
    /\ Declared \subseteq Gaid \cup {NoGaid}
    /\ Observed \subseteq Status \ {"absent"}

VARIABLES up,          \* up[n]: the process of n is running
          resources,   \* resources[n][x]: the row named x, or NoRow
          revocations, \* revocations[n]: the rows of the revocations table
          propagated,  \* propagated[n]: those marked propagated = 1
          peers,       \* peers[n][p]: status of p in n's peers table
          publish,     \* publish[r]: the publish handler serving request r
          deletes,     \* deletes[n]: DELETE handlers waiting for their peers
          net          \* gossip requests sent and not yet handled

vars == <<up, resources, revocations, propagated, peers, publish, deletes, net>>

-----------------------------------------------------------------------------
(* The data the handlers work on. *)

Handler    == [stage : Stage, node : Node, name : Name, kind : Kind,
               gaid : Gaid \cup {NoGaid}]
Idle       == [stage |-> "idle"]
Delete     == [rec : OwnRecord, waiting : SUBSET Node, notified : SUBSET Node]
Message    == [dst : Node, rec : OwnRecord]

(* The identifier of a manifest stored or published under the name x. *)
GaidOf(x, g) == IF g = NoGaid THEN DefaultGaid[x] ELSE g

IsRevoked(n, g)     == \E rec \in revocations[n] : rec.gaid = g
IsNameRevoked(n, x) == \E rec \in revocations[n] : rec.name = x

InProgress(r, n) == publish[r] # Idle /\ publish[r].node = n

TypeOK ==
    /\ up          \in [Node -> BOOLEAN]
    /\ resources   \in [Node -> [Name -> Manifest \cup {NoRow}]]
    /\ revocations \in [Node -> SUBSET Revocation]
    /\ propagated  \in [Node -> SUBSET Revocation]
    /\ peers       \in [Node -> [Node -> Status]]
    /\ publish     \in [Request -> Handler \cup {Idle}]
    /\ deletes     \in [Node -> SUBSET Delete]
    /\ net         \in SUBSET Message

Init ==
    /\ up          = [n \in Node |-> TRUE]
    /\ resources   = Seed
    /\ revocations = [n \in Node |-> {}]
    /\ propagated  = [n \in Node |-> {}]
    /\ peers       = [n \in Node |-> [p \in Node |->
                        IF p \in InitPeers[n] THEN "healthy" ELSE "absent"]]
    /\ publish     = [r \in Request |-> Idle]
    /\ deletes     = [n \in Node |-> {}]
    /\ net         = {}

-----------------------------------------------------------------------------
(* Tables: what the SQL statements do. *)

(* INSERT OR REPLACE, keyed by the UNIQUE name whatever the kind. *)
PublishResource(n, x, k, g) ==
    resources' = [resources EXCEPT ![n][x] = [kind |-> k, gaid |-> g]]

(* Mutant: one row per GAID, a second name revoked under it is not kept. *)
StoreRevocationOncePerGaid(n, rec) ==
    revocations' = [revocations EXCEPT ![n] =
        IF \E old \in @ : old.gaid = rec.gaid THEN @ ELSE @ \cup {rec}]

(* INSERT, append only; rows that differ in time or reason alone are one. *)
StoreRevocation(n, rec) ==
    revocations' = [revocations EXCEPT ![n] = @ \cup {rec}]

DeleteByName(n, x) == resources' = [resources EXCEPT ![n][x] = NoRow]

(* The peers propagateRevocation and federated search talk to. *)
HealthyPeers(n) == {p \in Node : peers[n][p] \notin {"absent", "unreachable"}}

-----------------------------------------------------------------------------
(* POST /api/v1/publish: publishResourceWithChecks. *)

(* Mutant: only the GAID of the manifest is looked up. *)
PublishStartIgnoresName(r, n, x, k, g) ==
    /\ up[n]
    /\ publish[r] = Idle
    /\ ~ IsRevoked(n, GaidOf(x, g))
    /\ publish' = [publish EXCEPT ![r] =
         [stage |-> "signature", node |-> n, name |-> x, kind |-> k, gaid |-> g]]
    /\ UNCHANGED <<up, resources, revocations, propagated, peers, deletes, net>>

(* Mutant: only the name of the manifest is looked up. *)
PublishStartIgnoresGaid(r, n, x, k, g) ==
    /\ up[n]
    /\ publish[r] = Idle
    /\ ~ IsNameRevoked(n, x)
    /\ publish' = [publish EXCEPT ![r] =
         [stage |-> "signature", node |-> n, name |-> x, kind |-> k, gaid |-> g]]
    /\ UNCHANGED <<up, resources, revocations, propagated, peers, deletes, net>>

(* Up to the first await: the manifest is admitted unless its GAID or its  *)
(* name is revoked here (a refusal changes nothing).                       *)
PublishStart(r, n, x, k, g) ==
    /\ up[n]
    /\ publish[r] = Idle
    /\ ~ IsRevoked(n, GaidOf(x, g))
    /\ ~ IsNameRevoked(n, x)
    /\ publish' = [publish EXCEPT ![r] =
         [stage |-> "signature", node |-> n, name |-> x, kind |-> k, gaid |-> g]]
    /\ UNCHANGED <<up, resources, revocations, propagated, peers, deletes, net>>

SignatureVerified(r) ==
    /\ publish[r] # Idle
    /\ publish[r].stage = "signature"
    /\ publish' = [publish EXCEPT ![r].stage = "policy"]
    /\ UNCHANGED <<up, resources, revocations, propagated, peers, deletes, net>>

(* 403: signature missing, policy Deny, or rejected by the confidence gate. *)
PublishRefused(r) ==
    /\ publish[r] # Idle
    /\ publish[r].stage \in {"signature", "policy"}
    /\ publish' = [publish EXCEPT ![r] = Idle]
    /\ UNCHANGED <<up, resources, revocations, propagated, peers, deletes, net>>

(* Policy allows and the confidence gate says proceed: await the tier check. *)
PolicyAllowed(r) ==
    /\ publish[r] # Idle
    /\ publish[r].stage = "policy"
    /\ publish' = [publish EXCEPT ![r].stage = "trust"]
    /\ UNCHANGED <<up, resources, revocations, propagated, peers, deletes, net>>

(* The row is written: after the tier check, or straight after the policy   *)
(* when the gate says human_review (202, degraded tier).                   *)
PublishStore(r) ==
    /\ publish[r] # Idle
    /\ publish[r].stage \in {"policy", "trust"}
    /\ LET h == publish[r] IN PublishResource(h.node, h.name, h.kind, h.gaid)
    /\ publish' = [publish EXCEPT ![r] = Idle]
    /\ UNCHANGED <<up, revocations, propagated, peers, deletes, net>>

(* PUT /api/v1/<kind>/:name rewrites the data of an existing row, which     *)
(* may declare another GAID.                                               *)
Update(n, x, k, g) ==
    /\ up[n]
    /\ resources[n][x] # NoRow
    /\ resources[n][x].kind = k
    /\ resources' = [resources EXCEPT ![n][x].gaid = g]
    /\ UNCHANGED <<up, revocations, propagated, peers, publish, deletes, net>>

-----------------------------------------------------------------------------
(* DELETE /api/v1/<kind>/:name and propagateRevocation. *)

RevocationOf(n, x) ==
    [gaid |-> GaidOf(x, resources[n][x].gaid), name |-> x, origin |-> n]

(* Mutant: the peers are told before the revocation is stored. *)
DeleteGossipsFirst(n, x, k) ==
    /\ up[n]
    /\ resources[n][x] # NoRow
    /\ resources[n][x].kind = k
    /\ LET rec == RevocationOf(n, x) IN
         /\ deletes' = [deletes EXCEPT ![n] = @ \cup
              {[rec |-> rec, waiting |-> HealthyPeers(n), notified |-> {}]}]
         /\ net' = net \cup [dst : HealthyPeers(n), rec : {rec}]
    /\ DeleteByName(n, x)
    /\ UNCHANGED <<up, revocations, propagated, peers, publish>>

(* Up to the first real await: the row goes, the revocation is stored, and  *)
(* one request leaves for every peer of the snapshot.                      *)
DeleteResource(n, x, k) ==
    /\ up[n]
    /\ resources[n][x] # NoRow
    /\ resources[n][x].kind = k
    /\ LET rec == RevocationOf(n, x) IN
         /\ StoreRevocation(n, rec)
         /\ deletes' = [deletes EXCEPT ![n] = @ \cup
              {[rec |-> rec, waiting |-> HealthyPeers(n), notified |-> {}]}]
         /\ net' = net \cup [dst : HealthyPeers(n), rec : {rec}]
    /\ DeleteByName(n, x)
    /\ UNCHANGED <<up, propagated, peers, publish>>

(* The handler d of node n goes on as e. *)
ReplaceDelete(n, d, e) ==
    deletes' = [deletes EXCEPT ![n] = (@ \ {d}) \cup {e}]

(* Every DELETE of m's origin that waits for this answer gets it: ok says   *)
(* whether the answer was a 2xx that arrived.                              *)
Answered(m, ok) ==
    [n \in Node |-> IF n # m.rec.origin THEN deletes[n] ELSE
        {IF d.rec = m.rec /\ m.dst \in d.waiting
         THEN [d EXCEPT !.waiting = @ \ {m.dst},
                        !.notified = IF ok THEN @ \cup {m.dst} ELSE @]
         ELSE d : d \in deletes[n]}]

(* Mutant: a request without an abort signal. *)
FetchNeverTimesOut(n, d, p) == FALSE

(* AbortSignal.timeout(5000): n gives up on p, whose request may yet arrive. *)
FetchTimeout(n, d, p) ==
    /\ up[n]
    /\ d \in deletes[n]
    /\ p \in d.waiting
    /\ ReplaceDelete(n, d, [d EXCEPT !.waiting = @ \ {p}])
    /\ UNCHANGED <<up, resources, revocations, propagated, peers, publish, net>>

(* Promise.allSettled: every request has an outcome, whichever it is; all   *)
(* rows of the GAID are marked and the DELETE is answered.                 *)
DeleteDone(n, d) ==
    /\ up[n]
    /\ d \in deletes[n]
    /\ d.waiting = {}
    /\ propagated' = [propagated EXCEPT ![n] = @ \cup
                        {rec \in revocations[n] : rec.gaid = d.rec.gaid}]
    /\ deletes' = [deletes EXCEPT ![n] = @ \ {d}]
    /\ UNCHANGED <<up, resources, revocations, peers, publish, net>>

-----------------------------------------------------------------------------
(* POST /api/v1/federation/revocations, the receiver. *)

(* Mutant: a revocation of a resource that is not hosted here is ignored. *)
ApplyRevocationIfHosted(n, rec) ==
    \/ /\ IsRevoked(n, rec.gaid) \/ resources[n][rec.name] = NoRow
       /\ UNCHANGED <<revocations, resources>>
    \/ /\ ~ IsRevoked(n, rec.gaid)
       /\ resources[n][rec.name] # NoRow
       /\ StoreRevocation(n, rec)
       /\ DeleteByName(n, rec.name)

(* A GAID that is already revoked here ends the handler before the row is   *)
(* looked at; a new one is stored and the row of that name removed.        *)
ApplyRevocation(n, rec) ==
    \/ /\ IsRevoked(n, rec.gaid)
       /\ UNCHANGED <<revocations, resources>>
    \/ /\ ~ IsRevoked(n, rec.gaid)
       /\ StoreRevocation(n, rec)
       /\ DeleteByName(n, rec.name)

(* From a peer that deleted a resource. *)
Receive(m) ==
    /\ m \in net
    /\ up[m.dst]
    /\ ApplyRevocation(m.dst, m.rec)
    /\ net' = net \ {m}
    /\ \E ok \in IF Lossy THEN BOOLEAN ELSE {TRUE} : deletes' = Answered(m, ok)
    /\ UNCHANGED <<up, propagated, peers, publish>>

(* From anybody else; whatever comes of it, the node passes nothing on.     *)
ReceivePosted(n, rec) ==
    /\ up[n]
    /\ ApplyRevocation(n, rec)
    /\ UNCHANGED <<up, propagated, peers, publish, deletes, net>>

(* Connection refused, reset or lost before the receiver ran. *)
RequestFails(m) ==
    /\ Lossy
    /\ m \in net
    /\ net' = net \ {m}
    /\ deletes' = Answered(m, FALSE)
    /\ UNCHANGED <<up, resources, revocations, propagated, peers, publish>>

-----------------------------------------------------------------------------
(* Peers: registration, and the status the health loop and the federated    *)
(* fetches write.                                                          *)

(* By POST /federation, or from DUADP_PEERS in a table the seed emptied.    *)
AddPeer(n, p) ==
    /\ up[n]
    /\ <<n, p>> \in Joins \/ p \in InitPeers[n]
    /\ peers[n][p] = "absent"
    /\ peers' = [peers EXCEPT ![n][p] = "healthy"]
    /\ UNCHANGED <<up, resources, revocations, propagated, publish, deletes, net>>

UpdatePeerStatus(n, p, s) ==
    /\ up[n]
    /\ peers[n][p] # "absent"
    /\ peers' = [peers EXCEPT ![n][p] = s]
    /\ UNCHANGED <<up, resources, revocations, propagated, publish, deletes, net>>

-----------------------------------------------------------------------------
(* Crashes.  No two statements of a handler share a transaction.            *)

Stop(n) ==
    /\ n \in Crashable
    /\ up[n]
    /\ up' = [up EXCEPT ![n] = FALSE]
    /\ publish' = [r \in Request |-> IF InProgress(r, n) THEN Idle ELSE publish[r]]
    /\ deletes' = [deletes EXCEPT ![n] = {}]
    /\ UNCHANGED propagated

(* Mutant: the revocations are kept in memory only. *)
CrashForgetsRevocations(n) ==
    /\ Stop(n)
    /\ revocations' = [revocations EXCEPT ![n] = {}]
    /\ UNCHANGED <<resources, peers, net>>

Crash(n) ==
    /\ Stop(n)
    /\ UNCHANGED <<resources, revocations, peers, net>>

(* Between deleteResource and storeRevocation. *)
CrashInDelete(n, x) ==
    /\ resources[n][x] # NoRow
    /\ Stop(n)
    /\ DeleteByName(n, x)
    /\ UNCHANGED <<revocations, peers, net>>

(* Between storeRevocation and the DELETE statement of the receiver. *)
CrashAfterStoring(n, rec) ==
    /\ ~ IsRevoked(n, rec.gaid)
    /\ Stop(n)
    /\ StoreRevocation(n, rec)
    /\ UNCHANGED <<resources, peers>>

CrashInReceive(m) ==
    /\ m \in net
    /\ CrashAfterStoring(m.dst, m.rec)
    /\ net' = net \ {m}

CrashInPosted(n, rec) ==
    /\ CrashAfterStoring(n, rec)
    /\ UNCHANGED net

(* The rows of n once it has started again.  The built-in seed empties the  *)
(* table first ("anew"), a seed file is written over it ("over"); neither   *)
(* looks at the revocations, and neither touches them.                     *)
StartedRows(n) ==
    [x \in Name |->
        IF \/ Reseed[n] = "never"
           \/ Reseed[n] = "over" /\ Seed[n][x] = NoRow
        THEN resources[n][x]
        ELSE Seed[n][x]]

(* The built-in seed empties the peers table as well.                      *)
StartedPeers(n) ==
    IF Reseed[n] = "anew" THEN [p \in Node |-> "absent"] ELSE peers[n]

Restart(n) ==
    /\ ~ up[n]
    /\ up' = [up EXCEPT ![n] = TRUE]
    /\ resources' = [resources EXCEPT ![n] = StartedRows(n)]
    /\ peers' = [peers EXCEPT ![n] = StartedPeers(n)]
    /\ UNCHANGED <<revocations, propagated, publish, deletes, net>>

-----------------------------------------------------------------------------
Publishing ==
    \E r \in Request :
        \/ \E n \in Node, x \in Name, k \in Kind, g \in Declared :
              PublishStart(r, n, x, k, g)
        \/ SignatureVerified(r)
        \/ PublishRefused(r)
        \/ PolicyAllowed(r)
        \/ PublishStore(r)

Writing ==
    \E n \in Node, x \in Name, k \in Kind :
        \/ \E g \in Declared : Update(n, x, k, g)
        \/ DeleteResource(n, x, k)

Propagating ==
    \/ \E n \in Node : \E d \in deletes[n] :
          \/ \E p \in d.waiting : FetchTimeout(n, d, p)
          \/ DeleteDone(n, d)
    \/ \E m \in net : Receive(m) \/ RequestFails(m)
    \/ \E n \in Node, rec \in Posted : ReceivePosted(n, rec)

Peering ==
    \E n, p \in Node :
        \/ AddPeer(n, p)
        \/ \E s \in Observed : UpdatePeerStatus(n, p, s)

Crashing ==
    \/ \E n \in Node : Crash(n) \/ Restart(n)
    \/ \E n \in Node, x \in Name : CrashInDelete(n, x)
    \/ \E m \in net : CrashInReceive(m)
    \/ \E n \in Node, rec \in Posted : CrashInPosted(n, rec)

Next == Publishing \/ Writing \/ Propagating \/ Peering \/ Crashing

Spec == Init /\ [][Next]_vars

(* The abort timer of every request fires, a DELETE whose requests are all  *)
(* settled goes on, and a node that is up answers what reaches it.  Nothing *)
(* obliges a crashed node to restart, a client to call, or a publish to end *)
(* (the policy fetch sets no timeout of its own).                           *)
Fairness ==
    /\ \A n \in Node :
         /\ WF_vars(\E d \in deletes[n] : \E p \in d.waiting : FetchTimeout(n, d, p))
         /\ WF_vars(\E d \in deletes[n] : DeleteDone(n, d))
    /\ \A m \in Message : WF_vars(Receive(m))

FairSpec == Spec /\ Fairness

-----------------------------------------------------------------------------
(* Properties. *)

(* A node hears of a DELETE's revocation only when the origin has it on     *)
(* disk: DELETE stores before it gossips, so no crash can leave peers       *)
(* blocking, in the name of a node, a GAID which that node would accept     *)
(* again.  What a client posts has no such node behind it, and stays where  *)
(* it was posted: it is in no message and in no DELETE.                    *)
StoredBeforeGossip ==
    LET Stored(rec) == rec.origin # Outsider => rec \in revocations[rec.origin] IN
    /\ \A m \in net : Stored(m.rec)
    /\ \A n \in Node : \A rec \in revocations[n] : Stored(rec)
    /\ \A n \in Node : \A d \in deletes[n] : Stored(d.rec)

(* The peers a DELETE will count as notified do block the GAID, whatever    *)
(* was lost, already known or restarted since.                             *)
NotifiedPeersBlock ==
    \A n \in Node : \A d \in deletes[n] : \A p \in d.notified :
        IsRevoked(p, d.rec.gaid)

(* Nothing called x is stored at n, being published there, or admissible.   *)
NameDown(n, x) ==
    /\ IsNameRevoked(n, x)
    /\ resources[n][x] = NoRow
    /\ \A r \in Request : InProgress(r, n) => publish[r].name # x

(* n starts again, and seed.ts puts a row named x into its table. *)
Reseeded(n, x) ==
    ~ up[n] /\ up'[n] /\ Reseed[n] # "never" /\ Seed[n][x] # NoRow

(* Once a revoked name is gone and the publishes admitted before the        *)
(* revocation have ended, it does not return at that node by POST, PUT,     *)
(* gossip however late or a restart: only the seed brings it back, at a     *)
(* node that runs it at every start, and only a name the seed contains.     *)
NameStaysDown ==
    [][\A n \in Node, x \in Name :
         NameDown(n, x) => NameDown(n, x)' \/ Reseeded(n, x)]_vars

Serves(n, x, g) ==
    resources[n][x] # NoRow /\ GaidOf(x, resources[n][x].gaid) = g

(* The same for a revoked GAID. *)
GaidDown(n, g) ==
    /\ IsRevoked(n, g)
    /\ \A x \in Name : ~ Serves(n, x, g)
    /\ \A r \in Request :
         InProgress(r, n) => GaidOf(publish[r].name, publish[r].gaid) # g

(* A revoked GAID can come back only where a row stood before and after,    *)
(* through the PUT that renames it, or with a row of the seed at a node     *)
(* that runs it at every start: never through a publish.                   *)
GaidReturnsOnlyByUpdate ==
    [][\A n \in Node, g \in Gaid :
         GaidDown(n, g) =>
            \/ GaidDown(n, g)'
            \/ \E x \in Name : /\ Serves(n, x, g)'
                               /\ resources[n][x] # NoRow \/ Reseeded(n, x)]_vars

(* No row disappears but its name is blocked from then on, whether a DELETE, *)
(* a peer's gossip or a client's post removed it; only a node that goes down *)
(* in that very step, between the two statements of a DELETE, may have lost  *)
(* the block, and the built-in seed, run at every start, empties the table   *)
(* without blocking anything.  A row that the receiver leaves in place, as   *)
(* its GAID was known already, is not a removal and not spoken of here.      *)
DeletedMeansRevoked ==
    [][\A n \in Node, x \in Name :
         resources[n][x] # NoRow /\ resources'[n][x] = NoRow =>
            \/ IsNameRevoked(n, x)'
            \/ up[n] /\ ~ up'[n]
            \/ ~ up[n] /\ up'[n] /\ Reseed[n] = "anew"]_vars

(* Every DELETE is answered, or its node crashed: no lost peer blocks it.   *)
DeleteAnswered ==
    \A n \in Node : deletes[n] # {} ~> deletes[n] = {}

(* On a network that loses nothing, among nodes that all list one another,  *)
(* a GAID that a DELETE revokes at one of them ends up blocked everywhere.  *)
EveryPeerBlocks ==
    \A n, p \in Node, g \in Gaid :
        (\E rec \in revocations[n] : rec.gaid = g /\ rec.origin = n) ~> IsRevoked(p, g)

(* The abstract ledger: a node blocks the GAIDs in its revocations table,   *)
(* has issued those its own DELETEs recorded, and was told the clients'.    *)
Blocked    == [n \in Node |-> {rec.gaid : rec \in revocations[n]}]
Issued     == [n \in Node |->
               {rec.gaid : rec \in {rev \in revocations[n] : rev.origin = n}}]
PostedHere == [n \in Node |->
               {rec.gaid : rec \in {rev \in revocations[n] : rev.origin = Outsider}}]

Ledger == INSTANCE RevocationLedger
            WITH blocked <- Blocked, issued <- Issued, posted <- PostedHere

(* The federation implements the ledger. *)
ImplementsLedger == Ledger!LedgerSpec

-----------------------------------------------------------------------------
(* What the comments of the code say and the code does not do. *)

(* index.ts:78, "has been revoked and cannot be re-registered". *)
RevokedIsNotReRegistered ==
    [][\A r \in Request : PublishStore(r) =>
         ~ IsRevoked(publish[r].node, GaidOf(publish[r].name, publish[r].gaid))]_vars
=============================================================================
