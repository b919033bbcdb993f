-------------------------- MODULE PeerRegistration --------------------------
(***************************************************************************)
(* How the peers tables of a federation fill up: each node registers the   *)
(* peers of DUADP_PEERS when it starts and asks each of them to register   *)
(* it in return, and POST /api/v1/federation registers one peer and the    *)
(* peers that peer knows of, within max_hops.                              *)
(*                                                                         *)
(* A node serves requests while it is still registering: it listens first. *)
(* Rows are never deleted and never rewritten by a registration, so a      *)
(* table is a function from nodes to the hop the row was stored with.      *)
(*                                                                         *)
(* POST /federation does not look at the type of a hop.  A string that is  *)
(* no number is NotANumber: as > and <= both fail for it, it passes where  *)
(* hops past the bound are refused, and fails where hops within the bound  *)
(* are taken.  A string of digits is taken for the number, which leaves    *)
(* out that + 1 appends a digit to it.                                     *)
(***************************************************************************)
EXTENDS Integers, Sequences

CONSTANTS Node,       \* the nodes of the federation
          EnvPeers,   \* EnvPeers[n]: the peers in its DUADP_PEERS, in order
          MaxHops,    \* config.federation.max_hops (3)
          NoRow,      \* no row with that url
          NotANumber, \* a hop that is a string and no number
          NoHop,      \* a peer sent without a hop, as listPeers sends it
          Post,       \* bound: bodies a client may POST to /federation
          Crashable,  \* the nodes that may stop and be started again
          Lossy       \* whether requests between running nodes can fail

Hop == Int \cup {NotANumber}
Registration == [url : Node, hop : Hop,
                 peers : UNION {[S -> Hop \cup {NoHop}] : S \in SUBSET Node}]

ASSUME RegistrationAssumption ==
    /\ EnvPeers \in [Node -> Seq(Node)]
    /\ MaxHops \in Nat
    /\ NotANumber \notin Int
    /\ NoRow \notin Hop
    /\ NoHop \notin Hop
    /\ \A b \in Post : /\ b.url \in Node
                       /\ b.hop \in Hop
                       /\ DOMAIN b.peers \subseteq Node
                       /\ \A p \in DOMAIN b.peers : b.peers[p] \in Hop \cup {NoHop}
    /\ Crashable \subseteq Node
    /\ Lossy \in BOOLEAN

VARIABLES up,      \* up[n]: "new" before its first start, then "up" or "down"
          rows,    \* rows[n][p]: hop of the row of p in n's table, or NoRow
          boot     \* boot[n]: registerEnvPeers in progress, or Idle

vars == <<up, rows, boot>>

Idle == [step |-> "idle"]
Step == {"probe", "reach", "post"}

TypeOK ==
    /\ up   \in [Node -> {"new", "up", "down"}]
    /\ rows \in [Node -> [Node -> Hop \cup {NoRow}]]
    /\ boot \in [Node -> [at : Nat, step : Step] \cup {Idle}]
    /\ \A n \in Node : boot[n] # Idle => boot[n].at \in DOMAIN EnvPeers[n]

Init ==
    /\ up   = [n \in Node |-> "new"]
    /\ rows = [n \in Node |-> [p \in Node |-> NoRow]]
    /\ boot = [n \in Node |-> Idle]

-----------------------------------------------------------------------------
(* The table of n once the peers in batch, a function from url to hop, are  *)
(* inserted: a url that is there already keeps its row.                     *)
Inserted(n, batch) ==
    [p \in Node |-> IF p \in DOMAIN batch /\ rows[n][p] = NoRow
                    THEN batch[p] ELSE rows[n][p]]

Only(p, hop) == [q \in {p} |-> hop]

(* The position in DUADP_PEERS of the urls from i on that have no row. *)
Missing(n, i) ==
    {k \in DOMAIN EnvPeers[n] : k >= i /\ rows[n][EnvPeers[n][k]] = NoRow}

Probing(k) == [at |-> k, step |-> "probe"]

(* registerEnvPeers of n goes on at position i, skipping without a wait the *)
(* urls that have a row.                                                   *)
Proceed(n, i) ==
    \/ /\ Missing(n, i) = {}
       /\ boot' = [boot EXCEPT ![n] = Idle]
    \/ \E k \in Missing(n, i) :
         /\ \A j \in Missing(n, i) : k <= j
         /\ boot' = [boot EXCEPT ![n] = Probing(k)]

(* The peer registerEnvPeers of n is busy with. *)
Current(n) == EnvPeers[n][boot[n].at]

(* The node listens and begins to register its environment. *)
Start(n) ==
    /\ up[n] # "up"
    /\ up' = [up EXCEPT ![n] = "up"]
    /\ Proceed(n, 1)
    /\ UNCHANGED rows

(* Mutant: a peer that does not answer the probe is not registered. *)
ProbeMustAnswer(n) ==
    /\ boot[n] # Idle
    /\ boot[n].step = "probe"
    /\ LET p == Current(n) IN
         IF up[p] = "up"
         THEN /\ rows' = [rows EXCEPT ![n] = Inserted(n, Only(p, 0))]
              /\ boot' = [boot EXCEPT ![n].step = "reach"]
         ELSE /\ Proceed(n, boot[n].at + 1)
              /\ UNCHANGED rows
    /\ UNCHANGED up

(* GET /health of the peer only finds its name: answered, refused or timed  *)
(* out, the row is inserted, unless the peer registered itself meanwhile.   *)
Probe(n) ==
    /\ boot[n] # Idle
    /\ boot[n].step = "probe"
    /\ rows' = [rows EXCEPT ![n] = Inserted(n, Only(Current(n), 0))]
    /\ boot' = [boot EXCEPT ![n].step = "reach"]
    /\ UNCHANGED up

(* GET /federation: any answer will do, an error skips the registration.    *)
Reach(n) ==
    /\ boot[n] # Idle
    /\ boot[n].step = "reach"
    /\ \/ /\ up[Current(n)] = "up"
          /\ boot' = [boot EXCEPT ![n].step = "post"]
       \/ /\ Lossy \/ up[Current(n)] # "up"
          /\ Proceed(n, boot[n].at + 1)
    /\ UNCHANGED <<up, rows>>

(* Mutant: the peer is told its own url, as the body names the wrong node.  *)
ReciprocateWrongUrl(n) ==
    /\ boot[n] # Idle
    /\ boot[n].step = "post"
    /\ LET p == Current(n) IN
         \/ /\ up[p] = "up"
            /\ rows' = [rows EXCEPT ![p] = Inserted(p, Only(p, 0))]
         \/ /\ Lossy \/ up[p] # "up"
            /\ UNCHANGED rows
    /\ Proceed(n, boot[n].at + 1)
    /\ UNCHANGED up

(* POST /federation with the url of n, hop 0; not tried again if it fails.  *)
Reciprocate(n) ==
    /\ boot[n] # Idle
    /\ boot[n].step = "post"
    /\ LET p == Current(n) IN
         \/ /\ up[p] = "up"
            /\ rows' = [rows EXCEPT ![p] = Inserted(p, Only(n, 0))]
         \/ /\ Lossy \/ up[p] # "up"
            /\ UNCHANGED rows
    /\ Proceed(n, boot[n].at + 1)
    /\ UNCHANGED up

-----------------------------------------------------------------------------
(* POST /api/v1/federation with the body b, at n. *)

OneMore(h) == IF h = NotANumber THEN h ELSE h + 1
TooFar(h)  == h # NotANumber /\ h > MaxHops
Near(h)    == h # NotANumber /\ h <= MaxHops

HopOf(b, p) == OneMore(IF b.peers[p] = NoHop THEN b.hop ELSE b.peers[p])

(* Mutant: the bound is checked on the peer that registers, not on its list. *)
GossipedAnyHop(n, b) ==
    [p \in DOMAIN b.peers \ {n} |-> HopOf(b, p)]

(* Mutant: the own url is not left out. *)
GossipedWithSelf(n, b) ==
    [p \in {q \in DOMAIN b.peers : Near(HopOf(b, q))} |-> HopOf(b, p)]

(* The peers of the list that n takes: not n itself, and within max_hops.   *)
Gossiped(n, b) ==
    [p \in {q \in DOMAIN b.peers \ {n} : Near(HopOf(b, q))} |-> HopOf(b, p)]

(* The peer that registers is inserted first, then its list; a hop past     *)
(* max_hops refuses the whole request.                                     *)
Register(n, b) ==
    /\ up[n] = "up"
    /\ ~ TooFar(b.hop)
    /\ LET direct == Inserted(n, Only(b.url, b.hop)) IN
       rows' = [rows EXCEPT ![n] =
         [p \in Node |-> IF direct[p] # NoRow THEN direct[p]
                         ELSE Inserted(n, Gossiped(n, b))[p]]]
    /\ UNCHANGED <<up, boot>>

Crash(n) ==
    /\ n \in Crashable
    /\ up[n] = "up"
    /\ up' = [up EXCEPT ![n] = "down"]
    /\ boot' = [boot EXCEPT ![n] = Idle]
    /\ UNCHANGED rows

Next ==
    \E n \in Node :
        \/ Start(n)
        \/ Probe(n)
        \/ Reach(n)
        \/ Reciprocate(n)
        \/ \E b \in Post : Register(n, b)
        \/ Crash(n)

Spec == Init /\ [][Next]_vars

(* Every node is started, and its requests end: the two GETs by their abort *)
(* timers, the POST because the peer answers or the connection fails.       *)
(* Nothing obliges a client to post or a node to crash.                     *)
Fairness ==
    \A n \in Node : /\ WF_vars(Start(n))
                    /\ WF_vars(Probe(n) \/ Reach(n) \/ Reciprocate(n))

FairSpec == Spec /\ Fairness

-----------------------------------------------------------------------------
(* Properties. *)

(* No table holds a peer further than max_hops away, whatever hops the      *)
(* bodies and the lists in them claim.  A hop that is no number gets into a *)
(* table only for the peer that registers with it, and goes no further: not *)
(* to the peers on its list.                                               *)
HopsBounded ==
    \A n, p \in Node : rows[n][p] # NoRow =>
        \/ Near(rows[n][p])
        \/ /\ rows[n][p] = NotANumber
           /\ \E b \in Post : b.url = p /\ b.hop = NotANumber

(* A node that does not name itself becomes its own peer only when somebody *)
(* registers it at itself; a list it receives never has that effect.        *)
OwnPeerOnlyByName ==
    [][\A n \in Node : rows[n][n] = NoRow /\ rows'[n][n] # NoRow =>
         \/ \E k \in DOMAIN EnvPeers[n] : EnvPeers[n][k] = n
         \/ \E b \in Post : b.url = n /\ Register(n, b)]_vars

(* A node that stays up lists all of DUADP_PEERS in the end, in whatever    *)
(* order the federation starts and crashes.                                *)
EnvPeersListed ==
    \A n \in Node : \A k \in DOMAIN EnvPeers[n] :
        up[n] = "up" ~> up[n] = "down" \/ rows[n][EnvPeers[n][k]] # NoRow

(* A peer that is running when its turn comes, and stays so, will list n in *)
(* return, on a network that loses nothing.                                *)
PeerListsBack ==
    \A n, p \in Node :
        (boot[n] # Idle /\ Current(n) = p /\ up[p] = "up")
          ~> (rows[p][n] # NoRow \/ up[n] = "down" \/ up[p] = "down")

=============================================================================
