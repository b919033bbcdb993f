--------------------------- MODULE FederatedSearch ---------------------------
(***************************************************************************)
(* The reading side of federation at one reference node (federation.ts):   *)
(* the health loop and the federated queries, which all write the status   *)
(* column of the peers table, and the merge of the answers.                *)
(*                                                                         *)
(* Rounds of the health loop visit the peers one after the other; the next *)
(* round starts on its timer even if one is still waiting.  A query asks   *)
(* all peers that were not unreachable when it began, at the same time,    *)
(* and handles their answers as they come.  The last to write wins, so an  *)
(* answer given before a peer failed may be recorded after it failed.      *)
(*                                                                         *)
(* How a peer answers is the environment's choice, made when it answers:   *)
(* "slow" stands for headers that come after the 3 s that a query waits    *)
(* and within the 5 s of a health check, "down" for refused or slower than *)
(* either.  That a body ends once its headers are here is assumed, as its  *)
(* timer is cleared by then.  The audit trail of the health loop is left   *)
(* out, and so are items with neither a GAID nor a name, which are always  *)
(* passed on.                                                              *)
(***************************************************************************)
EXTENDS Naturals, Sequences, SequencesExt

CONSTANTS Peer,       \* the rows of the peers table
          PeerList,   \* the same, ordered by id
          Slow,       \* peers that may answer between the two timeouts
          Round,      \* health rounds that may overlap
          Query,      \* federated requests that may be in progress at once
          Resource,   \* resources, of any node
          Key,        \* GAIDs and names
          KeyOf,      \* KeyOf[x]: its identity.gaid, or else its metadata.name
          Local,      \* the page of local resources a search begins with
          Hits        \* Hits[p]: the resources p answers with, in order

ASSUME FederatedAssumption ==
    /\ PeerList \in Seq(Peer)
    /\ PeerList # <<>>
    /\ \A p \in Peer : \E k \in DOMAIN PeerList : PeerList[k] = p
    /\ Slow \subseteq Peer
    /\ KeyOf \in [Resource -> Key]
    /\ Local \in Seq(Resource)
    /\ Hits \in [Peer -> Seq(Resource)]

VARIABLES status,   \* status[p] in the peers table
          real,     \* how p would answer now
          rounds,   \* rounds[i]: a health round in progress, or Idle
          queries   \* queries[j]: a federated request in progress, or Idle

vars == <<status, real, rounds, queries>>

Status  == {"healthy", "degraded", "unreachable"}
Outcome == {"ok", "erring", "down"}
Idle    == [kind |-> "idle"]

(* answer: of the fetch in progress for the first peer of todo. *)
CheckRound == [todo : Seq(Peer) \ {<<>>}, answer : Outcome \cup {"sent"}]

(* pending[p]: "none" when p was not asked or is dealt with; results: what  *)
(* arrived so far, in completion order; meta: meta.peers_queried.           *)
FederatedQuery == [kind : {"search", "resolve"},
                   pending : [Peer -> Outcome \cup {"none", "sent"}],
                   results : Seq(Resource), meta : SUBSET Peer]

TypeOK ==
    /\ status  \in [Peer -> Status]
    /\ real    \in [Peer -> Outcome \cup {"slow"}]
    /\ rounds  \in [Round -> CheckRound \cup {Idle}]
    /\ queries \in [Query -> FederatedQuery \cup {Idle}]

Init ==
    /\ status  = [p \in Peer |-> "healthy"]
    /\ real    = [p \in Peer |-> "ok"]
    /\ rounds  = [i \in Round |-> Idle]
    /\ queries = [j \in Query |-> Idle]

Manner(p) == Outcome \cup {m \in {"slow"} : p \in Slow}

HealthyPeers == {p \in Peer : status[p] # "unreachable"}

(* What an answer means for the status column. *)
StatusOf(outcome) ==
    CASE outcome = "ok"     -> "healthy"
      [] outcome = "erring" -> "degraded"
      [] outcome = "down"   -> "unreachable"

(* What a fetch makes of a peer: a health check has the longer patience.    *)
ForCheck(manner) == IF manner = "slow" THEN "ok" ELSE manner
ForQuery(manner) == IF manner = "slow" THEN "down" ELSE manner

UpdatePeerStatus(p, s) == status' = [status EXCEPT ![p] = s]

-----------------------------------------------------------------------------
PeerChanges(p) ==
    /\ \E r \in Manner(p) \ {real[p]} : real' = [real EXCEPT ![p] = r]
    /\ UNCHANGED <<status, rounds, queries>>

-----------------------------------------------------------------------------
(* startHealthChecks. *)

(* Mutant: only the peers that queries use are checked. *)
CheckStartHealthy(i) ==
    LET todo == SelectSeq(PeerList, LAMBDA p : p \in HealthyPeers) IN
    /\ rounds[i] = Idle
    /\ todo # <<>>
    /\ rounds' = [rounds EXCEPT ![i] = [todo |-> todo, answer |-> "sent"]]
    /\ UNCHANGED <<status, real, queries>>

(* The timer fires: every row is visited, whatever its status. *)
CheckStart(i) ==
    /\ rounds[i] = Idle
    /\ rounds' = [rounds EXCEPT ![i] = [todo |-> PeerList, answer |-> "sent"]]
    /\ UNCHANGED <<status, real, queries>>

CheckAnswer(i) ==
    /\ rounds[i] # Idle
    /\ rounds[i].answer = "sent"
    /\ rounds' = [rounds EXCEPT ![i].answer = ForCheck(real[Head(rounds[i].todo)])]
    /\ UNCHANGED <<status, real, queries>>

(* The status is written, whatever it was or has become, and the next peer  *)
(* is asked.                                                               *)
CheckUpdate(i) ==
    /\ rounds[i] # Idle
    /\ rounds[i].answer # "sent"
    /\ UpdatePeerStatus(Head(rounds[i].todo), StatusOf(rounds[i].answer))
    /\ rounds' = [rounds EXCEPT ![i] =
                    IF Len(rounds[i].todo) = 1 THEN Idle
                    ELSE [todo |-> Tail(rounds[i].todo), answer |-> "sent"]]
    /\ UNCHANGED <<real, queries>>

-----------------------------------------------------------------------------
(* federatedFetch ("search") and resolveResourceFromPeers ("resolve").      *)

QueryStart(j, kind) ==
    /\ queries[j] = Idle
    /\ HealthyPeers # {}
    /\ queries' = [queries EXCEPT ![j] =
         [kind    |-> kind,
          pending |-> [p \in Peer |-> IF p \in HealthyPeers THEN "sent" ELSE "none"],
          results |-> <<>>, meta |-> {}]]
    /\ UNCHANGED <<status, real, rounds>>

(* A peer in good order answers 404, not a 2xx, when it cannot resolve.     *)
Answers(kind, p) ==
    {ForQuery(real[p])} \cup {o \in {"erring"} : kind = "resolve" /\ real[p] = "ok"}

(* Mutant: no abort timer, a peer that is down keeps a query waiting.       *)
QueryAnswerWaits(j, p) ==
    /\ queries[j] # Idle
    /\ queries[j].pending[p] = "sent"
    /\ real[p] # "down"
    /\ \E outcome \in Answers(queries[j].kind, p) :
          queries' = [queries EXCEPT ![j].pending[p] = outcome]
    /\ UNCHANGED <<status, real, rounds>>

QueryAnswer(j, p) ==
    /\ queries[j] # Idle
    /\ queries[j].pending[p] = "sent"
    /\ \E outcome \in Answers(queries[j].kind, p) :
          queries' = [queries EXCEPT ![j].pending[p] = outcome]
    /\ UNCHANGED <<status, real, rounds>>

(* A search takes the items of an ok answer and writes the status of every  *)
(* outcome; a resolve whose fetch throws leaves the status alone.           *)
QueryUpdate(j, p) ==
    LET q == queries[j] IN
    /\ q # Idle
    /\ q.pending[p] \in Outcome
    /\ IF q.kind = "resolve" /\ q.pending[p] = "down"
       THEN UNCHANGED status
       ELSE UpdatePeerStatus(p, StatusOf(q.pending[p]))
    /\ queries' = [queries EXCEPT ![j] =
         IF q.kind = "search" /\ q.pending[p] = "ok"
         THEN [q EXCEPT !.pending[p] = "none", !.meta = @ \cup {p},
                        !.results = @ \o Hits[p]]
         ELSE [q EXCEPT !.pending[p] = "none"]]
    /\ UNCHANGED <<real, rounds>>

(* allSettled: the merged answer is sent. *)
QueryDone(j) ==
    /\ queries[j] # Idle
    /\ \A p \in Peer : queries[j].pending[p] = "none"
    /\ queries' = [queries EXCEPT ![j] = Idle]
    /\ UNCHANGED <<status, real, rounds>>

Checking == \E i \in Round : CheckStart(i) \/ CheckAnswer(i) \/ CheckUpdate(i)

Querying ==
    \E j \in Query :
        \/ \E kind \in {"search", "resolve"} : QueryStart(j, kind)
        \/ \E p \in Peer : QueryAnswer(j, p) \/ QueryUpdate(j, p)
        \/ QueryDone(j)

Next == (\E p \in Peer : PeerChanges(p)) \/ Checking \/ Querying

Spec == Init /\ [][Next]_vars

(* The timer of the health loop keeps firing, every fetch has an outcome    *)
(* (the abort timer bounds the wait for its headers, fetch's own defaults   *)
(* that for its body), and what has an outcome is handled.  Nothing obliges *)
(* a client to query or a peer to recover.                                  *)
Fairness ==
    /\ \A i \in Round : WF_vars(CheckStart(i) \/ CheckAnswer(i) \/ CheckUpdate(i))
    /\ \A j \in Query :
         /\ WF_vars(QueryDone(j))
         /\ \A p \in Peer : WF_vars(QueryAnswer(j, p) \/ QueryUpdate(j, p))

FairSpec == Spec /\ Fairness

-----------------------------------------------------------------------------
(* deduplicateByGaid: local entries first and all of them, then the first   *)
(* arrival of every key not seen yet.  Resources that differ in all but     *)
(* their key are one to it: of two of one name without a GAID, or of one    *)
(* GAID, at two nodes it keeps one.                                        *)

SameKey(x, y) == KeyOf[x] = KeyOf[y]
Seen(out, x)  == \E i \in DOMAIN out : SameKey(out[i], x)

(* Mutant: only the keys of the local page are remembered. *)
DeduplicateLocalOnly(local, remote) ==
    FoldLeft(LAMBDA out, x : IF Seen(local, x) THEN out ELSE Append(out, x),
             local, remote)

Merge(out, x) == IF Seen(out, x) THEN out ELSE Append(out, x)

DeduplicateByGaid(local, remote) ==
    LET merged[n \in 0..Len(remote)] ==
          IF n = 0 THEN local ELSE Merge(merged[n - 1], remote[n])
    IN  merged[Len(remote)]

-----------------------------------------------------------------------------
(* Properties. *)

(* In whatever order peers answer, fail or repeat one another, the answer   *)
(* of a search keeps the local page in front and lists behind it, under a   *)
(* key that nothing before it has, what arrived first under that key.  What *)
(* a peer reported as queried gave is in the answer or left out for another *)
(* of its key, which need not be the same resource: names repeat across     *)
(* nodes, and the specification (spec/README.md:547) has them told apart by *)
(* node_id.                                                                *)
MergedOnce ==
    \A j \in Query : queries[j] # Idle =>
        LET results == queries[j].results
            answer  == DeduplicateByGaid(Local, results)
        IN
        /\ IsPrefix(Local, answer)
        /\ \A b \in DOMAIN answer : b > Len(Local) =>
             /\ \A a \in DOMAIN answer : a < b => ~ SameKey(answer[a], answer[b])
             /\ \E h \in DOMAIN results :
                  /\ results[h] = answer[b]
                  /\ \A g \in DOMAIN results :
                       g < h => ~ SameKey(results[g], answer[b])
        /\ \A p \in queries[j].meta : \A h \in DOMAIN Hits[p] :
             Seen(answer, Hits[p][h])

(* When a peer settles, its status follows: no stale answer, overlapping    *)
(* round or abandoned query has the last word, and none is written off for  *)
(* good.  A peer in order only returns to healthy again and again, because  *)
(* every resolve it cannot answer marks it degraded, and so does one that   *)
(* is slow, because every search it misses marks it unreachable.           *)
StatusFollowsPeer ==
    \A p \in Peer :
        /\ <>[](real[p] = "ok") =>
               <>[](status[p] # "unreachable") /\ []<>(status[p] = "healthy")
        /\ <>[](real[p] = "slow") =>
               <>[](status[p] # "degraded") /\ []<>(status[p] = "healthy")
        /\ <>[](real[p] = "erring") => <>[](status[p] = "degraded")
        /\ <>[](real[p] = "down")   => <>[](status[p] = "unreachable")

(* Every federated request is answered, however its peers behave.           *)
QueryAnswered == \A j \in Query : queries[j] # Idle ~> queries[j] = Idle
=============================================================================
