----------------------------- MODULE Resolution -----------------------------
(***************************************************************************)
(* Looking up a GAID in a federation: WebFinger, /api/v1/resolve and       *)
(* /api/v1/inspect (index.ts), each of which asks the peers of its node    *)
(* when it finds nothing itself (federation.ts), and the inspection of     *)
(* what was found (inspector.ts).                                          *)
(*                                                                         *)
(* A resolve asks the peers by WebFinger, an inspect by resolve, and a     *)
(* WebFinger that finds nothing by WebFinger again.  A request is known by *)
(* the nodes it came through: <<a, b, a>> is the one that a makes of       *)
(* itself, by way of b, for the lookup a client asked of it.  A caller     *)
(* gives up after three seconds without a response; the handler it asked   *)
(* goes on regardless.  Once the headers have come that timer is off, and  *)
(* the body may take as long as it likes.                                  *)
(* The code sets no limit to the length of a path: MaxHops is the model's, *)
(* and a request that long is left unhandled.                              *)
(*                                                                         *)
(* Two readings of agent://a/b/c live side by side: WebFinger takes a for  *)
(* the name of the resource, resolve takes c, or the GAID a row declares.  *)
(***************************************************************************)
EXTENDS Naturals, Sequences

CONSTANTS Node,      \* the nodes of the federation
          PeerList,  \* PeerList[n]: the peers table of n, in order
          Name,      \* values of metadata.name
          Gaid,      \* identifiers
          Looked,    \* the identifiers clients look up
          Bare,      \* Bare[x]: agent://x
          First,     \* First[g]: the first segment of g
          Final,     \* Final[g]: its last segment
          NoGaid,    \* a manifest that declares no identity.gaid
          Seed,      \* Seed[n]: the rows of n to begin with
          Origin,    \* the nodes clients ask
          Watched,   \* the nodes whose health loop is left to run
          Deleting,  \* the nodes at which a DELETE may arrive
          Offered,   \* bound: <<n, row>> that a publish or a PUT may store
          NoRequest, \* no request came along a path
          MaxHops    \* bound: the length of a path

Did == {"none", "key", "web", "other"}
Row == [name : Name, gaid : Gaid \cup {NoGaid}, did : Did]

Peers(n) == {PeerList[n][i] : i \in DOMAIN PeerList[n]}
Path     == {path \in UNION {[1..k -> Node] : k \in 1..MaxHops} :
                /\ path[1] \in Origin
                /\ \A i \in 2..Len(path) : path[i] \in Peers(path[i - 1])}
Self(path) == path[Len(path)]

VARIABLES rows,    \* rows[n]: the resources table
          had,     \* had[n]: history, the rows n has ever had
          revoked, \* revoked[n]: the revocations table
          gossip,  \* revocations on their way to a peer
          status,  \* status[n][p]: of peer p at n
          gaid,    \* the identifier the client looks up, or NoGaid before
          requests, \* requests[path]: the request that came along path
          late     \* history, the requests whose node stored a row after
                   \* it had taken them up

vars == <<rows, had, revoked, gossip, status, gaid, requests, late>>

tables == <<rows, had, revoked, gossip, gaid, late>>

Status     == {"healthy", "degraded", "unreachable"}
Kind       == {"webfinger", "resolve", "inspect"}
Revocation == [gaid : Gaid, name : Name]

(* What a lookup returns: a manifest or a WebFinger document (jrd), the row  *)
(* it is about, the node that has it, and the node it is credited to.      *)
Found    == [form : {"manifest", "jrd"}, row : Row, host : Node, source : Node]
NotFound == [form |-> "none"]
Aborted  == [form |-> "aborted"]

(* outcome[p]: what became of the request to p; "asked" while there is no    *)
(* response, "reading" while its body is awaited, "aborted" when nothing   *)
(* came of it, a response or a body.                                       *)
(* known: that a revocation record was found; early: history, that one for  *)
(* the GAID was there when the request was taken up; did: what became of   *)
(* the DID of the row.                                                     *)
DidState == {"unknown", "resolved", "unresolved"}
Asked   == [form |-> "asked"]
Reading == [form |-> "reading"]
Unasked == [form |-> "unasked"]
Request ==
    [kind : Kind, stage : {"sent", "asking", "checking", "policy", "answered"},
     outcome : [Node -> Found \cup {NotFound, Aborted, Asked, Reading, Unasked}],
     answer : Found \cup {NotFound}, known : BOOLEAN, early : BOOLEAN,
     did : DidState]

ASSUME ResolutionAssumption ==
    /\ PeerList \in [Node -> Seq(Node)]
    /\ First \in [Gaid -> Name]
    /\ Final \in [Gaid -> Name]
    /\ Looked \subseteq Gaid
    /\ Bare \in [Name -> Gaid]
    /\ \A x \in Name : First[Bare[x]] = x /\ Final[Bare[x]] = x
    /\ NoGaid \notin Gaid
    /\ Seed \in [Node -> SUBSET Row]
    /\ Origin \subseteq Node
    /\ Watched \subseteq Node
    /\ Deleting \subseteq Node
    /\ Offered \subseteq Node \X Row
    /\ MaxHops \in Nat \ {0}
    /\ NoRequest \notin Request

TypeOK ==
    /\ rows     \in [Node -> SUBSET Row]
    /\ had      \in [Node -> SUBSET Row]
    /\ revoked  \in [Node -> SUBSET Revocation]
    /\ gossip   \in SUBSET [to : Node, record : Revocation]
    /\ status   \in [Node -> [Node -> Status]]
    /\ gaid     \in Gaid \cup {NoGaid}
    /\ requests \in [Path -> Request \cup {NoRequest}]
    /\ late     \in SUBSET Path

Sent(kind) ==
    [kind |-> kind, stage |-> "sent", outcome |-> [p \in Node |-> Unasked],
     answer |-> NotFound, known |-> FALSE, early |-> FALSE,
     did |-> "unknown"]

Init ==
    /\ rows     = Seed
    /\ had      = Seed
    /\ revoked  = [n \in Node |-> {}]
    /\ gossip   = {}
    /\ status   = [n \in Node |-> [p \in Node |-> "healthy"]]
    /\ gaid     = NoGaid
    /\ requests = [path \in Path |-> NoRequest]
    /\ late     = {}

-----------------------------------------------------------------------------
(* Readings of the GAID. *)
(* resolveGaidLocally. *)
ResolveLocally(n) ==
    {row \in rows[n] : row.name = Final[gaid] \/ row.gaid = gaid}

(* Mutant: the last segment, as resolve reads it. *)
WebFingerByFinal(n) == {row \in rows[n] : row.name = Final[gaid]}

(* resolveWebFinger. *)
ResolveWebFinger(n) == {row \in rows[n] : row.name = First[gaid]}

Local(kind, n) ==
    IF kind = "webfinger" THEN ResolveWebFinger(n) ELSE ResolveLocally(n)

(* Mutant: a record is looked for by the name of what was found only. *)
RevocationByName(n, found) ==
    \E rec \in revoked[n] : found.form = "manifest" /\ rec.name = found.row.name

(* getRevocationRecord: a WebFinger document has no metadata.name, and the   *)
(* GAID is then compared with names as well, which it never equals.        *)
RevocationKnown(n, found) ==
    \E rec \in revoked[n] :
        \/ rec.gaid = gaid
        \/ found.form = "manifest" /\ rec.name = found.row.name

Recorded(n) == \E rec \in revoked[n] : rec.gaid = gaid

HealthyPeers(n) == {p \in Peers(n) : status[n][p] # "unreachable"}

(* The kind of request that a handler sends to its peers. *)
ChildKind(kind) == IF kind = "inspect" THEN "resolve" ELSE "webfinger"

-----------------------------------------------------------------------------
(* The client's request. *)
ClientAsks(n, kind, g) ==
    /\ gaid = NoGaid
    /\ gaid' = g
    /\ requests' = [requests EXCEPT ![<<n>>] = Sent(kind)]
    /\ UNCHANGED <<rows, had, revoked, gossip, status, late>>

(* What the node has itself is the answer; an inspection goes on to its      *)
(* checks.                                                                 *)
AnswerLocally(path, row) ==
    LET n == Self(path)
        found == [form |-> IF requests[path].kind = "webfinger" THEN "jrd" ELSE "manifest",
                  row |-> row, host |-> n, source |-> n] IN
    requests' = [requests EXCEPT ![path] =
        [@ EXCEPT !.answer = found,
                  !.early = Recorded(n),
                  !.known = RevocationKnown(n, found),
                  !.stage = IF requests[path].kind = "inspect"
                            THEN "checking" ELSE "answered"]]

(* Otherwise every peer that is not unreachable is asked at the same time. *)
AskPeers(path) ==
    LET n == Self(path)
        Child(p) == Append(path, p) IN
    IF HealthyPeers(n) = {}
    THEN requests' = [requests EXCEPT ![path].stage = "answered"]
    ELSE requests' =
        [q \in Path |->
            IF q = path
            THEN [requests[path] EXCEPT
                    !.stage = "asking",
                    !.early = Recorded(n),
                    !.outcome = [p \in Node |->
                        IF p \in HealthyPeers(n) THEN Asked ELSE Unasked]]
            ELSE IF \E p \in HealthyPeers(n) : q = Child(p)
            THEN Sent(ChildKind(requests[path].kind))
            ELSE requests[q]]

(* A node takes up a request: all of it runs up to the first await. *)
Handle(path) ==
    /\ requests[path] # NoRequest
    /\ requests[path].stage = "sent"
    /\ Len(path) < MaxHops
    /\ LET local == Local(requests[path].kind, Self(path)) IN
         IF local # {} THEN \E row \in local : AnswerLocally(path, row)
                       ELSE AskPeers(path)
    /\ UNCHANGED <<tables, status>>

-----------------------------------------------------------------------------
Waiting(path, p) ==
    /\ requests[path] # NoRequest
    /\ requests[path].stage = "asking"
    /\ requests[path].outcome[p] = Asked

(* Mutant: the answers share one slot. *)
SettleAll(path, p, result) == requests' = [requests EXCEPT ![path].outcome = result]

Settle(path, p, result) ==
    requests' = [requests EXCEPT ![path].outcome =
                    [@ EXCEPT ![p] = result]]

(* resolveResourceFromPeers records how p answered; resolveGaidFromPeers     *)
(* records nothing.                                                        *)
UpdateStatus(path, p, ok) ==
    status' = IF requests[path].kind # "inspect" THEN status
              ELSE [status EXCEPT ![Self(path)] =
                       [@ EXCEPT ![p] = IF ok THEN "healthy" ELSE "degraded"]]

(* p answers 404. *)
PeerHasNone(path, p) ==
    /\ Waiting(path, p)
    /\ LET child == requests[Append(path, p)] IN
         child.stage = "answered" /\ child.answer = NotFound
    /\ UpdateStatus(path, p, FALSE)
    /\ Settle(path, p, NotFound)
    /\ UNCHANGED tables

(* p has found something: the headers of its answer are here, the abort      *)
(* timer is cleared, and p counts as healthy before its body is read.       *)
HeadersArrive(path, p) ==
    /\ Waiting(path, p)
    /\ LET child == requests[Append(path, p)] IN
         child.stage = "answered" /\ child.answer # NotFound
    /\ UpdateStatus(path, p, TRUE)
    /\ Settle(path, p, Reading)
    /\ UNCHANGED tables

ReadingBody(path, p) ==
    /\ requests[path] # NoRequest
    /\ requests[path].stage = "asking"
    /\ requests[path].outcome[p] = Reading

(* A document is credited to p, but by inspect to whom p credits it.        *)
BodyArrives(path, p) ==
    /\ ReadingBody(path, p)
    /\ LET answer == requests[Append(path, p)].answer IN
         Settle(path, p, IF requests[path].kind = "inspect" THEN answer
                         ELSE [answer EXCEPT !.source = p])
    /\ UNCHANGED <<tables, status>>

(* The connection is lost in the middle of it. *)
BodyBreaks(path, p) ==
    /\ ReadingBody(path, p)
    /\ Settle(path, p, Aborted)
    /\ UNCHANGED <<tables, status>>

(* Mutant: a request without an abort timer. *)
NeverAborts(path, p) == FALSE

(* Three seconds without a response, or the connection failed: no status is  *)
(* written.                                                                *)
Aborts(path, p) ==
    /\ Waiting(path, p)
    /\ Settle(path, p, Aborted)
    /\ UNCHANGED <<tables, status>>

(* An error status other than that of having none: like it for the status,   *)
(* but it says nothing of p's rows.  Only an inspection tells it from Aborts. *)
Refuses(path, p) ==
    /\ Waiting(path, p)
    /\ requests[path].kind = "inspect"
    /\ UpdateStatus(path, p, FALSE)
    /\ Settle(path, p, Aborted)
    /\ UNCHANGED tables

(* Mutant: only the first peer of the table is looked at. *)
FirstPeer(path) ==
    LET r == requests[path].outcome[Head(PeerList[Self(path)])] IN
    IF r \in Found THEN r ELSE NotFound

(* The first of the peers, in the order of the table, that found something. *)
FirstFound(path) ==
    LET n == Self(path)
        hits == {i \in DOMAIN PeerList[n] :
                    requests[path].outcome[PeerList[n][i]] \in Found} IN
    IF hits = {} THEN NotFound
    ELSE requests[path].outcome[PeerList[n][CHOOSE i \in hits : \A j \in hits : i <= j]]

AllSettled(path) == \A p \in Node : requests[path].outcome[p] \notin {Asked, Reading}

(* Promise.allSettled: the answer, or the checks of an inspection, which     *)
(* looks up the revocation now.                                            *)
PeersDone(path) ==
    /\ requests[path] # NoRequest
    /\ requests[path].stage = "asking"
    /\ AllSettled(path)
    /\ LET found == FirstFound(path) IN
       requests' = [requests EXCEPT ![path] =
           [@ EXCEPT !.answer = found,
                     !.known = RevocationKnown(Self(path), found),
                     !.stage = IF requests[path].kind = "inspect" /\ found # NotFound
                               THEN "checking" ELSE "answered"]]
    /\ UNCHANGED <<tables, status>>

-----------------------------------------------------------------------------
(* buildInspectorResponse: four lookups at a time, one of them the policy    *)
(* for anybody, then the policy for the claimed publisher.  The revocation  *)
(* is the one found before.                                                *)

(* resolveDidState: a did:key needs no lookup, a did:web has five seconds, a *)
(* WebFinger document has no identity at all.                              *)
DidOutcomes(found) ==
    IF found.form # "manifest" THEN {"unresolved"}
    ELSE CASE found.row.did = "key" -> {"resolved"}
           [] found.row.did = "web" -> {"resolved", "unresolved"}
           [] OTHER                 -> {"unresolved"}

CheckingDone(path) ==
    /\ requests[path] # NoRequest
    /\ requests[path].stage = "checking"
    /\ \E d \in DidOutcomes(requests[path].answer) :
         requests' = [requests EXCEPT ![path] = [@ EXCEPT !.stage = "policy", !.did = d]]
    /\ UNCHANGED <<tables, status>>

InspectDone(path) ==
    /\ requests[path] # NoRequest
    /\ requests[path].stage = "policy"
    /\ requests' = [requests EXCEPT ![path].stage = "answered"]
    /\ UNCHANGED <<tables, status>>

-----------------------------------------------------------------------------
(* Meanwhile: a DELETE at n, and its gossip to the peers n does not take for *)
(* unreachable, which may be late or lost.                                 *)
Revoke(n, row) ==
    /\ row \in rows[n]
    /\ rows' = [rows EXCEPT ![n] = @ \ {row}]
    /\ LET record == [gaid |-> IF row.gaid = NoGaid THEN Bare[row.name] ELSE row.gaid,
                      name |-> row.name] IN
         /\ revoked' = [revoked EXCEPT ![n] = @ \cup {record}]
         /\ gossip' = gossip \cup [to : HealthyPeers(n), record : {record}]
    /\ UNCHANGED <<had, status, gaid, requests, late>>

LearnRevocation(message) ==
    /\ message \in gossip
    /\ gossip' = gossip \ {message}
    /\ LET n == message.to
           record == message.record IN
         IF \E known \in revoked[n] : known.gaid = record.gaid
         THEN UNCHANGED <<rows, revoked>>
         ELSE /\ revoked' = [revoked EXCEPT ![n] = @ \cup {record}]
              /\ rows' = [rows EXCEPT ![n] = {row \in @ : row.name # record.name}]
    /\ UNCHANGED <<had, status, gaid, requests, late>>

(* The requests that n has taken up. *)
TakenUp(n) ==
    {path \in Path : /\ Self(path) = n
                     /\ requests[path] # NoRequest
                     /\ requests[path].stage # "sent"}

(* A publish or a PUT writes its row, in place of the one of that name.  Its *)
(* checks are over: they came before its last await (see RevocationGossip).  *)
(* Each is stored once at most.                                            *)
Store(n, row) ==
    /\ <<n, row>> \in Offered
    /\ row \notin had[n]
    /\ rows' = [rows EXCEPT ![n] = {old \in @ : old.name # row.name} \cup {row}]
    /\ had' = [had EXCEPT ![n] = @ \cup {row}]
    /\ late' = late \cup TakenUp(n)
    /\ UNCHANGED <<revoked, gossip, status, gaid, requests>>

(* The health loop finds p down, or up again. *)
CheckPeer(n, p) ==
    /\ p \in Peers(n)
    /\ \E s \in {"healthy", "unreachable"} :
         status' = [status EXCEPT ![n] = [@ EXCEPT ![p] = s]]
    /\ UNCHANGED <<tables, requests>>

-----------------------------------------------------------------------------
Asking == \E n \in Origin, kind \in Kind, g \in Looked : ClientAsks(n, kind, g)

Handling ==
    \E path \in Path :
        \/ Handle(path)
        \/ \E p \in Node :
              \/ PeerHasNone(path, p)
              \/ HeadersArrive(path, p)
              \/ BodyArrives(path, p)
              \/ BodyBreaks(path, p)
              \/ Aborts(path, p)
              \/ Refuses(path, p)
        \/ PeersDone(path)
        \/ CheckingDone(path)
        \/ InspectDone(path)

Changing ==
    \/ \E message \in gossip : LearnRevocation(message)
    \/ \E n \in Node :
        \/ n \in Deleting /\ \E row \in rows[n] : Revoke(n, row)
        \/ \E row \in Row : Store(n, row)
        \/ n \in Watched /\ \E p \in Node : CheckPeer(n, p)

Next == Asking \/ Handling \/ Changing

Spec == Init /\ [][Next]_vars

(* A handler goes on when what it awaits has settled, and a request without  *)
(* a response is given up when its timer fires.  Nothing ends the reading    *)
(* of a body, as fetchPeer clears the timer at the headers, nor the policy   *)
(* requests of an inspection, which set none: no fairness is claimed there.  *)
Fairness ==
    \A path \in Path :
        /\ WF_vars(Handle(path) \/ PeersDone(path))
        /\ \A p \in Node : WF_vars(Aborts(path, p))

FairSpec == Spec /\ Fairness

-----------------------------------------------------------------------------
(* PROPERTIES *)

Answered(path) == requests[path] # NoRequest /\ requests[path].stage = "answered"

(* What a lookup returns is about a row that the named host does or did      *)
(* have, and says of the GAID what the host's reading of it was: a manifest *)
(* comes from the node itself, or for an inspection from a direct peer that *)
(* is also credited with it, and fits the GAID by its last segment or its  *)
(* declaration; a WebFinger document fits it by the first segment.  The    *)
(* answers of resolveGaidFromPeers and resolveResourceFromPeers pass        *)
(* through several nodes, which read, wrap and credit them differently.    *)
Truthful(n, kind, answer) ==
    /\ answer.row \in had[answer.host]
    /\ answer.form = "manifest" =>
          /\ answer.row.name = Final[gaid] \/ answer.row.gaid = gaid
          /\ answer.source = answer.host
          /\ CASE kind = "resolve" -> answer.host = n
               [] kind = "inspect" -> answer.host = n \/ answer.host \in Peers(n)
               [] OTHER            -> FALSE
    /\ answer.form = "jrd" =>
          /\ answer.row.name = First[gaid]
          /\ kind = "resolve" => answer.source \in Peers(n)
          /\ kind = "inspect" => \E p \in Peers(n) : answer.source \in Peers(p)

AnswersAreTrue ==
    \A path \in Path : Answered(path) /\ requests[path].answer # NotFound =>
        Truthful(Self(path), requests[path].kind, requests[path].answer)

(* "Not found" is said only by a node that had nothing for the GAID, in the  *)
(* reading of the endpoint, when it took up the request, and has nothing   *)
(* yet, unless a publish or a PUT stored a row there meanwhile: the code    *)
(* does not look again after it has waited for the peers.  The same holds   *)
(* of every peer that answered it so; another peer is passed over only when  *)
(* it gave no answer, or when the node takes it for unreachable.            *)
NotFoundMeansNotHosted ==
    \A path \in Path : Answered(path) /\ requests[path].answer = NotFound =>
        /\ Local(requests[path].kind, Self(path)) = {} \/ path \in late
        /\ \A p \in Peers(Self(path)) :
              /\ requests[path].outcome[p] \in {NotFound, Aborted, Unasked}
              /\ requests[path].outcome[p] = NotFound =>
                    \/ Local(ChildKind(requests[path].kind), p) = {}
                    \/ Append(path, p) \in late

(* An inspection never says of a GAID that it is not revoked when the node   *)
(* had the record before it took up the request, by whatever name and in   *)
(* whatever form the resource was found at a peer meanwhile.               *)
RevokedGaidReported ==
    \A path \in Path :
        /\ Answered(path)
        /\ requests[path].kind = "inspect"
        /\ requests[path].answer # NotFound
        /\ requests[path].early
        => requests[path].known

(* What a handler may await without end: the body of a peer's answer, or a   *)
(* decision of the policy engine.                                          *)
Untimed(path) ==
    /\ requests[path] # NoRequest
    /\ \/ \E p \in Node : requests[path].outcome[p] = Reading
       \/ requests[path].stage \in {"checking", "policy"}

(* Every request goes on to its answer, although peers ask one another in    *)
(* circles and a request may be at the far end of a path that nobody takes  *)
(* up: whatever else it waits for has a timer, of its own or of a caller.   *)
RequestsAnswered ==
    \A path \in Path :
        Len(path) < MaxHops =>
            (requests[path] # NoRequest ~> Answered(path) \/ Untimed(path))
=============================================================================
