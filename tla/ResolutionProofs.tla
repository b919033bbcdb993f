--------------------------- MODULE ResolutionProofs ---------------------------
(***************************************************************************)
(* Theorems about the lookups of Resolution, for any federation: any peers  *)
(* tables, rows, readings of a GAID, requests under way and length of path. *)
(***************************************************************************)
EXTENDS Resolution, SequenceTheorems, WellFoundedInduction, TLAPS

USE DEF tables

(* How far a request can be along a path, and what it has found by then:     *)
(* nothing until it is taken up, at the node's own rows first.             *)
Progress(path, r) ==
    /\ r.stage = "sent" => r.answer = NotFound /\ ~ r.early
    /\ r.stage # "sent" => Len(path) < MaxHops
    /\ r.stage = "asking" => r.answer = NotFound
    /\ r.stage \in {"checking", "policy"} => r.answer # NotFound

(* A request that finds nothing has found nothing where it came to, and no   *)
(* peer that answered had anything either; what is there now was stored     *)
(* since.                                                                  *)
NothingHere(path, r) ==
    /\ r.stage = "asking" => Local(r.kind, Self(path)) = {} \/ path \in late
    /\ r.stage = "answered" /\ r.answer = NotFound =>
         /\ Local(r.kind, Self(path)) = {} \/ path \in late
         /\ \A p \in Peers(Self(path)) : r.outcome[p] \in {NotFound, Aborted, Unasked}
    /\ \A p \in Node : r.outcome[p] = NotFound =>
         Local(ChildKind(r.kind), p) = {} \/ Append(path, p) \in late

(* The revocation that was there at the start is there still, and was seen.  *)
Reported(path, r) ==
    /\ r.early => Recorded(Self(path))
    /\ r.answer # NotFound /\ r.early => r.known

(* What a peer's answer says when it arrives at a request of this kind.      *)
PeerTold(kind, p, answer) ==
    /\ answer.row \in had[answer.host]
    /\ answer.form = "manifest" =>
          /\ answer.row.name = Final[gaid] \/ answer.row.gaid = gaid
          /\ kind = "inspect"
          /\ answer.host = p
          /\ answer.source = p
    /\ answer.form = "jrd" =>
          /\ answer.row.name = First[gaid]
          /\ kind # "inspect" => answer.source = p
          /\ kind = "inspect" => answer.source \in Peers(p)

(* Every document of a request, its answer or a peer's, is what it claims.   *)
Documents(path, r) ==
    /\ r.answer # NotFound => Truthful(Self(path), r.kind, r.answer)
    /\ \A p \in Node : r.outcome[p] \in Found => PeerTold(r.kind, p, r.outcome[p])

Sound(path, r) ==
    /\ Progress(path, r)
    /\ NothingHere(path, r)
    /\ Reported(path, r)
    /\ Documents(path, r)

(* A request has a child, of the kind it sends, exactly where it has asked.  *)
Asks ==
    \A path \in Path : \A p \in Node :
        requests[path] # NoRequest /\ requests[path].outcome[p] # Unasked =>
            /\ requests[path].stage # "sent"
            /\ p \in Peers(Self(path))
            /\ requests[Append(path, p)] # NoRequest

Kinds ==
    \A path \in Path : \A p \in Node :
        LET child == Append(path, p) IN
        child \in Path /\ requests[child] # NoRequest =>
            /\ requests[path] # NoRequest
            /\ requests[child].kind = ChildKind(requests[path].kind)

(* A peer that has answered has done with its request.                       *)
Settled ==
    \A path \in Path : \A p \in Node :
        LET child == requests[Append(path, p)] IN
        requests[path] # NoRequest /\ requests[path].outcome[p] \in {NotFound, Reading} =>
            /\ child.stage = "answered"
            /\ requests[path].outcome[p] = Reading => child.answer # NotFound

(* What a node has it once stored or was seeded with, and a GAID is looked   *)
(* up wherever there are requests.                                         *)
Looking ==
    /\ \A n \in Node : rows[n] \subseteq had[n]
    /\ \A path \in Path : requests[path] # NoRequest => gaid \in Gaid

IInv ==
    /\ TypeOK
    /\ Looking
    /\ Asks
    /\ Kinds
    /\ Settled
    /\ \A path \in Path : requests[path] # NoRequest => Sound(path, requests[path])

-----------------------------------------------------------------------------
(* Paths. *)

LEMMA PathIsSeq ==
    ASSUME NEW path \in Path
    PROVE  /\ path \in Seq(Node)
           /\ Len(path) \in 1..MaxHops
           /\ Self(path) \in Node
<1>1. PICK k \in 1..MaxHops : path \in [1..k -> Node]
  BY DEF Path
<1>2. MaxHops \in Nat
  BY ResolutionAssumption
<1>3. path \in Seq(Node) /\ Len(path) = k
  BY <1>1, <1>2
<1>. QED
  BY <1>1, <1>2, <1>3, ElementOfSeq DEF Self

LEMMA PeersAreNodes ==
    ASSUME NEW n \in Node
    PROVE  Peers(n) \subseteq Node
<1>1. PeerList[n] \in Seq(Node)
  BY ResolutionAssumption
<1>. QED
  BY <1>1, ElementOfSeq, LenProperties DEF Peers

LEMMA ChildOfPath ==
    ASSUME NEW path \in Path, NEW p \in Node
    PROVE  /\ Append(path, p) \in Seq(Node)
           /\ Len(Append(path, p)) = Len(path) + 1
           /\ Self(Append(path, p)) = p
           /\ Append(path, p) # path
           /\ \A q \in Path : \A m \in Node :
                Append(q, m) = Append(path, p) => q = path /\ m = p
<1>1. path \in Seq(Node) /\ Len(path) \in Nat
  BY PathIsSeq, ResolutionAssumption
<1>2. /\ Append(path, p) \in Seq(Node)
      /\ Len(Append(path, p)) = Len(path) + 1
      /\ Append(path, p)[Len(path) + 1] = p
  BY <1>1, AppendProperties
<1>3. \A q \in Path : \A m \in Node :
        Append(q, m) = Append(path, p) => q = path /\ m = p
  BY <1>1, PathIsSeq, AppendInjective
<1>. QED
  BY <1>1, <1>2, <1>3 DEF Self

LEMMA ChildIsPath ==
    ASSUME NEW path \in Path, NEW p \in Peers(Self(path)), Len(path) < MaxHops
    PROVE  p \in Node /\ Append(path, p) \in Path
<1> DEFINE child == Append(path, p)
           k     == Len(path)
<1>1. path \in Seq(Node) /\ k \in 1..MaxHops /\ MaxHops \in Nat /\ p \in Node
  BY PathIsSeq, PeersAreNodes, ResolutionAssumption
<1>2. /\ child \in Seq(Node)
      /\ Len(child) = k + 1
      /\ \A i \in 1..k : child[i] = path[i]
      /\ child[k + 1] = p
  BY <1>1, AppendProperties
<1>3. child \in [1..(k + 1) -> Node] /\ k + 1 \in 1..MaxHops
  <2>1. k + 1 \in 1..MaxHops
    BY <1>1
  <2> HIDE DEF child, k
  <2>2. child \in [1..Len(child) -> Node]
    BY <1>2, LenProperties
  <2>. QED
    BY <1>2, <2>1, <2>2
<1>4. child[1] \in Origin
  BY <1>1, <1>2 DEF Path
<1>5. ASSUME NEW i \in 2..Len(child) PROVE child[i] \in Peers(child[i - 1])
  <2>1. CASE i = k + 1
    <3>1. child[i - 1] = path[k]
      BY <1>1, <1>2, <2>1
    <3>. QED
      BY <1>2, <2>1, <3>1 DEF Self
  <2>2. CASE i # k + 1
    <3>1. i \in 2..k /\ i \in 1..k /\ i - 1 \in 1..k
      BY <1>1, <1>2, <2>2
    <3>2. path[i] \in Peers(path[i - 1])
      BY <3>1 DEF Path
    <3>. QED
      BY <1>2, <3>1, <3>2
  <2>. QED
    BY <2>1, <2>2
<1>. QED
  BY <1>1, <1>3, <1>4, <1>5 DEF Path

(* A client's request comes along the shortest of paths. *)
LEMMA OriginIsPath ==
    ASSUME NEW n \in Origin
    PROVE  /\ <<n>> \in Path /\ Len(<<n>>) = 1
           /\ \A path \in Path : \A p \in Node : Append(path, p) # <<n>>
<1>1. n \in Node /\ MaxHops \in Nat \ {0}
  BY ResolutionAssumption
<1>2. <<n>> \in [1..1 -> Node] /\ 1 \in 1..MaxHops
  BY <1>1
<1>3. <<n>> \in Path
  BY <1>2 DEF Path
<1>4. ASSUME NEW path \in Path, NEW p \in Node PROVE Append(path, p) # <<n>>
  BY ChildOfPath, PathIsSeq, <1>1
<1>. QED
  BY <1>3, <1>4

(* A nonempty set of natural numbers has a least member. *)
LEMMA LeastMember ==
    ASSUME NEW S, S \subseteq Nat, S # {}
    PROVE  \E i \in S : \A j \in S : i <= j
<1>1. PICK i \in S : \A j \in S : ~ (<<j, i>> \in OpToRel(<, Nat))
  BY NatLessThanWellFounded, WFMin
<1>2. ASSUME NEW j \in S PROVE i <= j
  <2>1. ~ (j < i)
    BY <1>1 DEF OpToRel
  <2>. QED
    BY <2>1
<1>. QED
  BY <1>1, <1>2

(* FirstFound is what some peer told, or nothing when none told anything.    *)
LEMMA FirstFoundTold ==
    ASSUME TypeOK, NEW path \in Path, requests[path] # NoRequest
    PROVE  \/ /\ FirstFound(path) = NotFound
              /\ \A p \in Peers(Self(path)) : requests[path].outcome[p] \notin Found
           \/ \E p \in Peers(Self(path)) :
                /\ requests[path].outcome[p] \in Found
                /\ FirstFound(path) = requests[path].outcome[p]
<1> DEFINE n    == Self(path)
           hits == {i \in DOMAIN PeerList[n] :
                      requests[path].outcome[PeerList[n][i]] \in Found}
<1>1. PeerList[n] \in Seq(Node)
  BY PathIsSeq, ResolutionAssumption
<1>2. hits \subseteq Nat
  BY <1>1, LenProperties
<1>3. CASE hits = {}
  BY <1>3 DEF FirstFound, Peers
<1>4. CASE hits # {}
  <2>1. \E i \in hits : \A j \in hits : i <= j
    BY <1>2, <1>4, LeastMember
  <2> DEFINE first == CHOOSE i \in hits : \A j \in hits : i <= j
  <2>2. first \in hits
    BY <2>1
  <2>3. FirstFound(path) = requests[path].outcome[PeerList[n][first]]
    BY <1>4 DEF FirstFound
  <2>. QED
    BY <2>2, <2>3 DEF Peers
<1>. QED
  BY <1>3, <1>4

-----------------------------------------------------------------------------
(* What may change under a request. *)

(* What grows and shrinks in a step that stores no row. *)
OnlyRemoves ==
    /\ \A n \in Node : rows'[n] \subseteq rows[n] /\ revoked[n] \subseteq revoked'[n]
    /\ UNCHANGED <<had, gaid, late>>

(* No deletion and no revocation makes what a request has found untrue. *)
LEMMA SoundStays ==
    ASSUME OnlyRemoves,
           NEW path \in Path, NEW r \in Request, Sound(path, r)
    PROVE  Sound(path, r)'
<1>1. Self(path) \in Node
  BY PathIsSeq
<1>2. ASSUME NEW kind, NEW n \in Node, Local(kind, n) = {} PROVE Local(kind, n)' = {}
  BY <1>2 DEF Local, ResolveLocally, ResolveWebFinger, OnlyRemoves
<1>3. Progress(path, r)'
  BY DEF Sound, Progress
<1>4. NothingHere(path, r)'
  BY <1>1, <1>2 DEF Sound, NothingHere, OnlyRemoves
<1>5. Reported(path, r)'
  BY <1>1 DEF Sound, Reported, Recorded, OnlyRemoves
<1>6. Documents(path, r)'
  BY DEF Sound, Documents, Truthful, PeerTold, OnlyRemoves
<1>. QED
  BY <1>3, <1>4, <1>5, <1>6 DEF Sound

(* The outcomes without a document are five different things. *)
LEMMA OutcomesDiffer ==
    /\ NotFound \notin Found /\ Aborted \notin Found
    /\ Asked \notin Found /\ Unasked \notin Found /\ Reading \notin Found
    /\ Reading # NotFound /\ Reading # Asked /\ Reading # Unasked /\ Reading # Aborted
    /\ NotFound # Asked /\ NotFound # Unasked /\ Aborted # NotFound
    /\ Asked # Unasked /\ Aborted # Asked /\ Aborted # Unasked
BY DEF NotFound, Aborted, Asked, Reading, Unasked, Found

(* One request goes on, and asks nobody anew. *)
LEMMA RequestGoesOn ==
    ASSUME IInv, UNCHANGED tables,
           status' \in [Node -> [Node -> Status]],
           NEW path \in Path, requests[path] # NoRequest,
           requests[path].stage # "answered",
           NEW r \in Request, requests' = [requests EXCEPT ![path] = r],
           r.kind = requests[path].kind,
           r.stage # "sent",
           \A p \in Node :
              /\ r.outcome[p] # Unasked => requests[path].outcome[p] # Unasked
              /\ r.outcome[p] \in {NotFound, Reading} =>
                    /\ requests[Append(path, p)].stage = "answered"
                    /\ r.outcome[p] = Reading => requests[Append(path, p)].answer # NotFound,
           Sound(path, r)
    PROVE  IInv'
<1>1. r # NoRequest
  BY ResolutionAssumption
<1>2. \A q \in Path : requests'[q] = IF q = path THEN r ELSE requests[q]
  BY DEF IInv, TypeOK
<1>3. TypeOK'
  BY DEF IInv, TypeOK
<1>4. Looking'
  BY <1>1, <1>2 DEF IInv, Looking
<1>5. Asks'
  <2> SUFFICES ASSUME NEW q \in Path, NEW p \in Node,
                      requests'[q] # NoRequest, requests'[q].outcome[p] # Unasked
               PROVE  /\ requests'[q].stage # "sent"
                      /\ p \in Peers(Self(q))
                      /\ requests'[Append(q, p)] # NoRequest
    BY DEF Asks
  <2>1. requests[q] # NoRequest /\ requests[q].outcome[p] # Unasked
    BY <1>2
  <2>2. /\ requests[q].stage # "sent"
        /\ p \in Peers(Self(q))
        /\ requests[Append(q, p)] # NoRequest
    BY <2>1 DEF IInv, Asks
  <2>3. Append(q, p) \in Path
    <3>1. Len(q) < MaxHops
      BY <2>1, <2>2 DEF IInv, Sound, Progress
    <3>. QED
      BY <2>2, <3>1, ChildIsPath
  <2>. QED
    BY <1>1, <1>2, <2>2, <2>3
<1>6. Kinds'
  <2>1. \A q \in Path : /\ requests'[q] # NoRequest <=> requests[q] # NoRequest
                        /\ requests'[q].kind = requests[q].kind
    BY <1>1, <1>2
  <2>. QED
    BY <2>1 DEF IInv, Kinds
<1>8. Settled'
  <2> SUFFICES ASSUME NEW q \in Path, NEW p \in Node, requests'[q] # NoRequest,
                      requests'[q].outcome[p] \in {NotFound, Reading}
               PROVE  /\ requests'[Append(q, p)].stage = "answered"
                      /\ requests'[q].outcome[p] = Reading =>
                           requests'[Append(q, p)].answer # NotFound
    BY DEF Settled
  <2>1. /\ requests[Append(q, p)].stage = "answered"
        /\ requests'[q].outcome[p] = Reading => requests[Append(q, p)].answer # NotFound
    <3>1. CASE q = path
      BY <1>2, <3>1
    <3>2. CASE q # path
      BY <1>2, <3>2 DEF IInv, Settled
    <3>. QED
      BY <3>1, <3>2
  <2>2. Append(q, p) \in Path
    <3>1. requests[q] # NoRequest /\ requests[q].outcome[p] # Unasked
      BY <1>2, OutcomesDiffer
    <3>2. p \in Peers(Self(q)) /\ requests[q].stage # "sent"
      BY <3>1 DEF IInv, Asks
    <3>3. Len(q) < MaxHops
      BY <3>1, <3>2 DEF IInv, Sound, Progress
    <3>. QED
      BY <3>2, <3>3, ChildIsPath
  <2>3. Append(q, p) # path
    BY <2>1
  <2>. QED
    BY <1>2, <2>1, <2>2, <2>3
<1>7. ASSUME NEW q \in Path, requests'[q] # NoRequest PROVE Sound(q, requests[q])'
  <2>1. PICK s \in Request : s = requests'[q]
    BY <1>3, <1>7 DEF TypeOK
  <2>2. Sound(q, s)
    BY <1>2, <2>1, <1>7 DEF IInv
  <2>3. Sound(q, s)'
    BY <2>2, SoundStays DEF OnlyRemoves
  <2>. QED
    BY <2>1, <2>3
<1>. QED
  BY <1>3, <1>4, <1>5, <1>6, <1>7, <1>8 DEF IInv

(* Nothing happens to the requests: tables, gossip and health only. *)
LEMMA TablesOnly ==
    ASSUME IInv, TypeOK', UNCHANGED requests, OnlyRemoves
    PROVE  IInv'
<1>2. Looking' /\ Asks' /\ Kinds' /\ Settled'
  BY DEF IInv, Looking, Asks, Kinds, Settled, OnlyRemoves
<1>3. ASSUME NEW q \in Path, requests'[q] # NoRequest PROVE Sound(q, requests[q])'
  <2>1. PICK s \in Request : s = requests'[q] /\ s = requests[q]
    BY <1>3 DEF IInv, TypeOK
  <2>2. Sound(q, s)
    BY <2>1, <1>3 DEF IInv
  <2>3. Sound(q, s)'
    BY <2>2, SoundStays
  <2>. QED
    BY <2>1, <2>3
<1>. QED
  BY <1>2, <1>3 DEF IInv

-----------------------------------------------------------------------------
(* One lemma for each action. *)

LEMMA SentType ==
    ASSUME NEW kind \in Kind
    PROVE  Sent(kind) \in Request /\ Sent(kind) # NoRequest
<1>1. Sent(kind) \in Request
  BY DEF Sent, Request, DidState
<1>. QED
  BY <1>1, ResolutionAssumption

(* A request that is only sent owes nothing yet. *)
LEMMA SentSound ==
    ASSUME NEW q \in Path, NEW kind \in Kind, requests'[q] = Sent(kind)
    PROVE  Sound(q, requests[q])'
<1>1. Progress(q, requests[q])' /\ NothingHere(q, requests[q])'
  BY OutcomesDiffer DEF Sent, Progress, NothingHere
<1>2. Reported(q, requests[q])' /\ Documents(q, requests[q])'
  BY OutcomesDiffer DEF Sent, Reported, Documents
<1>. QED
  BY <1>1, <1>2 DEF Sound

LEMMA AsksStep ==
    ASSUME IInv, NEW n \in Origin, NEW kind \in Kind, NEW g \in Looked,
           ClientAsks(n, kind, g)
    PROVE  IInv'
<1>1. /\ g \in Gaid /\ gaid' = g
      /\ UNCHANGED <<rows, had, revoked, gossip, status, late>>
      /\ <<n>> \in Path
  BY ResolutionAssumption, OriginIsPath DEF ClientAsks
<1>2. \A q \in Path : requests[q] = NoRequest
  BY ResolutionAssumption DEF IInv, Looking, ClientAsks
<1>3. Sent(kind) \in Request /\ Sent(kind) # NoRequest
  BY SentType
<1>4. \A q \in Path : requests'[q] = IF q = <<n>> THEN Sent(kind) ELSE NoRequest
  BY <1>2 DEF ClientAsks, IInv, TypeOK
<1>5. TypeOK'
  BY <1>1, <1>3 DEF ClientAsks, IInv, TypeOK
<1>6. Looking'
  BY <1>1 DEF IInv, Looking
<1>7. \A q \in Path : requests'[q] # NoRequest =>
         \A p \in Node : requests'[q].outcome[p] = Unasked
  BY <1>4 DEF Sent
<1>8. Asks' /\ Settled'
  BY <1>7, OutcomesDiffer DEF Asks, Settled
<1>9. Kinds'
  BY <1>4, OriginIsPath DEF Kinds
<1>10. ASSUME NEW q \in Path, requests'[q] # NoRequest PROVE Sound(q, requests[q])'
  BY <1>3, <1>4, <1>10, SentSound
<1>. QED
  BY <1>5, <1>6, <1>8, <1>9, <1>10 DEF IInv

(* What a request is and owes before it is taken up. *)
LEMMA SentRequest ==
    ASSUME IInv, NEW path \in Path, requests[path] # NoRequest,
           requests[path].stage = "sent"
    PROVE  /\ requests[path] \in Request
           /\ requests[path].answer = NotFound
           /\ \A p \in Node : requests[path].outcome[p] = Unasked
           /\ gaid \in Gaid
BY DEF IInv, TypeOK, Looking, Asks, Sound, Progress, Request

LEMMA AnswerLocallyStep ==
    ASSUME IInv, NEW path \in Path, requests[path] # NoRequest,
           requests[path].stage = "sent", Len(path) < MaxHops,
           UNCHANGED <<tables, status>>,
           NEW row \in Local(requests[path].kind, Self(path)),
           AnswerLocally(path, row)
    PROVE  IInv'
<1> DEFINE old   == requests[path]
           n     == Self(path)
           found == [form |-> IF old.kind = "webfinger" THEN "jrd" ELSE "manifest",
                     row |-> row, host |-> n, source |-> n]
           stage == IF old.kind = "inspect" THEN "checking" ELSE "answered"
           r     == [old EXCEPT !.answer = found, !.early = Recorded(n),
                                !.known = RevocationKnown(n, found), !.stage = stage]
<1>1. /\ old \in Request /\ n \in Node /\ old.kind \in Kind
      /\ \A p \in Node : old.outcome[p] = Unasked
  BY SentRequest, PathIsSeq DEF Request
<1>2. row \in rows[n] /\ row \in Row /\ row \in had[n]
  BY <1>1 DEF Local, ResolveLocally, ResolveWebFinger, IInv, TypeOK, Looking
<1>3. found \in Found /\ found # NotFound
  BY <1>1, <1>2 DEF Found, NotFound
<1>4. requests' = [requests EXCEPT ![path] = r]
  BY DEF AnswerLocally
<1> HIDE DEF found
<1>5. Recorded(n) \in BOOLEAN /\ RevocationKnown(n, found) \in BOOLEAN
  BY DEF Recorded, RevocationKnown
<1>6. /\ r \in Request
      /\ r.kind = old.kind /\ r.outcome = old.outcome
      /\ r.answer = found /\ r.stage = stage
      /\ r.early = Recorded(n) /\ r.known = RevocationKnown(n, found)
  BY <1>1, <1>3, <1>5 DEF Request
<1> HIDE DEF r, old
<1>7. Progress(path, r)
  BY <1>3, <1>6 DEF Progress
<1>8. NothingHere(path, r)
  BY <1>1, <1>3, <1>6, OutcomesDiffer DEF NothingHere
<1>9. Reported(path, r)
  BY <1>6 DEF Reported, Recorded, RevocationKnown
<1>10. Truthful(n, old.kind, found)
  BY <1>1, <1>2 DEF found, old, Truthful, Local, ResolveLocally, ResolveWebFinger, Kind
<1>11. Documents(path, r)
  BY <1>1, <1>6, <1>10, OutcomesDiffer DEF Documents
<1>12. status' \in [Node -> [Node -> Status]]
  BY DEF IInv, TypeOK
<1>13. Sound(path, r)
  BY <1>7, <1>8, <1>9, <1>11 DEF Sound
<1>14. r.kind = requests[path].kind /\ r.stage # "sent"
  BY <1>6 DEF old
<1>15. \A p \in Node : r.outcome[p] = Unasked
  BY <1>1, <1>6
<1>. QED
  BY <1>4, <1>6, <1>12, <1>13, <1>14, <1>15, RequestGoesOn, OutcomesDiffer

(* Nothing here, and nobody to ask. *)
LEMMA NobodyToAskStep ==
    ASSUME IInv, NEW path \in Path, requests[path] # NoRequest,
           requests[path].stage = "sent", Len(path) < MaxHops,
           UNCHANGED <<tables, status>>,
           Local(requests[path].kind, Self(path)) = {},
           requests' = [requests EXCEPT ![path].stage = "answered"]
    PROVE  IInv'
<1> DEFINE old == requests[path]
           r   == [old EXCEPT !.stage = "answered"]
<1>1. /\ old \in Request /\ old.answer = NotFound
      /\ \A p \in Node : old.outcome[p] = Unasked
  BY SentRequest
<1>2. requests' = [requests EXCEPT ![path] = r]
  OBVIOUS
<1>3. /\ r \in Request /\ r.stage = "answered" /\ r.kind = old.kind
      /\ r.answer = NotFound /\ r.outcome = old.outcome /\ r.early = old.early
  BY <1>1 DEF Request
<1> HIDE DEF r
<1>4. Sound(path, old)
  BY DEF IInv
<1> HIDE DEF old
<1>5. Self(path) \in Node /\ Peers(Self(path)) \subseteq Node
  BY PathIsSeq, PeersAreNodes
<1>6. Progress(path, r) /\ Reported(path, r)
  BY <1>3, <1>4 DEF Progress, Reported, Sound
<1>7. NothingHere(path, r)
  BY <1>1, <1>3, <1>5, OutcomesDiffer DEF NothingHere, old
<1>8. Documents(path, r)
  BY <1>1, <1>3, OutcomesDiffer DEF Documents
<1>9. Sound(path, r)
  BY <1>6, <1>7, <1>8 DEF Sound
<1>10. status' \in [Node -> [Node -> Status]]
  BY DEF IInv, TypeOK
<1>11. r.kind = requests[path].kind /\ r.stage # "sent" /\ \A p \in Node : r.outcome[p] = Unasked
  BY <1>1, <1>3 DEF old
<1>. QED
  BY <1>2, <1>3, <1>9, <1>10, <1>11, RequestGoesOn, OutcomesDiffer

(* Nothing here: every peer that is thought to be alive is asked. *)
LEMMA PeersAskedStep ==
    ASSUME IInv, NEW path \in Path, requests[path] # NoRequest,
           requests[path].stage = "sent", Len(path) < MaxHops,
           UNCHANGED <<tables, status>>,
           Local(requests[path].kind, Self(path)) = {},
           HealthyPeers(Self(path)) # {},
           AskPeers(path)
    PROVE  IInv'
<1> DEFINE old  == requests[path]
           n    == Self(path)
           S    == HealthyPeers(n)
           kind == ChildKind(old.kind)
           r    == [old EXCEPT !.stage = "asking", !.early = Recorded(n),
                       !.outcome = [p \in Node |-> IF p \in S THEN Asked ELSE Unasked]]
           IsChild(q) == \E p \in S : q = Append(path, p)
<1>1. /\ old \in Request /\ old.answer = NotFound /\ gaid \in Gaid
      /\ kind \in Kind /\ n \in Node
  BY SentRequest, PathIsSeq DEF Request, Kind, ChildKind
<1>2. S \subseteq Peers(n) /\ S \subseteq Node
  BY <1>1, PeersAreNodes DEF HealthyPeers
<1>3. \A q \in Path : requests'[q] = IF q = path THEN r
                                     ELSE IF IsChild(q) THEN Sent(kind) ELSE requests[q]
  BY DEF AskPeers
<1>4. \A p \in S : Append(path, p) \in Path /\ Append(path, p) # path
  BY <1>2, ChildIsPath, ChildOfPath
<1>5. /\ r \in Request /\ r.kind = old.kind /\ r.stage = "asking"
      /\ r.answer = NotFound /\ r.early = Recorded(n)
      /\ \A p \in Node : r.outcome[p] = IF p \in S THEN Asked ELSE Unasked
  <2>1. Recorded(n) \in BOOLEAN
    BY DEF Recorded
  <2>. QED
    BY <1>1, <2>1 DEF Request
<1>6. r # NoRequest /\ Sent(kind) # NoRequest /\ Sent(kind) \in Request
  BY <1>1, <1>5, SentType, ResolutionAssumption
<1>s. Sent(kind).kind = kind /\ \A p \in Node : Sent(kind).outcome[p] = Unasked
  BY DEF Sent
<1> HIDE DEF r, S
<1>7. \A q \in Path : \A p \in Node : Append(q, p) \in Path /\ IsChild(Append(q, p)) =>
                                         q = path /\ p \in S
  BY <1>2, ChildOfPath
<1>8. TypeOK'
  <2>1. DOMAIN requests' = Path /\ requests' = [q \in Path |-> requests'[q]]
    BY DEF AskPeers
  <2>2. \A q \in Path : requests'[q] \in Request \cup {NoRequest}
    BY <1>3, <1>5, <1>6 DEF IInv, TypeOK
  <2>3. requests' \in [Path -> Request \cup {NoRequest}]
    BY <2>1, <2>2
  <2>. QED
    BY <2>3 DEF IInv, TypeOK
<1>9. Looking'
  BY <1>1 DEF IInv, Looking
<1>10. \A q \in Path : requests[q] # NoRequest =>
          requests'[q] # NoRequest /\ requests'[q].kind = requests[q].kind
  <2> SUFFICES ASSUME NEW q \in Path, requests[q] # NoRequest
               PROVE  requests'[q] # NoRequest /\ requests'[q].kind = requests[q].kind
    OBVIOUS
  <2>1. CASE q = path
    BY <1>3, <1>5, <1>6, <2>1
  <2>2. CASE q # path /\ IsChild(q)
    <3>1. requests[q].kind = kind
      BY <1>2, <1>4, <2>2 DEF IInv, Kinds
    <3>2. requests'[q] = Sent(kind)
      BY <1>3, <2>2
    <3>. QED
      BY <1>6, <1>s, <3>1, <3>2
  <2>3. CASE q # path /\ ~ IsChild(q)
    BY <1>3, <2>3
  <2>. QED
    BY <2>1, <2>2, <2>3
<1>11. Asks'
  <2> SUFFICES ASSUME NEW q \in Path, NEW p \in Node,
                      requests'[q] # NoRequest, requests'[q].outcome[p] # Unasked
               PROVE  /\ requests'[q].stage # "sent"
                      /\ p \in Peers(Self(q))
                      /\ requests'[Append(q, p)] # NoRequest
    BY DEF Asks
  <2>1. CASE q = path
    <3>1. p \in S
      BY <1>3, <1>5, <2>1
    <3>. QED
      BY <1>2, <1>3, <1>4, <1>5, <1>6, <2>1, <3>1
  <2>2. CASE q # path /\ IsChild(q)
    <3>1. requests'[q] = Sent(kind)
      BY <1>3, <2>2
    <3>. QED
      BY <1>s, <3>1
  <2>3. CASE q # path /\ ~ IsChild(q)
    <3>1. requests'[q] = requests[q]
      BY <1>3, <2>3
    <3>2. /\ requests[q].stage # "sent"
          /\ p \in Peers(Self(q))
          /\ requests[Append(q, p)] # NoRequest
      BY <3>1 DEF IInv, Asks
    <3>3. Append(q, p) \in Path
      <4>1. Len(q) < MaxHops
        BY <3>1, <3>2 DEF IInv, Sound, Progress
      <4>. QED
        BY <3>2, <4>1, ChildIsPath
    <3>. QED
      BY <1>10, <3>1, <3>2, <3>3
  <2>. QED
    BY <2>1, <2>2, <2>3
<1>12. Kinds'
  <2> SUFFICES ASSUME NEW q \in Path, NEW p \in Node,
                      Append(q, p) \in Path, requests'[Append(q, p)] # NoRequest
               PROVE  /\ requests'[q] # NoRequest
                      /\ requests'[Append(q, p)].kind = ChildKind(requests'[q].kind)
    BY DEF Kinds
  <2>1. CASE IsChild(Append(q, p))
    <3>1. q = path /\ Append(q, p) # path
      BY <1>4, <1>7, <2>1
    <3>2. requests'[Append(q, p)] = Sent(kind) /\ requests'[q] = r
      BY <1>3, <2>1, <3>1
    <3>. QED
      BY <1>5, <1>6, <1>s, <3>2
  <2>2. CASE ~ IsChild(Append(q, p))
    <3>1. requests[Append(q, p)] # NoRequest
      BY <1>3, <2>2
    <3>2. /\ requests[q] # NoRequest
          /\ requests[Append(q, p)].kind = ChildKind(requests[q].kind)
      BY <3>1 DEF IInv, Kinds
    <3>. QED
      BY <1>10, <3>1, <3>2
  <2>. QED
    BY <2>1, <2>2
<1>15. Settled'
  <2> SUFFICES ASSUME NEW q \in Path, NEW p \in Node, requests'[q] # NoRequest,
                      requests'[q].outcome[p] \in {NotFound, Reading}
               PROVE  /\ requests'[Append(q, p)].stage = "answered"
                      /\ requests'[q].outcome[p] = Reading =>
                           requests'[Append(q, p)].answer # NotFound
    BY DEF Settled
  <2>1. q # path /\ ~ IsChild(q)
    <3>1. ASSUME q = path PROVE FALSE
      BY <1>3, <1>5, <3>1, OutcomesDiffer
    <3>2. ASSUME q # path, IsChild(q) PROVE FALSE
      <4>1. requests'[q] = Sent(kind)
        BY <1>3, <3>2
      <4>. QED
        BY <1>s, <4>1, OutcomesDiffer
    <3>. QED
      BY <3>1, <3>2
  <2>2. requests'[q] = requests[q]
    BY <1>3, <2>1
  <2>3. /\ requests[Append(q, p)].stage = "answered"
        /\ requests[q].outcome[p] = Reading => requests[Append(q, p)].answer # NotFound
    BY <2>2 DEF IInv, Settled
  <2>4. Append(q, p) \in Path
    <3>1. p \in Peers(Self(q)) /\ requests[q].stage # "sent"
      BY <2>2, OutcomesDiffer DEF IInv, Asks
    <3>2. Len(q) < MaxHops
      BY <2>2, <3>1 DEF IInv, Sound, Progress
    <3>. QED
      BY <3>1, <3>2, ChildIsPath
  <2>5. Append(q, p) # path /\ ~ IsChild(Append(q, p))
    BY <1>7, <2>1, <2>3, <2>4
  <2>6. requests'[Append(q, p)] = requests[Append(q, p)]
    BY <1>3, <2>4, <2>5
  <2>. QED
    BY <2>2, <2>3, <2>6
<1>13. Sound(path, r)
  <2>1. Progress(path, r)
    BY <1>5 DEF Progress
  <2>2. NothingHere(path, r)
    BY <1>5, OutcomesDiffer DEF NothingHere
  <2>3. Reported(path, r) /\ Documents(path, r)
    BY <1>5, OutcomesDiffer DEF Reported, Documents
  <2>. QED
    BY <2>1, <2>2, <2>3 DEF Sound
<1>14. ASSUME NEW q \in Path, requests'[q] # NoRequest PROVE Sound(q, requests[q])'
  <2>1. CASE q # path /\ IsChild(q)
    BY <1>1, <1>3, <2>1, SentSound
  <2>2. CASE ~ (q # path /\ IsChild(q))
    <3>1. PICK s \in Request : s = requests'[q]
      BY <1>8, <1>14 DEF TypeOK
    <3>2. Sound(q, s)
      BY <1>3, <1>13, <1>14, <2>2, <3>1 DEF IInv
    <3>3. Sound(q, s)'
      BY <3>2, SoundStays DEF OnlyRemoves
    <3>. QED
      BY <3>1, <3>3
  <2>. QED
    BY <2>1, <2>2
<1>. QED
  BY <1>8, <1>9, <1>11, <1>12, <1>14, <1>15 DEF IInv

LEMMA HandleStep ==
    ASSUME IInv, NEW path \in Path, Handle(path)
    PROVE  IInv'
<1> DEFINE local == Local(requests[path].kind, Self(path))
<1>1. /\ requests[path] # NoRequest /\ requests[path].stage = "sent"
      /\ Len(path) < MaxHops
      /\ UNCHANGED <<tables, status>>
  BY DEF Handle
<1>2. CASE local # {}
  <2>1. PICK row \in local : AnswerLocally(path, row)
    BY <1>2 DEF Handle
  <2>. QED
    BY <1>1, <2>1, AnswerLocallyStep
<1>3. CASE local = {} /\ HealthyPeers(Self(path)) = {}
  <2>1. requests' = [requests EXCEPT ![path].stage = "answered"]
    BY <1>3 DEF Handle, AskPeers
  <2>. QED
    BY <1>1, <1>3, <2>1, NobodyToAskStep
<1>4. CASE local = {} /\ HealthyPeers(Self(path)) # {}
  <2>1. AskPeers(path)
    BY <1>4 DEF Handle
  <2>. QED
    BY <1>1, <1>4, <2>1, PeersAskedStep
<1>. QED
  BY <1>2, <1>3, <1>4

(* One outcome is noted. *)
LEMMA SettleStep ==
    ASSUME IInv, UNCHANGED tables, status' \in [Node -> [Node -> Status]],
           NEW path \in Path, NEW p \in Node,
           requests[path] # NoRequest, requests[path].stage = "asking",
           requests[path].outcome[p] \in {Asked, Reading},
           NEW result \in Found \cup {NotFound, Aborted, Reading}, Settle(path, p, result),
           result = NotFound => \/ Local(ChildKind(requests[path].kind), p) = {}
                                \/ Append(path, p) \in late,
           result \in {NotFound, Reading} =>
              /\ requests[Append(path, p)].stage = "answered"
              /\ result = Reading => requests[Append(path, p)].answer # NotFound,
           result \in Found => PeerTold(requests[path].kind, p, result)
    PROVE  IInv'
<1> DEFINE old     == requests[path]
           outcome == [old.outcome EXCEPT ![p] = result]
           r       == [old EXCEPT !.outcome = outcome]
<1>1. old \in Request /\ old.stage = "asking" /\ Sound(path, old)
  BY DEF IInv, TypeOK
<1>2. requests' = [requests EXCEPT ![path] = r]
  BY DEF Settle
<1>3. /\ outcome \in [Node -> Found \cup {NotFound, Aborted, Asked, Reading, Unasked}]
      /\ \A q \in Node : outcome[q] = IF q = p THEN result ELSE old.outcome[q]
  BY <1>1 DEF Request
<1> HIDE DEF outcome
<1>4. /\ r \in Request /\ r.stage = "asking" /\ r.kind = old.kind
      /\ r.answer = old.answer /\ r.outcome = outcome
      /\ r.early = old.early /\ r.known = old.known
  BY <1>1, <1>3 DEF Request
<1> HIDE DEF r
<1>5. Progress(path, r) /\ Reported(path, r)
  BY <1>1, <1>4 DEF Sound, Progress, Reported
<1>6. NothingHere(path, r)
  BY <1>1, <1>3, <1>4 DEF Sound, NothingHere
<1>7. Documents(path, r)
  BY <1>1, <1>3, <1>4 DEF Sound, Documents
<1>8. Sound(path, r)
  BY <1>5, <1>6, <1>7 DEF Sound
<1>9. ASSUME NEW q \in Node
      PROVE  /\ r.outcome[q] # Unasked => old.outcome[q] # Unasked
             /\ r.outcome[q] \in {NotFound, Reading} =>
                  /\ requests[Append(path, q)].stage = "answered"
                  /\ r.outcome[q] = Reading => requests[Append(path, q)].answer # NotFound
  <2>1. CASE q = p
    BY <1>3, <1>4, <2>1, OutcomesDiffer
  <2>2. CASE q # p
    BY <1>3, <1>4, <2>2 DEF IInv, Settled
  <2>. QED
    BY <2>1, <2>2
<1>. QED
  BY <1>1, <1>2, <1>4, <1>8, <1>9, RequestGoesOn

(* The request that p answers is a request of the kind path sends, at p.     *)
LEMMA AskedChild ==
    ASSUME IInv, NEW path \in Path, NEW p \in Node, requests[path] # NoRequest,
           requests[path].outcome[p] # Unasked
    PROVE  LET child == Append(path, p) IN
           /\ child \in Path /\ Self(child) = p
           /\ requests[child] \in Request /\ requests[child] # NoRequest
           /\ requests[child].kind = ChildKind(requests[path].kind)
           /\ Sound(child, requests[child])
<1>1. /\ p \in Peers(Self(path)) /\ requests[Append(path, p)] # NoRequest
      /\ Len(path) < MaxHops
  BY DEF IInv, Asks, Sound, Progress
<1>2. Append(path, p) \in Path /\ Self(Append(path, p)) = p
  BY <1>1, ChildIsPath, ChildOfPath
<1>. QED
  BY <1>1, <1>2 DEF IInv, TypeOK, Kinds

LEMMA StatusType ==
    ASSUME IInv, NEW path \in Path, NEW p, NEW ok \in BOOLEAN, UpdateStatus(path, p, ok)
    PROVE  status' \in [Node -> [Node -> Status]]
<1>1. Self(path) \in Node /\ status \in [Node -> [Node -> Status]]
  BY PathIsSeq DEF IInv, TypeOK
<1>. QED
  BY <1>1 DEF UpdateStatus, Status

LEMMA PeerHasNoneStep ==
    ASSUME IInv, NEW path \in Path, NEW p \in Node, PeerHasNone(path, p)
    PROVE  IInv'
<1> DEFINE child == requests[Append(path, p)]
<1>1. /\ requests[path] # NoRequest /\ requests[path].stage = "asking"
      /\ requests[path].outcome[p] = Asked
      /\ child.stage = "answered" /\ child.answer = NotFound
      /\ Settle(path, p, NotFound) /\ UNCHANGED tables
  BY DEF PeerHasNone, Waiting
<1>2. status' \in [Node -> [Node -> Status]]
  BY StatusType DEF PeerHasNone
<1>3. /\ Self(Append(path, p)) = p
      /\ child.kind = ChildKind(requests[path].kind)
      /\ Sound(Append(path, p), child)
  BY <1>1, AskedChild, OutcomesDiffer
<1>4. Local(ChildKind(requests[path].kind), p) = {} \/ Append(path, p) \in late
  BY <1>1, <1>3 DEF Sound, NothingHere
<1>. QED
  BY <1>1, <1>2, <1>4, SettleStep, OutcomesDiffer

LEMMA HeadersArriveStep ==
    ASSUME IInv, NEW path \in Path, NEW p \in Node, HeadersArrive(path, p)
    PROVE  IInv'
<1>1. status' \in [Node -> [Node -> Status]]
  BY StatusType DEF HeadersArrive
<1>. QED
  BY <1>1, SettleStep, OutcomesDiffer DEF HeadersArrive, Waiting

LEMMA BodyArrivesStep ==
    ASSUME IInv, NEW path \in Path, NEW p \in Node, BodyArrives(path, p)
    PROVE  IInv'
<1> DEFINE kind   == requests[path].kind
           child  == requests[Append(path, p)]
           answer == child.answer
           result == IF kind = "inspect" THEN answer ELSE [answer EXCEPT !.source = p]
<1>1. /\ requests[path] # NoRequest /\ requests[path].stage = "asking"
      /\ requests[path].outcome[p] = Reading
      /\ Settle(path, p, result) /\ UNCHANGED <<tables, status>>
  BY DEF BodyArrives, ReadingBody
<1>2. /\ child \in Request /\ child.kind = ChildKind(kind)
      /\ Self(Append(path, p)) = p /\ Sound(Append(path, p), child)
  BY <1>1, AskedChild, OutcomesDiffer
<1>3. status' \in [Node -> [Node -> Status]]
  BY <1>1 DEF IInv, TypeOK
<1>4. answer \in Found
  <2>1. answer # NotFound
    BY <1>1 DEF IInv, Settled
  <2>. QED
    BY <1>2, <2>1 DEF Request
<1>5. kind \in Kind
  BY <1>1 DEF IInv, TypeOK, Request
<1>6. Truthful(p, ChildKind(kind), answer)
  BY <1>2, <1>4, OutcomesDiffer DEF Sound, Documents
<1> HIDE DEF child
<1> HIDE DEF answer, kind
<1>7. CASE kind = "inspect"
  <2>1. result = answer
    BY <1>7
  <2>2. Truthful(p, "resolve", answer)
    BY <1>6, <1>7 DEF ChildKind
  <2>3. PeerTold(kind, p, answer)
    BY <1>7, <2>2 DEF PeerTold, Truthful
  <2>. QED
    BY <1>1, <1>3, <1>4, <2>1, <2>3, SettleStep, OutcomesDiffer DEF kind
<1>8. CASE kind # "inspect"
  <2> DEFINE told == [answer EXCEPT !.source = p]
  <2>1. result = told
    BY <1>8
  <2>2. /\ told \in Found /\ told.form = answer.form /\ told.row = answer.row
        /\ told.host = answer.host /\ told.source = p
    BY <1>4 DEF Found
  <2>3. Truthful(p, "webfinger", answer)
    BY <1>6, <1>8 DEF ChildKind
  <2>4. answer.form # "manifest"
    BY <2>3 DEF Truthful
  <2>5. Settle(path, p, told)
    BY <1>1, <2>1
  <2> HIDE DEF told
  <2>6. PeerTold(kind, p, told)
    BY <1>8, <2>2, <2>3, <2>4 DEF PeerTold, Truthful
  <2>. QED
    BY <1>1, <1>3, <2>2, <2>5, <2>6, SettleStep, OutcomesDiffer DEF kind
<1>. QED
  BY <1>7, <1>8

(* Nothing comes of a request: no response, an error status, a broken body.  *)
LEMMA NothingComesStep ==
    ASSUME IInv, NEW path \in Path, NEW p \in Node,
           BodyBreaks(path, p) \/ Aborts(path, p) \/ Refuses(path, p)
    PROVE  IInv'
<1>1. status' \in [Node -> [Node -> Status]]
  BY StatusType DEF BodyBreaks, Aborts, Refuses, IInv, TypeOK
<1>. QED
  BY <1>1, SettleStep, OutcomesDiffer
  DEF BodyBreaks, Aborts, Refuses, Waiting, ReadingBody

(* What a peer told is true as the answer of the node that asked it, too.    *)
LEMMA ToldIsTruthful ==
    ASSUME NEW n \in Node, NEW p \in Peers(n), NEW kind \in Kind, NEW answer \in Found,
           PeerTold(kind, p, answer)
    PROVE  Truthful(n, kind, answer)
BY DEF PeerTold, Truthful, Kind, Found

LEMMA PeersDoneStep ==
    ASSUME IInv, NEW path \in Path, PeersDone(path)
    PROVE  IInv'
<1> DEFINE old   == requests[path]
           n     == Self(path)
           found == FirstFound(path)
           stage == IF old.kind = "inspect" /\ found # NotFound
                    THEN "checking" ELSE "answered"
           r     == [old EXCEPT !.answer = found, !.known = RevocationKnown(n, found),
                                !.stage = stage]
<1>1. /\ old \in Request /\ old # NoRequest /\ old.kind \in Kind
      /\ old.stage = "asking" /\ Sound(path, old)
      /\ UNCHANGED <<tables, status>>
      /\ n \in Node /\ Peers(n) \subseteq Node
  BY PathIsSeq, PeersAreNodes DEF PeersDone, IInv, TypeOK, Request
<1>2. requests' = [requests EXCEPT ![path] = r]
  BY DEF PeersDone
<1>3. \/ /\ found = NotFound
         /\ \A p \in Peers(n) : old.outcome[p] \notin Found
      \/ \E p \in Peers(n) : old.outcome[p] \in Found /\ found = old.outcome[p]
  BY <1>1, FirstFoundTold DEF IInv
<1>4. \A p \in Node : old.outcome[p] \in Found \cup {NotFound, Aborted, Unasked}
  BY <1>1 DEF PeersDone, AllSettled, Request
<1> HIDE DEF found
<1>5. found \in Found \cup {NotFound}
  BY <1>3
<1>6. RevocationKnown(n, found) \in BOOLEAN
  BY DEF RevocationKnown
<1>7. /\ r \in Request /\ r.kind = old.kind /\ r.outcome = old.outcome
      /\ r.answer = found /\ r.stage = stage /\ r.early = old.early
      /\ r.known = RevocationKnown(n, found)
  BY <1>1, <1>5, <1>6 DEF Request
<1> HIDE DEF r
<1>8. Progress(path, r)
  BY <1>1, <1>7 DEF Sound, Progress
<1>9. NothingHere(path, r)
  BY <1>1, <1>3, <1>4, <1>7, OutcomesDiffer DEF Sound, NothingHere
<1>10. Reported(path, r)
  BY <1>1, <1>7 DEF Sound, Reported, Recorded, RevocationKnown
<1>11. found # NotFound => Truthful(n, old.kind, found)
  <2>1. \A p \in Node : old.outcome[p] \in Found => PeerTold(old.kind, p, old.outcome[p])
    BY <1>1 DEF Sound, Documents
  <2> HIDE DEF old, n
  <2>2. ASSUME NEW p \in Peers(n), old.outcome[p] \in Found, found = old.outcome[p]
        PROVE  Truthful(n, old.kind, found)
    BY <1>1, <2>1, <2>2, ToldIsTruthful
  <2>. QED
    BY <1>3, <2>2
<1>12. Documents(path, r)
  BY <1>1, <1>7, <1>11 DEF Sound, Documents
<1>13. Sound(path, r)
  BY <1>8, <1>9, <1>10, <1>12 DEF Sound
<1>14. status' \in [Node -> [Node -> Status]]
  BY <1>1 DEF IInv, TypeOK
<1>15. \A p \in Node : r.outcome[p] \in {NotFound, Reading} =>
         /\ requests[Append(path, p)].stage = "answered"
         /\ r.outcome[p] = Reading => requests[Append(path, p)].answer # NotFound
  BY <1>1, <1>7 DEF IInv, Settled
<1>. QED
  BY <1>1, <1>2, <1>7, <1>13, <1>14, <1>15, RequestGoesOn

LEMMA CheckingDoneStep ==
    ASSUME IInv, NEW path \in Path, CheckingDone(path)
    PROVE  IInv'
<1> DEFINE old == requests[path]
<1>1. PICK d \in DidOutcomes(old.answer) :
        requests' = [requests EXCEPT ![path] = [old EXCEPT !.stage = "policy", !.did = d]]
  BY DEF CheckingDone
<1> DEFINE r == [old EXCEPT !.stage = "policy", !.did = d]
<1>2. /\ old \in Request /\ old # NoRequest /\ old.stage = "checking" /\ Sound(path, old)
      /\ UNCHANGED <<tables, status>>
  BY DEF CheckingDone, IInv, TypeOK
<1>3. d \in DidState
  BY <1>1 DEF DidOutcomes, DidState
<1>4. /\ r \in Request /\ r.stage = "policy"
      /\ r.kind = old.kind /\ r.answer = old.answer /\ r.outcome = old.outcome
      /\ r.early = old.early /\ r.known = old.known
  BY <1>2, <1>3 DEF Request
<1> HIDE DEF r
<1>5. Sound(path, r)
  BY <1>2, <1>4 DEF Sound, Progress, NothingHere, Reported, Documents
<1>6. status' \in [Node -> [Node -> Status]]
  BY <1>2 DEF IInv, TypeOK
<1>7. \A p \in Node : r.outcome[p] \in {NotFound, Reading} =>
         /\ requests[Append(path, p)].stage = "answered"
         /\ r.outcome[p] = Reading => requests[Append(path, p)].answer # NotFound
  BY <1>2, <1>4 DEF IInv, Settled
<1>. QED
  BY <1>1, <1>2, <1>4, <1>5, <1>6, <1>7, RequestGoesOn DEF r

LEMMA InspectDoneStep ==
    ASSUME IInv, NEW path \in Path, InspectDone(path)
    PROVE  IInv'
<1> DEFINE old == requests[path]
           r   == [old EXCEPT !.stage = "answered"]
<1>1. requests' = [requests EXCEPT ![path] = r]
  BY DEF InspectDone
<1>2. /\ old \in Request /\ old # NoRequest /\ old.stage = "policy" /\ Sound(path, old)
      /\ UNCHANGED <<tables, status>>
  BY DEF InspectDone, IInv, TypeOK
<1>4. /\ r \in Request /\ r.stage = "answered"
      /\ r.kind = old.kind /\ r.answer = old.answer /\ r.outcome = old.outcome
      /\ r.early = old.early /\ r.known = old.known
  BY <1>2 DEF Request
<1> HIDE DEF r
<1>5. Sound(path, r)
  BY <1>2, <1>4 DEF Sound, Progress, NothingHere, Reported, Documents
<1>6. status' \in [Node -> [Node -> Status]]
  BY <1>2 DEF IInv, TypeOK
<1>7. \A p \in Node : r.outcome[p] \in {NotFound, Reading} =>
         /\ requests[Append(path, p)].stage = "answered"
         /\ r.outcome[p] = Reading => requests[Append(path, p)].answer # NotFound
  BY <1>2, <1>4 DEF IInv, Settled
<1>. QED
  BY <1>1, <1>2, <1>4, <1>5, <1>6, <1>7, RequestGoesOn

LEMMA RevokeStep ==
    ASSUME IInv, NEW n \in Node, NEW row \in rows[n], Revoke(n, row)
    PROVE  IInv'
<1> DEFINE record == [gaid |-> IF row.gaid = NoGaid THEN Bare[row.name] ELSE row.gaid,
                      name |-> row.name]
<1>1. TypeOK /\ row \in Row
  BY DEF IInv, TypeOK
<1>2. record \in Revocation
  BY <1>1, ResolutionAssumption DEF Row, Revocation
<1>3. HealthyPeers(n) \subseteq Node
  BY PeersAreNodes DEF HealthyPeers
<1>4. /\ rows' = [rows EXCEPT ![n] = @ \ {row}]
      /\ revoked' = [revoked EXCEPT ![n] = @ \cup {record}]
      /\ gossip' = gossip \cup [to : HealthyPeers(n), record : {record}]
      /\ UNCHANGED <<had, status, gaid, requests, late>>
  BY DEF Revoke
<1> HIDE DEF record
<1>5. rows' \in [Node -> SUBSET Row] /\ revoked' \in [Node -> SUBSET Revocation]
  BY <1>1, <1>2, <1>4 DEF TypeOK
<1>6. gossip' \in SUBSET [to : Node, record : Revocation]
  BY <1>1, <1>2, <1>3, <1>4 DEF TypeOK
<1>7. TypeOK'
  BY <1>1, <1>4, <1>5, <1>6 DEF TypeOK
<1>8. OnlyRemoves
  BY <1>1, <1>4 DEF TypeOK, OnlyRemoves
<1>. QED
  BY <1>4, <1>7, <1>8, TablesOnly

LEMMA LearnStep ==
    ASSUME IInv, NEW message \in gossip, LearnRevocation(message)
    PROVE  IInv'
<1>1. /\ TypeOK /\ message.to \in Node /\ message.record \in Revocation
      /\ gossip' \subseteq gossip /\ UNCHANGED <<had, status, gaid, requests, late>>
  BY DEF LearnRevocation, IInv, TypeOK
<1>2. rows' \in [Node -> SUBSET Row] /\ revoked' \in [Node -> SUBSET Revocation]
  <2> DEFINE n      == message.to
             record == message.record
             kept   == {row \in rows[n] : row.name # record.name}
  <2>1. CASE UNCHANGED <<rows, revoked>>
    BY <1>1, <2>1 DEF TypeOK
  <2>2. CASE /\ revoked' = [revoked EXCEPT ![n] = @ \cup {record}]
             /\ rows' = [rows EXCEPT ![n] = kept]
    <3>1. kept \in SUBSET Row /\ revoked[n] \cup {record} \in SUBSET Revocation
      BY <1>1 DEF TypeOK
    <3> HIDE DEF kept
    <3>. QED
      BY <1>1, <2>2, <3>1 DEF TypeOK
  <2>. QED
    BY <2>1, <2>2 DEF LearnRevocation
<1>3. TypeOK'
  BY <1>1, <1>2 DEF TypeOK
<1>4. OnlyRemoves
  BY <1>1 DEF LearnRevocation, TypeOK, OnlyRemoves
<1>. QED
  BY <1>1, <1>3, <1>4, TablesOnly

LEMMA CheckPeerStep ==
    ASSUME IInv, NEW n \in Node, NEW p \in Node, CheckPeer(n, p)
    PROVE  IInv'
<1>1. TypeOK'
  BY DEF CheckPeer, IInv, TypeOK, Status
<1>. QED
  BY <1>1, TablesOnly DEF CheckPeer, OnlyRemoves

(* A row that is stored makes some requests late, and nothing untrue. *)
LEMMA StoreStep ==
    ASSUME IInv, NEW n \in Node, NEW row \in Row, Store(n, row)
    PROVE  IInv'
<1>1. /\ TypeOK
      /\ rows' = [rows EXCEPT ![n] = {old \in @ : old.name # row.name} \cup {row}]
      /\ had' = [had EXCEPT ![n] = @ \cup {row}]
      /\ late' = late \cup TakenUp(n)
      /\ UNCHANGED <<revoked, gossip, status, gaid, requests>>
  BY DEF Store, IInv
<1>2. /\ rows'[n] = {old \in rows[n] : old.name # row.name} \cup {row}
      /\ had'[n] = had[n] \cup {row}
      /\ \A m \in Node \ {n} : rows'[m] = rows[m] /\ had'[m] = had[m]
  BY <1>1 DEF TypeOK
<1>3. TypeOK'
  <2>1. rows' \in [Node -> SUBSET Row] /\ had' \in [Node -> SUBSET Row]
    BY <1>1, <1>2 DEF TypeOK
  <2>2. late' \in SUBSET Path
    BY <1>1 DEF TypeOK, TakenUp
  <2>. QED
    BY <1>1, <2>1, <2>2 DEF TypeOK
<1>4. Looking' /\ Asks' /\ Kinds' /\ Settled'
  <2>1. \A m \in Node : rows'[m] \subseteq had'[m]
    BY <1>2 DEF IInv, Looking
  <2>. QED
    BY <1>1, <2>1 DEF IInv, Looking, Asks, Kinds, Settled
<1>5. ASSUME NEW kind, NEW q \in Path, requests[q] # NoRequest, requests[q].stage # "sent",
             Local(kind, Self(q)) = {} \/ q \in late
      PROVE  Local(kind, Self(q))' = {} \/ q \in late'
  <2>1. CASE Self(q) = n \/ q \in late
    BY <1>1, <1>5, <2>1 DEF TakenUp
  <2>2. CASE Self(q) # n /\ q \notin late
    <3>1. rows'[Self(q)] = rows[Self(q)]
      BY <1>2, <2>2, PathIsSeq
    <3>. QED
      BY <1>1, <1>5, <2>2, <3>1 DEF Local, ResolveLocally, ResolveWebFinger
  <2>. QED
    BY <2>1, <2>2
<1>6. ASSUME NEW q \in Path, requests'[q] # NoRequest PROVE Sound(q, requests[q])'
  <2>1. PICK r \in Request : r = requests[q] /\ r = requests'[q]
    BY <1>1, <1>6 DEF TypeOK
  <2>2. Sound(q, r)
    BY <1>1, <1>6, <2>1 DEF IInv
  <2>3. Progress(q, r)'
    BY <2>2 DEF Sound, Progress
  <2>4. r.stage \in {"asking", "answered"} =>
          (Local(r.kind, Self(q)) = {} \/ q \in late =>
             Local(r.kind, Self(q))' = {} \/ q \in late')
    BY <1>1, <1>5, <1>6, <2>1
  <2>5. ASSUME NEW p \in Node, r.outcome[p] = NotFound
        PROVE  Local(ChildKind(r.kind), p)' = {} \/ Append(q, p) \in late'
    <3>1. /\ Append(q, p) \in Path /\ Self(Append(q, p)) = p
          /\ requests[Append(q, p)] # NoRequest
      BY <1>1, <1>6, <2>1, <2>5, AskedChild, OutcomesDiffer
    <3>2. requests[Append(q, p)].stage = "answered"
      BY <1>1, <1>6, <2>1, <2>5 DEF IInv, Settled
    <3>3. Local(ChildKind(r.kind), p) = {} \/ Append(q, p) \in late
      BY <2>2, <2>5 DEF Sound, NothingHere
    <3>4. \/ Local(ChildKind(r.kind), Self(Append(q, p)))' = {}
          \/ Append(q, p) \in late'
      BY <1>5, <3>1, <3>2, <3>3
    <3>. QED
      BY <3>1, <3>4
  <2>6. NothingHere(q, r)'
    BY <2>2, <2>4, <2>5 DEF Sound, NothingHere
  <2>7. Reported(q, r)'
    BY <1>1, <2>2 DEF Sound, Reported, Recorded
  <2>8. \A m \in Node : had[m] \subseteq had'[m]
    BY <1>2
  <2>9. Documents(q, r)'
    <3>1. \A answer \in Found : answer.host \in Node
      BY DEF Found
    <3>2. r.answer # NotFound => r.answer \in Found
      BY DEF Request
    <3>. QED
      BY <1>1, <2>2, <2>8, <3>1, <3>2 DEF Sound, Documents, Truthful, PeerTold
  <2>. QED
    BY <2>1, <2>3, <2>6, <2>7, <2>9 DEF Sound
<1>. QED
  BY <1>3, <1>4, <1>6 DEF IInv

-----------------------------------------------------------------------------
LEMMA InitInv == Init => IInv
<1> SUFFICES ASSUME Init PROVE IInv
  OBVIOUS
<1>1. TypeOK
  BY ResolutionAssumption DEF Init, TypeOK, Status
<1>. QED
  BY <1>1 DEF Init, IInv, Looking, Asks, Kinds, Settled

LEMMA NextInv == IInv /\ [Next]_vars => IInv'
<1> SUFFICES ASSUME IInv, [Next]_vars PROVE IInv'
  OBVIOUS
<1>1. CASE Asking
  BY <1>1, AsksStep DEF Asking
<1>2. CASE Handling
  BY <1>2, HandleStep, PeerHasNoneStep, HeadersArriveStep, BodyArrivesStep,
     NothingComesStep, PeersDoneStep, CheckingDoneStep, InspectDoneStep DEF Handling
<1>3. CASE Changing
  BY <1>3, RevokeStep, LearnStep, CheckPeerStep, StoreStep DEF Changing
<1>4. CASE UNCHANGED vars
  <2>1. TypeOK'
    BY <1>4 DEF vars, IInv, TypeOK
  <2>. QED
    BY <1>4, <2>1, TablesOnly DEF vars, OnlyRemoves
<1>. QED
  BY <1>1, <1>2, <1>3, <1>4 DEF Next

LEMMA ResolutionInvariant == Spec => []IInv
BY InitInv, NextInv, PTL DEF Spec

(* Tables, statuses and requests keep their shape, in any federation and for *)
(* paths of any length.                                                    *)
THEOREM ResolutionTypeCorrect == Spec => []TypeOK
BY ResolutionInvariant, PTL DEF IInv

(* Whatever passes through however many nodes, an answer is about a row its  *)
(* host has or had, fits the GAID in the reading it was found by, and is   *)
(* credited to whom the endpoint says.                                     *)
THEOREM LookupsTellTheTruth == Spec => []AnswersAreTrue
<1>1. IInv => AnswersAreTrue
  BY DEF IInv, AnswersAreTrue, Answered, Sound, Documents
<1>. QED
  BY <1>1, ResolutionInvariant, PTL

(* "Not found" is said only by a node that had nothing in its reading of the *)
(* GAID when it took up the request, and the peers that told it so had      *)
(* nothing either when they took up theirs: where there is something now, a *)
(* publish or a PUT stored a row after that.                               *)
THEOREM NotFoundIsWarranted == Spec => []NotFoundMeansNotHosted
<1>1. IInv => NotFoundMeansNotHosted
  <2> SUFFICES ASSUME IInv, NEW path \in Path, Answered(path),
                      requests[path].answer = NotFound
               PROVE  /\ Local(requests[path].kind, Self(path)) = {} \/ path \in late
                      /\ \A p \in Peers(Self(path)) :
                           /\ requests[path].outcome[p] \in {NotFound, Aborted, Unasked}
                           /\ requests[path].outcome[p] = NotFound =>
                                \/ Local(ChildKind(requests[path].kind), p) = {}
                                \/ Append(path, p) \in late
    BY DEF NotFoundMeansNotHosted
  <2>1. Peers(Self(path)) \subseteq Node
    BY PathIsSeq, PeersAreNodes
  <2>. QED
    BY <2>1 DEF IInv, Answered, Sound, NothingHere
<1>. QED
  BY <1>1, ResolutionInvariant, PTL

(* An inspection of a GAID whose revocation the node had when the request    *)
(* came says that it is revoked, by whatever way it found the resource.    *)
THEOREM RevocationIsReported == Spec => []RevokedGaidReported
<1>1. IInv => RevokedGaidReported
  BY DEF IInv, RevokedGaidReported, Answered, Sound, Reported
<1>. QED
  BY <1>1, ResolutionInvariant, PTL
=============================================================================
