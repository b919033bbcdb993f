------------------------ MODULE FederatedSearchProofs ------------------------
(***************************************************************************)
(* Theorems about FederatedSearch, for any peers, answers and numbers of   *)
(* overlapping rounds and requests.                                        *)
(***************************************************************************)
EXTENDS FederatedSearch, WellFoundedInduction, TLAPS

(* A search that reports a peer as queried holds, before the merge, every    *)
(* resource the peer gave.                                                 *)
NothingMissed ==
    \A j \in Query : queries[j] # Idle =>
        \A p \in queries[j].meta : \A h \in DOMAIN Hits[p] :
            \E i \in DOMAIN queries[j].results : queries[j].results[i] = Hits[p][h]

(* A record of a request or round is not the mark of its absence. *)
LEMMA IdleApart == Idle \notin FederatedQuery /\ Idle \notin CheckRound
<1>1. Idle \notin FederatedQuery
  <2>1. \A q \in FederatedQuery : q.kind \in {"search", "resolve"}
    BY DEF FederatedQuery
  <2>2. Idle.kind = "idle"
    BY DEF Idle
  <2>. QED  BY <2>1, <2>2
<1>2. Idle \notin CheckRound
  <2>1. DOMAIN Idle = {"kind"}
    BY DEF Idle
  <2>2. \A r \in CheckRound : "todo" \in DOMAIN r
    BY DEF CheckRound
  <2>. QED  BY <2>1, <2>2
<1>. QED  BY <1>1, <1>2

(* The status an outcome stands for is one the column may hold. *)
LEMMA StatusOfTyped == \A outcome \in Outcome : StatusOf(outcome) \in Status
BY DEF Outcome, StatusOf, Status

(* The round of a health check keeps its peers and its answer typed. *)
LEMMA CheckingTyped ==
    ASSUME TypeOK, FederatedAssumption, Checking
    PROVE  TypeOK'
<1>1. PICK i \in Round : CheckStart(i) \/ CheckAnswer(i) \/ CheckUpdate(i)
  BY DEF Checking
<1>2. CASE CheckStart(i)
  <2>1. [todo |-> PeerList, answer |-> "sent"] \in CheckRound
    BY DEF CheckRound, FederatedAssumption
  <2>. QED  BY <1>2, <2>1 DEF CheckStart, TypeOK
<1>3. CASE CheckAnswer(i)
  <2>1. rounds[i] \in CheckRound
    BY <1>3 DEF CheckAnswer, TypeOK
  <2>2. Head(rounds[i].todo) \in Peer
    BY <2>1 DEF CheckRound
  <2>3. ForCheck(real[Head(rounds[i].todo)]) \in Outcome
    BY <2>2 DEF ForCheck, Outcome, TypeOK
  <2>4. [rounds[i] EXCEPT !.answer = ForCheck(real[Head(rounds[i].todo)])] \in CheckRound
    BY <2>1, <2>3 DEF CheckRound
  <2>. QED  BY <1>3, <2>4 DEF CheckAnswer, TypeOK
<1>4. CASE CheckUpdate(i)
  <2>1. rounds[i] \in CheckRound
    BY <1>4 DEF CheckUpdate, TypeOK
  <2>2. rounds[i].todo \in Seq(Peer) /\ rounds[i].todo # <<>> /\ rounds[i].answer \in Outcome
    BY <1>4, <2>1 DEF CheckUpdate, CheckRound
  <2>3. Head(rounds[i].todo) \in Peer
    BY <2>2
  <2>4. status' \in [Peer -> Status]
    BY <1>4, <2>2, <2>3, StatusOfTyped DEF CheckUpdate, UpdatePeerStatus, TypeOK
  <2>5. Len(rounds[i].todo) # 1 =>
           [todo |-> Tail(rounds[i].todo), answer |-> "sent"] \in CheckRound
    <3>1. Len(rounds[i].todo) # 1 => Len(Tail(rounds[i].todo)) # 0
      BY <2>2
    <3>2. Tail(rounds[i].todo) \in Seq(Peer)
      BY <2>2
    <3>3. Len(rounds[i].todo) # 1 => Tail(rounds[i].todo) # <<>>
      BY <3>1
    <3>. QED  BY <3>2, <3>3 DEF CheckRound
  <2>. QED  BY <1>4, <2>4, <2>5 DEF CheckUpdate, TypeOK
<1>. QED  BY <1>1, <1>2, <1>3, <1>4

(* The request of one query keeps its type. *)
LEMMA QueryingTyped ==
    ASSUME TypeOK, FederatedAssumption, Querying
    PROVE  TypeOK'
<1>1. PICK j \in Query :
        \/ \E kind \in {"search", "resolve"} : QueryStart(j, kind)
        \/ \E p \in Peer : QueryAnswer(j, p) \/ QueryUpdate(j, p)
        \/ QueryDone(j)
  BY DEF Querying
<1>2. ASSUME NEW kind \in {"search", "resolve"}, QueryStart(j, kind)
      PROVE  TypeOK'
  <2>1. [kind    |-> kind,
         pending |-> [p \in Peer |-> IF p \in HealthyPeers THEN "sent" ELSE "none"],
         results |-> <<>>, meta |-> {}] \in FederatedQuery
    BY DEF FederatedQuery
  <2>. QED  BY <1>2, <2>1 DEF QueryStart, TypeOK
<1>3. ASSUME NEW p \in Peer, QueryAnswer(j, p)
      PROVE  TypeOK'
  <2>1. queries[j] \in FederatedQuery
    BY <1>3 DEF QueryAnswer, TypeOK
  <2>2. PICK outcome \in Answers(queries[j].kind, p) :
          queries' = [queries EXCEPT ![j].pending[p] = outcome]
    BY <1>3 DEF QueryAnswer
  <2>3. outcome \in Outcome
    BY <2>2 DEF Answers, ForQuery, Outcome, TypeOK
  <2>4. [queries[j] EXCEPT !.pending[p] = outcome] \in FederatedQuery
    BY <2>1, <2>3 DEF FederatedQuery
  <2>. QED  BY <1>3, <2>2, <2>4 DEF QueryAnswer, TypeOK
<1>4. ASSUME NEW p \in Peer, QueryUpdate(j, p)
      PROVE  TypeOK'
  <2>1. queries[j] \in FederatedQuery
    BY <1>4 DEF QueryUpdate, TypeOK
  <2>2. status' \in [Peer -> Status]
    BY <1>4, StatusOfTyped DEF QueryUpdate, UpdatePeerStatus, TypeOK
  <2>3. queries[j].results \o Hits[p] \in Seq(Resource)
    BY <2>1 DEF FederatedQuery, FederatedAssumption
  <2>4. /\ [queries[j] EXCEPT !.pending[p] = "none", !.meta = @ \cup {p},
                              !.results = @ \o Hits[p]] \in FederatedQuery
        /\ [queries[j] EXCEPT !.pending[p] = "none"] \in FederatedQuery
    BY <2>1, <2>3 DEF FederatedQuery
  <2>. QED  BY <1>4, <2>2, <2>4 DEF QueryUpdate, TypeOK
<1>5. CASE QueryDone(j)
  BY <1>5 DEF QueryDone, TypeOK
<1>. QED  BY <1>1, <1>2, <1>3, <1>4, <1>5

(* The peers table, the rounds and the requests keep their types: no round   *)
(* runs past its last peer, no request waits for a peer of no table.        *)
THEOREM FederationTypeCorrect == Spec => []TypeOK
<1>. USE FederatedAssumption
<1>1. Init => TypeOK
  BY DEF Init, TypeOK, Status, Outcome
<1>2. TypeOK /\ [Next]_vars => TypeOK'
  <2>1. ASSUME TypeOK, NEW p \in Peer, PeerChanges(p)
        PROVE  TypeOK'
    BY <2>1 DEF PeerChanges, Manner, TypeOK
  <2>2. ASSUME TypeOK, UNCHANGED vars
        PROVE  TypeOK'
    BY <2>2 DEF vars, TypeOK
  <2>. QED  BY <2>1, <2>2, CheckingTyped, QueryingTyped DEF Next
<1>. QED  BY <1>1, <1>2, PTL DEF Spec

(* The entries of two sequences are found in their concatenation. *)
LEMMA Concatenated ==
    ASSUME NEW r \in Seq(Resource), NEW t \in Seq(Resource)
    PROVE  /\ \A i \in DOMAIN r : i \in DOMAIN (r \o t) /\ (r \o t)[i] = r[i]
           /\ \A h \in DOMAIN t : \E i \in DOMAIN (r \o t) : (r \o t)[i] = t[h]
<1>1. \A i \in DOMAIN r : i \in DOMAIN (r \o t) /\ (r \o t)[i] = r[i]
  OBVIOUS
<1>2. ASSUME NEW h \in DOMAIN t
      PROVE  \E i \in DOMAIN (r \o t) : (r \o t)[i] = t[h]
  <2>1. h \in 1..Len(t) /\ Len(r) \in Nat /\ Len(t) \in Nat
    BY <1>2
  <2>2. Len(r \o t) = Len(r) + Len(t) /\ r \o t \in Seq(Resource)
    OBVIOUS
  <2>3. Len(r) + h \in DOMAIN (r \o t)
    BY <2>1, <2>2
  <2>4. (r \o t)[Len(r) + h] = t[h]
    BY <2>1, <2>2, <2>3
  <2>. QED  BY <2>3, <2>4
<1>. QED  BY <1>1, <1>2

(* The keys of a query that only loses a pending peer are where they were.   *)
LEMMA SameKeys ==
    ASSUME TypeOK, NothingMissed, NEW j \in Query, queries[j] # Idle,
           NEW pending,
           queries' = [queries EXCEPT ![j] = [queries[j] EXCEPT !.pending = pending]]
    PROVE  NothingMissed'
<1>1. queries[j] \in FederatedQuery
  BY DEF TypeOK
<1>2. \A k \in Query \ {j} : queries'[k] = queries[k]
  BY DEF TypeOK
<1>3. queries'[j].meta = queries[j].meta /\ queries'[j].results = queries[j].results
  BY <1>1 DEF TypeOK, FederatedQuery
<1>4. ASSUME NEW k \in Query, queries'[k] # Idle,
             NEW q \in queries'[k].meta, NEW h \in DOMAIN Hits[q]
      PROVE  \E i \in DOMAIN queries'[k].results : queries'[k].results[i] = Hits[q][h]
  <2>1. queries[k] # Idle
    BY <1>2, <1>4
  <2>2. queries'[k].meta = queries[k].meta /\ queries'[k].results = queries[k].results
    BY <1>2, <1>3
  <2>. QED  BY <1>4, <2>1, <2>2 DEF NothingMissed
<1>. QED  BY <1>4 DEF NothingMissed

(* What QueryUpdate appends stays where it was put, behind what was there. *)
LEMMA UpdateKeepsKeys ==
    ASSUME TypeOK, FederatedAssumption, NothingMissed,
           NEW j \in Query, NEW p \in Peer, QueryUpdate(j, p)
    PROVE  NothingMissed'
<1>1. queries[j] \in FederatedQuery /\ queries[j] # Idle
  BY DEF QueryUpdate, TypeOK
<1>2. queries[j].results \in Seq(Resource) /\ Hits[p] \in Seq(Resource)
  BY <1>1 DEF FederatedQuery, FederatedAssumption
<1>3. CASE queries[j].kind = "search" /\ queries[j].pending[p] = "ok"
  <2>1. queries' = [queries EXCEPT ![j] =
          [queries[j] EXCEPT !.pending[p] = "none", !.meta = @ \cup {p},
                             !.results = @ \o Hits[p]]]
    BY <1>3 DEF QueryUpdate
  <2>2. /\ queries'[j].meta = queries[j].meta \cup {p}
        /\ queries'[j].results = queries[j].results \o Hits[p]
    BY <1>1, <2>1 DEF TypeOK, FederatedQuery
  <2>3. \A k \in Query \ {j} : queries'[k] = queries[k]
    BY <2>1 DEF TypeOK
  <2>4. ASSUME NEW q \in queries'[j].meta, NEW h \in DOMAIN Hits[q]
        PROVE  \E i \in DOMAIN queries'[j].results : queries'[j].results[i] = Hits[q][h]
    <3>1. CASE q \in queries[j].meta
      <4>1. PICK i \in DOMAIN queries[j].results : queries[j].results[i] = Hits[q][h]
        BY <1>1, <2>4, <3>1 DEF NothingMissed
      <4>2. /\ i \in DOMAIN (queries[j].results \o Hits[p])
            /\ (queries[j].results \o Hits[p])[i] = queries[j].results[i]
        BY <1>2, Concatenated
      <4>. QED  BY <2>2, <4>1, <4>2
    <3>2. CASE q = p
      <4>1. \E i \in DOMAIN (queries[j].results \o Hits[p]) :
                (queries[j].results \o Hits[p])[i] = Hits[p][h]
        <5>1. \A k \in DOMAIN Hits[p] :
                \E i \in DOMAIN (queries[j].results \o Hits[p]) :
                    (queries[j].results \o Hits[p])[i] = Hits[p][k]
          <6>. DEFINE r == queries[j].results
                      t == Hits[p]
          <6>1. r \in Seq(Resource) /\ t \in Seq(Resource)
            BY <1>2
          <6>. HIDE DEF r, t
          <6>2. \A k \in DOMAIN t : \E i \in DOMAIN (r \o t) : (r \o t)[i] = t[k]
            BY <6>1, Concatenated
          <6>. QED  BY <6>2, Zenon DEF r, t
        <5>2. h \in DOMAIN Hits[p]
          BY <3>2, <2>4
        <5>. QED  BY <5>1, <5>2
      <4>. QED  BY <2>2, <3>2, <4>1
    <3>. QED  BY <2>2, <2>4, <3>1, <3>2
  <2>5. ASSUME NEW k \in Query \ {j}, queries'[k] # Idle
        PROVE  \A q \in queries'[k].meta : \A h \in DOMAIN Hits[q] :
                  \E i \in DOMAIN queries'[k].results : queries'[k].results[i] = Hits[q][h]
    <3>1. queries'[k] = queries[k] /\ queries[k] # Idle
      BY <2>3, <2>5
    <3>2. TAKE q \in queries'[k].meta
    <3>. TAKE h \in DOMAIN Hits[q]
    <3>3. q \in queries[k].meta
      BY <3>1
    <3>4. PICK i \in DOMAIN queries[k].results : queries[k].results[i] = Hits[q][h]
      BY <3>1, <3>3, Zenon DEF NothingMissed
    <3>. QED  BY <3>1, <3>4
  <2>6. ASSUME NEW k \in Query, queries'[k] # Idle
        PROVE  \A q \in queries'[k].meta : \A h \in DOMAIN Hits[q] :
                  \E i \in DOMAIN queries'[k].results : queries'[k].results[i] = Hits[q][h]
    <3>1. CASE k = j
      BY <2>4, <3>1, Zenon
    <3>2. CASE k # j
      <4>1. k \in Query \ {j}
        BY <3>2
      <4>. QED  BY <2>5, <2>6, <4>1, Zenon
    <3>. QED  BY <3>1, <3>2
  <2>. QED  BY <2>6, Zenon DEF NothingMissed
<1>4. CASE ~ (queries[j].kind = "search" /\ queries[j].pending[p] = "ok")
  <2>1. queries' = [queries EXCEPT ![j] =
          [queries[j] EXCEPT !.pending = [@ EXCEPT ![p] = "none"]]]
    BY <1>4 DEF QueryUpdate
  <2>. QED  BY <1>1, <2>1, SameKeys
<1>. QED  BY <1>3, <1>4

(* Up to the merge nothing of a peer that a search names in                  *)
(* meta.peers_queried is lost, neither a resource nor a second copy, in     *)
(* whatever order answers come and whatever other requests and the health   *)
(* loop do.  What the merge then leaves out is the matter of MergedOnce.    *)
THEOREM ArrivalsAreKept == Spec => []NothingMissed
<1>1. Init => NothingMissed
  BY DEF Init, NothingMissed
<1>2. TypeOK /\ NothingMissed /\ [Next]_vars => NothingMissed'
  <2>. SUFFICES ASSUME TypeOK, NothingMissed, [Next]_vars
                PROVE  NothingMissed'
    OBVIOUS
  <2>1. ASSUME UNCHANGED queries
        PROVE  NothingMissed'
    BY <2>1 DEF NothingMissed
  <2>2. ASSUME NEW j \in Query, NEW kind \in {"search", "resolve"}, QueryStart(j, kind)
        PROVE  NothingMissed'
    BY <2>2 DEF QueryStart, NothingMissed, TypeOK
  <2>3. ASSUME NEW j \in Query, NEW p \in Peer, QueryAnswer(j, p)
        PROVE  NothingMissed'
    <3>1. PICK outcome \in Answers(queries[j].kind, p) :
            queries' = [queries EXCEPT ![j].pending[p] = outcome]
      BY <2>3 DEF QueryAnswer
    <3>2. queries' = [queries EXCEPT ![j] =
            [queries[j] EXCEPT !.pending = [@ EXCEPT ![p] = outcome]]]
      BY <3>1
    <3>3. queries[j] # Idle
      BY <2>3 DEF QueryAnswer
    <3>. QED  BY <3>2, <3>3, SameKeys
  <2>4. ASSUME NEW j \in Query, NEW p \in Peer, QueryUpdate(j, p)
        PROVE  NothingMissed'
    BY <2>4, FederatedAssumption, UpdateKeepsKeys
  <2>5. ASSUME NEW j \in Query, QueryDone(j)
        PROVE  NothingMissed'
    BY <2>5 DEF QueryDone, NothingMissed, TypeOK
  <2>6. CASE Checking
    BY <2>6, <2>1 DEF Checking, CheckStart, CheckAnswer, CheckUpdate
  <2>7. CASE \E p \in Peer : PeerChanges(p)
    BY <2>7, <2>1 DEF PeerChanges
  <2>8. CASE Querying
    BY <2>8, <2>2, <2>3, <2>4, <2>5 DEF Querying
  <2>9. CASE UNCHANGED vars
    BY <2>9, <2>1 DEF vars
  <2>. QED  BY <2>6, <2>7, <2>8, <2>9 DEF Next
<1>. QED  BY <1>1, <1>2, FederationTypeCorrect, PTL DEF Spec

-----------------------------------------------------------------------------
(* The merge. *)

(* What came to an answer first, of all that is remote under its key. *)
FirstOfKey(remote, k, x) ==
    \E h \in 1..k : /\ remote[h] = x
                    /\ \A g \in 1..k : g < h => ~ SameKey(remote[g], x)

(* What merged holds after the first k remote entries: the local page in     *)
(* front, behind it no key twice and the first of each, and every key there *)
(* was.                                                                    *)
MergedSoFar(local, remote, k, s) ==
    /\ s \in Seq(Resource)
    /\ Len(local) <= Len(s)
    /\ \A i \in 1..Len(local) : s[i] = local[i]
    /\ \A a, b \in 1..Len(s) : a < b /\ b > Len(local) => ~ SameKey(s[a], s[b])
    /\ \A b \in 1..Len(s) : b > Len(local) => FirstOfKey(remote, k, s[b])
    /\ \A h \in 1..k : Seen(s, remote[h])

(* The equation that defines merged in DeduplicateByGaid. *)
Merging(local, remote, n, f) ==
    f = [k \in 0..n |-> IF k = 0 THEN local ELSE Merge(f[k - 1], remote[k])]

(* A nonempty set of natural numbers has a least member. *)
LEMMA LeastMember ==
    ASSUME NEW S, S \subseteq Nat, S # {}
    PROVE  \E i \in S : \A j \in S : i <= j
<1>1. PICK i \in S : \A j \in S : ~ (<<j, i>> \in OpToRel(<, Nat))
  BY NatLessThanWellFounded, WFMin
<1>2. ASSUME NEW j \in S PROVE i <= j
  <2>1. ~ (j < i)
    BY <1>1 DEF OpToRel
  <2>. QED
    BY <2>1
<1>. QED
  BY <1>1, <1>2

(* The equation has a solution: it computes entry after entry. *)
LEMMA MergingExists ==
    ASSUME NEW local, NEW remote, NEW m \in Nat
    PROVE  \E f : Merging(local, remote, m, f)
<1>. DEFINE Without == {n \in Nat : ~ \E f : Merging(local, remote, n, f)}
<1>1. SUFFICES ASSUME Without # {} PROVE FALSE
  BY DEF Without
<1>2. PICK n \in Without : \A k \in Without : n <= k
  <2>1. Without \subseteq Nat
    BY DEF Without
  <2>. HIDE DEF Without
  <2>. QED  BY <1>1, <2>1, LeastMember
<1>3. n \in Nat /\ ~ \E f : Merging(local, remote, n, f)
  BY <1>2 DEF Without
<1>. HIDE DEF Without
<1>4. CASE n = 0
  <2>1. Merging(local, remote, 0, [k \in 0..0 |-> local])
    BY DEF Merging
  <2>. QED  BY <1>3, <1>4, <2>1
<1>5. CASE n # 0
  <2>1. n - 1 \in Nat /\ n - 1 \notin Without
    BY <1>2, <1>3, <1>5
  <2>2. PICK f : Merging(local, remote, n - 1, f)
    BY <2>1 DEF Without
  <2>. DEFINE g == [k \in 0..n |-> IF k = n THEN Merge(f[n - 1], remote[n]) ELSE f[k]]
  <2>3. \A k \in 0..n : k # 0 => g[k - 1] = f[k - 1]
    BY <1>3
  <2>4. \A k \in 0..(n - 1) : f[k] = IF k = 0 THEN local ELSE Merge(f[k - 1], remote[k])
    BY <2>2 DEF Merging
  <2>5. \A k \in 0..n : g[k] = IF k = 0 THEN local ELSE Merge(g[k - 1], remote[k])
    <3>. TAKE k \in 0..n
    <3>1. CASE k = n
      <4>1. g[n] = Merge(f[n - 1], remote[n])
        BY <1>3
      <4>2. g[n - 1] = f[n - 1]
        BY <1>3, <1>5, <2>3
      <4>. HIDE DEF g
      <4>. QED  BY <1>5, <3>1, <4>1, <4>2
    <3>2. CASE k # n
      <4>1. k \in 0..(n - 1) /\ g[k] = f[k]
        BY <1>3, <3>2
      <4>2. k # 0 => g[k - 1] = f[k - 1]
        BY <2>3
      <4>. HIDE DEF g
      <4>. QED  BY <2>4, <4>1, <4>2
    <3>. QED  BY <3>1, <3>2
  <2>6. Merging(local, remote, n, g)
    <3>1. g = [k \in 0..n |-> g[k]]
      OBVIOUS
    <3>. HIDE DEF g
    <3>. QED  BY <2>5, <3>1 DEF Merging
  <2>. QED  BY <1>3, <2>6
<1>. QED  BY <1>4, <1>5

(* An entry that nothing merged so far has the key of is the first of its    *)
(* key, and the first of a key stays the first.                            *)
LEMMA StaysFirst ==
    ASSUME NEW remote \in Seq(Resource), NEW k \in 1..Len(remote)
    PROVE  /\ \A x : FirstOfKey(remote, k - 1, x) => FirstOfKey(remote, k, x)
           /\ (\A g \in 1..(k - 1) : ~ SameKey(remote[g], remote[k])) =>
                  FirstOfKey(remote, k, remote[k])
<1>1. ASSUME NEW x, FirstOfKey(remote, k - 1, x)
      PROVE  FirstOfKey(remote, k, x)
  <2>1. PICK h \in 1..(k - 1) :
           /\ remote[h] = x
           /\ \A g \in 1..(k - 1) : g < h => ~ SameKey(remote[g], x)
    BY <1>1 DEF FirstOfKey
  <2>2. h \in 1..k /\ \A g \in 1..k : g < h => g \in 1..(k - 1)
    OBVIOUS
  <2>. QED  BY <2>1, <2>2 DEF FirstOfKey
<1>2. ASSUME \A g \in 1..(k - 1) : ~ SameKey(remote[g], remote[k])
      PROVE  FirstOfKey(remote, k, remote[k])
  <2>1. k \in 1..k /\ \A g \in 1..k : g < k => g \in 1..(k - 1)
    OBVIOUS
  <2>. QED  BY <1>2, <2>1 DEF FirstOfKey
<1>. QED  BY <1>1, <1>2

(* One more remote entry. *)
LEMMA MergeStep ==
    ASSUME FederatedAssumption,
           NEW local \in Seq(Resource), NEW remote \in Seq(Resource),
           NEW k \in 1..Len(remote), NEW s, MergedSoFar(local, remote, k - 1, s)
    PROVE  MergedSoFar(local, remote, k, Merge(s, remote[k]))
<1>. DEFINE e == remote[k]
<1>1. e \in Resource /\ s \in Seq(Resource)
  BY DEF MergedSoFar
<1>2. \A h \in 1..k : h = k \/ h \in 1..(k - 1)
  OBVIOUS
<1>3. CASE Seen(s, e)
  <2>1. Merge(s, e) = s
    BY <1>3 DEF Merge
  <2>2. \A h \in 1..k : Seen(s, remote[h])
    BY <1>2, <1>3 DEF MergedSoFar
  <2>3. \A b \in 1..Len(s) : b > Len(local) => FirstOfKey(remote, k, s[b])
    BY StaysFirst DEF MergedSoFar
  <2>. QED  BY <2>1, <2>2, <2>3 DEF MergedSoFar
<1>4. CASE ~ Seen(s, e)
  <2>. DEFINE t == Append(s, e)
  <2>1. Merge(s, e) = t
    BY <1>4 DEF Merge
  <2>2. /\ t \in Seq(Resource) /\ Len(t) = Len(s) + 1 /\ Len(s) \in Nat
        /\ t[Len(t)] = e
        /\ \A i \in 1..Len(s) : t[i] = s[i]
    BY <1>1
  <2>3. \A i \in 1..Len(s) : ~ SameKey(s[i], e)
    BY <1>1, <1>4 DEF Seen
  <2>4. FirstOfKey(remote, k, e)
    <3>1. ASSUME NEW g \in 1..(k - 1) PROVE ~ SameKey(remote[g], e)
      <4>1. Seen(s, remote[g]) /\ DOMAIN s = 1..Len(s)
        BY <1>1, <3>1 DEF MergedSoFar
      <4>2. PICK i \in 1..Len(s) : SameKey(s[i], remote[g])
        BY <4>1 DEF Seen
      <4>. QED  BY <2>3, <4>2 DEF SameKey
    <3>. QED  BY <3>1, StaysFirst
  <2>5. \A b \in 1..Len(s) : b > Len(local) => FirstOfKey(remote, k, s[b])
    BY StaysFirst DEF MergedSoFar
  <2>. HIDE DEF t, e
  <2>6. Len(local) \in Nat /\ Len(local) <= Len(s)
    BY DEF MergedSoFar
  <2>7. \A i \in 1..Len(local) : t[i] = local[i]
    BY <2>2, <2>6 DEF MergedSoFar
  <2>8. ASSUME NEW a \in 1..Len(t), NEW b \in 1..Len(t), a < b, b > Len(local)
        PROVE  ~ SameKey(t[a], t[b])
    <3>1. a \in 1..Len(s) /\ t[a] = s[a]
      BY <2>2, <2>8
    <3>2. CASE b = Len(t)
      BY <2>2, <2>3, <3>1, <3>2
    <3>3. CASE b # Len(t)
      <4>1. b \in 1..Len(s) /\ t[b] = s[b]
        BY <2>2, <3>3
      <4>. QED  BY <2>8, <3>1, <4>1 DEF MergedSoFar
    <3>. QED  BY <3>2, <3>3
  <2>9. ASSUME NEW b \in 1..Len(t), b > Len(local)
         PROVE  FirstOfKey(remote, k, t[b])
    <3>1. b = Len(t) \/ (b \in 1..Len(s) /\ t[b] = s[b])
      BY <2>2
    <3>. QED  BY <2>2, <2>4, <2>5, <2>9, <3>1
  <2>10. Len(t) \in 1..Len(t) /\ DOMAIN t = 1..Len(t)
    BY <2>2
  <2>11. ASSUME NEW h \in 1..k PROVE Seen(t, remote[h])
    <3>1. CASE h = k
      BY <2>2, <2>10, <3>1 DEF e, Seen, SameKey
    <3>2. CASE h \in 1..(k - 1)
      <4>1. Seen(s, remote[h]) /\ DOMAIN s = 1..Len(s)
        BY <1>1, <3>2 DEF MergedSoFar
      <4>2. PICK i \in 1..Len(s) : SameKey(s[i], remote[h])
        BY <4>1 DEF Seen
      <4>3. i \in DOMAIN t /\ t[i] = s[i]
        BY <2>2, <2>10, <4>2
      <4>. QED  BY <4>2, <4>3 DEF Seen
    <3>. QED  BY <1>2, <3>1, <3>2
  <2>. QED  BY <2>1, <2>2, <2>6, <2>7, <2>8, <2>11, <2>9 DEF MergedSoFar, e
<1>. QED  BY <1>3, <1>4 DEF e

(* Entry after entry, up to the last. *)
LEMMA MergingIsRight ==
    ASSUME FederatedAssumption,
           NEW local \in Seq(Resource), NEW remote \in Seq(Resource), NEW f,
           Merging(local, remote, Len(remote), f)
    PROVE  MergedSoFar(local, remote, Len(remote), f[Len(remote)])
<1>. DEFINE Wrong == {k \in 0..Len(remote) : ~ MergedSoFar(local, remote, k, f[k])}
<1>1. SUFFICES ASSUME Wrong # {} PROVE FALSE
  BY DEF Wrong
<1>2. PICK k \in Wrong : \A i \in Wrong : k <= i
  <2>1. Wrong \subseteq Nat
    BY DEF Wrong
  <2>. HIDE DEF Wrong
  <2>. QED  BY <1>1, <2>1, LeastMember
<1>3. k \in 0..Len(remote) /\ ~ MergedSoFar(local, remote, k, f[k])
  BY <1>2 DEF Wrong
<1>4. f[k] = IF k = 0 THEN local ELSE Merge(f[k - 1], remote[k])
  BY <1>3 DEF Merging
<1>5. CASE k = 0
  <2>1. f[k] = local
    BY <1>4, <1>5
  <2>2. MergedSoFar(local, remote, 0, local)
    BY DEF MergedSoFar
  <2>. QED  BY <1>3, <1>5, <2>1, <2>2
<1>6. CASE k # 0
  <2>1. k \in 1..Len(remote) /\ k - 1 \in 0..Len(remote) /\ k - 1 \notin Wrong
    BY <1>2, <1>3, <1>6
  <2>2. MergedSoFar(local, remote, k - 1, f[k - 1])
    BY <2>1
  <2>3. MergedSoFar(local, remote, k, Merge(f[k - 1], remote[k]))
    BY <2>1, <2>2, MergeStep
  <2>. QED  BY <1>3, <1>4, <1>6, <2>3
<1>. QED  BY <1>5, <1>6

(* What deduplicateByGaid returns for any local page and any answers. *)
LEMMA Deduplicated ==
    ASSUME FederatedAssumption,
           NEW local \in Seq(Resource), NEW remote \in Seq(Resource)
    PROVE  MergedSoFar(local, remote, Len(remote), DeduplicateByGaid(local, remote))
<1>. DEFINE f == CHOOSE g : Merging(local, remote, Len(remote), g)
<1>1. Merging(local, remote, Len(remote), f)
  <2>1. Len(remote) \in Nat
    OBVIOUS
  <2>2. \E g : Merging(local, remote, Len(remote), g)
    BY <2>1, MergingExists
  <2>. QED  BY <2>2
<1>2. DeduplicateByGaid(local, remote) = f[Len(remote)]
  BY DEF DeduplicateByGaid, Merging
<1>. HIDE DEF f
<1>. QED  BY <1>1, <1>2, MergingIsRight

(* In whatever order peers answer, fail or repeat one another, a search      *)
(* answers the local page first and behind it the first arrival of every    *)
(* other key, and leaves a resource of a peer it reports as queried out only *)
(* for another of the same key.                                            *)
THEOREM SearchMergesOnce == Spec => []MergedOnce
<1>1. TypeOK /\ NothingMissed => MergedOnce
  <2>. SUFFICES ASSUME TypeOK, NothingMissed, NEW j \in Query, queries[j] # Idle
                PROVE  LET results == queries[j].results
                           answer  == DeduplicateByGaid(Local, results)
                       IN
                       /\ IsPrefix(Local, answer)
                       /\ \A b \in DOMAIN answer : b > Len(Local) =>
                            /\ \A a \in DOMAIN answer :
                                 a < b => ~ SameKey(answer[a], answer[b])
                            /\ \E h \in DOMAIN results :
                                 /\ results[h] = answer[b]
                                 /\ \A g \in DOMAIN results :
                                      g < h => ~ SameKey(results[g], answer[b])
                       /\ \A p \in queries[j].meta : \A h \in DOMAIN Hits[p] :
                            Seen(answer, Hits[p][h])
    BY Zenon DEF MergedOnce
  <2>. DEFINE results == queries[j].results
              answer == DeduplicateByGaid(Local, results)
  <2>1. queries[j] \in FederatedQuery
    BY DEF TypeOK
  <2>2. Local \in Seq(Resource) /\ results \in Seq(Resource)
    BY <2>1, FederatedAssumption DEF FederatedQuery
  <2>3. ASSUME NEW p \in queries[j].meta, NEW h \in DOMAIN Hits[p]
        PROVE  \E i \in 1..Len(results) : results[i] = Hits[p][h]
    <3>1. PICK i \in DOMAIN queries[j].results : queries[j].results[i] = Hits[p][h]
      BY <2>3 DEF NothingMissed
    <3>2. DOMAIN results = 1..Len(results)
      BY <2>2
    <3>. QED  BY <3>1, <3>2
  <2>. HIDE DEF results
  <2>4. MergedSoFar(Local, results, Len(results), answer)
    BY <2>2, FederatedAssumption, Deduplicated
  <2>. HIDE DEF answer
  <2>5. /\ answer \in Seq(Resource) /\ DOMAIN answer = 1..Len(answer)
        /\ DOMAIN results = 1..Len(results)
    BY <2>2, <2>4 DEF MergedSoFar
  <2>6. IsPrefix(Local, answer)
    BY <2>2, <2>4, <2>5 DEF MergedSoFar, IsPrefix
  <2>7. ASSUME NEW b \in DOMAIN answer, b > Len(Local)
        PROVE  /\ \A a \in DOMAIN answer : a < b => ~ SameKey(answer[a], answer[b])
               /\ \E h \in DOMAIN results :
                    /\ results[h] = answer[b]
                    /\ \A g \in DOMAIN results :
                         g < h => ~ SameKey(results[g], answer[b])
    <3>1. \A a \in DOMAIN answer : a < b => ~ SameKey(answer[a], answer[b])
      BY <2>4, <2>5, <2>7 DEF MergedSoFar
    <3>2. FirstOfKey(results, Len(results), answer[b])
      BY <2>4, <2>5, <2>7 DEF MergedSoFar
    <3>. QED  BY <2>5, <3>1, <3>2 DEF FirstOfKey
  <2>8. ASSUME NEW p \in queries[j].meta, NEW h \in DOMAIN Hits[p]
        PROVE  Seen(answer, Hits[p][h])
    BY <2>3, <2>4, <2>8 DEF MergedSoFar
  <2>. QED  BY <2>6, <2>7, <2>8 DEF answer, results
<1>. QED  BY <1>1, FederatedAssumption, FederationTypeCorrect, ArrivalsAreKept, PTL
=============================================================================
