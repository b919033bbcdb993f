----------------------- MODULE RevocationGossipProofs -----------------------
(* What RevocationGossip guarantees for every set of nodes, names and GAIDs. *)
EXTENDS RevocationGossip, TLAPS

USE DEF ConstantsAssumption

(* Answers change only the waiting and notified sets of the origin's DELETEs. *)
LEMMA AnsweredType ==
    ASSUME TypeOK, NEW m \in Message, NEW ok \in BOOLEAN
    PROVE  Answered(m, ok) \in [Node -> SUBSET Delete]
<1> DEFINE After(d) == IF d.rec = m.rec /\ m.dst \in d.waiting
                       THEN [d EXCEPT !.waiting = @ \ {m.dst},
                                      !.notified = IF ok THEN @ \cup {m.dst} ELSE @]
                       ELSE d
<1>1. m.dst \in Node
  BY DEF Message
<1>2. ASSUME NEW n \in Node, NEW d \in deletes[n] PROVE After(d) \in Delete
  <2>1. d \in Delete
    BY DEF TypeOK
  <2>. QED
    BY <1>1, <2>1 DEF Delete
<1> HIDE DEF After
<1>3. ASSUME NEW n \in Node PROVE {After(d) : d \in deletes[n]} \in SUBSET Delete
  BY <1>2
<1>4. \A n \in Node : deletes[n] \in SUBSET Delete
  BY DEF TypeOK
<1>5. Answered(m, ok) = [n \in Node |-> IF n # m.rec.origin THEN deletes[n]
                                        ELSE {After(d) : d \in deletes[n]}]
  BY DEF Answered, After
<1>. QED
  BY <1>3, <1>4, <1>5

LEMMA RevocationOfType ==
    ASSUME TypeOK, NEW n \in Node, NEW x \in Name, resources[n][x] # NoRow
    PROVE  RevocationOf(n, x) \in OwnRecord
BY ConstantsAssumption DEF RevocationOf, GaidOf, TypeOK, OwnRecord, Manifest

LEMMA RecordTypes ==
    /\ OwnRecord \subseteq Revocation
    /\ Posted \subseteq Revocation
    /\ \A rec \in Revocation : rec.name \in Name /\ rec.gaid \in Gaid
    /\ \A rec \in OwnRecord : rec.origin \in Node /\ rec.origin # Outsider
    /\ \A rec \in Posted : rec.origin = Outsider
BY ConstantsAssumption DEF OwnRecord, Revocation

(* What the receiver's two statements do to the tables. *)
LEMMA ApplyType ==
    ASSUME TypeOK, NEW n \in Node, NEW rec \in Revocation, ApplyRevocation(n, rec)
    PROVE  /\ revocations' \in [Node -> SUBSET Revocation]
           /\ resources' \in [Node -> [Name -> Manifest \cup {NoRow}]]
<1>1. rec.name \in Name
  BY RecordTypes
<1>2. [resources EXCEPT ![n][rec.name] = NoRow] \in [Node -> [Name -> Manifest \cup {NoRow}]]
  BY <1>1 DEF TypeOK
<1>3. [revocations EXCEPT ![n] = @ \cup {rec}] \in [Node -> SUBSET Revocation]
  BY DEF TypeOK
<1>4. CASE IsRevoked(n, rec.gaid) /\ UNCHANGED <<revocations, resources>>
  BY <1>4 DEF TypeOK
<1>5. CASE StoreRevocation(n, rec) /\ DeleteByName(n, rec.name)
  BY <1>2, <1>3, <1>5 DEF StoreRevocation, DeleteByName
<1>. QED
  BY <1>4, <1>5 DEF ApplyRevocation

LEMMA HealthyPeersType == \A n : HealthyPeers(n) \in SUBSET Node
BY DEF HealthyPeers

(* Type correctness is inductive. *)
LEMMA TypeStep == TypeOK /\ [Next]_vars => TypeOK'
<1> SUFFICES ASSUME TypeOK, [Next]_vars PROVE TypeOK'
  OBVIOUS
<1>0. CASE UNCHANGED vars
  BY <1>0 DEF TypeOK, vars
<1>1. ASSUME NEW r \in Request, NEW n \in Node, NEW x \in Name, NEW k \in Kind,
             NEW g \in Declared, PublishStart(r, n, x, k, g)
      PROVE TypeOK'
  <2>1. [stage |-> "signature", node |-> n, name |-> x, kind |-> k, gaid |-> g]
          \in Handler
    BY ConstantsAssumption DEF Handler, Stage
  <2>. QED
    BY <1>1, <2>1 DEF PublishStart, TypeOK
<1>2. ASSUME NEW r \in Request, SignatureVerified(r) PROVE TypeOK'
  BY <1>2 DEF SignatureVerified, TypeOK, Handler, Stage, Idle
<1>3. ASSUME NEW r \in Request, PublishRefused(r) PROVE TypeOK'
  BY <1>3 DEF PublishRefused, TypeOK
<1>4. ASSUME NEW r \in Request, PolicyAllowed(r) PROVE TypeOK'
  BY <1>4 DEF PolicyAllowed, TypeOK, Handler, Stage, Idle
<1>5. ASSUME NEW r \in Request, PublishStore(r) PROVE TypeOK'
  <2>1. publish[r] \in Handler
    BY <1>5 DEF PublishStore, TypeOK
  <2>2. resources' \in [Node -> [Name -> Manifest \cup {NoRow}]]
    BY <1>5, <2>1 DEF PublishStore, PublishResource, TypeOK, Handler, Manifest
  <2>. QED
    BY <1>5, <2>2 DEF PublishStore, TypeOK
<1>6. ASSUME NEW n \in Node, NEW x \in Name, NEW k \in Kind, NEW g \in Declared,
             Update(n, x, k, g)
      PROVE TypeOK'
  <2>1. resources[n][x] \in Manifest /\ g \in Gaid \cup {NoGaid}
    BY <1>6, ConstantsAssumption DEF Update, TypeOK
  <2>2. [resources[n][x] EXCEPT !.gaid = g] \in Manifest
    BY <2>1 DEF Manifest
  <2>3. resources' \in [Node -> [Name -> Manifest \cup {NoRow}]]
    BY <1>6, <2>2 DEF Update, TypeOK
  <2>. QED
    BY <1>6, <2>3 DEF Update, TypeOK
<1>7. ASSUME NEW n \in Node, NEW x \in Name, NEW k \in Kind, DeleteResource(n, x, k)
      PROVE TypeOK'
  <2> DEFINE rec == RevocationOf(n, x)
  <2>1. rec \in OwnRecord /\ rec \in Revocation
    BY <1>7, RevocationOfType, RecordTypes DEF DeleteResource
  <2>2. [rec |-> rec, waiting |-> HealthyPeers(n), notified |-> {}] \in Delete
    BY <2>1, HealthyPeersType DEF Delete
  <2>3. [dst : HealthyPeers(n), rec : {rec}] \in SUBSET Message
    BY <2>1, HealthyPeersType DEF Message
  <2> HIDE DEF rec
  <2>4. revocations' \in [Node -> SUBSET Revocation]
    BY <1>7, <2>1 DEF DeleteResource, StoreRevocation, TypeOK, rec
  <2>5. deletes' \in [Node -> SUBSET Delete]
    BY <1>7, <2>2 DEF DeleteResource, TypeOK, rec
  <2>6. net' \in SUBSET Message
    BY <1>7, <2>3 DEF DeleteResource, TypeOK, rec
  <2>. QED
    BY <1>7, <2>4, <2>5, <2>6 DEF DeleteResource, DeleteByName, TypeOK
<1>8. ASSUME NEW n \in Node, NEW d \in deletes[n], NEW p \in d.waiting,
             FetchTimeout(n, d, p)
      PROVE TypeOK'
  <2>0. d \in Delete
    BY DEF TypeOK
  <2>1. [d EXCEPT !.waiting = @ \ {p}] \in Delete
    BY <2>0 DEF Delete
  <2>. QED
    BY <1>8, <2>1 DEF FetchTimeout, ReplaceDelete, TypeOK
<1>9. ASSUME NEW n \in Node, NEW d \in deletes[n], DeleteDone(n, d) PROVE TypeOK'
  BY <1>9 DEF DeleteDone, TypeOK
<1>10. ASSUME NEW m \in net, Receive(m) PROVE TypeOK'
  <2>1. m \in Message /\ m.dst \in Node /\ m.rec \in Revocation
    BY RecordTypes DEF TypeOK, Message
  <2>2. deletes' \in [Node -> SUBSET Delete]
    BY <1>10, <2>1, AnsweredType DEF Receive
  <2>3. ApplyRevocation(m.dst, m.rec)
    BY <1>10 DEF Receive
  <2>4. /\ revocations' \in [Node -> SUBSET Revocation]
        /\ resources' \in [Node -> [Name -> Manifest \cup {NoRow}]]
    BY <2>1, <2>3, ApplyType
  <2>. QED
    BY <1>10, <2>2, <2>4 DEF Receive, TypeOK
<1>11. ASSUME NEW m \in net, RequestFails(m) PROVE TypeOK'
  BY <1>11, AnsweredType DEF RequestFails, TypeOK
<1>12. ASSUME NEW n \in Node, NEW p \in Node, AddPeer(n, p) PROVE TypeOK'
  BY <1>12 DEF AddPeer, TypeOK, Status
<1>13. ASSUME NEW n \in Node, NEW p \in Node, NEW s \in Observed,
              UpdatePeerStatus(n, p, s)
       PROVE TypeOK'
  BY <1>13, ConstantsAssumption DEF UpdatePeerStatus, TypeOK
<1>14. ASSUME NEW n \in Node, Crash(n) PROVE TypeOK'
  BY <1>14 DEF Crash, Stop, TypeOK
<1>15. ASSUME NEW n \in Node, Restart(n) PROVE TypeOK'
  <2>1. StartedRows(n) \in [Name -> Manifest \cup {NoRow}]
    BY ConstantsAssumption DEF StartedRows, TypeOK
  <2>2. StartedPeers(n) \in [Node -> Status]
    BY DEF StartedPeers, TypeOK, Status
  <2>. QED
    BY <1>15, <2>1, <2>2 DEF Restart, TypeOK
<1>16. ASSUME NEW n \in Node, NEW x \in Name, CrashInDelete(n, x) PROVE TypeOK'
  BY <1>16 DEF CrashInDelete, Stop, DeleteByName, TypeOK
<1>17. ASSUME NEW m \in net, CrashInReceive(m) PROVE TypeOK'
  <2>1. m.dst \in Node /\ m.rec \in Revocation
    BY RecordTypes DEF TypeOK, Message
  <2>2. revocations' \in [Node -> SUBSET Revocation]
    BY <1>17, <2>1 DEF CrashInReceive, CrashAfterStoring, StoreRevocation, TypeOK
  <2>. QED
    BY <1>17, <2>1, <2>2 DEF CrashInReceive, CrashAfterStoring, Stop, TypeOK
<1>18. ASSUME NEW n \in Node, NEW rec \in Posted, ReceivePosted(n, rec) PROVE TypeOK'
  <2>1. rec \in Revocation /\ ApplyRevocation(n, rec)
    BY <1>18, RecordTypes DEF ReceivePosted
  <2>2. /\ revocations' \in [Node -> SUBSET Revocation]
        /\ resources' \in [Node -> [Name -> Manifest \cup {NoRow}]]
    BY <2>1, ApplyType
  <2>. QED
    BY <1>18, <2>2 DEF ReceivePosted, TypeOK
<1>19. ASSUME NEW n \in Node, NEW rec \in Posted, CrashInPosted(n, rec) PROVE TypeOK'
  <2>1. rec \in Revocation
    BY RecordTypes
  <2>2. revocations' \in [Node -> SUBSET Revocation]
    BY <1>19, <2>1 DEF CrashInPosted, CrashAfterStoring, StoreRevocation, TypeOK
  <2>. QED
    BY <1>19, <2>2 DEF CrashInPosted, CrashAfterStoring, Stop, TypeOK
<1>. QED
  BY <1>0, <1>1, <1>2, <1>3, <1>4, <1>5, <1>6, <1>7, <1>8, <1>9, <1>10, <1>11,
     <1>12, <1>13, <1>14, <1>15, <1>16, <1>17, <1>18, <1>19
  DEF Next, Publishing, Writing, Propagating, Peering, Crashing

(* Every state of the federation is well typed: in particular every stored  *)
(* revocation carries a real GAID even when the manifest declared none.    *)
THEOREM TypeCorrect == Spec => []TypeOK
<1>1. Init => TypeOK
  BY ConstantsAssumption DEF Init, TypeOK, Status, Manifest
<1>. QED
  BY <1>1, TypeStep, PTL DEF Spec
-----------------------------------------------------------------------------
(* The steps that touch revocations or the handlers that gossip them. *)
LEMMA GossipSteps ==
    ASSUME [Next]_vars
    PROVE  \/ UNCHANGED <<revocations, deletes, net>>
           \/ \E n \in Node, x \in Name, k \in Kind : DeleteResource(n, x, k)
           \/ \E n \in Node : \E d \in deletes[n] : \E p \in d.waiting : FetchTimeout(n, d, p)
           \/ \E n \in Node : \E d \in deletes[n] : DeleteDone(n, d)
           \/ \E m \in net : Receive(m)
           \/ \E m \in net : RequestFails(m)
           \/ \E n \in Node : Stop(n) /\ UNCHANGED <<revocations, net>>
           \/ \E m \in net : CrashInReceive(m)
           \/ \E n \in Node, rec \in Posted : ReceivePosted(n, rec)
           \/ \E n \in Node, rec \in Posted : CrashInPosted(n, rec)
<1>1. CASE UNCHANGED vars
  BY <1>1 DEF vars
<1>2. CASE Publishing
  BY <1>2 DEF Publishing, PublishStart, SignatureVerified, PublishRefused,
              PolicyAllowed, PublishStore
<1>3. CASE Writing
  BY <1>3 DEF Writing, Update
<1>4. CASE Propagating
  BY <1>4 DEF Propagating
<1>5. CASE Peering
  BY <1>5 DEF Peering, AddPeer, UpdatePeerStatus
<1>6. CASE Crashing
  BY <1>6 DEF Crashing, Crash, Restart, CrashInDelete
<1>. QED
  BY <1>1, <1>2, <1>3, <1>4, <1>5, <1>6 DEF Next

(* A DELETE, a message and a client's post store one; the others do not.    *)
LEMMA StoringSteps ==
    ASSUME [Next]_vars
    PROVE  \/ UNCHANGED revocations
           \/ \E n \in Node, x \in Name : StoreRevocation(n, RevocationOf(n, x))
           \/ \E m \in net : StoreRevocation(m.dst, m.rec)
           \/ \E n \in Node, rec \in Posted : StoreRevocation(n, rec)
BY GossipSteps
DEF DeleteResource, FetchTimeout, DeleteDone, Receive, ApplyRevocation, RequestFails,
    CrashInReceive, CrashAfterStoring, ReceivePosted, CrashInPosted

(* The revocations table only grows. *)
LEMMA RevocationsGrow ==
    ASSUME TypeOK, [Next]_vars, NEW n \in Node
    PROVE  revocations[n] \subseteq revocations'[n]
BY StoringSteps DEF StoreRevocation, TypeOK

(* What a node stores in a step is a revocation it issues itself, one that   *)
(* was on its way to it, or one a client posts.                            *)
LEMMA NewRevocations ==
    ASSUME TypeOK, [Next]_vars, NEW n \in Node, NEW rec \in revocations'[n],
           rec \notin revocations[n]
    PROVE  rec.origin = n \/ rec.origin = Outsider \/ \E m \in net : m.rec = rec
<1>1. ASSUME NEW a \in Node, NEW x \in Name, StoreRevocation(a, RevocationOf(a, x))
      PROVE  rec.origin = n
  BY <1>1 DEF StoreRevocation, RevocationOf, TypeOK
<1>2. ASSUME NEW m \in net, StoreRevocation(m.dst, m.rec)
      PROVE  m.rec = rec
  BY <1>2 DEF StoreRevocation, TypeOK
<1>3. ASSUME NEW a \in Node, NEW pst \in Posted, StoreRevocation(a, pst)
      PROVE  rec.origin = Outsider
  <2>1. rec = pst
    BY <1>3 DEF StoreRevocation, TypeOK
  <2>. QED
    BY <2>1, RecordTypes
<1>. QED
  BY <1>1, <1>2, <1>3, StoringSteps

(* What is sent in a step is stored in the same step. *)
LEMMA NewMessages ==
    ASSUME TypeOK, [Next]_vars, NEW m \in net', m \notin net
    PROVE  m.rec \in revocations'[m.rec.origin]
<1>1. PICK n \in Node, x \in Name, k \in Kind : DeleteResource(n, x, k)
  BY GossipSteps DEF FetchTimeout, DeleteDone, Receive, RequestFails, CrashInReceive,
                     ReceivePosted, CrashInPosted
<1>2. m.rec = RevocationOf(n, x)
  BY <1>1 DEF DeleteResource
<1>3. m.rec.origin = n
  BY <1>2 DEF RevocationOf
<1>. QED
  BY <1>1, <1>2, <1>3 DEF DeleteResource, StoreRevocation, TypeOK

(* A DELETE in progress keeps its record; a new one has stored it; and a    *)
(* peer newly counted as notified has just handled that record.            *)
LEMMA NewDeletes ==
    ASSUME TypeOK, [Next]_vars, NEW n \in Node, NEW d \in deletes'[n]
    PROVE  \/ /\ d.rec \in revocations'[d.rec.origin]
              /\ d.notified = {}
           \/ \E e \in deletes[n] :
                /\ d.rec = e.rec
                /\ \A p \in d.notified \ e.notified : IsRevoked(p, d.rec.gaid)'
<1>0. CASE UNCHANGED deletes
  BY <1>0
<1>1. CASE \E a \in Node, x \in Name, k \in Kind : DeleteResource(a, x, k)
  <2>1. PICK a \in Node, x \in Name, k \in Kind : DeleteResource(a, x, k)
    BY <1>1
  <2>2. CASE d \in deletes[n]
    BY <2>2
  <2>3. CASE d \notin deletes[n]
    <3>1. n = a /\ d.rec = RevocationOf(n, x) /\ d.notified = {}
      BY <2>1, <2>3 DEF DeleteResource, TypeOK
    <3>2. d.rec.origin = n
      BY <3>1 DEF RevocationOf
    <3>. QED
      BY <2>1, <3>1, <3>2 DEF DeleteResource, StoreRevocation, TypeOK
  <2>. QED
    BY <2>2, <2>3
<1>2. CASE \E a \in Node : \E e \in deletes[a] : \E p \in e.waiting : FetchTimeout(a, e, p)
  <2>1. PICK a \in Node : \E e \in deletes[a] : \E p \in e.waiting : FetchTimeout(a, e, p)
    BY <1>2
  <2>2. PICK e \in deletes[a] : \E p \in e.waiting : FetchTimeout(a, e, p)
    BY <2>1
  <2>6. e \in Delete
    BY DEF TypeOK
  <2>3. d \in deletes[n] \/ (n = a /\ d.rec = e.rec /\ d.notified = e.notified)
    BY <2>2, <2>6 DEF FetchTimeout, ReplaceDelete, TypeOK, Delete
  <2>. QED
    BY <2>2, <2>3
<1>3. CASE \E a \in Node : \E e \in deletes[a] : DeleteDone(a, e)
  BY <1>3 DEF DeleteDone, TypeOK
<1>4. CASE \E m \in net : Receive(m) \/ RequestFails(m)
  <2>1. PICK m \in net : Receive(m) \/ RequestFails(m)
    BY <1>4
  <2>2. PICK ok \in BOOLEAN : /\ deletes' = Answered(m, ok)
                              /\ ok => Receive(m)
    BY <2>1 DEF Receive, RequestFails
  <2>3. ASSUME ok PROVE IsRevoked(m.dst, m.rec.gaid)'
    BY <2>2, <2>3
    DEF Receive, ApplyRevocation, StoreRevocation, IsRevoked, TypeOK, Message
  <2>4. CASE d \in deletes[n]
    BY <2>4
  <2>5. CASE d \notin deletes[n]
    <3>1. PICK e \in deletes[n] :
            /\ e.rec = m.rec
            /\ d = [e EXCEPT !.waiting = @ \ {m.dst},
                             !.notified = IF ok THEN @ \cup {m.dst} ELSE @]
      BY <2>2, <2>5 DEF Answered
    <3>2. e \in Delete
      BY DEF TypeOK
    <3>3. d.rec = e.rec /\ d.notified = IF ok THEN e.notified \cup {m.dst} ELSE e.notified
      BY <3>1, <3>2 DEF Delete
    <3>. QED
      BY <2>3, <3>1, <3>3
  <2>. QED
    BY <2>4, <2>5
<1>5. CASE \E a \in Node : Stop(a)
  BY <1>5 DEF Stop, TypeOK
<1>. QED
  BY <1>0, <1>1, <1>2, <1>3, <1>4, <1>5, GossipSteps
  DEF CrashInReceive, CrashInPosted, CrashAfterStoring, ReceivePosted, TypeOK, Message

-----------------------------------------------------------------------------
LEMMA StoredStep ==
    TypeOK /\ StoredBeforeGossip /\ [Next]_vars => StoredBeforeGossip'
<1> SUFFICES ASSUME TypeOK, StoredBeforeGossip, [Next]_vars
             PROVE  StoredBeforeGossip'
  OBVIOUS
<1>1. ASSUME NEW rec \in OwnRecord, rec \in revocations[rec.origin]
      PROVE  rec \in revocations'[rec.origin]
  BY <1>1, RevocationsGrow, RecordTypes
<1>2. TypeOK'
  BY TypeStep
<1>3. ASSUME NEW m \in net' PROVE m.rec \in revocations'[m.rec.origin]
  <2>1. m.rec \in OwnRecord
    BY <1>2 DEF TypeOK, Message
  <2>2. m \in net => m.rec \in revocations[m.rec.origin]
    BY <2>1, RecordTypes DEF StoredBeforeGossip
  <2>. QED
    BY <1>1, <2>1, <2>2, NewMessages
<1>4. ASSUME NEW n \in Node, NEW rec \in revocations'[n], rec.origin # Outsider
      PROVE  rec \in revocations'[rec.origin]
  <2>1. rec \in OwnRecord
    BY <1>2, <1>4 DEF TypeOK, Revocation
  <2>2. CASE rec \in revocations[n]
    BY <1>4, <2>1, <2>2, <1>1 DEF StoredBeforeGossip
  <2>3. CASE rec \notin revocations[n]
    <3>1. rec.origin = n \/ \E m \in net : m.rec = rec
      BY <1>4, <2>3, NewRevocations
    <3>. QED
      BY <1>1, <1>4, <2>1, <3>1 DEF StoredBeforeGossip
  <2>. QED
    BY <2>2, <2>3
<1>5. ASSUME NEW n \in Node, NEW d \in deletes'[n]
      PROVE  d.rec \in revocations'[d.rec.origin]
  <2>1. d.rec \in OwnRecord /\ d.rec.origin # Outsider
    BY <1>2, RecordTypes DEF TypeOK, Delete
  <2>2. ASSUME NEW e \in deletes[n], d.rec = e.rec
        PROVE  d.rec \in revocations'[d.rec.origin]
    BY <1>1, <2>1, <2>2 DEF StoredBeforeGossip
  <2>. QED
    BY <2>2, NewDeletes
<1>. QED
  BY <1>3, <1>4, <1>5 DEF StoredBeforeGossip

(* No message, table or handler of the federation ever mentions a node's    *)
(* revocation which that node has not on disk, whatever crashes in between,  *)
(* and whatever clients post to the others.                                 *)
THEOREM GossipIsBacked == Spec => []StoredBeforeGossip
<1>1. Init => StoredBeforeGossip
  BY DEF Init, StoredBeforeGossip
<1>. QED
  BY <1>1, StoredStep, TypeCorrect, PTL DEF Spec

LEMMA NotifiedStep ==
    TypeOK /\ NotifiedPeersBlock /\ [Next]_vars => NotifiedPeersBlock'
<1> SUFFICES ASSUME TypeOK, NotifiedPeersBlock, [Next]_vars,
                    NEW n \in Node, NEW d \in deletes'[n], NEW p \in d.notified
             PROVE  IsRevoked(p, d.rec.gaid)'
  BY DEF NotifiedPeersBlock
<1>1. TypeOK'
  BY TypeStep
<1>2. p \in Node
  BY <1>1 DEF TypeOK, Delete
<1>3. ASSUME NEW g, IsRevoked(p, g) PROVE IsRevoked(p, g)'
  BY <1>2, <1>3, RevocationsGrow DEF IsRevoked
<1>. QED
  BY <1>3, NewDeletes DEF NotifiedPeersBlock

(* The peers a DELETE reports as notified block the GAID, in every run.     *)
THEOREM NotifiedSound == Spec => []NotifiedPeersBlock
<1>1. Init => NotifiedPeersBlock
  BY DEF Init, NotifiedPeersBlock
<1>. QED
  BY <1>1, NotifiedStep, TypeCorrect, PTL DEF Spec

-----------------------------------------------------------------------------
(* What a start leaves of a name's row. *)
LEMMA StartedRow ==
    ASSUME TypeOK, NEW n \in Node, Restart(n), NEW a \in Node, NEW x \in Name
    PROVE  \/ resources'[a][x] = resources[a][x]
           \/ /\ a = n /\ ~ up[a] /\ up'[a] /\ Reseed[a] # "never"
              /\ resources'[a][x] = Seed[a][x]
              /\ Seed[a][x] = NoRow => Reseed[a] = "anew"
<1>1. /\ resources' = [resources EXCEPT ![n] = StartedRows(n)]
      /\ up' = [up EXCEPT ![n] = TRUE]
      /\ ~ up[n]
  BY DEF Restart
<1>2. CASE a # n
  BY <1>1, <1>2 DEF TypeOK
<1>3. CASE a = n
  <2>1. resources'[a][x] = StartedRows(n)[x] /\ up'[a]
    BY <1>1, <1>3 DEF TypeOK
  <2>2. Reseed[a] \in {"never", "anew", "over"}
    BY ConstantsAssumption
  <2>. QED
    BY <1>1, <1>3, <2>1, <2>2 DEF StartedRows
<1>. QED
  BY <1>2, <1>3

(* The steps that write rows or handle publishes, and what each can add.    *)
LEMMA NewRows ==
    ASSUME TypeOK, [Next]_vars, NEW n \in Node, NEW x \in Name,
           resources'[n][x] # resources[n][x], resources'[n][x] # NoRow
    PROVE  \/ resources[n][x] # NoRow /\ \E g \in Declared : resources'[n][x].gaid = g
           \/ \E r \in Request : /\ InProgress(r, n)
                                 /\ publish[r].name = x
                                 /\ resources'[n][x].gaid = publish[r].gaid
           \/ Reseeded(n, x)
<1>1. CASE \E r \in Request : PublishStore(r)
  BY <1>1 DEF PublishStore, PublishResource, InProgress, TypeOK, Handler
<1>2. CASE \E a \in Node, y \in Name, k \in Kind, g \in Declared : Update(a, y, k, g)
  BY <1>2 DEF Update, TypeOK, Manifest
<1>3. CASE \E a \in Node, y \in Name : DeleteByName(a, y)
  BY <1>3 DEF DeleteByName, TypeOK
<1>4. CASE UNCHANGED resources
  BY <1>4
<1>5. CASE \E m \in net : Receive(m)
  <2>1. PICK m \in net : Receive(m)
    BY <1>5
  <2>2. m.dst \in Node /\ m.rec.name \in Name
    BY RecordTypes DEF TypeOK, Message
  <2>. QED
    BY <2>1, <2>2, <1>3, <1>4 DEF Receive, ApplyRevocation
<1>6. CASE \E a \in Node, rec \in Posted : ReceivePosted(a, rec)
  <2>1. PICK a \in Node, rec \in Posted : ReceivePosted(a, rec)
    BY <1>6
  <2>2. rec.name \in Name
    BY RecordTypes
  <2>. QED
    BY <2>1, <2>2, <1>3, <1>4 DEF ReceivePosted, ApplyRevocation
<1>7. CASE \E a \in Node : Restart(a)
  BY <1>7, StartedRow DEF Reseeded
<1>8. CASE Publishing
  BY <1>1, <1>4, <1>8
  DEF Publishing, PublishStart, SignatureVerified, PublishRefused, PolicyAllowed
<1>9. CASE Writing
  BY <1>2, <1>3, <1>9 DEF Writing, DeleteResource
<1>10. CASE Propagating
  BY <1>4, <1>5, <1>10, <1>6 DEF Propagating, FetchTimeout, DeleteDone, RequestFails
<1>11. CASE Peering
  BY <1>4, <1>11 DEF Peering, AddPeer, UpdatePeerStatus
<1>12. CASE Crashing
  BY <1>3, <1>4, <1>12, <1>7
  DEF Crashing, Crash, CrashInDelete, CrashInReceive, CrashInPosted, CrashAfterStoring
<1>. QED
  BY <1>4, <1>8, <1>9, <1>10, <1>11, <1>12 DEF Next, vars

(* A publish in progress was in progress before, or has just been admitted. *)
LEMMA NewPublishes ==
    ASSUME TypeOK, [Next]_vars, NEW n \in Node, NEW r \in Request, InProgress(r, n)'
    PROVE  \/ /\ InProgress(r, n)
              /\ publish'[r].name = publish[r].name
              /\ publish'[r].gaid = publish[r].gaid
           \/ /\ ~ IsNameRevoked(n, publish'[r].name)
              /\ ~ IsRevoked(n, GaidOf(publish'[r].name, publish'[r].gaid))
              /\ UNCHANGED revocations
<1>1. CASE UNCHANGED publish
  BY <1>1 DEF InProgress
<1>2. CASE Publishing
  <2>1. CASE \E q \in Request, a \in Node, x \in Name, k \in Kind, g \in Declared :
               PublishStart(q, a, x, k, g)
    <3>1. PICK q \in Request, a \in Node, x \in Name, k \in Kind, g \in Declared :
            PublishStart(q, a, x, k, g)
      BY <2>1
    <3>2. CASE r = q
      BY <3>1, <3>2 DEF PublishStart, InProgress, TypeOK
    <3>3. CASE r # q
      BY <3>1, <3>3 DEF PublishStart, InProgress, TypeOK
    <3>. QED
      BY <3>2, <3>3
  <2>2. CASE \E q \in Request : SignatureVerified(q) \/ PolicyAllowed(q)
    <3>1. PICK q \in Request, s \in Stage :
            publish[q] # Idle /\ publish' = [publish EXCEPT ![q].stage = s]
      BY <2>2 DEF SignatureVerified, PolicyAllowed, Stage
    <3>2. UNCHANGED revocations /\ publish[q] \in Handler
      BY <2>2, <3>1 DEF SignatureVerified, PolicyAllowed, TypeOK
    <3>3. CASE r = q
      BY <3>1, <3>2, <3>3 DEF InProgress, TypeOK, Handler
    <3>4. CASE r # q
      BY <3>1, <3>4 DEF InProgress, TypeOK
    <3>. QED
      BY <3>3, <3>4
  <2>3. CASE \E q \in Request : PublishRefused(q) \/ PublishStore(q)
    BY <2>3 DEF PublishRefused, PublishStore, InProgress, TypeOK
  <2>. QED
    BY <1>2, <2>1, <2>2, <2>3 DEF Publishing
<1>3. CASE \E a \in Node : Stop(a)
  BY <1>3 DEF Stop, InProgress, TypeOK
<1>4. CASE Writing \/ Propagating \/ Peering \/ Crashing
  BY <1>1, <1>3, <1>4
  DEF Writing, Propagating, Peering, Crashing, Update, DeleteResource, FetchTimeout,
      DeleteDone, Receive, RequestFails, AddPeer, UpdatePeerStatus, Crash,
      CrashInDelete, CrashInReceive, CrashInPosted, CrashAfterStoring, ReceivePosted,
      Restart, TypeOK, Message
<1>. QED
  BY <1>1, <1>2, <1>4 DEF Next, vars

-----------------------------------------------------------------------------
LEMMA NameDownStep ==
    ASSUME TypeOK, [Next]_vars, NEW n \in Node, NEW x \in Name, NameDown(n, x),
           ~ Reseeded(n, x)
    PROVE  NameDown(n, x)'
<1>1. IsNameRevoked(n, x)'
  BY RevocationsGrow DEF NameDown, IsNameRevoked
<1>2. (resources[n][x] = NoRow)'
  BY NewRows DEF NameDown
<1>3. ASSUME NEW r \in Request, InProgress(r, n)' PROVE publish'[r].name # x
  BY <1>3, NewPublishes DEF NameDown
<1>. QED
  BY <1>1, <1>2, <1>3 DEF NameDown

(* A revoked name that is gone, with no publish of it left in progress, is  *)
(* gone at that node until its own seed brings it back, and for good where  *)
(* the seed does not contain it or is not run at every start.              *)
THEOREM NameDownForever == Spec => NameStaysDown
<1>1. TypeOK /\ [Next]_vars =>
        [\A n \in Node, x \in Name :
           NameDown(n, x) => NameDown(n, x)' \/ Reseeded(n, x)]_vars
  BY NameDownStep
<1>. QED
  BY <1>1, TypeCorrect, PTL DEF Spec, NameStaysDown

LEMMA GaidDownStep ==
    ASSUME TypeOK, [Next]_vars, NEW n \in Node, NEW g \in Gaid, GaidDown(n, g),
           ~ \E x \in Name : /\ Serves(n, x, g)'
                             /\ resources[n][x] # NoRow \/ Reseeded(n, x)
    PROVE  GaidDown(n, g)'
<1>1. IsRevoked(n, g)'
  BY RevocationsGrow DEF GaidDown, IsRevoked
<1>2. ASSUME NEW x \in Name PROVE ~ Serves(n, x, g)'
  BY NewRows DEF GaidDown, Serves, GaidOf
<1>3. ASSUME NEW r \in Request, InProgress(r, n)'
      PROVE  GaidOf(publish'[r].name, publish'[r].gaid) # g
  BY <1>3, NewPublishes DEF GaidDown, GaidOf
<1>. QED
  BY <1>1, <1>2, <1>3 DEF GaidDown

(* A revoked GAID that is gone returns to that node only through a PUT of   *)
(* an existing row, or with its seed.                                      *)
THEOREM GaidDownForPublish == Spec => GaidReturnsOnlyByUpdate
<1>1. TypeOK /\ [Next]_vars =>
        [\A n \in Node, g \in Gaid :
           GaidDown(n, g) =>
              \/ GaidDown(n, g)'
              \/ \E x \in Name : /\ Serves(n, x, g)'
                                 /\ resources[n][x] # NoRow \/ Reseeded(n, x)]_vars
  BY GaidDownStep
<1>. QED
  BY <1>1, TypeCorrect, PTL DEF Spec, GaidReturnsOnlyByUpdate

-----------------------------------------------------------------------------
LEMMA DeletedStep ==
    ASSUME TypeOK, [Next]_vars, NEW n \in Node, NEW x \in Name,
           resources[n][x] # NoRow, resources'[n][x] = NoRow
    PROVE  \/ IsNameRevoked(n, x)'
           \/ up[n] /\ ~ up'[n]
           \/ ~ up[n] /\ up'[n] /\ Reseed[n] = "anew"
<1>1. CASE \E a \in Node, y \in Name, k \in Kind : DeleteResource(a, y, k)
  <2>1. PICK a \in Node, y \in Name, k \in Kind : DeleteResource(a, y, k)
    BY <1>1
  <2>2. a = n /\ y = x
    BY <2>1 DEF DeleteResource, DeleteByName, TypeOK
  <2>3. RevocationOf(n, x) \in revocations'[n] /\ RevocationOf(n, x).name = x
    BY <2>1, <2>2 DEF DeleteResource, StoreRevocation, RevocationOf, TypeOK
  <2>. QED
    BY <2>3 DEF IsNameRevoked
<1>2. CASE \E m \in net : Receive(m)
  <2>1. PICK m \in net : Receive(m)
    BY <1>2
  <2>2. m.dst \in Node /\ m.rec.name \in Name
    BY RecordTypes DEF TypeOK, Message
  <2>3. StoreRevocation(m.dst, m.rec) /\ DeleteByName(m.dst, m.rec.name)
    BY <2>1 DEF Receive, ApplyRevocation
  <2>4. m.dst = n /\ m.rec.name = x
    BY <2>2, <2>3 DEF DeleteByName, TypeOK
  <2>. QED
    BY <2>3, <2>4 DEF StoreRevocation, IsNameRevoked, TypeOK
<1>3. CASE \E a \in Node, y \in Name : CrashInDelete(a, y)
  <2>1. PICK a \in Node, y \in Name : CrashInDelete(a, y)
    BY <1>3
  <2>2. a = n
    BY <2>1 DEF CrashInDelete, DeleteByName, TypeOK
  <2>. QED
    BY <2>1, <2>2 DEF CrashInDelete, Stop, TypeOK
<1>4. CASE \E a \in Node, rec \in Posted : ReceivePosted(a, rec)
  <2>1. PICK a \in Node, rec \in Posted : ReceivePosted(a, rec)
    BY <1>4
  <2>2. rec.name \in Name
    BY RecordTypes
  <2>3. StoreRevocation(a, rec) /\ DeleteByName(a, rec.name)
    BY <2>1 DEF ReceivePosted, ApplyRevocation
  <2>4. a = n /\ rec.name = x
    BY <2>2, <2>3 DEF DeleteByName, TypeOK
  <2>. QED
    BY <2>3, <2>4 DEF StoreRevocation, IsNameRevoked, TypeOK
<1>5. CASE \E a \in Node : Restart(a)
  BY <1>5, StartedRow
<1>6. CASE \E r \in Request : PublishStore(r)
  BY <1>6, ConstantsAssumption DEF PublishStore, PublishResource, TypeOK, Handler, Manifest
<1>7. CASE \E a \in Node, y \in Name, k \in Kind, g \in Declared : Update(a, y, k, g)
  <2>1. PICK a \in Node, y \in Name, k \in Kind, g \in Declared : Update(a, y, k, g)
    BY <1>7
  <2>2. resources[a][y] \in Manifest /\ g \in Gaid \cup {NoGaid}
    BY <2>1, ConstantsAssumption DEF Update, TypeOK
  <2>3. [resources[a][y] EXCEPT !.gaid = g] \in Manifest
    BY <2>2 DEF Manifest
  <2>. QED
    BY <2>1, <2>3, ConstantsAssumption DEF Update, TypeOK
<1>8. CASE UNCHANGED resources
  BY <1>8
<1>9. CASE Publishing
  BY <1>6, <1>8, <1>9
  DEF Publishing, PublishStart, SignatureVerified, PublishRefused, PolicyAllowed
<1>10. CASE Writing
  BY <1>1, <1>7, <1>10 DEF Writing
<1>11. CASE Propagating
  BY <1>2, <1>8, <1>11, <1>4 DEF Propagating, FetchTimeout, DeleteDone, RequestFails
<1>12. CASE Peering
  BY <1>8, <1>12 DEF Peering, AddPeer, UpdatePeerStatus
<1>13. CASE Crashing
  BY <1>3, <1>8, <1>13, <1>5
  DEF Crashing, Crash, CrashInReceive, CrashInPosted, CrashAfterStoring
<1>. QED
  BY <1>8, <1>9, <1>10, <1>11, <1>12, <1>13 DEF Next, vars

(* No row is removed, by a DELETE, by gossip or by a client's post, without  *)
(* its name being blocked in the same step, unless the node goes down in     *)
(* between or starts with the seed that empties the table.                 *)
THEOREM DeletedAreBlocked == Spec => DeletedMeansRevoked
<1>1. TypeOK /\ [Next]_vars =>
        [\A n \in Node, x \in Name :
           resources[n][x] # NoRow /\ resources'[n][x] = NoRow =>
              \/ IsNameRevoked(n, x)'
              \/ up[n] /\ ~ up'[n]
              \/ ~ up[n] /\ up'[n] /\ Reseed[n] = "anew"]_vars
  BY DeletedStep
<1>. QED
  BY <1>1, TypeCorrect, PTL DEF Spec, DeletedMeansRevoked

-----------------------------------------------------------------------------
(* Refinement: storing an own revocation is Revoke, storing a peer's is      *)
(* Learn, storing a client's is Post, and every other step leaves the ledger *)
(* as it is.                                                               *)

(* What one stored record adds to the ledger. *)
LEMMA StoredInLedger ==
    ASSUME TypeOK, NEW n \in Node, NEW rec \in Revocation, StoreRevocation(n, rec)
    PROVE  /\ Blocked' = [Blocked EXCEPT ![n] = @ \cup {rec.gaid}]
           /\ Issued' = IF rec.origin = n THEN [Issued EXCEPT ![n] = @ \cup {rec.gaid}]
                                          ELSE Issued
           /\ PostedHere' = IF rec.origin = Outsider
                            THEN [PostedHere EXCEPT ![n] = @ \cup {rec.gaid}]
                            ELSE PostedHere
<1>1. \A a \in Node : revocations'[a] =
        IF a = n THEN revocations[a] \cup {rec} ELSE revocations[a]
  BY DEF StoreRevocation, TypeOK
<1>2. ASSUME NEW a \in Node
      PROVE  Blocked'[a] = IF a = n THEN Blocked[a] \cup {rec.gaid} ELSE Blocked[a]
  BY <1>1 DEF Blocked
<1>3. ASSUME NEW a \in Node
      PROVE  Issued'[a] = IF a = n /\ rec.origin = n THEN Issued[a] \cup {rec.gaid}
                                                     ELSE Issued[a]
  <2>1. CASE a = n /\ rec.origin = n
    <3>1. revocations'[a] = revocations[a] \cup {rec}
      BY <1>1, <2>1
    <3>. QED
      BY <2>1, <3>1 DEF Issued
  <2>2. CASE ~ (a = n /\ rec.origin = n)
    <3>1. {rev \in revocations'[a] : rev.origin = a} = {rev \in revocations[a] : rev.origin = a}
      BY <1>1, <2>2
    <3>. QED
      BY <2>2, <3>1 DEF Issued
  <2>. QED
    BY <2>1, <2>2
<1>4. ASSUME NEW a \in Node
      PROVE  PostedHere'[a] = IF a = n /\ rec.origin = Outsider
                              THEN PostedHere[a] \cup {rec.gaid} ELSE PostedHere[a]
  <2>1. CASE a = n /\ rec.origin = Outsider
    <3>1. revocations'[a] = revocations[a] \cup {rec}
      BY <1>1, <2>1
    <3>. QED
      BY <2>1, <3>1 DEF PostedHere
  <2>2. CASE ~ (a = n /\ rec.origin = Outsider)
    <3>1. {rev \in revocations'[a] : rev.origin = Outsider}
            = {rev \in revocations[a] : rev.origin = Outsider}
      BY <1>1, <2>2
    <3>. QED
      BY <2>2, <3>1 DEF PostedHere
  <2>. QED
    BY <2>1, <2>2
<1>5. Blocked' = [Blocked EXCEPT ![n] = @ \cup {rec.gaid}]
  BY <1>2 DEF Blocked
<1>6. Issued' = IF rec.origin = n THEN [Issued EXCEPT ![n] = @ \cup {rec.gaid}] ELSE Issued
  BY <1>3 DEF Issued
<1>7. PostedHere' = IF rec.origin = Outsider
                    THEN [PostedHere EXCEPT ![n] = @ \cup {rec.gaid}] ELSE PostedHere
  BY <1>4 DEF PostedHere
<1>. QED
  BY <1>5, <1>6, <1>7

LEMMA LedgerStep ==
    TypeOK /\ StoredBeforeGossip /\ [Next]_vars => [Ledger!LedgerNext]_(Ledger!ledgerVars)
<1> SUFFICES ASSUME TypeOK, StoredBeforeGossip, [Next]_vars
             PROVE  Ledger!LedgerNext \/ UNCHANGED Ledger!ledgerVars
  OBVIOUS
<1>1. CASE UNCHANGED revocations
  BY <1>1 DEF Ledger!ledgerVars, Blocked, Issued, PostedHere
<1>2. CASE \E n \in Node, x \in Name, k \in Kind : DeleteResource(n, x, k)
  <2>1. PICK n \in Node, x \in Name, k \in Kind : DeleteResource(n, x, k)
    BY <1>2
  <2> DEFINE rec == RevocationOf(n, x)
  <2>2. rec \in OwnRecord /\ rec.origin = n
    BY <2>1, RevocationOfType DEF DeleteResource, RevocationOf
  <2>3. StoreRevocation(n, rec)
    BY <2>1 DEF DeleteResource
  <2> HIDE DEF rec
  <2>4. rec \in Revocation /\ rec.origin # Outsider /\ rec.gaid \in Gaid
    BY <2>2, RecordTypes
  <2>5. Ledger!Revoke(n, rec.gaid)
    BY <2>2, <2>3, <2>4, StoredInLedger DEF Ledger!Revoke
  <2>. QED
    BY <2>4, <2>5 DEF Ledger!LedgerNext
<1>3. CASE \E m \in net : StoreRevocation(m.dst, m.rec)
  <2>1. PICK m \in net : StoreRevocation(m.dst, m.rec)
    BY <1>3
  <2>2. m.dst \in Node /\ m.rec \in OwnRecord
    BY DEF TypeOK, Message
  <2>3. m.rec \in Revocation /\ m.rec.origin \in Node /\ m.rec.origin # Outsider
    BY <2>2, RecordTypes
  <2>4. m.rec \in revocations[m.rec.origin]
    BY <2>3 DEF StoredBeforeGossip
  <2>5. CASE m.rec.origin = m.dst
    <3>1. UNCHANGED revocations
      BY <2>1, <2>2, <2>4, <2>5 DEF StoreRevocation, TypeOK
    <3>. QED
      BY <1>1, <3>1
  <2>6. CASE m.rec.origin # m.dst
    <3>1. m.rec.gaid \in Issued[m.rec.origin]
      BY <2>3, <2>4 DEF Issued
    <3>2. Ledger!Learn(m.dst, m.rec.gaid)
      BY <2>1, <2>2, <2>3, <2>6, <3>1, StoredInLedger DEF Ledger!Learn
    <3>3. m.rec.gaid \in Gaid
      BY <2>3, RecordTypes
    <3>. QED
      BY <2>2, <3>2, <3>3 DEF Ledger!LedgerNext
  <2>. QED
    BY <2>5, <2>6
<1>4. CASE \E n \in Node, rec \in Posted : StoreRevocation(n, rec)
  <2>1. PICK n \in Node, rec \in Posted : StoreRevocation(n, rec)
    BY <1>4
  <2>2. rec \in Revocation /\ rec.origin = Outsider /\ rec.gaid \in Gaid /\ rec.origin # n
    BY RecordTypes, ConstantsAssumption
  <2>3. Ledger!Post(n, rec.gaid)
    BY <2>1, <2>2, StoredInLedger DEF Ledger!Post
  <2>. QED
    BY <2>2, <2>3 DEF Ledger!LedgerNext
<1>. QED
  BY <1>1, <1>2, <1>3, <1>4, GossipSteps
  DEF FetchTimeout, DeleteDone, Receive, ApplyRevocation, RequestFails, CrashInReceive,
      CrashAfterStoring, ReceivePosted, CrashInPosted

(* The federation implements the abstract ledger of revocations.            *)
THEOREM LedgerRefined == Spec => ImplementsLedger
<1>1. Init => Ledger!LedgerInit
  BY DEF Init, Ledger!LedgerInit, Blocked, Issued, PostedHere
<1>. QED
  BY <1>1, LedgerStep, TypeCorrect, GossipIsBacked, PTL
  DEF Spec, ImplementsLedger, Ledger!LedgerSpec
-----------------------------------------------------------------------------
(* The ledger alone already rules out a block that nobody asked for.  Its    *)
(* strengthening: an issuer never stops blocking what it issued.           *)
IssuersBlock == \A n \in Node : Issued[n] \subseteq Blocked[n]

LedgerInv == Ledger!LedgerTypeOK /\ IssuersBlock /\ Ledger!NoOrphanBlock

LEMMA LedgerInvStep ==
    LedgerInv /\ [Ledger!LedgerNext]_(Ledger!ledgerVars) => LedgerInv'
<1> USE DEF LedgerInv, Ledger!LedgerTypeOK, IssuersBlock, Ledger!NoOrphanBlock
<1> SUFFICES ASSUME LedgerInv, [Ledger!LedgerNext]_(Ledger!ledgerVars) PROVE LedgerInv'
  OBVIOUS
<1>1. ASSUME NEW n \in Node, NEW g \in Gaid, Ledger!Revoke(n, g) PROVE LedgerInv'
  BY <1>1 DEF Ledger!Revoke
<1>2. ASSUME NEW n \in Node, NEW g \in Gaid, Ledger!Learn(n, g) PROVE LedgerInv'
  <2>1. Ledger!LedgerTypeOK'
    BY <1>2 DEF Ledger!Learn
  <2>. QED
    BY <1>2, <2>1 DEF Ledger!Learn
<1>3. ASSUME NEW n \in Node, NEW g \in Gaid, Ledger!Post(n, g) PROVE LedgerInv'
  <2>1. Ledger!LedgerTypeOK'
    BY <1>3 DEF Ledger!Post
  <2>. QED
    BY <1>3, <2>1 DEF Ledger!Post
<1>4. CASE UNCHANGED Ledger!ledgerVars
  BY <1>4 DEF Ledger!ledgerVars
<1>. QED
  BY <1>1, <1>2, <1>3, <1>4 DEF Ledger!LedgerNext

(* In every run of the ledger an identifier is blocked only if a client      *)
(* posted it there, or some node issued its revocation and blocks it too.   *)
THEOREM LedgerHasNoOrphan ==
    Ledger!LedgerSpec => [](Ledger!LedgerTypeOK /\ Ledger!NoOrphanBlock)
<1>1. Ledger!LedgerInit => LedgerInv
  BY DEF Ledger!LedgerInit, LedgerInv, Ledger!LedgerTypeOK, IssuersBlock,
         Ledger!NoOrphanBlock
<1>. QED
  BY <1>1, LedgerInvStep, PTL DEF Ledger!LedgerSpec, LedgerInv

(* So it is in every run of the federation: a node refuses a GAID only if    *)
(* some client posted its revocation to that very node, or some node deleted *)
(* a resource under it and refuses it as well.  The route that receives      *)
(* revocations asks nobody for a token, so the first case is real; but what  *)
(* a client posts to one node blocks nothing at another.                    *)
THEOREM NoBlockWithoutRevocation == Spec => []Ledger!NoOrphanBlock
BY LedgerRefined, LedgerHasNoOrphan, PTL DEF ImplementsLedger
=============================================================================
