--------------------------- MODULE CrdtMeshProofs ---------------------------
(* Proofs about CrdtMesh, for any number of nodes, manifests and writes.    *)
EXTENDS CrdtMesh, TLAPS

LEMMA KeyType ==
    /\ \A m \in Manifest : <<KindOf(m), NameOf(m)>> \in Key
    /\ \A m \in Manifest, x \in Name : m.kind # Absent => <<m.kind, x>> \in Key
    /\ \A k \in Kind, x \in Name : <<k, x>> \in Key
BY MeshAssumption DEF KindOf, NameOf, Key, Manifest

(* The parts of the store and the registry keep their types. *)
LEMMA PutEntryType ==
    ASSUME TypeOK, NEW n \in Node, NEW key \in Key, NEW m \in Manifest,
           PutEntry(n, key, m)
    PROVE  /\ replica' \in [Node -> [Key -> Manifest \cup {NoEntry}]]
           /\ seen' \in [Node -> SUBSET Put]
BY DEF TypeOK, PutEntry, Put

LEMMA StoreContentType ==
    ASSUME TypeOK, NEW n \in Node, NEW m \in Manifest, StoreContent(n, m)
    PROVE  /\ content' \in [Node -> SUBSET Stored]
           /\ puts' \in [Node -> Nat]
<1>1. CidOf(n, m) \in Cid
  BY DEF CidOf, Cid, TypeOK
<1>2. [cid |-> CidOf(n, m), manifest |-> m] \in Stored
  BY <1>1 DEF Stored
<1> QED
  BY <1>2 DEF StoreContent, TypeOK

LEMMA PutContentType ==
    ASSUME TypeOK, NEW n \in Node, NEW m \in Manifest, NEW g \in BOOLEAN,
           PutContent(n, m, g)
    PROVE  /\ content' \in [Node -> SUBSET Stored]
           /\ puts' \in [Node -> Nat]
           /\ adding' \in [Node -> SUBSET Adding]
<1>1. CASE UNCHANGED adding /\ StoreContent(n, m)
  BY <1>1, StoreContentType DEF TypeOK
<1>2. CASE /\ adding' = [adding EXCEPT ![n] = @ \cup {[manifest |-> m, gossip |-> g]}]
           /\ UNCHANGED <<content, puts>>
  BY <1>2 DEF TypeOK, Adding
<1> QED
  BY <1>1, <1>2 DEF PutContent

LEMMA ShareType ==
    ASSUME TypeOK, NEW n \in Node, NEW key \in Key, NEW m \in Manifest,
           ShareIfJoined(n, key, m)
    PROVE  /\ replica' \in [Node -> [Key -> Manifest \cup {NoEntry}]]
           /\ seen' \in [Node -> SUBSET Put]
           /\ content' \in [Node -> SUBSET Stored]
           /\ puts' \in [Node -> Nat]
           /\ adding' \in [Node -> SUBSET Adding]
           /\ net' \in SUBSET Message
           /\ shared' \in SUBSET Manifest
<1>1. CASE phase[n] = "joined"
  <2>1. /\ PutEntry(n, key, m)
        /\ PutContent(n, m, FALSE)
        /\ net' = net \cup [to : Node \ {n}, manifest : {m}]
        /\ shared' = shared \cup {m}
    BY <1>1 DEF ShareIfJoined
  <2> QED
    BY <2>1, PutEntryType, PutContentType DEF TypeOK, Message
<1>2. CASE phase[n] # "joined"
  BY <1>2 DEF ShareIfJoined, TypeOK
<1> QED
  BY <1>1, <1>2

LEMMA TypeInit == Init => TypeOK
BY MeshAssumption DEF Init, TypeOK, Phase, Empty

LEMMA StoreRowType ==
    ASSUME TypeOK, NEW n \in Node, NEW x \in Name, NEW k \in Kind,
           NEW m \in Manifest, StoreRow(n, x, k, m)
    PROVE  /\ resources' \in [Node -> [Name -> Row \cup {NoRow}]]
           /\ writes' \in 0..MaxWrites
BY MeshAssumption DEF TypeOK, StoreRow, Row

LEMMA StopType ==
    ASSUME TypeOK, NEW n \in Node, StopProcess(n)
    PROVE  TypeOK'
BY DEF TypeOK, StopProcess, Phase, Empty

LEMMA TypeStep == TypeOK /\ [Next]_vars => TypeOK'
<1> SUFFICES ASSUME TypeOK, [Next]_vars PROVE TypeOK'
  OBVIOUS
<1> USE MeshAssumption
<1>1. ASSUME NEW n \in Node, NEW m \in Sent, Publish(n, m) PROVE TypeOK'
  <2>1. m \in Manifest /\ m.kind \in Kind /\ m.name \in Name
    BY <1>1 DEF Publish, Manifest
  <2>2. ShareIfJoined(n, <<m.kind, m.name>>, m) /\ StoreRow(n, m.name, m.kind, m)
    BY <1>1 DEF Publish
  <2>3. <<m.kind, m.name>> \in Key
    BY <2>1, KeyType
  <2> HIDE DEF ShareIfJoined, StoreRow
  <2>4. phase' = phase /\ helia' = helia
    BY <1>1 DEF Publish
  <2> QED
    BY <2>1, <2>2, <2>3, <2>4, ShareType, StoreRowType DEF TypeOK
<1>2. ASSUME NEW n \in Node, NEW m \in Sent, PublishForReview(n, m) PROVE TypeOK'
  <2>1. m \in Manifest /\ m.kind \in Kind /\ m.name \in Name
    BY <1>2 DEF PublishForReview, Manifest
  <2> QED
    BY <1>2, <2>1, StoreRowType DEF PublishForReview, TypeOK
<1>3. ASSUME NEW n \in Node, NEW k \in Kind, NEW x \in Name, NEW m \in Sent,
             Update(n, k, x, m)
      PROVE  TypeOK'
  <2> DEFINE key == <<IF m.kind = Absent THEN k ELSE m.kind, x>>
  <2>1. m \in Manifest /\ key \in Key
    BY KeyType
  <2>2. ShareIfJoined(n, key, m) /\ StoreRow(n, x, k, m)
    BY <1>3 DEF Update
  <2>4. phase' = phase /\ helia' = helia
    BY <1>3 DEF Update
  <2> HIDE DEF key
  <2> QED
    BY <2>1, <2>2, <2>4, ShareType, StoreRowType DEF TypeOK
<1>4. ASSUME NEW n \in Node, NEW k \in Kind, NEW x \in Name, Delete(n, k, x)
      PROVE  TypeOK'
  BY <1>4 DEF Delete, TypeOK
<1>5. ASSUME NEW msg \in net, Receive(msg) PROVE TypeOK'
  <2>1. msg.to \in Node /\ msg.manifest \in Manifest
    BY DEF TypeOK, Message
  <2>2. /\ PutEntry(msg.to, <<KindOf(msg.manifest), NameOf(msg.manifest)>>, msg.manifest)
        /\ PutContent(msg.to, msg.manifest, TRUE)
        /\ net' = net \ {msg}
        /\ UNCHANGED <<phase, resources, helia, writes, shared>>
    BY <1>5 DEF Receive
  <2> QED
    BY <2>1, <2>2, KeyType, PutEntryType, PutContentType DEF TypeOK
<1>6. ASSUME NEW msg \in net, Lost(msg) PROVE TypeOK'
  BY <1>6 DEF Lost, TypeOK
<1>7. ASSUME NEW n \in Node, NEW a \in adding[n], Added(n, a) PROVE TypeOK'
  <2>1. a.manifest \in Manifest
    BY DEF TypeOK, Adding
  <2> QED
    BY <1>7, <2>1, StoreContentType DEF Added, TypeOK
<1>8. ASSUME NEW n \in Node, NEW a \in adding[n], AddFails(n, a) PROVE TypeOK'
  BY <1>8 DEF AddFails, TypeOK
<1>9. ASSUME NEW n \in Node, Crash(n) \/ \E a \in adding[n] : AddFailsUncaught(n, a)
      PROVE  TypeOK'
  BY <1>9, StopType DEF Crash, AddFailsUncaught
<1>10. ASSUME NEW n \in Node, Restart(n) PROVE TypeOK'
  BY <1>10 DEF Restart, TypeOK, Phase
<1>11. ASSUME NEW n \in Node, Join(n) PROVE TypeOK'
  BY <1>11 DEF Join, TypeOK, Phase
<1>12. ASSUME NEW n \in Node, JoinFails(n) PROVE TypeOK'
  BY <1>12 DEF JoinFails, TypeOK, Phase
<1>13. CASE UNCHANGED vars
  BY <1>13 DEF vars, TypeOK
<1> QED
  BY <1>1, <1>2, <1>3, <1>4, <1>5, <1>6, <1>7, <1>8, <1>9, <1>10, <1>11, <1>12,
     <1>13 DEF Next, Writing, Gossiping, Storing, Starting

(* Every variable of the mesh keeps its type. *)
THEOREM MeshTypeCorrect == Spec => []TypeOK
BY TypeInit, TypeStep, PTL DEF Spec

-----------------------------------------------------------------------------
(* What a step does to the listings: it puts one entry, shared now or on its *)
(* way to the node; or starts a node over; or leaves them alone.           *)
PutStep(n, key, m) ==
    /\ PutEntry(n, key, m)
    /\ \/ shared' = shared \cup {m}
       \/ m \in {msg.manifest : msg \in net} /\ shared' = shared

ListingStep ==
    \/ \E n \in Node, key \in Key, m \in Manifest : PutStep(n, key, m)
    \/ \E n \in Node : StopProcess(n)
    \/ UNCHANGED <<replica, seen, shared>>

LEMMA ShareStep ==
    ASSUME NEW n \in Node, NEW key \in Key, NEW m \in Manifest,
           ShareIfJoined(n, key, m)
    PROVE  ListingStep
BY DEF ShareIfJoined, ListingStep, PutStep

LEMMA NextListingStep == TypeOK /\ [Next]_vars => ListingStep
<1> SUFFICES ASSUME TypeOK, [Next]_vars PROVE ListingStep
  OBVIOUS
<1>1. ASSUME NEW n \in Node, NEW m \in Sent, Publish(n, m) PROVE ListingStep
  <2>1. m \in Manifest /\ <<m.kind, m.name>> \in Key
    BY <1>1, MeshAssumption, KeyType DEF Publish, Manifest
  <2>2. ShareIfJoined(n, <<m.kind, m.name>>, m)
    BY <1>1 DEF Publish
  <2> QED
    BY <2>1, <2>2, ShareStep
<1>2. ASSUME NEW n \in Node, NEW k \in Kind, NEW x \in Name, NEW m \in Sent,
             Update(n, k, x, m)
      PROVE  ListingStep
  <2> DEFINE key == <<IF m.kind = Absent THEN k ELSE m.kind, x>>
  <2>1. m \in Manifest /\ key \in Key
    BY MeshAssumption, KeyType
  <2>2. ShareIfJoined(n, key, m)
    BY <1>2 DEF Update
  <2> HIDE DEF key
  <2> QED
    BY <2>1, <2>2, ShareStep
<1>3. ASSUME NEW msg \in net, Receive(msg) PROVE ListingStep
  <2> DEFINE key == <<KindOf(msg.manifest), NameOf(msg.manifest)>>
  <2>1. msg.to \in Node /\ msg.manifest \in Manifest
    BY DEF TypeOK, Message
  <2>2. key \in Key
    BY <2>1, KeyType
  <2>3. PutEntry(msg.to, key, msg.manifest) /\ shared' = shared
    BY <1>3 DEF Receive
  <2> HIDE DEF key
  <2> QED
    BY <2>1, <2>2, <2>3 DEF ListingStep, PutStep
<1>4. ASSUME NEW n \in Node, Crash(n) \/ \E a \in adding[n] : AddFailsUncaught(n, a)
      PROVE  ListingStep
  BY <1>4 DEF Crash, AddFailsUncaught, ListingStep
<1>5. ASSUME \/ \E n \in Node : \/ \E m \in Sent : PublishForReview(n, m)
                                \/ \E k \in Kind, x \in Name : Delete(n, k, x)
             \/ \E msg \in net : Lost(msg)
             \/ \E n \in Node : \E a \in adding[n] : Added(n, a) \/ AddFails(n, a)
             \/ \E n \in Node : Restart(n) \/ Join(n) \/ JoinFails(n)
             \/ UNCHANGED vars
      PROVE  ListingStep
  BY <1>5 DEF PublishForReview, Delete, Lost, Added, AddFails, Restart, Join,
              JoinFails, vars, ListingStep
<1> QED
  BY <1>1, <1>2, <1>3, <1>4, <1>5
     DEF Next, Writing, Gossiping, Storing, Starting

-----------------------------------------------------------------------------
(* The registry against the history: what is listed was put, and what was   *)
(* put under a key still has an entry there.                               *)
Recorded ==
    \A n \in Node :
        /\ \A key \in Key : replica[n][key] # NoEntry =>
              [key |-> key, manifest |-> replica[n][key]] \in seen[n]
        /\ \A s \in seen[n] : replica[n][s.key] # NoEntry

LEMMA RecordedInit == Init => Recorded
<1> SUFFICES ASSUME Init, NEW n \in Node
             PROVE  seen[n] = {} /\ \A key \in Key : replica[n][key] = NoEntry
  BY DEF Recorded
<1> QED
  BY DEF Init, Empty

LEMMA RecordedStep == TypeOK /\ Recorded /\ [Next]_vars => Recorded'
<1> SUFFICES ASSUME TypeOK, Recorded, [Next]_vars PROVE Recorded'
  OBVIOUS
<1>1. ASSUME NEW n \in Node, NEW key \in Key, NEW m \in Manifest, PutEntry(n, key, m)
      PROVE  Recorded'
  <2>1. m # NoEntry
    BY MeshAssumption
  <2>2. /\ replica' = [replica EXCEPT ![n] = [@ EXCEPT ![key] = m]]
        /\ seen' = [seen EXCEPT ![n] = @ \cup {[key |-> key, manifest |-> m]}]
    BY <1>1 DEF PutEntry
  <2>3. ASSUME NEW p \in Node, p # n
        PROVE  replica'[p] = replica[p] /\ seen'[p] = seen[p]
    BY <2>2, <2>3 DEF TypeOK
  <2>4. /\ replica'[n] = [replica[n] EXCEPT ![key] = m]
        /\ seen'[n] = seen[n] \cup {[key |-> key, manifest |-> m]}
    BY <2>2 DEF TypeOK
  <2>5. replica[n] \in [Key -> Manifest \cup {NoEntry}] /\ seen[n] \in SUBSET Put
    BY DEF TypeOK
  <2>6. \A k \in Key : replica'[n][k] # NoEntry =>
           [key |-> k, manifest |-> replica'[n][k]] \in seen'[n]
    BY <2>4, <2>5 DEF Recorded
  <2>7. \A s \in seen'[n] : replica'[n][s.key] # NoEntry
    BY <2>1, <2>4, <2>5 DEF Recorded, Put
  <2> QED
    BY <2>3, <2>6, <2>7 DEF Recorded
<1>2. ASSUME NEW n \in Node, StopProcess(n) PROVE Recorded'
  BY <1>2 DEF StopProcess, Recorded, TypeOK, Empty
<1>3. CASE UNCHANGED <<replica, seen, shared>>
  BY <1>3 DEF Recorded
<1> QED
  BY <1>1, <1>2, <1>3, NextListingStep DEF ListingStep, PutStep

LEMMA RecordedAgrees == TypeOK /\ Recorded => SameMessagesSameListing
<1> SUFFICES ASSUME TypeOK, Recorded, NEW n \in Node, NEW p \in Node,
                    seen[n] = seen[p], Apart(seen[n]), NEW key \in Key
             PROVE  replica[n][key] = replica[p][key]
  BY DEF TypeOK, SameMessagesSameListing
<1> DEFINE Entry(q) == [key |-> key, manifest |-> replica[q][key]]
<1>1. ASSUME NEW q \in {n, p}, NEW r \in {n, p}, replica[q][key] # NoEntry
      PROVE  replica[r][key] = replica[q][key]
  <2>1. Entry(q) \in seen[q]
    BY <1>1 DEF Recorded
  <2>2. replica[r][Entry(q).key] # NoEntry
    BY <2>1 DEF Recorded
  <2>3. Entry(r) \in seen[r]
    BY <2>2 DEF Recorded
  <2>4. Entry(q) \in seen[n] /\ Entry(r) \in seen[n]
    BY <2>1, <2>3
  <2>5. Entry(q) = Entry(r)
    BY <2>4 DEF Apart
  <2> QED
    BY <2>5
<1> QED
  BY <1>1

(* Nodes that were given the same manifests, none of them twice under one    *)
(* kind and name, list the same.                                           *)
THEOREM SameMessages == Spec => []SameMessagesSameListing
<1>1. Init => TypeOK /\ Recorded
  BY TypeInit, RecordedInit
<1>2. TypeOK /\ Recorded /\ [Next]_vars => (TypeOK /\ Recorded)'
  BY TypeStep, RecordedStep
<1> QED
  BY <1>1, <1>2, RecordedAgrees, PTL DEF Spec

-----------------------------------------------------------------------------
(* What is on its way was shared. *)
NetShared == \A msg \in net : msg.manifest \in shared

LEMMA NetSharedInit == Init => NetShared
BY DEF Init, NetShared

LEMMA NetSharedStep == NetShared /\ [Next]_vars => NetShared'
<1> SUFFICES ASSUME NetShared, [Next]_vars PROVE NetShared'
  OBVIOUS
<1>1. ASSUME NEW n \in Node, NEW key, NEW m, ShareIfJoined(n, key, m) PROVE NetShared'
  <2>1. \/ net' = net \cup [to : Node \ {n}, manifest : {m}] /\ shared' = shared \cup {m}
        \/ net' = net /\ shared' = shared
    BY <1>1 DEF ShareIfJoined
  <2>2. \A msg \in [to : Node \ {n}, manifest : {m}] : msg.manifest = m
    OBVIOUS
  <2> QED
    BY <2>1, <2>2 DEF NetShared
<1>2. ASSUME UNCHANGED shared, net' \subseteq net PROVE NetShared'
  BY <1>2 DEF NetShared
<1> QED
  BY <1>1, <1>2
     DEF Next, vars, Writing, Gossiping, Storing, Starting, Publish, Update,
         PublishForReview, Delete, Receive, Lost, Added, AddFails, Crash,
         AddFailsUncaught, StopProcess, Restart, Join, JoinFails

(* The mesh implements MeshListing. *)
THEOREM MeshRefinesListing == Spec => ImplementsListing
<1>1. Init => Listing!ListingInit
  BY DEF Init, Listing!ListingInit, Empty
<1>2. TypeOK /\ NetShared /\ [Next]_vars => [Listing!ListingNext]_(Listing!listing)
  <2> SUFFICES ASSUME TypeOK, NetShared, [Next]_vars
               PROVE  [Listing!ListingNext]_(Listing!listing)
    OBVIOUS
  <2>1. ASSUME NEW n \in Node, NEW key \in Key, NEW m \in Manifest, PutStep(n, key, m)
        PROVE  Listing!ListingNext
    <3>1. Listing!File(n, key, m)
      BY <2>1 DEF PutStep, PutEntry, Listing!File
    <3>2. Listing!Share(n, key, m) \/ Listing!Learn(n, key, m)
      BY <2>1, <3>1 DEF PutStep, NetShared, Listing!Share, Listing!Learn
    <3> QED
      BY <3>2 DEF Listing!ListingNext
  <2>2. ASSUME NEW n \in Node, StopProcess(n) PROVE Listing!ListingNext
    BY <2>2 DEF StopProcess, Empty, Listing!ListingNext, Listing!Forget
  <2>3. CASE UNCHANGED <<replica, seen, shared>>
    BY <2>3 DEF Listing!listing
  <2> QED
    BY <2>1, <2>2, <2>3, NextListingStep DEF ListingStep
<1> QED
  BY <1>1, <1>2, TypeInit, TypeStep, NetSharedInit, NetSharedStep, PTL
     DEF Spec, ImplementsListing, Listing!ListingSpec

-----------------------------------------------------------------------------
(* The store of a node that has not joined is empty; in the fallback every   *)
(* key carries a number the counter has passed.                            *)
ContentKeyed ==
    \A n \in Node :
        /\ phase[n] # "joined" => content[n] = {} /\ adding[n] = {}
        /\ \A s \in content[n] :
              IF helia[n] THEN s.cid = s.manifest
                          ELSE \E i \in Nat : /\ i < puts[n]
                                             /\ s.cid = [hash |-> Hash[s.manifest], seq |-> i]

(* A put that waited for Helia has ended, or none has. *)
LessAdding == adding' = adding \/ \E n, a : adding' = [adding EXCEPT ![n] = @ \ {a}]

LEMMA StoreContentKeyed ==
    ASSUME TypeOK, ContentKeyed, NEW n \in Node, NEW m \in Manifest,
           phase[n] = "joined", StoreContent(n, m), UNCHANGED <<phase, helia>>,
           LessAdding
    PROVE  /\ ContentKeyed'
           /\ \A p \in Node : content[p] \subseteq content'[p]
<1> DEFINE new == [cid |-> CidOf(n, m), manifest |-> m]
<1>1. /\ content'[n] = {s \in content[n] : s.cid # CidOf(n, m)} \cup {new}
      /\ puts'[n] = puts[n] + 1
      /\ puts[n] \in Nat
      /\ \A p \in Node : p # n => content'[p] = content[p] /\ puts'[p] = puts[p]
  BY DEF StoreContent, TypeOK
<1>2. ASSUME NEW s \in content[n], s.cid = CidOf(n, m) PROVE s = new
  <2>1. s = [cid |-> s.cid, manifest |-> s.manifest]
    BY DEF TypeOK, Stored
  <2>2. CASE helia[n]
    BY <1>2, <2>1, <2>2 DEF ContentKeyed, CidOf
  <2>3. CASE ~ helia[n]
    <3>1. PICK i \in Nat : i < puts[n] /\ s.cid = [hash |-> Hash[s.manifest], seq |-> i]
      BY <2>3 DEF ContentKeyed
    <3>2. s.cid.seq = puts[n]
      BY <1>2, <2>3 DEF CidOf
    <3> QED
      BY <1>1, <3>1, <3>2
  <2> QED
    BY <2>2, <2>3
<1>3. content[n] \subseteq content'[n]
  BY <1>1, <1>2
<1>4. \A s \in content'[n] :
         IF helia'[n] THEN s.cid = s.manifest
                      ELSE \E i \in Nat : /\ i < puts'[n]
                                         /\ s.cid = [hash |-> Hash[s.manifest], seq |-> i]
  <2>1. CASE helia[n]
    BY <1>1, <2>1 DEF ContentKeyed, CidOf
  <2>2. CASE ~ helia[n]
    <3>1. ASSUME NEW s \in content[n]
          PROVE  \E i \in Nat : i < puts'[n] /\ s.cid = [hash |-> Hash[s.manifest], seq |-> i]
      <4>1. PICK i \in Nat : i < puts[n] /\ s.cid = [hash |-> Hash[s.manifest], seq |-> i]
        BY <2>2 DEF ContentKeyed
      <4> QED
        BY <1>1, <4>1
    <3>2. new.cid = [hash |-> Hash[new.manifest], seq |-> puts[n]]
      BY <2>2 DEF CidOf
    <3>3. puts[n] < puts'[n]
      BY <1>1
    <3> HIDE DEF new
    <3> QED
      BY <1>1, <2>2, <3>1, <3>2, <3>3
  <2> QED
    BY <2>1, <2>2
<1>5. \A p \in Node : phase'[p] # "joined" => content'[p] = {} /\ adding'[p] = {}
  BY <1>1 DEF ContentKeyed, TypeOK, LessAdding
<1>6. ContentKeyed'
  BY <1>1, <1>4, <1>5 DEF ContentKeyed
<1> QED
  BY <1>1, <1>3, <1>6

(* What a step does to the stores. *)
StoreStep ==
    \/ \E n \in Node, m \in Manifest :
          /\ phase[n] = "joined"
          /\ StoreContent(n, m)
          /\ LessAdding
          /\ UNCHANGED <<phase, helia>>
    \/ \E n \in Node : \E a :
          /\ phase[n] = "joined"
          /\ adding' = [adding EXCEPT ![n] = @ \cup {a}]
          /\ UNCHANGED <<phase, helia, content, puts>>
    \/ \E n \in Node : StopProcess(n)
    \/ \E n \in Node : \E h, ph :
          /\ phase[n] # "joined"
          /\ phase' = [phase EXCEPT ![n] = ph]
          /\ helia' = [helia EXCEPT ![n] = h]
          /\ UNCHANGED <<content, puts, adding>>
    \/ LessAdding /\ UNCHANGED <<phase, helia, content, puts>>

LEMMA ShareStoreStep ==
    ASSUME NEW n \in Node, NEW key, NEW m \in Manifest,
           ShareIfJoined(n, key, m), UNCHANGED <<phase, helia>>
    PROVE  StoreStep
BY DEF ShareIfJoined, PutContent, StoreStep, LessAdding

LEMMA NextStoreStep == TypeOK /\ ContentKeyed /\ [Next]_vars => StoreStep
<1> SUFFICES ASSUME TypeOK, ContentKeyed, [Next]_vars PROVE StoreStep
  OBVIOUS
<1>1. ASSUME NEW n \in Node, NEW m \in Sent, Publish(n, m) PROVE StoreStep
  BY <1>1, MeshAssumption, ShareStoreStep DEF Publish
<1>2. ASSUME NEW n \in Node, NEW k \in Kind, NEW x \in Name, NEW m \in Sent,
             Update(n, k, x, m)
      PROVE  StoreStep
  BY <1>2, MeshAssumption, ShareStoreStep DEF Update
<1>3. ASSUME NEW msg \in net, Receive(msg) PROVE StoreStep
  <2>1. msg.to \in Node /\ msg.manifest \in Manifest
    BY DEF TypeOK, Message
  <2>2. phase[msg.to] = "joined" /\ PutContent(msg.to, msg.manifest, TRUE)
        /\ UNCHANGED <<phase, helia>>
    BY <1>3 DEF Receive
  <2> QED
    BY <2>1, <2>2 DEF PutContent, StoreStep, LessAdding
<1>4. ASSUME NEW n \in Node, NEW a \in adding[n], Added(n, a) PROVE StoreStep
  <2>1. a.manifest \in Manifest /\ phase[n] = "joined"
    BY DEF TypeOK, Adding, ContentKeyed
  <2>2. StoreContent(n, a.manifest) /\ LessAdding /\ UNCHANGED <<phase, helia>>
    BY <1>4 DEF Added, LessAdding
  <2> QED
    BY <2>1, <2>2 DEF StoreStep
<1>5. ASSUME NEW n \in Node, Crash(n) \/ \E a \in adding[n] : AddFailsUncaught(n, a)
      PROVE  StoreStep
  BY <1>5 DEF Crash, AddFailsUncaught, StoreStep
<1>6. ASSUME NEW n \in Node, Restart(n) \/ Join(n) \/ JoinFails(n) PROVE StoreStep
  <2>1. helia = [helia EXCEPT ![n] = helia[n]]
    BY DEF TypeOK
  <2> QED
    BY <1>6, <2>1 DEF Restart, Join, JoinFails, StoreStep
<1>7. ASSUME \/ \E n \in Node : \/ \E m \in Sent : PublishForReview(n, m)
                                \/ \E k \in Kind, x \in Name : Delete(n, k, x)
             \/ \E msg \in net : Lost(msg)
             \/ \E n \in Node : \E a \in adding[n] : AddFails(n, a)
             \/ UNCHANGED vars
      PROVE  StoreStep
  BY <1>7 DEF PublishForReview, Delete, Lost, AddFails, vars, StoreStep, LessAdding
<1> QED
  BY <1>1, <1>2, <1>3, <1>4, <1>5, <1>6, <1>7
     DEF Next, Writing, Gossiping, Storing, Starting

LEMMA StoreStepKeyed ==
    TypeOK /\ ContentKeyed /\ StoreStep =>
        /\ ContentKeyed'
        /\ \A p \in Node : phase'[p] # "down" => content[p] \subseteq content'[p]
<1> SUFFICES ASSUME TypeOK, ContentKeyed, StoreStep
             PROVE  /\ ContentKeyed'
                    /\ \A p \in Node : phase'[p] # "down" => content[p] \subseteq content'[p]
  OBVIOUS
<1>1. ASSUME NEW n \in Node, NEW m \in Manifest, phase[n] = "joined",
             StoreContent(n, m), LessAdding, UNCHANGED <<phase, helia>>
      PROVE  ContentKeyed' /\ \A p \in Node : content[p] \subseteq content'[p]
  BY <1>1, StoreContentKeyed
<1>2. ASSUME NEW n \in Node, NEW a, phase[n] = "joined",
             adding' = [adding EXCEPT ![n] = @ \cup {a}],
             UNCHANGED <<phase, helia, content, puts>>
      PROVE  ContentKeyed'
  BY <1>2 DEF ContentKeyed, TypeOK
<1>3. ASSUME NEW n \in Node, StopProcess(n)
      PROVE  /\ ContentKeyed'
             /\ \A p \in Node : phase'[p] # "down" => content[p] \subseteq content'[p]
  BY <1>3 DEF StopProcess, ContentKeyed, TypeOK
<1>4. ASSUME NEW n \in Node, NEW h, NEW ph, phase[n] # "joined",
             phase' = [phase EXCEPT ![n] = ph], helia' = [helia EXCEPT ![n] = h],
             UNCHANGED <<content, puts, adding>>
      PROVE  ContentKeyed'
  BY <1>4 DEF ContentKeyed, TypeOK
<1>5. ASSUME LessAdding, UNCHANGED <<phase, helia, content, puts>>
      PROVE  ContentKeyed'
  BY <1>5 DEF LessAdding, ContentKeyed, TypeOK
<1> QED
  BY <1>1, <1>2, <1>3, <1>4, <1>5 DEF StoreStep

(* A CID keeps naming its manifest until its node stops. *)
THEOREM ContentStays == Spec => StoredStaysResolvable
<1>1. Init => TypeOK /\ ContentKeyed
  BY TypeInit DEF Init, ContentKeyed
<1>2. TypeOK /\ ContentKeyed /\ [Next]_vars => (TypeOK /\ ContentKeyed)'
  BY TypeStep, NextStoreStep, StoreStepKeyed
<1>3. TypeOK /\ ContentKeyed /\ [Next]_vars
        => [\A n \in Node : phase'[n] # "down" => content[n] \subseteq content'[n]]_vars
  BY NextStoreStep, StoreStepKeyed
<1> QED
  BY <1>1, <1>2, <1>3, PTL DEF Spec, StoredStaysResolvable
=============================================================================
