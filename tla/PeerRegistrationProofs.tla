----------------------- MODULE PeerRegistrationProofs -----------------------
(* What PeerRegistration guarantees for every federation and every body.    *)
EXTENDS PeerRegistration, TLAPS

(* The loop stays within DUADP_PEERS. *)
Within == \A n \in Node : boot[n] # Idle => boot[n].at \in DOMAIN EnvPeers[n]

LEMMA EnvPositions ==
    ASSUME NEW n \in Node, NEW k \in DOMAIN EnvPeers[n]
    PROVE  k \in Nat /\ EnvPeers[n][k] \in Node
  BY RegistrationAssumption

(* Going on from any position leaves the loop idle or at a position.        *)
LEMMA ProceedType ==
    ASSUME TypeOK, NEW n \in Node, NEW i, Proceed(n, i)
    PROVE  /\ boot' \in [Node -> [at : Nat, step : Step] \cup {Idle}]
           /\ Within'
  <1>1. CASE Missing(n, i) = {} /\ boot' = [boot EXCEPT ![n] = Idle]
    BY <1>1 DEF TypeOK, Within
  <1>2. CASE \E k \in Missing(n, i) : boot' = [boot EXCEPT ![n] = Probing(k)]
    <2>1. PICK k \in Missing(n, i) : boot' = [boot EXCEPT ![n] = Probing(k)]
      BY <1>2
    <2>2. k \in DOMAIN EnvPeers[n] /\ k \in Nat
      BY EnvPositions DEF Missing
    <2>3. Probing(k) \in [at : Nat, step : Step] /\ Probing(k).at = k
      BY <2>2 DEF Probing, Step
    <2> HIDE DEF Probing
    <2> QED BY <2>1, <2>2, <2>3 DEF TypeOK, Within
  <1> QED BY <1>1, <1>2 DEF Proceed

(* A table into which hops are inserted is a table. *)
LEMMA InsertedType ==
    ASSUME TypeOK, NEW n \in Node, NEW batch,
           \A p \in DOMAIN batch : batch[p] \in Hop
    PROVE  Inserted(n, batch) \in [Node -> Hop \cup {NoRow}]
  BY DEF Inserted, TypeOK

(* Inserting one peer touches its row alone. *)
LEMMA InsertedOnly ==
    ASSUME NEW n \in Node, NEW q, NEW h
    PROVE  Inserted(n, Only(q, h)) =
             [p \in Node |-> IF p = q /\ rows[n][p] = NoRow THEN h ELSE rows[n][p]]
  BY DEF Inserted, Only

LEMMA InsertedOnlyType ==
    ASSUME TypeOK, NEW n \in Node, NEW q, NEW h \in Hop
    PROVE  Inserted(n, Only(q, h)) \in [Node -> Hop \cup {NoRow}]
  BY InsertedOnly DEF TypeOK

(* What a node takes from a list: other nodes, within the bound. *)
LEMMA GossipedHops ==
    ASSUME NEW n \in Node, NEW b \in Post
    PROVE  \A p \in DOMAIN Gossiped(n, b) :
             /\ p \in DOMAIN b.peers /\ p # n
             /\ Gossiped(n, b)[p] \in Hop /\ Near(Gossiped(n, b)[p])
  <1>1. b.hop \in Hop /\ \A p \in DOMAIN b.peers : b.peers[p] \in Hop \cup {NoHop}
    BY RegistrationAssumption
  <1>2. \A p \in DOMAIN b.peers : HopOf(b, p) \in Hop
    BY <1>1 DEF HopOf, OneMore, Hop
  <1> QED BY <1>2 DEF Gossiped

(* What POST /federation makes of the table: the rows that were there, the  *)
(* peer that registers, or a peer of its list.                             *)
LEMMA RegisteredRow ==
    ASSUME TypeOK, NEW n \in Node, NEW b \in Post, Register(n, b), NEW p \in Node
    PROVE  \/ rows'[n][p] = rows[n][p]
           \/ p = b.url /\ rows'[n][p] = b.hop
           \/ p \in DOMAIN Gossiped(n, b) /\ rows'[n][p] = Gossiped(n, b)[p]
  <1> DEFINE direct == Inserted(n, Only(b.url, b.hop))
  <1>1. rows'[n][p] = IF direct[p] # NoRow THEN direct[p]
                      ELSE Inserted(n, Gossiped(n, b))[p]
    BY DEF Register, TypeOK
  <1>2. direct[p] = rows[n][p] \/ (p = b.url /\ direct[p] = b.hop)
    BY InsertedOnly
  <1>3. \/ Inserted(n, Gossiped(n, b))[p] = rows[n][p]
        \/ /\ p \in DOMAIN Gossiped(n, b)
           /\ Inserted(n, Gossiped(n, b))[p] = Gossiped(n, b)[p]
    BY DEF Inserted
  <1> QED BY <1>1, <1>2, <1>3

-----------------------------------------------------------------------------
(* A peer that registers with a hop that is no number. *)
NamedOddly(p, h) == h = NotANumber /\ \E b \in Post : b.url = p /\ b.hop = NotANumber

(* Every row a step adds: its hop, and who named the url.                   *)
LEMMA NewRow ==
    ASSUME TypeOK, Next, NEW n \in Node, NEW p \in Node
    PROVE  \/ rows'[n][p] = rows[n][p]
           \/ /\ rows'[n][p] = 0
              /\ p = n => \E k \in DOMAIN EnvPeers[n] : EnvPeers[n][k] = n
           \/ /\ rows'[n][p] \in Hop
              /\ Near(rows'[n][p]) \/ NamedOddly(p, rows'[n][p])
              /\ p = n => \E b \in Post : b.url = n /\ Register(n, b)
  <1>1. CASE UNCHANGED rows
    BY <1>1
  <1>2. ASSUME NEW m \in Node, Probe(m) PROVE rows'[n][p] = rows[n][p]
             \/ /\ rows'[n][p] = 0
                /\ p = n => \E k \in DOMAIN EnvPeers[n] : EnvPeers[n][k] = n
    <2>1. boot[m].at \in DOMAIN EnvPeers[m]
      BY <1>2 DEF Probe, TypeOK
    <2>2. n # m => rows'[n] = rows[n]
      BY <1>2 DEF Probe, TypeOK
    <2>3. rows'[m][p] = rows[m][p] \/ (p = Current(m) /\ rows'[m][p] = 0)
      BY <1>2, InsertedOnly DEF Probe, TypeOK
    <2> QED BY <2>1, <2>2, <2>3 DEF Current
  <1>3. ASSUME NEW m \in Node, Reciprocate(m) PROVE rows'[n][p] = rows[n][p]
             \/ /\ rows'[n][p] = 0
                /\ p = n => \E k \in DOMAIN EnvPeers[n] : EnvPeers[n][k] = n
    <2>1. boot[m].at \in DOMAIN EnvPeers[m] /\ Current(m) \in Node
      BY <1>3, EnvPositions DEF Reciprocate, TypeOK, Current
    <2>2. CASE UNCHANGED rows
      BY <2>2
    <2>3. CASE rows' = [rows EXCEPT ![Current(m)] = Inserted(Current(m), Only(m, 0))]
      <3>1. n # Current(m) => rows'[n] = rows[n]
        BY <2>1, <2>3 DEF TypeOK
      <3>2. n = Current(m) => rows'[n][p] = rows[n][p] \/ (p = m /\ rows'[n][p] = 0)
        BY <2>1, <2>3, InsertedOnly DEF TypeOK
      <3> QED BY <2>1, <3>1, <3>2 DEF Current
    <2> QED BY <1>3, <2>2, <2>3 DEF Reciprocate
  <1>4. ASSUME NEW m \in Node, NEW b \in Post, Register(m, b)
        PROVE  \/ rows'[n][p] = rows[n][p]
               \/ /\ rows'[n][p] \in Hop
                  /\ Near(rows'[n][p]) \/ NamedOddly(p, rows'[n][p])
                  /\ p = n => \E c \in Post : c.url = n /\ Register(n, c)
    <2>1. n # m => rows'[n] = rows[n]
      BY <1>4 DEF Register, TypeOK
    <2>2. b.hop \in Hop /\ (Near(b.hop) \/ NamedOddly(b.url, b.hop))
      BY <1>4, RegistrationAssumption DEF Register, TooFar, Near, NamedOddly, Hop
    <2>3. n = m => \/ rows'[n][p] = rows[n][p]
                   \/ p = b.url /\ rows'[n][p] = b.hop
                   \/ p \in DOMAIN Gossiped(n, b) /\ rows'[n][p] = Gossiped(n, b)[p]
      BY <1>4, RegisteredRow
    <2> QED BY <1>4, <2>1, <2>2, <2>3, GossipedHops
  <1>5. \/ UNCHANGED rows
        \/ \E m \in Node : Probe(m) \/ Reciprocate(m) \/ \E b \in Post : Register(m, b)
    BY DEF Next, Start, Reach, Crash
  <1> QED BY <1>1, <1>2, <1>3, <1>4, <1>5

LEMMA RowsType ==
    ASSUME TypeOK, Next
    PROVE  rows' \in [Node -> [Node -> Hop \cup {NoRow}]]
  <1> DEFINE Table == [Node -> Hop \cup {NoRow}]
  <1>0. rows \in [Node -> Table]
    BY DEF TypeOK
  <1>1. ASSUME NEW m \in Node, Probe(m) PROVE rows' \in [Node -> Table]
    <2>1. Inserted(m, Only(Current(m), 0)) \in Table
      BY InsertedOnlyType DEF Hop
    <2> HIDE DEF Table
    <2> QED BY <1>0, <1>1, <2>1 DEF Probe
  <1>2. ASSUME NEW m \in Node, Reciprocate(m) PROVE rows' \in [Node -> Table]
    <2>1. boot[m].at \in DOMAIN EnvPeers[m] /\ Current(m) \in Node
      BY <1>2, EnvPositions DEF Reciprocate, TypeOK, Current
    <2>2. Inserted(Current(m), Only(m, 0)) \in Table
      BY <2>1, InsertedOnlyType DEF Hop
    <2> HIDE DEF Table
    <2> QED BY <1>0, <1>2, <2>1, <2>2 DEF Reciprocate
  <1>3. ASSUME NEW m \in Node, NEW b \in Post, Register(m, b)
        PROVE  rows' \in [Node -> Table]
    <2>1. Inserted(m, Only(b.url, b.hop)) \in Table
      BY InsertedOnlyType, RegistrationAssumption
    <2>2. Inserted(m, Gossiped(m, b)) \in Table
      BY GossipedHops, InsertedType
    <2>3. [p \in Node |-> IF Inserted(m, Only(b.url, b.hop))[p] # NoRow
                          THEN Inserted(m, Only(b.url, b.hop))[p]
                          ELSE Inserted(m, Gossiped(m, b))[p]] \in Table
      BY <2>1, <2>2
    <2> HIDE DEF Table
    <2> QED BY <1>0, <1>3, <2>3 DEF Register
  <1>4. \/ UNCHANGED rows
        \/ \E m \in Node : Probe(m) \/ Reciprocate(m) \/ \E b \in Post : Register(m, b)
    BY DEF Next, Start, Reach, Crash
  <1> QED BY <1>0, <1>1, <1>2, <1>3, <1>4

LEMMA BootType ==
    ASSUME TypeOK, Next
    PROVE  boot' \in [Node -> [at : Nat, step : Step] \cup {Idle}] /\ Within'
  <1>1. ASSUME NEW n \in Node, NEW i, Proceed(n, i)
        PROVE  boot' \in [Node -> [at : Nat, step : Step] \cup {Idle}] /\ Within'
    BY <1>1, ProceedType
  <1>2. ASSUME NEW n \in Node, NEW s \in Step, boot[n] # Idle,
               boot' = [boot EXCEPT ![n].step = s]
        PROVE  boot' \in [Node -> [at : Nat, step : Step] \cup {Idle}] /\ Within'
    <2>1. boot[n] \in [at : Nat, step : Step]
      BY <1>2 DEF TypeOK
    <2>2. [boot[n] EXCEPT !.step = s] \in [at : Nat, step : Step]
      BY <2>1
    <2>3. boot' = [boot EXCEPT ![n] = [boot[n] EXCEPT !.step = s]]
      BY <1>2 DEF TypeOK
    <2> QED BY <1>2, <2>1, <2>2, <2>3 DEF TypeOK, Within
  <1>3. ASSUME NEW n \in Node, Crash(n)
        PROVE  boot' \in [Node -> [at : Nat, step : Step] \cup {Idle}] /\ Within'
    BY <1>3 DEF Crash, TypeOK, Within
  <1>4. ASSUME UNCHANGED boot
        PROVE  boot' \in [Node -> [at : Nat, step : Step] \cup {Idle}] /\ Within'
    BY <1>4 DEF TypeOK, Within
  <1>5. ASSUME NEW n \in Node, Start(n) \/ Probe(n) \/ Reach(n) \/ Reciprocate(n)
        PROVE  boot' \in [Node -> [at : Nat, step : Step] \cup {Idle}] /\ Within'
    <2>1. CASE Start(n) \/ Reciprocate(n)
      BY <1>1, <2>1 DEF Start, Reciprocate
    <2>2. CASE Probe(n) \/ Reach(n)
      BY <1>1, <1>2, <2>2 DEF Probe, Reach, Step
    <2> QED BY <1>5, <2>1, <2>2
  <1> QED BY <1>3, <1>4, <1>5 DEF Next, Register

-----------------------------------------------------------------------------
LEMMA RegistrationInit == Init => TypeOK /\ HopsBounded
  BY DEF Init, TypeOK, HopsBounded

LEMMA RegistrationStep == TypeOK /\ HopsBounded /\ [Next]_vars
                            => TypeOK' /\ HopsBounded'
  <1> SUFFICES ASSUME TypeOK, HopsBounded, [Next]_vars
               PROVE  TypeOK' /\ HopsBounded'
    OBVIOUS
  <1>1. CASE Next
    <2>1. up' \in [Node -> {"new", "up", "down"}]
      BY <1>1 DEF Next, Start, Probe, Reach, Reciprocate, Register, Crash, TypeOK
    <2>2. TypeOK'
      BY <1>1, <2>1, RowsType, BootType DEF TypeOK, Within
    <2>3. ASSUME NEW n \in Node, NEW p \in Node, rows'[n][p] # NoRow
          PROVE  Near(rows'[n][p]) \/ NamedOddly(p, rows'[n][p])
      <3>1. Near(0)
        BY RegistrationAssumption DEF Near
      <3>2. rows'[n][p] = rows[n][p] =>
               Near(rows'[n][p]) \/ NamedOddly(p, rows'[n][p])
        BY <2>3 DEF HopsBounded, NamedOddly
      <3> QED BY <1>1, <3>1, <3>2, NewRow
    <2> QED BY <2>2, <2>3 DEF HopsBounded, NamedOddly
  <1>2. CASE UNCHANGED vars
    BY <1>2 DEF vars, TypeOK, HopsBounded
  <1> QED BY <1>1, <1>2

LEMMA OwnPeerStep ==
    TypeOK /\ [Next]_vars =>
      [\A n \in Node : rows[n][n] = NoRow /\ rows'[n][n] # NoRow =>
         \/ \E k \in DOMAIN EnvPeers[n] : EnvPeers[n][k] = n
         \/ \E b \in Post : b.url = n /\ Register(n, b)]_vars
  BY NewRow

LEMMA RegistrationInvariant == Spec => [](TypeOK /\ HopsBounded)
  BY RegistrationInit, RegistrationStep, PTL DEF Spec

(* The peers tables and the loops of registerEnvPeers keep their types.     *)
THEOREM RegistrationTypeCorrect == Spec => []TypeOK
  BY RegistrationInvariant, PTL

(* No body and no order of registrations puts a peer beyond max_hops.       *)
THEOREM PeersWithinHops == Spec => []HopsBounded
  BY RegistrationInvariant, PTL

(* Nobody becomes its own peer through a list of peers. *)
THEOREM OwnPeerNamed == Spec => OwnPeerOnlyByName
  BY RegistrationInvariant, OwnPeerStep, PTL DEF Spec, OwnPeerOnlyByName
=============================================================================
