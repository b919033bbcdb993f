----------------------------- MODULE ClientProofs -----------------------------
(***************************************************************************)
(* Theorems about the client of the SDK (client.ts) and what is built on   *)
(* it: McpEndpoint and the DiscoveryClient it extends, for any clients,     *)
(* calls, streams and session ids, and any sequence of manifests; and the  *)
(* circuit breaker (CircuitBreaker), whose variables are its own.          *)
(***************************************************************************)
EXTENDS McpEndpoint, CircuitBreaker, TLAPS

Record == CallRecord(Methods \cup Tools)

-----------------------------------------------------------------------------
(* What the steps of a call make of its record. *)

(* next comes from call by looking at manifest v, or by not having one.      *)
Follows(call, v, next) ==
    /\ next \in Record
    /\ next.own = call.own
    /\ next.since = call.since
    /\ next.stage \in {"discovering", "asked", "done"}
    /\ next.stage = "discovering" => v = 0
    /\ next.base \in {call.base, 0, v}

LEMMA AskFollows ==
    ASSUME NEW call \in Record, NEW v \in 0..MaxVersion, NEW base \in {0, v}
    PROVE  Follows(call, v, Ask(call, base))
<1>1. base \in 0..MaxVersion
  BY DiscoveryAssumption
<1>. QED  BY <1>1 DEF Ask, Record, CallRecord, Stage, Follows

LEMMA DoneFollows ==
    ASSUME NEW call \in Record, NEW v,
           NEW result \in {"value", "no content", "no route", "error",
                           "unexposed", "undiscovered"}
    PROVE  Follows(call, v, Done(call, result))
BY DEF Done, Record, CallRecord, Stage, Follows

LEMMA LookFollows ==
    ASSUME NEW call \in Record, NEW v \in 0..MaxVersion
    PROVE  Follows(call, v, Look(call, v))
<1>1. CASE v = 0
  BY <1>1 DEF Look, Record, CallRecord, Stage, Follows
<1>2. CASE v # 0
  <2>1. CASE EndpointOf(call) \in Exposed[v]
    BY <1>2, <2>1, AskFollows DEF Look
  <2>2. CASE EndpointOf(call) \notin Exposed[v]
    BY <1>2, <2>2, DoneFollows DEF Look
  <2>. QED  BY <2>1, <2>2
<1>. QED  BY <1>1, <1>2

LEMMA OtherwiseFollows ==
    ASSUME NEW call \in Record, NEW v \in 0..MaxVersion,
           NEW why \in {"unexposed", "undiscovered"}
    PROVE  Follows(call, v, Otherwise(call, v, why))
<1>. DEFINE second == call.method.otherwise = "governance" /\ ~call.second
<1>1. CASE call.method.otherwise = "default"
  <2>1. Otherwise(call, v, why) = Ask(call, 0)
    BY <1>1 DEF Otherwise
  <2>. QED  BY <2>1, AskFollows
<1>2. CASE second
  <2>. DEFINE moved == [call EXCEPT !.second = TRUE]
  <2>1. /\ moved \in Record
        /\ moved.own = call.own
        /\ moved.since = call.since
        /\ moved.base = call.base
    BY DEF Record, CallRecord
  <2>2. Otherwise(call, v, why) = Look(moved, v)
    BY <1>2 DEF Otherwise
  <2>. HIDE DEF moved
  <2>3. Follows(moved, v, Look(moved, v))
    BY <2>1, LookFollows
  <2>. QED  BY <2>1, <2>2, <2>3 DEF Follows
<1>3. CASE call.method.otherwise # "default" /\ ~second
  <2>1. Otherwise(call, v, why) = Done(call, why)
    BY <1>3 DEF Otherwise
  <2>. QED  BY <2>1, DoneFollows
<1>. QED  BY <1>1, <1>2, <1>3

LEMMA ResolveFollows ==
    ASSUME NEW call \in Record, NEW v \in 0..MaxVersion
    PROVE  Follows(call, v, Resolve(call, v))
<1>1. CASE Look(call, v).result = "unexposed"
  BY <1>1, OtherwiseFollows DEF Resolve
<1>2. CASE Look(call, v).result # "unexposed"
  BY <1>2, LookFollows DEF Resolve
<1>. QED  BY <1>1, <1>2

-----------------------------------------------------------------------------
(* Calls. *)

(* What a call knows of the node's manifests: the ones it read are at least  *)
(* as new as itself, and while it has none it has no address either.       *)
Fresh(call) ==
    /\ call.since <= version
    /\ call.stage \in {"discovering", "manifest"} => ~call.own /\ call.base = 0
    /\ call.stage = "manifest" => call.got >= call.since
    /\ call.own /\ call.base # 0 => call.base >= call.since

AllFresh == \A c \in Call : calls[c] # NoCall => Fresh(calls[c])

(* One slot is given the record next, and nothing else of the client moves   *)
(* but perhaps a kept manifest.                                            *)
Sets(c, next) ==
    /\ calls' = [calls EXCEPT ![c] = next]
    /\ version' = version
    /\ manifest' \in [Client -> 0..MaxVersion]

LEMMA SetKeeps ==
    ASSUME TypeOK, AllFresh, NEW c \in Call, NEW next \in Record, Fresh(next),
           Sets(c, next)
    PROVE  ClientTypeOK(Methods \cup Tools)' /\ AllFresh'
<1>1. calls' \in [Call -> Record \cup {NoCall}]
  BY DEF TypeOK, ClientTypeOK, Sets, Record
<1>2. ClientTypeOK(Methods \cup Tools)'
  BY <1>1 DEF TypeOK, ClientTypeOK, Sets, Record, CallRecord, Version
<1>3. AllFresh'
  BY DEF TypeOK, ClientTypeOK, Sets, AllFresh, Fresh
<1>. QED  BY <1>2, <1>3

LEMMA Numbers ==
    ASSUME TypeOK
    PROVE  /\ version \in Version /\ version \in Nat /\ version \in 0..MaxVersion
           /\ 0 \in 0..MaxVersion
           /\ manifest \in [Client -> 0..MaxVersion]
<1>1. version \in Version /\ manifest \in [Client -> 0..MaxVersion]
  BY DEF TypeOK, ClientTypeOK
<1>. QED  BY <1>1, DiscoveryAssumption DEF Version

LEMMA CallNumbers ==
    ASSUME NEW call \in Record
    PROVE  /\ call.got \in 0..MaxVersion /\ call.base \in 0..MaxVersion
           /\ call.got \in Nat /\ call.since \in Nat \ {0}
           /\ call.client \in Client
<1>1. /\ call.got \in 0..MaxVersion /\ call.base \in 0..MaxVersion
      /\ call.since \in Version /\ call.client \in Client
  BY DEF Record, CallRecord
<1>. QED  BY <1>1, DiscoveryAssumption DEF Version

LEMMA StartSets ==
    ASSUME TypeOK, NEW c \in Call, NEW k \in Client, NEW method \in Methods \cup Tools,
           Start(c, k, method)
    PROVE  \E next \in Record : Fresh(next) /\ Sets(c, next)
<1>. DEFINE call == [client |-> k, method |-> method, stage |-> "discovering",
                     second |-> FALSE, base |-> 0, got |-> 0, since |-> version,
                     own |-> FALSE, result |-> "none"]
<1>1. /\ call \in Record
      /\ call.own = FALSE /\ call.since = version /\ call.base = 0
      /\ call.stage = "discovering"
  BY Numbers DEF Record, CallRecord, Stage
<1>2. manifest[k] \in 0..MaxVersion
  BY DEF TypeOK, ClientTypeOK
<1>3. 0 \in 0..MaxVersion /\ version \in Nat
  BY Numbers
<1>4. Begin(k, method) = call \/ Begin(k, method) = Resolve(call, manifest[k])
        \/ Begin(k, method) = Ask(call, 0)
  BY DEF Begin
<1>. HIDE DEF call
<1>5. Begin(k, method) \in Record /\ Fresh(Begin(k, method))
  <2>1. CASE Begin(k, method) = call
    BY <2>1, <1>1, <1>3 DEF Fresh
  <2>2. CASE Begin(k, method) = Resolve(call, manifest[k])
    <3>1. Follows(call, manifest[k], Resolve(call, manifest[k]))
      BY <1>1, <1>2, ResolveFollows
    <3>. QED  BY <2>2, <3>1, <1>1, <1>3 DEF Follows, Fresh
  <2>3. CASE Begin(k, method) = Ask(call, 0)
    <3>1. Follows(call, 0, Ask(call, 0))
      BY <1>1, <1>3, AskFollows
    <3>2. Ask(call, 0).stage = "asked"
      BY <1>1 DEF Ask, Record, CallRecord
    <3>. QED  BY <2>3, <3>1, <3>2, <1>1, <1>3 DEF Follows, Fresh
  <2>. QED  BY <1>4, <2>1, <2>2, <2>3
<1>. QED  BY <1>5 DEF Start, Set, Sets, TypeOK, ClientTypeOK

(* A call that has its address keeps it. *)
LEMMA LaterStages ==
    ASSUME NEW call \in Record, Fresh(call), NEW next \in Record,
           next.own = call.own, next.since = call.since, next.base = call.base,
           next.stage \in {"asked", "body", "done"}
    PROVE  Fresh(next)
BY DEF Fresh

LEMMA CallStepSets ==
    ASSUME TypeOK, AllFresh, NEW c \in Call,
           CallStep(c) \/ RawAnswers(c) \/ DnsAnswers(c)
    PROVE  \E next \in Record : Fresh(next) /\ Sets(c, next)
<1>. DEFINE call == calls[c]
<1>1. call # NoCall
  BY DEF CallStep, ManifestServed, Discovered, DiscoveryFails, Answers, Aborts,
         BodyRead, RawAnswers, DnsAnswers, At
<1>2. call \in Record /\ Fresh(call)
  BY <1>1 DEF TypeOK, ClientTypeOK, AllFresh, Record
<1>3. /\ version \in Nat /\ version \in 0..MaxVersion /\ version \in Version
      /\ call.got \in 0..MaxVersion /\ call.client \in Client
      /\ call.base \in 0..MaxVersion /\ call.since \in Nat \ {0} /\ call.got \in Nat
      /\ manifest \in [Client -> 0..MaxVersion]
  BY <1>2, Numbers, CallNumbers
<1>4. ASSUME NEW result \in {"value", "no content", "no route", "error"},
             Set(c, Done(call, result)), UNCHANGED <<version, manifest>>
      PROVE  \E next \in Record : Fresh(next) /\ Sets(c, next)
  <2>1. /\ Done(call, result) \in Record
        /\ Done(call, result).own = call.own /\ Done(call, result).since = call.since
        /\ Done(call, result).base = call.base /\ Done(call, result).stage = "done"
    BY <1>2 DEF Done, Record, CallRecord, Stage
  <2>2. Fresh(Done(call, result))
    BY <2>1, <1>2, LaterStages
  <2>. QED  BY <2>1, <2>2, <1>3, <1>4 DEF Set, Sets
<1>5. ASSUME Set(c, [call EXCEPT !.stage = "body"]), UNCHANGED <<version, manifest>>
      PROVE  \E next \in Record : Fresh(next) /\ Sets(c, next)
  <2>. DEFINE next == [call EXCEPT !.stage = "body"]
  <2>1. /\ next \in Record
        /\ next.own = call.own /\ next.since = call.since
        /\ next.base = call.base /\ next.stage = "body"
    BY <1>2 DEF Record, CallRecord, Stage
  <2>2. Sets(c, next)
    BY <1>3, <1>5 DEF Set, Sets
  <2>. HIDE DEF next
  <2>3. Fresh(next)
    BY <2>1, <1>2, LaterStages
  <2>. QED  BY <2>1, <2>2, <2>3
<1>6. CASE ManifestServed(c)
  <2>. DEFINE next == [call EXCEPT !.stage = "manifest", !.got = version]
  <2>1. call.stage = "discovering"
    BY <1>6 DEF ManifestServed, At
  <2>2. /\ next \in Record
        /\ next.own = call.own /\ next.since = call.since
        /\ next.base = call.base /\ next.stage = "manifest" /\ next.got = version
    BY <1>2, <1>3 DEF Record, CallRecord, Stage
  <2>3. Sets(c, next)
    BY <1>3, <1>6 DEF ManifestServed, Set, Sets
  <2>. HIDE DEF next
  <2>4. Fresh(next)
    BY <2>1, <2>2, <1>2, <1>3 DEF Fresh
  <2>. QED  BY <2>2, <2>3, <2>4
<1>7. CASE Discovered(c)
  <2>. DEFINE mine == [call EXCEPT !.own = TRUE]
              next == IF call.method.by = "discovery"
                      THEN [Done(mine, "value") EXCEPT !.base = call.got]
                      ELSE Resolve(mine, call.got)
  <2>1. call.stage = "manifest"
    BY <1>7 DEF Discovered, At
  <2>2. call.got >= call.since /\ call.base = 0 /\ call.got # 0
    BY <2>1, <1>2, <1>3 DEF Fresh
  <2>3. /\ mine \in Record
        /\ mine.own = TRUE /\ mine.since = call.since /\ mine.base = 0
        /\ mine.method = call.method /\ mine.client = call.client /\ mine.got = call.got
    BY <1>2, <2>2 DEF Record, CallRecord
  <2>4. Sets(c, next)
    BY <1>3, <1>7 DEF Discovered, Cached, Set, Sets
  <2>. HIDE DEF mine
  <2>5. CASE call.method.by = "discovery"
    <3>1. /\ next \in Record
          /\ next.own = TRUE /\ next.since = call.since
          /\ next.base = call.got /\ next.stage = "done"
      BY <2>3, <2>5, <1>3 DEF Done, Record, CallRecord, Stage
    <3>. HIDE DEF next
    <3>2. Fresh(next)
      BY <3>1, <2>2, <1>2 DEF Fresh
    <3>. QED  BY <3>1, <3>2, <2>4
  <2>6. CASE call.method.by # "discovery"
    <3>1. next = Resolve(mine, call.got)
      BY <2>6
    <3>2. Follows(mine, call.got, next)
      BY <3>1, <2>3, <1>3, ResolveFollows
    <3>. HIDE DEF next
    <3>3. Fresh(next)
      BY <3>2, <2>2, <2>3, <1>2 DEF Follows, Fresh
    <3>. QED  BY <3>2, <3>3, <2>4 DEF Follows
  <2>. QED  BY <2>5, <2>6
<1>8. CASE DiscoveryFails(c)
  <2>1. CASE call.method.by = "discovery"
    BY <2>1, <1>8, <1>4 DEF DiscoveryFails
  <2>2. CASE call.method.by # "discovery"
    <3>. DEFINE v == manifest[call.client]
                next == Otherwise(call, v, "undiscovered")
    <3>1. v \in 0..MaxVersion
      BY <1>3
    <3>2. Sets(c, next)
      BY <2>2, <1>3, <1>8 DEF DiscoveryFails, Set, Sets
    <3>3. call.own = FALSE /\ call.base = 0
      BY <1>2, <1>8 DEF DiscoveryFails, At, Fresh, Record, CallRecord
    <3>. HIDE DEF v
    <3>4. Follows(call, v, next)
      BY <3>1, <1>2, OtherwiseFollows
    <3>. HIDE DEF next
    <3>5. Fresh(next)
      BY <3>3, <3>4, <1>2 DEF Follows, Fresh
    <3>. QED  BY <3>2, <3>4, <3>5 DEF Follows
  <2>. QED  BY <2>1, <2>2
<1>9. CASE Answers(c)
  BY <1>9, <1>4, <1>5 DEF Answers
<1>10. CASE Aborts(c)
  BY <1>10, <1>4 DEF Aborts
<1>11. CASE BodyRead(c)
  BY <1>11, <1>4 DEF BodyRead
<1>12. CASE RawAnswers(c)
  BY <1>12, <1>5 DEF RawAnswers
<1>13. CASE DnsAnswers(c)
  BY <1>13, <1>4 DEF DnsAnswers
<1>. QED  BY <1>6, <1>7, <1>8, <1>9, <1>10, <1>11, <1>12, <1>13 DEF CallStep

LEMMA MoveKeeps ==
    ASSUME TypeOK, AllFresh, NodeMoves
    PROVE  ClientTypeOK(Methods \cup Tools)' /\ AllFresh'
<1>1. version \in Nat /\ version' = version + 1 /\ version' \in Version
  BY DiscoveryAssumption DEF TypeOK, ClientTypeOK, Version, NodeMoves
<1>2. ClientTypeOK(Methods \cup Tools)'
  BY <1>1 DEF TypeOK, ClientTypeOK, NodeMoves, CallRecord, Version
<1>3. ASSUME NEW c \in Call, calls[c] # NoCall
      PROVE  Fresh(calls[c])'
  <2>1. Fresh(calls[c]) /\ calls[c].since \in Nat
    <3>1. calls[c] \in Record
      BY <1>3 DEF TypeOK, ClientTypeOK, Record
    <3>. QED  BY <1>3, <3>1, CallNumbers DEF AllFresh
  <2>. QED  BY <2>1, <1>1 DEF Fresh, NodeMoves
<1>4. AllFresh'
  BY <1>3 DEF AllFresh, NodeMoves
<1>. QED  BY <1>2, <1>4

-----------------------------------------------------------------------------
(* Sessions. *)

Sessions ==
    /\ SessionsTrackStreams
    /\ \A i \in Id : active[i] # None => streams[active[i]] # None
    /\ \A c \in Call :
          /\ caller[c] # None => streams[caller[c]] # None
          /\ written[c] # "no" => caller[c] # None
          /\ calls[c] = NoCall => written[c] = "no"

IInv == TypeOK /\ AllFresh /\ Sessions

(* A stream is never None, and a call in a slot is never the empty one. *)
LEMMA Distinct ==
    /\ \A s \in Stream : s # None
    /\ \A r \in StreamRecord : r # None
    /\ \A next \in Record : next # NoCall
BY McpAssumption DEF Record

LEMMA InitInv == Init => IInv
<1>. SUFFICES ASSUME Init PROVE IInv
  OBVIOUS
<1>1. TypeOK
  BY DiscoveryAssumption DEF Init, ClientInit, TypeOK, ClientTypeOK, Version
<1>2. AllFresh
  BY DEF Init, ClientInit, AllFresh
<1>3. Sessions
  BY DEF Init, ClientInit, Sessions, SessionsTrackStreams
<1>. QED  BY <1>1, <1>2, <1>3 DEF IInv

LEMMA ConnectKeeps ==
    ASSUME IInv, NEW s \in Stream, NEW i \in Id, Connect(s, i)
    PROVE  IInv'
<1>1. /\ TypeOK /\ AllFresh /\ Sessions
      /\ s # None
      /\ [id |-> i, open |-> TRUE] \in StreamRecord
      /\ [id |-> i, open |-> TRUE] # None
  BY Distinct DEF IInv, StreamRecord
<1>2. TypeOK'
  BY <1>1 DEF Connect, TypeOK, ClientTypeOK
<1>3. AllFresh'
  BY <1>1 DEF Connect, AllFresh, Fresh
<1>4. /\ streams' = [streams EXCEPT ![s] = [id |-> i, open |-> TRUE]]
      /\ active' = [active EXCEPT ![i] = s]
      /\ streams[s] = None
      /\ streams \in [Stream -> StreamRecord \cup {None}]
      /\ active \in [Id -> Stream \cup {None}]
      /\ caller \in [Call -> Stream \cup {None}]
  BY <1>1 DEF Connect, TypeOK
<1>5. \A j \in Id : active'[j] # None =>
         streams'[active'[j]] # None /\ streams'[active'[j]].open /\ streams'[active'[j]].id = j
  BY <1>1, <1>4 DEF Sessions, SessionsTrackStreams
<1>6. \A t \in Stream :
         /\ streams'[t] # None
         /\ streams'[t].open
         /\ \A u \in Stream \ {t} : streams'[u] # None => streams'[u].id # streams'[t].id
         => active'[streams'[t].id] = t
  <2>. SUFFICES ASSUME NEW t \in Stream, streams'[t] # None, streams'[t].open,
                       \A u \in Stream \ {t} : streams'[u] # None => streams'[u].id # streams'[t].id
                PROVE  active'[streams'[t].id] = t
    OBVIOUS
  <2>1. CASE t = s
    BY <2>1, <1>4
  <2>2. CASE t # s
    <3>1. streams'[t] = streams[t] /\ streams[t].id # i /\ streams[t].id \in Id
      BY <2>2, <1>1, <1>4 DEF StreamRecord
    <3>2. \A u \in Stream \ {t} : streams[u] # None => streams[u].id # streams[t].id
      BY <3>1, <1>4
    <3>3. active[streams[t].id] = t
      BY <3>1, <3>2, <1>1 DEF Sessions, SessionsTrackStreams
    <3>. QED  BY <3>1, <3>3, <1>4
  <2>. QED  BY <2>1, <2>2
<1>7. \A c \in Call :
         /\ written'[c] = "lost" => ~streams'[caller'[c]].open
         /\ caller'[c] # None => streams'[caller'[c]] # None
         /\ written'[c] # "no" => caller'[c] # None
         /\ calls'[c] = NoCall => written'[c] = "no"
  BY <1>1, <1>4 DEF Connect, Sessions, SessionsTrackStreams
<1>8. Sessions'
  BY <1>5, <1>6, <1>7 DEF Sessions, SessionsTrackStreams
<1>. QED  BY <1>2, <1>3, <1>8 DEF IInv

LEMMA CloseKeeps ==
    ASSUME IInv, NEW s \in Stream, Close(s)
    PROVE  IInv'
<1>1. /\ TypeOK /\ AllFresh /\ Sessions
      /\ s # None /\ streams[s] # None /\ streams[s] \in StreamRecord
  BY Distinct DEF IInv, Close, TypeOK
<1>2. /\ [streams[s] EXCEPT !.open = FALSE] \in StreamRecord
      /\ [streams[s] EXCEPT !.open = FALSE].id = streams[s].id
      /\ [streams[s] EXCEPT !.open = FALSE].open = FALSE
      /\ [streams[s] EXCEPT !.open = FALSE] # None
      /\ streams[s].id \in Id
  BY <1>1, Distinct DEF StreamRecord
<1>3. /\ streams' = [streams EXCEPT ![s] = [streams[s] EXCEPT !.open = FALSE]]
      /\ active' = [active EXCEPT ![streams[s].id] = None]
      /\ streams \in [Stream -> StreamRecord \cup {None}]
      /\ active \in [Id -> Stream \cup {None}]
      /\ caller \in [Call -> Stream \cup {None}]
  BY <1>1 DEF Close, TypeOK
<1>4. TypeOK'
  BY <1>1, <1>2, <1>3 DEF Close, TypeOK, ClientTypeOK
<1>5. AllFresh'
  BY <1>1 DEF Close, AllFresh, Fresh
<1>6. /\ streams'[s].id = streams[s].id
      /\ streams'[s].open = FALSE
      /\ streams'[s] # None
      /\ \A t \in Stream \ {s} : streams'[t] = streams[t]
  BY <1>2, <1>3
<1>7. \A j \in Id : active'[j] # None =>
         streams'[active'[j]] # None /\ streams'[active'[j]].open /\ streams'[active'[j]].id = j
  <2>. SUFFICES ASSUME NEW j \in Id, active'[j] # None
                PROVE  /\ streams'[active'[j]] # None
                       /\ streams'[active'[j]].open
                       /\ streams'[active'[j]].id = j
    OBVIOUS
  <2>1. active'[j] = active[j] /\ j # streams[s].id /\ active[j] \in Stream
    BY <1>2, <1>3
  <2>2. /\ streams[active[j]] # None
        /\ streams[active[j]].open
        /\ streams[active[j]].id = j
    BY <2>1, <1>1 DEF Sessions, SessionsTrackStreams
  <2>. QED  BY <2>1, <2>2, <1>6
<1>8. \A t \in Stream :
         /\ streams'[t] # None
         /\ streams'[t].open
         /\ \A u \in Stream \ {t} : streams'[u] # None => streams'[u].id # streams'[t].id
         => active'[streams'[t].id] = t
  <2>. SUFFICES ASSUME NEW t \in Stream, streams'[t] # None, streams'[t].open,
                       \A u \in Stream \ {t} : streams'[u] # None => streams'[u].id # streams'[t].id
                PROVE  active'[streams'[t].id] = t
    OBVIOUS
  <2>1. t # s /\ streams'[t] = streams[t]
    BY <1>6
  <2>2. streams[t].id # streams[s].id
    BY <2>1, <1>6
  <2>3. \A u \in Stream \ {t} : streams[u] # None => streams[u].id # streams[t].id
    BY <2>1, <2>2, <1>6
  <2>4. active[streams[t].id] = t /\ streams[t].id \in Id
    BY <2>1, <2>3, <1>1, <1>3 DEF Sessions, SessionsTrackStreams, StreamRecord
  <2>. QED  BY <2>1, <2>2, <2>4, <1>3
<1>9. \A c \in Call :
         /\ written'[c] = "lost" => ~streams'[caller'[c]].open
         /\ caller'[c] # None => streams'[caller'[c]] # None
         /\ written'[c] # "no" => caller'[c] # None
         /\ calls'[c] = NoCall => written'[c] = "no"
  BY <1>1, <1>3, <1>6 DEF Close, Sessions, SessionsTrackStreams
<1>10. Sessions'
  BY <1>7, <1>8, <1>9 DEF Sessions, SessionsTrackStreams
<1>. QED  BY <1>4, <1>5, <1>10 DEF IInv

(* A step of a call that leaves streams alone. *)
LEMMA SetKeepsInv ==
    ASSUME IInv, NEW c \in Call, NEW next \in Record, Fresh(next), Sets(c, next),
           UNCHANGED <<streams, active, caller, written>>
    PROVE  IInv'
<1>1. TypeOK /\ AllFresh /\ Sessions
  BY DEF IInv
<1>2. ClientTypeOK(Methods \cup Tools)' /\ AllFresh'
  BY <1>1, SetKeeps
<1>3. TypeOK'
  BY <1>1, <1>2 DEF TypeOK
<1>4. \A d \in Call : calls'[d] = NoCall => calls[d] = NoCall
  BY <1>1, Distinct DEF Sets, TypeOK, ClientTypeOK
<1>5. Sessions'
  BY <1>1, <1>4 DEF Sessions, SessionsTrackStreams
<1>. QED  BY <1>2, <1>3, <1>5 DEF IInv

LEMMA PostKeeps ==
    ASSUME IInv, NEW i \in Id, NEW c \in Call, NEW tool \in Called,
           PostMessage(i, c, tool)
    PROVE  IInv'
<1>1. TypeOK /\ AllFresh /\ Sessions /\ Mcp \in Client /\ tool \in Methods \cup Tools
  BY McpAssumption DEF IInv
<1>2. PICK next \in Record : Fresh(next) /\ Sets(c, next)
  BY <1>1, StartSets DEF PostMessage
<1>3. ClientTypeOK(Methods \cup Tools)' /\ AllFresh'
  BY <1>1, <1>2, SetKeeps
<1>4. /\ calls[c] = NoCall /\ active[i] \in Stream /\ active[i] # None
      /\ caller' = [caller EXCEPT ![c] = active[i]]
      /\ caller \in [Call -> Stream \cup {None}]
      /\ UNCHANGED <<streams, active, written>>
  BY <1>1 DEF PostMessage, Start, TypeOK
<1>5. TypeOK'
  BY <1>1, <1>3, <1>4 DEF TypeOK
<1>6. \A d \in Call : calls'[d] = NoCall => calls[d] = NoCall
  BY <1>1, <1>2, Distinct DEF Sets, TypeOK, ClientTypeOK
<1>7. written[c] = "no" /\ streams[active[i]] # None
  BY <1>1, <1>4 DEF Sessions
<1>8. \A d \in Call :
         /\ written'[d] = "lost" => ~streams'[caller'[d]].open
         /\ caller'[d] # None => streams'[caller'[d]] # None
         /\ written'[d] # "no" => caller'[d] # None
         /\ calls'[d] = NoCall => written'[d] = "no"
  BY <1>1, <1>4, <1>6, <1>7 DEF Sessions, SessionsTrackStreams
<1>9. Sessions'
  BY <1>1, <1>4, <1>8 DEF Sessions, SessionsTrackStreams
<1>. QED  BY <1>3, <1>5, <1>9 DEF IInv

LEMMA WriteKeeps ==
    ASSUME IInv, NEW c \in Call, Write(c)
    PROVE  IInv'
<1>1. TypeOK /\ AllFresh /\ Sessions
  BY DEF IInv
<1>2. TypeOK'
  BY <1>1 DEF Write, TypeOK, ClientTypeOK
<1>3. AllFresh'
  BY <1>1 DEF Write, AllFresh, Fresh
<1>4. written \in [Call -> {"no", "sent", "lost"}] /\ calls[c] # NoCall
  BY <1>1 DEF TypeOK, Write, At
<1>5. Sessions'
  BY <1>1, <1>4 DEF Write, Sessions, SessionsTrackStreams
<1>. QED  BY <1>2, <1>3, <1>5 DEF IInv

LEMMA NextInv == IInv /\ [Next]_mcpVars => IInv'
<1>. SUFFICES ASSUME IInv, [Next]_mcpVars PROVE IInv'
  OBVIOUS
<1>0. TypeOK /\ AllFresh /\ Sessions
  BY DEF IInv
<1>1. CASE Session
  BY <1>1, ConnectKeeps, CloseKeeps, PostKeeps DEF Session
<1>2. CASE Calling
  <2>1. PICK c \in Call :
           \/ \E k \in Client, method \in Direct : DirectCall(c, k, method)
           \/ CallStep(c) /\ UNCHANGED <<streams, active, caller, written>>
           \/ RawAnswers(c) \/ DnsAnswers(c) \/ Write(c)
    BY <1>2 DEF Calling
  <2>2. ASSUME NEW k \in Client, NEW method \in Direct, DirectCall(c, k, method)
        PROVE  IInv'
    <3>1. method \in Methods \cup Tools
      BY McpAssumption
    <3>2. PICK next \in Record : Fresh(next) /\ Sets(c, next)
      BY <1>0, <2>2, <3>1, StartSets DEF DirectCall
    <3>. QED  BY <2>2, <3>2, SetKeepsInv DEF DirectCall
  <2>3. CASE CallStep(c) /\ UNCHANGED <<streams, active, caller, written>>
    BY <1>0, <2>3, CallStepSets, SetKeepsInv
  <2>4. CASE RawAnswers(c)
    BY <1>0, <2>4, CallStepSets, SetKeepsInv DEF RawAnswers
  <2>5. CASE DnsAnswers(c)
    BY <1>0, <2>5, CallStepSets, SetKeepsInv DEF DnsAnswers
  <2>6. CASE Write(c)
    BY <2>6, WriteKeeps
  <2>. QED  BY <2>1, <2>2, <2>3, <2>4, <2>5, <2>6
<1>3. CASE Moving
  <2>1. ClientTypeOK(Methods \cup Tools)' /\ AllFresh'
    BY <1>0, <1>3, MoveKeeps DEF Moving
  <2>2. TypeOK'
    BY <1>0, <1>3, <2>1 DEF Moving, TypeOK
  <2>3. Sessions'
    BY <1>0, <1>3 DEF Moving, NodeMoves, Sessions, SessionsTrackStreams
  <2>. QED  BY <2>1, <2>2, <2>3 DEF IInv
<1>4. CASE UNCHANGED mcpVars
  BY <1>0, <1>4 DEF mcpVars, IInv, TypeOK, ClientTypeOK, AllFresh, Fresh,
                    Sessions, SessionsTrackStreams
<1>. QED  BY <1>1, <1>2, <1>3, <1>4 DEF Next

LEMMA EndpointInvariant == Spec => []IInv
BY InitInv, NextInv, PTL DEF Spec

-----------------------------------------------------------------------------
(* THEOREMS *)

(* The kept manifests, the calls, streams and sessions keep their types, for *)
(* any sequence of manifests (DuadpClient, createMcpRouter).               *)
THEOREM EndpointTypeCorrect == Spec => []TypeOK
<1>1. IInv => TypeOK
  BY DEF IInv
<1>. QED  BY <1>1, EndpointInvariant, PTL

(* However many discoveries of a client overlap, and whatever the node's    *)
(* manifest becomes meanwhile, a call that got one itself goes by one as    *)
(* new as the call (discover, getManifest).                                *)
THEOREM OwnDiscoveryFresh == Spec => []OwnDiscoveryIsFresh
<1>1. IInv => OwnDiscoveryIsFresh
  BY DEF IInv, AllFresh, Fresh, OwnDiscoveryIsFresh
<1>. QED  BY <1>1, EndpointInvariant, PTL

(* activeTransports and the open streams agree, for any streams and any     *)
(* coincidence of session ids; a result is lost only with its stream.      *)
THEOREM SessionsTracked == Spec => []SessionsTrackStreams
<1>1. IInv => SessionsTrackStreams
  BY DEF IInv, Sessions
<1>. QED  BY <1>1, EndpointInvariant, PTL
(* The methods of the client that the tools go through, and what is routed.  *)
Routed(tool) ==
    /\ tool.by = "manifest" => tool.endpoint \in ReferenceEndpoints \ {"health", "governance"}
    /\ <<tool.verb, tool.endpoint, tool.suffix>> \in Routes

LEMMA MethodFields ==
    ASSUME NEW name, NEW verb, NEW endpoint, NEW suffix
    PROVE  /\ Via(name, verb, endpoint, suffix).name = name
           /\ Via(name, verb, endpoint, suffix).by = "manifest"
           /\ Via(name, verb, endpoint, suffix).verb = verb
           /\ Via(name, verb, endpoint, suffix).endpoint = endpoint
           /\ Via(name, verb, endpoint, suffix).suffix = suffix
           /\ OrDefault(Via(name, verb, endpoint, suffix)).name = name
           /\ OrGovernance(Via(name, verb, endpoint, suffix)).name = name
           /\ Fixed(name, verb, endpoint, suffix).name = name
BY DEF Via, OrDefault, OrGovernance, Fixed

LEMMA ClientToolsRouted == \A tool \in ClientTools : Routed(tool)
<1>. DEFINE names == {"discover", "listAgents", "listSkills", "listTools", "search", "publish",
                      "validate", "getFederation"}
<1>1. \A m \in SkillMethods : m.name \in names => m = Via("listSkills", "GET", "skills", "-")
  BY MethodFields DEF SkillMethods
<1>2. \A m \in AgentMethods : m.name \in names => m = Via("listAgents", "GET", "agents", "-")
  BY MethodFields DEF AgentMethods
<1>3. \A m \in ToolMethods : m.name \in names => m = Via("listTools", "GET", "tools", "-")
  BY MethodFields DEF ToolMethods
<1>4. \A m \in NodeMethods : m.name \in names =>
        m \in {Via("publish", "POST", "publish", "-"), Via("getFederation", "GET", "federation", "-"),
              Via("validate", "POST", "validate", "-")}
  BY MethodFields DEF NodeMethods
<1>5. \A m \in GovernanceMethods : m.name \notin names
  BY MethodFields DEF GovernanceMethods
<1>6. \A m \in LookupMethods : m.name \in names => m = Via("search", "GET", "search", "-")
  BY MethodFields DEF LookupMethods
<1>7. \A m \in ExecutionMethods : m.name \notin names
  BY MethodFields DEF ExecutionMethods
<1>8. \A m \in DiscoveryMethods : m.name \in names => Routed(m)
  BY DEF DiscoveryMethods, Via, Fixed, Routed, Routes, NodeRoutes
<1>9. \A m \in {Via("listSkills", "GET", "skills", "-"), Via("listAgents", "GET", "agents", "-"),
                Via("listTools", "GET", "tools", "-"), Via("publish", "POST", "publish", "-"),
                Via("getFederation", "GET", "federation", "-"), Via("search", "GET", "search", "-"),
                Via("validate", "POST", "validate", "-")} : Routed(m)
  BY MethodFields DEF Routed, ReferenceEndpoints, Routes, CatalogRoutes, NodeRoutes
<1>. QED  BY <1>1, <1>2, <1>3, <1>4, <1>5, <1>6, <1>7, <1>8, <1>9 DEF ClientTools, Methods

LEMMA OwnToolsRouted == \A tool \in GovernanceTools \cup TrustTools : Routed(tool)
<1>1. \A tool \in GovernanceTools : Routed(tool)
  BY DEF GovernanceTools, Raw, Via, Routed, Routes, GovernanceRoutes
<1>2. \A tool \in TrustTools : Routed(tool)
  BY DEF TrustTools, Raw, Via, Routed, Routes, GovernanceRoutes, NodeRoutes
<1>. QED  BY <1>1, <1>2

(* Every tool asks for a path that is served, whatever manifests the node    *)
(* has as long as they name the endpoints that index.ts writes down, but    *)
(* for the two that the client can do without.                             *)
THEOREM ToolsReach ==
    ASSUME \A v \in Version : ReferenceEndpoints \ {"health", "governance"} \subseteq Exposed[v]
    PROVE  Spec => []ToolsReachRoutes
<1>1. IInv => ToolsReachRoutes
  <2>1. SUFFICES ASSUME IInv PROVE ToolsReachRoutes
    OBVIOUS
  <2>2. Mcp \in Client /\ manifest[Mcp] \in 0..MaxVersion
    BY <2>1, McpAssumption DEF IInv, TypeOK, ClientTypeOK
  <2>3. manifest[Mcp] # 0 => manifest[Mcp] \in Version
    BY <2>2, DiscoveryAssumption DEF Version
  <2>. QED  BY <2>3, ClientToolsRouted, OwnToolsRouted DEF Routed, ToolsReachRoutes
<1>. QED  BY <1>1, EndpointInvariant, PTL

-----------------------------------------------------------------------------
(* The circuit breaker, for any threshold, backoff and number of            *)
(* overlapping requests.                                                   *)

(* The count and the requests under way have to be bounded together: the    *)
(* count alone is not inductive, since every late failure raises it.        *)
BreakerInv == BreakerTypeOK /\ OpenMeansTripped /\ OverrunBounded

LEMMA BreakerInvInit == BreakerInit => BreakerInv
BY BreakerAssumption DEF BreakerInit, BreakerInv, BreakerTypeOK, OpenMeansTripped, OverrunBounded

LEMMA BreakerStep == BreakerInv /\ [BreakerNext]_breakerVars => BreakerInv'
<1> SUFFICES ASSUME BreakerInv, [BreakerNext]_breakerVars PROVE BreakerInv'
  OBVIOUS
<1>a. MaxFailures \in Nat \ {0} /\ ResetTimeout \in Nat /\ MaxInFlight \in Nat \ {0}
  BY BreakerAssumption
<1>f. FreshState \in State /\ FreshState # NoState /\ NoState \notin State
  BY BreakerAssumption DEF FreshState, State, PeerStatus
<1>t. BreakerTypeOK /\ OpenMeansTripped /\ OverrunBounded
  BY DEF BreakerInv
<1>1. ASSUME NEW u \in Url, CanRequest(u) PROVE BreakerInv'
  <2>1. BreakerTypeOK'
    BY <1>1, <1>a, <1>f, <1>t DEF CanRequest, Send, BreakerTypeOK
  <2>2. OpenMeansTripped'
    BY <1>1, <1>a, <1>t DEF CanRequest, Send, BreakerTypeOK, OpenMeansTripped, Open, FreshState, State, PeerStatus
  <2>3. OverrunBounded'
    <3> SUFFICES ASSUME NEW v \in Url, states'[v] # NoState
                 PROVE states'[v].failures + inFlight'[v] < MaxFailures + MaxInFlight
      BY DEF OverrunBounded
    <3>1. CASE v # u
      BY <3>1, <1>1, <1>t DEF CanRequest, Send, BreakerTypeOK, OverrunBounded
    <3>2. CASE v = u
      <4>1. states'[u].failures \in Nat /\ states'[u].failures < MaxFailures
        BY <3>2, <1>1, <1>a, <1>t
        DEF CanRequest, BreakerTypeOK, OpenMeansTripped, Open, FreshState, State
      <4>2. inFlight'[u] \in Nat /\ inFlight'[u] <= MaxInFlight
        BY <2>1, <1>a DEF BreakerTypeOK
      <4>. QED
        BY <3>2, <4>1, <4>2, <1>a
    <3>. QED
      BY <3>1, <3>2
  <2>. QED
    BY <2>1, <2>2, <2>3 DEF BreakerInv
<1>2. ASSUME NEW u \in Url, RecordSuccess(u) PROVE BreakerInv'
  <2>1. BreakerTypeOK'
    BY <1>2, <1>a, <1>f, <1>t DEF RecordSuccess, Settle, BreakerTypeOK
  <2>2. OpenMeansTripped'
    BY <1>2, <1>a, <1>t DEF RecordSuccess, BreakerTypeOK, OpenMeansTripped, Open, FreshState
  <2>3. OverrunBounded'
    BY <1>2, <1>a, <1>t DEF RecordSuccess, Settle, BreakerTypeOK, OverrunBounded, FreshState
  <2>. QED
    BY <2>1, <2>2, <2>3 DEF BreakerInv
<1>3. ASSUME NEW u \in Url, RecordFailure(u) PROVE BreakerInv'
  <2> DEFINE old   == IF states[u] = NoState THEN FreshState ELSE states[u]
             count == old.failures + 1
             new   == [failures |-> count,
                       status   |-> IF count >= MaxFailures THEN "degraded" ELSE old.status]
  <2>1. old \in State
    BY <1>f, <1>t DEF BreakerTypeOK
  <2>2. states' = [states EXCEPT ![u] = new]
    BY <1>3 DEF RecordFailure
  <2>3. new \in State /\ new # NoState
    BY <2>1, <1>f DEF State, PeerStatus
  <2>4. BreakerTypeOK'
    BY <1>3, <2>2, <2>3, <1>a, <1>t DEF RecordFailure, Settle, BreakerTypeOK
  <2>5. old.status # "unreachable" /\ (old.status = "degraded" <=> old.failures >= MaxFailures)
    BY <1>a, <1>t DEF OpenMeansTripped, Open, FreshState
  <2>6. OpenMeansTripped'
    <3> SUFFICES ASSUME NEW v \in Url, states'[v] # NoState
                 PROVE /\ (Open(v) <=> states[v].failures >= MaxFailures)'
                       /\ states'[v].status # "unreachable"
      BY DEF OpenMeansTripped
    <3>1. CASE v # u
      BY <3>1, <2>2, <1>t DEF BreakerTypeOK, OpenMeansTripped, Open
    <3>2. CASE v = u
      BY <3>2, <2>1, <2>2, <2>3, <2>5, <1>a, <1>t DEF BreakerTypeOK, Open, State
    <3>. QED
      BY <3>1, <3>2
  <2>7. OverrunBounded'
    <3>1. old.failures + inFlight[u] < MaxFailures + MaxInFlight
      BY <1>a, <1>t DEF OverrunBounded, BreakerTypeOK, FreshState
    <3>2. inFlight' = [inFlight EXCEPT ![u] = @ - 1]
      BY <1>3 DEF RecordFailure, Settle
    <3>. HIDE DEF old
    <3>3. new.failures + inFlight'[u] < MaxFailures + MaxInFlight
      BY <2>1, <3>1, <3>2, <1>a, <1>t DEF BreakerTypeOK, State
    <3>4. states'[u] = new
      BY <2>2, <1>t DEF BreakerTypeOK
    <3>5. \A v \in Url \ {u} : states'[v] = states[v] /\ inFlight'[v] = inFlight[v]
      BY <2>2, <3>2, <1>t DEF BreakerTypeOK
    <3>. QED
      BY <3>3, <3>4, <3>5, <1>t DEF OverrunBounded
  <2>. QED
    BY <2>4, <2>6, <2>7 DEF BreakerInv
<1>4. ASSUME NEW u \in Url, Forget(u) PROVE BreakerInv'
  BY <1>4, <1>a, <1>t
  DEF Forget, Settle, BreakerInv, BreakerTypeOK, OpenMeansTripped, OverrunBounded, Open, State
<1>5. ASSUME NEW u \in Url, Reset(u) PROVE BreakerInv'
  BY <1>5, <1>t DEF Reset, BreakerInv, BreakerTypeOK, OpenMeansTripped, OverrunBounded, Open
<1>6. CASE Tick
  BY <1>6, <1>a, <1>t DEF Tick, BreakerInv, BreakerTypeOK, OpenMeansTripped, OverrunBounded, Open
<1>7. CASE UNCHANGED breakerVars
  BY <1>7, <1>t DEF breakerVars, BreakerInv, BreakerTypeOK, OpenMeansTripped, OverrunBounded, Open
<1>. QED
  BY <1>1, <1>2, <1>3, <1>4, <1>5, <1>6, <1>7 DEF BreakerNext

(* Every entry of the map keeps its shape, whatever order outcomes come in. *)
THEOREM BreakerTypeCorrect == BreakerSpec => []BreakerTypeOK
BY BreakerInvInit, BreakerStep, PTL DEF BreakerSpec, BreakerInv

(* A circuit is open exactly when the threshold is reached.                 *)
THEOREM BreakerTrips == BreakerSpec => []OpenMeansTripped
BY BreakerInvInit, BreakerStep, PTL DEF BreakerSpec, BreakerInv

(* The overrun of an open circuit is bounded by what was on its way.        *)
THEOREM BreakerOverrun == BreakerSpec => []OverrunBounded
BY BreakerInvInit, BreakerStep, PTL DEF BreakerSpec, BreakerInv

(* One step from a reachable state closes no circuit by failures alone.     *)
LEMMA StaysOpenStep ==
  ASSUME BreakerInv, [BreakerNext]_breakerVars, NEW u \in Url,
         Open(u), ~ BackoffOver(u), ~ Open(u)'
  PROVE  \/ states'[u] = NoState
         \/ states'[u] = FreshState /\ inFlight'[u] < inFlight[u]
<1>a. MaxFailures \in Nat \ {0}
  BY BreakerAssumption
<1>t. BreakerTypeOK /\ OpenMeansTripped
  BY DEF BreakerInv
<1>1. ASSUME NEW v \in Url, CanRequest(v) PROVE FALSE
  BY <1>1, <1>t DEF CanRequest, Open, BackoffOver, BreakerTypeOK
<1>2. ASSUME NEW v \in Url, RecordSuccess(v)
      PROVE  states'[u] = FreshState /\ inFlight'[u] < inFlight[u]
  BY <1>2, <1>t DEF RecordSuccess, Settle, Open, BreakerTypeOK
<1>3. ASSUME NEW v \in Url, RecordFailure(v) PROVE FALSE
  <2>1. v = u
    BY <1>3, <1>t DEF RecordFailure, Open, BreakerTypeOK
  <2>2. states[u] \in State /\ states[u].failures >= MaxFailures
    BY <1>t DEF Open, BreakerTypeOK, OpenMeansTripped
  <2>3. states'[u] = [failures |-> states[u].failures + 1, status |-> "degraded"]
    BY <1>3, <2>1, <2>2, <1>a, <1>t DEF RecordFailure, Open, BreakerTypeOK, State
  <2>4. states'[u] # NoState
    BY <2>2, <2>3, BreakerAssumption DEF State
  <2>. QED
    BY <2>3, <2>4 DEF Open
<1>4. ASSUME NEW v \in Url, Reset(v) PROVE states'[u] = NoState
  BY <1>4, <1>t DEF Reset, Open, BreakerTypeOK
<1>5. ASSUME UNCHANGED states PROVE FALSE
  BY <1>5 DEF Open
<1>. QED
  BY <1>1, <1>2, <1>3, <1>4, <1>5 DEF BreakerNext, Forget, Tick, breakerVars

(* An open circuit closes early only by a success on its way or a reset.    *)
THEOREM BreakerStaysOpen == BreakerSpec => StaysOpen
<1>1. BreakerInv /\ [BreakerNext]_breakerVars =>
        [\A u \in Url : Open(u) /\ ~ BackoffOver(u) /\ ~ Open(u)' =>
           \/ states'[u] = NoState
           \/ states'[u] = FreshState /\ inFlight'[u] < inFlight[u]]_breakerVars
  BY StaysOpenStep
<1>. QED
  BY <1>1, BreakerInvInit, BreakerStep, PTL DEF BreakerSpec, StaysOpen
=============================================================================
