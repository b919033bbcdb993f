-------------------------- MODULE RecordStoreProofs --------------------------
(***************************************************************************)
(* Theorems about the records of RecordStore, for any names, agents, seed   *)
(* and size of page: what the audit log says of the tables, and what a      *)
(* client misses that reads page after page while they change.             *)
(***************************************************************************)
EXTENDS RecordStore, FiniteSetTheorems, SequenceTheorems, WellFoundedInduction, TLAPS

(* Where a reader is: what it is owed is there still, what it has not seen   *)
(* of that comes on a page it has not read, and nothing is missing once it  *)
(* has finished.                                                           *)
Ahead(r) ==
    /\ r.owed \subseteq Listing(r.table, r.of)
    /\ \A i \in r.owed \ r.seen : (r.page - 1) * Limit <= Offset(r.table, r.of, i)
    /\ r.finished => r.owed \subseteq r.seen

ReaderAhead == reader # NoReader /\ reader.calm => Ahead(reader)

IInv ==
    /\ TypeOK
    /\ AuditTellsState
    /\ ReaderAhead

-----------------------------------------------------------------------------
(* Numbers and sequences. *)

(* A nonempty set of natural numbers has a least member. *)
LEMMA LeastMember ==
    ASSUME NEW S, S \subseteq Nat, S # {}
    PROVE  \E i \in S : \A j \in S : i <= j
<1>1. PICK i \in S : \A j \in S : ~ (<<j, i>> \in OpToRel(<, Nat))
  BY NatLessThanWellFounded, WFMin
<1>2. ASSUME NEW j \in S PROVE i <= j
  <2>1. ~ (j < i)
    BY <1>1 DEF OpToRel
  <2>. QED
    BY <2>1
<1>. QED
  BY <1>1, <1>2

(* Max is the greatest member of a bounded set that is not empty. *)
LEMMA MaxIsGreatest ==
    ASSUME NEW n \in Nat, NEW S, S \subseteq 0..n, S # {}
    PROVE  Max(S) \in S /\ \A j \in S : j <= Max(S)
<1> DEFINE below == {n - i : i \in S}
<1>1. below \subseteq Nat /\ below # {}
  <2>1. \A i \in S : n - i \in Nat
    OBVIOUS
  <2>. QED
    BY <2>1
<1>2. PICK b \in below : \A c \in below : b <= c
  <2>. HIDE DEF below
  <2>. QED
    BY <1>1, LeastMember
<1>3. PICK i \in S : b = n - i
  BY <1>2
<1>4. \A j \in S : i >= j
  BY <1>2, <1>3
<1>. QED
  BY <1>4 DEF Max

(* The positions of a sequence that got one more row. *)
LEMMA GrownSeq ==
    ASSUME NEW R, NEW rows \in Seq(R), NEW row \in R
    PROVE  /\ Append(rows, row) \in Seq(R)
           /\ Len(rows) \in Nat
           /\ Len(Append(rows, row)) = Len(rows) + 1
           /\ DOMAIN rows = 1..Len(rows)
           /\ DOMAIN Append(rows, row) = DOMAIN rows \cup {Len(rows) + 1}
           /\ Len(rows) + 1 \notin DOMAIN rows
           /\ \A i \in DOMAIN rows : Append(rows, row)[i] = rows[i]
           /\ Append(rows, row)[Len(rows) + 1] = row
<1>1. /\ Append(rows, row) \in Seq(R)
      /\ Len(Append(rows, row)) = Len(rows) + 1
      /\ \A i \in 1..Len(rows) : Append(rows, row)[i] = rows[i]
      /\ Append(rows, row)[Len(rows) + 1] = row
  BY AppendProperties
<1>2. /\ Len(rows) \in Nat
      /\ DOMAIN rows = 1..Len(rows)
      /\ DOMAIN Append(rows, row) = 1..Len(Append(rows, row))
  BY <1>1, LenProperties
<1>. QED
  BY <1>1, <1>2

-----------------------------------------------------------------------------
(* TYPES *)

LEMMA ReaderFields ==
    ASSUME NEW r \in Reader
    PROVE  /\ r.table \in Table
           /\ r.of \in Kind \cup Gaid
           /\ r.page \in Nat \ {0}
           /\ r.seen \subseteq Name \cup Nat
           /\ r.owed \subseteq Name \cup Nat
           /\ r.calm \in BOOLEAN
           /\ r.finished \in BOOLEAN
BY DEF Reader

(* What the audit of a write leaves is of its type. *)
LEMMA AuditTyped ==
    ASSUME TypeOK, NEW event \in Event, NEW subject \in Name \cup Gaid,
           \/ AuditRow(event, subject) /\ event \in Logged
           \/ AuditResource(event, subject) /\ subject \in Name
    PROVE  /\ audit' \in Seq(Audit)
           /\ unlogged' \in [Logged -> Nat]
           /\ silent' \in SUBSET Name
           /\ cuts' \in Nat
<1>1. [event |-> event, subject |-> subject] \in Audit
  BY DEF Audit
<1>2. audit' \in Seq(Audit) /\ cuts' \in Nat
  <2>1. CASE Log(event, subject)
    BY <1>1, <2>1, AppendProperties DEF Log, TypeOK
  <2>2. CASE Cut
    BY <2>2 DEF Cut, TypeOK
  <2>. QED
    BY <2>1, <2>2 DEF AuditRow, AuditResource
<1>3. unlogged' \in [Logged -> Nat] /\ silent' \in SUBSET Name
  BY DEF AuditRow, AuditResource, TypeOK
<1>. QED
  BY <1>2, <1>3

LEMMA DisturbTyped ==
    ASSUME TypeOK, NEW name \in Name, Disturb(name)
    PROVE  reader' \in Reader \cup {NoReader}
BY DEF Disturb, TypeOK, Reader

LEMMA ListingTyped ==
    ASSUME TypeOK, NEW table \in Table, NEW of
    PROVE  /\ Listing(table, of) \subseteq Name \cup Nat
           /\ table = "resources" => Listing(table, of) = {x \in Name : Has(of, x)}
           /\ table = "feedback" => Listing(table, of) = About(feedback, of)
           /\ table = "attestations" => Listing(table, of) = About(attestations, of)
           /\ table = "audit" => Listing(table, of) = DOMAIN audit
           /\ table # "resources" => Listing(table, of) \subseteq Nat
<1>1. /\ DOMAIN feedback = 1..Len(feedback)
      /\ DOMAIN attestations = 1..Len(attestations)
      /\ DOMAIN audit = 1..Len(audit)
  BY LenProperties DEF TypeOK
<1>2. /\ DOMAIN feedback \subseteq Nat
      /\ DOMAIN attestations \subseteq Nat
      /\ DOMAIN audit \subseteq Nat
  BY <1>1
<1>. QED
  BY <1>2 DEF Listing, Table, About

(* A row under a new id. *)
LEMMA NewRowTyped ==
    ASSUME TypeOK, NEW kind \in Kind, NEW name \in Name, lastId' = lastId + 1,
           resources' = [resources EXCEPT ![name] = [kind |-> kind, id |-> lastId + 1]]
    PROVE  /\ resources' \in [Name -> Row \cup {NoRow}] /\ lastId' \in Nat
           /\ \A x, y \in Name : resources'[x] # NoRow /\ resources'[y] # NoRow =>
                 /\ resources'[x].id <= lastId'
                 /\ resources'[x].id = resources'[y].id => x = y
<1>1. [kind |-> kind, id |-> lastId + 1] \in Row
  BY DEF Row, TypeOK
<1>2. resources' \in [Name -> Row \cup {NoRow}] /\ lastId' \in Nat
  BY <1>1 DEF TypeOK
<1>3. ASSUME NEW x \in Name, NEW y \in Name, resources'[x] # NoRow, resources'[y] # NoRow
      PROVE  /\ resources'[x].id <= lastId'
             /\ resources'[x].id = resources'[y].id => x = y
  <2>1. \A z \in Name : resources'[z] =
          IF z = name THEN [kind |-> kind, id |-> lastId + 1] ELSE resources[z]
    BY DEF TypeOK
  <2>2. \A z \in Name : resources[z] # NoRow =>
          resources[z].id \in Nat /\ resources[z].id <= lastId
    BY DEF TypeOK, Row
  <2>3. lastId \in Nat
    BY DEF TypeOK
  <2>. QED
    BY <1>3, <2>1, <2>2, <2>3 DEF TypeOK
<1>. QED
  BY <1>2, <1>3

(* A row that goes. *)
LEMMA NoRowTyped ==
    ASSUME TypeOK, NEW name \in Name, resources' = [resources EXCEPT ![name] = NoRow],
           UNCHANGED lastId
    PROVE  /\ resources' \in [Name -> Row \cup {NoRow}] /\ lastId' \in Nat
           /\ \A x, y \in Name : resources'[x] # NoRow /\ resources'[y] # NoRow =>
                 /\ resources'[x].id <= lastId'
                 /\ resources'[x].id = resources'[y].id => x = y
<1>1. resources' \in [Name -> Row \cup {NoRow}] /\ lastId' \in Nat
  BY DEF TypeOK
<1>2. ASSUME NEW x \in Name, NEW y \in Name, resources'[x] # NoRow, resources'[y] # NoRow
      PROVE  /\ resources'[x].id <= lastId'
             /\ resources'[x].id = resources'[y].id => x = y
  BY <1>2 DEF TypeOK
<1>. QED
  BY <1>1, <1>2

LEMMA PublishTyped ==
    ASSUME TypeOK, NEW kind \in Kind, NEW name \in Name, PublishResource(kind, name)
    PROVE  TypeOK'
<1>1. /\ audit' \in Seq(Audit)
      /\ unlogged' \in [Logged -> Nat]
      /\ silent' \in SUBSET Name
      /\ cuts' \in Nat
  BY AuditTyped DEF PublishResource, Event
<1>2. reader' \in Reader \cup {NoReader}
  BY DisturbTyped DEF PublishResource
<1>. QED
  BY <1>1, <1>2, NewRowTyped DEF PublishResource, tables, TypeOK

LEMMA DeleteTyped ==
    ASSUME TypeOK, NEW kind \in Kind, NEW name \in Name, DeleteResource(kind, name)
    PROVE  TypeOK'
<1>1. /\ audit' \in Seq(Audit)
      /\ unlogged' \in [Logged -> Nat]
      /\ silent' \in SUBSET Name
      /\ cuts' \in Nat
  BY AuditTyped DEF DeleteResource, Event
<1>2. reader' \in Reader \cup {NoReader}
  BY DisturbTyped DEF DeleteResource
<1>. QED
  BY <1>1, <1>2, NoRowTyped DEF DeleteResource, tables, TypeOK

LEMMA ReceiveTyped ==
    ASSUME TypeOK, NEW name \in Name, NEW g \in Gaid, ReceiveRevocation(name, g)
    PROVE  TypeOK'
<1>1. audit' \in Seq(Audit) /\ cuts' \in Nat
  <2>1. [event |-> "revoked_by_peer", subject |-> g] \in Audit
    BY DEF Audit, Event
  <2>2. CASE Log("revoked_by_peer", g)
    BY <2>1, <2>2, AppendProperties DEF Log, TypeOK
  <2>3. CASE Cut
    BY <2>3 DEF Cut, TypeOK
  <2>. QED
    BY <2>2, <2>3 DEF ReceiveRevocation
<1>2. reader' \in Reader \cup {NoReader}
  BY DisturbTyped DEF ReceiveRevocation
<1>3. silent' \in SUBSET Name
  BY DEF ReceiveRevocation, TypeOK
<1>. QED
  BY <1>1, <1>2, <1>3, NoRowTyped DEF ReceiveRevocation, tables, TypeOK

LEMMA SeedItemTyped ==
    ASSUME TypeOK, NEW item \in SeedFile, SeedItem(item)
    PROVE  TypeOK'
<1>1. item.kind \in Kind /\ item.name \in Name
  BY StoreAssumption DEF Resource
<1>2. reader' \in Reader \cup {NoReader}
  BY <1>1, DisturbTyped DEF SeedItem
<1>3. silent' \in SUBSET Name
  BY <1>1 DEF SeedItem, TypeOK
<1>. QED
  BY <1>1, <1>2, <1>3, NewRowTyped DEF SeedItem, tables, TypeOK

LEMMA UpdateTyped ==
    ASSUME TypeOK, NEW kind \in Kind, NEW name \in Name, UpdateResource(kind, name)
    PROVE  TypeOK'
<1>1. /\ audit' \in Seq(Audit)
      /\ unlogged' \in [Logged -> Nat]
      /\ silent' \in SUBSET Name
      /\ cuts' \in Nat
  BY AuditTyped DEF UpdateResource, Event
<1>. QED
  BY <1>1 DEF UpdateResource, tables, TypeOK

LEMMA SubmitTyped ==
    ASSUME TypeOK, NEW rating \in Given, SubmitFeedback(rating)
    PROVE  TypeOK'
<1>1. rating \in Rating /\ rating.gaid \in Gaid
  BY StoreAssumption DEF Rating
<1>2. /\ audit' \in Seq(Audit)
      /\ unlogged' \in [Logged -> Nat]
      /\ silent' \in SUBSET Name
      /\ cuts' \in Nat
  BY <1>1, AuditTyped DEF SubmitFeedback, Event, Logged
<1>3. feedback' \in Seq(Rating)
  BY <1>1, AppendProperties DEF SubmitFeedback, TypeOK
<1>. QED
  BY <1>2, <1>3 DEF SubmitFeedback, TypeOK

LEMMA ReportTyped ==
    ASSUME TypeOK, NEW row \in Usage, ReportTokens(row)
    PROVE  TypeOK'
<1>1. row.gaid \in Gaid
  BY DEF Usage
<1>2. /\ audit' \in Seq(Audit)
      /\ unlogged' \in [Logged -> Nat]
      /\ silent' \in SUBSET Name
      /\ cuts' \in Nat
  BY <1>1, AuditTyped DEF ReportTokens, Event, Logged
<1>3. usage' \in Seq(Usage)
  BY AppendProperties DEF ReportTokens, TypeOK
<1>. QED
  BY <1>2, <1>3 DEF ReportTokens, TypeOK

LEMMA AttestTyped ==
    ASSUME TypeOK, NEW row \in Statement, Attest(row)
    PROVE  TypeOK'
<1>1. row.gaid \in Gaid
  BY DEF Statement
<1>2. /\ audit' \in Seq(Audit)
      /\ unlogged' \in [Logged -> Nat]
      /\ silent' \in SUBSET Name
      /\ cuts' \in Nat
  BY <1>1, AuditTyped DEF Attest, Event, Logged
<1>3. attestations' \in Seq(Statement)
  BY AppendProperties DEF Attest, TypeOK
<1>. QED
  BY <1>2, <1>3 DEF Attest, TypeOK

(* The position a seeded name has at last, and what the seed tells of it. *)
LEMMA SeededRows ==
    /\ SeedAudit \in Seq(Audit)
    /\ DOMAIN SeedResources = 1..Len(SeedResources) /\ Len(SeedResources) \in Nat
    /\ \A x : LET at == {i \in DOMAIN SeedResources : SeedResources[i].name = x} IN
         at # {} => /\ Max(at) \in DOMAIN SeedResources
                    /\ SeedResources[Max(at)] \in Resource
                    /\ SeedResources[Max(at)].name = x
<1>1. /\ SeedResources \in Seq(Resource)
      /\ DOMAIN SeedResources = 1..Len(SeedResources)
      /\ Len(SeedResources) \in Nat
  BY StoreAssumption, LenProperties
<1>2. \A i \in DOMAIN SeedResources : SeedResources[i] \in Resource
  BY <1>1, ElementOfSeq
<1>3. [event : {"created", "updated"}, subject : {SeedResources[i].name : i \in DOMAIN SeedResources}]
        \subseteq Audit
  BY <1>2 DEF Audit, Event, Resource
<1>4. SeedAudit \in Seq(Audit)
  <2>1. ASSUME NEW S, NEW T, S \subseteq T, NEW s \in Seq(S) PROVE s \in Seq(T)
    <3>1. /\ Len(s) \in Nat
          /\ DOMAIN s = 1..Len(s)
          /\ s \in [1..Len(s) -> S]
      BY LenProperties
    <3>2. s \in [1..Len(s) -> T]
      BY <2>1, <3>1
    <3>. QED
      BY <3>1, <3>2
  <2>. QED
    BY <1>3, <2>1, StoreAssumption
<1>5. ASSUME NEW x, {i \in DOMAIN SeedResources : SeedResources[i].name = x} # {}
      PROVE  LET at == {i \in DOMAIN SeedResources : SeedResources[i].name = x} IN
             /\ Max(at) \in DOMAIN SeedResources
             /\ SeedResources[Max(at)] \in Resource
             /\ SeedResources[Max(at)].name = x
  <2> DEFINE at == {i \in DOMAIN SeedResources : SeedResources[i].name = x}
  <2>1. at \subseteq 0..Len(SeedResources) /\ at # {}
    BY <1>1, <1>5
  <2>2. Max(at) \in at
    <3>. HIDE DEF at
    <3>. QED
      BY <1>1, <2>1, MaxIsGreatest
  <2>3. /\ Max(at) \in DOMAIN SeedResources
        /\ SeedResources[Max(at)].name = x
    BY <2>2
  <2>. QED
    BY <1>2, <2>3
<1>. QED
  BY <1>1, <1>4, <1>5

LEMMA SeedTyped ==
    ASSUME TypeOK, Seed
    PROVE  TypeOK'
<1> DEFINE at(x) == {i \in DOMAIN SeedResources : SeedResources[i].name = x}
<1>1. \A x : at(x) # {} => /\ Max(at(x)) \in 1..Len(SeedResources)
                           /\ SeedResources[Max(at(x))].kind \in Kind
                           /\ SeedResources[Max(at(x))].name = x
  BY SeededRows DEF Resource
<1>2. resources' = [x \in Name |->
         IF at(x) = {} THEN NoRow
         ELSE [kind |-> SeedResources[Max(at(x))].kind, id |-> Max(at(x))]]
  BY DEF Seed
<1>3. lastId' = Len(SeedResources) /\ lastId' \in Nat
  BY SeededRows DEF Seed
<1>4. /\ audit' \in Seq(Audit)
      /\ feedback' \in Seq(Rating)
      /\ usage' \in Seq(Usage)
      /\ attestations' \in Seq(Statement)
      /\ cuts' \in Nat
      /\ silent' \in SUBSET Name
  BY SeededRows, StoreAssumption DEF Seed, TypeOK
<1>5. unlogged' \in [Logged -> Nat]
  <2>1. Len(SeedFeedback) \in Nat /\ Len(SeedUsage) \in Nat /\ Len(SeedAttestations) \in Nat
    BY StoreAssumption, LenProperties
  <2>. QED
    BY <2>1 DEF Seed
<1>6. reader' \in Reader \cup {NoReader}
  BY DEF Seed, TypeOK, Reader
<1>. HIDE DEF at
<1>7. \A x \in Name : resources'[x] # NoRow =>
         /\ at(x) # {}
         /\ resources'[x].id = Max(at(x))
  BY <1>2
<1>8. resources' \in [Name -> Row \cup {NoRow}]
  <2>1. \A x \in Name : at(x) # {} =>
           [kind |-> SeedResources[Max(at(x))].kind, id |-> Max(at(x))] \in Row
    BY <1>1, SeededRows DEF Row
  <2>. QED
    BY <1>2, <2>1
<1>9. ASSUME NEW x \in Name, NEW y \in Name, resources'[x] # NoRow, resources'[y] # NoRow
      PROVE  /\ resources'[x].id <= lastId'
             /\ resources'[x].id = resources'[y].id => x = y
  <2>1. /\ resources'[x].id = Max(at(x))
        /\ Max(at(x)) \in 1..Len(SeedResources)
        /\ SeedResources[Max(at(x))].name = x
    BY <1>1, <1>7, <1>9
  <2>2. /\ resources'[y].id = Max(at(y))
        /\ SeedResources[Max(at(y))].name = y
    BY <1>1, <1>7, <1>9
  <2>. QED
    BY <1>3, <2>1, <2>2
<1>. QED
  BY <1>3, <1>4, <1>5, <1>6, <1>8, <1>9 DEF TypeOK

LEMMA BeginTyped ==
    ASSUME TypeOK, NEW table \in Table, NEW of \in Of(table), BeginReading(table, of)
    PROVE  TypeOK'
<1>1. Listing(table, of) \subseteq Name \cup Nat
  BY ListingTyped
<1>2. reader' \in Reader
  BY <1>1 DEF BeginReading, Reader, Of
<1>. QED
  BY <1>2 DEF BeginReading, tables, history, TypeOK

LEMMA ReadPageTyped ==
    ASSUME TypeOK, ReadPage
    PROVE  TypeOK' /\ reader' \in Reader
<1>1. reader \in Reader
  BY DEF ReadPage, TypeOK
<1> DEFINE rows == Page(reader.table, reader.of, reader.page)
<1>2. rows \subseteq Name \cup Nat
  BY <1>1, ListingTyped DEF Page, Reader
<1> DEFINE last == Cardinality(rows) < Limit
<1>3. /\ last \in BOOLEAN
      /\ reader' = [reader EXCEPT !.seen = @ \cup rows, !.page = @ + 1, !.finished = last]
  BY DEF ReadPage
<1>4. reader.page + 1 \in Nat \ {0} /\ reader.seen \cup rows \subseteq Name \cup Nat
  BY <1>1, <1>2, ReaderFields
<1>5. reader' \in Reader
  <2>. HIDE DEF rows, last
  <2>. QED
    BY <1>1, <1>3, <1>4 DEF Reader
<1>. QED
  BY <1>5 DEF ReadPage, tables, history, TypeOK

LEMMA TypeStep ==
    ASSUME TypeOK, [Next]_vars
    PROVE  TypeOK'
<1>1. CASE \E kind \in Kind, name \in Name : PublishResource(kind, name)
  BY <1>1, PublishTyped
<1>2. CASE \E kind \in Kind, name \in Name : UpdateResource(kind, name)
  BY <1>2, UpdateTyped
<1>3. CASE \E kind \in Kind, name \in Name : DeleteResource(kind, name)
  BY <1>3, DeleteTyped
<1>4. CASE \E rating \in Given : SubmitFeedback(rating)
  BY <1>4, SubmitTyped
<1>5. CASE \E row \in Usage : ReportTokens(row)
  BY <1>5, ReportTyped
<1>6. CASE \E row \in Statement : Attest(row)
  BY <1>6, AttestTyped
<1>7. CASE Seed
  BY <1>7, SeedTyped
<1>8. CASE \E table \in Table : \E of \in Of(table) : BeginReading(table, of)
  BY <1>8, BeginTyped
<1>9. CASE ReadPage
  BY <1>9, ReadPageTyped
<1>10. CASE \E name \in Name, g \in Gaid : ReceiveRevocation(name, g)
  BY <1>10, ReceiveTyped
<1>11. CASE \E item \in SeedFile : SeedItem(item)
  BY <1>11, SeedItemTyped
<1>12. CASE UNCHANGED vars
  BY <1>12 DEF vars, tables, history, TypeOK
<1>. QED
  BY <1>1, <1>2, <1>3, <1>4, <1>5, <1>6, <1>7, <1>8, <1>9, <1>10, <1>11, <1>12
     DEF Next, Writing, Reading

-----------------------------------------------------------------------------
(* THE AUDIT LOG *)

(* AuditTellsState, of a log, the rows of a table and a name, whatever the   *)
(* state they are taken from.                                              *)
Told(log, event, subject) ==
    {i \in DOMAIN log : log[i] = [event |-> event, subject |-> subject]}

Ever(log, event) == {i \in DOMAIN log : log[i].event = event}

Tally(log, missing, event, rows) ==
    /\ \A g \in Gaid : Cardinality(Told(log, event, g)) <= Cardinality(About(rows, g))
    /\ Len(rows) = missing + Cardinality(Ever(log, event))

ToldOf(log, name) ==
    Told(log, "created", name) \cup Told(log, "updated", name) \cup Told(log, "deleted", name)

Taken(log, name) == ToldOf(log, name) # {} /\ log[Max(ToldOf(log, name))].event # "deleted"

AuditParts ==
    /\ Tally(audit, unlogged["feedback"], "feedback", feedback)
    /\ Tally(audit, unlogged["usage"], "usage", usage)
    /\ Tally(audit, unlogged["attestation"], "attestation", attestations)
    /\ \A name \in Name \ silent : resources[name] # NoRow <=> Taken(audit, name)

LEMMA AuditInParts == AuditTellsState <=> AuditParts
<1>1. \A event, rows : RowsInLog(event, rows) <=> Tally(audit, unlogged[event], event, rows)
  BY DEF RowsInLog, Tally, EventsOf, Told, Ever
<1>2. (\A pair \in LoggedRows : RowsInLog(pair[1], pair[2])) <=>
        /\ RowsInLog("feedback", feedback)
        /\ RowsInLog("usage", usage)
        /\ RowsInLog("attestation", attestations)
  BY DEF LoggedRows
<1>3. \A name : ResourceEvents(name) = ToldOf(audit, name)
  BY DEF ResourceEvents, EventsOf, ToldOf, Told
<1>4. \A name : NameInLog(name) <=> (resources[name] # NoRow <=> Taken(audit, name))
  BY <1>3 DEF NameInLog, Taken
<1>. QED
  BY <1>1, <1>2, <1>4 DEF AuditTellsState, AuditParts

(* Which rows tell of what in a log that has grown. *)
Grown(more, log, event, subject) ==
    /\ \A e, s : Told(more, e, s) =
         IF e = event /\ s = subject THEN Told(log, e, s) \cup {Len(log) + 1}
                                     ELSE Told(log, e, s)
    /\ \A e : Ever(more, e) =
         IF e = event THEN Ever(log, e) \cup {Len(log) + 1} ELSE Ever(log, e)
    /\ \A e, s : Len(log) + 1 \notin Told(log, e, s)
    /\ \A e : Len(log) + 1 \notin Ever(log, e)

LEMMA GrownLog ==
    ASSUME NEW log \in Seq(Audit), NEW event \in Event, NEW subject \in Name \cup Gaid,
           NEW more, more = Append(log, [event |-> event, subject |-> subject])
    PROVE  Grown(more, log, event, subject)
<1> DEFINE row == [event |-> event, subject |-> subject]
<1>1. row \in Audit /\ row.event = event /\ row.subject = subject /\ more = Append(log, row)
  BY DEF Audit
<1>2. \A e, s : row = [event |-> e, subject |-> s] <=> e = event /\ s = subject
  OBVIOUS
<1>3. /\ DOMAIN more = DOMAIN log \cup {Len(log) + 1}
      /\ Len(log) + 1 \notin DOMAIN log
      /\ \A i \in DOMAIN log : more[i] = log[i]
      /\ more[Len(log) + 1] = row
  <2>. HIDE DEF row
  <2>. QED
    BY <1>1, GrownSeq
<1>. HIDE DEF row
<1>4. \A e, s : Told(more, e, s) =
        IF e = event /\ s = subject THEN Told(log, e, s) \cup {Len(log) + 1} ELSE Told(log, e, s)
  BY <1>2, <1>3 DEF Told
<1>5. \A e : Ever(more, e) =
        IF e = event THEN Ever(log, e) \cup {Len(log) + 1} ELSE Ever(log, e)
  BY <1>1, <1>3 DEF Ever
<1>6. \A e, s : Len(log) + 1 \notin Told(log, e, s) /\ Len(log) + 1 \notin Ever(log, e)
  BY <1>3 DEF Told, Ever
<1>. QED
  BY <1>4, <1>5, <1>6 DEF Grown

(* The rows that tell of something are finitely many. *)
LEMMA LogIsFinite ==
    ASSUME NEW log \in Seq(Audit)
    PROVE  /\ \A e, s : IsFiniteSet(Told(log, e, s)) /\ Cardinality(Told(log, e, s)) \in Nat
           /\ \A e : IsFiniteSet(Ever(log, e)) /\ Cardinality(Ever(log, e)) \in Nat
           /\ \A name : ToldOf(log, name) \subseteq 1..Len(log)
           /\ Len(log) \in Nat
<1>1. DOMAIN log = 1..Len(log) /\ Len(log) \in Nat
  BY LenProperties
<1>2. IsFiniteSet(DOMAIN log)
  BY <1>1, FS_Interval
<1>3. \A e, s : Told(log, e, s) \in SUBSET (DOMAIN log)
  BY DEF Told
<1>4. \A e : Ever(log, e) \in SUBSET (DOMAIN log)
  BY DEF Ever
<1>5. \A S \in SUBSET (DOMAIN log) : IsFiniteSet(S) /\ Cardinality(S) \in Nat
  BY <1>2, FS_Subset, FS_CardinalityType
<1>6. \A name : ToldOf(log, name) \subseteq 1..Len(log)
  BY <1>1, <1>3 DEF ToldOf
<1>. QED
  BY <1>1, <1>3, <1>4, <1>5, <1>6

LEMMA AboutIsFinite ==
    ASSUME NEW R, NEW rows \in Seq(R)
    PROVE  \A g : IsFiniteSet(About(rows, g)) /\ Cardinality(About(rows, g)) \in Nat
<1>1. DOMAIN rows = 1..Len(rows) /\ Len(rows) \in Nat
  BY LenProperties
<1>2. IsFiniteSet(DOMAIN rows)
  BY <1>1, FS_Interval
<1>3. \A g : About(rows, g) \in SUBSET (DOMAIN rows)
  BY DEF About
<1>. QED
  BY <1>2, <1>3, FS_Subset, FS_CardinalityType

(* A row that was audited counts on both sides. *)
LEMMA TallyLogged ==
    ASSUME NEW log \in Seq(Audit), NEW event \in Event, NEW missing \in Nat,
           NEW R, NEW rows \in Seq(R), NEW row \in R, row.gaid \in Gaid,
           Tally(log, missing, event, rows)
    PROVE  Tally(Append(log, [event |-> event, subject |-> row.gaid]), missing, event,
                 Append(rows, row))
<1> DEFINE more == Append(log, [event |-> event, subject |-> row.gaid])
<1>1. Grown(more, log, event, row.gaid)
  BY GrownLog
<1>2. /\ \A g : About(Append(rows, row), g) =
             IF g = row.gaid THEN About(rows, g) \cup {Len(rows) + 1} ELSE About(rows, g)
      /\ \A g : Len(rows) + 1 \notin About(rows, g)
      /\ Len(Append(rows, row)) = Len(rows) + 1
      /\ Len(rows) \in Nat
  BY GrownSeq DEF About
<1>. HIDE DEF more
<1>3. Cardinality(Ever(more, event)) = Cardinality(Ever(log, event)) + 1
  BY <1>1, LogIsFinite, FS_AddElement DEF Grown
<1>4. /\ Cardinality(Told(more, event, row.gaid)) = Cardinality(Told(log, event, row.gaid)) + 1
      /\ Cardinality(About(Append(rows, row), row.gaid)) = Cardinality(About(rows, row.gaid)) + 1
  <2>1. IsFiniteSet(Told(log, event, row.gaid)) /\ IsFiniteSet(About(rows, row.gaid))
    BY LogIsFinite, AboutIsFinite
  <2>2. /\ Told(more, event, row.gaid) = Told(log, event, row.gaid) \cup {Len(log) + 1}
        /\ About(Append(rows, row), row.gaid) = About(rows, row.gaid) \cup {Len(rows) + 1}
    BY <1>1, <1>2 DEF Grown
  <2>3. Cardinality(Told(log, event, row.gaid) \cup {Len(log) + 1})
          = Cardinality(Told(log, event, row.gaid)) + 1
    BY <1>1, <2>1, FS_AddElement DEF Grown
  <2>4. Cardinality(About(rows, row.gaid) \cup {Len(rows) + 1})
          = Cardinality(About(rows, row.gaid)) + 1
    BY <1>2, <2>1, FS_AddElement
  <2>. QED
    BY <2>2, <2>3, <2>4
<1>5. ASSUME NEW g \in Gaid
      PROVE  Cardinality(Told(more, event, g)) <= Cardinality(About(Append(rows, row), g))
  <2>1. Cardinality(Told(log, event, g)) <= Cardinality(About(rows, g))
    BY DEF Tally
  <2>2. Cardinality(Told(log, event, g)) \in Nat /\ Cardinality(About(rows, g)) \in Nat
    BY LogIsFinite, AboutIsFinite
  <2>3. CASE g = row.gaid
    BY <1>4, <2>1, <2>2, <2>3
  <2>4. CASE g # row.gaid
    BY <1>1, <1>2, <2>1, <2>4 DEF Grown
  <2>. QED
    BY <2>3, <2>4
<1>6. Len(Append(rows, row)) = missing + Cardinality(Ever(more, event))
  <2>1. Len(rows) = missing + Cardinality(Ever(log, event)) /\ Cardinality(Ever(log, event)) \in Nat
    BY LogIsFinite DEF Tally
  <2>. QED
    BY <1>2, <1>3, <2>1
<1>. QED
  BY <1>5, <1>6 DEF Tally, more

(* A row that was not is one that is missing in the log. *)
LEMMA TallyCut ==
    ASSUME NEW log \in Seq(Audit), NEW event \in Event, NEW missing \in Nat,
           NEW R, NEW rows \in Seq(R), NEW row \in R,
           Tally(log, missing, event, rows)
    PROVE  Tally(log, missing + 1, event, Append(rows, row))
<1>1. /\ \A g : About(Append(rows, row), g) =
             IF g = row.gaid THEN About(rows, g) \cup {Len(rows) + 1} ELSE About(rows, g)
      /\ Len(Append(rows, row)) = Len(rows) + 1
      /\ Len(rows) \in Nat
  BY GrownSeq DEF About
<1>2. ASSUME NEW g \in Gaid
      PROVE  Cardinality(Told(log, event, g)) <= Cardinality(About(Append(rows, row), g))
  <2>1. /\ Cardinality(Told(log, event, g)) <= Cardinality(About(rows, g))
        /\ Cardinality(Told(log, event, g)) \in Nat
        /\ Cardinality(About(rows, g)) \in Nat
        /\ IsFiniteSet(About(rows, g))
    BY LogIsFinite, AboutIsFinite DEF Tally
  <2> DEFINE grown == About(rows, g) \cup {Len(rows) + 1}
  <2>2. Cardinality(grown) \in {Cardinality(About(rows, g)), Cardinality(About(rows, g)) + 1}
    BY <2>1, FS_AddElement
  <2>3. About(Append(rows, row), g) \in {About(rows, g), grown}
    BY <1>1
  <2>. HIDE DEF grown
  <2>. QED
    BY <2>1, <2>2, <2>3
<1>3. Cardinality(Ever(log, event)) \in Nat /\ Len(rows) = missing + Cardinality(Ever(log, event))
  BY LogIsFinite DEF Tally
<1>. QED
  BY <1>1, <1>2, <1>3 DEF Tally

(* An event of another sort changes nothing of it. *)
LEMMA TallyStays ==
    ASSUME NEW log \in Seq(Audit), NEW event \in Event, NEW other \in Event \ {event},
           NEW subject \in Name \cup Gaid, NEW missing, NEW rows,
           Tally(log, missing, event, rows)
    PROVE  Tally(Append(log, [event |-> other, subject |-> subject]), missing, event, rows)
<1> DEFINE more == Append(log, [event |-> other, subject |-> subject])
<1>1. Grown(more, log, other, subject)
  BY GrownLog
<1>. HIDE DEF more
<1>2. Tally(more, missing, event, rows)
  BY <1>1 DEF Tally, Grown
<1>. QED
  BY <1>2 DEF more

(* The last event about a name decides, *)
LEMMA TakenLogged ==
    ASSUME NEW log \in Seq(Audit), NEW event \in {"created", "updated", "deleted"},
           NEW name \in Name
    PROVE  Taken(Append(log, [event |-> event, subject |-> name]), name) <=> event # "deleted"
<1> DEFINE more == Append(log, [event |-> event, subject |-> name])
<1>1. Grown(more, log, event, name)
  BY GrownLog DEF Event
<1>2. [event |-> event, subject |-> name] \in Audit
  BY DEF Audit, Event
<1>3. /\ more[Len(log) + 1] = [event |-> event, subject |-> name]
      /\ Len(log) \in Nat
      /\ more \in Seq(Audit)
      /\ Len(more) = Len(log) + 1
  BY <1>2, GrownSeq
<1>. HIDE DEF more
<1>4. Len(log) + 1 \in ToldOf(more, name)
  BY <1>1 DEF Grown, ToldOf
<1>5. ToldOf(more, name) \subseteq 1..(Len(log) + 1)
  BY <1>3, LogIsFinite
<1>6. Max(ToldOf(more, name)) = Len(log) + 1
  <2>1. /\ Max(ToldOf(more, name)) \in ToldOf(more, name)
        /\ \A j \in ToldOf(more, name) : j <= Max(ToldOf(more, name))
    BY <1>3, <1>4, <1>5, MaxIsGreatest
  <2>. QED
    BY <1>3, <1>4, <1>5, <2>1
<1>7. Taken(more, name) <=> event # "deleted"
  BY <1>3, <1>4, <1>6 DEF Taken
<1>. QED
  BY <1>7 DEF more

(* and an event about something else does not. *)
LEMMA TakenStays ==
    ASSUME NEW log \in Seq(Audit), NEW event \in Event, NEW subject \in Name \cup Gaid,
           NEW name \in Name, event \notin {"created", "updated", "deleted"} \/ subject # name
    PROVE  Taken(Append(log, [event |-> event, subject |-> subject]), name) <=> Taken(log, name)
<1> DEFINE more == Append(log, [event |-> event, subject |-> subject])
<1>1. Grown(more, log, event, subject)
  BY GrownLog
<1>2. [event |-> event, subject |-> subject] \in Audit
  BY DEF Audit
<1>3. \A i \in 1..Len(log) : more[i] = log[i]
  BY <1>2, GrownSeq
<1>. HIDE DEF more
<1>4. ToldOf(more, name) = ToldOf(log, name)
  BY <1>1 DEF Grown, ToldOf
<1>5. ToldOf(log, name) # {} => Max(ToldOf(log, name)) \in 1..Len(log)
  BY LogIsFinite, MaxIsGreatest
<1>6. Taken(more, name) <=> Taken(log, name)
  BY <1>3, <1>4, <1>5 DEF Taken
<1>. QED
  BY <1>6 DEF more

(* The write of a resource, which afterwards is there unless it was deleted. *)
LEMMA ResourceAudited ==
    ASSUME TypeOK, AuditTellsState,
           NEW event \in {"created", "updated", "deleted"}, NEW name \in Name,
           AuditResource(event, name), UNCHANGED tables,
           \A x \in Name \ {name} : resources'[x] = resources[x],
           resources'[name] # NoRow <=> event # "deleted",
           event = "updated" => resources'[name] = resources[name]
    PROVE  AuditTellsState'
<1>. SUFFICES AuditParts'
  <2>1. (AuditTellsState <=> AuditParts)'
    BY AuditInParts, PTL
  <2>. QED
    BY <2>1
<1>1. AuditParts
  BY AuditInParts
<1>2. /\ audit \in Seq(Audit)
      /\ event \in Event \ {"feedback"} /\ event \in Event \ {"usage"}
      /\ event \in Event \ {"attestation"} /\ event \notin Logged
  BY DEF TypeOK, Event, Logged
<1>3. UNCHANGED unlogged /\ feedback' = feedback /\ usage' = usage /\ attestations' = attestations
  BY DEF AuditResource, tables
<1>4. CASE Log(event, name) /\ silent' = silent \ {name}
  <2>1. audit' = Append(audit, [event |-> event, subject |-> name])
    BY <1>4 DEF Log
  <2>2. /\ Tally(audit', unlogged["feedback"], "feedback", feedback)
        /\ Tally(audit', unlogged["usage"], "usage", usage)
        /\ Tally(audit', unlogged["attestation"], "attestation", attestations)
    BY <1>1, <1>2, <2>1, TallyStays DEF AuditParts, Event
  <2>3. Taken(audit', name) <=> event # "deleted"
    BY <1>2, <2>1, TakenLogged
  <2>4. \A x \in Name \ {name} : Taken(audit', x) <=> Taken(audit, x)
    BY <1>2, <2>1, TakenStays
  <2>5. \A x \in Name \ silent' : resources'[x] # NoRow <=> Taken(audit', x)
    BY <1>1, <1>4, <2>3, <2>4 DEF AuditParts
  <2>. QED
    BY <1>3, <2>2, <2>5 DEF AuditParts
<1>5. CASE Cut /\ silent' = IF event = "updated" THEN silent ELSE silent \cup {name}
  <2>1. UNCHANGED audit
    BY <1>5 DEF Cut
  <2>2. \A x \in Name \ silent' : x \in Name \ silent /\ resources'[x] = resources[x]
    BY <1>5
  <2>3. \A x \in Name \ silent' : resources'[x] # NoRow <=> Taken(audit', x)
    BY <1>1, <2>1, <2>2 DEF AuditParts
  <2>. QED
    BY <1>1, <1>3, <2>1, <2>3 DEF AuditParts
<1>. QED
  BY <1>4, <1>5 DEF AuditResource

(* A write that leaves no event of its name: a peer's revocation, or a row   *)
(* of the seed file.                                                       *)
LEMMA SilentAudited ==
    ASSUME TypeOK, AuditTellsState, NEW name \in Name, NEW subject \in Name \cup Gaid,
           audit' = audit \/ audit' = Append(audit, [event |-> "revoked_by_peer", subject |-> subject]),
           UNCHANGED <<tables, unlogged>>, silent' = silent \cup {name},
           \A x \in Name \ {name} : resources'[x] = resources[x]
    PROVE  AuditTellsState'
<1>. SUFFICES AuditParts'
  <2>1. (AuditTellsState <=> AuditParts)'
    BY AuditInParts, PTL
  <2>. QED
    BY <2>1
<1>1. AuditParts
  BY AuditInParts
<1>2. UNCHANGED unlogged /\ feedback' = feedback /\ usage' = usage /\ attestations' = attestations
  BY DEF tables
<1>3. audit \in Seq(Audit)
  BY DEF TypeOK
<1>4. \A x \in Name \ silent' : x \in Name \ silent /\ resources'[x] = resources[x]
  OBVIOUS
<1>5. CASE audit' = audit
  <2>1. \A x \in Name \ silent' : resources'[x] # NoRow <=> Taken(audit', x)
    BY <1>1, <1>4, <1>5 DEF AuditParts
  <2>. QED
    BY <1>1, <1>2, <1>5, <2>1 DEF AuditParts
<1>6. CASE audit' = Append(audit, [event |-> "revoked_by_peer", subject |-> subject])
  <2>1. "revoked_by_peer" \in Event \ {"feedback"} /\ "revoked_by_peer" \in Event \ {"usage"}
        /\ "revoked_by_peer" \in Event \ {"attestation"} /\ "feedback" \in Event
        /\ "usage" \in Event /\ "attestation" \in Event
    BY DEF Event
  <2>2. /\ Tally(audit', unlogged["feedback"], "feedback", feedback)
        /\ Tally(audit', unlogged["usage"], "usage", usage)
        /\ Tally(audit', unlogged["attestation"], "attestation", attestations)
    BY <1>1, <1>3, <1>6, <2>1, TallyStays DEF AuditParts
  <2>3. \A x \in Name : Taken(audit', x) <=> Taken(audit, x)
    BY <1>3, <1>6, <2>1, TakenStays
  <2>4. \A x \in Name \ silent' : resources'[x] # NoRow <=> Taken(audit', x)
    BY <1>1, <1>4, <2>3 DEF AuditParts
  <2>. QED
    BY <1>2, <2>2, <2>4 DEF AuditParts
<1>. QED
  BY <1>5, <1>6

(* The write of a row about an agent: its own tally grows on both sides, or  *)
(* the row counts as missing.                                              *)
LEMMA RowAudited ==
    ASSUME NEW log \in Seq(Audit), NEW more, NEW event \in Logged, NEW missing \in [Logged -> Nat],
           NEW missing2, NEW R, NEW rows \in Seq(R), NEW row \in R, row.gaid \in Gaid,
           \/ /\ more = Append(log, [event |-> event, subject |-> row.gaid])
              /\ missing2 = missing
           \/ /\ more = log
              /\ missing2 = [missing EXCEPT ![event] = @ + 1]
    PROVE  /\ Tally(log, missing[event], event, rows)
                => Tally(more, missing2[event], event, Append(rows, row))
           /\ \A other \in Logged \ {event} : \A rest :
                Tally(log, missing[other], other, rest) => Tally(more, missing2[other], other, rest)
           /\ \A name \in Name : Taken(more, name) <=> Taken(log, name)
<1>1. event \in Event /\ Logged \subseteq Event /\ row.gaid \in Name \cup Gaid
  BY DEF Event, Logged
<1>2. missing[event] \in Nat
  OBVIOUS
<1>3. CASE more = Append(log, [event |-> event, subject |-> row.gaid]) /\ missing2 = missing
  <2>1. Tally(log, missing[event], event, rows)
          => Tally(more, missing2[event], event, Append(rows, row))
    BY <1>1, <1>2, <1>3, TallyLogged
  <2>2. ASSUME NEW other \in Logged \ {event}, NEW rest,
               Tally(log, missing[other], other, rest)
        PROVE  Tally(more, missing2[other], other, rest)
    <3>1. other \in Event /\ event \in Event \ {other}
      BY <1>1
    <3>. QED
      BY <1>1, <1>3, <2>2, <3>1, TallyStays
  <2>3. event \notin {"created", "updated", "deleted"}
    BY DEF Logged
  <2>4. \A name \in Name : Taken(more, name) <=> Taken(log, name)
    BY <1>1, <1>3, <2>3, TakenStays
  <2>. QED
    BY <2>1, <2>2, <2>4
<1>4. CASE more = log /\ missing2 = [missing EXCEPT ![event] = @ + 1]
  <2>1. Tally(log, missing[event], event, rows)
          => Tally(more, missing2[event], event, Append(rows, row))
    BY <1>1, <1>2, <1>4, TallyCut
  <2>. QED
    BY <1>4, <2>1
<1>. QED
  BY <1>3, <1>4

(* Feedback, usage and attestations, one as the other. *)
LEMMA AgentAudited ==
    ASSUME TypeOK, AuditTellsState, UNCHANGED resources,
           \/ \E row \in Given : SubmitFeedback(row)
           \/ \E row \in Usage : ReportTokens(row)
           \/ \E row \in Statement : Attest(row)
    PROVE  AuditTellsState'
<1>. SUFFICES AuditParts'
  <2>1. (AuditTellsState <=> AuditParts)'
    BY AuditInParts, PTL
  <2>. QED
    BY <2>1
<1>1. AuditParts
  BY AuditInParts
<1>2. /\ audit \in Seq(Audit) /\ unlogged \in [Logged -> Nat]
      /\ feedback \in Seq(Rating) /\ usage \in Seq(Usage) /\ attestations \in Seq(Statement)
  BY DEF TypeOK
<1>3. Logged = {"feedback", "usage", "attestation"}
  BY DEF Logged
<1>4. ASSUME NEW event \in Logged, NEW g, AuditRow(event, g)
      PROVE  /\ \/ /\ audit' = Append(audit, [event |-> event, subject |-> g])
                   /\ unlogged' = unlogged
                \/ /\ audit' = audit
                   /\ unlogged' = [unlogged EXCEPT ![event] = @ + 1]
             /\ silent' = silent
  BY <1>4 DEF AuditRow, Log, Cut
<1>5. ASSUME NEW row \in Given, SubmitFeedback(row) PROVE AuditParts'
  <2>1. row \in Rating /\ row.gaid \in Gaid
    BY StoreAssumption DEF Rating
  <2>2. AuditRow("feedback", row.gaid) /\ feedback' = Append(feedback, row)
        /\ usage' = usage /\ attestations' = attestations
    BY <1>5 DEF SubmitFeedback
  <2>3. /\ Tally(audit', unlogged'["feedback"], "feedback", Append(feedback, row))
        /\ Tally(audit', unlogged'["usage"], "usage", usage)
        /\ Tally(audit', unlogged'["attestation"], "attestation", attestations)
        /\ \A name \in Name : Taken(audit', name) <=> Taken(audit, name)
        /\ silent' = silent
    BY <1>1, <1>2, <1>3, <1>4, <2>1, <2>2, RowAudited DEF AuditParts
  <2>. QED
    BY <1>1, <2>2, <2>3 DEF AuditParts
<1>6. ASSUME NEW row \in Usage, ReportTokens(row) PROVE AuditParts'
  <2>1. row.gaid \in Gaid
    BY DEF Usage
  <2>2. AuditRow("usage", row.gaid) /\ usage' = Append(usage, row)
        /\ feedback' = feedback /\ attestations' = attestations
    BY <1>6 DEF ReportTokens
  <2>3. /\ Tally(audit', unlogged'["feedback"], "feedback", feedback)
        /\ Tally(audit', unlogged'["usage"], "usage", Append(usage, row))
        /\ Tally(audit', unlogged'["attestation"], "attestation", attestations)
        /\ \A name \in Name : Taken(audit', name) <=> Taken(audit, name)
        /\ silent' = silent
    BY <1>1, <1>2, <1>3, <1>4, <2>1, <2>2, RowAudited DEF AuditParts
  <2>. QED
    BY <1>1, <2>2, <2>3 DEF AuditParts
<1>7. ASSUME NEW row \in Statement, Attest(row) PROVE AuditParts'
  <2>1. row.gaid \in Gaid
    BY DEF Statement
  <2>2. AuditRow("attestation", row.gaid) /\ attestations' = Append(attestations, row)
        /\ feedback' = feedback /\ usage' = usage
    BY <1>7 DEF Attest
  <2>3. /\ Tally(audit', unlogged'["feedback"], "feedback", feedback)
        /\ Tally(audit', unlogged'["usage"], "usage", usage)
        /\ Tally(audit', unlogged'["attestation"], "attestation", Append(attestations, row))
        /\ \A name \in Name : Taken(audit', name) <=> Taken(audit, name)
        /\ silent' = silent
    BY <1>1, <1>2, <1>3, <1>4, <2>1, <2>2, RowAudited DEF AuditParts
  <2>. QED
    BY <1>1, <2>2, <2>3 DEF AuditParts
<1>. QED
  BY <1>5, <1>6, <1>7

(* The seed tells of names only, of each that it has there and of no other,  *)
(* and of none that it went.                                               *)
LEMMA SeedAudited ==
    ASSUME TypeOK, Seed
    PROVE  AuditTellsState'
<1>. SUFFICES AuditParts'
  <2>1. (AuditTellsState <=> AuditParts)'
    BY AuditInParts, PTL
  <2>. QED
    BY <2>1
<1> DEFINE at(x) == {i \in DOMAIN SeedResources : SeedResources[i].name = x}
<1>1. /\ audit' = SeedAudit /\ SeedAudit \in Seq(Audit)
      /\ feedback' = SeedFeedback /\ usage' = SeedUsage /\ attestations' = SeedAttestations
      /\ unlogged'["feedback"] = Len(SeedFeedback)
      /\ unlogged'["usage"] = Len(SeedUsage)
      /\ unlogged'["attestation"] = Len(SeedAttestations)
  BY SeededRows DEF Seed, Logged
<1>2. \A i \in DOMAIN SeedAudit :
        /\ SeedAudit[i].event \in {"created", "updated"}
        /\ SeedAudit[i].subject \in {SeedResources[j].name : j \in DOMAIN SeedResources}
        /\ SeedAudit[i] = [event |-> SeedAudit[i].event, subject |-> SeedAudit[i].subject]
  <2>1. SeedAudit \in Seq([event : {"created", "updated"},
                           subject : {SeedResources[j].name : j \in DOMAIN SeedResources}])
    BY StoreAssumption
  <2>2. \A i \in DOMAIN SeedAudit :
          SeedAudit[i] \in [event : {"created", "updated"},
                            subject : {SeedResources[j].name : j \in DOMAIN SeedResources}]
    BY <2>1, LenProperties, ElementOfSeq
  <2>. QED
    BY <2>2
<1>3. /\ Len(SeedFeedback) \in Nat /\ Len(SeedUsage) \in Nat /\ Len(SeedAttestations) \in Nat
      /\ \A g : /\ Cardinality(About(SeedFeedback, g)) \in Nat
                /\ Cardinality(About(SeedUsage, g)) \in Nat
                /\ Cardinality(About(SeedAttestations, g)) \in Nat
  BY StoreAssumption, LenProperties, AboutIsFinite
<1>4. ASSUME NEW event \in Logged
      PROVE  Cardinality(Ever(SeedAudit, event)) = 0
             /\ \A g : Cardinality(Told(SeedAudit, event, g)) = 0
  <2>1. Ever(SeedAudit, event) = {} /\ \A g : Told(SeedAudit, event, g) = {}
    BY <1>2 DEF Ever, Told, Logged
  <2>. QED
    BY <2>1, FS_EmptySet
<1>5. /\ Tally(SeedAudit, Len(SeedFeedback), "feedback", SeedFeedback)
      /\ Tally(SeedAudit, Len(SeedUsage), "usage", SeedUsage)
      /\ Tally(SeedAudit, Len(SeedAttestations), "attestation", SeedAttestations)
  BY <1>3, <1>4 DEF Tally, Logged
<1>6. ASSUME NEW x \in Name \ silent'
      PROVE  resources'[x] # NoRow <=> Taken(SeedAudit, x)
  <2>1. resources'[x] # NoRow <=> at(x) # {}
    <3>1. at(x) # {} => [kind |-> SeedResources[Max(at(x))].kind, id |-> Max(at(x))] # NoRow
      <4>1. at(x) # {} => Max(at(x)) \in Nat /\ SeedResources[Max(at(x))].kind \in Kind
        BY SeededRows DEF Resource
      <4>. HIDE DEF at
      <4>2. at(x) # {} => [kind |-> SeedResources[Max(at(x))].kind, id |-> Max(at(x))] \in Row
        BY <4>1 DEF Row
      <4>. QED
        BY <4>2, StoreAssumption
    <3>2. resources'[x] = IF at(x) = {} THEN NoRow
                          ELSE [kind |-> SeedResources[Max(at(x))].kind, id |-> Max(at(x))]
      BY DEF Seed
    <3>. QED
      BY <3>1, <3>2
  <2>2. at(x) # {} <=> \E i \in DOMAIN SeedAudit : SeedAudit[i].subject = x
    BY <1>2, <1>6 DEF Seed
  <2>3. ToldOf(SeedAudit, x) = {i \in DOMAIN SeedAudit : SeedAudit[i].subject = x}
    BY <1>2 DEF ToldOf, Told
  <2>4. ToldOf(SeedAudit, x) # {} => SeedAudit[Max(ToldOf(SeedAudit, x))].event # "deleted"
    <3>1. ToldOf(SeedAudit, x) # {} => Max(ToldOf(SeedAudit, x)) \in ToldOf(SeedAudit, x)
      BY <1>1, LogIsFinite, MaxIsGreatest
    <3>. QED
      BY <1>2, <2>3, <3>1
  <2>. QED
    BY <2>1, <2>2, <2>3, <2>4 DEF Taken
<1>. QED
  BY <1>1, <1>5, <1>6 DEF AuditParts

LEMMA AuditStep ==
    ASSUME TypeOK, AuditTellsState, [Next]_vars
    PROVE  AuditTellsState'
<1>. USE DEF tables, history
<1>1. ASSUME NEW kind \in Kind, NEW name \in Name, PublishResource(kind, name)
      PROVE  AuditTellsState'
  <2>1. /\ \A x \in Name \ {name} : resources'[x] = resources[x]
        /\ resources'[name] = [kind |-> kind, id |-> lastId + 1]
        /\ [kind |-> kind, id |-> lastId + 1] \in Row
    BY <1>1 DEF PublishResource, TypeOK, Row
  <2>2. resources'[name] # NoRow
    BY <2>1, StoreAssumption
  <2>. QED
    BY <1>1, <2>1, <2>2, ResourceAudited DEF PublishResource
<1>2. ASSUME NEW kind \in Kind, NEW name \in Name, UpdateResource(kind, name)
      PROVE  AuditTellsState'
  <2>1. /\ AuditResource("updated", name)
        /\ resources' = resources /\ resources[name] # NoRow
        /\ UNCHANGED tables
    BY <1>2 DEF UpdateResource, Has
  <2>. QED
    BY <2>1, ResourceAudited
<1>3. ASSUME NEW kind \in Kind, NEW name \in Name, DeleteResource(kind, name)
      PROVE  AuditTellsState'
  <2>1. /\ \A x \in Name \ {name} : resources'[x] = resources[x]
        /\ resources'[name] = NoRow
    BY <1>3 DEF DeleteResource, TypeOK
  <2>. QED
    BY <1>3, <2>1, ResourceAudited DEF DeleteResource
<1>4. CASE \E rating \in Given : SubmitFeedback(rating)
  BY <1>4, AgentAudited DEF SubmitFeedback
<1>5. CASE \E row \in Usage : ReportTokens(row)
  BY <1>5, AgentAudited DEF ReportTokens
<1>6. CASE \E row \in Statement : Attest(row)
  BY <1>6, AgentAudited DEF Attest
<1>7. CASE Seed
  BY <1>7, SeedAudited
<1>9. ASSUME NEW name \in Name, NEW g \in Gaid, ReceiveRevocation(name, g)
      PROVE  AuditTellsState'
  <2>1. audit' = audit \/ audit' = Append(audit, [event |-> "revoked_by_peer", subject |-> g])
    BY <1>9 DEF ReceiveRevocation, Log, Cut
  <2>2. \A x \in Name \ {name} : resources'[x] = resources[x]
    BY <1>9 DEF ReceiveRevocation, TypeOK
  <2>3. UNCHANGED <<tables, unlogged>> /\ silent' = silent \cup {name} /\ g \in Name \cup Gaid
    BY <1>9 DEF ReceiveRevocation
  <2>. QED
    BY <2>1, <2>2, <2>3, SilentAudited
<1>10. ASSUME NEW item \in SeedFile, SeedItem(item)
       PROVE  AuditTellsState'
  <2>1. item.name \in Name
    BY StoreAssumption DEF Resource
  <2>2. \A x \in Name \ {item.name} : resources'[x] = resources[x]
    BY <1>10, <2>1 DEF SeedItem, TypeOK
  <2>3. UNCHANGED <<tables, unlogged, audit>> /\ silent' = silent \cup {item.name}
    BY <1>10 DEF SeedItem
  <2>. QED
    BY <2>1, <2>2, <2>3, SilentAudited
<1>8. CASE Reading \/ UNCHANGED vars
  <2>1. UNCHANGED <<resources, feedback, usage, attestations, audit, unlogged, silent>>
    BY <1>8 DEF Reading, BeginReading, ReadPage, vars
  <2>2. AuditParts'
    BY <2>1, AuditInParts DEF AuditParts
  <2>3. (AuditTellsState <=> AuditParts)'
    BY AuditInParts, PTL
  <2>. QED
    BY <2>2, <2>3
<1>. QED
  BY <1>1, <1>2, <1>3, <1>4, <1>5, <1>6, <1>7, <1>8, <1>9, <1>10 DEF Next, Writing

-----------------------------------------------------------------------------
(* PAGES *)

(* A listing is finite, and its order is one: resources by ids that no two   *)
(* share, the others by position.                                          *)
LEMMA ListingFinite ==
    ASSUME TypeOK, NEW table \in Table, NEW of
    PROVE  IsFiniteSet(Listing(table, of))
<1>1. CASE table = "resources"
  <2> DEFINE S == {x \in Name : Has(of, x)}
             f == [x \in S |-> resources[x].id]
  <2>1. \A x \in S : resources[x].id \in 0..lastId
    BY DEF Has, TypeOK, Row
  <2>2. \A x, y \in S : resources[x].id = resources[y].id => x = y
    BY DEF Has, TypeOK
  <2>3. f \in Injection(S, 0..lastId)
    BY <2>1, <2>2 DEF Injection, IsInjective
  <2>4. IsFiniteSet(0..lastId)
    BY FS_Interval DEF TypeOK
  <2>5. IsFiniteSet(S)
    BY <2>3, <2>4, FS_Injection
  <2>. QED
    BY <1>1, <2>5, ListingTyped
<1>2. CASE table # "resources"
  <2>1. \/ Listing(table, of) \in SUBSET (DOMAIN feedback)
        \/ Listing(table, of) \in SUBSET (DOMAIN attestations)
        \/ Listing(table, of) \in SUBSET (DOMAIN audit)
    BY <1>2, ListingTyped DEF Table, About
  <2>2. /\ DOMAIN feedback = 1..Len(feedback) /\ Len(feedback) \in Nat
        /\ DOMAIN attestations = 1..Len(attestations) /\ Len(attestations) \in Nat
        /\ DOMAIN audit = 1..Len(audit) /\ Len(audit) \in Nat
    BY LenProperties DEF TypeOK
  <2>3. \A n \in Nat : IsFiniteSet(1..n)
    BY FS_Interval
  <2>4. /\ IsFiniteSet(DOMAIN feedback)
        /\ IsFiniteSet(DOMAIN attestations)
        /\ IsFiniteSet(DOMAIN audit)
    BY <2>2, <2>3
  <2>. QED
    BY <2>1, <2>4, FS_Subset
<1>. QED
  BY <1>1, <1>2

FiniteListings == \A table \in Table : \A of : IsFiniteSet(Listing(table, of))

LEMMA ListingsFinite == TypeOK => FiniteListings
BY ListingFinite DEF FiniteListings

LEMMA BeforeOrders ==
    ASSUME TypeOK, NEW table \in Table, NEW of
    PROVE  /\ \A i \in Listing(table, of) : ~ Before(table, i, i)
           /\ \A i, j, k \in Listing(table, of) :
                Before(table, i, j) /\ Before(table, j, k) => Before(table, i, k)
           /\ \A i, j \in Listing(table, of) :
                i # j => Before(table, i, j) \/ Before(table, j, i)
<1>1. CASE table = "resources"
  <2>1. \A x \in Listing(table, of) : x \in Name /\ resources[x] # NoRow /\ resources[x].id \in Nat
    BY <1>1, ListingTyped DEF Has, TypeOK, Row
  <2>2. \A x, y \in Listing(table, of) : resources[x].id = resources[y].id => x = y
    BY <2>1 DEF TypeOK
  <2>. QED
    BY <1>1, <2>1, <2>2 DEF Before
<1>2. CASE table # "resources"
  <2>1. Listing(table, of) \subseteq Nat
    BY <1>2, ListingTyped
  <2>. QED
    BY <1>2, <2>1 DEF Before
<1>. QED
  BY <1>1, <1>2

(* The rows before one of a listing. *)
Lower(table, of, i) == {j \in Listing(table, of) : Before(table, j, i)}

LEMMA OffsetCounts ==
    ASSUME TypeOK, NEW table \in Table, NEW of
    PROVE  \A i : /\ Lower(table, of, i) \subseteq Listing(table, of)
                 /\ IsFiniteSet(Lower(table, of, i))
                 /\ Offset(table, of, i) = Cardinality(Lower(table, of, i))
                 /\ Offset(table, of, i) \in Nat
<1>1. \A i : Lower(table, of, i) \in SUBSET Listing(table, of)
  BY DEF Lower
<1>2. \A i : IsFiniteSet(Lower(table, of, i))
  BY <1>1, ListingFinite, FS_Subset
<1>3. \A i : Offset(table, of, i) = Cardinality(Lower(table, of, i))
  BY DEF Offset, Lower
<1>. QED
  BY <1>1, <1>2, <1>3, FS_CardinalityType

(* The row just before one that is not the first has the offset before its.  *)
LEMMA Predecessor ==
    ASSUME TypeOK, NEW table \in Table, NEW of, NEW i \in Listing(table, of),
           Offset(table, of, i) # 0
    PROVE  \E k \in Listing(table, of) : Offset(table, of, k) = Offset(table, of, i) - 1
<1> DEFINE S      == Listing(table, of)
           low(j) == Lower(table, of, j)
           off(j) == Offset(table, of, j)
<1>1. \A j : low(j) \subseteq S /\ IsFiniteSet(low(j)) /\ off(j) = Cardinality(low(j)) /\ off(j) \in Nat
  BY OffsetCounts
<1>2. \A j, m : m \in low(j) <=> m \in S /\ Before(table, m, j)
  BY DEF Lower
<1>3. /\ \A j \in S : ~ Before(table, j, j)
      /\ \A j, k, m \in S : Before(table, j, k) /\ Before(table, k, m) => Before(table, j, m)
      /\ \A j, k \in S : j # k => Before(table, j, k) \/ Before(table, k, j)
  BY BeforeOrders
<1>4. i \in S /\ off(i) # 0
  OBVIOUS
<1>. HIDE DEF S, low, off
<1>5. low(i) # {}
  BY <1>1, <1>4, FS_EmptySet
<1>6. \A k \in low(i) : off(k) <= off(i)
  <2>1. \A k \in low(i) : low(k) \in SUBSET low(i)
    BY <1>1, <1>2, <1>3, <1>4
  <2>. QED
    BY <1>1, <2>1, FS_Subset
<1>7. PICK k \in low(i) : \A m \in low(i) : off(m) <= off(k)
  <2> DEFINE rest == {off(i) - off(m) : m \in low(i)}
  <2>1. \A m \in low(i) : off(i) - off(m) \in Nat
    BY <1>1, <1>6
  <2>2. rest \subseteq Nat /\ rest # {}
    BY <1>5, <2>1
  <2>3. PICK d \in rest : \A e \in rest : d <= e
    <3>. HIDE DEF rest
    <3>. QED
      BY <2>2, LeastMember
  <2>4. PICK k \in low(i) : d = off(i) - off(k)
    BY <2>3
  <2>5. \A m \in low(i) : off(i) - off(k) <= off(i) - off(m)
    BY <2>3, <2>4
  <2>. QED
    BY <1>1, <2>5
<1>8. k \in S /\ k \notin low(k) /\ IsFiniteSet(low(k))
  BY <1>1, <1>2, <1>3
<1>9. ASSUME NEW m \in low(i), m # k
      PROVE  m \in low(k)
  <2>1. SUFFICES ASSUME m \notin low(k) PROVE FALSE
    OBVIOUS
  <2>2. m \in S /\ Before(table, k, m)
    BY <1>1, <1>2, <1>3, <1>8, <1>9, <2>1
  <2>3. low(k) \cup {k} \in SUBSET low(m)
    BY <1>1, <1>2, <1>3, <1>8, <2>2
  <2>4. Cardinality(low(k) \cup {k}) = off(k) + 1
    BY <1>1, <1>8, FS_AddElement
  <2>5. Cardinality(low(k) \cup {k}) <= off(m)
    BY <1>1, <2>3, FS_Subset
  <2>. QED
    BY <1>1, <1>7, <2>4, <2>5
<1>10. low(i) = low(k) \cup {k}
  BY <1>1, <1>2, <1>3, <1>4, <1>7, <1>8, <1>9
<1>11. off(i) = off(k) + 1
  BY <1>1, <1>8, <1>10, FS_AddElement
<1>12. k \in S /\ off(k) = off(i) - 1
  BY <1>1, <1>8, <1>11
<1>. QED
  BY <1>12 DEF S, off

(* Offsets are 0, 1, 2 and so on, without a gap. *)
LEMMA OffsetsDense ==
    ASSUME TypeOK, NEW table \in Table, NEW of, NEW i \in Listing(table, of),
           NEW n \in Nat, n <= Offset(table, of, i)
    PROVE  \E j \in Listing(table, of) : Offset(table, of, j) = n
<1> DEFINE S      == Listing(table, of)
           off(j) == Offset(table, of, j)
           above  == {off(j) - n : j \in {j \in S : n <= off(j)}}
<1>1. \A j : off(j) \in Nat
  BY OffsetCounts
<1>2. i \in S /\ n <= off(i)
  OBVIOUS
<1>3. \A j \in S : off(j) # 0 => \E k \in S : off(k) = off(j) - 1
  BY Predecessor
<1>. HIDE DEF S, off
<1>4. above \subseteq Nat /\ above # {}
  <2>1. \A j \in S : n <= off(j) => off(j) - n \in Nat
    BY <1>1
  <2>. QED
    BY <1>2, <2>1
<1>5. PICK d \in above : \A e \in above : d <= e
  <2>. HIDE DEF above
  <2>. QED
    BY <1>4, LeastMember
<1>6. PICK j \in S : n <= off(j) /\ d = off(j) - n
  BY <1>5
<1>7. off(j) = n
  <2>1. SUFFICES ASSUME off(j) # n PROVE FALSE
    OBVIOUS
  <2>2. PICK k \in S : off(k) = off(j) - 1
    BY <1>1, <1>3, <1>6, <2>1
  <2>3. off(k) - n \in above
    BY <1>1, <1>6, <2>1, <2>2
  <2>4. d <= off(k) - n
    BY <1>5, <2>3
  <2>. QED
    BY <1>1, <1>6, <2>2, <2>4
<1>. QED
  BY <1>7 DEF S, off

(* A page with a row after it is full. *)
LEMMA PageFull ==
    ASSUME TypeOK, NEW table \in Table, NEW of, NEW i \in Listing(table, of),
           NEW page \in Nat \ {0}, page * Limit <= Offset(table, of, i)
    PROVE  ~ (Cardinality(Page(table, of, page)) < Limit)
<1> DEFINE first == (page - 1) * Limit
           past  == page * Limit
           rows  == Page(table, of, page)
           f     == [j \in rows |-> Offset(table, of, j)]
<1>1. Limit \in Nat
  BY StoreAssumption
<1>2. first \in Nat /\ past \in Nat /\ past = first + Limit
  BY <1>1
<1>3. rows = {j \in Listing(table, of) : Offset(table, of, j) \in first .. past - 1}
  BY DEF Page
<1>4. past <= Offset(table, of, i) /\ Offset(table, of, i) \in Nat
  BY OffsetCounts
<1>. HIDE DEF first, past, rows
<1>5. \A n \in first .. past - 1 : \E j \in rows : Offset(table, of, j) = n
  <2>1. ASSUME NEW n \in first .. past - 1
        PROVE  \E j \in rows : Offset(table, of, j) = n
    <3>1. n \in Nat /\ n <= Offset(table, of, i)
      BY <1>2, <1>4
    <3>2. PICK j \in Listing(table, of) : Offset(table, of, j) = n
      BY <3>1, OffsetsDense
    <3>. QED
      BY <1>3, <3>2
  <2>. QED
    BY <2>1
<1>6. f \in Surjection(rows, first .. past - 1)
  BY <1>3, <1>5 DEF Surjection
<1>7. IsFiniteSet(rows)
  <2>1. rows \in SUBSET Listing(table, of)
    BY <1>3
  <2>. QED
    BY <2>1, ListingFinite, FS_Subset
<1>. HIDE DEF f
<1>8. Cardinality(first .. past - 1) <= Cardinality(rows)
  BY <1>6, <1>7, FS_Surjection
<1>9. Cardinality(first .. past - 1) = Limit
  <2>1. first \in Int /\ past - 1 \in Int
    BY <1>1, <1>2
  <2>2. Cardinality(first .. past - 1) =
          IF first > past - 1 THEN 0 ELSE past - 1 - first + 1
    BY <2>1, FS_Interval
  <2>. QED
    BY <1>1, <1>2, <2>2
<1>10. Cardinality(rows) \in Nat
  BY <1>7, FS_CardinalityType
<1>. QED
  BY <1>1, <1>8, <1>9, <1>10 DEF rows

(* What a reading rests on, when the listing it is about changes: rows may   *)
(* come in, but none that is there goes or gets nearer to the first page.   *)
LEMMA AheadStays ==
    ASSUME TypeOK, TypeOK', NEW r \in Reader, Ahead(r),
           Listing(r.table, r.of) \subseteq Listing(r.table, r.of)',
           \A i, j \in Listing(r.table, r.of) :
               Before(r.table, j, i) => Before(r.table, j, i)'
    PROVE  Ahead(r)'
<1>1. r.table \in Table /\ r.page \in Nat \ {0} /\ Limit \in Nat
  BY ReaderFields, StoreAssumption
<1> DEFINE first == (r.page - 1) * Limit
<1>2. first \in Nat
  BY <1>1
<1>3. ASSUME NEW i \in Listing(r.table, r.of), first <= Offset(r.table, r.of, i)
      PROVE  first <= Offset(r.table, r.of, i)'
  <2> DEFINE lower == {j \in Listing(r.table, r.of) : Before(r.table, j, i)}
             later == {j \in Listing(r.table, r.of)' : Before(r.table, j, i)'}
  <2>1. lower \in SUBSET later
    OBVIOUS
  <2>2. IsFiniteSet(later)
    <3>1. (TypeOK => FiniteListings)'
      BY ListingsFinite, PTL
    <3>2. later \in SUBSET (Listing(r.table, r.of)')
      OBVIOUS
    <3>3. IsFiniteSet(Listing(r.table, r.of)')
      BY <1>1, <3>1 DEF FiniteListings
    <3>. QED
      BY <3>2, <3>3, FS_Subset
  <2>3. /\ Offset(r.table, r.of, i) = Cardinality(lower)
        /\ Offset(r.table, r.of, i)' = Cardinality(later)
    BY DEF Offset
  <2>. HIDE DEF first, lower, later
  <2>4. Cardinality(lower) <= Cardinality(later) /\ IsFiniteSet(lower)
    BY <2>1, <2>2, FS_Subset
  <2>. QED
    BY <1>2, <1>3, <2>2, <2>3, <2>4, FS_CardinalityType
<1>. QED
  BY <1>3 DEF Ahead

(* A reader who asks for a page is as far ahead with the next. *)
LEMMA ReadPageAhead ==
    ASSUME TypeOK, NEW r \in Reader, NEW s \in Reader, Ahead(r),
           s.table = r.table, s.of = r.of, s.owed = r.owed,
           s.seen = r.seen \cup Page(r.table, r.of, r.page), s.page = r.page + 1,
           s.finished = (Cardinality(Page(r.table, r.of, r.page)) < Limit)
    PROVE  Ahead(s)
<1> DEFINE first == (r.page - 1) * Limit
           past  == r.page * Limit
           rows  == Page(r.table, r.of, r.page)
<1>1. r.table \in Table /\ r.page \in Nat \ {0} /\ Limit \in Nat
  BY ReaderFields, StoreAssumption
<1>2. first \in Nat /\ past \in Nat /\ (s.page - 1) * Limit = past
  BY <1>1
<1>3. /\ r.owed \subseteq Listing(r.table, r.of)
      /\ \A i \in r.owed \ r.seen : first <= Offset(r.table, r.of, i)
  BY DEF Ahead
<1>4. rows = {i \in Listing(r.table, r.of) : Offset(r.table, r.of, i) \in first .. past - 1}
  BY DEF Page
<1>5. \A i : Offset(r.table, r.of, i) \in Nat
  BY <1>1, OffsetCounts
<1>6. ASSUME NEW i \in s.owed \ s.seen PROVE past <= Offset(r.table, r.of, i)
  <2>1. i \in r.owed \ r.seen /\ i \notin rows
    OBVIOUS
  <2>. HIDE DEF first, past, rows
  <2>. QED
    BY <1>2, <1>3, <1>4, <1>5, <2>1
<1>7. s.finished => s.owed \subseteq s.seen
  <2>1. SUFFICES ASSUME s.finished, NEW i \in s.owed \ s.seen PROVE FALSE
    OBVIOUS
  <2>2. i \in Listing(r.table, r.of) /\ r.page * Limit <= Offset(r.table, r.of, i)
    BY <1>3, <1>6, <2>1
  <2>. QED
    BY <1>1, <2>1, <2>2, PageFull
<1>. QED
  BY <1>2, <1>3, <1>6, <1>7 DEF Ahead

LEMMA BeginAhead ==
    ASSUME TypeOK, NEW table \in Table, NEW of \in Of(table), BeginReading(table, of)
    PROVE  ReaderAhead'
<1>1. PICK owed : owed = Listing(table, of)
  OBVIOUS
<1>2. PICK r : r = [table |-> table, of |-> of, page |-> 1, seen |-> {}, owed |-> owed,
                    calm |-> TRUE, finished |-> FALSE]
  OBVIOUS
<1>3. reader' = r /\ UNCHANGED <<resources, feedback, attestations, audit>>
  BY <1>1, <1>2 DEF BeginReading, tables
<1>4. Listing(table, of)' = owed /\ \A i : Offset(table, of, i)' = Offset(table, of, i)
  BY <1>1, <1>3 DEF Listing, Offset, Before, Has, About
<1>5. \A i : Offset(table, of, i) \in Nat
  BY OffsetCounts
<1>6. (1 - 1) * Limit = 0
  BY StoreAssumption
<1>7. /\ r.table = table /\ r.of = of /\ r.page = 1 /\ r.owed = owed
      /\ ~ r.finished
  BY <1>2
<1>8. Ahead(r)'
  BY <1>4, <1>5, <1>6, <1>7 DEF Ahead
<1>. QED
  BY <1>3, <1>8 DEF ReaderAhead, Ahead

(* Rows that came in below all others, which are read first. *)
LEMMA RowsCameIn ==
    ASSUME TypeOK, TypeOK', NEW r \in Reader, Ahead(r),
           r.table = "resources" =>
               \A x \in Name : Has(r.of, x) => resources'[x] = resources[x],
           feedback' = feedback \/ \E row \in Rating : feedback' = Append(feedback, row),
           attestations' = attestations
               \/ \E row \in Statement : attestations' = Append(attestations, row),
           audit' = audit \/ \E row \in Audit : audit' = Append(audit, row)
    PROVE  Ahead(r)'
<1>1. r.table \in Table
  BY ReaderFields
<1>2. CASE r.table = "resources"
  <2>1. /\ Listing(r.table, r.of) = {x \in Name : Has(r.of, x)}
        /\ Listing(r.table, r.of)' = {x \in Name : Has(r.of, x)'}
    BY <1>2 DEF Listing
  <2>2. \A x \in Name : Has(r.of, x) => Has(r.of, x)' /\ resources'[x] = resources[x]
    BY <1>2 DEF Has
  <2>3. \A i, j \in Listing(r.table, r.of) : Before(r.table, j, i) => Before(r.table, j, i)'
    BY <1>2, <2>1, <2>2 DEF Before
  <2>. QED
    BY <2>1, <2>2, <2>3, AheadStays
<1>3. CASE r.table # "resources"
  <2>1. ASSUME NEW R, NEW rows \in Seq(R), NEW more,
               more = rows \/ \E row \in R : more = Append(rows, row)
        PROVE  /\ About(rows, r.of) \subseteq About(more, r.of)
               /\ DOMAIN rows \subseteq DOMAIN more
    BY <2>1, GrownSeq DEF About
  <2>2. Listing(r.table, r.of) \subseteq Listing(r.table, r.of)'
    <3>1. feedback \in Seq(Rating) /\ attestations \in Seq(Statement) /\ audit \in Seq(Audit)
      BY DEF TypeOK
    <3>2. /\ About(feedback, r.of) \subseteq About(feedback', r.of)
          /\ About(attestations, r.of) \subseteq About(attestations', r.of)
          /\ DOMAIN audit \subseteq DOMAIN audit'
      BY <2>1, <3>1
    <3>. QED
      BY <1>1, <1>3, <3>2 DEF Listing, Table
  <2>3. \A i, j \in Listing(r.table, r.of) : Before(r.table, j, i) => Before(r.table, j, i)'
    BY <1>3 DEF Before
  <2>. QED
    BY <2>2, <2>3, AheadStays
<1>. QED
  BY <1>2, <1>3

(* The writes, which leave a calm reader's rows where they are, or disturb   *)
(* it.                                                                     *)
LEMMA CalmStays ==
    ASSUME TypeOK, TypeOK', ReaderAhead, reader' = reader,
           reader # NoReader /\ reader.table = "resources" =>
               \A x \in Name : Has(reader.of, x) => resources'[x] = resources[x],
           feedback' = feedback \/ \E row \in Rating : feedback' = Append(feedback, row),
           attestations' = attestations
               \/ \E row \in Statement : attestations' = Append(attestations, row),
           audit' = audit \/ \E row \in Audit : audit' = Append(audit, row)
    PROVE  ReaderAhead'
<1>. SUFFICES ASSUME reader # NoReader, reader.calm PROVE Ahead(reader)'
  BY DEF ReaderAhead
<1>1. PICK r \in Reader : r = reader
  BY DEF TypeOK
<1>2. Ahead(r)
  BY <1>1 DEF ReaderAhead
<1>3. r.table = "resources" => \A x \in Name : Has(r.of, x) => resources'[x] = resources[x]
  BY <1>1
<1>4. Ahead(r)'
  BY <1>2, <1>3, RowsCameIn
<1>. QED
  BY <1>1, <1>4 DEF Ahead

(* The audit row of a write, or none. *)
LEMMA AuditGrows ==
    ASSUME TypeOK, NEW event \in Event, NEW subject \in Name \cup Gaid,
           AuditRow(event, subject) \/ AuditResource(event, subject)
    PROVE  audit' = audit \/ \E row \in Audit : audit' = Append(audit, row)
<1>1. [event |-> event, subject |-> subject] \in Audit
  BY DEF Audit
<1>. QED
  BY <1>1 DEF AuditRow, AuditResource, Log, Cut

(* A row that goes or moves. *)
LEMMA DisturbedReader ==
    ASSUME TypeOK, TypeOK', ReaderAhead, NEW name \in Name, Disturb(name),
           \A x \in Name \ {name} : resources'[x] = resources[x],
           UNCHANGED <<feedback, attestations>>,
           audit' = audit \/ \E row \in Audit : audit' = Append(audit, row)
    PROVE  ReaderAhead'
<1>1. CASE reader # NoReader /\ reader.table = "resources" /\ Has(reader.of, name)
  <2>1. reader' = [reader EXCEPT !.calm = FALSE] /\ reader \in Reader
    BY <1>1 DEF Disturb, TypeOK
  <2>2. ~ reader'.calm
    BY <2>1 DEF Reader
  <2>. QED
    BY <2>2 DEF ReaderAhead
<1>2. CASE ~ (reader # NoReader /\ reader.table = "resources" /\ Has(reader.of, name))
  <2>1. reader' = reader
    BY <1>2 DEF Disturb
  <2>2. reader # NoReader /\ reader.table = "resources" =>
           \A x \in Name : Has(reader.of, x) => resources'[x] = resources[x]
    BY <1>2
  <2>. QED
    BY <2>1, <2>2, CalmStays
<1>. QED
  BY <1>1, <1>2

LEMMA ReaderStep ==
    ASSUME TypeOK, TypeOK', ReaderAhead, [Next]_vars
    PROVE  ReaderAhead'
<1>. USE DEF tables, history
<1>1. ASSUME NEW kind \in Kind, NEW name \in Name,
             PublishResource(kind, name) \/ DeleteResource(kind, name)
      PROVE  ReaderAhead'
  <2>1. /\ Disturb(name)
        /\ \A x \in Name \ {name} : resources'[x] = resources[x]
        /\ UNCHANGED <<feedback, attestations>>
    BY <1>1 DEF PublishResource, DeleteResource, TypeOK
  <2>2. audit' = audit \/ \E row \in Audit : audit' = Append(audit, row)
    BY <1>1, AuditGrows DEF PublishResource, DeleteResource, Event
  <2>. QED
    BY <2>1, <2>2, DisturbedReader
<1>10. ASSUME NEW name \in Name, NEW g \in Gaid, ReceiveRevocation(name, g)
       PROVE  ReaderAhead'
  <2>1. /\ Disturb(name)
        /\ \A x \in Name \ {name} : resources'[x] = resources[x]
        /\ UNCHANGED <<feedback, attestations>>
    BY <1>10 DEF ReceiveRevocation, TypeOK
  <2>2. [event |-> "revoked_by_peer", subject |-> g] \in Audit
    BY DEF Audit, Event
  <2>3. audit' = audit \/ \E row \in Audit : audit' = Append(audit, row)
    BY <1>10, <2>2 DEF ReceiveRevocation, Log, Cut
  <2>. QED
    BY <2>1, <2>3, DisturbedReader
<1>11. ASSUME NEW item \in SeedFile, SeedItem(item)
       PROVE  ReaderAhead'
  <2>1. item.name \in Name
    BY StoreAssumption DEF Resource
  <2>2. /\ Disturb(item.name)
        /\ \A x \in Name \ {item.name} : resources'[x] = resources[x]
        /\ UNCHANGED <<feedback, attestations, audit>>
    BY <1>11, <2>1 DEF SeedItem, TypeOK
  <2>. QED
    BY <2>1, <2>2, DisturbedReader
<1>2. ASSUME NEW kind \in Kind, NEW name \in Name, UpdateResource(kind, name)
      PROVE  ReaderAhead'
  <2>1. UNCHANGED <<resources, feedback, attestations, reader>>
    BY <1>2 DEF UpdateResource
  <2>2. audit' = audit \/ \E row \in Audit : audit' = Append(audit, row)
    BY <1>2, AuditGrows DEF UpdateResource, Event
  <2>. QED
    BY <2>1, <2>2, CalmStays
<1>3. ASSUME NEW row \in Given, SubmitFeedback(row)
      PROVE  ReaderAhead'
  <2>1. row \in Rating /\ row.gaid \in Gaid
    BY StoreAssumption DEF Rating
  <2>2. UNCHANGED <<resources, attestations, reader>> /\ feedback' = Append(feedback, row)
    BY <1>3 DEF SubmitFeedback
  <2>3. audit' = audit \/ \E r \in Audit : audit' = Append(audit, r)
    BY <1>3, <2>1, AuditGrows DEF SubmitFeedback, Event
  <2>. QED
    BY <2>1, <2>2, <2>3, CalmStays
<1>4. ASSUME NEW row \in Usage, ReportTokens(row)
      PROVE  ReaderAhead'
  <2>1. UNCHANGED <<resources, feedback, attestations, reader>> /\ row.gaid \in Gaid
    BY <1>4 DEF ReportTokens, Usage
  <2>2. audit' = audit \/ \E r \in Audit : audit' = Append(audit, r)
    BY <1>4, <2>1, AuditGrows DEF ReportTokens, Event
  <2>. QED
    BY <2>1, <2>2, CalmStays
<1>5. ASSUME NEW row \in Statement, Attest(row)
      PROVE  ReaderAhead'
  <2>1. /\ UNCHANGED <<resources, feedback, reader>>
        /\ attestations' = Append(attestations, row)
        /\ row.gaid \in Gaid
    BY <1>5 DEF Attest, Statement
  <2>2. audit' = audit \/ \E r \in Audit : audit' = Append(audit, r)
    BY <1>5, <2>1, AuditGrows DEF Attest, Event
  <2>. QED
    BY <2>1, <2>2, CalmStays
<1>6. CASE Seed
  <2>1. reader' = NoReader \/ (reader \in Reader /\ reader' = [reader EXCEPT !.calm = FALSE])
    BY <1>6 DEF Seed, TypeOK
  <2>2. reader' = NoReader \/ ~ reader'.calm
    BY <2>1 DEF Reader
  <2>. QED
    BY <2>2 DEF ReaderAhead
<1>7. ASSUME NEW table \in Table, NEW of \in Of(table), BeginReading(table, of)
      PROVE  ReaderAhead'
  BY <1>7, BeginAhead
<1>8. CASE ReadPage
  <2>. SUFFICES ASSUME reader'.calm PROVE Ahead(reader)'
    BY DEF ReaderAhead
  <2>1. PICK r \in Reader : r = reader
    BY <1>8 DEF ReadPage, TypeOK
  <2>2. PICK s \in Reader : s = reader'
    BY <1>8, ReadPageTyped
  <2> DEFINE rows == Page(r.table, r.of, r.page)
             last == Cardinality(rows) < Limit
  <2>3. s = [r EXCEPT !.seen = @ \cup rows, !.page = @ + 1, !.finished = last]
    BY <1>8, <2>1, <2>2 DEF ReadPage
  <2>4. /\ s.table = r.table /\ s.of = r.of /\ s.owed = r.owed /\ s.calm = r.calm
        /\ s.seen = r.seen \cup rows
        /\ s.page = r.page + 1
        /\ s.finished = last
    <3>. HIDE DEF rows, last
    <3>. QED
      BY <2>3 DEF Reader
  <2>5. Ahead(r)
    BY <1>8, <2>1, <2>2, <2>4 DEF ReaderAhead, ReadPage
  <2>6. Ahead(s)
    BY <2>4, <2>5, ReadPageAhead
  <2>7. UNCHANGED <<resources, feedback, attestations, audit>>
    BY <1>8 DEF ReadPage
  <2>8. Ahead(s)'
    BY <2>6, <2>7 DEF Ahead, Listing, Offset, Before, Has, About
  <2>. QED
    BY <2>2, <2>8 DEF Ahead
<1>9. CASE UNCHANGED vars
  <2>1. UNCHANGED <<resources, feedback, attestations, audit, reader>>
    BY <1>9 DEF vars
  <2>. QED
    BY <2>1, CalmStays
<1>. QED
  BY <1>1, <1>2, <1>3, <1>4, <1>5, <1>6, <1>7, <1>8, <1>9, <1>10, <1>11
     DEF Next, Writing, Reading

-----------------------------------------------------------------------------
(* THEOREMS *)

LEMMA InitInv == Init => IInv
<1>. SUFFICES ASSUME Init PROVE IInv
  OBVIOUS
<1>1. TypeOK
  BY EmptySeq DEF Init, TypeOK
<1>2. AuditParts
  <2>1. /\ audit = <<>> /\ feedback = <<>> /\ usage = <<>> /\ attestations = <<>>
        /\ \A e \in Logged : unlogged[e] = 0
        /\ \A x \in Name : resources[x] = NoRow
    BY DEF Init
  <2>2. DOMAIN <<>> = {} /\ Len(<<>>) = 0
    OBVIOUS
  <2>3. /\ \A e, s : Told(<<>>, e, s) = {}
        /\ \A e : Ever(<<>>, e) = {}
        /\ \A g : About(<<>>, g) = {}
    BY <2>2 DEF Told, Ever, About
  <2>4. ASSUME NEW e PROVE Tally(<<>>, 0, e, <<>>)
    <3>1. /\ \A g : Cardinality(Told(<<>>, e, g)) = 0 /\ Cardinality(About(<<>>, g)) = 0
          /\ Cardinality(Ever(<<>>, e)) = 0
      BY <2>3, FS_EmptySet
    <3>. QED
      BY <2>2, <3>1 DEF Tally
  <2>5. \A x : ~ Taken(<<>>, x)
    BY <2>3 DEF Taken, ToldOf
  <2>. QED
    BY <2>1, <2>4, <2>5 DEF AuditParts, Logged
<1>3. ReaderAhead
  BY DEF Init, ReaderAhead
<1>. QED
  BY <1>1, <1>2, <1>3, AuditInParts DEF IInv

LEMMA NextInv == IInv /\ [Next]_vars => IInv'
BY TypeStep, AuditStep, ReaderStep DEF IInv

LEMMA Invariant == Spec => []IInv
BY InitInv, NextInv, PTL DEF Spec

(* Ids, rows, logs and readers keep their types, and no two resources share  *)
(* an id, for any sequence of writes, seeds and ends of the process.        *)
THEOREM RecordsTypeCorrect == Spec => []TypeOK
<1>1. IInv => TypeOK
  BY DEF IInv
<1>. QED
  BY <1>1, Invariant, PTL

(* The audit log tells what the tables hold but for what is known to be      *)
(* missing: what was seeded and what a process that ended left unsaid.      *)
THEOREM AuditIsTold == Spec => []AuditTellsState
<1>1. IInv => AuditTellsState
  BY DEF IInv
<1>. QED
  BY <1>1, Invariant, PTL

(* A client that reads to the last page misses none of the rows that were    *)
(* there when it began, for any number of rows and size of page, unless one *)
(* it reads about was deleted, published again or seeded meanwhile.         *)
THEOREM PagedReadsAreComplete == Spec => []PagedReadComplete
<1>1. IInv => PagedReadComplete
  BY DEF IInv, ReaderAhead, Ahead, PagedReadComplete
<1>. QED
  BY <1>1, Invariant, PTL

-----------------------------------------------------------------------------
(* Sums.  MapThenSumSet and FoldSet take the members of a set in an order    *)
(* that CHOOSE fixes; the lemmas show that the order does not matter.      *)

(* A family of subsets of a finite set has a minimal member. *)
LEMMA MinimalSet ==
    ASSUME NEW S, IsFiniteSet(S), NEW C, C \subseteq SUBSET S, C # {}
    PROVE  \E s \in C : \A x \in s : s \ {x} \notin C
<1>. DEFINE sizes == {Cardinality(s) : s \in C}
<1>1. \A s \in C : IsFiniteSet(s) /\ Cardinality(s) \in Nat
  <2>. TAKE s \in C
  <2>1. s \in SUBSET S
    OBVIOUS
  <2>2. IsFiniteSet(s)
    BY <2>1, FS_Subset
  <2>. QED  BY <2>2, FS_CardinalityType
<1>2. PICK n \in sizes : \A k \in sizes : n <= k
  <2>1. sizes \subseteq Nat /\ sizes # {}
    BY <1>1
  <2>. HIDE DEF sizes
  <2>. QED  BY <2>1, LeastMember
<1>3. PICK s \in C : n = Cardinality(s)
  BY <1>2
<1>4. ASSUME NEW x \in s, s \ {x} \in C
      PROVE  FALSE
  <2>1. Cardinality(s \ {x}) = Cardinality(s) - 1
    BY <1>1, <1>4, FS_RemoveElement
  <2>2. Cardinality(s) <= Cardinality(s \ {x})
    BY <1>2, <1>3, <1>4
  <2>. QED  BY <1>1, <2>1, <2>2
<1>. QED  BY <1>4

Chosen(s) == CHOOSE x \in s : TRUE

(* Numbers and fractions are added up alike. *)
Zero(what) == IF what = "fractions" THEN <<0, 1>> ELSE 0

Added(what, p, q) == IF what = "fractions" THEN Plus(p, q) ELSE p + q

(* The equation by which MapThenSumSet and the fold of OverallScore add up   *)
(* f over the subsets of S.                                                *)
Summing(what, f, S, g) ==
    g = [s \in SUBSET S |->
            IF s = {} THEN Zero(what)
            ELSE Added(what, f[Chosen(s)], g[s \ {Chosen(s)}])]

(* The member that is taken first is one. *)
LEMMA ChosenMember == \A s : s # {} => Chosen(s) \in s
BY DEF Chosen

(* The equation has a solution: it is found for ever larger sets. *)
LEMMA SummingExists ==
    ASSUME NEW what, NEW f, NEW S, IsFiniteSet(S)
    PROVE  \E g : Summing(what, f, S, g)
<1>. DEFINE Value(g, s) == IF s = {} THEN Zero(what)
                            ELSE Added(what, f[Chosen(s)], g[s \ {Chosen(s)}])
            UpTo(n, g) == \A s \in SUBSET S : Cardinality(s) <= n => g[s] = Value(g, s)
            Unfolded(g) == [s \in SUBSET S |-> Value(g, s)]
            Without == {n \in Nat : ~ \E g : UpTo(n, Unfolded(g))}
<1>1. \A s \in SUBSET S : IsFiniteSet(s) /\ Cardinality(s) \in Nat /\ Cardinality(s) <= Cardinality(S)
  BY FS_Subset, FS_CardinalityType
<1>2. \A s \in SUBSET S : s # {} =>
         /\ s \ {Chosen(s)} \in SUBSET S
         /\ Cardinality(s \ {Chosen(s)}) = Cardinality(s) - 1
  <2>. TAKE s \in SUBSET S
  <2>. HAVE s # {}
  <2>1. Chosen(s) \in s /\ IsFiniteSet(s)
    BY <1>1, ChosenMember
  <2>2. Cardinality(s \ {Chosen(s)}) = Cardinality(s) - 1
    BY <2>1, FS_RemoveElement
  <2>3. s \ {Chosen(s)} \in SUBSET S
    OBVIOUS
  <2>. QED  BY <2>2, <2>3
<1>3. \A n \in Nat : n \notin Without
  <2>. SUFFICES ASSUME Without # {} PROVE FALSE
    OBVIOUS
  <2>1. PICK n \in Without : \A k \in Without : n <= k
    <3>1. Without \subseteq Nat
      OBVIOUS
    <3>. HIDE DEF Without
    <3>. QED  BY <3>1, LeastMember
  <2>2. n \in Nat /\ ~ \E g : UpTo(n, Unfolded(g))
    BY <2>1
  <2>3. CASE n = 0
    <3>. DEFINE g == [s \in SUBSET S |-> 0]
    <3>1. ASSUME NEW s \in SUBSET S, Cardinality(s) <= 0
          PROVE  Unfolded(g)[s] = Value(Unfolded(g), s)
      <4>1. s = {}
        BY <1>1, <3>1, FS_EmptySet
      <4>. QED  BY <4>1
    <3>. QED  BY <2>2, <2>3, <3>1
  <2>4. CASE n # 0
    <3>1. n - 1 \in Nat /\ n - 1 \notin Without
      <4>1. n - 1 \in Nat /\ ~ (n <= n - 1)
        BY <2>2, <2>4
      <4>. HIDE DEF Without
      <4>. QED  BY <2>1, <4>1
    <3>2. PICK g : UpTo(n - 1, Unfolded(g))
      BY <3>1
    <3>. DEFINE h == Unfolded(g)
    <3>3. ASSUME NEW s \in SUBSET S, Cardinality(s) <= n
          PROVE  Unfolded(h)[s] = Value(Unfolded(h), s)
      <4>1. CASE s = {}
        BY <4>1
      <4>2. CASE s # {}
        <5>1. /\ s \ {Chosen(s)} \in SUBSET S
              /\ Cardinality(s \ {Chosen(s)}) <= n - 1
          <6>1. /\ s \ {Chosen(s)} \in SUBSET S
                /\ Cardinality(s \ {Chosen(s)}) = Cardinality(s) - 1
            BY <1>2, <4>2
          <6>2. Cardinality(s) \in Nat /\ n \in Nat /\ Cardinality(s) <= n
            BY <1>1, <2>2, <3>3
          <6>. QED  BY <6>1, <6>2
        <5>2. h[s \ {Chosen(s)}] = Value(h, s \ {Chosen(s)})
          BY <3>2, <5>1
        <5>3. Unfolded(h)[s \ {Chosen(s)}] = Value(h, s \ {Chosen(s)})
          BY <5>1
        <5>4. h[s \ {Chosen(s)}] = Unfolded(h)[s \ {Chosen(s)}]
          BY <5>2, <5>3
        <5>5. Unfolded(h)[s] = Value(h, s)
          OBVIOUS
        <5>. HIDE DEF h, Unfolded
        <5>. QED  BY <4>2, <5>4, <5>5
      <4>. QED  BY <4>1, <4>2
    <3>4. UpTo(n, Unfolded(h))
      BY <3>3
    <3>. QED  BY <2>2, <3>4
  <2>. QED  BY <2>3, <2>4
<1>4. Cardinality(S) \in Nat
  BY FS_CardinalityType
<1>5. PICK g : UpTo(Cardinality(S), Unfolded(g))
  BY <1>3, <1>4
<1>. DEFINE h == Unfolded(g)
<1>6. \A s \in SUBSET S : h[s] = Value(h, s)
  BY <1>1, <1>5
<1>7. h = [s \in SUBSET S |-> h[s]]
  OBVIOUS
<1>8. h = [s \in SUBSET S |-> Value(h, s)]
  <2>. HIDE DEF h, Value
  <2>. QED  BY <1>6, <1>7
<1>. HIDE DEF h
<1>. QED  BY <1>8 DEF Summing

(* Two solutions agree where both are defined. *)
LEMMA SummingUnique ==
    ASSUME NEW what, NEW f, NEW S, IsFiniteSet(S), NEW T, T \subseteq S,
           NEW g, Summing(what, f, S, g), NEW h, Summing(what, f, T, h)
    PROVE  g[T] = h[T]
<1>. DEFINE Wrong == {s \in SUBSET T : g[s] # h[s]}
<1>1. SUFFICES ASSUME Wrong # {} PROVE FALSE
  OBVIOUS
<1>2. IsFiniteSet(T)
  BY FS_Subset
<1>3. PICK s \in Wrong : \A x \in s : s \ {x} \notin Wrong
  <2>1. Wrong \subseteq SUBSET T
    OBVIOUS
  <2>. HIDE DEF Wrong
  <2>. QED  BY <1>1, <1>2, <2>1, MinimalSet
<1>4. s \in SUBSET T /\ s \in SUBSET S /\ g[s] # h[s]
  BY <1>3
<1>5. /\ g[s] = IF s = {} THEN Zero(what)
                            ELSE Added(what, f[Chosen(s)], g[s \ {Chosen(s)}])
      /\ h[s] = IF s = {} THEN Zero(what)
                            ELSE Added(what, f[Chosen(s)], h[s \ {Chosen(s)}])
  BY <1>4 DEF Summing
<1>6. s # {} => g[s \ {Chosen(s)}] = h[s \ {Chosen(s)}]
  BY <1>3, <1>4, ChosenMember
<1>. QED  BY <1>4, <1>5, <1>6

(* The sum of f over S. *)
Total(f, S) == MapThenSumSet(LAMBDA i : f[i], S)

(* A sum is what a solution of its equation gives. *)
LEMMA TotalSolves ==
    ASSUME NEW f, NEW S, IsFiniteSet(S)
    PROVE  \E g : Summing("numbers", f, S, g) /\ Total(f, S) = g[S]
<1>. DEFINE g == CHOOSE h : Summing("numbers", f, S, h)
<1>1. Summing("numbers", f, S, g)
  <2>1. \E h : Summing("numbers", f, S, h)
    BY SummingExists
  <2>. QED  BY <2>1
<1>2. Total(f, S) = g[S]
  BY DEF Total, MapThenSumSet, MapThenFoldSet, Summing, Chosen, Zero, Added
<1>. HIDE DEF g
<1>. QED  BY <1>1, <1>2

(* A sum is that of one member and of the others. *)
LEMMA TotalStep ==
    ASSUME NEW f, NEW S, IsFiniteSet(S)
    PROVE  Total(f, S) =
             IF S = {} THEN 0 ELSE f[Chosen(S)] + Total(f, S \ {Chosen(S)})
<1>1. PICK g : Summing("numbers", f, S, g) /\ Total(f, S) = g[S]
  BY TotalSolves
<1>2. g[S] = IF S = {} THEN 0 ELSE f[Chosen(S)] + g[S \ {Chosen(S)}]
  BY <1>1 DEF Summing, Zero, Added
<1>. DEFINE T == S \ {Chosen(S)}
<1>3. IsFiniteSet(T) /\ T \subseteq S
  BY FS_RemoveElement
<1>. HIDE DEF T
<1>4. PICK h : Summing("numbers", f, T, h) /\ Total(f, T) = h[T]
  BY <1>3, TotalSolves
<1>5. g[T] = h[T]
  BY <1>1, <1>3, <1>4, SummingUnique
<1>. QED  BY <1>1, <1>2, <1>4, <1>5 DEF T

(* A sum of natural numbers is one. *)
LEMMA TotalTyped ==
    ASSUME NEW f, NEW S, IsFiniteSet(S), \A i \in S : f[i] \in Nat
    PROVE  \A s \in SUBSET S : Total(f, s) \in Nat
<1>. DEFINE Wrong == {s \in SUBSET S : Total(f, s) \notin Nat}
<1>1. SUFFICES ASSUME Wrong # {} PROVE FALSE
  OBVIOUS
<1>2. PICK s \in Wrong : \A x \in s : s \ {x} \notin Wrong
  <2>1. Wrong \subseteq SUBSET S
    OBVIOUS
  <2>. HIDE DEF Wrong
  <2>. QED  BY <1>1, <2>1, MinimalSet
<1>3. s \in SUBSET S /\ Total(f, s) \notin Nat
  BY <1>2
<1>4. IsFiniteSet(s)
  BY <1>3, FS_Subset
<1>5. Total(f, s) = IF s = {} THEN 0 ELSE f[Chosen(s)] + Total(f, s \ {Chosen(s)})
  BY <1>4, TotalStep
<1>6. s # {} => Chosen(s) \in s
  BY ChosenMember
<1>7. s # {} => Total(f, s \ {Chosen(s)}) \in Nat
  BY <1>2, <1>3, <1>6
<1>8. s # {} => f[Chosen(s)] \in Nat
  BY <1>3, <1>6
<1>. QED  BY <1>3, <1>5, <1>7, <1>8

(* Whichever member comes first. *)
LEMMA TotalAny ==
    ASSUME NEW f, NEW S, IsFiniteSet(S), \A i \in S : f[i] \in Nat
    PROVE  \A s \in SUBSET S : \A x \in s : Total(f, s) = f[x] + Total(f, s \ {x})
<1>. DEFINE Wrong == {s \in SUBSET S : \E x \in s : Total(f, s) # f[x] + Total(f, s \ {x})}
<1>1. SUFFICES ASSUME Wrong # {} PROVE FALSE
  OBVIOUS
<1>2. PICK s \in Wrong : \A x \in s : s \ {x} \notin Wrong
  <2>1. Wrong \subseteq SUBSET S
    OBVIOUS
  <2>. HIDE DEF Wrong
  <2>. QED  BY <1>1, <2>1, MinimalSet
<1>3. PICK x \in s : Total(f, s) # f[x] + Total(f, s \ {x})
  BY <1>2
<1>. DEFINE c == Chosen(s)
<1>4. s \in SUBSET S /\ c \in s /\ IsFiniteSet(s)
  <2>1. s \in SUBSET S
    BY <1>2
  <2>2. s # {}
    BY <1>3
  <2>. QED  BY <2>1, <2>2, ChosenMember, FS_Subset
<1>5. Total(f, s) = f[c] + Total(f, s \ {c})
  BY <1>4, TotalStep
<1>6. x # c
  BY <1>3, <1>5
<1>. HIDE DEF c
<1>7. \A y \in s : s \ {y} \in SUBSET S
  BY <1>4
<1>8. Total(f, s \ {c}) = f[x] + Total(f, (s \ {c}) \ {x})
  <2>1. x \in s \ {c}
    BY <1>6
  <2>2. s \ {c} \notin Wrong
    BY <1>2, <1>4
  <2>. QED  BY <1>4, <1>7, <2>1, <2>2
<1>9. Total(f, s \ {x}) = f[c] + Total(f, (s \ {x}) \ {c})
  <2>1. c \in s \ {x}
    BY <1>4, <1>6
  <2>2. s \ {x} \notin Wrong
    BY <1>2
  <2>. QED  BY <1>7, <2>1, <2>2
<1>10. (s \ {c}) \ {x} = (s \ {x}) \ {c}
  OBVIOUS
<1>11. f[x] \in Nat /\ f[c] \in Nat /\ Total(f, (s \ {x}) \ {c}) \in Nat
  <2>1. (s \ {x}) \ {c} \in SUBSET S
    BY <1>4
  <2>. QED  BY <1>4, <2>1, TotalTyped
<1>. QED  BY <1>3, <1>5, <1>8, <1>9, <1>10, <1>11

(* The sum over two sets that share nothing. *)
LEMMA TotalUnion ==
    ASSUME NEW f, NEW A, NEW B, IsFiniteSet(A), IsFiniteSet(B), A \cap B = {},
           \A i \in A \cup B : f[i] \in Nat
    PROVE  Total(f, A \cup B) = Total(f, A) + Total(f, B)
<1>. DEFINE Wrong == {b \in SUBSET B : Total(f, A \cup b) # Total(f, A) + Total(f, b)}
<1>1. SUFFICES ASSUME Wrong # {} PROVE FALSE
  OBVIOUS
<1>2. PICK b \in Wrong : \A x \in b : b \ {x} \notin Wrong
  <2>1. Wrong \subseteq SUBSET B
    OBVIOUS
  <2>. HIDE DEF Wrong
  <2>. QED  BY <1>1, <2>1, MinimalSet
<1>3. b \in SUBSET B /\ Total(f, A \cup b) # Total(f, A) + Total(f, b)
  BY <1>2
<1>4. IsFiniteSet(A \cup B)
  BY FS_Union
<1>5. \A s \in SUBSET (A \cup B) : Total(f, s) \in Nat
  BY <1>4, TotalTyped
<1>6. A \in SUBSET (A \cup B) /\ \A c \in SUBSET B : c \in SUBSET (A \cup B) /\ A \cup c \in SUBSET (A \cup B)
  OBVIOUS
<1>7. CASE b = {}
  <2>1. Total(f, {}) = 0
    BY TotalStep, FS_EmptySet
  <2>2. A \cup b = A /\ Total(f, A) \in Nat
    BY <1>5, <1>6, <1>7
  <2>. QED  BY <1>3, <1>7, <2>1, <2>2
<1>8. ASSUME NEW x \in b PROVE FALSE
  <2>1. Total(f, A \cup (b \ {x})) = Total(f, A) + Total(f, b \ {x})
    BY <1>2, <1>3
  <2>2. Total(f, b) = f[x] + Total(f, b \ {x})
    BY <1>3, <1>4, <1>6, TotalAny
  <2>3. Total(f, A \cup b) = f[x] + Total(f, (A \cup b) \ {x})
    <3>1. x \in A \cup b /\ A \cup b \in SUBSET (A \cup B)
      BY <1>3, <1>6
    <3>. QED  BY <1>4, <3>1, TotalAny
  <2>4. (A \cup b) \ {x} = A \cup (b \ {x})
    BY <1>3
  <2>5. f[x] \in Nat /\ Total(f, b \ {x}) \in Nat /\ Total(f, A) \in Nat
    <3>1. x \in A \cup B /\ b \ {x} \in SUBSET (A \cup B)
      BY <1>3
    <3>. QED  BY <1>5, <1>6, <3>1
  <2>6. Total(f, A \cup b) = f[x] + (Total(f, A) + Total(f, b \ {x}))
    BY <2>1, <2>3, <2>4
  <2>7. Total(f, A) + Total(f, b) = Total(f, A) + (f[x] + Total(f, b \ {x}))
    BY <2>2
  <2>. QED  BY <1>3, <2>5, <2>6, <2>7
<1>. QED  BY <1>7, <1>8

-----------------------------------------------------------------------------
(* Token usage. *)

(* The tokens of each usage. *)
Tokens == [i \in DOMAIN usage |-> usage[i].tokens]

(* The total of token usages, as a sum of that function. *)
LEMMA TokensAreTotal ==
    ASSUME NEW rows, IsFiniteSet(rows), rows \subseteq DOMAIN usage
    PROVE  TokensOf(rows) = Total(Tokens, rows)
<1>. DEFINE Adding(h) ==
       h = [s \in SUBSET rows |-> IF s = {} THEN 0
              ELSE usage[Chosen(s)].tokens + h[s \ {Chosen(s)}]]
            h == CHOOSE k : Adding(k)
<1>1. PICK k : Summing("numbers", Tokens, rows, k) /\ Total(Tokens, rows) = k[rows]
  BY TotalSolves
<1>2. \A s \in SUBSET rows : s # {} => Tokens[Chosen(s)] = usage[Chosen(s)].tokens
  BY ChosenMember DEF Tokens
<1>3. ASSUME NEW f
      PROVE  Adding(f) <=> Summing("numbers", Tokens, rows, f)
  BY <1>2 DEF Summing, Zero, Added
<1>4. Adding(h)
  <2>1. Adding(k)
    BY <1>1, <1>3
  <2>. HIDE DEF Adding
  <2>. QED  BY <2>1
<1>5. TokensOf(rows) = h[rows]
  BY DEF TokensOf, MapThenSumSet, MapThenFoldSet, Chosen
<1>6. Summing("numbers", Tokens, rows, h)
  BY <1>3, <1>4
<1>. HIDE DEF h
<1>. QED  BY <1>1, <1>5, <1>6, SummingUnique

(* The usages that are reported under a name. *)
RowsUnder(g, m) == IF OfModel(g, m) # {} THEN OfModel(g, m) ELSE OfModel(g, NoModel)

(* What a breakdown holds under a name, and that no usage is under two. *)
LEMMA Breakdown ==
    ASSUME TypeOK, StoreAssumption, NEW g \in Gaid, NEW m \in DOMAIN ModelBreakdown(g)
    PROVE  /\ RowsUnder(g, m) \subseteq About(usage, g)
           /\ ModelBreakdown(g)[m] = TokensOf(RowsUnder(g, m))
           /\ \A i \in RowsUnder(g, m) :
                 usage[i].model = m \/ (m = Unknown /\ usage[i].model = NoModel)
           /\ m \in Model
<1>1. m \in Model /\ (OfModel(g, m) # {} \/ (m = Unknown /\ OfModel(g, NoModel) # {}))
  BY DEF ModelBreakdown
<1>2. ModelBreakdown(g)[m] =
        IF OfModel(g, m) # {} THEN TokensOf(OfModel(g, m)) ELSE TokensOf(OfModel(g, NoModel))
  BY DEF ModelBreakdown
<1>3. ModelBreakdown(g)[m] = TokensOf(RowsUnder(g, m))
  BY <1>2 DEF RowsUnder
<1>4. \A i \in RowsUnder(g, m) :
         usage[i].model = m \/ (m = Unknown /\ usage[i].model = NoModel)
  BY <1>1 DEF RowsUnder, OfModel
<1>. QED  BY <1>1, <1>3, <1>4 DEF RowsUnder, OfModel

(* What is known of every usage. *)
LEMMA UsageTyped ==
    ASSUME TypeOK, StoreAssumption, NEW g \in Gaid
    PROVE  \A i \in About(usage, g) :
              i \in DOMAIN usage /\ usage[i].model \in Model \cup {NoModel} /\ Tokens[i] \in Nat
<1>1. usage \in Seq(Usage) /\ DOMAIN usage = 1..Len(usage)
  BY DEF TypeOK
<1>2. \A i \in DOMAIN usage : usage[i] \in Usage
  BY <1>1
<1>3. \A i \in About(usage, g) : i \in DOMAIN usage /\ usage[i] \in Usage
  BY <1>2 DEF About
<1>. QED  BY <1>3 DEF Tokens, Usage, StoreAssumption

(* The names of a breakdown are finitely many. *)
LEMMA NamesFinite ==
    ASSUME TypeOK, NEW g \in Gaid
    PROVE  IsFiniteSet(DOMAIN ModelBreakdown(g)) /\ IsFiniteSet(About(usage, g))
<1>1. usage \in Seq(Usage) /\ Len(usage) \in Nat /\ DOMAIN usage = 1..Len(usage)
  BY DEF TypeOK
<1>2. IsFiniteSet(About(usage, g))
  <2>1. IsFiniteSet(1..Len(usage))
    BY <1>1, FS_Interval
  <2>2. About(usage, g) \in SUBSET (1..Len(usage))
    BY <1>1 DEF About
  <2>. QED  BY <2>1, <2>2, FS_Subset
<1>. DEFINE named == {usage[i].model : i \in About(usage, g)}
            model == [i \in About(usage, g) |-> usage[i].model]
<1>3. IsFiniteSet(named)
  <2>1. model \in Surjection(About(usage, g), named)
    BY DEF Surjection
  <2>. HIDE DEF model, named
  <2>. QED  BY <1>2, <2>1, FS_Surjection
<1>4. IsFiniteSet(named \cup {Unknown})
  BY <1>3, FS_AddElement
<1>5. DOMAIN ModelBreakdown(g) \in SUBSET (named \cup {Unknown})
  BY DEF ModelBreakdown, OfModel
<1>. HIDE DEF named
<1>. QED  BY <1>2, <1>4, <1>5, FS_Subset

(* The breakdown, added up name by name. *)
LEMMA BreakdownAdds ==
    ASSUME TypeOK, StoreAssumption, NEW g \in Gaid
    PROVE  Total(ModelBreakdown(g), DOMAIN ModelBreakdown(g)) =
             Total(Tokens, UNION {RowsUnder(g, m) : m \in DOMAIN ModelBreakdown(g)})
<1>. DEFINE parts == ModelBreakdown(g)
            names == DOMAIN parts
            Rows(M) == UNION {RowsUnder(g, m) : m \in M}
            Wrong == {M \in SUBSET names : Total(parts, M) # Total(Tokens, Rows(M))}
<1>1. /\ IsFiniteSet(names) /\ IsFiniteSet(About(usage, g))
      /\ \A m \in names : RowsUnder(g, m) \subseteq About(usage, g)
  BY NamesFinite, Breakdown
<1>2. \A i \in About(usage, g) : Tokens[i] \in Nat /\ i \in DOMAIN usage
  BY UsageTyped
<1>3. \A m \in names : parts[m] = Total(Tokens, RowsUnder(g, m))
  <2>. TAKE m \in names
  <2>1. IsFiniteSet(RowsUnder(g, m))
    <3>1. RowsUnder(g, m) \in SUBSET About(usage, g)
      BY <1>1
    <3>. QED  BY <1>1, <3>1, FS_Subset
  <2>2. RowsUnder(g, m) \subseteq DOMAIN usage
    BY <1>1, <1>2
  <2>3. parts[m] = TokensOf(RowsUnder(g, m))
    BY Breakdown
  <2>. QED  BY <2>1, <2>2, <2>3, TokensAreTotal
<1>4. \A M \in SUBSET names : Rows(M) \subseteq About(usage, g) /\ IsFiniteSet(Rows(M))
  <2>. TAKE M \in SUBSET names
  <2>1. Rows(M) \in SUBSET About(usage, g)
    BY <1>1
  <2>. HIDE DEF Rows
  <2>. QED  BY <1>1, <2>1, FS_Subset
<1>5. SUFFICES ASSUME Wrong # {} PROVE FALSE
  OBVIOUS
<1>6. PICK M \in Wrong : \A x \in M : M \ {x} \notin Wrong
  <2>1. Wrong \subseteq SUBSET names
    OBVIOUS
  <2>. HIDE DEF Wrong
  <2>. QED  BY <1>1, <1>5, <2>1, MinimalSet
<1>7. M \in SUBSET names /\ Total(parts, M) # Total(Tokens, Rows(M)) /\ IsFiniteSet(M)
  <2>1. M \in SUBSET names /\ Total(parts, M) # Total(Tokens, Rows(M))
    BY <1>6
  <2>. QED  BY <1>1, <2>1, FS_Subset
<1>8. CASE M = {}
  <2>1. Rows(M) = {}
    BY <1>8
  <2>2. \A f : Total(f, {}) = 0
    BY TotalStep, FS_EmptySet
  <2>. QED  BY <1>7, <1>8, <2>1, <2>2
<1>9. CASE M # {}
  <2>. DEFINE m == Chosen(M)
              rest == M \ {m}
  <2>1. m \in M /\ m \in names /\ rest \in SUBSET names
    BY <1>7, <1>9, ChosenMember
  <2>2. Total(parts, M) = parts[m] + Total(parts, rest)
    BY <1>7, <1>9, TotalStep
  <2>3. Total(parts, rest) = Total(Tokens, Rows(rest))
    BY <1>6, <2>1
  <2>4. Rows(M) = RowsUnder(g, m) \cup Rows(rest)
    BY <2>1
  <2>5. RowsUnder(g, m) \cap Rows(rest) = {}
    <3>1. ASSUME NEW i \in RowsUnder(g, m), NEW k \in rest, i \in RowsUnder(g, k)
          PROVE  FALSE
      <4>1. k \in names /\ k # m
        BY <2>1
      <4>. HIDE DEF m, rest
      <4>2. /\ usage[i].model = m \/ (m = Unknown /\ usage[i].model = NoModel)
            /\ usage[i].model = k \/ (k = Unknown /\ usage[i].model = NoModel)
            /\ m \in Model /\ k \in Model
        BY <2>1, <3>1, <4>1, Breakdown
      <4>. QED  BY <4>1, <4>2 DEF StoreAssumption
    <3>. QED  BY <3>1
  <2>. HIDE DEF m, rest
  <2>6. Total(Tokens, Rows(M)) = Total(Tokens, RowsUnder(g, m)) + Total(Tokens, Rows(rest))
    <3>1. IsFiniteSet(RowsUnder(g, m))
      <4>1. RowsUnder(g, m) \in SUBSET About(usage, g)
        BY <1>1, <2>1
      <4>. QED  BY <1>1, <4>1, FS_Subset
    <3>2. IsFiniteSet(Rows(rest))
      BY <1>4, <2>1
    <3>3. \A i \in RowsUnder(g, m) \cup Rows(rest) : Tokens[i] \in Nat
      <4>. HIDE DEF Rows
      <4>. QED  BY <1>1, <1>2, <1>4, <2>1
    <3>4. Total(Tokens, RowsUnder(g, m) \cup Rows(rest))
            = Total(Tokens, RowsUnder(g, m)) + Total(Tokens, Rows(rest))
      <4>. HIDE DEF Rows
      <4>. QED  BY <2>5, <3>1, <3>2, <3>3, TotalUnion
    <3>. HIDE DEF Rows
    <3>. QED  BY <2>4, <3>4
  <2>. QED  BY <1>3, <1>7, <2>1, <2>2, <2>3, <2>6
<1>. QED  BY <1>8, <1>9

(* What the names of a breakdown leave out. *)
LEMMA BreakdownIsWhole ==
    ASSUME TypeOK, StoreAssumption
    PROVE  AnalyticsAddUp
<1>. SUFFICES ASSUME NEW g \in Gaid
              PROVE  LET parts == ModelBreakdown(g)
                         total == TokensOf(About(usage, g)) IN
                     MapThenSumSet(LAMBDA m : parts[m], DOMAIN parts) =
                       IF OfModel(g, Unknown) # {} THEN total - TokensOf(OfModel(g, NoModel))
                       ELSE total
  BY DEF AnalyticsAddUp
<1>. DEFINE all  == About(usage, g)
            none == OfModel(g, NoModel)
            names == DOMAIN ModelBreakdown(g)
            rows == UNION {RowsUnder(g, m) : m \in names}
<1>1. Total(ModelBreakdown(g), names) = Total(Tokens, rows)
  BY BreakdownAdds
<1>2. IsFiniteSet(all) /\ none \subseteq all /\ \A i \in all : Tokens[i] \in Nat /\ i \in DOMAIN usage
  BY NamesFinite, UsageTyped DEF OfModel
<1>3. rows = IF OfModel(g, Unknown) # {} THEN all \ none ELSE all
  <2>1. \A m \in names : RowsUnder(g, m) \subseteq all
    BY Breakdown
  <2>2. ASSUME NEW i \in all
        PROVE  /\ usage[i].model \in Model => i \in rows
               /\ usage[i].model = NoModel => (i \in rows <=> OfModel(g, Unknown) = {})
    <3>1. usage[i].model \in Model => usage[i].model \in names /\ i \in RowsUnder(g, usage[i].model)
      BY DEF ModelBreakdown, OfModel, RowsUnder
    <3>2. ASSUME usage[i].model = NoModel, OfModel(g, Unknown) = {}
          PROVE  Unknown \in names /\ i \in RowsUnder(g, Unknown)
      BY <3>2 DEF ModelBreakdown, OfModel, RowsUnder, StoreAssumption
    <3>3. ASSUME usage[i].model = NoModel, NEW m \in names, i \in RowsUnder(g, m)
          PROVE  OfModel(g, Unknown) = {}
      <4>1. m \in Model /\ (usage[i].model = m \/ m = Unknown)
        BY <3>3, Breakdown
      <4>2. m = Unknown
        BY <3>3, <4>1 DEF StoreAssumption
      <4>3. OfModel(g, Unknown) # {} => RowsUnder(g, m) = OfModel(g, Unknown)
        BY <4>2 DEF RowsUnder
      <4>4. i \notin OfModel(g, Unknown)
        BY <3>3 DEF OfModel, StoreAssumption
      <4>. QED  BY <3>3, <4>3, <4>4
    <3>. QED  BY <3>1, <3>2, <3>3
  <2>3. \A i \in all : usage[i].model \in Model \cup {NoModel}
    BY UsageTyped
  <2>4. \A i \in all : i \in none <=> usage[i].model = NoModel
    BY DEF OfModel
  <2>5. rows \subseteq all
    BY <2>1
  <2>6. NoModel \notin Model
    BY DEF StoreAssumption
  <2>. HIDE DEF rows, all, none
  <2>. QED  BY <2>2, <2>3, <2>4, <2>5, <2>6, <1>2
<1>. HIDE DEF all, none, rows, names
<1>4. Total(Tokens, all) = Total(Tokens, all \ none) + Total(Tokens, none)
  <2>1. none \in SUBSET all /\ all \ none \in SUBSET all
    BY <1>2
  <2>2. IsFiniteSet(none) /\ IsFiniteSet(all \ none)
    BY <1>2, <2>1, FS_Subset
  <2>3. (all \ none) \cup none = all /\ (all \ none) \cap none = {}
    BY <1>2
  <2>4. \A i \in (all \ none) \cup none : Tokens[i] \in Nat
    BY <1>2
  <2>5. Total(Tokens, (all \ none) \cup none) = Total(Tokens, all \ none) + Total(Tokens, none)
    BY <2>2, <2>3, <2>4, TotalUnion
  <2>. QED  BY <2>3, <2>5
<1>5. /\ TokensOf(all) = Total(Tokens, all) /\ TokensOf(none) = Total(Tokens, none)
      /\ Total(Tokens, all \ none) \in Nat /\ Total(Tokens, none) \in Nat
  <2>1. none \in SUBSET all /\ all \ none \in SUBSET all
    BY <1>2
  <2>2. IsFiniteSet(none) /\ none \subseteq DOMAIN usage /\ all \subseteq DOMAIN usage
    BY <1>2, <2>1, FS_Subset
  <2>. QED  BY <1>2, <2>1, <2>2, TokensAreTotal, TotalTyped
<1>6. MapThenSumSet(LAMBDA m : ModelBreakdown(g)[m], DOMAIN ModelBreakdown(g)) =
        Total(ModelBreakdown(g), names)
  BY DEF Total, names
<1>. QED  BY <1>1, <1>3, <1>4, <1>5, <1>6 DEF all, none

-----------------------------------------------------------------------------
(* Reputation. *)

(* Min and Max of a bounded set that is not empty. *)
LEMMA MinAndMax ==
    ASSUME NEW n \in Nat, NEW S, S \subseteq (-n)..n, S # {}
    PROVE  /\ Min(S) \in S /\ \A j \in S : Min(S) <= j
           /\ Max(S) \in S /\ \A j \in S : j <= Max(S)
<1>. DEFINE above == {n + i : i \in S}
            below == {n - i : i \in S}
<1>1. above \subseteq Nat /\ above # {} /\ below \subseteq Nat /\ below # {}
  <2>1. \A i \in S : n + i \in Nat /\ n - i \in Nat
    OBVIOUS
  <2>. QED  BY <2>1
<1>2. (\E a \in above : \A c \in above : a <= c) /\ (\E b \in below : \A c \in below : b <= c)
  <2>. HIDE DEF above, below
  <2>. QED  BY <1>1, LeastMember
<1>3. PICK i \in S : \A j \in S : n + i <= n + j
  BY <1>2
<1>4. PICK k \in S : \A j \in S : n - k <= n - j
  BY <1>2
<1>5. (\A j \in S : i <= j) /\ (\A j \in S : j <= k)
  BY <1>3, <1>4
<1>. QED  BY <1>5 DEF Min, Max

(* A finite set of numbers has bounds. *)
LEMMA FiniteBounded ==
    ASSUME NEW S, IsFiniteSet(S), S \subseteq Int
    PROVE  \E n \in Nat : S \subseteq (-n)..n
<1>. DEFINE Wrong == {s \in SUBSET S : ~ \E n \in Nat : s \subseteq (-n)..n}
<1>1. SUFFICES ASSUME Wrong # {} PROVE FALSE
  OBVIOUS
<1>2. PICK s \in Wrong : \A x \in s : s \ {x} \notin Wrong
  <2>1. Wrong \subseteq SUBSET S
    OBVIOUS
  <2>. HIDE DEF Wrong
  <2>. QED  BY <1>1, <2>1, MinimalSet
<1>3. s \in SUBSET S /\ ~ \E n \in Nat : s \subseteq (-n)..n
  BY <1>2
<1>4. PICK x \in s : TRUE
  <2>1. s # {}
    BY <1>3
  <2>. QED  BY <2>1
<1>5. PICK n \in Nat : s \ {x} \subseteq (-n)..n
  BY <1>2, <1>3
<1>6. PICK k \in Nat : -k <= x /\ x <= k
  <2>1. x \in Int
    BY <1>3
  <2>2. CASE x >= 0
    <3>1. x \in Nat /\ -x <= x /\ x <= x
      BY <2>1, <2>2
    <3>. QED  BY <3>1
  <2>3. CASE x < 0
    <3>1. -x \in Nat /\ -(-x) <= x /\ x <= -x
      BY <2>1, <2>3
    <3>. QED  BY <3>1
  <2>. QED  BY <2>1, <2>2, <2>3
<1>7. n + k \in Nat /\ s \subseteq (-(n + k))..(n + k)
  <2>1. \A y \in s : y \in Int /\ (y = x \/ y \in (-n)..n)
    BY <1>3, <1>5
  <2>2. \A y \in s : -(n + k) <= y /\ y <= n + k
    BY <1>6, <2>1
  <2>. QED  BY <2>1, <2>2
<1>. QED  BY <1>3, <1>7

(* What is averaged lies between bounds, and so does its sum. *)
LEMMA TotalBounded ==
    ASSUME NEW f, NEW S, IsFiniteSet(S), NEW lo \in Int, NEW hi \in Int,
           \A i \in S : f[i] \in lo .. hi
    PROVE  /\ Total(f, S) \in Int
           /\ lo * Cardinality(S) <= Total(f, S)
           /\ Total(f, S) <= hi * Cardinality(S)
<1>. DEFINE Right(s) == /\ Total(f, s) \in Int
                        /\ lo * Cardinality(s) <= Total(f, s)
                        /\ Total(f, s) <= hi * Cardinality(s)
            Wrong == {s \in SUBSET S : ~ Right(s)}
<1>1. \A i \in S : f[i] \in Int /\ lo <= f[i] /\ f[i] <= hi
  OBVIOUS
<1>3. SUFFICES ASSUME Wrong # {} PROVE FALSE
  <2>1. S \in SUBSET S
    OBVIOUS
  <2>. QED  BY <2>1
<1>4. PICK s \in Wrong : \A x \in s : s \ {x} \notin Wrong
  <2>1. Wrong \subseteq SUBSET S
    OBVIOUS
  <2>. HIDE DEF Wrong
  <2>. QED  BY <1>3, <2>1, MinimalSet
<1>5. s \in SUBSET S /\ ~ Right(s)
  BY <1>4
<1>6. IsFiniteSet(s) /\ Cardinality(s) \in Nat
  BY <1>5, FS_Subset, FS_CardinalityType
<1>7. CASE s = {}
  <2>1. Total(f, s) = 0 /\ Cardinality(s) = 0
    BY <1>6, <1>7, TotalStep, FS_EmptySet
  <2>. QED  BY <1>5, <2>1
<1>8. CASE s # {}
  <2>. DEFINE c == Chosen(s)
              t == s \ {c}
  <2>1. c \in s /\ c \in S /\ t \in SUBSET S
    BY <1>5, <1>8, ChosenMember
  <2>2. Total(f, s) = f[c] + Total(f, t)
    BY <1>6, <1>8, TotalStep
  <2>3. Right(t)
    BY <1>4, <2>1
  <2>4. Cardinality(t) = Cardinality(s) - 1 /\ Cardinality(s) - 1 \in Nat
    <3>1. Cardinality(t) = Cardinality(s) - 1 /\ IsFiniteSet(t)
      BY <1>6, <2>1, FS_RemoveElement
    <3>. QED  BY <3>1, FS_CardinalityType
  <2>. HIDE DEF c, t
  <2>. DEFINE k == Cardinality(s) - 1
              a == Total(f, t)
              v == f[c]
  <2>5. k \in Nat /\ a \in Int /\ v \in Int /\ lo <= v /\ v <= hi /\ lo * k <= a /\ a <= hi * k
    BY <1>1, <2>1, <2>3, <2>4
  <2>6. Cardinality(s) = k + 1 /\ Total(f, s) = v + a
    BY <1>6, <2>2
  <2>. HIDE DEF k, a, v
  <2>7. lo * (k + 1) = lo * k + lo /\ hi * (k + 1) = hi * k + hi
    BY <2>5
  <2>8. lo * k \in Int /\ hi * k \in Int
    BY <2>5
  <2>9. v + a \in Int /\ lo * (k + 1) <= v + a /\ v + a <= hi * (k + 1)
    BY <2>5, <2>7, <2>8
  <2>. QED  BY <1>5, <2>6, <2>9
<1>. QED  BY <1>7, <1>8

(* p is the sum of k fractions between lo and hi. *)
Within(p, k, lo, hi) ==
    /\ p \in Int \X (Nat \ {0})
    /\ lo * (p[2] * k) <= p[1]
    /\ p[1] <= hi * (p[2] * k)

(* A product grows with its factors. *)
LEMMA Monotone ==
    ASSUME NEW a \in Int, NEW b \in Int, NEW c \in Nat, a <= b
    PROVE  a * c <= b * c
OBVIOUS

(* One more fraction between the bounds. *)
LEMMA PlusWithin ==
    ASSUME NEW k \in Nat, NEW lo \in Int, NEW hi \in Int,
           NEW p, Within(p, 1, lo, hi), NEW q, Within(q, k, lo, hi)
    PROVE  Within(Plus(p, q), k + 1, lo, hi)
<1>1. PICK a \in Int, b \in Nat \ {0} : p = <<a, b>>
  BY DEF Within
<1>2. PICK c \in Int, e \in Nat \ {0} : q = <<c, e>>
  BY DEF Within
<1>3. Plus(p, q) = <<a * e + c * b, b * e>>
  BY <1>1, <1>2 DEF Plus
<1>4. a * e + c * b \in Int /\ b * e \in Nat \ {0}
  <2>1. a * e \in Int /\ c * b \in Int /\ b * e \in Nat
    OBVIOUS
  <2>2. b * e # 0
    OBVIOUS
  <2>. QED  BY <2>1, <2>2
<1>5. lo * b <= a /\ a <= hi * b /\ lo * (e * k) <= c /\ c <= hi * (e * k)
  <2>1. lo * (b * 1) <= a /\ a <= hi * (b * 1)
    BY <1>1 DEF Within
  <2>2. lo * (e * k) <= c /\ c <= hi * (e * k)
    BY <1>2 DEF Within
  <2>. QED  BY <2>1, <2>2
<1>6. /\ (lo * b) * e <= a * e /\ a * e <= (hi * b) * e
      /\ (lo * (e * k)) * b <= c * b /\ c * b <= (hi * (e * k)) * b
  <2>1. lo * b \in Int /\ hi * b \in Int /\ lo * (e * k) \in Int /\ hi * (e * k) \in Int
    OBVIOUS
  <2>. QED  BY <1>5, <2>1, Monotone
<1>7. /\ lo * ((b * e) * (k + 1)) = (lo * b) * e + (lo * (e * k)) * b
      /\ hi * ((b * e) * (k + 1)) = (hi * b) * e + (hi * (e * k)) * b
  OBVIOUS
<1>8. /\ (lo * b) * e \in Int /\ (hi * b) * e \in Int /\ a * e \in Int /\ c * b \in Int
      /\ (lo * (e * k)) * b \in Int /\ (hi * (e * k)) * b \in Int
  OBVIOUS
<1>9. /\ lo * ((b * e) * (k + 1)) <= a * e + c * b
      /\ a * e + c * b <= hi * ((b * e) * (k + 1))
  BY <1>6, <1>7, <1>8
<1>. QED  BY <1>3, <1>4, <1>9 DEF Within

(* A quotient is rounded down. *)
LEMMA Quotient ==
    ASSUME NEW n \in Int, NEW m \in Nat \ {0}
    PROVE  n \div m \in Int /\ m * (n \div m) <= n /\ n < m * (n \div m) + m
OBVIOUS

(* The greater fraction has the greater quotient, whatever they are extended *)
(* by.                                                                     *)
LEMMA QuotientGrows ==
    ASSUME NEW x \in Int, NEW m \in Nat \ {0}, NEW y \in Int, NEW k \in Nat \ {0},
           x * k <= y * m
    PROVE  x \div m <= y \div k
<1>. DEFINE p == x \div m
            q == y \div k
<1>1. p \in Int /\ m * p <= x /\ x < m * p + m
  BY Quotient
<1>2. q \in Int /\ k * q <= y /\ y < k * q + k
  BY Quotient
<1>. HIDE DEF p, q
<1>3. SUFFICES ASSUME q + 1 <= p PROVE FALSE
  BY <1>1, <1>2 DEF p, q
<1>4. (m * p) * k <= x * k
  <2>1. m * p \in Int
    BY <1>1
  <2>. QED  BY <1>1, <2>1, Monotone
<1>5. y + 1 <= k * (q + 1) /\ k * (q + 1) \in Int
  BY <1>2
<1>6. (y + 1) * m <= (k * (q + 1)) * m
  <2>1. y + 1 \in Int
    OBVIOUS
  <2>. QED  BY <1>5, <2>1, Monotone
<1>7. (k * (q + 1)) * m = (q + 1) * (k * m) /\ (m * p) * k = p * (k * m)
  BY <1>1, <1>2
<1>8. (q + 1) * (k * m) <= p * (k * m)
  <2>1. k * m \in Nat /\ q + 1 \in Int
    BY <1>2
  <2>. QED  BY <1>1, <1>3, <2>1, Monotone
<1>9. (y + 1) * m = y * m + m /\ y * m \in Int /\ x * k \in Int
  OBVIOUS
<1>10. p * (k * m) \in Int /\ (q + 1) * (k * m) \in Int
  BY <1>1, <1>2
<1>. QED  BY <1>4, <1>6, <1>7, <1>8, <1>9, <1>10

(* Rounding to hundredths keeps a fraction between the bounds, rounded. *)
LEMMA HundredthsWithin ==
    ASSUME StoreAssumption, NEW lo \in Int, NEW hi \in Int, NEW a \in Int, NEW b \in Nat \ {0},
           lo * b <= a, a <= hi * b
    PROVE  Hundredths(<<a, b>>) \in Hundredths(<<lo, 1>>) .. Hundredths(<<hi, 1>>)
<1>. DEFINE u == Scale
            c == b * u
<1>1. u \in Nat \ {0} /\ 1 * u = u
  BY DEF StoreAssumption
<1>. HIDE DEF u
<1>2. c \in Nat /\ c # 0 /\ 2 * c \in Nat \ {0} /\ 2 * u \in Nat \ {0}
  <2>1. c \in Nat /\ c # 0
    BY <1>1
  <2>. HIDE DEF c
  <2>. QED  BY <1>1, <2>1
<1>3. /\ Hundredths(<<a, b>>) = (200 * a + c) \div (2 * c)
      /\ Hundredths(<<lo, 1>>) = (200 * lo + u) \div (2 * u)
      /\ Hundredths(<<hi, 1>>) = (200 * hi + u) \div (2 * u)
  <2>1. /\ <<a, b>>[1] = a /\ <<a, b>>[2] = b /\ <<lo, 1>>[1] = lo /\ <<lo, 1>>[2] = 1
        /\ <<hi, 1>>[1] = hi /\ <<hi, 1>>[2] = 1
    OBVIOUS
  <2>. QED  BY <1>1, <2>1 DEF Hundredths, u, c
<1>4. /\ (lo * b) * (400 * u) <= a * (400 * u)
      /\ a * (400 * u) <= (hi * b) * (400 * u)
  <2>1. 400 * u \in Nat /\ lo * b \in Int /\ hi * b \in Int
    BY <1>1
  <2>. QED  BY <2>1, Monotone
<1>5. /\ (200 * lo + u) * (2 * c) = (lo * b) * (400 * u) + 2 * (u * c)
      /\ (200 * hi + u) * (2 * c) = (hi * b) * (400 * u) + 2 * (u * c)
      /\ (200 * a + c) * (2 * u) = a * (400 * u) + 2 * (u * c)
  BY <1>1
<1>6. /\ (lo * b) * (400 * u) \in Int /\ (hi * b) * (400 * u) \in Int
      /\ a * (400 * u) \in Int /\ 2 * (u * c) \in Int
  BY <1>1, <1>2
<1>. HIDE DEF c
<1>7. /\ (200 * lo + u) * (2 * c) <= (200 * a + c) * (2 * u)
      /\ (200 * a + c) * (2 * u) <= (200 * hi + u) * (2 * c)
  BY <1>4, <1>5, <1>6
<1>8. 200 * lo + u \in Int /\ 200 * hi + u \in Int /\ 200 * a + c \in Int
  BY <1>1, <1>2
<1>9. /\ (200 * lo + u) \div (2 * u) <= (200 * a + c) \div (2 * c)
      /\ (200 * a + c) \div (2 * c) <= (200 * hi + u) \div (2 * u)
  BY <1>2, <1>7, <1>8, QuotientGrows
<1>10. /\ (200 * lo + u) \div (2 * u) \in Int /\ (200 * hi + u) \div (2 * u) \in Int
       /\ (200 * a + c) \div (2 * c) \in Int
  BY <1>2, <1>8, Quotient
<1>. QED  BY <1>3, <1>9, <1>10

(* The fold of OverallScore, average after average. *)
LEMMA FoldWithin ==
    ASSUME NEW lo \in Int, NEW hi \in Int, NEW S, IsFiniteSet(S), NEW avg,
           \A d \in S : Within(avg[d], 1, lo, hi),
           NEW h, Summing("fractions", avg, S, h)
    PROVE  Within(h[S], Cardinality(S), lo, hi)
<1>. DEFINE Wrong == {s \in SUBSET S : ~ Within(h[s], Cardinality(s), lo, hi)}
<1>1. SUFFICES ASSUME Wrong # {} PROVE FALSE
  <2>1. S \in SUBSET S
    OBVIOUS
  <2>. QED  BY <2>1
<1>2. PICK s \in Wrong : \A x \in s : s \ {x} \notin Wrong
  <2>1. Wrong \subseteq SUBSET S
    OBVIOUS
  <2>. HIDE DEF Wrong
  <2>. QED  BY <1>1, <2>1, MinimalSet
<1>3. s \in SUBSET S /\ ~ Within(h[s], Cardinality(s), lo, hi)
  BY <1>2
<1>4. IsFiniteSet(s) /\ Cardinality(s) \in Nat
  BY <1>3, FS_Subset, FS_CardinalityType
<1>5. h[s] = IF s = {} THEN <<0, 1>> ELSE Plus(avg[Chosen(s)], h[s \ {Chosen(s)}])
  BY <1>3 DEF Summing, Zero, Added
<1>6. CASE s = {}
  <2>1. h[s] = <<0, 1>> /\ Cardinality(s) = 0
    BY <1>4, <1>5, <1>6, FS_EmptySet
  <2>2. Within(<<0, 1>>, 0, lo, hi)
    BY DEF Within
  <2>. QED  BY <1>3, <2>1, <2>2
<1>7. CASE s # {}
  <2>. DEFINE d == Chosen(s)
              t == s \ {d}
  <2>1. d \in s /\ d \in S /\ t \in SUBSET S
    BY <1>3, <1>7, ChosenMember
  <2>2. h[s] = Plus(avg[d], h[t])
    BY <1>5, <1>7
  <2>3. Within(h[t], Cardinality(t), lo, hi)
    BY <1>2, <2>1
  <2>4. Cardinality(t) + 1 = Cardinality(s) /\ Cardinality(t) \in Nat
    <3>1. Cardinality(t) = Cardinality(s) - 1 /\ IsFiniteSet(t)
      BY <1>4, <2>1, FS_RemoveElement
    <3>2. Cardinality(t) \in Nat
      BY <3>1, FS_CardinalityType
    <3>. QED  BY <1>4, <3>1, <3>2
  <2>. HIDE DEF d, t
  <2>5. Within(Plus(avg[d], h[t]), Cardinality(t) + 1, lo, hi)
    BY <2>1, <2>3, <2>4, PlusWithin
  <2>. QED  BY <1>3, <2>2, <2>4, <2>5
<1>. QED  BY <1>6, <1>7

(* The scores that the ratings of an agent give. *)
ScoresOf(g) ==
    {feedback[p[1]].dims[p[2]] : p \in
        {p \in About(feedback, g) \X Dimension : p[2] \in DOMAIN feedback[p[1]].dims}}

(* The score of a rating in a dimension is one of them. *)
LEMMA ScoreGiven ==
    ASSUME NEW g, NEW i \in About(feedback, g), NEW d \in Dimension,
           d \in DOMAIN feedback[i].dims
    PROVE  feedback[i].dims[d] \in ScoresOf(g)
<1>. DEFINE pairs == {p \in About(feedback, g) \X Dimension : p[2] \in DOMAIN feedback[p[1]].dims}
            p == <<i, d>>
<1>1. p \in pairs
  OBVIOUS
<1>2. p[1] = i /\ p[2] = d
  OBVIOUS
<1>. HIDE DEF p, pairs
<1>3. feedback[p[1]].dims[p[2]] \in {feedback[q[1]].dims[q[2]] : q \in pairs}
  BY <1>1
<1>. QED  BY <1>2, <1>3 DEF ScoresOf, pairs

(* What is known of every rating. *)
LEMMA FeedbackTyped ==
    ASSUME TypeOK, StoreAssumption, NEW g \in Gaid
    PROVE  /\ IsFiniteSet(About(feedback, g))
           /\ \A i \in About(feedback, g) :
                /\ i \in DOMAIN feedback
                /\ DOMAIN feedback[i].dims \subseteq Dimension
                /\ IsFiniteSet(DOMAIN feedback[i].dims)
                /\ \A d \in DOMAIN feedback[i].dims : feedback[i].dims[d] \in Int
<1>1. feedback \in Seq(Rating) /\ DOMAIN feedback = 1..Len(feedback) /\ Len(feedback) \in Nat
  BY DEF TypeOK
<1>2. IsFiniteSet(About(feedback, g))
  <2>1. IsFiniteSet(1..Len(feedback))
    BY <1>1, FS_Interval
  <2>2. About(feedback, g) \in SUBSET (1..Len(feedback))
    BY <1>1 DEF About
  <2>. QED  BY <2>1, <2>2, FS_Subset
<1>3. ASSUME NEW i \in About(feedback, g)
      PROVE  /\ i \in DOMAIN feedback
             /\ DOMAIN feedback[i].dims \subseteq Dimension
             /\ IsFiniteSet(DOMAIN feedback[i].dims)
             /\ \A d \in DOMAIN feedback[i].dims : feedback[i].dims[d] \in Int
  <2>1. i \in DOMAIN feedback /\ feedback[i] \in Rating
    BY <1>1 DEF About
  <2>2. feedback[i].dims \in Dims
    BY <2>1 DEF Rating
  <2>3. PICK D \in SUBSET Dimension : IsFiniteSet(D) /\ feedback[i].dims \in [D -> Score]
    BY <2>2 DEF Dims
  <2>. QED  BY <2>1, <2>3 DEF StoreAssumption
<1>. QED  BY <1>2, <1>3

(* There are finitely many of them, and of the dimensions. *)
LEMMA ScoresFinite ==
    ASSUME TypeOK, StoreAssumption, NEW g \in Gaid
    PROVE  /\ IsFiniteSet(ScoresOf(g)) /\ ScoresOf(g) \subseteq Int
           /\ IsFiniteSet(DimensionsOf(g))
<1>. DEFINE all == About(feedback, g)
            dims == [i \in all |-> DOMAIN feedback[i].dims]
            Values(i) == {feedback[i].dims[d] : d \in DOMAIN feedback[i].dims}
            scores == [i \in all |-> Values(i)]
            dimSets == {dims[i] : i \in all}
            scoreSets == {scores[i] : i \in all}
<1>1. IsFiniteSet(all)
  BY FeedbackTyped
<1>2. \A i \in all : IsFiniteSet(dims[i])
  BY FeedbackTyped
<1>3. \A i \in all : IsFiniteSet(scores[i])
  <2>. TAKE i \in all
  <2>1. IsFiniteSet(DOMAIN feedback[i].dims)
    BY FeedbackTyped
  <2>. DEFINE f == [d \in DOMAIN feedback[i].dims |-> feedback[i].dims[d]]
  <2>2. f \in Surjection(DOMAIN feedback[i].dims, Values(i))
    BY DEF Surjection
  <2>. HIDE DEF f
  <2>3. IsFiniteSet(Values(i))
    <3>. HIDE DEF Values
    <3>. QED  BY <2>1, <2>2, FS_Surjection
  <2>. QED  BY <2>3
<1>4. IsFiniteSet(dimSets) /\ IsFiniteSet(scoreSets)
  <2>1. dims \in Surjection(all, dimSets) /\ scores \in Surjection(all, scoreSets)
    <3>. HIDE DEF Values
    <3>. QED  BY DEF Surjection
  <2>. HIDE DEF dims, scores, dimSets, scoreSets, all
  <2>. QED  BY <1>1, <2>1, FS_Surjection
<1>5. IsFiniteSet(UNION dimSets) /\ IsFiniteSet(UNION scoreSets)
  <2>1. (\A s \in dimSets : IsFiniteSet(s)) /\ (\A s \in scoreSets : IsFiniteSet(s))
    <3>. HIDE DEF dims, scores
    <3>. QED  BY <1>2, <1>3
  <2>. HIDE DEF dimSets, scoreSets
  <2>. QED  BY <1>4, <2>1, FS_UNION
<1>6. DimensionsOf(g) \in SUBSET UNION dimSets
  BY DEF DimensionsOf, Rated
<1>7. ScoresOf(g) \in SUBSET UNION scoreSets /\ ScoresOf(g) \subseteq Int
  <2>1. ASSUME NEW v \in ScoresOf(g)
        PROVE  \E i \in all : v \in scores[i] /\ v \in Int
    <3>1. PICK p \in all \X Dimension :
            p[2] \in DOMAIN feedback[p[1]].dims /\ v = feedback[p[1]].dims[p[2]]
      BY <2>1 DEF ScoresOf
    <3>2. p[1] \in all
      BY <3>1
    <3>. QED  BY <3>1, <3>2, FeedbackTyped
  <2>. HIDE DEF scores
  <2>. QED  BY <2>1
<1>. HIDE DEF dimSets, scoreSets
<1>. QED  BY <1>5, <1>6, <1>7, FS_Subset

(* The sum and the number of the scores in a dimension. *)
LEMMA AverageWithin ==
    ASSUME TypeOK, StoreAssumption, NEW g \in Gaid, NEW d \in DimensionsOf(g),
           NEW lo \in Int, NEW hi \in Int, ScoresOf(g) \subseteq lo .. hi
    PROVE  Within(Average(g, d), 1, lo, hi)
<1>. DEFINE rows == Rated(g, d)
            scores == [i \in rows |-> feedback[i].dims[d]]
            Adding(h) ==
              h = [s \in SUBSET rows |-> IF s = {} THEN 0
                     ELSE feedback[Chosen(s)].dims[d] + h[s \ {Chosen(s)}]]
            h == CHOOSE k : Adding(k)
<1>1. IsFiniteSet(rows) /\ rows # {} /\ d \in Dimension
  <2>1. rows \in SUBSET About(feedback, g) /\ rows # {} /\ d \in Dimension
    BY DEF Rated, DimensionsOf
  <2>2. IsFiniteSet(About(feedback, g))
    BY FeedbackTyped
  <2>. HIDE DEF rows
  <2>. QED  BY <2>1, <2>2, FS_Subset
<1>2. \A i \in rows : scores[i] \in lo .. hi
  <2>. TAKE i \in rows
  <2>1. i \in About(feedback, g) /\ d \in DOMAIN feedback[i].dims
    BY DEF Rated
  <2>2. feedback[i].dims[d] \in ScoresOf(g)
    BY <1>1, <2>1, ScoreGiven
  <2>. QED  BY <2>2
<1>3. PICK k : Summing("numbers", scores, rows, k) /\ Total(scores, rows) = k[rows]
  <2>. HIDE DEF scores, rows
  <2>. QED  BY <1>1, TotalSolves
<1>4. \A s \in SUBSET rows : s # {} => scores[Chosen(s)] = feedback[Chosen(s)].dims[d]
  BY ChosenMember
<1>5. ASSUME NEW f
      PROVE  Adding(f) <=> Summing("numbers", scores, rows, f)
  <2>. HIDE DEF scores, rows
  <2>. QED  BY <1>4 DEF Summing, Zero, Added
<1>6. Adding(h)
  <2>1. Adding(k)
    BY <1>3, <1>5
  <2>. HIDE DEF Adding
  <2>. QED  BY <2>1
<1>7. Average(g, d) = <<h[rows], Cardinality(rows)>>
  BY DEF Average, MapThenSumSet, MapThenFoldSet, Chosen
<1>8. Summing("numbers", scores, rows, h)
  BY <1>5, <1>6
<1>. HIDE DEF h, scores, rows
<1>9. h[rows] = Total(scores, rows)
  BY <1>1, <1>3, <1>8, SummingUnique
<1>10. /\ Total(scores, rows) \in Int
       /\ lo * Cardinality(rows) <= Total(scores, rows)
       /\ Total(scores, rows) <= hi * Cardinality(rows)
  BY <1>1, <1>2, TotalBounded
<1>11. Cardinality(rows) \in Nat \ {0}
  BY <1>1, FS_CardinalityType, FS_EmptySet
<1>12. Cardinality(rows) * 1 = Cardinality(rows)
  BY <1>11
<1>. QED  BY <1>7, <1>9, <1>10, <1>11, <1>12 DEF Within

(* The score of every agent. *)
LEMMA ReputationBetween ==
    ASSUME TypeOK, StoreAssumption
    PROVE  ReputationInRange
<1>. SUFFICES ASSUME NEW g \in Gaid
              PROVE  IF ScoresOf(g) = {} THEN OverallScore(g) = 0
                     ELSE OverallScore(g) \in Hundredths(<<Min(ScoresOf(g)), 1>>)
                                          .. Hundredths(<<Max(ScoresOf(g)), 1>>)
  BY DEF ReputationInRange, ScoresOf
<1>. DEFINE scores == ScoresOf(g)
            dims == DimensionsOf(g)
<1>1. IsFiniteSet(scores) /\ scores \subseteq Int /\ IsFiniteSet(dims)
  BY ScoresFinite
<1>2. scores = {} <=> dims = {}
  <2>1. ASSUME NEW d \in dims PROVE scores # {}
    <3>1. d \in Dimension /\ Rated(g, d) # {}
      BY <2>1 DEF DimensionsOf
    <3>2. PICK i \in About(feedback, g) : d \in DOMAIN feedback[i].dims
      BY <3>1 DEF Rated
    <3>. QED  BY <3>1, <3>2, ScoreGiven
  <2>2. ASSUME NEW v \in scores PROVE dims # {}
    <3>1. PICK p \in About(feedback, g) \X Dimension : p[2] \in DOMAIN feedback[p[1]].dims
      BY <2>2 DEF ScoresOf
    <3>2. p[1] \in Rated(g, p[2]) /\ p[2] \in Dimension
      BY <3>1 DEF Rated
    <3>. QED  BY <3>2 DEF DimensionsOf
  <2>. QED  BY <2>1, <2>2
<1>3. CASE dims = {}
  BY <1>2, <1>3 DEF OverallScore
<1>4. CASE dims # {}
  <2>. DEFINE lo == Min(scores)
              hi == Max(scores)
              avg == [d \in dims |-> Average(g, d)]
              Folding(h) ==
                h = [s \in SUBSET dims |-> IF s = {} THEN <<0, 1>>
                       ELSE Plus(Average(g, Chosen(s)), h[s \ {Chosen(s)}])]
              h == CHOOSE k : Folding(k)
  <2>1. lo \in Int /\ hi \in Int /\ scores \subseteq lo .. hi
    <3>. HIDE DEF scores
    <3>1. PICK n \in Nat : scores \subseteq (-n)..n
      BY <1>1, FiniteBounded
    <3>2. /\ lo \in scores /\ \A v \in scores : lo <= v
          /\ hi \in scores /\ \A v \in scores : v <= hi
      BY <1>2, <1>4, <3>1, MinAndMax
    <3>. HIDE DEF lo, hi
    <3>. QED  BY <1>1, <3>2
  <2>2. \A d \in dims : Within(avg[d], 1, lo, hi)
    <3>. HIDE DEF lo, hi
    <3>. QED  BY <2>1, AverageWithin
  <2>3. PICK k : Summing("fractions", avg, dims, k)
    <3>. HIDE DEF avg, dims
    <3>. QED  BY <1>1, SummingExists
  <2>4. \A s \in SUBSET dims : s # {} => avg[Chosen(s)] = Average(g, Chosen(s))
    BY ChosenMember
  <2>5. ASSUME NEW f
        PROVE  Folding(f) <=> Summing("fractions", avg, dims, f)
    <3>. HIDE DEF avg, dims
    <3>. QED  BY <2>4 DEF Summing, Zero, Added
  <2>6. Folding(h)
    <3>1. Folding(k)
      BY <2>3, <2>5
    <3>. HIDE DEF Folding
    <3>. QED  BY <3>1
  <2>7. OverallScore(g) = Hundredths(<<h[dims][1], h[dims][2] * Cardinality(dims)>>)
    BY <1>4 DEF OverallScore, FoldSet, MapThenFoldSet, Chosen
  <2>8. Summing("fractions", avg, dims, h)
    BY <2>5, <2>6
  <2>. HIDE DEF h, avg, dims, lo, hi
  <2>9. Within(h[dims], Cardinality(dims), lo, hi)
    BY <1>1, <2>1, <2>2, <2>8, FoldWithin
  <2>10. PICK a \in Int, b \in Nat \ {0} : h[dims] = <<a, b>>
    <3>1. h[dims] \in Int \X (Nat \ {0})
      BY <2>9 DEF Within
    <3>2. \A v \in Int \X (Nat \ {0}) : \E a \in Int, b \in Nat \ {0} : v = <<a, b>>
      OBVIOUS
    <3>. HIDE DEF dims
    <3>. QED  BY <3>1, <3>2
  <2>11. Cardinality(dims) \in Nat \ {0}
    BY <1>1, <1>4, FS_CardinalityType, FS_EmptySet
  <2>. DEFINE n == Cardinality(dims)
  <2>12. lo * (b * n) <= a /\ a <= hi * (b * n)
    BY <2>9, <2>10 DEF Within
  <2>. HIDE DEF n
  <2>13. b * n \in Nat \ {0}
    <3>1. n \in Nat \ {0}
      BY <2>11 DEF n
    <3>2. b * n \in Nat /\ b * n # 0
      BY <3>1
    <3>. QED  BY <3>2
  <2>14. Hundredths(<<a, b * n>>) \in Hundredths(<<lo, 1>>) .. Hundredths(<<hi, 1>>)
    BY <2>1, <2>12, <2>13, HundredthsWithin
  <2>15. OverallScore(g) = Hundredths(<<a, b * n>>)
    BY <2>7, <2>10 DEF n
  <2>. QED  BY <1>2, <1>4, <2>14, <2>15 DEF lo, hi, dims
<1>. QED  BY <1>3, <1>4

(* However many ratings there are, over whatever dimensions, the score of an *)
(* agent stays within those it was given, all rounded to hundredths.       *)
THEOREM ReputationsStayInRange == Spec => []ReputationInRange
BY RecordsTypeCorrect, StoreAssumption, ReputationBetween, PTL

(* Whatever models are named, and whatever is reported without one, the      *)
(* breakdown adds up to the total but for what "unknown" overwrites.        *)
THEOREM AnalyticsAlwaysAddUp == Spec => []AnalyticsAddUp
BY RecordsTypeCorrect, StoreAssumption, BreakdownIsWhole, PTL
=============================================================================
