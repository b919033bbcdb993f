----------------------------- MODULE RecordStore -----------------------------
(***************************************************************************)
(* The database of a node as its own clients see it: the resources          *)
(* (provider.ts), feedback, token usage and attestations with what is       *)
(* computed from them, and the audit log (governance.ts).                   *)
(*                                                                         *)
(* A write is one statement and its audit row another, without a            *)
(* transaction around the two: the process may end between them.  A reader *)
(* asks for page after page, by number, while writes go on; resources are   *)
(* listed from the oldest row id, the others from the newest, and a         *)
(* resource that is published again gets a new id.                         *)
(*                                                                         *)
(* The tables feedback, token_usage and attestations are sequences in the   *)
(* order of their ids; resources maps a name, which is UNIQUE, to its row.  *)
(* A score is a number of 1 / Scale, negative or not; what is no number     *)
(* counts as left out.  Sums and quotients are exact: the floating point    *)
(* numbers of the code may round a score that lies halfway the other way.  *)
(*                                                                         *)
(* Left out: the filters of a catalog, which are applied to a page after    *)
(* its rows were cut out, and the peers, revocations and governance tables. *)
(***************************************************************************)
EXTENDS Integers, FiniteSets, SequencesExt

CONSTANTS Kind, Name, Gaid,
          Dimension, Score, \* of feedback: dimensions and their values
          Scale,            \* how many make up a score of 1
          Given,            \* the ratings that are given
          Model, NoModel,   \* of token usage: names of models, and none given
          Unknown,          \* the name that a usage without model goes by
          Token,            \* numbers of tokens
          Limit,            \* rows of a page
          NoRow,            \* no resource of that name
          SeedFile,         \* the resources of DUADP_SEED_FILE
          SeedResources,    \* what npm run seed puts into the tables without it
          SeedFeedback, SeedUsage, SeedAttestations,
          SeedAudit,        \* and into the log, about its resources
          MaxRows,          \* bound: rows of one table
          MaxCuts,          \* bound: processes that end between two statements
          MaxAudit,         \* bound: rows of the audit log
          MaxIds,           \* bound: the last id the seed file may give
          NoReader

Resource  == [kind : Kind, name : Name]
Row       == [kind : Kind, id : Nat]
Dims      == UNION {[D -> Score] : D \in {D \in SUBSET Dimension : IsFiniteSet(D)}}
Rating    == [gaid : Gaid, dims : Dims]
Usage     == [gaid : Gaid, model : Model \cup {NoModel}, tokens : Token]
Statement == [gaid : Gaid]

Event  == {"created", "updated", "deleted", "revoked_by_peer",
           "feedback", "usage", "attestation"}
Audit  == [event : Event, subject : Name \cup Gaid]
Table  == {"resources", "feedback", "attestations", "audit"}
Logged == {"feedback", "usage", "attestation"}

(* of: the kind of the resources, or the agent, that is read about.  seen,   *)
(* owed: rows read so far, and rows there when the reading began.  calm:   *)
(* that nothing it reads was removed, moved or seeded since.               *)
Reader ==
    [table : Table, of : Kind \cup Gaid, page : Nat \ {0}, seen : SUBSET (Name \cup Nat),
     owed : SUBSET (Name \cup Nat), calm : BOOLEAN, finished : BOOLEAN]

ASSUME StoreAssumption ==
    /\ Score \subseteq Int
    /\ Scale \in Nat \ {0}
    /\ SeedFile \subseteq Resource
    /\ Given \subseteq Rating
    /\ Token \subseteq Nat
    /\ NoModel \notin Model
    /\ Unknown \in Model
    /\ Limit \in Nat \ {0}
    /\ NoRow \notin Row
    /\ NoReader \notin Reader
    /\ SeedResources \in Seq(Resource)
    /\ SeedFeedback \in Seq(Rating)
    /\ SeedUsage \in Seq(Usage)
    /\ SeedAttestations \in Seq(Statement)
    /\ SeedAudit \in Seq([event : {"created", "updated"},
                          subject : {SeedResources[i].name : i \in DOMAIN SeedResources}])

VARIABLES resources, feedback, usage, attestations, \* the tables
          lastId,   \* the last id that AUTOINCREMENT gave to a resource
          audit,    \* the audit log
          unlogged, \* history: rows of a table that have no audit row
          silent,   \* history: names whose last write left no event of theirs
          cuts,     \* history: processes that ended between two statements
          reader    \* a client that reads a table page by page

tables  == <<feedback, usage, attestations>>
history == <<unlogged, silent, cuts>>
vars    == <<resources, lastId, tables, audit, history, reader>>

TypeOK ==
    /\ resources \in [Name -> Row \cup {NoRow}]
    /\ lastId \in Nat
    /\ \A x, y \in Name : resources[x] # NoRow /\ resources[y] # NoRow =>
          /\ resources[x].id <= lastId
          /\ resources[x].id = resources[y].id => x = y
    /\ feedback \in Seq(Rating)
    /\ usage \in Seq(Usage)
    /\ attestations \in Seq(Statement)
    /\ audit \in Seq(Audit)
    /\ unlogged \in [Logged -> Nat]
    /\ silent \in SUBSET Name
    /\ cuts \in Nat
    /\ reader \in Reader \cup {NoReader}

Init ==
    /\ resources = [x \in Name |-> NoRow]
    /\ lastId = 0
    /\ feedback = <<>>
    /\ usage = <<>>
    /\ attestations = <<>>
    /\ audit = <<>>
    /\ unlogged = [e \in Logged |-> 0]
    /\ silent = {}
    /\ cuts = 0
    /\ reader = NoReader

-----------------------------------------------------------------------------
LogRoom == Len(audit) < MaxAudit

Room(table) == Len(table) < MaxRows /\ LogRoom

(* The second statement of a write. *)
Log(event, subject) ==
    /\ audit' = Append(audit, [event |-> event, subject |-> subject])
    /\ UNCHANGED cuts

(* Or the end of the process before it. *)
Cut ==
    /\ cuts < MaxCuts
    /\ cuts' = cuts + 1
    /\ UNCHANGED audit

(* The write of a row about an agent. *)
AuditRow(event, g) ==
    /\ \/ Log(event, g) /\ UNCHANGED unlogged
       \/ Cut /\ unlogged' = [unlogged EXCEPT ![event] = @ + 1]
    /\ UNCHANGED silent

(* The write of a resource, which an update leaves where it is. *)
AuditResource(event, name) ==
    /\ \/ Log(event, name) /\ silent' = silent \ {name}
       \/ Cut /\ silent' = IF event = "updated" THEN silent ELSE silent \cup {name}
    /\ UNCHANGED unlogged

Has(kind, name) == resources[name] # NoRow /\ resources[name].kind = kind

(* The row of that name goes from where it is. *)
Disturb(name) ==
    reader' = IF reader # NoReader /\ reader.table = "resources" /\ Has(reader.of, name)
              THEN [reader EXCEPT !.calm = FALSE] ELSE reader

(* Mutant: ids by the number of writes in the log. *)
PublishByLog(kind, name) ==
    /\ LogRoom
    /\ lastId' = Len(audit) + 1
    /\ resources' = [resources EXCEPT ![name] = [kind |-> kind, id |-> lastId']]
    /\ AuditResource("created", name)
    /\ Disturb(name)
    /\ UNCHANGED tables

(* publishResource: INSERT OR REPLACE, by name, under a new id. *)
PublishResource(kind, name) ==
    /\ LogRoom
    /\ lastId' = lastId + 1
    /\ resources' = [resources EXCEPT ![name] = [kind |-> kind, id |-> lastId + 1]]
    /\ AuditResource("created", name)
    /\ Disturb(name)
    /\ UNCHANGED tables

(* updateResource: the data of the row only; nothing when there is none. *)
UpdateResource(kind, name) ==
    /\ LogRoom
    /\ Has(kind, name)
    /\ AuditResource("updated", name)
    /\ UNCHANGED <<resources, lastId, tables, reader>>

(* Mutant: an audit row although no row was there. *)
DeleteAnyway(kind, name) ==
    /\ LogRoom
    /\ resources' = IF Has(kind, name) THEN [resources EXCEPT ![name] = NoRow] ELSE resources
    /\ AuditResource("deleted", name)
    /\ Disturb(name)
    /\ UNCHANGED <<lastId, tables>>

(* deleteResource: by kind and name. *)
DeleteResource(kind, name) ==
    /\ LogRoom
    /\ Has(kind, name)
    /\ resources' = [resources EXCEPT ![name] = NoRow]
    /\ AuditResource("deleted", name)
    /\ Disturb(name)
    /\ UNCHANGED <<lastId, tables>>

(* POST /api/v1/federation/revocations, past its answer to what it knows:    *)
(* the row of that name goes, of whatever kind and GAID, and the log names  *)
(* the GAID that was revoked only.                                         *)
ReceiveRevocation(name, g) ==
    /\ LogRoom
    /\ resources[name] # NoRow
    /\ resources' = [resources EXCEPT ![name] = NoRow]
    /\ Log("revoked_by_peer", g) \/ Cut
    /\ silent' = silent \cup {name}
    /\ Disturb(name)
    /\ UNCHANGED <<lastId, tables, unlogged>>

(* POST /api/v1/feedback *)
SubmitFeedback(rating) ==
    /\ Room(feedback)
    /\ feedback' = Append(feedback, rating)
    /\ AuditRow("feedback", rating.gaid)
    /\ UNCHANGED <<resources, lastId, usage, attestations, reader>>

(* POST /api/v1/analytics/tokens *)
ReportTokens(row) ==
    /\ Room(usage)
    /\ usage' = Append(usage, row)
    /\ AuditRow("usage", row.gaid)
    /\ UNCHANGED <<resources, lastId, feedback, attestations, reader>>

(* POST /api/v1/attestations *)
Attest(row) ==
    /\ Room(attestations)
    /\ attestations' = Append(attestations, row)
    /\ AuditRow("attestation", row.gaid)
    /\ UNCHANGED <<resources, lastId, feedback, usage, reader>>

(* npm run seed, in another process: one transaction that clears the tables  *)
(* and fills them again, a name that comes twice with its last row; not     *)
(* every row it inserts is in the log it writes.  Ids go on in the code:   *)
(* here they begin again, as only their order counts.                      *)
Seed ==
    LET Seeded(x) == {i \in DOMAIN SeedResources : SeedResources[i].name = x} IN
    /\ resources' = [x \in Name |->
          IF Seeded(x) = {} THEN NoRow
          ELSE [kind |-> SeedResources[Max(Seeded(x))].kind, id |-> Max(Seeded(x))]]
    /\ lastId' = Len(SeedResources)
    /\ feedback' = SeedFeedback
    /\ usage' = SeedUsage
    /\ attestations' = SeedAttestations
    /\ audit' = SeedAudit
    /\ unlogged' = [e \in Logged |-> CASE e = "feedback" -> Len(SeedFeedback)
                                       [] e = "usage"    -> Len(SeedUsage)
                                       [] OTHER          -> Len(SeedAttestations)]
    /\ silent' = {x \in Name : /\ Seeded(x) # {}
                               /\ \A i \in DOMAIN SeedAudit : SeedAudit[i].subject # x}
    /\ reader' = IF reader = NoReader THEN NoReader ELSE [reader EXCEPT !.calm = FALSE]
    /\ UNCHANGED cuts

(* With DUADP_SEED_FILE nothing is cleared: each of its resources is one     *)
(* statement, in no transaction and with no event.                         *)
SeedItem(item) ==
    /\ lastId < MaxIds
    /\ lastId' = lastId + 1
    /\ resources' = [resources EXCEPT ![item.name] = [kind |-> item.kind, id |-> lastId + 1]]
    /\ silent' = silent \cup {item.name}
    /\ Disturb(item.name)
    /\ UNCHANGED <<tables, audit, unlogged, cuts>>

-----------------------------------------------------------------------------
(* What a listing enumerates: names, or positions of rows. *)
Of(table) == IF table = "resources" THEN Kind ELSE Gaid

About(rows, g) == {i \in DOMAIN rows : rows[i].gaid = g}

Listing(table, of) ==
    CASE table = "resources"    -> {x \in Name : Has(of, x)}
      [] table = "feedback"     -> About(feedback, of)
      [] table = "attestations" -> About(attestations, of)
      [] table = "audit"        -> DOMAIN audit

(* ORDER BY id ASC for resources, DESC for the others. *)
Before(table, i, j) ==
    IF table = "resources" THEN resources[i].id < resources[j].id ELSE i > j

(* How many rows come before i. *)
Offset(table, of, i) ==
    Cardinality({j \in Listing(table, of) : Before(table, j, i)})

(* Mutant: pages counted from 0. *)
PageFromZero(table, of, page) ==
    {i \in Listing(table, of) :
        Offset(table, of, i) \in page * Limit .. (page + 1) * Limit - 1}

(* LIMIT ? OFFSET (page - 1) * limit *)
Page(table, of, page) ==
    {i \in Listing(table, of) :
        Offset(table, of, i) \in (page - 1) * Limit .. page * Limit - 1}

BeginReading(table, of) ==
    /\ reader = NoReader
    /\ reader' = [table |-> table, of |-> of, page |-> 1, seen |-> {},
                  owed |-> Listing(table, of), calm |-> TRUE, finished |-> FALSE]
    /\ UNCHANGED <<resources, lastId, tables, audit, history>>

(* One request; a page that is not full is the last. *)
ReadPage ==
    /\ reader # NoReader
    /\ ~reader.finished
    /\ LET rows == Page(reader.table, reader.of, reader.page) IN
         reader' = [reader EXCEPT !.seen = @ \cup rows, !.page = @ + 1,
                                  !.finished = Cardinality(rows) < Limit]
    /\ UNCHANGED <<resources, lastId, tables, audit, history>>

-----------------------------------------------------------------------------
Writing ==
    \/ \E kind \in Kind, name \in Name :
          \/ PublishResource(kind, name)
          \/ UpdateResource(kind, name)
          \/ DeleteResource(kind, name)
    \/ \E name \in Name, g \in Gaid : ReceiveRevocation(name, g)
    \/ \E rating \in Given : SubmitFeedback(rating)
    \/ \E row \in Usage : ReportTokens(row)
    \/ \E row \in Statement : Attest(row)
    \/ Seed
    \/ \E item \in SeedFile : SeedItem(item)

Reading ==
    \/ \E table \in Table : \E of \in Of(table) : BeginReading(table, of)
    \/ ReadPage

Next == Writing \/ Reading

Spec == Init /\ [][Next]_vars

-----------------------------------------------------------------------------
(* GET /api/v1/reputation: fractions as <<numerator, denominator>>. *)

Rated(g, d) == {i \in About(feedback, g) : d \in DOMAIN feedback[i].dims}

DimensionsOf(g) == {d \in Dimension : Rated(g, d) # {}}

(* Mutant: the sum over a dimension divided by the number of ratings. *)
AverageOverAll(g, d) ==
    <<MapThenSumSet(LAMBDA i : feedback[i].dims[d], Rated(g, d)), Cardinality(About(feedback, g))>>

Average(g, d) ==
    <<MapThenSumSet(LAMBDA i : feedback[i].dims[d], Rated(g, d)), Cardinality(Rated(g, d))>>

Plus(p, q) == <<p[1] * q[2] + q[1] * p[2], p[2] * q[2]>>

(* Math.round(x * 100), which rounds a half up. *)
Hundredths(p) == (200 * p[1] + p[2] * Scale) \div (2 * (p[2] * Scale))

OverallScore(g) ==
    IF DimensionsOf(g) = {} THEN 0
    ELSE LET sum == FoldSet(LAMBDA d, acc : Plus(Average(g, d), acc), <<0, 1>>, DimensionsOf(g))
         IN Hundredths(<<sum[1], sum[2] * Cardinality(DimensionsOf(g))>>)

(* GET /api/v1/analytics/tokens: SUM(total_tokens), and by model. *)
TokensOf(rows) == MapThenSumSet(LAMBDA i : usage[i].tokens, rows)

OfModel(g, m) == {i \in About(usage, g) : usage[i].model = m}

(* Mutant: usages without a model are left out. *)
NamedModelsOnly(g) ==
    [m \in {m \in Model : OfModel(g, m) # {}} |-> TokensOf(OfModel(g, m))]

(* A model called unknown comes after those without, under the same key. *)
ModelBreakdown(g) ==
    [m \in {m \in Model : OfModel(g, m) # {} \/ (m = Unknown /\ OfModel(g, NoModel) # {})} |->
        IF OfModel(g, m) # {} THEN TokensOf(OfModel(g, m)) ELSE TokensOf(OfModel(g, NoModel))]

-----------------------------------------------------------------------------
(* PROPERTIES *)

EventsOf(event, subject) == {i \in DOMAIN audit : audit[i] = [event |-> event, subject |-> subject]}

ResourceEvents(name) ==
    UNION {EventsOf(event, name) : event \in {"created", "updated", "deleted"}}

LoggedRows ==
    {<<"feedback", feedback>>, <<"usage", usage>>, <<"attestation", attestations>>}

RowsInLog(event, rows) ==
    /\ \A g \in Gaid : Cardinality(EventsOf(event, g)) <= Cardinality(About(rows, g))
    /\ Len(rows) = unlogged[event] + Cardinality({i \in DOMAIN audit : audit[i].event = event})

NameInLog(name) ==
    resources[name] # NoRow <=>
        /\ ResourceEvents(name) # {}
        /\ audit[Max(ResourceEvents(name))].event # "deleted"

(* The audit log tells what the tables hold: of no agent more feedback,      *)
(* usage or attestations than there is, and as much but for the rows that   *)
(* were seeded or whose process ended too early; and a name is taken        *)
(* exactly when its last event is not a deletion, unless its own last write *)
(* left no event that names it: its process ended, it was seeded, or a      *)
(* peer's revocation took it, which is logged under a GAID alone.          *)
AuditTellsState ==
    /\ \A pair \in LoggedRows : RowsInLog(pair[1], pair[2])
    /\ \A name \in Name \ silent : NameInLog(name)

(* A client that read page by page to the end has seen every row that was    *)
(* there when it began, although rows came in meanwhile: of the audit log,  *)
(* feedback and attestations always, for they are read from the newest and  *)
(* only grow; of the resources of a kind unless one of them was deleted or  *)
(* published again, which moves the others to lower offsets.  A re-seeding  *)
(* moves everything.                                                       *)
PagedReadComplete ==
    reader # NoReader /\ reader.finished /\ reader.calm => reader.owed \subseteq reader.seen

(* A reputation lies between the lowest and the highest score the agent was  *)
(* given, each rounded to hundredths as it is itself, whatever dimensions   *)
(* its ratings leave out, and is 0 without any score.  It may leave the     *)
(* range of the scores by that rounding: one of 0.996 gives 1.             *)
ReputationInRange ==
    \A g \in Gaid :
        LET scores == {feedback[p[1]].dims[p[2]] : p \in
                {p \in About(feedback, g) \X Dimension : p[2] \in DOMAIN feedback[p[1]].dims}} IN
        IF scores = {} THEN OverallScore(g) = 0
        ELSE OverallScore(g) \in Hundredths(<<Min(scores), 1>>) .. Hundredths(<<Max(scores), 1>>)

(* The tokens by model add up to the total of the agent; what came without a *)
(* model is missing only when a model goes by the name "unknown" itself.    *)
AnalyticsAddUp ==
    \A g \in Gaid :
        LET parts == ModelBreakdown(g)
            total == TokensOf(About(usage, g)) IN
        MapThenSumSet(LAMBDA m : parts[m], DOMAIN parts) =
            IF OfModel(g, Unknown) # {} THEN total - TokensOf(OfModel(g, NoModel)) ELSE total
=============================================================================
