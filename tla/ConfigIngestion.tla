--------------------------- MODULE ConfigIngestion ---------------------------
(* The AWS Config provider of the catalog: what AwsConfigInfrastructureProvider *)
(* answers to the incremental ingestion engine, page by page, while the         *)
(* resources of the account change.                                             *)
EXTENDS Integers, FiniteSets

CONSTANTS
  N,               \* number of ARNs; AWS Config lists them in a fixed order, 1 first
  Limit,           \* options.pageSize
  Names,           \* names of resources, and names a transform gives
  Unnamed,         \* an undefined name
  Records,         \* what AWS Config may hold of a resource
  Absent,          \* no such resource, or none the query selects
  NoResponse, NoEntity,
  HashEntityNames, \* the option of that name
  MaxChanges       \* bound on the changes of the account

Resources == 1..N

\* name: resourceName, with ':' replaced; renamed: what transform.fields.name
\* makes of it; valid: the transforms give strings and the entity passes the
\* validator.
Record == [name : Names \cup {Unnamed}, renamed : Names \cup {Unnamed}, valid : BOOLEAN]

\* The hash of an ARN; 63 hexadecimal digits are taken to be unique.
Sha256(r) == <<"sha256", r>>

CatalogNames == Names \cup {Sha256(r) : r \in Resources}

\* A resource as it was at some time.
Version == [arn : Resources, record : Records]

\* A page, the token after it if more follows, and the position it ends at.
Response == [results : SUBSET Version, last : 0..N, more : BOOLEAN]

ASSUME ProviderAssumption ==
  /\ N \in Nat /\ Limit \in Nat \ {0} /\ MaxChanges \in Nat
  /\ Records \subseteq Record
  /\ HashEntityNames \in BOOLEAN
  /\ Unnamed \notin CatalogNames
  /\ Absent \notin Records /\ NoResponse \notin Response /\ NoEntity \notin Resources

VARIABLES
  account,  \* the record of each resource in AWS Config
  changes,  \* changes of the account so far
  status,   \* the engine: "ingest", "backoff" or "rest"
  cursor,   \* the token of the last mark, 0 for none
  response, \* the answer of AWS Config that next() is working on
  told,     \* names of the entities marked in this round
  catalog,  \* the ARN of the provider's entity of each name
  kept,     \* history: versions there since the round began
  seen      \* history: versions there at some time of the round

vars == <<account, changes, status, cursor, response, told, catalog, kept, seen>>

engine == <<status, cursor, response, told, catalog>>

TypeOK ==
  /\ account \in [Resources -> Records \cup {Absent}]
  /\ changes \in 0..MaxChanges
  /\ status \in {"ingest", "backoff", "rest"}
  /\ cursor \in 0..N
  /\ response \in Response \cup {NoResponse}
  /\ told \subseteq CatalogNames
  /\ catalog \in [CatalogNames -> Resources \cup {NoEntity}]
  /\ kept \subseteq Version
  /\ seen \subseteq Version

-----------------------------------------------------------------------------
\* Mutant: a resource without a name keeps it that way.
NamedAsIs(v) ==
  IF v.record.renamed # Unnamed THEN v.record.renamed
  ELSE IF HashEntityNames THEN Sha256(v.arn) ELSE v.record.name

\* merge() puts the transformed name over the generated one, unless it is undefined.
EntityName(v) ==
  IF v.record.renamed # Unnamed THEN v.record.renamed
  ELSE IF HashEntityNames \/ v.record.name = Unnamed THEN Sha256(v.arn)
  ELSE v.record.name

Versions(acc) == {v \in Version : acc[v.arn] = v.record}

Valid(results) == \A v \in results : v.record.valid

Init ==
  /\ account \in [Resources -> Records \cup {Absent}]
  /\ changes = 0
  /\ status = "ingest" /\ cursor = 0 /\ response = NoResponse /\ told = {}
  /\ catalog = [n \in CatalogNames |-> NoEntity]
  /\ kept = Versions(account) /\ seen = Versions(account)

\* A resource is created, changed, tagged or deleted.
Change(r, record) ==
  /\ changes < MaxChanges /\ account[r] # record
  /\ account' = [account EXCEPT ![r] = record]
  /\ changes' = changes + 1
  /\ kept' = kept \cap Versions(account')
  /\ seen' = seen \cup Versions(account')
  /\ UNCHANGED engine

-----------------------------------------------------------------------------
\* Mutant: every page is the first one.
QueryFromStart ==
  /\ status = "ingest" /\ response = NoResponse
  /\ \E last \in 0..N, more \in BOOLEAN :
       LET results == {v \in Versions(account) : v.arn <= last} IN
       /\ Cardinality(results) <= Limit
       /\ more => results # {}
       /\ ~ more => \A r \in last + 1 .. N : account[r] = Absent
       /\ response' = [results |-> results, last |-> last, more |-> more]
  /\ UNCHANGED <<account, changes, status, cursor, told, catalog, kept, seen>>

\* AWS Config answers with a page behind the token: at most Limit results, and
\* no token if nothing follows. A token may also be given for an empty rest.
Query ==
  /\ status = "ingest" /\ response = NoResponse
  /\ \E last \in cursor..N, more \in BOOLEAN :
       LET results == {v \in Versions(account) : v.arn \in cursor + 1 .. last} IN
       /\ Cardinality(results) <= Limit
       /\ more => results # {}
       /\ ~ more => \A r \in last + 1 .. N : account[r] = Absent
       /\ response' = [results |-> results, last |-> last, more |-> more]
  /\ UNCHANGED <<account, changes, status, cursor, told, catalog, kept, seen>>

\* send() rejects: throttling, credentials, network.
QueryFails ==
  /\ status = "ingest" /\ response = NoResponse
  /\ status' = "backoff"
  /\ UNCHANGED <<account, changes, cursor, response, told, catalog, kept, seen>>

\* The engine saves the mark and applies the entities; an entity of a name that
\* exists replaces it. After the last page it removes what was not marked.
Mark(results) ==
  LET marked == told \cup {EntityName(v) : v \in results} IN
  /\ told' = marked
  /\ \E added \in [{EntityName(v) : v \in results} -> Resources] :
       /\ \A n \in DOMAIN added : \E v \in results : EntityName(v) = n /\ v.arn = added[n]
       /\ catalog' = [n \in CatalogNames |->
            IF n \in DOMAIN added THEN added[n]
            ELSE IF n \in marked \/ response.more THEN catalog[n] ELSE NoEntity]
  /\ \/ response.more /\ cursor' = response.last /\ UNCHANGED status
     \/ ~ response.more /\ cursor' = 0 /\ status' = "rest"

\* Mutant: a result that makes no valid entity is left out of the page.
DeliverTheValid ==
  /\ response # NoResponse
  /\ Mark({v \in response.results : v.record.valid})
  /\ response' = NoResponse
  /\ UNCHANGED <<account, changes, kept, seen>>

\* Mutant: the provider keeps the page, and the next call is answered with it.
DeliverAndKeep ==
  /\ response # NoResponse /\ status = "ingest"
  /\ Valid(response.results)
  /\ Mark(response.results)
  /\ UNCHANGED <<account, changes, response, kept, seen>>

\* next() resolves: all results of the page have become entities.
Deliver ==
  /\ response # NoResponse
  /\ Valid(response.results)
  /\ Mark(response.results)
  /\ response' = NoResponse
  /\ UNCHANGED <<account, changes, kept, seen>>

\* One of the results throws, and Promise.all rejects for the page.
RoundFails ==
  /\ response # NoResponse
  /\ ~ Valid(response.results)
  /\ status' = "backoff" /\ response' = NoResponse
  /\ UNCHANGED <<account, changes, cursor, told, catalog, kept, seen>>

\* The process ends while it works on a page; marks are in the database.
Crash ==
  /\ response # NoResponse /\ response' = NoResponse
  /\ UNCHANGED <<account, changes, status, cursor, told, catalog, kept, seen>>

\* The engine asks again, with the token of the last mark.
Retry ==
  /\ status = "backoff" /\ status' = "ingest"
  /\ UNCHANGED <<account, changes, cursor, response, told, catalog, kept, seen>>

\* restLength is over: a new round, without a token.
NextRound ==
  /\ status = "rest" /\ status' = "ingest" /\ told' = {}
  /\ kept' = Versions(account) /\ seen' = Versions(account)
  /\ UNCHANGED <<account, changes, cursor, response, catalog>>

Next ==
  \/ \E r \in Resources, record \in Records \cup {Absent} : Change(r, record)
  \/ Query \/ QueryFails \/ Deliver \/ RoundFails \/ Crash \/ Retry \/ NextRound

Spec == Init /\ [][Next]_vars

\* AWS Config does not reject for ever, and the process does not always end
\* before a page is done.
FairSpec ==
  /\ Spec
  /\ SF_vars(Query) /\ SF_vars(Deliver)
  /\ WF_vars(RoundFails) /\ WF_vars(Retry) /\ WF_vars(NextRound)

-----------------------------------------------------------------------------
\* A round is never cut short: when the provider rests, each resource that was
\* there unchanged since the round began has its entity, whatever was created,
\* deleted or retried meanwhile (the done flag and the cursor of next()).
ResourcesAreListed ==
  status = "rest" => \A v \in kept : catalog[EntityName(v)] # NoEntity

\* When the provider rests, each entity is that of a resource that was there
\* during the round, under the name it had then: nothing deleted or renamed
\* before the round is left, and of two resources of one name either is shown.
EntitiesAreCurrent ==
  status = "rest" =>
    \A n \in CatalogNames : catalog[n] # NoEntity =>
      \E v \in seen : v.arn = catalog[n] /\ EntityName(v) = n

\* Once every resource makes a valid entity, rounds end again and again, although
\* each page may fail, be lost and be asked for again.
RoundsEnd ==
  <>[](\A v \in Versions(account) : v.record.valid) => []<>(status = "rest")

=============================================================================
