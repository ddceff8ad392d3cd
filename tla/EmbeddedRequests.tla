-------------------------- MODULE EmbeddedRequests --------------------------
(***************************************************************************)
(* A request on its way from a method of the Go client (embedded.go) to    *)
(* the frontend of the shim (shim/src/lib.rs) and back: the validation in  *)
(* Go, the JSON that leaves out what is empty, the payload and its         *)
(* defaults in the shim, the call of the frontend, and the reply.          *)
(*                                                                         *)
(* Calls are made one at a time (ffiMu, and the mutex of the frontend).    *)
(* The types of upstream requests and their constructors (try_new) are     *)
(* external: they may refuse anything (UpstreamRefuses).                   *)
(***************************************************************************)
EXTENDS RecordStore, Naturals, FiniteSets, SequencesExt

CONSTANTS
  DefaultTenant, DefaultDatabase, \* default_tenant and default_database
  ShortNames,     \* names of less than three characters
  BadId,          \* a collection id that is no UUID
  NoId,           \* an empty collection id
  DefaultResults, \* n_results of a query that gives none
  Requests        \* requests a program may make

ASSUME NamesAssumption ==
  DefaultDatabase \notin ShortNames /\ BadId # NoId /\ {BadId, NoId} \cap CollectionIds = {}

\* The value a metadata map has for its one key, and how it is written in JSON.
\* If it is no list it has one item, and none if the key is not there.  A list is
\* typed if its type says that the items are of one of the four kinds.
Items == {"bool", "string", "int", "float", "nil", "nested"}
Tokens == {"bool", "string", "integer", "decimal", "nil", "nested"}
Value == {v \in [list : BOOLEAN, typed : BOOLEAN, items : Seq(Items)] :
            ~v.list => Len(v.items) <= 1}
JsonValue == {v \in [list : BOOLEAN, items : Seq(Tokens)] : ~v.list => Len(v.items) <= 1}

OnTenant == {"createTenant", "getTenant", "updateTenant"}
OnDatabase == {"createDatabase", "getDatabase", "deleteDatabase"}
OnName == {"createCollection", "getCollection", "deleteCollection", "forkCollection"}
Writes == {"add", "upsert", "update"}
Reads == {"get", "query"}
OnId == Writes \cup Reads
        \cup {"delete", "countRecords", "indexingStatus", "updateCollection", "forkCollection"}

\* The operations with a part that Go hands on without looking at it: where,
\* where_document, include, configuration, schema.
Interpreted == Reads \cup {"delete", "createCollection"}

\* Every request has the fields of all; those its operation lacks are zero.
\* What Go does not look at may mean nothing to the shim ("malformed"), or have no
\* JSON ("unencodable"), as an embedding that is no number.
IsRequest(r) ==
  /\ r \in [op : STRING, tenant : STRING, db : STRING, name : STRING,
           coll : CollectionIds \cup {BadId, NoId}, getOrCreate : BOOLEAN,
           label : Value \cup {None}, ids : SUBSET Ids, docs : STRING \cup {None},
           metas : {r.metas}, embeddings : {"none", "rows", "nullRow"}, columnsFit : BOOLEAN,
           filter : STRING \cup {None}, limit : Nat \cup {None}, offset : Nat,
           unseen : {"fine", "malformed", "unencodable"}]
  /\ r.metas # None => r.metas \in [r.ids -> Value \cup {None}]
  /\ r.limit = None => r.op = "delete"
  /\ r.op = "query" => r.offset = 0
  /\ r.unseen = "malformed" => r.op \in Interpreted
  /\ r.unseen = "unencodable" => r.op \in Interpreted \cup Writes

ASSUME RequestsAssumption == (\A r \in Requests : IsRequest(r)) /\ IsFiniteSet(Ids)

\* None is none of the things it stands for the absence of.
ASSUME NoneAssumption ==
  /\ None \notin STRING \cup Nat \cup JsonValue \cup Requests
  /\ \A s \in SUBSET Ids : None \notin [s -> JsonValue \cup {None}]

VARIABLES
  cat,      \* what is in the database file, see RecordStore
  pc,
  request,  \* as the program filled it in, or None
  payload,  \* as the shim sees it
  reply,    \* what the frontend answered
  answer    \* what the last call returned: how it ended, and its result

vars == <<cat, pc, request, payload, reply, answer>>

-----------------------------------------------------------------------------
(* Metadata values.  A value is a list or not and has the kinds of its     *)
(* items; a map without the key has no item.                               *)

\* What two items of a list have in common; "refused" absorbs.
Joined(k, item) ==
  CASE k \in {"start", item}                      -> item
    [] {k, item} = {"int", "float"}               -> "float"
    [] OTHER                                      -> "refused"

Scalar(item, allowNil) ==
  IF item \in {"bool", "string", "int", "float"} \/ (item = "nil" /\ allowNil) THEN item
                                                                             ELSE "refused"

\* Go accepts the empty list only with a type of its items.  In any other
\* normalizeMetadataSlice goes through the items and turns integers into floats
\* when a float follows or went before.
Kind(v, allowNil) ==
  CASE ~v.list                    -> Scalar(v.items[1], allowNil)
    [] v.list /\ v.items = <<>>   -> IF v.typed THEN "empty" ELSE "refused"
    [] v.list /\ v.items # <<>>   ->
         FoldLeft(LAMBDA a, i : Joined(a, Scalar(i, FALSE)), "start", v.items)

\* A float always has a decimal point.
Token_M(kind) == IF kind = "float" THEN "integer" ELSE kind
Token(kind) == CASE kind = "int" -> "integer" [] kind = "float" -> "decimal" [] OTHER -> kind

\* External: the shim's JSON parser tells the kinds apart by the tokens.
Parsed(token) == CASE token = "integer" -> "int" [] token = "decimal" -> "float" [] OTHER -> token

-----------------------------------------------------------------------------
(* The Go client.                                                          *)

AllowsNil_M(op) == TRUE
AllowsNil(op) == op \in {"update", "upsert"}

Values(r) == IF r.metas = None THEN {} ELSE {r.metas[i] : i \in r.ids} \ {None}

HasKey(v) == v.items # <<>> \/ v.list

MetadataValid(r) ==
  \A v \in Values(r) : HasKey(v) => Kind(v, AllowsNil(r.op)) # "refused"

WriteValid(r) ==
  /\ r.ids # {} /\ r.columnsFit
  /\ r.op # "update" => r.embeddings # "none"
  /\ r.op = "update" => r.embeddings # "none" \/ r.docs # None \/ r.metas # None
  /\ MetadataValid(r)

DeleteValid(r) ==
  /\ r.ids # {} \/ r.filter # None
  /\ r.limit # None => r.limit # 0 /\ r.filter # None

\* A nil map and an empty one are both fine, except where the map is to replace
\* the one there is.
LabelValid(r) ==
  r.label # None => (HasKey(r.label) => Kind(r.label, AllowsNil(r.op)) # "refused")

UpdateCollectionValid(r) ==
  /\ r.name # "" \/ r.label # None
  /\ r.label # None => HasKey(r.label)

Valid(r) ==
  /\ r.op \in OnTenant => r.tenant # ""
  /\ r.op \in OnDatabase => r.db # ""
  /\ r.op \in OnName => r.name # ""
  /\ r.op \in OnId => r.coll # NoId
  /\ r.op \in Writes => WriteValid(r)
  /\ r.op = "delete" => DeleteValid(r)
  /\ r.op = "query" => r.embeddings # "none"
  /\ r.op = "updateCollection" => UpdateCollectionValid(r)
  /\ LabelValid(r)

\* What Go hands on unseen it must still be able to write as JSON.
Encodable(r) == r.unseen # "unencodable"

\* omitempty leaves out an empty list and an empty string, and a zero, but not
\* a pointer to a zero.
Omit(x, zero) == IF x = zero THEN None ELSE x

Encoded(v) == [list |-> v.list, items |-> [j \in DOMAIN v.items |->
                 IF v.list THEN Token(Kind(v, FALSE)) ELSE Token(v.items[j])]]

Marshalled(r) ==
  [r EXCEPT !.ids = Omit(@, {}), !.tenant = Omit(@, ""), !.db = Omit(@, ""),
            !.name = Omit(@, ""), !.offset = Omit(@, 0),
            !.limit = IF r.op = "delete" THEN @ ELSE Omit(@, 0),
            !.label = IF @ = None THEN None ELSE IF HasKey(@) THEN Encoded(@) ELSE None,
            !.metas = IF r.metas = None THEN None
                      ELSE [i \in r.ids |-> IF @[i] = None THEN None ELSE Encoded(@[i])]]

-----------------------------------------------------------------------------
(* The shim.                                                               *)

\* A payload whose JSON does not have the types of the fields: Metadata has no
\* null, and UpdateMetadata has.
Parses(p) ==
  /\ p.embeddings # "nullRow"
  /\ p.op = "add" /\ p.metas # None =>
       \A i \in p.ids : p.metas[i] # None => p.metas[i].items # <<"nil">>
  /\ p.op = "createCollection" /\ p.label # None => p.label.items # <<"nil">>

ResolveTenant(p) == IF p.tenant = None THEN DefaultTenant ELSE p.tenant
ResolveDatabase(p) == IF p.db = None THEN DefaultDatabase ELSE p.db
Place(p) == <<ResolveTenant(p), ResolveDatabase(p)>>

\* The operations that pass the name of the database on with its length checked.
TypedOps == {"createDatabase", "getDatabase", "createCollection", "getCollection",
             "listCollections", "countCollections", "indexingStatus", "updateCollection"}

TypedName(p) == p.op \in TypedOps => ResolveDatabase(p) \notin ShortNames
CollectionId(p) == p.op \in OnId => p.coll # BadId

DeletePayload(p) == p.limit # None => p.limit # 0 /\ p.filter # None
UpdateCollectionPayload(p) == p.name # None \/ p.label # None

\* The filters, the list of what to include, the configuration and the schema.
Interprets(p) == p.op \in Interpreted => p.unseen # "malformed"

IntoRequest(p) ==
  /\ TypedName(p) /\ CollectionId(p) /\ Interprets(p)
  /\ p.op = "delete" => DeletePayload(p)
  /\ p.op = "updateCollection" => UpdateCollectionPayload(p)

\* External: what the frontend stores for a value.  JSON has one empty list only.
StoredValue(v) ==
  [list |-> v.list, of |-> IF v.items = <<>> THEN "empty" ELSE Parsed(v.items[1])]

StoredCell(v) ==
  IF v = None THEN Keep
  ELSE IF ~HasKey(v) THEN Keep
  ELSE IF v.items = <<"nil">> THEN Set(None)
  ELSE Set(StoredValue(v))

Rows(p) ==
  [i \in p.ids |-> [doc |-> p.docs,
                    cell |-> IF p.metas = None THEN Keep ELSE StoredCell(p.metas[i])]]

StoredLabel(p) == IF p.label = None THEN None ELSE StoredValue(p.label)

-----------------------------------------------------------------------------
(* One call.                                                               *)

NoAnswer == [how |-> "none", result |-> None]

Init ==
  /\ cat = Fresh(<<DefaultTenant, DefaultDatabase>>)
  /\ pc = "idle" /\ request = None /\ payload = None /\ reply = None
  /\ answer = NoAnswer

Call(r) ==
  /\ pc = "idle" /\ pc' = "validate"
  /\ request' = r /\ answer' = NoAnswer
  /\ UNCHANGED <<cat, payload, reply>>

End(how, result) ==
  /\ pc' = "idle" /\ request' = None /\ payload' = None /\ reply' = None
  /\ answer' = [how |-> how, result |-> result]
  /\ UNCHANGED cat

Refuse ==
  /\ pc = "validate" /\ ~(Valid(request) /\ Encodable(request))
  /\ End("invalid", None)

Send ==
  /\ pc = "validate" /\ Valid(request) /\ Encodable(request) /\ pc' = "shim"
  /\ payload' = Marshalled(request)
  /\ UNCHANGED <<cat, request, reply, answer>>

Accepts == Parses(payload) /\ IntoRequest(payload)

ShimRefuses ==
  /\ pc = "shim" /\ ~Accepts /\ pc' = "refused"
  /\ UNCHANGED <<cat, request, payload, reply, answer>>

\* External: the upstream types of the payload and try_new check more than is
\* said here, such as names, the keys of metadata, and sizes.
UpstreamRefuses ==
  /\ pc = "shim" /\ Accepts /\ pc' = "refusedUpstream"
  /\ UNCHANGED <<cat, request, payload, reply, answer>>

\* The frontend refuses, or its mutex is poisoned.
FrontendFails ==
  /\ pc = "shim" /\ Accepts /\ pc' = "failed"
  /\ UNCHANGED <<cat, request, payload, reply, answer>>

Run(ops) == pc = "shim" /\ payload.op \in ops /\ Accepts

Becomes(c, r) ==
  /\ cat' = c
  /\ pc' = "reply" /\ reply' = r
  /\ UNCHANGED <<request, payload, answer>>

Answers(r) == Becomes(cat, r)

Offset == IF payload.offset = None THEN 0 ELSE payload.offset

-----------------------------------------------------------------------------
(* Tenants and databases.                                                  *)

CreateTenant ==
  /\ Run({"createTenant"}) /\ payload.tenant \notin cat.tenants
  /\ Becomes(WithTenant(cat, payload.tenant), {})

GetTenant ==
  /\ Run({"getTenant"}) /\ payload.tenant \in cat.tenants
  /\ Answers({payload.tenant} \cap cat.named)

UpdateTenant ==
  /\ Run({"updateTenant"}) /\ payload.tenant \in cat.tenants
  /\ Becomes(WithResource(cat, payload.tenant), {})

CreateDatabase ==
  /\ Run({"createDatabase"})
  /\ ResolveTenant(payload) \in cat.tenants /\ Place(payload) \notin cat.databases
  /\ Becomes(WithDatabase(cat, Place(payload)), {})

GetDatabase ==
  /\ Run({"getDatabase"}) /\ Place(payload) \in cat.databases
  /\ Answers({payload.db})

DeleteDatabase ==
  /\ Run({"deleteDatabase"}) /\ Place(payload) \in cat.databases
  /\ Becomes(WithoutDatabase(cat, Place(payload)), {})

ListDatabases ==
  /\ Run({"listDatabases"})
  /\ \E r \in Page(DatabasesOf(cat, ResolveTenant(payload)), payload.limit, Offset) : Answers(r)

\* frontend.reset: it is in the configuration whether it is allowed.
Reset ==
  /\ Run({"reset"})
  /\ Becomes([Fresh(<<DefaultTenant, DefaultDatabase>>) EXCEPT !.minted = cat.minted], {})

-----------------------------------------------------------------------------
(* Collections.                                                            *)

InDatabase(op) == Run({op}) /\ Place(payload) \in cat.databases

Named == Called(cat, Place(payload), payload.name)

CreateCollection ==
  /\ InDatabase("createCollection")
  /\ \/ /\ Named = {}
        /\ \E k \in Unminted(cat) :
             Becomes(WithCollection(cat, k, Place(payload), payload.name,
                                    StoredLabel(payload), Empty), {k})
     \/ Named # {} /\ payload.getOrCreate /\ Answers(Named)

GetCollection ==
  /\ InDatabase("getCollection")
  /\ \E k \in Named : Answers({<<k, cat.collections[k].label>>})

DeleteCollection ==
  /\ InDatabase("deleteCollection")
  /\ \E k \in Named : Becomes(WithoutCollection(cat, k), {})

ListCollections ==
  /\ InDatabase("listCollections")
  /\ \E r \in Page(At(cat, Place(payload)), payload.limit, Offset) : Answers(r)

CountCollections ==
  /\ InDatabase("countCollections")
  /\ Answers({Cardinality(At(cat, Place(payload)))})

OnCollection(ops) == Run(ops) /\ payload.coll \in Live(cat)
Collection == cat.collections[payload.coll]

UpdateCollection ==
  /\ OnCollection({"updateCollection"})
  /\ Called(cat, Collection.place, payload.name) \subseteq {payload.coll}
  /\ Becomes(Relabelled(cat, payload.coll, payload.name, StoredLabel(payload)), {})

\* README.md:423: may be unimplemented in local mode.
ForkCollection ==
  /\ OnCollection({"forkCollection"}) /\ Place(payload) \in cat.databases /\ Named = {}
  /\ \E k \in Unminted(cat) :
       Becomes(WithCollection(cat, k, Place(payload), payload.name,
                              Collection.label, Collection.records), {k})

-----------------------------------------------------------------------------
(* Records.                                                                *)

Replace(c, r) == Becomes([cat EXCEPT !.collections[payload.coll].records = c], r)

WriteRecords ==
  /\ OnCollection(Writes)
  /\ Replace(Written(payload.op, Collection.records, Rows(payload)), {})

Selected == Matching(Collection.records, payload.ids, payload.filter)

DeleteRecords ==
  /\ OnCollection({"delete"})
  /\ \E gone \in AtMost(payload.limit, Selected) : Replace(Without(Collection.records, gone), gone)

GetRecords ==
  /\ OnCollection({"get"})
  /\ \E r \in Page(Selected, payload.limit, Offset) : Answers(r)

Query ==
  /\ OnCollection({"query"})
  /\ \E r \in AtMost(IF payload.limit = None THEN DefaultResults ELSE payload.limit, Selected) :
       Answers(r)

CountRecords ==
  /\ OnCollection({"countRecords"})
  /\ Answers({Cardinality(Present(Collection.records))})

\* The counts of the reply are not modelled.
IndexingStatus == OnCollection({"indexingStatus"}) /\ Answers({})

-----------------------------------------------------------------------------
(* The reply.                                                              *)

\* Functions that return a string tell an error by NULL only.
ReturnsString ==
  Reads \cup {"delete", "getTenant", "getDatabase", "listDatabases", "createCollection",
             "getCollection", "listCollections", "forkCollection", "indexingStatus"}

Report ==
  /\ pc \in {"refused", "refusedUpstream", "failed"}
  /\ End(IF request.op \in ReturnsString THEN "nullPointer"
         ELSE IF pc = "failed" THEN "operationFailed" ELSE "configParse", None)

Decode == pc = "reply" /\ End("ok", reply)

\* Replies that may be as long as a program likes: lists, and names, metadata,
\* configurations and schemas that it has chosen itself.
Unbounded == ReturnsString \ {"delete", "indexingStatus"}

\* goStringFromPtr cuts a reply off at maxCStringLen, and what is left of it is
\* no JSON.
CutOff == pc = "reply" /\ request.op \in Unbounded /\ End("undecodable", None)

Handlers ==
  \/ CreateTenant \/ GetTenant \/ UpdateTenant
  \/ CreateDatabase \/ GetDatabase \/ DeleteDatabase \/ ListDatabases \/ Reset
  \/ CreateCollection \/ GetCollection \/ DeleteCollection \/ ListCollections
  \/ CountCollections \/ UpdateCollection \/ ForkCollection
  \/ WriteRecords \/ DeleteRecords \/ GetRecords \/ Query \/ CountRecords \/ IndexingStatus

Next ==
  \/ \E r \in Requests : Call(r)
  \/ Refuse \/ Send \/ ShimRefuses \/ UpstreamRefuses \/ FrontendFails \/ Handlers
  \/ Report \/ Decode \/ CutOff

Spec == Init /\ [][Next]_vars

-----------------------------------------------------------------------------
(* Properties.                                                             *)

\* A request does what its fields say to the program that filled them in,
\* through two validations, two encodings and three ways to leave a field
\* out: it reaches the tenant, the database, the collection and the records it
\* names, or the default ones, a delete never more than its limit and never
\* without a criterion, or with a filter that means nothing, and integers and
\* floats are stored as what they are.  An error means that nothing has changed,
\* unless it is that the description of a collection that was created or forked
\* is too long for the reply: the collection is there then.
Service == INSTANCE RecordService WITH
  asked <- request,
  done <- IF pc = "reply" THEN <<reply>> ELSE <<>>,
  answer <- IF answer.how = "ok" THEN <<answer.result>> ELSE <<>>

RequestsMeanWhatTheySay == Service!Spec

\* What Go accepts the code of the shim refuses only for what it alone checks:
\* ids, the length of database names, rows of embeddings that are null, and the
\* parts that Go hands on unseen.  Go and the shim state all other rules (limits
\* and filters of deletes, updates of collections, nulls in metadata) twice, and
\* must not drift apart.
LayersAgree ==
  pc = "refused" =>
    \/ request.coll = BadId \/ request.db \in ShortNames \/ request.embeddings = "nullRow"
    \/ request.op \in Interpreted /\ request.unseen = "malformed"

\* What the steps of a call know of one another; with it LayersAgree is inductive.
StageInv ==
  /\ pc \in {"idle", "validate", "shim", "refused", "refusedUpstream", "failed", "reply"}
  /\ request \in IF pc = "idle" THEN {None} ELSE Requests
  /\ pc = "shim" => Valid(request) /\ Encodable(request) /\ payload = Marshalled(request)

IInv == StageInv /\ LayersAgree
=============================================================================
