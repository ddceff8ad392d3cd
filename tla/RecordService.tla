--------------------------- MODULE RecordService ---------------------------
(***************************************************************************)
(* What the calls of the embedded client mean to the caller who filled in  *)
(* the request: one request at a time is carried out once or not at all,   *)
(* on the tenant, the database, the collection and the records it names,   *)
(* with values of the kinds it gives.  An error means that nothing has     *)
(* changed, unless the reply was to describe a collection that was made.   *)
(***************************************************************************)
EXTENDS RecordStore, Naturals, FiniteSets

CONSTANTS DefaultTenant, DefaultDatabase, DefaultResults

VARIABLES
  cat,     \* the catalog and its records
  asked,   \* the request in progress, or None
  done,    \* <<its result>> once it has been carried out, <<>> before
  answer   \* <<the result>> of the last call that has returned, <<>> for an error
           \* and while a call is in progress

Scalars == {"bool", "string", "int", "float"}

\* A list is of one kind; integers among floats count as floats, and the empty
\* list is a kind of its own if it is one of scalars.
Kinds(v) ==
  LET items == {v.items[j] : j \in DOMAIN v.items} IN
  CASE v.list /\ items = {}               -> IF v.typed THEN {"empty"} ELSE {"unknown"}
    [] v.list /\ items = {"int", "float"} -> {"float"}
    [] OTHER                              -> items

\* No value at all leaves what is there, and nil clears it.
Storable(op, v) ==
  \/ Kinds(v) \in {{k} : k \in Scalars \cup {"empty"}}
  \/ ~v.list /\ Kinds(v) = {}
  \/ ~v.list /\ Kinds(v) = {"nil"} /\ op \in {"update", "upsert"}

Stored(v) == [list |-> v.list, of |-> CHOOSE k \in Kinds(v) : TRUE]

Cell(v) ==
  CASE Kinds(v) = {}      -> Keep
    [] Kinds(v) = {"nil"} -> Set(None)
    [] OTHER              -> Set(Stored(v))

Rows(r) ==
  [i \in r.ids |-> [doc |-> r.docs,
                    cell |-> IF r.metas = None \/ r.metas[i] = None THEN Keep
                                                            ELSE Cell(r.metas[i])]]

\* An empty list, filter or name is as good as none.
Given(x, nothing) == IF x = nothing THEN None ELSE x
Tenant(r) == IF r.tenant = "" THEN DefaultTenant ELSE r.tenant
Place(r) == <<Tenant(r), IF r.db = "" THEN DefaultDatabase ELSE r.db>>
Label(r) == IF r.label = None \/ Kinds(r.label) = {} THEN None ELSE Stored(r.label)

Limit(r) == IF r.limit # 0 THEN r.limit ELSE IF r.op = "query" THEN DefaultResults ELSE None

Chosen(r, c) == Matching(c.records, Given(r.ids, {}), r.filter)

-----------------------------------------------------------------------------
(* What the calls do: the catalog and the result they may leave behind.    *)

Effect(c, result) == [cat |-> c, done |-> <<result>>]
Look(results) == {Effect(cat, x) : x \in results}

OnTenants(r) ==
  IF r.op = "createTenant" /\ r.tenant \notin cat.tenants
  THEN {Effect(WithTenant(cat, r.tenant), {})}
  ELSE IF r.tenant \in cat.tenants
  THEN CASE r.op = "getTenant"    -> Look({{r.tenant} \cap cat.named})
         [] r.op = "updateTenant" -> {Effect(WithResource(cat, r.tenant), {})}
         [] OTHER                 -> {}
  ELSE {}

OnDatabases(r) ==
  LET place == <<Tenant(r), r.db>> IN
  CASE r.op = "listDatabases"  -> Look(Page(DatabasesOf(cat, Tenant(r)), Limit(r), r.offset))
    [] r.op = "createDatabase" ->
         IF Tenant(r) \in cat.tenants /\ place \notin cat.databases
         THEN {Effect(WithDatabase(cat, place), {})} ELSE {}
    [] r.op = "getDatabase"    -> IF place \in cat.databases THEN Look({{r.db}}) ELSE {}
    [] r.op = "deleteDatabase" ->
         IF place \in cat.databases THEN {Effect(WithoutDatabase(cat, place), {})} ELSE {}
    [] OTHER                   -> {}

ByName(r) ==
  LET place == Place(r)
      called == Called(cat, place, r.name) IN
  IF place \notin cat.databases THEN {} ELSE
  CASE r.op = "createCollection" ->
         IF called = {}
         THEN {Effect(WithCollection(cat, k, place, r.name, Label(r), Empty), {k}) :
                 k \in Unminted(cat)}
         ELSE IF r.getOrCreate THEN Look({called}) ELSE {}
    [] r.op = "getCollection"    -> Look({{<<k, cat.collections[k].label>>} : k \in called})
    [] r.op = "deleteCollection" -> {Effect(WithoutCollection(cat, k), {}) : k \in called}
    [] r.op = "listCollections"  -> Look(Page(At(cat, place), Limit(r), r.offset))
    [] r.op = "countCollections" -> Look({{Cardinality(At(cat, place))}})
    [] OTHER                     -> {}

Values(r) == IF r.metas = None THEN {} ELSE {r.metas[i] : i \in r.ids} \ {None}

ByCollectionId(r) ==
  LET k == r.coll
      c == cat.collections[k]
      Becomes(records, result) == Effect([cat EXCEPT !.collections[k].records = records], result) IN
  CASE r.op \in {"add", "upsert", "update"} ->
         IF r.ids # {} /\ \A v \in Values(r) : Storable(r.op, v)
         THEN {Becomes(Written(r.op, c.records, Rows(r)), {})} ELSE {}
    [] r.op = "delete" ->
         \* Never without a criterion, and never more than the limit.
         IF r.ids # {} \/ r.filter # None
         THEN {Becomes(Without(c.records, gone), gone) : gone \in AtMost(r.limit, Chosen(r, c))}
         ELSE {}
    [] r.op \in {"get", "query"} -> Look(Page(Chosen(r, c), Limit(r), r.offset))
    [] r.op = "countRecords"     -> Look({{Cardinality(Present(c.records))}})
    [] r.op = "indexingStatus"   -> Look({{}})
    [] r.op = "updateCollection" ->
         IF r.name # "" /\ Called(cat, c.place, r.name) \ {k} # {} THEN {}
         ELSE {Effect(Relabelled(cat, k, Given(r.name, ""), Label(r)), {})}
    [] r.op = "forkCollection"   ->
         IF Called(cat, Place(r), r.name) # {} \/ Place(r) \notin cat.databases THEN {}
         ELSE {Effect(WithCollection(cat, l, Place(r), r.name, c.label, c.records), {l}) :
                 l \in Unminted(cat)}
    [] OTHER -> {}

\* Nothing is done for a request with a part that means nothing.
Effects(r) ==
  IF r.unseen # "fine" THEN {} ELSE
  OnTenants(r) \cup OnDatabases(r) \cup ByName(r)
  \cup (IF r.coll \in Live(cat) THEN ByCollectionId(r) ELSE {})
  \cup (IF r.op = "reset" THEN {Effect([Fresh(<<DefaultTenant, DefaultDatabase>>) EXCEPT
                                          !.minted = cat.minted], {})} ELSE {})

Changes == {"createTenant", "updateTenant", "createDatabase", "deleteDatabase",
            "createCollection", "deleteCollection", "updateCollection", "forkCollection",
            "add", "upsert", "update", "delete", "reset"}

\* Their reply describes what they made, as long as that may be.
Describes == {"createCollection", "forkCollection"}

-----------------------------------------------------------------------------
Init ==
  /\ cat = Fresh(<<DefaultTenant, DefaultDatabase>>)
  /\ asked = None /\ done = <<>> /\ answer = <<>>

Ask == asked = None /\ asked' # None /\ answer' = <<>> /\ UNCHANGED <<cat, done>>

CarryOut ==
  /\ asked # None /\ done = <<>>
  /\ \E e \in Effects(asked) : cat' = e.cat /\ done' = e.done
  /\ UNCHANGED <<asked, answer>>

Succeed ==
  /\ done # <<>>
  /\ answer' = done /\ asked' = None /\ done' = <<>>
  /\ UNCHANGED cat

\* What has only been read may get lost on the way to the caller, and so may
\* the description of a new collection.
Fail ==
  /\ asked # None /\ (done = <<>> \/ asked.op \notin Changes \ Describes)
  /\ answer' = <<>> /\ asked' = None /\ done' = <<>>
  /\ UNCHANGED cat

Next == Ask \/ CarryOut \/ Succeed \/ Fail

Spec == Init /\ [][Next]_<<cat, asked, done, answer>>
=============================================================================
