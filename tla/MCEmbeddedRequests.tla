------------------------- MODULE MCEmbeddedRequests -------------------------
(* A small instance of EmbeddedRequests for TLC.                           *)
EXTENDS EmbeddedRequests

Ask(op) ==
  [op |-> op, tenant |-> "", db |-> "", name |-> "", coll |-> NoId, label |-> None,
   getOrCreate |-> FALSE, ids |-> {}, docs |-> None, metas |-> None, embeddings |-> "rows",
   columnsFit |-> TRUE, filter |-> None, limit |-> IF op = "delete" THEN None ELSE 0,
   offset |-> 0, unseen |-> "fine"]

One(k) == [list |-> FALSE, typed |-> FALSE, items |-> <<k>>]
List(s) == [list |-> TRUE, typed |-> FALSE, items |-> s]
NoKey == [list |-> FALSE, typed |-> FALSE, items |-> <<>>]
TypedEmpty == [list |-> TRUE, typed |-> TRUE, items |-> <<>>]

Tenants == {"", "guest"}
Names == {"", "other", "ab"}

\* The catalog: places by default, by name and by a name that is too short.
OnPlaces ==
  {[Ask(op) EXCEPT !.tenant = t] : op \in OnTenant, t \in Tenants}
  \cup {[Ask(op) EXCEPT !.tenant = t, !.db = d] :
         op \in OnDatabase \cup {"listDatabases", "countCollections", "listCollections"},
         t \in Tenants, d \in Names}
  \cup {[Ask(op) EXCEPT !.limit = 1, !.offset = n] :
         op \in {"listDatabases", "listCollections"}, n \in {0, 1}}
  \cup {Ask("reset")}

OnNames ==
  {[Ask(op) EXCEPT !.db = d, !.name = n] : op \in OnName \ {"forkCollection"}, d \in Names,
                                          n \in {"", "c"}}
  \cup {[Ask(op) EXCEPT !.tenant = "guest", !.db = "other", !.name = "c"] :
         op \in {"createCollection", "getCollection"}}
  \cup {[Ask("createCollection") EXCEPT !.name = "c", !.label = v, !.getOrCreate = g] :
         v \in {NoKey, List(<<>>), TypedEmpty, One("nil"), One("float")}, g \in BOOLEAN}

OnCollections ==
  {[Ask(op) EXCEPT !.coll = k, !.name = "e"] :
     op \in OnId \ (Writes \cup Reads \cup {"delete"}), k \in CollectionIds \cup {NoId, BadId}}
  \cup {[Ask(op) EXCEPT !.coll = "k1", !.name = n, !.db = d, !.label = v] :
         op \in {"updateCollection"}, n \in {"", "c"}, d \in Names,
         v \in {None, NoKey, List(<<>>), TypedEmpty, One("nil"), One("int")}}
  \cup {[Ask("forkCollection") EXCEPT !.coll = "k1", !.name = "c", !.db = "other"]}

MCValues ==
  {None, NoKey, One("nil"), One("int"), One("float"), One("nested"), List(<<>>),
   TypedEmpty, List(<<"int", "int">>), List(<<"int", "float">>), List(<<"float", "int">>),
   List(<<"int", "string">>), List(<<"int", "nil">>)}

\* Writes of one record with every value, and of several in all other ways.
MCWrites ==
  {[Ask(op) EXCEPT !.coll = "k1", !.ids = {"a"}, !.docs = d, !.metas = [i \in {"a"} |-> v]] :
     op \in Writes, d \in {None, "d"}, v \in MCValues}
  \cup {[Ask(op) EXCEPT !.coll = "k1", !.ids = s, !.docs = d, !.embeddings = e, !.columnsFit = f] :
         op \in Writes, s \in {{}, Ids}, d \in {None, "d"}, e \in {"none", "rows", "nullRow"},
         f \in BOOLEAN}
  \cup {[Ask("add") EXCEPT !.ids = {"b"}, !.coll = c] : c \in {BadId, NoId, "k2"}}

MCSelections ==
  {[Ask(op) EXCEPT !.coll = "k1", !.ids = s, !.filter = f, !.limit = n] :
     op \in Reads \cup {"delete"}, s \in {{}, {"a"}, Ids}, f \in {None, "d"}, n \in {0, 1}}
  \cup {[Ask("delete") EXCEPT !.coll = "k1", !.ids = s, !.filter = f] :
         s \in {{}, {"a"}}, f \in {None, "d"}}
  \cup {[Ask("get") EXCEPT !.coll = "k1", !.offset = 1],
        [Ask("query") EXCEPT !.coll = "k1", !.embeddings = "none"]}

\* Filters that do not parse, and parts that have no JSON.
Odd == {"malformed", "unencodable"}

MCUnseen ==
  {[Ask(op) EXCEPT !.coll = "k1", !.ids = s, !.filter = "d", !.unseen = u] :
     op \in Reads \cup {"delete"}, s \in {{}, {"a"}}, u \in Odd}
  \cup {[Ask("createCollection") EXCEPT !.name = "c", !.unseen = u] : u \in Odd}
  \cup {[Ask(op) EXCEPT !.coll = "k1", !.ids = {"a"}, !.unseen = "unencodable"] : op \in Writes}

MCRequests ==
  OnPlaces \cup OnNames \cup OnCollections \cup MCWrites \cup MCSelections \cup MCUnseen

\* Either records vary or the catalog does, in two respects at a time.
Plain ==
  /\ cat.tenants = {DefaultTenant} /\ cat.named = {}
  /\ cat.databases = {<<DefaultTenant, DefaultDatabase>>}
  /\ \A k \in Live(cat) : cat.collections[k].label = None

Bare == \A k \in Live(cat) : Present(cat.collections[k].records) = {}

Varies ==
  {"tenants" : t \in cat.tenants \ {DefaultTenant}} \cup {"named" : t \in cat.named}
  \cup {"databases" : p \in cat.databases \ {<<DefaultTenant, DefaultDatabase>>}}
  \cup {"names" : k \in {l \in Live(cat) : cat.collections[l].name # "c"}}
  \cup {"labels" : k \in {l \in Live(cat) : cat.collections[l].label # None}}

Focus == Plain \/ (Bare /\ Cardinality(Varies) <= 2)
=============================================================================
