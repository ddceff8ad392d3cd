---------------------------- MODULE RecordStore ----------------------------
(***************************************************************************)
(* The embedded database as the shim uses it: the catalog of tenants,      *)
(* databases and collections, the records of a collection, and what the    *)
(* frontend of the upstream crates does to them for one request.  A record *)
(* has a document and a value for one metadata key; of a value only the    *)
(* kind is kept.                                                           *)
(***************************************************************************)
EXTENDS Naturals, FiniteSets

CONSTANTS Ids, CollectionIds, None

-----------------------------------------------------------------------------
(* The catalog.  A database belongs to a tenant: it is a place             *)
(* <<tenant, name>>.  The id of a collection is never used again.          *)

Fresh(home) ==
  [tenants |-> {home[1]}, named |-> {}, databases |-> {home}, minted |-> {},
   collections |-> [k \in CollectionIds |-> None]]

Live(cat) == {k \in CollectionIds : cat.collections[k] # None}
At(cat, place) == {k \in Live(cat) : cat.collections[k].place = place}
Called(cat, place, name) == {k \in At(cat, place) : cat.collections[k].name = name}
DatabasesOf(cat, tenant) == {p[2] : p \in {q \in cat.databases : q[1] = tenant}}

Empty == [i \in Ids |-> None]

WithTenant(cat, t) == [cat EXCEPT !.tenants = @ \cup {t}]
WithResource(cat, t) == [cat EXCEPT !.named = @ \cup {t}]
WithDatabase(cat, place) == [cat EXCEPT !.databases = @ \cup {place}]
WithoutDatabase(cat, place) ==
  [cat EXCEPT !.databases = @ \ {place},
              !.collections = [k \in CollectionIds |-> IF k \in At(cat, place) THEN None ELSE @[k]]]
WithCollection(cat, k, place, name, label, records) ==
  [cat EXCEPT !.minted = @ \cup {k},
              !.collections[k] = [place |-> place, name |-> name, label |-> label,
                                  records |-> records]]
WithoutCollection(cat, k) == [cat EXCEPT !.collections[k] = None]

\* A name or a label that is None stays what it is.
Relabelled(cat, k, name, label) ==
  [cat EXCEPT !.collections[k].name = IF name = None THEN @ ELSE name,
              !.collections[k].label = IF label = None THEN @ ELSE label]

Unminted(cat) == CollectionIds \ cat.minted

-----------------------------------------------------------------------------
(* The records.                                                            *)

Present(c) == {i \in Ids : c[i] # None}

\* A row of a write has a document, or None, and a cell for the metadata key:
\* whether it is set, and to what; None clears it.
Keep == [set |-> FALSE, to |-> None]
Set(kind) == [set |-> TRUE, to |-> kind]

New(row) == [doc |-> row.doc, meta |-> row.cell.to]

Over(old, row) ==
  [doc |-> IF row.doc = None THEN old.doc ELSE row.doc,
   meta |-> IF row.cell.set THEN row.cell.to ELSE old.meta]

Written(op, c, rows) ==
  [i \in Ids |->
     IF i \notin DOMAIN rows THEN c[i]
     ELSE IF c[i] = None THEN (IF op = "update" THEN None ELSE New(rows[i]))
     ELSE IF op = "add" THEN c[i] ELSE Over(c[i], rows[i])]

\* Criteria that are not given are None.
Matching(c, ids, filter) ==
  {i \in Present(c) : (ids # None => i \in ids) /\ (filter # None => c[i].doc = filter)}

AtMost(n, s) ==
  {t \in SUBSET s : Cardinality(t) = IF n = None \/ n > Cardinality(s) THEN Cardinality(s) ELSE n}

\* The upstream order is not modelled: any page of the right size.
Page(s, limit, offset) ==
  UNION {AtMost(limit, rest) : rest \in {s \ skipped : skipped \in AtMost(offset, s)}}

Without(c, gone) == [i \in Ids |-> IF i \in gone THEN None ELSE c[i]]
=============================================================================
