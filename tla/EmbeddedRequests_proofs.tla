----------------------- MODULE EmbeddedRequests_proofs -----------------------
(***************************************************************************)
(* Proofs about EmbeddedRequests, for any requests: what passes the        *)
(* validation of the Go client passes the checks of the shim, but for      *)
(* those that only the shim has, and what the shim then does is what the   *)
(* request says (RecordService).                                           *)
(***************************************************************************)
EXTENDS EmbeddedRequests, NaturalsInduction, WellFoundedInduction, FiniteSetTheorems, TLAPS

-----------------------------------------------------------------------------
(* The kind of a list.  FoldLeft is a recursion over the sets of positions *)
(* that are left.  It has a closed form, which shows that the recursion    *)
(* has a solution; that it has no other is an induction over the prefixes, *)
(* done as a search for the shortest bad one.                              *)

Merged(items, s, a) == IF s = {} THEN "start" ELSE Joined(a, Scalar(items[Max(s)], FALSE))

Scalars == {"bool", "string", "int", "float"}

IsFold(items, g) == g = [s \in SUBSET DOMAIN items |-> Merged(items, s, g[s \ {Max(s)}])]

ListKind(items) == (CHOOSE g : IsFold(items, g))[DOMAIN items]

LEMMA KindOfList ==
  ASSUME NEW v, v.list, NEW nil
  PROVE  Kind(v, nil) = IF v.items = <<>> THEN (IF v.typed THEN "empty" ELSE "refused")
                                          ELSE ListKind(v.items)
  <1>1. CASE v.items = <<>>
    BY <1>1 DEF Kind
  <1>2. CASE v.items # <<>>
    <2>1. Kind(v, nil) = FoldLeft(LAMBDA a, i : Joined(a, Scalar(i, FALSE)), "start", v.items)
      BY <1>2 DEF Kind
    <2> QED
      BY <1>2, <2>1 DEF FoldLeft, MapThenFoldSet, ListKind, IsFold, Merged
  <1> QED
    BY <1>1, <1>2

\* A set of numbers that is not empty has a least one.
LEMMA LeastNumber ==
  ASSUME NEW B \in SUBSET Nat, B # {}
  PROVE  \E m \in B : \A k \in B : m <= k
  <1> DEFINE less == OpToRel(<, Nat)
  <1>1. IsWellFoundedOn(less, Nat)
    BY NatLessThanWellFounded
  <1>2. \A k, n \in Nat : k < n => <<k, n>> \in less
    BY DEF OpToRel
  <1> HIDE DEF less
  <1>3. PICK m \in B : \A k \in B : <<k, m>> \notin less
    BY <1>1, WFMin
  <1>4. ASSUME NEW k \in B PROVE m <= k
    <2>1. k \in Nat /\ m \in Nat
      OBVIOUS
    <2>2. ~(k < m)
      BY <1>2, <1>3, <2>1, Zenon
    <2> QED
      BY <2>1, <2>2
  <1> QED
    BY <1>4

\* The greatest position is there, and a set without it is smaller.
LEMMA LastPosition ==
  ASSUME NEW n \in Nat, NEW s \in SUBSET (1..n), s # {}
  PROVE  Max(s) \in s /\ \A i \in s : i <= Max(s)
  <1> DEFINE B == {n - i : i \in s}
  <1>1. B \in SUBSET Nat /\ B # {}
    OBVIOUS
  <1> HIDE DEF B
  <1>2. PICK m \in B : \A k \in B : m <= k
    BY <1>1, LeastNumber
  <1>3. PICK x \in s : m = n - x
    BY DEF B
  <1>4. \A i \in s : x >= i
    <2> SUFFICES ASSUME NEW i \in s PROVE x >= i
      OBVIOUS
    <2>1. n - i \in B
      BY DEF B
    <2>2. n - x <= n - i
      BY <1>2, <1>3, <2>1
    <2> QED
      BY <2>2
  <1>5. Max(s) \in s /\ \A i \in s : Max(s) >= i
    BY <1>4 DEF Max
  <1> QED
    BY <1>5

KindsAt(items, s) == {Scalar(items[j], FALSE) : j \in s}

Common(S) ==
  IF S = {} THEN "start"
  ELSE IF \E k \in Scalars : S = {k} THEN CHOOSE k \in Scalars : S = {k}
  ELSE IF S = {"int", "float"} THEN "float" ELSE "refused"

LEMMA ScalarKind == \A item, nil : Scalar(item, nil) \in Scalars \cup {"refused", "nil"}
  BY DEF Scalar, Scalars

LEMMA CommonStep ==
  ASSUME NEW S \in SUBSET (Scalars \cup {"refused"}), NEW k \in Scalars \cup {"refused"}
  PROVE  Common(S \cup {k}) = Joined(Common(S), k)
  <1>1. \A l \in Scalars : Common({l}) = l
    BY DEF Common, Scalars
  <1>2. Common({"int", "float"}) = "float" /\ Common({}) = "start"
    BY DEF Common
  <1>3. CASE S = {}
    <2>1. S \cup {k} = {k}
      BY <1>3
    <2>2. Common({k}) = k
      BY <1>1 DEF Common, Scalars
    <2> QED
      BY <1>2, <1>3, <2>1, <2>2 DEF Joined
  <1>4. CASE \E l \in Scalars : S = {l}
    <2>1. PICK l \in Scalars : S = {l}
      BY <1>4
    <2>2. Common(S) = l
      BY <1>1, <2>1
    <2>3. CASE k = l
      BY <2>1, <2>2, <2>3 DEF Joined
    <2>4. CASE k # l /\ {k, l} = {"int", "float"}
      <3>1. S \cup {k} = {"int", "float"}
        BY <2>1, <2>4
      <3>2. Joined(l, k) = "float"
        BY <2>4 DEF Joined, Scalars
      <3> QED
        BY <1>2, <2>2, <3>1, <3>2
    <2>5. CASE k # l /\ {k, l} # {"int", "float"}
      <3>1. Common(S \cup {k}) = "refused"
        <4>1. S \cup {k} = {k, l}
          BY <2>1
        <4> QED
          BY <2>5, <4>1 DEF Common
      <3>2. Joined(l, k) = "refused"
        BY <2>5, <2>1 DEF Joined, Scalars
      <3> QED
        BY <2>2, <3>1, <3>2
    <2> QED
      BY <2>3, <2>4, <2>5
  <1>5. CASE S = {"int", "float"}
    <2>1. Common(S) = "float"
      BY <1>2, <1>5
    <2>2. CASE k \in S
      <3>1. S \cup {k} = S
        BY <2>2
      <3> QED
        BY <1>5, <2>1, <2>2, <3>1 DEF Joined
    <2>3. CASE k \notin S
      <3>1. Common(S \cup {k}) = "refused"
        BY <1>5, <2>3 DEF Common
      <3>2. Joined("float", k) = "refused"
        BY <1>5, <2>3 DEF Joined
      <3> QED
        BY <2>1, <3>1, <3>2
    <2> QED
      BY <2>2, <2>3
  <1>6. CASE S # {} /\ (\A l \in Scalars : S # {l}) /\ S # {"int", "float"}
    <2>1. Common(S) = "refused"
      BY <1>6 DEF Common
    <2>2. Common(S \cup {k}) = "refused"
      <3>1. \A l \in Scalars : S \cup {k} # {l}
        BY <1>6
      <3>2. S \cup {k} # {"int", "float"}
        BY <1>6 DEF Scalars
      <3> QED
        BY <3>1, <3>2 DEF Common
    <2>3. Joined("refused", k) = "refused"
      BY DEF Joined, Scalars
    <2> QED
      BY <2>1, <2>2, <2>3
  <1> QED
    BY <1>3, <1>4, <1>5, <1>6

\* What normalizeMetadataSlice makes of a list depends on the kinds in it only.
LEMMA ListKindIsCommon ==
  ASSUME NEW items \in Seq(Items)
  PROVE  ListKind(items) = Common(KindsAt(items, DOMAIN items))
  <1> DEFINE n == Len(items)
  <1>1. DOMAIN items = 1..n /\ n \in Nat
    OBVIOUS
  <1>2. \A j : Scalar(items[j], FALSE) \in Scalars \cup {"refused"}
    BY DEF Scalar, Scalars
  <1>3. \A s : KindsAt(items, s) \in SUBSET (Scalars \cup {"refused"})
    BY <1>2 DEF KindsAt
  <1>4. ASSUME NEW s, NEW j \in s
        PROVE  Common(KindsAt(items, s)) =
                 Joined(Common(KindsAt(items, s \ {j})), Scalar(items[j], FALSE))
    <2>1. KindsAt(items, s) = KindsAt(items, s \ {j}) \cup {Scalar(items[j], FALSE)}
      BY DEF KindsAt
    <2> QED
      BY <1>2, <1>3, <2>1, CommonStep
  <1>5. Common(KindsAt(items, {})) = "start"
    BY DEF KindsAt, Common
  <1> HIDE DEF n
  <1> DEFINE h == [s \in SUBSET (1..n) |-> Common(KindsAt(items, s))]
  <1>6. IsFold(items, h)
    <2>1. ASSUME NEW s \in SUBSET (1..n)
          PROVE  h[s] = Merged(items, s, h[s \ {Max(s)}])
      <3>1. CASE s = {}
        BY <1>5, <3>1 DEF Merged
      <3>2. CASE s # {}
        <4>1. Max(s) \in s
          BY <1>1, <3>2, LastPosition
        <4>2. h[s \ {Max(s)}] = Common(KindsAt(items, s \ {Max(s)}))
          OBVIOUS
        <4> QED
          BY <1>4, <3>2, <4>1, <4>2 DEF Merged
      <3> QED
        BY <3>1, <3>2
    <2>2. h = [s \in SUBSET (1..n) |-> h[s]]
      OBVIOUS
    <2> HIDE DEF h
    <2> QED
      BY <1>1, <2>1, <2>2 DEF IsFold
  <1> DEFINE g == CHOOSE f : IsFold(items, f)
  <1>7. g = [s \in SUBSET (1..n) |-> Merged(items, s, g[s \ {Max(s)}])]
    <2>1. IsFold(items, g)
      BY <1>6
    <2> HIDE DEF g
    <2> QED
      BY <1>1, <2>1 DEF IsFold
  <1> HIDE DEF g
  <1> DEFINE Bad == {k \in 0..n : g[1..k] # Common(KindsAt(items, 1..k))}
  <1>8. Bad = {}
    <2> SUFFICES ASSUME Bad # {} PROVE FALSE
      OBVIOUS
    <2>1. PICK m \in Bad : \A k \in Bad : m <= k
      <3>1. Bad \in SUBSET Nat
        BY <1>1
      <3> HIDE DEF Bad
      <3> QED
        BY <3>1, LeastNumber
    <2>2. m \in 0..n /\ g[1..m] # Common(KindsAt(items, 1..m))
      BY <2>1
    <2>3. g[1..m] = Merged(items, 1..m, g[(1..m) \ {Max(1..m)}])
      <3>1. 1..m \in SUBSET (1..n)
        BY <1>1, <2>2
      <3> QED
        BY <1>7, <3>1
    <2>4. CASE m = 0
      <3>1. 1..m = {}
        BY <2>4
      <3> QED
        BY <1>5, <2>2, <2>3, <3>1 DEF Merged
    <2>5. CASE m # 0
      <3>1. m \in Nat /\ m - 1 \in 0..n /\ m \in 1..m /\ 1..m # {}
        <4>1. m \in Nat /\ m >= 1 /\ m <= n
          BY <1>1, <2>2, <2>5
        <4>2. m \in 1..m
          BY <4>1
        <4>3. m - 1 \in 0..n
          BY <1>1, <4>1
        <4> QED
          BY <4>1, <4>2, <4>3
      <3>2. Max(1..m) = m
        <4>1. Max(1..m) \in 1..m /\ \A i \in 1..m : i <= Max(1..m)
          BY <3>1, LastPosition
        <4> QED
          BY <3>1, <4>1
      <3>3. (1..m) \ {m} = 1..(m - 1)
        BY <3>1
      <3>4. g[1..(m - 1)] = Common(KindsAt(items, 1..(m - 1)))
        <4>1. m - 1 \notin Bad
          <5> HIDE DEF Bad
          <5> QED
            BY <2>1, <3>1
        <4> QED
          BY <3>1, <4>1
      <3>5. g[1..m] = Joined(g[1..(m - 1)], Scalar(items[m], FALSE))
        BY <2>3, <3>1, <3>2, <3>3 DEF Merged
      <3>6. Common(KindsAt(items, 1..m)) =
              Joined(Common(KindsAt(items, 1..(m - 1))), Scalar(items[m], FALSE))
        BY <1>4, <3>1, <3>3
      <3> QED
        BY <2>2, <3>4, <3>5, <3>6
    <2> QED
      BY <2>4, <2>5
  <1>9. g[1..n] = Common(KindsAt(items, 1..n))
    BY <1>1, <1>8
  <1> QED
    BY <1>1, <1>9 DEF ListKind, g

LEMMA KindType ==
  ASSUME NEW v \in Value, v.list, NEW nil
  PROVE  /\ Kind(v, nil) \in Scalars \cup {"empty", "refused"}
         /\ v.items # <<>> => Kind(v, nil) \in Scalars \cup {"refused"}
  <1>1. v.items \in Seq(Items)
    BY DEF Value
  <1>2. v.items # <<>> => KindsAt(v.items, DOMAIN v.items) # {}
    <2>1. v.items # <<>> => 1 \in DOMAIN v.items
      BY <1>1
    <2> QED
      BY <2>1 DEF KindsAt
  <1>3. \A S : S # {} => Common(S) \in Scalars \cup {"refused"}
    BY DEF Common, Scalars
  <1> QED
    BY <1>1, <1>2, <1>3, KindOfList, ListKindIsCommon

\* What is encoded is never mistaken for nothing.
LEMMA EncodedType ==
  ASSUME NEW v \in Value, v.list => Kind(v, FALSE) # "refused"
  PROVE  Encoded(v) \in JsonValue
  <1>1. v.items \in Seq(Items) /\ v.list \in BOOLEAN
    BY DEF Value
  <1>2. \A k \in Items : Token(k) \in Tokens
    BY DEF Token, Items, Tokens
  <1>3. v.list /\ v.items # <<>> => Kind(v, FALSE) \in Items
    BY KindType DEF Scalars, Items
  <1>4. \A j \in DOMAIN v.items :
          (IF v.list THEN Token(Kind(v, FALSE)) ELSE Token(v.items[j])) \in Tokens
    <2>1. \A j \in DOMAIN v.items : v.items[j] \in Items
      BY <1>1
    <2>2. DOMAIN v.items # {} => v.items # <<>>
      OBVIOUS
    <2> QED
      BY <1>2, <1>3, <2>1, <2>2
  <1>5. Encoded(v).items \in Seq(Tokens)
    <2>1. DOMAIN v.items = 1..Len(v.items) /\ Len(v.items) \in Nat
      BY <1>1
    <2>2. Encoded(v).items \in [1..Len(v.items) -> Tokens]
      BY <1>4, <2>1 DEF Encoded
    <2> QED
      BY <2>1, <2>2
  <1>6. ~v.list => Len(Encoded(v).items) <= 1
    <2>1. ~v.list => Len(v.items) <= 1
      BY DEF Value
    <2>2. DOMAIN v.items = 1..Len(v.items) /\ Len(v.items) \in Nat
      BY <1>1
    <2>3. DOMAIN Encoded(v).items = 1..Len(v.items)
      BY <2>2 DEF Encoded
    <2>4. Len(Encoded(v).items) = Len(v.items)
      BY <1>5, <2>2, <2>3
    <2> QED
      BY <2>1, <2>4
  <1>7. Encoded(v) = [list |-> v.list, items |-> Encoded(v).items]
    BY DEF Encoded
  <1> QED
    BY <1>1, <1>5, <1>6, <1>7 DEF JsonValue

\* Where Go takes no nil, nothing that it encodes is a null.
LEMMA NothingIsNull ==
  ASSUME NEW v \in Value, HasKey(v), Kind(v, FALSE) # "refused"
  PROVE  Encoded(v).items # <<"nil">>
  <1> SUFFICES ASSUME Encoded(v).items = <<"nil">> PROVE FALSE
    OBVIOUS
  <1>1. DOMAIN v.items = {1}
    <2>1. DOMAIN Encoded(v).items = DOMAIN v.items
      BY DEF Encoded
    <2> QED
      BY <2>1
  <1>2. (IF v.list THEN Token(Kind(v, FALSE)) ELSE Token(v.items[1])) = "nil"
    <2>1. Encoded(v).items[1] = "nil"
      OBVIOUS
    <2> QED
      BY <1>1, <2>1 DEF Encoded
  <1>3. \A k : Token(k) = "nil" => k = "nil"
    BY DEF Token
  <1>4. ~v.list /\ v.items[1] = "nil"
    BY <1>2, <1>3, KindType DEF Scalars
  <1>5. Kind(v, FALSE) = "refused"
    BY <1>4 DEF Kind, Scalar
  <1> QED
    BY <1>5

-----------------------------------------------------------------------------
(* From Go to the shim.                                                    *)

LEMMA MarshalledFields ==
  ASSUME NEW r \in Requests
  PROVE  LET p == Marshalled(r) IN
         /\ p.op = r.op /\ p.coll = r.coll /\ p.embeddings = r.embeddings /\ p.filter = r.filter
         /\ p.docs = r.docs /\ p.getOrCreate = r.getOrCreate /\ p.unseen = r.unseen
         /\ p.ids = Omit(r.ids, {}) /\ p.name = Omit(r.name, "") /\ p.db = Omit(r.db, "")
         /\ p.tenant = Omit(r.tenant, "") /\ p.offset = Omit(r.offset, 0)
         /\ p.limit = IF r.op = "delete" THEN r.limit ELSE Omit(r.limit, 0)
         /\ p.label = IF r.label = None THEN None
                      ELSE IF HasKey(r.label) THEN Encoded(r.label) ELSE None
         /\ p.metas = IF r.metas = None THEN None
                      ELSE [i \in r.ids |-> IF r.metas[i] = None THEN None
                                             ELSE Encoded(r.metas[i])]
  BY RequestsAssumption DEF Marshalled, IsRequest

LEMMA Fields ==
  ASSUME NEW r \in Requests
  PROVE  /\ r.name # None /\ r.db # None /\ r.label \in Value \cup {None}
         /\ r.metas # None => \A i \in r.ids : r.metas[i] \in Value \cup {None}
  BY RequestsAssumption, NoneAssumption DEF IsRequest

\* No value becomes a null on its way: Parses.
LEMMA NoNulls ==
  ASSUME NEW r \in Requests, Valid(r), r.embeddings # "nullRow"
  PROVE  Parses(Marshalled(r))
  <1> DEFINE p == Marshalled(r)
  <1>1. p.embeddings # "nullRow" /\ p.op = r.op
    BY MarshalledFields
  <1>2. ASSUME p.op = "add", p.metas # None, NEW i \in p.ids, p.metas[i] # None
        PROVE  p.metas[i].items # <<"nil">>
    <2>1. r.op = "add" /\ r.metas # None /\ r.ids # {}
      BY <1>1, <1>2, MarshalledFields DEF Valid, Writes, WriteValid
    <2>2. i \in r.ids
      BY <1>2, <2>1, MarshalledFields DEF Omit
    <2>3. r.metas[i] \in Value /\ r.metas[i] # None /\ p.metas[i] = Encoded(r.metas[i])
      BY <1>2, <2>1, <2>2, MarshalledFields, Fields
    <2>4. CASE HasKey(r.metas[i])
      <3>1. r.metas[i] \in Values(r)
        BY <2>1, <2>2, <2>3 DEF Values
      <3>2. Kind(r.metas[i], FALSE) # "refused"
        <4>1. AllowsNil("add") = FALSE
          BY DEF AllowsNil
        <4>2. Kind(r.metas[i], AllowsNil(r.op)) # "refused"
          BY <2>1, <2>4, <3>1 DEF Valid, Writes, WriteValid, MetadataValid
        <4> QED
          BY <2>1, <4>1, <4>2, Zenon
      <3> QED
        BY <2>3, <2>4, <3>2, NothingIsNull
    <2>5. CASE ~HasKey(r.metas[i])
      <3>1. r.metas[i].items = <<>>
        BY <2>5 DEF HasKey
      <3>2. DOMAIN p.metas[i].items = {}
        BY <2>3, <3>1 DEF Encoded
      <3>3. DOMAIN <<"nil">> = {1}
        OBVIOUS
      <3> QED
        BY <3>2, <3>3
    <2> QED
      BY <2>4, <2>5
  <1>3. ASSUME p.op = "createCollection", p.label # None
        PROVE  p.label.items # <<"nil">>
    <2>1. r.op = "createCollection" /\ r.label \in Value /\ r.label # None
          /\ HasKey(r.label) /\ p.label = Encoded(r.label)
      BY <1>1, <1>3, MarshalledFields, Fields
    <2>2. HasKey(r.label) /\ Kind(r.label, FALSE) # "refused"
      <3>1. AllowsNil("createCollection") = FALSE
        BY DEF AllowsNil
      <3>2. HasKey(r.label) /\ Kind(r.label, AllowsNil(r.op)) # "refused"
        BY <2>1 DEF Valid, LabelValid
      <3> QED
        BY <2>1, <3>1, <3>2, Zenon
    <2> QED
      BY <2>1, <2>2, NothingIsNull
  <1> HIDE DEF p
  <1> QED
    BY <1>1, <1>2, <1>3 DEF Parses, p

\* The payload of an update still has a name or metadata in it.
LEMMA UpdatesSurvive ==
  ASSUME NEW r \in Requests, Valid(r), r.op = "updateCollection"
  PROVE  UpdateCollectionPayload(Marshalled(r))
  <1> DEFINE p == Marshalled(r)
  <1>1. UpdateCollectionValid(r) /\ LabelValid(r)
    BY DEF Valid
  <1>2. CASE r.name # ""
    <2>1. p.name # None
      BY <1>2, MarshalledFields, Fields DEF Omit
    <2> QED
      BY <2>1 DEF UpdateCollectionPayload
  <1>3. CASE r.name = ""
    <2>1. r.label \in Value /\ r.label # None /\ HasKey(r.label)
      BY <1>1, <1>3, Fields DEF UpdateCollectionValid
    <2>3. p.label = Encoded(r.label)
      BY <2>1, MarshalledFields
    <2>4. Kind(r.label, AllowsNil(r.op)) # "refused" /\ r.label.list \in BOOLEAN
      BY <1>1, <2>1 DEF LabelValid, Value
    <2>5. r.label.list => Kind(r.label, FALSE) = Kind(r.label, AllowsNil(r.op))
      BY KindOfList
    <2>6. Encoded(r.label) \in JsonValue
      BY <2>1, <2>4, <2>5, EncodedType
    <2> QED
      BY <2>3, <2>6, NoneAssumption DEF UpdateCollectionPayload
  <1> QED
    BY <1>2, <1>3

LEMMA NamesAgree ==
  ASSUME NEW r \in Requests, r.db \notin ShortNames, r.coll # BadId
  PROVE  TypedName(Marshalled(r)) /\ CollectionId(Marshalled(r))
  BY MarshalledFields, Fields, NamesAssumption DEF TypedName, CollectionId, ResolveDatabase, Omit

LEMMA DeletesAgree ==
  ASSUME NEW r \in Requests, Valid(r), r.op = "delete"
  PROVE  DeletePayload(Marshalled(r))
  BY MarshalledFields DEF Valid, DeleteValid, DeletePayload

\* Both validations: the code of the shim refuses nothing else.
LEMMA ValidIsAccepted ==
  ASSUME NEW r \in Requests, Valid(r),
         r.db \notin ShortNames, r.coll # BadId, r.embeddings # "nullRow",
         r.op \in Interpreted => r.unseen # "malformed"
  PROVE  Parses(Marshalled(r)) /\ IntoRequest(Marshalled(r))
  <1>1. Marshalled(r).op = r.op /\ Interprets(Marshalled(r))
    BY MarshalledFields DEF Interprets
  <1> QED
    BY <1>1, NoNulls, NamesAgree, DeletesAgree, UpdatesSurvive DEF IntoRequest

-----------------------------------------------------------------------------
(* The steps.                                                              *)

LEMMA InitIInv == Init => IInv
  BY DEF Init, IInv, StageInv, LayersAgree

LEMMA NextIInv == IInv /\ [Next]_vars => IInv'
  <1> SUFFICES ASSUME IInv, [Next]_vars PROVE IInv'
    OBVIOUS
  <1> USE DEF IInv, StageInv
  <1>1. ASSUME NEW r \in Requests, Call(r) PROVE IInv'
    BY <1>1 DEF Call, LayersAgree
  <1>2. CASE Refuse
    BY <1>2 DEF Refuse, End, LayersAgree
  <1>3. CASE Send
    BY <1>3 DEF Send, LayersAgree
  <1>4. CASE ShimRefuses
    <2>1. request \in Requests /\ Valid(request) /\ payload = Marshalled(request)
          /\ ~(Parses(payload) /\ IntoRequest(payload))
      BY <1>4 DEF ShimRefuses, Accepts
    <2>2. \/ request.db \in ShortNames \/ request.coll = BadId
          \/ request.embeddings = "nullRow"
          \/ request.op \in Interpreted /\ request.unseen = "malformed"
      BY <2>1, ValidIsAccepted
    <2> QED
      BY <1>4, <2>1, <2>2 DEF ShimRefuses, LayersAgree
  <1>5. CASE UpstreamRefuses \/ FrontendFails
    BY <1>5 DEF UpstreamRefuses, FrontendFails, LayersAgree
  <1>6. CASE Handlers
    <2>1. pc = "shim" /\ pc' = "reply" /\ request' = request
      BY <1>6 DEF Handlers, CreateTenant, GetTenant, UpdateTenant, CreateDatabase, GetDatabase,
         DeleteDatabase, ListDatabases, Reset, CreateCollection, GetCollection,
         DeleteCollection, ListCollections, CountCollections, UpdateCollection,
         ForkCollection, WriteRecords, DeleteRecords, GetRecords, Query, CountRecords,
         IndexingStatus, InDatabase, OnCollection, Run, Answers, Becomes, Replace
    <2> QED
      BY <2>1 DEF LayersAgree
  <1>7. CASE Report
    BY <1>7 DEF Report, End, LayersAgree
  <1>8. CASE Decode \/ CutOff
    BY <1>8 DEF Decode, CutOff, End, LayersAgree
  <1>9. CASE UNCHANGED vars
    BY <1>9 DEF vars, LayersAgree
  <1> QED
    BY <1>1, <1>2, <1>3, <1>4, <1>5, <1>6, <1>7, <1>8, <1>9 DEF Next

\* The shim works on what Go has accepted and encoded, and refuses of it only what
\* it alone checks.
THEOREM Inductive == Spec => []IInv
  BY InitIInv, NextIInv, PTL DEF Spec

\* Whatever the requests, names and values are, the code of the shim refuses of
\* what Go has accepted only what it alone checks, what Go hands on unseen
\* included: the two statements of the rules for limit and filter, for updates of
\* a collection and for null metadata have not drifted apart.  What the upstream
\* types refuse is not the subject (UpstreamRefuses).
THEOREM LayersNeverDisagree == Spec => []LayersAgree
  <1>1. IInv => LayersAgree
    BY DEF IInv
  <1> QED
    BY <1>1, Inductive, PTL

-----------------------------------------------------------------------------
(* The abstract specification works on the same store.                     *)

LEMMA SameCatalog ==
  /\ \A home : Service!Fresh(home) = Fresh(home)
  /\ \A c : Service!Live(c) = Live(c)
  /\ \A c, place : Service!At(c, place) = At(c, place)
  /\ \A c, place, name : Service!Called(c, place, name) = Called(c, place, name)
  /\ \A c, t : Service!DatabasesOf(c, t) = DatabasesOf(c, t)
  /\ \A c, t : Service!WithTenant(c, t) = WithTenant(c, t)
  /\ \A c, t : Service!WithResource(c, t) = WithResource(c, t)
  /\ \A c, place : Service!WithDatabase(c, place) = WithDatabase(c, place)
  /\ \A c, place : Service!WithoutDatabase(c, place) = WithoutDatabase(c, place)
  /\ \A c, k, place, name, label, records :
       Service!WithCollection(c, k, place, name, label, records)
         = WithCollection(c, k, place, name, label, records)
  /\ \A c, k : Service!WithoutCollection(c, k) = WithoutCollection(c, k)
  /\ \A c, k, name, label : Service!Relabelled(c, k, name, label) = Relabelled(c, k, name, label)
  /\ \A c : Service!Unminted(c) = Unminted(c)
  BY DEF Fresh, Live, At, Called, DatabasesOf, WithTenant, WithResource, WithDatabase,
     WithoutDatabase, WithCollection, WithoutCollection, Relabelled, Unminted,
     Service!Fresh, Service!Live, Service!At, Service!Called, Service!DatabasesOf,
     Service!WithTenant, Service!WithResource, Service!WithDatabase, Service!WithoutDatabase,
     Service!WithCollection, Service!WithoutCollection, Service!Relabelled, Service!Unminted

LEMMA SameCardinality == \A S : Service!Cardinality(S) = Cardinality(S)
  BY DEF Cardinality, Service!Cardinality

LEMMA SameRecords ==
  /\ Service!Empty = Empty /\ Service!Keep = Keep
  /\ \A x : Service!Set(x) = Set(x)
  /\ \A c : Service!Present(c) = Present(c)
  /\ \A op, c, rows : Service!Written(op, c, rows) = Written(op, c, rows)
  /\ \A c, ids, filter : Service!Matching(c, ids, filter) = Matching(c, ids, filter)
  /\ \A n, s : Service!AtMost(n, s) = AtMost(n, s)
  /\ \A s, limit, offset : Service!Page(s, limit, offset) = Page(s, limit, offset)
  /\ \A c, gone : Service!Without(c, gone) = Without(c, gone)
  <1>1. /\ Service!Empty = Empty /\ Service!Keep = Keep
        /\ \A x : Service!Set(x) = Set(x)
        /\ \A c : Service!Present(c) = Present(c)
        /\ \A c, gone : Service!Without(c, gone) = Without(c, gone)
    BY DEF Empty, Keep, Set, Present, Without, Service!Empty, Service!Keep, Service!Set,
       Service!Present, Service!Without
  <1>2. \A op, c, rows : Service!Written(op, c, rows) = Written(op, c, rows)
    <2>1. \A row : Service!New(row) = New(row)
      BY DEF New, Service!New
    <2>2. \A old, row : Service!Over(old, row) = Over(old, row)
      BY DEF Over, Service!Over
    <2> QED
      BY <2>1, <2>2 DEF Written, Service!Written
  <1>3. \A c, ids, filter : Service!Matching(c, ids, filter) = Matching(c, ids, filter)
    BY <1>1 DEF Matching, Service!Matching
  <1>4. \A n, s : Service!AtMost(n, s) = AtMost(n, s)
    BY SameCardinality DEF AtMost, Service!AtMost
  <1>5. \A s, limit, offset : Service!Page(s, limit, offset) = Page(s, limit, offset)
    BY <1>4 DEF Page, Service!Page
  <1> QED
    BY <1>1, <1>2, <1>3, <1>4, <1>5

-----------------------------------------------------------------------------
(* What is stored is what the value was: two encodings and a decoding      *)
(* later the kind of a list is that of its items, with integers among      *)
(* floats as floats.                                                       *)

LEMMA TokensParse == \A k \in Scalars \cup {"nil"} : Parsed(Token(k)) = k
  BY DEF Scalars, Parsed, Token

LEMMA ListStored ==
  ASSUME NEW v \in Value, v.list, v.items # <<>>, Kind(v, FALSE) # "refused"
  PROVE  Service!Kinds(v) = {Kind(v, FALSE)} /\ Kind(v, FALSE) \in Scalars
  <1>1. v.items \in Seq(Items)
    BY DEF Value
  <1> DEFINE S == KindsAt(v.items, DOMAIN v.items)
  <1>2. Kind(v, FALSE) = Common(S) /\ Common(S) # "refused"
    BY <1>1, KindOfList, ListKindIsCommon
  <1>3. S # {}
    <2>1. 1 \in DOMAIN v.items
      BY <1>1
    <2> QED
      BY <2>1 DEF KindsAt
  <1>4. (\E k \in Scalars : S = {k}) \/ S = {"int", "float"}
    BY <1>2, <1>3 DEF Common
  <1>5. S = {v.items[j] : j \in DOMAIN v.items}
    <2>1. S \subseteq Scalars
      BY <1>4 DEF Scalars
    <2>2. \A j \in DOMAIN v.items : Scalar(v.items[j], FALSE) \in Scalars
      BY <2>1 DEF KindsAt
    <2>3. \A j \in DOMAIN v.items : Scalar(v.items[j], FALSE) = v.items[j]
      BY <2>2 DEF Scalar, Scalars
    <2> QED
      BY <2>3 DEF KindsAt
  <1> HIDE DEF S
  <1>6. CASE \E k \in Scalars : S = {k}
    <2>1. PICK k \in Scalars : S = {k}
      BY <1>6
    <2>2. Common(S) = k
      BY <2>1 DEF Common
    <2>3. Service!Kinds(v) = S
      <3>1. S # {"int", "float"}
        <4>1. ~("int" \in S /\ "float" \in S)
          BY <2>1
        <4> QED
          BY <4>1
      <3>2. Service!Kinds(v) = CASE v.list /\ S = {} -> IF v.typed THEN {"empty"} ELSE {"unknown"}
                                 [] v.list /\ S = {"int", "float"} -> {"float"}
                                 [] OTHER -> S
        BY <1>5 DEF Service!Kinds
      <3> QED
        BY <1>3, <3>1, <3>2
    <2> QED
      BY <1>2, <1>3, <2>1, <2>2, <2>3
  <1>7. CASE S = {"int", "float"}
    <2>1. Common(S) = "float"
      BY <1>7 DEF Common
    <2>2. Service!Kinds(v) = {"float"}
      BY <1>5, <1>7 DEF Service!Kinds
    <2> QED
      BY <1>2, <1>3, <2>1, <2>2 DEF Scalars
  <1> QED
    BY <1>4, <1>6, <1>7

LEMMA EmptyStored ==
  ASSUME NEW v \in Value, v.list, v.items = <<>>, Kind(v, FALSE) # "refused"
  PROVE  Service!Kinds(v) = {"empty"} /\ Encoded(v).items = <<>>
  <1>1. v.typed
    BY KindOfList
  <1>2. DOMAIN v.items = {} /\ {v.items[j] : j \in DOMAIN v.items} = {}
    OBVIOUS
  <1>3. Service!Kinds(v) = {"empty"}
    BY <1>1, <1>2 DEF Service!Kinds
  <1>4. Encoded(v).items = <<>>
    BY <1>2 DEF Encoded
  <1> QED
    BY <1>3, <1>4

LEMMA SingleStored ==
  ASSUME NEW v \in Value, ~v.list, v.items # <<>>
  PROVE  /\ DOMAIN v.items = {1} /\ Service!Kinds(v) = {v.items[1]}
         /\ Encoded(v).items = <<Token(v.items[1])>>
  <1>1. v.items \in Seq(Items) /\ Len(v.items) <= 1
    BY DEF Value
  <1>2. Len(v.items) = 1 /\ DOMAIN v.items = 1..1
    <2> DEFINE s == v.items
    <2>0. s \in Seq(Items) /\ s # <<>>
      BY <1>1
    <2> HIDE DEF s
    <2>1. Len(s) \in Nat /\ Len(s) # 0 /\ DOMAIN s = 1..Len(s)
      BY <2>0
    <2>2. Len(s) <= 1
      BY <1>1 DEF s
    <2>3. Len(s) = 1
      BY <2>1, <2>2
    <2> QED
      BY <2>1, <2>3 DEF s
  <1>3. DOMAIN v.items = {1}
    BY <1>2
  <1>4. Service!Kinds(v) = {v.items[1]}
    BY <1>3 DEF Service!Kinds
  <1>5. Encoded(v).items = [j \in 1..1 |-> Token(v.items[1])]
    BY <1>3 DEF Encoded
  <1>6. [j \in 1..1 |-> Token(v.items[1])] = <<Token(v.items[1])>>
    OBVIOUS
  <1> QED
    BY <1>3, <1>4, <1>5, <1>6

\* A value that Go lets pass may be stored, and the cell becomes what it says.
LEMMA CellIsStored ==
  ASSUME NEW v \in Value, NEW op, HasKey(v) => Kind(v, AllowsNil(op)) # "refused"
  PROVE  Service!Storable(op, v) /\ StoredCell(Encoded(v)) = Service!Cell(v)
  <1> DEFINE e == Encoded(v)
  <1>1. e # None /\ e.list = v.list
    <2>1. v.list => Kind(v, FALSE) # "refused"
      BY KindOfList DEF HasKey
    <2>2. e \in JsonValue
      BY <2>1, EncodedType
    <2> QED
      BY <2>2, NoneAssumption DEF Encoded
  <1> DEFINE Means(k) ==
        /\ k \in Scalars \cup {"empty"} /\ Service!Kinds(v) = {k}
        /\ HasKey(e) /\ e.items # <<"nil">>
        /\ k = IF e.items = <<>> THEN "empty" ELSE Parsed(e.items[1])
  <1>2. ASSUME NEW k, Means(k)
        PROVE  Service!Storable(op, v) /\ StoredCell(e) = Service!Cell(v)
    <2>1. Service!Storable(op, v)
      BY <1>2 DEF Service!Storable, Service!Scalars, Scalars
    <2>2. StoredValue(e) = [list |-> v.list, of |-> k]
      BY <1>1, <1>2 DEF StoredValue
    <2>3. Service!Stored(v) = [list |-> v.list, of |-> k]
      BY <1>2 DEF Service!Stored
    <2>4. StoredCell(e) = Set([list |-> v.list, of |-> k])
      BY <1>1, <1>2, <2>2 DEF StoredCell
    <2>5. Service!Kinds(v) # {} /\ Service!Kinds(v) # {"nil"}
      BY <1>2 DEF Scalars
    <2>6. Service!Cell(v) = Set([list |-> v.list, of |-> k])
      BY <2>3, <2>5, SameRecords DEF Service!Cell
    <2> QED
      BY <2>1, <2>4, <2>6
  <1>3. CASE ~HasKey(v)
    <2>1. ~v.list /\ v.items = <<>>
      BY <1>3 DEF HasKey
    <2>2. Service!Kinds(v) = {}
      BY <2>1 DEF Service!Kinds
    <2>3. Service!Storable(op, v) /\ Service!Cell(v) = Keep
      BY <2>1, <2>2, SameRecords DEF Service!Storable, Service!Cell
    <2>4. e.items = <<>> /\ ~HasKey(e)
      BY <1>1, <2>1 DEF Encoded, HasKey
    <2> QED
      BY <1>1, <2>3, <2>4 DEF StoredCell
  <1>4. CASE HasKey(v) /\ v.list
    <2>1. Kind(v, FALSE) # "refused" /\ HasKey(e)
      BY <1>1, <1>4, KindOfList DEF HasKey
    <2>2. CASE v.items = <<>>
      <3>1. Service!Kinds(v) = {"empty"} /\ e.items = <<>>
        BY <1>4, <2>1, <2>2, EmptyStored
      <3>2. <<>> # <<"nil">>
        OBVIOUS
      <3> QED
        BY <1>2, <2>1, <3>1, <3>2
    <2>3. CASE v.items # <<>>
      <3> DEFINE k == Kind(v, FALSE)
      <3>1. k \in Scalars /\ Service!Kinds(v) = {k}
        BY <1>4, <2>1, <2>3, ListStored
      <3>2. v.items \in Seq(Items)
        BY DEF Value
      <3> HIDE DEF k
      <3>3. 1 \in DOMAIN v.items
        BY <2>3, <3>2
      <3>4. e.items = [j \in DOMAIN v.items |-> Token(k)]
        BY <1>4 DEF Encoded, k
      <3>5. Token(k) # "nil" /\ Parsed(Token(k)) = k
        BY <3>1, TokensParse DEF Token, Scalars
      <3>6. e.items[1] = Token(k) /\ DOMAIN e.items # {}
        BY <3>3, <3>4
      <3>7. e.items # <<>> /\ e.items # <<"nil">>
        BY <3>5, <3>6
      <3> QED
        BY <1>2, <2>1, <3>1, <3>5, <3>6, <3>7
    <2> QED
      BY <2>2, <2>3
  <1>5. CASE HasKey(v) /\ ~v.list
    <2> DEFINE x == v.items[1]
    <2>1. Service!Kinds(v) = {x} /\ e.items = <<Token(x)>>
      BY <1>5, SingleStored DEF HasKey
    <2>2. x \in Scalars \/ (x = "nil" /\ AllowsNil(op))
      <3>1. Scalar(x, AllowsNil(op)) # "refused"
        BY <1>5 DEF Kind
      <3> QED
        BY <3>1, Zenon DEF Scalar, Scalars
    <2> HIDE DEF x
    <2>3. CASE x \in Scalars
      <3>1. Token(x) # "nil" /\ Parsed(Token(x)) = x
        BY <2>3, TokensParse DEF Token, Scalars
      <3>2. e.items # <<>> /\ e.items # <<"nil">> /\ e.items[1] = Token(x)
        BY <2>1, <3>1
      <3> QED
        BY <1>2, <2>1, <2>3, <3>1, <3>2 DEF HasKey
    <2>4. CASE x = "nil" /\ AllowsNil(op)
      <3>1. op \in {"update", "upsert"}
        BY <2>4 DEF AllowsNil
      <3>2. Service!Storable(op, v) /\ Service!Cell(v) = Set(None)
        BY <1>5, <2>1, <2>4, <3>1, SameRecords DEF Service!Storable, Service!Cell
      <3>3. e.items = <<"nil">> /\ e.items # <<>>
        BY <2>1, <2>4 DEF Token
      <3>4. StoredCell(e) = Set(None)
        BY <1>1, <3>3 DEF StoredCell, HasKey
      <3> QED
        BY <3>2, <3>4
    <2> QED
      BY <2>2, <2>3, <2>4
  <1> QED
    BY <1>3, <1>4, <1>5

LEMMA LabelIsStored ==
  ASSUME NEW r \in Requests, LabelValid(r), ~AllowsNil(r.op)
  PROVE  StoredLabel(Marshalled(r)) = Service!Label(r)
  <1> DEFINE v == r.label
             e == Encoded(v)
             p == Marshalled(r)
  <1>1. /\ v \in Value \cup {None}
        /\ p.label = IF v = None THEN None ELSE IF HasKey(v) THEN e ELSE None
    BY MarshalledFields, Fields
  <1>2. v # None => (HasKey(v) => Kind(v, FALSE) # "refused")
    <2>1. AllowsNil(r.op) = FALSE
      BY DEF AllowsNil
    <2> QED
      BY <2>1, Zenon DEF LabelValid
  <1> HIDE DEF p
  <1>3. CASE v = None
    BY <1>1, <1>3 DEF StoredLabel, Service!Label, p
  <1>4. CASE v # None /\ ~HasKey(v)
    <2>1. Service!Kinds(v) = {}
      BY <1>4 DEF Service!Kinds, HasKey
    <2> QED
      BY <1>1, <1>4, <2>1 DEF StoredLabel, Service!Label, p
  <1>5. CASE v # None /\ HasKey(v)
    <2>1. v \in Value /\ Kind(v, FALSE) # "refused"
      BY <1>1, <1>2, <1>5
    <2>2. e # None /\ e.list = v.list
      <3>1. e \in JsonValue
        BY <2>1, EncodedType
      <3> QED
        BY <3>1, NoneAssumption DEF Encoded
    <2>3. \E k : /\ Service!Kinds(v) = {k}
                 /\ k = IF e.items = <<>> THEN "empty" ELSE Parsed(e.items[1])
      <3>1. CASE v.list /\ v.items = <<>>
        BY <2>1, <3>1, EmptyStored
      <3>2. CASE v.list /\ v.items # <<>>
        <4>1. Service!Kinds(v) = {Kind(v, FALSE)} /\ Kind(v, FALSE) \in Scalars
          BY <2>1, <3>2, ListStored
        <4>2. v.items \in Seq(Items)
          BY <2>1 DEF Value
        <4>3. 1 \in DOMAIN v.items
          BY <3>2, <4>2
        <4>4. e.items[1] = Token(Kind(v, FALSE)) /\ 1 \in DOMAIN e.items
          BY <3>2, <4>3 DEF Encoded
        <4>5. e.items # <<>>
          BY <4>4
        <4> QED
          BY <4>1, <4>4, <4>5, TokensParse
      <3>3. CASE ~v.list
        <4>1. Service!Kinds(v) = {v.items[1]} /\ e.items = <<Token(v.items[1])>>
          BY <1>5, <2>1, <3>3, SingleStored DEF HasKey
        <4>2. v.items[1] \in Scalars
          BY <2>1, <3>3 DEF Kind, Scalar, Scalars
        <4>3. e.items # <<>> /\ e.items[1] = Token(v.items[1])
          BY <4>1
        <4> QED
          BY <4>1, <4>2, <4>3, TokensParse
      <3> QED
        BY <3>1, <3>2, <3>3
    <2>4. PICK k : /\ Service!Kinds(v) = {k}
                   /\ k = IF e.items = <<>> THEN "empty" ELSE Parsed(e.items[1])
      BY <2>3
    <2>5. StoredValue(e) = [list |-> v.list, of |-> k]
      BY <2>2, <2>4 DEF StoredValue
    <2>6. Service!Stored(v) = [list |-> v.list, of |-> k]
      BY <2>4 DEF Service!Stored
    <2>7. StoredLabel(p) = StoredValue(e)
      BY <1>1, <1>5, <2>2 DEF StoredLabel, p
    <2>8. Service!Label(r) = Service!Stored(v)
      BY <1>5, <2>4 DEF Service!Label
    <2> QED
      BY <2>5, <2>6, <2>7, <2>8 DEF p
  <1> QED
    BY <1>3, <1>4, <1>5

LEMMA RowsAreStored ==
  ASSUME NEW r \in Requests, Valid(r), r.op \in Writes
  PROVE  /\ Rows(Marshalled(r)) = Service!Rows(r)
         /\ r.ids # {} /\ \A v \in Service!Values(r) : Service!Storable(r.op, v)
  <1> DEFINE p == Marshalled(r)
  <1>1. WriteValid(r)
    BY DEF Valid
  <1>2. p.ids = r.ids /\ p.docs = r.docs /\ r.ids # {}
    BY <1>1, MarshalledFields DEF WriteValid, Omit
  <1>3. p.metas = IF r.metas = None THEN None
                  ELSE [i \in r.ids |-> IF r.metas[i] = None THEN None ELSE Encoded(r.metas[i])]
    BY MarshalledFields
  <1>4. ASSUME r.metas # None, NEW i \in r.ids, r.metas[i] # None
        PROVE  /\ Service!Storable(r.op, r.metas[i]) /\ Encoded(r.metas[i]) \in JsonValue
               /\ StoredCell(Encoded(r.metas[i])) = Service!Cell(r.metas[i])
    <2>1. r.metas[i] \in Value
      BY <1>4, Fields
    <2>2. r.metas[i] \in Values(r)
      BY <1>4 DEF Values
    <2>3. HasKey(r.metas[i]) => Kind(r.metas[i], AllowsNil(r.op)) # "refused"
      BY <1>1, <2>2 DEF WriteValid, MetadataValid
    <2>4. r.metas[i].list => Kind(r.metas[i], FALSE) # "refused"
      BY <2>3, KindOfList DEF HasKey
    <2> QED
      BY <2>1, <2>3, <2>4, CellIsStored, EncodedType
  <1>5. \A v \in Service!Values(r) : Service!Storable(r.op, v)
    BY <1>4 DEF Service!Values
  <1> HIDE DEF p
  <1>6. ASSUME NEW i \in r.ids
        PROVE  (IF p.metas = None THEN Keep ELSE StoredCell(p.metas[i]))
                 = IF r.metas = None \/ r.metas[i] = None THEN Service!Keep
                                                         ELSE Service!Cell(r.metas[i])
    <2>1. CASE r.metas = None
      BY <1>3, <2>1, SameRecords
    <2>2. CASE r.metas # None
      <3>1. p.metas # None
        <4>1. \A j \in r.ids : r.metas[j] # None => Encoded(r.metas[j]) \in JsonValue
          BY <1>4, <2>2
        <4>2. p.metas \in [r.ids -> JsonValue \cup {None}]
          BY <1>3, <2>2, <4>1
        <4>3. r.ids \in SUBSET Ids
          BY RequestsAssumption DEF IsRequest
        <4> QED
          BY <4>2, <4>3, NoneAssumption
      <3>2. CASE r.metas[i] = None
        BY <1>3, <2>2, <3>1, <3>2, SameRecords DEF StoredCell
      <3>3. CASE r.metas[i] # None
        BY <1>3, <1>4, <2>2, <3>1, <3>3
      <3> QED
        BY <3>2, <3>3
    <2> QED
      BY <2>1, <2>2
  <1>7. Rows(p) = Service!Rows(r)
    BY <1>2, <1>6 DEF Rows, Service!Rows
  <1> QED
    BY <1>2, <1>5, <1>7 DEF p

-----------------------------------------------------------------------------
(* The refinement: a handler of the shim carries out the request that the  *)
(* program made.                                                           *)

\* What the shim sees, in terms of what the program asked for.
LEMMA PayloadMeans ==
  ASSUME StageInv, pc = "shim"
  PROVE  /\ request \in Requests /\ Valid(request)
         /\ payload.op = request.op /\ payload.coll = request.coll
         /\ payload.filter = request.filter /\ payload.getOrCreate = request.getOrCreate
         /\ payload.name = Service!Given(request.name, "")
         /\ payload.ids = Service!Given(request.ids, {})
         /\ ResolveTenant(payload) = Service!Tenant(request)
         /\ Place(payload) = Service!Place(request)
  <1>1. request \in Requests /\ Valid(request) /\ payload = Marshalled(request)
    BY DEF StageInv
  <1>2. /\ payload.op = request.op /\ payload.coll = request.coll
        /\ payload.filter = request.filter /\ payload.getOrCreate = request.getOrCreate
        /\ payload.name = Omit(request.name, "") /\ payload.ids = Omit(request.ids, {})
        /\ payload.tenant = Omit(request.tenant, "") /\ payload.db = Omit(request.db, "")
    BY <1>1, MarshalledFields
  <1>3. payload.name = Service!Given(request.name, "")
        /\ payload.ids = Service!Given(request.ids, {})
    BY <1>2 DEF Omit, Service!Given
  <1>4. request.tenant # None /\ request.db # None
    BY <1>1, RequestsAssumption, NoneAssumption DEF IsRequest
  <1>5. ResolveTenant(payload) = Service!Tenant(request)
    BY <1>2, <1>4 DEF ResolveTenant, Omit, Service!Tenant
  <1>6. Place(payload) = Service!Place(request)
    BY <1>2, <1>4, <1>5 DEF Place, ResolveDatabase, Omit, Service!Place
  <1> QED
    BY <1>1, <1>2, <1>3, <1>5, <1>6

LEMMA NamesMean ==
  ASSUME StageInv, pc = "shim"
  PROVE  /\ request.op \in OnTenant => payload.tenant = request.tenant
         /\ request.op \in OnDatabase =>
              payload.db = request.db /\ Place(payload) = <<Service!Tenant(request), request.db>>
         /\ request.op \in OnName => payload.name = request.name
  <1>1. request \in Requests /\ Valid(request) /\ payload = Marshalled(request)
    BY DEF StageInv
  <1>2. /\ payload.name = Omit(request.name, "")
        /\ payload.tenant = Omit(request.tenant, "") /\ payload.db = Omit(request.db, "")
    BY <1>1, MarshalledFields
  <1>3. request.op \in OnDatabase =>
          Service!Place(request) = <<Service!Tenant(request), request.db>>
    BY <1>1 DEF Valid, Service!Place
  <1> QED
    BY <1>1, <1>2, <1>3, PayloadMeans DEF Valid, Omit

\* Limits and offsets.
LEMMA PagesMean ==
  ASSUME StageInv, pc = "shim"
  PROVE  /\ Offset = request.offset
         /\ request.op \notin {"delete", "query"} => payload.limit = Service!Limit(request)
         /\ request.op = "delete" => payload.limit = request.limit
         /\ request.op = "query" =>
              /\ (IF payload.limit = None THEN DefaultResults ELSE payload.limit)
                    = Service!Limit(request)
              /\ request.offset = 0
  <1>1. request \in Requests /\ payload = Marshalled(request)
    BY DEF StageInv
  <1>2. /\ payload.offset = Omit(request.offset, 0)
        /\ payload.limit = IF request.op = "delete" THEN request.limit ELSE Omit(request.limit, 0)
    BY <1>1, MarshalledFields
  <1>3. /\ request.offset # None /\ (request.limit = None => request.op = "delete")
        /\ request.op = "query" => request.offset = 0
    BY <1>1, RequestsAssumption, NoneAssumption DEF IsRequest
  <1>4. Offset = request.offset
    BY <1>2, <1>3 DEF Offset, Omit
  <1> QED
    BY <1>2, <1>3, <1>4 DEF Omit, Service!Limit

\* The step leaves an effect that the request may have.
CarriedOut == \E e \in Service!Effects(request) : cat' = e.cat /\ <<reply'>> = e.done

LEMMA EffectsCarry ==
  ASSUME NEW S, S \subseteq Service!Effects(request), Service!Effect(cat', reply') \in S
  PROVE  CarriedOut
  BY DEF CarriedOut, Service!Effect

LEMMA EffectsAreOf ==
  ASSUME StageInv, pc = "shim", Accepts
  PROVE
  /\ Service!OnTenants(request) \subseteq Service!Effects(request)
  /\ Service!OnDatabases(request) \subseteq Service!Effects(request)
  /\ Service!ByName(request) \subseteq Service!Effects(request)
  /\ request.coll \in Live(cat) =>
       Service!ByCollectionId(request) \subseteq Service!Effects(request)
  /\ request.op = "reset" =>
       {Service!Effect([Fresh(<<DefaultTenant, DefaultDatabase>>) EXCEPT
                          !.minted = cat.minted], {})}
         \subseteq Service!Effects(request)
  <1>1. request.unseen = "fine"
    <2>1. request \in Requests /\ payload = Marshalled(request) /\ Encodable(request)
      BY DEF StageInv
    <2>2. payload.op = request.op /\ payload.unseen = request.unseen
      BY <2>1, MarshalledFields
    <2>3. request.op \in Interpreted => request.unseen # "malformed"
      BY <2>2 DEF Accepts, IntoRequest, Interprets
    <2>4. /\ request.unseen \in {"fine", "malformed", "unencodable"}
          /\ request.unseen = "malformed" => request.op \in Interpreted
      BY <2>1, RequestsAssumption DEF IsRequest
    <2> QED
      BY <2>1, <2>3, <2>4 DEF Encodable
  <1> QED
    BY <1>1, SameCatalog DEF Service!Effects

LEMMA TenantsCarried ==
  ASSUME StageInv, CreateTenant \/ GetTenant \/ UpdateTenant
  PROVE  CarriedOut
  <1>1. pc = "shim" /\ Accepts
    BY DEF CreateTenant, GetTenant, UpdateTenant, Run
  <1>2. /\ payload.op = request.op
        /\ request.op \in OnTenant => payload.tenant = request.tenant
    BY <1>1, PayloadMeans, NamesMean
  <1>3. Service!Effect(cat', reply') \in Service!OnTenants(request)
    <2>1. CASE CreateTenant
      <3>1. /\ request.op = "createTenant" /\ request.tenant \notin cat.tenants
            /\ cat' = WithTenant(cat, request.tenant) /\ reply' = {}
        BY <1>2, <2>1 DEF CreateTenant, Run, Becomes, OnTenant
      <3> QED
        BY <3>1, SameCatalog DEF Service!OnTenants
    <2>2. CASE GetTenant
      <3>1. /\ request.op = "getTenant" /\ request.tenant \in cat.tenants
            /\ cat' = cat /\ reply' = {request.tenant} \cap cat.named
        BY <1>2, <2>2 DEF GetTenant, Run, Becomes, Answers, OnTenant
      <3> QED
        BY <3>1, SameCatalog DEF Service!OnTenants, Service!Look
    <2>3. CASE UpdateTenant
      <3>1. /\ request.op = "updateTenant" /\ request.tenant \in cat.tenants
            /\ cat' = WithResource(cat, request.tenant) /\ reply' = {}
        BY <1>2, <2>3 DEF UpdateTenant, Run, Becomes, OnTenant
      <3> QED
        BY <3>1, SameCatalog DEF Service!OnTenants
    <2> QED
      BY <2>1, <2>2, <2>3
  <1> QED
    BY <1>1, <1>3, EffectsAreOf, EffectsCarry

LEMMA DatabasesCarried ==
  ASSUME StageInv, CreateDatabase \/ GetDatabase \/ DeleteDatabase \/ ListDatabases
  PROVE  CarriedOut
  <1>1. pc = "shim" /\ Accepts
    BY DEF CreateDatabase, GetDatabase, DeleteDatabase, ListDatabases, Run
  <1> DEFINE place == <<Service!Tenant(request), request.db>>
  <1>2. /\ payload.op = request.op /\ ResolveTenant(payload) = Service!Tenant(request)
        /\ request.op \in OnDatabase => payload.db = request.db /\ Place(payload) = place
    BY <1>1, PayloadMeans, NamesMean
  <1>3. Offset = request.offset
        /\ (request.op = "listDatabases" => payload.limit = Service!Limit(request))
    BY <1>1, PagesMean
  <1>4. Service!Effect(cat', reply') \in Service!OnDatabases(request)
    <2>1. CASE CreateDatabase
      <3>1. request.op = "createDatabase"
        BY <1>2, <2>1 DEF CreateDatabase, Run
      <3>2. /\ Service!Tenant(request) \in cat.tenants /\ place \notin cat.databases
            /\ cat' = WithDatabase(cat, place) /\ reply' = {}
        BY <1>2, <2>1, <3>1 DEF CreateDatabase, Becomes, OnDatabase
      <3> QED
        BY <3>1, <3>2, SameCatalog DEF Service!OnDatabases
    <2>2. CASE GetDatabase
      <3>1. request.op = "getDatabase"
        BY <1>2, <2>2 DEF GetDatabase, Run
      <3>2. place \in cat.databases /\ cat' = cat /\ reply' = {request.db}
        BY <1>2, <2>2, <3>1 DEF GetDatabase, Becomes, Answers, OnDatabase
      <3> QED
        BY <3>1, <3>2, SameCatalog DEF Service!OnDatabases, Service!Look
    <2>3. CASE DeleteDatabase
      <3>1. request.op = "deleteDatabase"
        BY <1>2, <2>3 DEF DeleteDatabase, Run
      <3>2. place \in cat.databases /\ cat' = WithoutDatabase(cat, place) /\ reply' = {}
        BY <1>2, <2>3, <3>1 DEF DeleteDatabase, Becomes, OnDatabase
      <3> QED
        BY <3>1, <3>2, SameCatalog DEF Service!OnDatabases
    <2>4. CASE ListDatabases
      <3>1. request.op = "listDatabases"
        BY <1>2, <2>4 DEF ListDatabases, Run
      <3>2. /\ cat' = cat
            /\ reply' \in Page(DatabasesOf(cat, Service!Tenant(request)),
                              Service!Limit(request), request.offset)
        BY <1>2, <1>3, <2>4, <3>1 DEF ListDatabases, Becomes, Answers
      <3> QED
        BY <3>1, <3>2, SameCatalog, SameRecords DEF Service!OnDatabases, Service!Look
    <2> QED
      BY <2>1, <2>2, <2>3, <2>4
  <1> QED
    BY <1>1, <1>4, EffectsAreOf, EffectsCarry

LEMMA ResetCarried ==
  ASSUME StageInv, Reset
  PROVE  CarriedOut
  <1>1. pc = "shim" /\ Accepts /\ request.op = "reset"
    BY PayloadMeans DEF Reset, Run
  <1>2. Service!Effect(cat', reply') \in
          {Service!Effect([Fresh(<<DefaultTenant, DefaultDatabase>>) EXCEPT
                             !.minted = cat.minted], {})}
    BY DEF Reset, Becomes
  <1> QED
    BY <1>1, <1>2, EffectsAreOf, EffectsCarry

LEMMA NamedCarried ==
  ASSUME StageInv,
         CreateCollection \/ GetCollection \/ DeleteCollection \/ ListCollections
         \/ CountCollections
  PROVE  CarriedOut
  <1>1. pc = "shim" /\ Accepts
    BY DEF CreateCollection, GetCollection, DeleteCollection, ListCollections,
       CountCollections, InDatabase, Run
  <1> DEFINE place == Service!Place(request)
             called == Called(cat, place, request.name)
  <1>2. /\ payload.op = request.op /\ payload.getOrCreate = request.getOrCreate
        /\ Place(payload) = place
    BY <1>1, PayloadMeans
  <1>3. request.op \in OnName => payload.name = request.name /\ Named = called
    BY <1>1, <1>2, NamesMean DEF Named
  <1>4. Offset = request.offset
        /\ (request.op = "listCollections" => payload.limit = Service!Limit(request))
    BY <1>1, PagesMean
  <1>5. Service!Called(cat, place, request.name) = called
    BY SameCatalog
  <1> HIDE DEF called, place
  <1>6. Service!Effect(cat', reply') \in Service!ByName(request)
    <2>1. CASE CreateCollection
      <3>1. request.op = "createCollection" /\ place \in cat.databases
        BY <1>2, <2>1 DEF CreateCollection, InDatabase, Run
      <3>2. StoredLabel(payload) = Service!Label(request)
        <4>1. request \in Requests /\ payload = Marshalled(request) /\ LabelValid(request)
          BY <1>1 DEF StageInv, Valid
        <4>2. ~AllowsNil(request.op)
          BY <3>1 DEF AllowsNil
        <4> QED
          BY <4>1, <4>2, LabelIsStored
      <3>3. CASE called = {}
        <4>1. PICK k \in Unminted(cat) :
                /\ cat' = WithCollection(cat, k, place, request.name, Service!Label(request), Empty)
                /\ reply' = {k}
          BY <1>2, <1>3, <2>1, <3>1, <3>2, <3>3
             DEF CreateCollection, Becomes, Answers, OnName
        <4> QED
          BY <1>5, <3>1, <3>3, <4>1, SameCatalog, SameRecords DEF Service!ByName, place
      <3>4. CASE called # {}
        <4>1. request.getOrCreate /\ cat' = cat /\ reply' = called
          BY <1>2, <1>3, <2>1, <3>1, <3>4 DEF CreateCollection, Becomes, Answers, OnName
        <4> QED
          BY <1>5, <3>1, <3>4, <4>1 DEF Service!ByName, Service!Look, place
      <3> QED
        BY <3>3, <3>4
    <2>2. CASE GetCollection
      <3>1. request.op = "getCollection" /\ place \in cat.databases
        BY <1>2, <2>2 DEF GetCollection, InDatabase, Run
      <3>2. PICK k \in called : cat' = cat /\ reply' = {<<k, cat.collections[k].label>>}
        BY <1>3, <2>2, <3>1 DEF GetCollection, Becomes, Answers, OnName
      <3> QED
        BY <1>5, <3>1, <3>2 DEF Service!ByName, Service!Look, place
    <2>3. CASE DeleteCollection
      <3>1. request.op = "deleteCollection" /\ place \in cat.databases
        BY <1>2, <2>3 DEF DeleteCollection, InDatabase, Run
      <3>2. PICK k \in called : cat' = WithoutCollection(cat, k) /\ reply' = {}
        BY <1>3, <2>3, <3>1 DEF DeleteCollection, Becomes, OnName
      <3> QED
        BY <1>5, <3>1, <3>2, SameCatalog DEF Service!ByName, place
    <2>4. CASE ListCollections
      <3>1. request.op = "listCollections" /\ place \in cat.databases
        BY <1>2, <2>4 DEF ListCollections, InDatabase, Run
      <3>2. /\ cat' = cat
            /\ reply' \in Page(At(cat, place), Service!Limit(request), request.offset)
        BY <1>2, <1>4, <2>4, <3>1 DEF ListCollections, Becomes, Answers
      <3> QED
        BY <3>1, <3>2, SameCatalog, SameRecords DEF Service!ByName, Service!Look, place
    <2>5. CASE CountCollections
      <3>1. request.op = "countCollections" /\ place \in cat.databases
        BY <1>2, <2>5 DEF CountCollections, InDatabase, Run
      <3>2. cat' = cat /\ reply' = {Cardinality(At(cat, place))}
        BY <1>2, <2>5 DEF CountCollections, Becomes, Answers
      <3> QED
        BY <3>1, <3>2, SameCatalog, SameCardinality DEF Service!ByName, Service!Look, place
    <2> QED
      BY <2>1, <2>2, <2>3, <2>4, <2>5
  <1> QED
    BY <1>1, <1>6, EffectsAreOf, EffectsCarry

LEMMA CollectionsCarried ==
  ASSUME StageInv, UpdateCollection \/ ForkCollection
  PROVE  CarriedOut
  <1>1. pc = "shim" /\ Accepts
    BY DEF UpdateCollection, ForkCollection, OnCollection, Run
  <1> DEFINE k == request.coll
             c == cat.collections[k]
             place == Service!Place(request)
  <1>2. /\ payload.op = request.op /\ payload.coll = k
        /\ payload.name = Service!Given(request.name, "") /\ Place(payload) = place
        /\ Collection = c
    BY <1>1, PayloadMeans DEF Collection
  <1>3. request \in Requests /\ payload = Marshalled(request) /\ LabelValid(request)
    BY <1>1 DEF StageInv, Valid
  <1>4. k \in Live(cat)
    BY <1>2 DEF UpdateCollection, ForkCollection, OnCollection
  <1>5. Service!Effect(cat', reply') \in Service!ByCollectionId(request)
    <2>1. CASE UpdateCollection
      <3>1. request.op = "updateCollection"
        BY <1>2, <2>1 DEF UpdateCollection, OnCollection, Run
      <3>2. StoredLabel(payload) = Service!Label(request)
        <4>1. ~AllowsNil(request.op)
          BY <3>1 DEF AllowsNil
        <4> QED
          BY <1>3, <4>1, LabelIsStored
      <3>3. ~(request.name # "" /\ Called(cat, c.place, request.name) \ {k} # {})
        <4>1. Called(cat, c.place, payload.name) \subseteq {k}
          BY <1>2, <2>1 DEF UpdateCollection
        <4> QED
          BY <1>2, <4>1 DEF Service!Given
      <3>4. cat' = Relabelled(cat, k, Service!Given(request.name, ""), Service!Label(request))
            /\ reply' = {}
        BY <1>2, <2>1, <3>2 DEF UpdateCollection, Becomes
      <3> QED
        BY <3>1, <3>3, <3>4, SameCatalog DEF Service!ByCollectionId
    <2>2. CASE ForkCollection
      <3>1. request.op = "forkCollection" /\ place \in cat.databases
        BY <1>2, <2>2 DEF ForkCollection, OnCollection, Run
      <3>2. payload.name = request.name
        BY <1>1, <3>1, NamesMean DEF OnName
      <3>3. Called(cat, place, request.name) = {}
        BY <1>2, <2>2, <3>2 DEF ForkCollection, Named
      <3>4. PICK l \in Unminted(cat) :
              /\ cat' = WithCollection(cat, l, place, request.name, c.label, c.records)
              /\ reply' = {l}
        BY <1>2, <2>2, <3>2 DEF ForkCollection, Becomes
      <3> QED
        BY <3>1, <3>3, <3>4, SameCatalog DEF Service!ByCollectionId
    <2> QED
      BY <2>1, <2>2
  <1> QED
    BY <1>1, <1>4, <1>5, EffectsAreOf, EffectsCarry

\* A page that skips nothing is what a limit leaves.
LEMMA FirstPage ==
  ASSUME NEW S, IsFiniteSet(S), NEW limit
  PROVE  Page(S, limit, 0) = AtMost(limit, S)
  <1>1. AtMost(0, S) = {{}}
    <2>1. \A t \in SUBSET S : Cardinality(t) = 0 <=> t = {}
      BY FS_Subset, FS_EmptySet
    <2>2. Cardinality(S) \in Nat
      BY FS_CardinalityType
    <2>3. (IF 0 = None \/ 0 > Cardinality(S) THEN Cardinality(S) ELSE 0) = 0
      BY <2>2, NoneAssumption
    <2> QED
      BY <2>1, <2>3 DEF AtMost
  <1> DEFINE rests == {S \ skipped : skipped \in AtMost(0, S)}
  <1>2. rests = {S}
    BY <1>1
  <1>3. Page(S, limit, 0) = UNION {AtMost(limit, rest) : rest \in rests}
    BY DEF Page
  <1> HIDE DEF rests
  <1>4. {AtMost(limit, rest) : rest \in rests} = {AtMost(limit, S)}
    BY <1>2
  <1> QED
    BY <1>3, <1>4

LEMMA RecordsCarried ==
  ASSUME StageInv,
         WriteRecords \/ DeleteRecords \/ GetRecords \/ Query \/ CountRecords \/ IndexingStatus
  PROVE  CarriedOut
  <1>1. pc = "shim" /\ Accepts
    BY DEF WriteRecords, DeleteRecords, GetRecords, Query, CountRecords, IndexingStatus,
       OnCollection, Run
  <1> DEFINE k == request.coll
             c == cat.collections[k]
             chosen == Matching(c.records, Service!Given(request.ids, {}), request.filter)
             Into(records) == [cat EXCEPT !.collections[k].records = records]
  <1>2. /\ payload.op = request.op /\ payload.coll = k /\ payload.filter = request.filter
        /\ payload.ids = Service!Given(request.ids, {})
        /\ request \in Requests /\ payload = Marshalled(request) /\ Valid(request)
    BY <1>1, PayloadMeans DEF StageInv
  <1>3. Collection = c /\ Selected = chosen
    BY <1>2 DEF Collection, Selected
  <1>4. k \in Live(cat)
    BY <1>2 DEF WriteRecords, DeleteRecords, GetRecords, Query, CountRecords, IndexingStatus,
       OnCollection
  <1>5. Service!Chosen(request, c) = chosen
    BY SameRecords DEF Service!Chosen
  <1>6. ASSUME NEW records, NEW result, Replace(records, result)
        PROVE  cat' = Into(records) /\ reply' = result
    BY <1>2, <1>6 DEF Replace, Becomes
  <1>7. IsFiniteSet(chosen)
    <2>1. chosen \subseteq Ids
      BY DEF Matching, Present
    <2> QED
      BY <2>1, RequestsAssumption, FS_Subset
  <1> HIDE DEF chosen
  <1>8. Service!Effect(cat', reply') \in Service!ByCollectionId(request)
    <2>1. CASE WriteRecords
      <3>1. request.op \in Writes
        BY <1>2, <2>1 DEF WriteRecords, OnCollection, Run
      <3>2. /\ Rows(payload) = Service!Rows(request) /\ request.ids # {}
            /\ \A v \in Service!Values(request) : Service!Storable(request.op, v)
        BY <1>2, <3>1, RowsAreStored
      <3>3. Replace(Written(request.op, c.records, Service!Rows(request)), {})
        BY <1>2, <1>3, <2>1, <3>2 DEF WriteRecords
      <3>4. /\ cat' = Into(Service!Written(request.op, c.records, Service!Rows(request)))
            /\ reply' = {}
        BY <1>6, <3>3, SameRecords
      <3> QED
        BY <3>1, <3>2, <3>4 DEF Service!ByCollectionId, Writes
    <2>2. CASE DeleteRecords
      <3>1. request.op = "delete"
        BY <1>2, <2>2 DEF DeleteRecords, OnCollection, Run
      <3>2. request.ids # {} \/ request.filter # None
        BY <1>2, <3>1 DEF Valid, DeleteValid
      <3>3. payload.limit = request.limit
        BY <1>1, <3>1, PagesMean
      <3>4. PICK gone \in AtMost(request.limit, chosen) : Replace(Without(c.records, gone), gone)
        BY <1>3, <2>2, <3>3 DEF DeleteRecords
      <3>5. cat' = Into(Service!Without(c.records, gone)) /\ reply' = gone
        BY <1>6, <3>4, SameRecords
      <3>6. gone \in Service!AtMost(request.limit, Service!Chosen(request, c))
        BY <1>5, <3>4, SameRecords
      <3> QED
        BY <3>1, <3>2, <3>5, <3>6 DEF Service!ByCollectionId
    <2>3. CASE GetRecords \/ Query
      <3>1. request.op \in {"get", "query"} /\ cat' = cat
        BY <1>2, <2>3 DEF GetRecords, Query, OnCollection, Run, Answers, Becomes
      <3>2. reply' \in Page(chosen, Service!Limit(request), request.offset)
        <4>1. CASE GetRecords
          <5>1. request.op = "get"
            BY <1>2, <4>1 DEF GetRecords, OnCollection, Run
          <5>2. payload.limit = Service!Limit(request) /\ Offset = request.offset
            BY <1>1, <5>1, PagesMean
          <5> QED
            BY <1>3, <4>1, <5>2 DEF GetRecords, Answers, Becomes
        <4>2. CASE Query
          <5>1. request.op = "query"
            BY <1>2, <4>2 DEF Query, OnCollection, Run
          <5>2. /\ (IF payload.limit = None THEN DefaultResults ELSE payload.limit)
                      = Service!Limit(request)
                /\ request.offset = 0
            BY <1>1, <5>1, PagesMean
          <5>3. reply' \in AtMost(Service!Limit(request), chosen)
            BY <1>3, <4>2, <5>2 DEF Query, Answers, Becomes
          <5> QED
            BY <1>7, <5>2, <5>3, FirstPage
        <4> QED
          BY <2>3, <4>1, <4>2
      <3>3. reply' \in Service!Page(Service!Chosen(request, c), Service!Limit(request),
                                    request.offset)
        BY <1>5, <3>2, SameRecords
      <3> QED
        BY <3>1, <3>3 DEF Service!ByCollectionId, Service!Look
    <2>4. CASE CountRecords
      <3>1. /\ request.op = "countRecords" /\ cat' = cat
            /\ reply' = {Cardinality(Present(c.records))}
        BY <1>2, <1>3, <2>4 DEF CountRecords, OnCollection, Run, Answers, Becomes
      <3> QED
        BY <3>1, SameRecords, SameCardinality DEF Service!ByCollectionId, Service!Look
    <2>5. CASE IndexingStatus
      <3>1. request.op = "indexingStatus" /\ cat' = cat /\ reply' = {}
        BY <1>2, <2>5 DEF IndexingStatus, OnCollection, Run, Answers, Becomes
      <3> QED
        BY <3>1 DEF Service!ByCollectionId, Service!Look
    <2> QED
      BY <2>1, <2>2, <2>3, <2>4, <2>5
  <1> QED
    BY <1>1, <1>4, <1>8, EffectsAreOf, EffectsCarry

\* Every handler carries out the request it has the payload of, once.
LEMMA HandlersCarryOut == ASSUME StageInv, Handlers PROVE Service!CarryOut
  <1>1. CarriedOut
    BY TenantsCarried, DatabasesCarried, ResetCarried, NamedCarried, CollectionsCarried,
       RecordsCarried DEF Handlers
  <1>2. pc = "shim" /\ pc' = "reply" /\ UNCHANGED <<request, answer>>
    BY DEF Handlers, CreateTenant, GetTenant, UpdateTenant, CreateDatabase, GetDatabase,
       DeleteDatabase, ListDatabases, Reset, CreateCollection, GetCollection, DeleteCollection,
       ListCollections, CountCollections, UpdateCollection, ForkCollection, WriteRecords,
       DeleteRecords, GetRecords, Query, CountRecords, IndexingStatus, InDatabase, OnCollection,
       Run, Replace, Answers, Becomes
  <1>3. request # None
    BY <1>2, NoneAssumption DEF StageInv
  <1> QED
    BY <1>1, <1>2, <1>3 DEF CarriedOut, Service!CarryOut

\* The call that begins is the one the program asks for.
LEMMA CallAsks == ASSUME StageInv, NEW r \in Requests, Call(r) PROVE Service!Ask
  BY NoneAssumption DEF StageInv, Call, NoAnswer, Service!Ask

\* A call that ends tells its result, or an error; then what it did was to read at
\* most, or to make what the lost reply describes.
LEMMA CallEnds ==
  ASSUME StageInv, Refuse \/ Report \/ Decode \/ CutOff
  PROVE  Service!Succeed \/ Service!Fail
  <1>1. request # None
    BY NoneAssumption DEF StageInv, Refuse, Report, Decode, CutOff
  <1>2. CASE Refuse \/ Report
    <2>1. pc # "reply" /\ pc' = "idle" /\ request' = None /\ answer'.how # "ok" /\ cat' = cat
      BY <1>2 DEF Refuse, Report, End
    <2> QED
      BY <1>1, <2>1 DEF Service!Fail
  <1>3. CASE Decode
    BY <1>3 DEF Decode, End, Service!Succeed
  <1>4. CASE CutOff
    <2>1. pc = "reply" /\ pc' = "idle" /\ request' = None /\ answer'.how # "ok" /\ cat' = cat
      BY <1>4 DEF CutOff, End
    <2>2. request.op \notin Service!Changes \ Service!Describes
      BY <1>4 DEF CutOff, Unbounded, ReturnsString, Reads, Service!Changes, Service!Describes
    <2> QED
      BY <1>1, <2>1, <2>2 DEF Service!Fail
  <1> QED
    BY <1>2, <1>3, <1>4

\* A call of a Go method has at most one effect on the database, at the step of
\* the frontend, and it is the one that the fields of its request ask for,
\* whatever was left out and put back on the way.  An error tells that it had
\* none, except of a collection that was created or forked, whose description the
\* reply may be too short for.
THEOREM Refinement == Spec => RequestsMeanWhatTheySay
  <1>1. Init => Service!Init
    BY SameCatalog DEF Init, NoAnswer, Service!Init
  <1> DEFINE seen == <<cat, request, IF pc = "reply" THEN <<reply>> ELSE <<>>,
                       IF answer.how = "ok" THEN <<answer.result>> ELSE <<>> >>
  <1>2. StageInv /\ [Next]_vars => [Service!Next]_seen
    <2> SUFFICES ASSUME StageInv, [Next]_vars
                 PROVE  Service!Next \/ UNCHANGED seen
      OBVIOUS
    <2>1. ASSUME NEW r \in Requests, Call(r)
          PROVE  Service!Next
      BY <2>1, CallAsks DEF Service!Next
    <2>2. CASE Refuse \/ Report \/ Decode \/ CutOff
      BY <2>2, CallEnds DEF Service!Next
    <2>3. CASE Handlers
      BY <2>3, HandlersCarryOut DEF Service!Next
    <2>4. CASE Send \/ ShimRefuses \/ UpstreamRefuses \/ FrontendFails
      BY <2>4 DEF Send, ShimRefuses, UpstreamRefuses, FrontendFails
    <2>5. CASE UNCHANGED vars
      BY <2>5 DEF vars
    <2> QED
      BY <2>1, <2>2, <2>3, <2>4, <2>5 DEF Next
  <1>3. IInv => StageInv
    BY DEF IInv
  <1> HIDE DEF seen
  <1>4. Spec => [][Service!Next]_seen
    BY <1>2, <1>3, Inductive, PTL DEF Spec
  <1> QED
    BY <1>1, <1>4, PTL DEF Spec, RequestsMeanWhatTheySay, Service!Spec, seen
=============================================================================
