---------------------------- MODULE VendorRunProofs ----------------------------
(***************************************************************************)
(* Proofs about VendorRun.                                                  *)
(***************************************************************************)
EXTENDS VendorRun, FiniteSetTheorems, SequenceTheorems, WellFoundedInduction, TLAPS

-----------------------------------------------------------------------------
(* The order of a set of places: the one increasing way to list it.           *)

(* Every non-empty set of naturals has a least element. *)
LEMMA LeastNat ==
    ASSUME NEW S, S \subseteq Nat, S # {}
    PROVE  \E m \in S : \A k \in S : m <= k
<1>1. PICK m \in S : \A k \in S : ~(<<k, m>> \in OpToRel(<, Nat))
  BY NatLessThanWellFounded, WFMin
<1>2. \A k \in S : ~(k < m)
  BY <1>1 DEF OpToRel
<1> QED
  BY <1>2

Below(S, i) == {j \in S : j < i}
Rank(S, i) == Cardinality(Below(S, i))
Order(S) == [k \in 1..Cardinality(S) |-> CHOOSE i \in S : Rank(S, i) = k - 1]
Lists(f, c, S) ==
    /\ f \in [1..c -> S]
    /\ \A k, l \in 1..c : k < l => f[k] < f[l]
    /\ \A i \in S : \E k \in 1..c : f[k] = i

LEMMA RankType ==
    ASSUME NEW S, S \subseteq Nat, IsFiniteSet(S), NEW i \in S
    PROVE  Rank(S, i) \in Nat /\ Rank(S, i) \in 0..(Cardinality(S) - 1)
<1>1. Below(S, i) \subseteq S \ {i} /\ i \in S /\ i \in Nat
  BY DEF Below
<1>2. IsFiniteSet(S \ {i}) /\ Cardinality(S \ {i}) = Cardinality(S) - 1 /\ Cardinality(S) \in Nat
  BY FS_RemoveElement, FS_CardinalityType
<1>3. IsFiniteSet(Below(S, i)) /\ Cardinality(Below(S, i)) <= Cardinality(S) - 1
  BY <1>1, <1>2, FS_Subset
<1>4. Cardinality(Below(S, i)) \in Nat
  BY <1>3, FS_CardinalityType
<1> QED
  BY <1>2, <1>3, <1>4 DEF Rank

LEMMA RankGrows ==
    ASSUME NEW S, S \subseteq Nat, IsFiniteSet(S), NEW i \in S, NEW j \in S, i < j
    PROVE  Rank(S, i) < Rank(S, j)
<1>1. i \in Nat /\ j \in Nat /\ i < j /\ ~(i < i)
  OBVIOUS
<1>2. \A h \in S : h < i => h < j
  BY <1>1
<1>3. Below(S, i) \subseteq Below(S, j) /\ i \in Below(S, j) /\ i \notin Below(S, i)
  BY <1>1, <1>2 DEF Below
<1>4. IsFiniteSet(Below(S, j))
  BY FS_Subset DEF Below
<1>5. /\ IsFiniteSet(Below(S, i)) /\ Cardinality(Below(S, i)) <= Cardinality(Below(S, j))
      /\ Cardinality(Below(S, i)) = Cardinality(Below(S, j)) => Below(S, i) = Below(S, j)
  BY <1>3, <1>4, FS_Subset
<1>6. Cardinality(Below(S, i)) \in Nat /\ Cardinality(Below(S, j)) \in Nat
  BY <1>4, <1>5, FS_CardinalityType
<1>7. Cardinality(Below(S, i)) # Cardinality(Below(S, j))
  BY <1>3, <1>5
<1> QED
  BY <1>5, <1>6, <1>7 DEF Rank

LEMMA RankInjective ==
    ASSUME NEW S, S \subseteq Nat, IsFiniteSet(S), NEW i \in S, NEW j \in S,
           Rank(S, i) = Rank(S, j)
    PROVE  i = j
<1> SUFFICES ASSUME i # j PROVE FALSE
  OBVIOUS
<1>1. i < j \/ j < i
  OBVIOUS
<1>2. Rank(S, i) \in Nat /\ Rank(S, j) \in Nat
  BY RankType
<1>3. Rank(S, i) < Rank(S, j) \/ Rank(S, j) < Rank(S, i)
  BY <1>1, RankGrows
<1> QED
  BY <1>2, <1>3

LEMMA RankOnto ==
    ASSUME NEW S, S \subseteq Nat, IsFiniteSet(S), NEW k \in 1..Cardinality(S)
    PROVE  \E i \in S : Rank(S, i) = k - 1
<1> DEFINE c == Cardinality(S)
           rank == [i \in S |-> Rank(S, i)]
           T == 0..(c - 1)
<1>0. c \in Nat
  BY FS_CardinalityType
<1>1. rank \in [S -> T]
  BY RankType
<1>2. \A i, j \in S : rank[i] = rank[j] => i = j
  BY RankInjective
<1>3. rank \in Injection(S, T)
  BY <1>1, <1>2 DEF Injection, IsInjective
<1>4. IsFiniteSet(T) /\ Cardinality(T) = c
  <2> HIDE DEF c
  <2>1. 0 \in Int /\ c - 1 \in Int /\ ~(0 > c - 1 + 1) /\ c - 1 - 0 + 1 = c
    BY <1>0
  <2> QED
    BY <1>0, <2>1, FS_Interval
<1> HIDE DEF rank
<1>5. rank \in Surjection(S, T)
  BY <1>3, <1>4, FS_Injection
<1>6. k - 1 \in T
  BY <1>0
<1>7. PICK i \in S : rank[i] = k - 1
  BY <1>5, <1>6 DEF Surjection
<1> QED
  BY <1>7 DEF rank

LEMMA PlaceChosen ==
    ASSUME NEW S, S \subseteq Nat, IsFiniteSet(S), NEW k \in 1..Cardinality(S)
    PROVE  Order(S)[k] \in S /\ Rank(S, Order(S)[k]) = k - 1
<1>1. \E i \in S : Rank(S, i) = k - 1
  BY RankOnto
<1> DEFINE It(i) == Rank(S, i) = k - 1
           p == CHOOSE i \in S : It(i)
<1>2. Order(S)[k] = p
  BY DEF Order
<1>3. p \in S /\ It(p)
  BY <1>1
<1> QED
  BY <1>2, <1>3

(* The order of a set lists it.                                              *)
LEMMA OrderLists ==
    ASSUME NEW S, S \subseteq Nat, IsFiniteSet(S)
    PROVE  Cardinality(S) \in Nat /\ Lists(Order(S), Cardinality(S), S)
<1> DEFINE c == Cardinality(S)
<1>0. c \in Nat
  BY FS_CardinalityType
<1>1. Order(S) \in [1..c -> S]
  <2>1. \A k \in 1..c : Order(S)[k] \in S
    BY PlaceChosen
  <2>2. Order(S) = [k \in 1..c |-> Order(S)[k]]
    BY DEF Order
  <2> QED
    BY <2>1, <2>2
<1>2. ASSUME NEW k \in 1..c, NEW l \in 1..c, k < l PROVE Order(S)[k] < Order(S)[l]
  <2> DEFINE i == Order(S)[k]
             j == Order(S)[l]
  <2>1. i \in S /\ j \in S /\ Rank(S, i) = k - 1 /\ Rank(S, j) = l - 1
    BY PlaceChosen
  <2> HIDE DEF i, j
  <2>2. j < i => k - 1 > l - 1
    BY <2>1, RankGrows
  <2>3. i # j /\ ~(j < i)
    BY <1>0, <1>2, <2>1, <2>2
  <2>4. i < j
    BY <2>1, <2>3
  <2> QED
    BY <2>4 DEF i, j
<1>3. ASSUME NEW i \in S PROVE \E k \in 1..c : Order(S)[k] = i
  <2> DEFINE r == Rank(S, i)
  <2>1. r \in 0..(c - 1)
    BY RankType
  <2> HIDE DEF r
  <2> DEFINE k == r + 1
  <2> HIDE DEF c
  <2>3. k \in 1..c /\ k - 1 = r
    BY <1>0, <2>1
  <2> USE DEF c
  <2> HIDE DEF k
  <2>4. Order(S)[k] \in S /\ Rank(S, Order(S)[k]) = k - 1
    BY <2>3, PlaceChosen
  <2>5. Order(S)[k] = i
    BY <2>3, <2>4, RankInjective DEF r
  <2> QED
    BY <2>3, <2>5
<1> QED
  BY <1>0, <1>1, <1>2, <1>3 DEF Lists

(* And nothing else lists it in that way.                                    *)
LEMMA ListsUnique ==
    ASSUME NEW S, S \subseteq Nat, NEW c \in Nat, NEW f, Lists(f, c, S)
    PROVE  IsFiniteSet(S) /\ Cardinality(S) = c /\ \A k \in 1..c : Order(S)[k] = f[k]
<1>1. /\ f \in [1..c -> S]
      /\ \A k, l \in 1..c : k < l => f[k] < f[l]
      /\ \A i \in S : \E k \in 1..c : f[k] = i
  BY DEF Lists
<1>2. \A k, l \in 1..c : f[k] = f[l] => k = l
  <2> SUFFICES ASSUME NEW k \in 1..c, NEW l \in 1..c, f[k] = f[l], k # l PROVE FALSE
    OBVIOUS
  <2>1. k < l \/ l < k
    OBVIOUS
  <2>2. f[k] \in Nat /\ f[l] \in Nat
    BY <1>1
  <2>3. f[k] < f[l] \/ f[l] < f[k]
    BY <1>1, <2>1
  <2> QED
    BY <2>2, <2>3
<1>3. ExistsBijection(1..c, S)
  <2>1. f \in Bijection(1..c, S)
    BY <1>1, <1>2 DEF Bijection, Injection, IsInjective, Surjection
  <2> QED
    BY <2>1 DEF ExistsBijection
<1>4. IsFiniteSet(1..c) /\ Cardinality(1..c) = c
  BY FS_Interval
<1>5. IsFiniteSet(S) /\ Cardinality(S) = c
  BY <1>3, <1>4, FS_Bijection
<1>6. ASSUME NEW k \in 1..c PROVE Rank(S, f[k]) = k - 1
  <2> DEFINE g == [l \in 1..(k - 1) |-> f[l]]
             B == Below(S, f[k])
  <2>1. \A l \in 1..(k - 1) : l \in 1..c /\ l < k
    OBVIOUS
  <2>2. \A l \in 1..(k - 1) : f[l] \in B
    BY <1>1, <2>1 DEF Below
  <2>3. \A i \in B : \E l \in 1..(k - 1) : f[l] = i
    <3> SUFFICES ASSUME NEW i \in B PROVE \E l \in 1..(k - 1) : f[l] = i
      OBVIOUS
    <3>1. i \in S /\ i < f[k]
      BY DEF Below
    <3>2. PICK l \in 1..c : f[l] = i
      BY <1>1, <3>1
    <3>3. f[k] \in Nat /\ f[l] \in Nat
      BY <1>1
    <3>4. l < k
      <4> SUFFICES ASSUME ~(l < k) PROVE FALSE
        OBVIOUS
      <4>1. l = k \/ k < l
        OBVIOUS
      <4>2. f[l] = f[k] \/ f[k] < f[l]
        BY <1>1, <4>1
      <4> QED
        BY <3>1, <3>2, <3>3, <4>2
    <3> QED
      BY <3>2, <3>4
  <2>4. g \in Bijection(1..(k - 1), B)
    <3>1. g \in [1..(k - 1) -> B]
      BY <2>2
    <3>2. \A l, m \in 1..(k - 1) : g[l] = g[m] => l = m
      BY <1>2, <2>1
    <3>3. \A i \in B : \E l \in 1..(k - 1) : g[l] = i
      BY <2>3
    <3> HIDE DEF g, B
    <3> QED
      BY <3>1, <3>2, <3>3 DEF Bijection, Injection, IsInjective, Surjection
  <2>5. ExistsBijection(1..(k - 1), B)
    BY <2>4 DEF ExistsBijection
  <2>6. IsFiniteSet(1..(k - 1)) /\ Cardinality(1..(k - 1)) = k - 1
    <3>1. 1 \in Int /\ k - 1 \in Int /\ k - 1 \in Nat
      OBVIOUS
    <3>2. Cardinality(1..(k - 1)) = IF 1 > k - 1 THEN 0 ELSE (k - 1) - 1 + 1
      BY <3>1, FS_Interval
    <3> QED
      BY <3>1, <3>2, FS_Interval
  <2> HIDE DEF B, g
  <2>7. Cardinality(B) = k - 1
    BY <2>5, <2>6, FS_Bijection
  <2> QED
    BY <2>7 DEF B, Rank
<1>7. ASSUME NEW k \in 1..c PROVE Order(S)[k] = f[k]
  <2>1. Order(S)[k] \in S /\ Rank(S, Order(S)[k]) = k - 1
    BY <1>5, PlaceChosen
  <2>2. f[k] \in S
    BY <1>1
  <2> QED
    BY <1>5, <1>6, <2>1, <2>2, RankInjective
<1> QED
  BY <1>5, <1>7

-----------------------------------------------------------------------------
(* Rows picked from a table, in order. *)

LEMMA DomainIs == ASSUME NEW S, NEW t \in Seq(S) PROVE DOMAIN t = 1..Len(t) /\ Len(t) \in Nat
OBVIOUS

LEMMA PlacesFinite ==
    ASSUME NEW S, NEW t \in Seq(S), NEW here, here \subseteq DOMAIN t
    PROVE  here \subseteq Nat /\ IsFiniteSet(here)
<1>1. DOMAIN t = 1..Len(t) /\ Len(t) \in Nat
  BY DomainIs
<1>2. IsFiniteSet(1..Len(t))
  BY <1>1, FS_Interval
<1> QED
  BY <1>1, <1>2, FS_Subset

LEMMA PickedIs ==
    ASSUME NEW S, NEW t \in Seq(S), NEW here, here \subseteq DOMAIN t
    PROVE  /\ Cardinality(here) \in Nat
           /\ Lists(Order(here), Cardinality(here), here)
           /\ Picked(t, here) \in Seq(S)
           /\ Len(Picked(t, here)) = Cardinality(here)
           /\ DOMAIN Picked(t, here) = 1..Cardinality(here)
           /\ \A k \in 1..Cardinality(here) : Picked(t, here)[k] = t[Order(here)[k]]
<1>1. here \subseteq Nat /\ IsFiniteSet(here)
  BY PlacesFinite
<1>2. Cardinality(here) \in Nat /\ Lists(Order(here), Cardinality(here), here)
  BY <1>1, OrderLists
<1> DEFINE c == Cardinality(here)
<1>3. Picked(t, here) = [k \in 1..c |-> t[Order(here)[k]]]
  <2>1. PICK list : list = Listing(t, here)
    OBVIOUS
  <2>2. {Listing(t, at) : at \in {here}} = {list}
    BY <2>1
  <2>3. Picked(t, here) = list
    BY <2>2 DEF Picked
  <2> QED
    BY <2>1, <2>3 DEF Listing, Order, Rank, Below
<1>4. \A k \in 1..c : Order(here)[k] \in here
  BY <1>2 DEF Lists
<1>5. \A k \in 1..c : t[Order(here)[k]] \in S
  BY <1>4
<1> HIDE DEF c
<1>6. Picked(t, here) \in Seq(S) /\ Len(Picked(t, here)) = c
  BY <1>2, <1>3, <1>5 DEF c
<1> QED
  BY <1>2, <1>3, <1>6 DEF c

(* What an increasing list of the places picks.                              *)
LEMMA PickedListed ==
    ASSUME NEW S, NEW t \in Seq(S), NEW here, here \subseteq DOMAIN t,
           NEW c \in Nat, NEW f, Lists(f, c, here)
    PROVE  /\ Cardinality(here) = c
           /\ Len(Picked(t, here)) = c
           /\ Picked(t, here) = [k \in 1..c |-> t[f[k]]]
<1>1. here \subseteq Nat
  BY PlacesFinite
<1>2. Cardinality(here) = c /\ \A k \in 1..c : Order(here)[k] = f[k]
  BY <1>1, ListsUnique
<1>3. /\ Len(Picked(t, here)) = c
      /\ Picked(t, here) \in Seq(S)
      /\ \A k \in 1..c : Picked(t, here)[k] = t[f[k]]
  BY <1>2, PickedIs
<1> QED
  BY <1>2, <1>3

(* Two tables that agree at the places picked.                               *)
LEMMA PickedSame ==
    ASSUME NEW S, NEW t \in Seq(S), NEW u \in Seq(S), NEW here,
           here \subseteq DOMAIN t, here \subseteq DOMAIN u,
           \A i \in here : t[i] = u[i]
    PROVE  Picked(t, here) = Picked(u, here)
<1> DEFINE c == Cardinality(here)
<1>1. c \in Nat /\ Lists(Order(here), c, here)
  BY PickedIs
<1>2. /\ Picked(t, here) = [k \in 1..c |-> t[Order(here)[k]]]
      /\ Picked(u, here) = [k \in 1..c |-> u[Order(here)[k]]]
  BY <1>1, PickedListed
<1>3. \A k \in 1..c : Order(here)[k] \in here
  BY <1>1 DEF Lists
<1> HIDE DEF c
<1> QED
  BY <1>2, <1>3

(* The rows picked are those at the places picked.                           *)
LEMMA PickedHas ==
    ASSUME NEW S, NEW t \in Seq(S), NEW here, here \subseteq DOMAIN t
    PROVE  /\ \A k \in DOMAIN Picked(t, here) : \E i \in here : Picked(t, here)[k] = t[i]
           /\ \A i \in here : \E k \in DOMAIN Picked(t, here) : Picked(t, here)[k] = t[i]
<1> DEFINE c == Cardinality(here)
           f == Order(here)
           q == Picked(t, here)
<1>1. Lists(f, c, here) /\ DOMAIN q = 1..c /\ \A k \in 1..c : q[k] = t[f[k]]
  BY PickedIs
<1> HIDE DEF c, f, q
<1>2. \A k \in 1..c : f[k] \in here
  BY <1>1 DEF Lists
<1>3. \A i \in here : \E k \in 1..c : f[k] = i
  BY <1>1 DEF Lists
<1>4. (\A k \in DOMAIN q : \E i \in here : q[k] = t[i])
  BY <1>1, <1>2
<1>5. (\A i \in here : \E k \in DOMAIN q : q[k] = t[i])
  BY <1>1, <1>3
<1> QED
  BY <1>4, <1>5 DEF q

(* A table of distinct names stays one.                                      *)
Distinct(t) == \A i, j \in DOMAIN t : t[i].id = t[j].id => i = j
LEMMA PickedDistinct ==
    ASSUME NEW S, NEW t \in Seq(S), NEW here, here \subseteq DOMAIN t, Distinct(t)
    PROVE  Distinct(Picked(t, here))
<1> DEFINE c == Cardinality(here)
           f == Order(here)
           q == Picked(t, here)
<1>1. Lists(f, c, here) /\ DOMAIN q = 1..c /\ (\A k \in 1..c : q[k] = t[f[k]]) /\ c \in Nat
  BY PickedIs
<1> HIDE DEF c, f, q
<1> SUFFICES ASSUME NEW k \in 1..c, NEW l \in 1..c, q[k].id = q[l].id, k # l PROVE FALSE
  BY <1>1 DEF Distinct, q
<1>2. f[k] \in here /\ f[l] \in here
  BY <1>1 DEF Lists
<1>3. f[k] = f[l]
  BY <1>1, <1>2 DEF Distinct
<1>4. k < l \/ l < k
  BY <1>1
<1>5. f[k] < f[l] \/ f[l] < f[k]
  BY <1>1, <1>4 DEF Lists
<1>6. f[k] \in Nat
  BY <1>2, PlacesFinite
<1> QED
  BY <1>3, <1>5, <1>6

-----------------------------------------------------------------------------
(* A store: its rows, the names given out, what the process remembers. *)

Ids_ == Contexts \X Int
Fields == {"rows", "next", "book", "held", "memory"}

(* The names below which those of a context are all given out.               *)
Bound(k, t, c) == IF k = "crewai" /\ c = CTX THEN Len(t.memory) ELSE t.next[c]
OwnsNames(k) == k # "mem0" /\ k \notin InspeximusKinds
NamedRow(k, u, row) ==
    /\ (k = "acrf" /\ row.id[1] = CTX) \/ row.id[2] < Bound(k, u, row.id[1])
    /\ OwnsNames(k) => row.id[1] = row.owner
Named(k, t, u) == \A row \in ToSet(t.rows) : NamedRow(k, u, row)
Remembers(k, t) ==
    /\ t.memory \in Seq(IF k \in AtelyaKinds THEN Texts ELSE Ids_)
    /\ k = "mem0" => t.book \in Seq(Ids_) /\ Ids(t) \subseteq ToSet(t.book)
Fine(k, t) == StoreOK(t) /\ Named(k, t, t) /\ Remembers(k, t)

LEMMA ContextsAre == CTX \in Contexts /\ OTHER_CTX \in Contexts /\ CTX # OTHER_CTX
BY VendorAssumption DEF Contexts

LEMMA SeedCountIs == SeedCount \in Nat /\ SeedCount >= 1
BY VendorAssumption

LEMMA RowParts ==
    ASSUME NEW row \in Rows
    PROVE  /\ row.id \in Ids_ /\ row.id = <<row.id[1], row.id[2]>>
           /\ row.id[1] \in Contexts /\ row.id[2] \in Int
           /\ row.owner \in Contexts /\ row.text \in Texts /\ row.meta \in Metas
           /\ row.seal \in Seq(Saids) /\ Said(row) \in Saids
<1>1. row.id \in Contexts \X Int
  BY DEF Rows
<1>2. row.id = <<row.id[1], row.id[2]>> /\ row.id[1] \in Contexts /\ row.id[2] \in Int
  BY <1>1
<1> QED
  BY <1>1, <1>2 DEF Rows, Ids_, Said, Saids

LEMMA StoreParts ==
    ASSUME NEW t, StoreOK(t)
    PROVE  /\ DOMAIN t = Fields /\ t.rows \in Seq(Rows) /\ t.next \in [Contexts -> Nat]
           /\ DOMAIN t.rows = 1..Len(t.rows) /\ Len(t.rows) \in Nat
           /\ \A i \in 1..Len(t.rows) : t.rows[i] \in Rows
           /\ Distinct(t.rows)
BY DEF StoreOK, Fields, Distinct

LEMMA BoundType ==
    ASSUME NEW k, NEW t, StoreOK(t), Remembers(k, t), NEW c \in Contexts
    PROVE  Bound(k, t, c) \in Nat
<1>1. t.next[c] \in Nat
  BY DEF StoreOK
<1>2. Len(t.memory) \in Nat
  BY DEF Remembers
<1> QED
  BY <1>1, <1>2 DEF Bound

(* The rows of a context.                                                    *)
LEMMA PlacesIn ==
    ASSUME NEW t, StoreOK(t), NEW c
    PROVE  Places(t, c) \subseteq DOMAIN t.rows
BY DEF Places

LEMMA ViewIs ==
    ASSUME NEW t, StoreOK(t), NEW c
    PROVE  /\ View(t, c) \in Seq(Rows)
           /\ Len(View(t, c)) \in Nat
           /\ DOMAIN View(t, c) = 1..Len(View(t, c))
           /\ Distinct(View(t, c))
           /\ \A k \in DOMAIN View(t, c) : \E i \in DOMAIN t.rows :
                 View(t, c)[k] = t.rows[i] /\ t.rows[i].owner = c
           /\ \A i \in DOMAIN t.rows : t.rows[i].owner = c =>
                 \E k \in DOMAIN View(t, c) : View(t, c)[k] = t.rows[i]
<1>1. t.rows \in Seq(Rows) /\ Places(t, c) \subseteq DOMAIN t.rows /\ Distinct(t.rows)
  BY StoreParts, PlacesIn
<1>2. View(t, c) \in Seq(Rows) /\ Distinct(View(t, c))
  BY <1>1, PickedIs, PickedDistinct DEF View
<1>3. /\ \A k \in DOMAIN View(t, c) : \E i \in Places(t, c) : View(t, c)[k] = t.rows[i]
      /\ \A i \in Places(t, c) : \E k \in DOMAIN View(t, c) : View(t, c)[k] = t.rows[i]
  <2> DEFINE q == Picked(t.rows, Places(t, c))
  <2>1. \A k \in DOMAIN q : \E i \in Places(t, c) : q[k] = t.rows[i]
    BY <1>1, PickedHas
  <2>2. \A i \in Places(t, c) : \E k \in DOMAIN q : q[k] = t.rows[i]
    BY <1>1, PickedHas
  <2>3. View(t, c) = q
    BY DEF View
  <2> HIDE DEF q
  <2> QED
    BY <2>1, <2>2, <2>3
<1>4. \A i : i \in Places(t, c) <=> i \in DOMAIN t.rows /\ t.rows[i].owner = c
  BY DEF Places
<1> QED
  BY <1>2, <1>3, <1>4

LEMMA NamesAre ==
    ASSUME NEW t, StoreOK(t), NEW c
    PROVE  /\ Names(t, c) \in Seq(Ids_) /\ Len(Names(t, c)) = Len(View(t, c))
           /\ DOMAIN Names(t, c) = DOMAIN View(t, c)
           /\ \A k \in DOMAIN View(t, c) : Names(t, c)[k] = View(t, c)[k].id
<1> DEFINE view == View(t, c)
<1>1. view \in Seq(Rows) /\ Len(view) \in Nat /\ DOMAIN view = 1..Len(view)
  BY ViewIs
<1>2. Names(t, c) = [k \in DOMAIN view |-> view[k].id]
  BY DEF Names
<1> HIDE DEF view
<1>3. \A k \in 1..Len(view) : view[k].id \in Ids_
  BY <1>1, RowParts
<1> QED
  BY <1>1, <1>2, <1>3 DEF view

LEMMA ToldIs ==
    ASSUME NEW rows \in Seq(Rows)
    PROVE  /\ Told(rows) \in Seq(Saids) /\ Len(Told(rows)) = Len(rows)
           /\ DOMAIN Told(rows) = 1..Len(rows)
           /\ \A k \in 1..Len(rows) : Told(rows)[k] = Said(rows[k])
<1>1. \A k \in 1..Len(rows) : Said(rows[k]) \in Saids
  BY RowParts
<1> QED
  BY <1>1 DEF Told

LEMMA ServedIs ==
    ASSUME NEW t, StoreOK(t)
    PROVE  Served(t) \in Seq(Saids) /\ Len(Served(t)) = Len(View(t, CTX))
BY ViewIs, ToldIs DEF Served

-----------------------------------------------------------------------------
(* Rows added at the end. *)

LEMMA AddIs ==
    ASSUME NEW t, StoreOK(t), NEW c \in Contexts, NEW new \in Seq(Rows)
    PROVE  /\ DOMAIN AddRows(t, c, new) = Fields
           /\ AddRows(t, c, new).rows = t.rows \o new
           /\ AddRows(t, c, new).next = [t.next EXCEPT ![c] = @ + Len(new)]
           /\ AddRows(t, c, new).next \in [Contexts -> Nat]
           /\ AddRows(t, c, new).book = t.book
           /\ AddRows(t, c, new).held = t.held
           /\ AddRows(t, c, new).memory = t.memory
<1>1. DOMAIN t = Fields /\ t.next \in [Contexts -> Nat]
  BY StoreParts
<1> QED
  BY <1>1 DEF AddRows, Fields

(* Rows joined to a table, under names of their own.                          *)
LEMMA JoinDistinct ==
    ASSUME NEW a \in Seq(Rows), NEW b \in Seq(Rows), Distinct(a), Distinct(b),
           \A i \in DOMAIN a, j \in DOMAIN b : a[i].id # b[j].id
    PROVE  a \o b \in Seq(Rows) /\ Distinct(a \o b)
<1> DEFINE ab == a \o b
           m == Len(a)
           n == Len(b)
<1>1. m \in Nat /\ n \in Nat /\ DOMAIN a = 1..m /\ DOMAIN b = 1..n
  OBVIOUS
<1>2. /\ ab \in Seq(Rows) /\ DOMAIN ab = 1..(m + n)
      /\ \A i \in 1..m : ab[i] = a[i]
      /\ \A i \in 1..(m + n) : i > m => ab[i] = b[i - m]
  BY ConcatProperties
<1> HIDE DEF ab, m, n
<1> SUFFICES ASSUME NEW i \in 1..(m + n), NEW j \in 1..(m + n), ab[i].id = ab[j].id
             PROVE  i = j
  BY <1>2 DEF Distinct, ab
<1>3. CASE i <= m /\ j <= m
  <2>1. i \in DOMAIN a /\ j \in DOMAIN a /\ a[i].id = a[j].id
    BY <1>1, <1>2, <1>3
  <2> QED
    BY <2>1 DEF Distinct
<1>4. CASE i > m /\ j > m
  <2>1. i - m \in DOMAIN b /\ j - m \in DOMAIN b /\ b[i - m].id = b[j - m].id
    BY <1>1, <1>2, <1>4
  <2>2. i - m = j - m
    BY <2>1 DEF Distinct
  <2> QED
    BY <1>1, <2>2
<1>5. CASE i <= m /\ j > m
  <2>1. i \in DOMAIN a /\ j - m \in DOMAIN b /\ a[i].id = b[j - m].id
    BY <1>1, <1>2, <1>5
  <2> QED
    BY <2>1
<1>6. CASE i > m /\ j <= m
  <2>1. j \in DOMAIN a /\ i - m \in DOMAIN b /\ a[j].id = b[i - m].id
    BY <1>1, <1>2, <1>6
  <2> QED
    BY <2>1
<1> QED
  BY <1>1, <1>3, <1>4, <1>5, <1>6

LEMMA Concat ==
    ASSUME NEW S, NEW a \in Seq(S), NEW b \in Seq(S)
    PROVE  /\ a \o b \in Seq(S) /\ Len(a \o b) = Len(a) + Len(b)
           /\ DOMAIN (a \o b) = 1..(Len(a) + Len(b))
           /\ Len(a) \in Nat /\ Len(b) \in Nat
           /\ DOMAIN a = 1..Len(a) /\ DOMAIN b = 1..Len(b)
           /\ \A i \in 1..Len(a) : (a \o b)[i] = a[i]
           /\ \A i \in 1..Len(b) : (a \o b)[Len(a) + i] = b[i]
BY ConcatProperties

(* The places m + 1 .. m + n.                                                 *)
After(m, n) == {m + h : h \in 1..n}

LEMMA AfterIs ==
    ASSUME NEW m \in Nat, NEW n \in Nat
    PROVE  /\ \A h \in 1..n : m + h \in After(m, n) /\ m + h \in 1..(m + n) /\ m + h \notin 1..m
           /\ \A i \in 1..(m + n) : i \in 1..m \/ \E h \in 1..n : i = m + h
<1>1. \A h \in 1..n : m + h \in After(m, n) /\ m + h \in 1..(m + n) /\ m + h \notin 1..m
  BY DEF After
<1>2. ASSUME NEW i \in 1..(m + n), i \notin 1..m PROVE \E h \in 1..n : i = m + h
  <2>1. i - m \in 1..n /\ i = m + (i - m)
    BY <1>2
  <2> QED
    BY <2>1
<1> QED
  BY <1>1, <1>2

Longer(f, q, m, n) == [k \in 1..(q + n) |-> IF k \in 1..q THEN f[k] ELSE m + (k - q)]
LEMMA ListGrows ==
    ASSUME NEW S, NEW q \in Nat, NEW m \in Nat, NEW n \in Nat, NEW f, Lists(f, q, S),
           S \subseteq 1..m
    PROVE  /\ Lists(Longer(f, q, m, n), q + n, S \cup After(m, n))
           /\ \A k \in 1..q : Longer(f, q, m, n)[k] = f[k] /\ f[k] \in 1..m
<1>z. PICK g : g = Longer(f, q, m, n)
  OBVIOUS
<1>0. /\ \A h \in 1..n : q + h \in 1..(q + n) /\ q + h \notin 1..q
      /\ \A k \in 1..(q + n) : k \in 1..q \/ \E h \in 1..n : k = q + h
      /\ \A h \in 1..n : m + h \in After(m, n)
  BY AfterIs
<1>1. \A k \in 1..q : f[k] \in S /\ f[k] \in 1..m
  BY DEF Lists
<1>a. \A k \in 1..q : k \in 1..(q + n)
  OBVIOUS
<1>y. g = [k \in 1..(q + n) |-> IF k \in 1..q THEN f[k] ELSE m + (k - q)]
  BY <1>z DEF Longer
<1>b. \A k \in 1..q : g[k] = f[k]
  BY <1>a, <1>y
<1>2. ASSUME NEW h \in 1..n PROVE g[q + h] = m + h
  <2>1. q + h \in 1..(q + n) /\ q + h \notin 1..q
    BY <1>0
  <2>2. g[q + h] = m + ((q + h) - q)
    BY <1>y, <2>1
  <2> QED
    BY <2>2
<1>5. ASSUME NEW k \in 1..(q + n) PROVE g[k] \in S \cup After(m, n)
  <2>1. CASE k \in 1..q
    BY <1>1, <1>b, <2>1
  <2>2. CASE k \notin 1..q
    <3>1. PICK h \in 1..n : k = q + h
      BY <1>0, <2>2
    <3> QED
      BY <1>0, <1>2, <3>1
  <2> QED
    BY <2>1, <2>2
<1>6. g \in [1..(q + n) -> S \cup After(m, n)]
  BY <1>y, <1>5
<1>7. ASSUME NEW k \in 1..(q + n), NEW l \in 1..(q + n), k < l PROVE g[k] < g[l]
  <2>1. CASE k \in 1..q /\ l \in 1..q
    <3>1. f[k] < f[l]
      BY <1>7, <2>1 DEF Lists
    <3> QED
      BY <1>b, <2>1, <3>1
  <2>2. CASE k \in 1..q /\ l \notin 1..q
    <3>1. PICK h \in 1..n : l = q + h
      BY <1>0, <2>2
    <3>2. g[k] \in 1..m /\ g[l] = m + h
      BY <1>1, <1>b, <1>2, <2>2, <3>1
    <3> QED
      BY <3>2
  <2>3. CASE k \notin 1..q
    <3>1. PICK h \in 1..n : k = q + h
      BY <1>0, <2>3
    <3>2. l \notin 1..q
      BY <1>7, <3>1
    <3>3. PICK i \in 1..n : l = q + i
      BY <1>0, <3>2
    <3>4. g[k] = m + h /\ g[l] = m + i
      BY <1>2, <3>1, <3>3
    <3> QED
      BY <1>7, <3>1, <3>3, <3>4
  <2> QED
    BY <2>1, <2>2, <2>3
<1>8. ASSUME NEW i \in S \cup After(m, n) PROVE \E k \in 1..(q + n) : g[k] = i
  <2>1. CASE i \in S
    <3>1. PICK k \in 1..q : f[k] = i
      BY <2>1 DEF Lists
    <3> QED
      BY <1>a, <1>b, <3>1
  <2>2. CASE i \in After(m, n)
    <3>1. PICK h \in 1..n : i = m + h
      BY <2>2 DEF After
    <3>2. g[q + h] = i /\ q + h \in 1..(q + n)
      BY <1>0, <1>2, <3>1
    <3> QED
      BY <3>2
  <2> QED
    BY <2>1, <2>2
<1>9. Lists(g, q + n, S \cup After(m, n))
  BY <1>6, <1>7, <1>8 DEF Lists
<1> QED
  BY <1>z, <1>1, <1>b, <1>9

LEMMA PickedGrows ==
    ASSUME NEW R, NEW a \in Seq(R), NEW new \in Seq(R), NEW S, S \subseteq DOMAIN a
    PROVE  Picked(a \o new, S \cup After(Len(a), Len(new))) = Picked(a, S) \o new
<1>0. PICK m \in Nat, n \in Nat : m = Len(a) /\ n = Len(new)
  OBVIOUS
<1>1. PICK ab : ab = a \o new
  OBVIOUS
<1>a. PICK T : T = S \cup After(m, n)
  OBVIOUS
<1>2. /\ ab \in Seq(R) /\ DOMAIN ab = 1..(m + n) /\ S \subseteq 1..m
      /\ \A i \in 1..m : ab[i] = a[i]
      /\ \A i \in 1..n : ab[m + i] = new[i]
  BY <1>0, <1>1, Concat
<1>x. PICK q \in Nat : q = Cardinality(S)
  BY PickedIs
<1>y. PICK f : f = Order(S)
  OBVIOUS
<1>3. q = Cardinality(S) /\ Lists(f, q, S)
  BY <1>x, <1>y, PickedIs
<1>4. PICK g : g = Longer(f, q, m, n)
  OBVIOUS
<1>5. Lists(g, q + n, T)
  BY <1>a, <1>2, <1>3, <1>4, ListGrows
<1>b. /\ \A k \in 1..q : g[k] = f[k] /\ f[k] \in 1..m
      /\ \A h \in 1..n : g[q + h] = m + h
  <2>1. S \subseteq 1..m /\ Lists(f, q, S)
    BY <1>2, <1>3
  <2>0. m \in Nat /\ n \in Nat /\ q \in Nat
    OBVIOUS
  <2>2. \A k \in 1..q : Longer(f, q, m, n)[k] = f[k] /\ f[k] \in 1..m
    BY ONLY <2>0, <2>1, ListGrows
  <2>3. ASSUME NEW h \in 1..n PROVE Longer(f, q, m, n)[q + h] = m + h
    <3>1. q + h \in 1..(q + n) /\ q + h \notin 1..q /\ (q + h) - q = h
      OBVIOUS
    <3>2. Longer(f, q, m, n)[q + h] = m + ((q + h) - q)
      BY <3>1 DEF Longer
    <3> QED
      BY <3>1, <3>2
  <2> QED
    BY <1>4, <2>2, <2>3
<1>6. T \subseteq DOMAIN ab /\ q + n \in Nat
  <2>1. After(m, n) \subseteq 1..(m + n)
    BY DEF After
  <2>2. 1..m \subseteq 1..(m + n)
    OBVIOUS
  <2> QED
    BY <1>a, <1>2, <2>1, <2>2
<1>c. PICK c \in Nat : c = q + n
  BY <1>6
<1>7. PICK x : x = Picked(ab, T)
  OBVIOUS
<1>8. x \in Seq(R) /\ Len(x) = c /\ \A k \in 1..c : x[k] = ab[g[k]]
  <2>1. x \in Seq(R)
    BY <1>2, <1>6, <1>7, PickedIs
  <2>a. Lists(g, c, T)
    BY <1>5, <1>c
  <2>2. Len(x) = c /\ x = [k \in 1..c |-> ab[g[k]]]
    BY <1>2, <1>6, <1>7, <2>a, PickedListed
  <2> QED
    BY <2>1, <2>2
<1>9. PICK y : y = Picked(a, S)
  OBVIOUS
<1>10. y \in Seq(R) /\ Len(y) = q /\ \A k \in 1..q : y[k] = a[f[k]]
  <2>1. y \in Seq(R)
    BY <1>9, PickedIs
  <2>2. Len(y) = q /\ y = [k \in 1..q |-> a[f[k]]]
    BY <1>3, <1>9, PickedListed
  <2> QED
    BY <2>1, <2>2
<1>d. PICK z : z = y \o new
  OBVIOUS
<1>11. z \in Seq(R) /\ Len(z) = c
  BY <1>0, <1>c, <1>d, <1>10, Concat
<1>e. \A k \in 1..q : z[k] = y[k]
  BY <1>d, <1>10, Concat
<1>f. \A h \in 1..n : z[q + h] = new[h]
  BY <1>0, <1>d, <1>10, Concat
<1>g. /\ \A h \in 1..n : q + h \in 1..c /\ m + h \in 1..(m + n)
      /\ \A k \in 1..c : k \in 1..q \/ \E h \in 1..n : k = q + h
      /\ \A k \in 1..q : k \in 1..c
  BY <1>c, AfterIs
<1>12. ASSUME NEW k \in 1..q PROVE x[k] = y[k]
  <2>1. k \in 1..c /\ g[k] = f[k] /\ f[k] \in 1..m
    BY <1>b, <1>g
  <2>2. x[k] = ab[f[k]] /\ y[k] = a[f[k]]
    BY <1>8, <1>10, <2>1
  <2>3. ab[f[k]] = a[f[k]]
    BY <1>2, <2>1
  <2> QED
    BY <2>2, <2>3
<1>13. \A h \in 1..n : x[q + h] = new[h]
  BY <1>2, <1>b, <1>8, <1>g
<1>15. ASSUME NEW k \in 1..c PROVE x[k] = z[k]
  <2>1. CASE k \in 1..q
    BY <1>e, <1>12, <2>1
  <2>2. ASSUME NEW h \in 1..n, k = q + h PROVE x[k] = z[k]
    BY <1>f, <1>13, <2>2
  <2> QED
    BY <1>g, <2>1, <2>2
<1>16. x = z
  BY <1>8, <1>11, <1>15
<1> QED
  BY <1>0, <1>1, <1>a, <1>7, <1>9, <1>d, <1>16

(* The places of a context in a table joined to another.                      *)
LEMMA PlacesJoin ==
    ASSUME NEW t, StoreOK(t), NEW c, NEW new \in Seq(Rows), NEW u, u.rows = t.rows \o new
    PROVE  /\ \A i \in 1..Len(t.rows) : i \in Places(u, c) <=> i \in Places(t, c)
           /\ \A h \in 1..Len(new) : Len(t.rows) + h \in Places(u, c) <=> new[h].owner = c
           /\ Places(u, c) \subseteq 1..(Len(t.rows) + Len(new))
           /\ Places(t, c) \subseteq 1..Len(t.rows)
<1>x. PICK m \in Nat, n \in Nat : m = Len(t.rows) /\ n = Len(new)
  <2>1. Len(t.rows) \in Nat /\ Len(new) \in Nat
    BY StoreParts
  <2> QED
    BY <2>1
<1>y. PICK a, b : a = t.rows /\ b = u.rows
  OBVIOUS
<1>0. m = Len(t.rows) /\ n = Len(new) /\ a = t.rows /\ b = u.rows
  BY <1>x, <1>y
<1>1. a \in Seq(Rows) /\ DOMAIN a = 1..m /\ b = a \o new
  BY <1>0, StoreParts
<1>2. /\ DOMAIN b = 1..(m + n)
      /\ \A i \in 1..m : b[i] = a[i]
      /\ \A i \in 1..n : b[m + i] = new[i]
  BY <1>0, <1>1, Concat
<1>3. \A i : i \in Places(t, c) <=> i \in 1..m /\ a[i].owner = c
  BY <1>0, <1>1 DEF Places
<1>4. \A i : i \in Places(u, c) <=> i \in 1..(m + n) /\ b[i].owner = c
  BY <1>0, <1>2 DEF Places
<1>5. \A i \in 1..m : i \in 1..(m + n)
  OBVIOUS
<1>6. \A i \in 1..m : i \in Places(u, c) <=> i \in Places(t, c)
  BY <1>2, <1>3, <1>4, <1>5
<1>7. \A h \in 1..n : m + h \in 1..(m + n)
  OBVIOUS
<1>8. \A h \in 1..n : m + h \in Places(u, c) <=> new[h].owner = c
  BY <1>2, <1>4, <1>7
<1>9. Places(u, c) \subseteq 1..(m + n) /\ Places(t, c) \subseteq 1..m
  BY <1>3, <1>4
<1> QED
  BY <1>0, <1>6, <1>8, <1>9

LEMMA ViewGrows ==
    ASSUME NEW t, StoreOK(t), NEW c, NEW new \in Seq(Rows), NEW u,
           u.rows = t.rows \o new, \A h \in 1..Len(new) : new[h].owner = c
    PROVE  View(u, c) = View(t, c) \o new
<1>0. PICK m \in Nat, n \in Nat : m = Len(t.rows) /\ n = Len(new)
  <2>1. Len(t.rows) \in Nat /\ Len(new) \in Nat
    BY StoreParts
  <2> QED
    BY <2>1
<1>1. /\ \A i \in 1..m : i \in Places(u, c) <=> i \in Places(t, c)
      /\ \A h \in 1..n : m + h \in Places(u, c)
      /\ Places(u, c) \subseteq 1..(m + n)
      /\ Places(t, c) \subseteq 1..m
  BY <1>0, PlacesJoin
<1>2. \A i \in 1..(m + n) : i \in 1..m \/ \E h \in 1..n : i = m + h
  BY AfterIs
<1>3. ASSUME NEW i \in Places(u, c) PROVE i \in Places(t, c) \cup After(m, n)
  <2>1. i \in 1..(m + n)
    BY <1>1
  <2>2. CASE i \in 1..m
    BY <1>1, <2>2
  <2>3. CASE \E h \in 1..n : i = m + h
    BY <2>3 DEF After
  <2> QED
    BY <1>2, <2>1, <2>2, <2>3
<1>4. Places(t, c) \subseteq Places(u, c)
  BY <1>1
<1>5. After(m, n) \subseteq Places(u, c)
  BY <1>1 DEF After
<1>6. Places(u, c) = Places(t, c) \cup After(m, n)
  BY <1>3, <1>4, <1>5
<1>7. t.rows \in Seq(Rows) /\ Places(t, c) \subseteq DOMAIN t.rows
  BY StoreParts, PlacesIn
<1>8. Picked(t.rows \o new, Places(t, c) \cup After(Len(t.rows), Len(new)))
        = Picked(t.rows, Places(t, c)) \o new
  BY <1>7, PickedGrows
<1> QED
  BY <1>0, <1>6, <1>8 DEF View

LEMMA ViewKept ==
    ASSUME NEW t, StoreOK(t), NEW c, NEW new \in Seq(Rows), NEW u,
           u.rows = t.rows \o new, \A h \in 1..Len(new) : new[h].owner # c
    PROVE  View(u, c) = View(t, c)
<1>0. PICK m \in Nat, n \in Nat : m = Len(t.rows) /\ n = Len(new)
  <2>1. Len(t.rows) \in Nat /\ Len(new) \in Nat
    BY StoreParts
  <2> QED
    BY <2>1
<1>1. /\ \A i \in 1..m : i \in Places(u, c) <=> i \in Places(t, c)
      /\ \A h \in 1..n : m + h \notin Places(u, c)
      /\ Places(u, c) \subseteq 1..(m + n)
      /\ Places(t, c) \subseteq 1..m
  <2>0. /\ \A i \in 1..Len(t.rows) : i \in Places(u, c) <=> i \in Places(t, c)
        /\ \A h \in 1..Len(new) : Len(t.rows) + h \in Places(u, c) <=> new[h].owner = c
        /\ Places(u, c) \subseteq 1..(Len(t.rows) + Len(new))
        /\ Places(t, c) \subseteq 1..Len(t.rows)
    BY PlacesJoin
  <2>1. /\ \A i \in 1..m : i \in Places(u, c) <=> i \in Places(t, c)
        /\ \A h \in 1..n : m + h \in Places(u, c) <=> new[h].owner = c
        /\ Places(u, c) \subseteq 1..(m + n)
        /\ Places(t, c) \subseteq 1..m
    BY <1>0, <2>0
  <2>2. \A h \in 1..n : new[h].owner # c
    BY <1>0
  <2> QED
    BY <2>1, <2>2
<1>2. \A i \in 1..(m + n) : i \in 1..m \/ \E h \in 1..n : i = m + h
  BY AfterIs
<1>3. Places(u, c) = Places(t, c)
  BY <1>1, <1>2
<1>4. t.rows \in Seq(Rows) /\ DOMAIN t.rows = 1..m
  BY <1>0, StoreParts
<1>5. u.rows \in Seq(Rows) /\ DOMAIN u.rows = 1..(m + n) /\ \A i \in 1..m : u.rows[i] = t.rows[i]
  BY <1>0, <1>4, Concat
<1>6. Places(t, c) \subseteq DOMAIN u.rows
  BY <1>1, <1>5
<1>7. \A i \in Places(t, c) : t.rows[i] = u.rows[i]
  BY <1>1, <1>5
<1>9. t.rows \in Seq(Rows) /\ u.rows \in Seq(Rows) /\ Places(t, c) \subseteq DOMAIN t.rows
  BY <1>1, <1>4, <1>5
<1>8. Picked(t.rows, Places(t, c)) = Picked(u.rows, Places(t, c))
  BY <1>6, <1>7, <1>9, PickedSame
<1> QED
  BY <1>3, <1>8 DEF View

-----------------------------------------------------------------------------
(* The rows of a table, as a set. *)

LEMMA ToSetIn ==
    ASSUME NEW S, NEW t \in Seq(S)
    PROVE  ToSet(t) \subseteq S /\ \A i \in 1..Len(t) : t[i] \in ToSet(t)
BY DEF ToSet

LEMMA ToSetConcat ==
    ASSUME NEW S, NEW a \in Seq(S), NEW b \in Seq(S)
    PROVE  ToSet(a \o b) = ToSet(a) \cup ToSet(b)
<1>a. PICK m \in Nat, n \in Nat : m = Len(a) /\ n = Len(b)
  OBVIOUS
<1>b. PICK ab : ab = a \o b
  OBVIOUS
<1>0. m = Len(a) /\ n = Len(b) /\ ab = a \o b
  BY <1>a, <1>b
<1>1. /\ DOMAIN ab = 1..(m + n) /\ DOMAIN a = 1..m /\ DOMAIN b = 1..n
      /\ \A i \in 1..m : ab[i] = a[i]
      /\ \A h \in 1..n : ab[m + h] = b[h]
  BY <1>0, Concat
<1>2. /\ \A h \in 1..n : m + h \in 1..(m + n)
      /\ \A i \in 1..m : i \in 1..(m + n)
      /\ \A i \in 1..(m + n) : i \in 1..m \/ \E h \in 1..n : i = m + h
  BY AfterIs
<1>3. ASSUME NEW i \in 1..(m + n) PROVE ab[i] \in ToSet(a) \cup ToSet(b)
  <2>1. CASE i \in 1..m
    BY <1>1, <2>1 DEF ToSet
  <2>2. ASSUME NEW h \in 1..n, i = m + h PROVE ab[i] \in ToSet(b)
    <3>1. ab[i] = b[h] /\ h \in DOMAIN b
      BY <1>1, <2>2
    <3> QED
      BY <3>1 DEF ToSet
  <2> QED
    BY <1>2, <2>1, <2>2
<1>4. ASSUME NEW i \in 1..m PROVE a[i] \in ToSet(ab)
  BY <1>1, <1>2 DEF ToSet
<1>5. ASSUME NEW h \in 1..n PROVE b[h] \in ToSet(ab)
  <2>1. m + h \in DOMAIN ab /\ ab[m + h] = b[h]
    BY <1>1, <1>2
  <2> QED
    BY <2>1 DEF ToSet
<1>6. ToSet(ab) \subseteq ToSet(a) \cup ToSet(b)
  BY <1>1, <1>3 DEF ToSet
<1>7. ToSet(a) \subseteq ToSet(ab) /\ ToSet(b) \subseteq ToSet(ab)
  BY <1>1, <1>4, <1>5 DEF ToSet
<1> QED
  BY <1>0, <1>6, <1>7

LEMMA ToSetPicked ==
    ASSUME NEW S, NEW t \in Seq(S), NEW here, here \subseteq DOMAIN t
    PROVE  ToSet(Picked(t, here)) = {t[i] : i \in here}
<1> DEFINE q == Picked(t, here)
<1>1. \A k \in DOMAIN q : \E i \in here : q[k] = t[i]
  BY PickedHas
<1>2. \A i \in here : \E k \in DOMAIN q : q[k] = t[i]
  BY PickedHas
<1> HIDE DEF q
<1>3. ToSet(q) = {q[k] : k \in DOMAIN q}
  BY DEF ToSet
<1> QED
  BY <1>1, <1>2, <1>3 DEF q

LEMMA OneRow ==
    ASSUME NEW S, NEW e \in S
    PROVE  <<e>> \in Seq(S) /\ Len(<<e>>) = 1 /\ DOMAIN <<e>> = {1} /\ <<e>>[1] = e /\ ToSet(<<e>>) = {e}
<1>1. <<e>> \in Seq(S) /\ Len(<<e>>) = 1 /\ DOMAIN <<e>> = {1} /\ <<e>>[1] = e
  OBVIOUS
<1> QED
  BY <1>1 DEF ToSet

(* A row put at a place of the table.                                        *)
LEMMA InsertIs ==
    ASSUME NEW S, NEW t \in Seq(S), NEW p \in 1..(Len(t) + 1), NEW e \in S
    PROVE  /\ InsertAt(t, p, e) \in Seq(S) /\ Len(InsertAt(t, p, e)) = Len(t) + 1
           /\ DOMAIN InsertAt(t, p, e) = 1..(Len(t) + 1)
           /\ InsertAt(t, p, e)[p] = e
           /\ \A i \in 1..Len(t) : i < p => InsertAt(t, p, e)[i] = t[i]
           /\ \A i \in 1..Len(t) : i >= p => InsertAt(t, p, e)[i + 1] = t[i]
<1>a. PICK n \in Nat : n = Len(t)
  OBVIOUS
<1>b. PICK a : a = SubSeq(t, 1, p - 1)
  OBVIOUS
<1>c. PICK b : b = SubSeq(t, p, Len(t))
  OBVIOUS
<1>0. n = Len(t) /\ a = SubSeq(t, 1, p - 1) /\ b = SubSeq(t, p, Len(t))
  BY <1>a, <1>b, <1>c
<1>1. p \in Int /\ p - 1 \in Int /\ n \in Int /\ p - 1 \in Nat /\ n - p + 1 \in Nat /\ p - 1 <= n
  BY <1>0
<1>2. a \in Seq(S) /\ Len(a) = p - 1 /\ \A i \in 1..(p - 1) : a[i] = t[i]
  BY <1>0
<1>3. b \in Seq(S) /\ Len(b) = n - p + 1 /\ \A i \in 1..(n - p + 1) : b[i] = t[i + p - 1]
  BY <1>0
<1>4. PICK c : c = a \o <<e>>
  OBVIOUS
<1>5. c \in Seq(S) /\ Len(c) = p /\ c[p] = e /\ \A i \in 1..(p - 1) : c[i] = t[i]
  BY <1>2, <1>4
<1>6. PICK d : d = c \o b
  OBVIOUS
<1>7. d = InsertAt(t, p, e)
  BY <1>0, <1>4, <1>6 DEF InsertAt
<1>8. d \in Seq(S) /\ Len(d) = n + 1 /\ DOMAIN d = 1..(n + 1)
  <2>1. d \in Seq(S) /\ Len(d) = p + (n - p + 1)
    <3>1. d \in Seq(S) /\ Len(d) = Len(c) + Len(b)
      BY <1>3, <1>5, <1>6, ConcatProperties
    <3> QED
      BY <1>3, <1>5, <3>1
  <2>2. Len(d) = n + 1
    BY <1>1, <2>1
  <2> QED
    BY <2>1, <2>2
<1>9. \A i \in 1..p : d[i] = c[i]
  BY <1>3, <1>5, <1>6
<1>10. \A i \in 1..(n - p + 1) : d[p + i] = b[i]
  BY <1>3, <1>5, <1>6, Concat
<1>11. d[p] = e
  BY <1>5, <1>9
<1>12. ASSUME NEW i \in 1..n, i < p PROVE d[i] = t[i]
  BY <1>5, <1>9, <1>12
<1>13. ASSUME NEW i \in 1..n, i >= p PROVE d[i + 1] = t[i]
  <2> DEFINE h == i - p + 1
  <2>1. h \in 1..(n - p + 1) /\ p + h = i + 1 /\ h + p - 1 = i
    BY <1>13
  <2> HIDE DEF h
  <2>2. d[p + h] = b[h] /\ b[h] = t[h + p - 1]
    BY <1>3, <1>10, <2>1
  <2> QED
    BY <2>1, <2>2
<1> QED
  BY <1>0, <1>7, <1>8, <1>11, <1>12, <1>13

LEMMA InsertSet ==
    ASSUME NEW S, NEW t \in Seq(S), NEW p \in 1..(Len(t) + 1), NEW e \in S
    PROVE  ToSet(InsertAt(t, p, e)) = ToSet(t) \cup {e}
<1>a. PICK n \in Nat : n = Len(t)
  OBVIOUS
<1>b. PICK d : d = InsertAt(t, p, e)
  OBVIOUS
<1>0. n = Len(t) /\ d = InsertAt(t, p, e)
  BY <1>a, <1>b
<1>1. /\ DOMAIN d = 1..(n + 1) /\ d[p] = e /\ DOMAIN t = 1..n
      /\ \A i \in 1..n : i < p => d[i] = t[i]
      /\ \A i \in 1..n : i >= p => d[i + 1] = t[i]
  <2>1. /\ DOMAIN InsertAt(t, p, e) = 1..(Len(t) + 1)
        /\ InsertAt(t, p, e)[p] = e
        /\ \A i \in 1..Len(t) : i < p => InsertAt(t, p, e)[i] = t[i]
        /\ \A i \in 1..Len(t) : i >= p => InsertAt(t, p, e)[i + 1] = t[i]
    BY InsertIs
  <2>2. DOMAIN t = 1..Len(t)
    OBVIOUS
  <2> QED
    BY <1>0, <2>1, <2>2
<1>2. ASSUME NEW i \in 1..(n + 1) PROVE d[i] \in ToSet(t) \cup {e}
  <2>1. CASE i < p
    <3>1. i \in 1..n
      BY <1>0, <2>1
    <3> QED
      BY <1>1, <2>1, <3>1 DEF ToSet
  <2>2. CASE i = p
    BY <1>1, <2>2
  <2>3. CASE i > p
    <3> DEFINE h == i - 1
    <3>1. h \in 1..n /\ h >= p /\ h + 1 = i
      BY <2>3
    <3> HIDE DEF h
    <3>2. d[i] = t[h]
      BY <1>1, <3>1
    <3> QED
      BY <1>1, <3>1, <3>2 DEF ToSet
  <2> QED
    BY <2>1, <2>2, <2>3
<1>3. ASSUME NEW i \in 1..n PROVE t[i] \in ToSet(d)
  <2>1. CASE i < p
    <3>1. i \in DOMAIN d /\ d[i] = t[i]
      BY <1>1, <2>1
    <3> QED
      BY <3>1 DEF ToSet
  <2>2. CASE i >= p
    <3>1. i + 1 \in DOMAIN d /\ d[i + 1] = t[i]
      BY <1>1, <2>2
    <3> QED
      BY <3>1 DEF ToSet
  <2> QED
    BY <2>1, <2>2
<1>4. e \in ToSet(d)
  <2>1. p \in DOMAIN d
    BY <1>0, <1>1
  <2> QED
    BY <1>1, <2>1 DEF ToSet
<1>5. ToSet(d) \subseteq ToSet(t) \cup {e}
  BY <1>1, <1>2 DEF ToSet
<1>6. ToSet(t) \subseteq ToSet(d)
  BY <1>1, <1>3 DEF ToSet
<1> QED
  BY <1>0, <1>4, <1>5, <1>6

LEMMA InsertDistinct ==
    ASSUME NEW t \in Seq(Rows), NEW p \in 1..(Len(t) + 1), NEW e \in Rows, Distinct(t),
           \A row \in ToSet(t) : row.id # e.id
    PROVE  Distinct(InsertAt(t, p, e))
<1>a. PICK n \in Nat : n = Len(t)
  OBVIOUS
<1>b. PICK d : d = InsertAt(t, p, e)
  OBVIOUS
<1>0. n = Len(t) /\ d = InsertAt(t, p, e)
  BY <1>a, <1>b
<1>1. /\ DOMAIN d = 1..(n + 1) /\ d[p] = e /\ DOMAIN t = 1..n
      /\ \A i \in 1..n : i < p => d[i] = t[i]
      /\ \A i \in 1..n : i >= p => d[i + 1] = t[i]
  <2>1. /\ DOMAIN InsertAt(t, p, e) = 1..(Len(t) + 1)
        /\ InsertAt(t, p, e)[p] = e
        /\ \A i \in 1..Len(t) : i < p => InsertAt(t, p, e)[i] = t[i]
        /\ \A i \in 1..Len(t) : i >= p => InsertAt(t, p, e)[i + 1] = t[i]
    BY InsertIs
  <2>2. DOMAIN t = 1..Len(t)
    OBVIOUS
  <2> QED
    BY <1>0, <2>1, <2>2
<1> DEFINE Old(i) == IF i < p THEN i ELSE i - 1
<1>2. ASSUME NEW i \in 1..(n + 1), i # p
      PROVE  Old(i) \in 1..n /\ d[i] = t[Old(i)]
  <2>1. CASE i < p
    BY <1>0, <1>1, <2>1
  <2>2. CASE i > p
    <3> DEFINE h == i - 1
    <3>1. h \in 1..n /\ h >= p /\ h + 1 = i
      BY <2>2
    <3> HIDE DEF h
    <3>2. d[i] = t[h]
      BY <1>1, <3>1
    <3>3. Old(i) = h
      BY <2>2 DEF h
    <3> QED
      BY <3>1, <3>2, <3>3
  <2> QED
    BY <1>2, <2>1, <2>2
<1>3. \A i, j \in 1..(n + 1) : i # p /\ j # p /\ Old(i) = Old(j) => i = j
  OBVIOUS
<1> HIDE DEF Old
<1>4. ASSUME NEW i \in 1..(n + 1), i # p PROVE d[i].id # e.id
  BY <1>1, <1>2, <1>4 DEF ToSet
<1> SUFFICES ASSUME NEW i \in 1..(n + 1), NEW j \in 1..(n + 1), d[i].id = d[j].id PROVE i = j
  BY <1>0, <1>1 DEF Distinct
<1>5. CASE i = p \/ j = p
  BY <1>1, <1>4, <1>5
<1>6. CASE i # p /\ j # p
  <2>1. Old(i) \in 1..n /\ Old(j) \in 1..n /\ d[i] = t[Old(i)] /\ d[j] = t[Old(j)]
    BY <1>2, <1>6
  <2>2. Old(i) = Old(j)
    BY <1>1, <2>1 DEF Distinct
  <2> QED
    BY <1>3, <1>6, <2>2
<1> QED
  BY <1>5, <1>6

LEMMA ConcatDistinct ==
    ASSUME NEW a \in Seq(Rows), NEW b \in Seq(Rows), Distinct(a), Distinct(b),
           \A v \in ToSet(a), w \in ToSet(b) : v.id # w.id
    PROVE  a \o b \in Seq(Rows) /\ Distinct(a \o b) /\ ToSet(a \o b) = ToSet(a) \cup ToSet(b)
<1>1. \A i \in DOMAIN a, j \in DOMAIN b : a[i].id # b[j].id
  BY DEF ToSet
<1> QED
  BY <1>1, JoinDistinct, ToSetConcat

(* The rows of a store, of a context, and their names.                        *)
LEMMA RowsIn ==
    ASSUME NEW t, StoreOK(t)
    PROVE  /\ ToSet(t.rows) \subseteq Rows
           /\ Ids(t) = {row.id : row \in ToSet(t.rows)}
           /\ \A v, w \in ToSet(t.rows) : v.id = w.id => v = w
<1>1. t.rows \in Seq(Rows) /\ Distinct(t.rows)
  BY StoreParts
<1>2. ToSet(t.rows) \subseteq Rows
  BY <1>1, ToSetIn
<1>3. Ids(t) = {row.id : row \in ToSet(t.rows)}
  BY DEF Ids, ToSet
<1>4. \A v, w \in ToSet(t.rows) : v.id = w.id => v = w
  BY <1>1 DEF ToSet, Distinct
<1> QED
  BY <1>2, <1>3, <1>4

LEMMA ViewSet ==
    ASSUME NEW t, StoreOK(t), NEW c
    PROVE  ToSet(View(t, c)) = {row \in ToSet(t.rows) : row.owner = c}
<1>1. t.rows \in Seq(Rows) /\ Places(t, c) \subseteq DOMAIN t.rows
  BY StoreParts, PlacesIn
<1>2. ToSet(View(t, c)) = {t.rows[i] : i \in Places(t, c)}
  BY <1>1, ToSetPicked DEF View
<1> QED
  BY <1>2 DEF Places, ToSet

-----------------------------------------------------------------------------
(* Rows of the right kind. *)

LEMMA TextIs ==
    ASSUME NEW from \in {"seed", "other", "late", "forged"}, NEW n \in Nat
    PROVE  /\ Text(from, n) \in Texts
           /\ Text(from, n).from = from /\ Text(from, n).n = n /\ Text(from, n).tampered = 0
BY DEF Text, Texts

LEMMA RowIs ==
    ASSUME NEW c \in Contexts, NEW k \in Nat, NEW text \in Texts
    PROVE  /\ Row(c, k, text) \in Rows
           /\ Row(c, k, text).id = <<c, k>> /\ Row(c, k, text).owner = c
           /\ Row(c, k, text).text = text /\ Row(c, k, text).meta = [ts |-> k, marked |-> FALSE]
           /\ Row(c, k, text).seal = <<>>
<1>1. <<>> \in Seq(Saids)
  OBVIOUS
<1>2. [ts |-> k, marked |-> FALSE] \in Metas
  BY DEF Metas
<1> QED
  BY <1>1, <1>2 DEF Row, Rows

LEMMA SealedIs ==
    ASSUME NEW row \in Rows, NEW seal \in Seq(Saids)
    PROVE  /\ [row EXCEPT !.seal = seal] \in Rows
           /\ [row EXCEPT !.seal = seal].id = row.id /\ [row EXCEPT !.seal = seal].owner = row.owner
           /\ [row EXCEPT !.seal = seal].text = row.text /\ [row EXCEPT !.seal = seal].meta = row.meta
           /\ [row EXCEPT !.seal = seal].seal = seal
           /\ Said([row EXCEPT !.seal = seal]) = Said(row)
BY DEF Rows, Said

LEMMA TakenIs ==
    ASSUME NEW old \in Rows, NEW row \in Rows, NEW fields
    PROVE  /\ Taken(old, row, fields) \in Rows
           /\ Taken(old, row, fields).id = old.id /\ Taken(old, row, fields).owner = old.owner
           /\ Taken(old, row, fields).text = IF "text" \in fields THEN row.text ELSE old.text
           /\ Taken(old, row, fields).meta = IF "meta" \in fields THEN row.meta ELSE old.meta
           /\ Taken(old, row, fields).seal = IF "seal" \in fields THEN row.seal ELSE old.seal
<1>1. PICK text, meta, seal :
         /\ text = IF "text" \in fields THEN row.text ELSE old.text
         /\ meta = IF "meta" \in fields THEN row.meta ELSE old.meta
         /\ seal = IF "seal" \in fields THEN row.seal ELSE old.seal
  OBVIOUS
<1>2. Taken(old, row, fields) = [old EXCEPT !.text = text, !.meta = meta, !.seal = seal]
  BY <1>1 DEF Taken, Rows
<1>3. text \in Texts /\ meta \in Metas /\ seal \in Seq(Saids)
  BY <1>1, RowParts
<1>4. [old EXCEPT !.text = text, !.meta = meta, !.seal = seal] \in Rows
  BY <1>3 DEF Rows
<1>5. /\ [old EXCEPT !.text = text, !.meta = meta, !.seal = seal].id = old.id
      /\ [old EXCEPT !.text = text, !.meta = meta, !.seal = seal].owner = old.owner
      /\ [old EXCEPT !.text = text, !.meta = meta, !.seal = seal].text = text
      /\ [old EXCEPT !.text = text, !.meta = meta, !.seal = seal].meta = meta
      /\ [old EXCEPT !.text = text, !.meta = meta, !.seal = seal].seal = seal
  BY DEF Rows
<1> QED
  BY <1>1, <1>2, <1>4, <1>5

LEMMA MutatedIs ==
    ASSUME NEW p, NEW row \in Rows
    PROVE  /\ MutatedRow(p, row) \in Rows
           /\ MutatedRow(p, row).id = row.id /\ MutatedRow(p, row).owner = row.owner
           /\ MutatedRow(p, row).meta = row.meta /\ MutatedRow(p, row).seal = row.seal
<1>1. row.text \in Texts
  BY RowParts
<1>2. [row.text EXCEPT !.tampered = @ + 1] \in Texts
  BY <1>1 DEF Texts
<1>3. PICK text \in Texts : text = [row.text EXCEPT !.tampered = @ + 1]
  BY <1>2
<1>4. [row EXCEPT !.text.tampered = @ + 1] = [row EXCEPT !.text = text]
  BY <1>1, <1>3 DEF Rows, Texts
<1>5. MutatedRow(p, row) = row \/ MutatedRow(p, row) = [row EXCEPT !.text = text]
  BY <1>4 DEF MutatedRow
<1>6. /\ [row EXCEPT !.text = text] \in Rows
      /\ [row EXCEPT !.text = text].id = row.id /\ [row EXCEPT !.text = text].owner = row.owner
      /\ [row EXCEPT !.text = text].meta = row.meta /\ [row EXCEPT !.text = text].seal = row.seal
  BY DEF Rows
<1> QED
  BY <1>5, <1>6

LEMMA RenamedIs ==
    ASSUME NEW row \in Rows, NEW id \in Ids_
    PROVE  /\ [row EXCEPT !.id = id] \in Rows
           /\ [row EXCEPT !.id = id].id = id /\ [row EXCEPT !.id = id].owner = row.owner
           /\ [row EXCEPT !.id = id].seal = row.seal /\ [row EXCEPT !.id = id].text = row.text
           /\ [row EXCEPT !.id = id].meta = row.meta
BY DEF Rows, Ids_

LEMMA ForgedIs ==
    ASSUME NEW p, NEW t, StoreOK(t), NEW row \in Rows
    PROVE  /\ ForgedRow(p, t, row) \in Rows
           /\ ForgedRow(p, t, row).owner = row.owner /\ ForgedRow(p, t, row).seal = row.seal
           /\ ForgedRow(p, t, row).meta = row.meta
           /\ ForgedRow(p, t, row).id =
                 IF p.forges = "its_own_name" THEN ForgedId ELSE <<CTX, t.next[CTX]>>
<1>1. PICK r : r = IF p.forges = "mutated" THEN MutatedRow(p, row)
                   ELSE [row EXCEPT !.text = Text("forged", 0)]
  OBVIOUS
<1>2. Text("forged", 0) \in Texts
  BY TextIs
<1>3. /\ [row EXCEPT !.text = Text("forged", 0)] \in Rows
      /\ [row EXCEPT !.text = Text("forged", 0)].owner = row.owner
      /\ [row EXCEPT !.text = Text("forged", 0)].seal = row.seal
      /\ [row EXCEPT !.text = Text("forged", 0)].meta = row.meta
  BY <1>2 DEF Rows
<1>4. r \in Rows /\ r.owner = row.owner /\ r.seal = row.seal /\ r.meta = row.meta
  BY <1>1, <1>3, MutatedIs
<1>5. PICK id : id = IF p.forges = "its_own_name" THEN ForgedId ELSE <<CTX, t.next[CTX]>>
  OBVIOUS
<1>6. id \in Ids_
  <2>1. t.next[CTX] \in Nat
    BY ContextsAre, StoreParts
  <2> QED
    BY <1>5, <2>1, ContextsAre DEF Ids_, ForgedId
<1>7. ForgedRow(p, t, row) = [r EXCEPT !.id = id]
  BY <1>1, <1>5 DEF ForgedRow
<1> QED
  BY <1>4, <1>5, <1>6, <1>7, RenamedIs

LEMMA ChainFromIs ==
    ASSUME NEW rows \in Seq(Rows), NEW new \in Seq(Rows)
    PROVE  /\ HeadOf(rows) \in Seq(Saids)
           /\ ChainFrom(rows, new) \in Seq(Rows) /\ Len(ChainFrom(rows, new)) = Len(new)
           /\ DOMAIN ChainFrom(rows, new) = 1..Len(new)
           /\ \A k \in 1..Len(new) :
                 /\ ChainFrom(rows, new)[k].id = new[k].id
                 /\ ChainFrom(rows, new)[k].owner = new[k].owner
                 /\ Said(ChainFrom(rows, new)[k]) = Said(new[k])
                 /\ ChainFrom(rows, new)[k].text = new[k].text
                 /\ ChainFrom(rows, new)[k].meta = new[k].meta
                 /\ ChainFrom(rows, new)[k].seal = HeadOf(rows) \o Told(SubSeq(new, 1, k))
<1>1. HeadOf(rows) \in Seq(Saids)
  <2>1. CASE rows = <<>>
    BY <2>1 DEF HeadOf
  <2>2. CASE rows # <<>>
    <3>1. Last(rows) \in Rows
      BY <2>2 DEF Last
    <3> QED
      BY <2>2, <3>1, RowParts DEF HeadOf
  <2> QED
    BY <2>1, <2>2
<1>2. ASSUME NEW k \in 1..Len(new) PROVE HeadOf(rows) \o Told(SubSeq(new, 1, k)) \in Seq(Saids)
  <2>1. SubSeq(new, 1, k) \in Seq(Rows)
    BY SubSeqProperties
  <2>2. Told(SubSeq(new, 1, k)) \in Seq(Saids)
    BY <2>1, ToldIs
  <2> QED
    BY <1>1, <2>2
<1>3. PICK q : q = ChainFrom(rows, new)
  OBVIOUS
<1>4. q = [k \in 1..Len(new) |-> [new[k] EXCEPT !.seal = HeadOf(rows) \o Told(SubSeq(new, 1, k))]]
  BY <1>3, DomainIs DEF ChainFrom
<1>5. ASSUME NEW k \in 1..Len(new)
      PROVE  /\ q[k] \in Rows /\ q[k].id = new[k].id /\ q[k].owner = new[k].owner
             /\ Said(q[k]) = Said(new[k]) /\ q[k].text = new[k].text /\ q[k].meta = new[k].meta
             /\ q[k].seal = HeadOf(rows) \o Told(SubSeq(new, 1, k))
  <2>1. PICK seal \in Seq(Saids) : seal = HeadOf(rows) \o Told(SubSeq(new, 1, k))
    BY <1>2
  <2>2. new[k] \in Rows
    OBVIOUS
  <2>3. q[k] = [new[k] EXCEPT !.seal = seal]
    BY <1>4, <2>1
  <2>4. PICK row \in Rows : row = new[k]
    BY <2>2
  <2>5. q[k] = [row EXCEPT !.seal = seal]
    BY <2>3, <2>4
  <2>6. /\ q[k] \in Rows /\ q[k].id = row.id /\ q[k].owner = row.owner
        /\ Said(q[k]) = Said(row) /\ q[k].text = row.text /\ q[k].meta = row.meta
        /\ q[k].seal = seal
    BY <2>5, SealedIs
  <2> QED
    BY <2>1, <2>4, <2>6
<1>6. q \in Seq(Rows) /\ Len(q) = Len(new) /\ DOMAIN q = 1..Len(new)
  <2>1. \A k \in 1..Len(new) : q[k] \in Rows
    BY <1>5
  <2>2. PICK n \in Nat : n = Len(new)
    OBVIOUS
  <2>3. DOMAIN q = 1..n /\ q = [k \in 1..n |-> q[k]]
    BY <1>4, <2>2
  <2> QED
    BY <2>1, <2>2, <2>3
<1> QED
  BY <1>1, <1>3, <1>5, <1>6

-----------------------------------------------------------------------------
(* Steps that leave a store in order. *)

LEMMA SameRows ==
    ASSUME NEW t, StoreOK(t), NEW u, DOMAIN u = Fields, u.rows = t.rows, u.next = t.next
    PROVE  StoreOK(u) /\ \A c : View(u, c) = View(t, c)
BY DEF StoreOK, Fields, View, Places

LEMMA Bookkept ==
    ASSUME NEW t, StoreOK(t), NEW x
    PROVE  /\ DOMAIN [t EXCEPT !.book = x] = Fields /\ [t EXCEPT !.book = x].rows = t.rows
           /\ [t EXCEPT !.book = x].next = t.next /\ [t EXCEPT !.book = x].memory = t.memory
           /\ [t EXCEPT !.book = x].book = x /\ [t EXCEPT !.book = x].held = t.held
           /\ DOMAIN [t EXCEPT !.held = x] = Fields /\ [t EXCEPT !.held = x].rows = t.rows
           /\ [t EXCEPT !.held = x].next = t.next /\ [t EXCEPT !.held = x].memory = t.memory
           /\ [t EXCEPT !.held = x].book = t.book /\ [t EXCEPT !.held = x].held = x
           /\ DOMAIN [t EXCEPT !.memory = x] = Fields /\ [t EXCEPT !.memory = x].rows = t.rows
           /\ [t EXCEPT !.memory = x].next = t.next /\ [t EXCEPT !.memory = x].memory = x
           /\ [t EXCEPT !.memory = x].book = t.book /\ [t EXCEPT !.memory = x].held = t.held
BY DEF StoreOK, Fields

(* One row replaced by another of the same name.                             *)
Swap(t, i, row) == [t EXCEPT !.rows[i] = row]
LEMMA SwapIs ==
    ASSUME NEW t, StoreOK(t), NEW i \in 1..Len(t.rows), NEW row \in Rows, row.id = t.rows[i].id
    PROVE  /\ StoreOK(Swap(t, i, row)) /\ DOMAIN Swap(t, i, row) = Fields
           /\ Len(Swap(t, i, row).rows) = Len(t.rows)
           /\ Swap(t, i, row).rows[i] = row
           /\ \A j \in 1..Len(t.rows) : j # i => Swap(t, i, row).rows[j] = t.rows[j]
           /\ Swap(t, i, row).next = t.next /\ Swap(t, i, row).book = t.book
           /\ Swap(t, i, row).held = t.held /\ Swap(t, i, row).memory = t.memory
<1>1. /\ DOMAIN t = Fields /\ t.rows \in Seq(Rows) /\ t.next \in [Contexts -> Nat]
      /\ Distinct(t.rows)
  BY StoreParts
<1>2. PICK u : u = Swap(t, i, row)
  OBVIOUS
<1>3. /\ DOMAIN u = Fields /\ u.rows = [t.rows EXCEPT ![i] = row] /\ u.next = t.next
      /\ u.book = t.book /\ u.held = t.held /\ u.memory = t.memory
  BY <1>1, <1>2 DEF Swap, Fields
<1>4. /\ u.rows \in Seq(Rows) /\ Len(u.rows) = Len(t.rows) /\ u.rows[i] = row
      /\ \A j \in 1..Len(t.rows) : j # i => u.rows[j] = t.rows[j]
  BY <1>1, <1>3, ExceptSeq
<1>5. \A j \in 1..Len(t.rows) : u.rows[j].id = t.rows[j].id
  BY <1>4
<1>6. DOMAIN u.rows = 1..Len(t.rows) /\ DOMAIN t.rows = 1..Len(t.rows)
  BY <1>1, <1>4
<1>7. Distinct(u.rows)
  BY <1>1, <1>5, <1>6 DEF Distinct
<1>8. StoreOK(u)
  BY <1>1, <1>3, <1>4, <1>7 DEF StoreOK, Distinct, Fields
<1> QED
  BY <1>2, <1>3, <1>4, <1>8

LEMMA SwapSet ==
    ASSUME NEW t, StoreOK(t), NEW i \in 1..Len(t.rows), NEW row \in Rows, row.id = t.rows[i].id
    PROVE  /\ ToSet(Swap(t, i, row).rows) = (ToSet(t.rows) \ {t.rows[i]}) \cup {row}
           /\ t.rows[i] \in ToSet(t.rows)
           /\ Ids(Swap(t, i, row)) = Ids(t)
<1>1. t.rows \in Seq(Rows) /\ DOMAIN t.rows = 1..Len(t.rows) /\ Distinct(t.rows)
  BY StoreParts
<1>2. PICK u : u = Swap(t, i, row)
  OBVIOUS
<1>3. /\ StoreOK(u) /\ Len(u.rows) = Len(t.rows) /\ u.rows[i] = row
      /\ \A j \in 1..Len(t.rows) : j # i => u.rows[j] = t.rows[j]
  BY <1>2, SwapIs
<1>4. DOMAIN u.rows = 1..Len(t.rows)
  BY <1>3, StoreParts
<1>5. \A j \in 1..Len(t.rows) : j # i => t.rows[j] # t.rows[i]
  BY <1>1 DEF Distinct
<1>6. ToSet(u.rows) = (ToSet(t.rows) \ {t.rows[i]}) \cup {row}
  BY <1>1, <1>3, <1>4, <1>5 DEF ToSet
<1>7. \A j \in 1..Len(t.rows) : u.rows[j].id = t.rows[j].id
  BY <1>3
<1>8. Ids(u) = Ids(t)
  BY <1>1, <1>4, <1>7 DEF Ids
<1> QED
  BY <1>1, <1>2, <1>6, <1>8 DEF ToSet

LEMMA PlaceIs ==
    ASSUME NEW t, StoreOK(t), NEW id \in Ids(t)
    PROVE  PlaceOf(t, id) \in 1..Len(t.rows) /\ t.rows[PlaceOf(t, id)].id = id
<1>1. \E i \in DOMAIN t.rows : t.rows[i].id = id
  BY DEF Ids
<1>2. PlaceOf(t, id) \in DOMAIN t.rows /\ t.rows[PlaceOf(t, id)].id = id
  BY <1>1 DEF PlaceOf
<1> QED
  BY <1>2, StoreParts

(* An edit of one row: nothing, or the row of that name gets some fields.      *)
LEMMA OverwriteIs ==
    ASSUME NEW t, StoreOK(t), NEW id, NEW row, NEW fields
    PROVE  \/ id \notin Ids(t) /\ Overwrite(t, id, row, fields) = t
           \/ \E i \in 1..Len(t.rows) :
                 /\ t.rows[i].id = id
                 /\ Overwrite(t, id, row, fields) = Swap(t, i, Taken(t.rows[i], row, fields))
<1>1. CASE id \notin Ids(t)
  BY <1>1 DEF Overwrite
<1>2. CASE id \in Ids(t)
  <2>1. PICK i : i = PlaceOf(t, id)
    OBVIOUS
  <2>2. i \in 1..Len(t.rows) /\ t.rows[i].id = id
    BY <1>2, <2>1, PlaceIs
  <2>3. DOMAIN t = Fields /\ i \in DOMAIN t.rows
    BY <2>2, StoreParts
  <2>4. Overwrite(t, id, row, fields) = [t EXCEPT !.rows[i] = Taken(@, row, fields)]
    BY <1>2, <2>1 DEF Overwrite
  <2>5. Overwrite(t, id, row, fields) = Swap(t, i, Taken(t.rows[i], row, fields))
    BY <2>3, <2>4 DEF Swap, Fields
  <2> QED
    BY <2>2, <2>5
<1> QED
  BY <1>1, <1>2

Marked(p, row) ==
    IF p.label = "owner" THEN [row EXCEPT !.owner = OTHER_CTX] ELSE [row EXCEPT !.meta.marked = TRUE]
LEMMA MarkedIs ==
    ASSUME NEW p, NEW row \in Rows
    PROVE  /\ Marked(p, row) \in Rows /\ Marked(p, row).id = row.id
           /\ Marked(p, row).text = row.text /\ Marked(p, row).seal = row.seal
           /\ Marked(p, row).owner = IF p.label = "owner" THEN OTHER_CTX ELSE row.owner
<1>1. row.meta \in Metas
  BY RowParts
<1>2. PICK meta : meta = [row.meta EXCEPT !.marked = TRUE]
  OBVIOUS
<1>3. meta \in Metas
  BY <1>1, <1>2 DEF Metas
<1>4. [row EXCEPT !.meta.marked = TRUE] = [row EXCEPT !.meta = meta]
  BY <1>2 DEF Rows
<1>5. CASE p.label = "owner"
  <2>1. Marked(p, row) = [row EXCEPT !.owner = OTHER_CTX]
    BY <1>5 DEF Marked
  <2> QED
    BY <1>5, <2>1, ContextsAre DEF Rows
<1>6. CASE p.label # "owner"
  <2>1. Marked(p, row) = [row EXCEPT !.meta = meta]
    BY <1>4, <1>6 DEF Marked
  <2> QED
    BY <1>3, <1>6, <2>1 DEF Rows
<1> QED
  BY <1>5, <1>6

LEMMA MarkIs ==
    ASSUME NEW p, NEW t, StoreOK(t), NEW seq
    PROVE  \/ Slot(p, t, "touch", seq) \notin Ids(t) /\ MarkRow(p, t, seq) = t
           \/ \E i \in 1..Len(t.rows) :
                 /\ t.rows[i].id = Slot(p, t, "touch", seq)
                 /\ MarkRow(p, t, seq) = Swap(t, i, Marked(p, t.rows[i]))
<1>0. PICK id : id = Slot(p, t, "touch", seq)
  OBVIOUS
<1>1. CASE id \notin Ids(t)
  BY <1>0, <1>1 DEF MarkRow
<1>2. CASE id \in Ids(t)
  <2>1. PICK i : i = PlaceOf(t, id)
    OBVIOUS
  <2>2. i \in 1..Len(t.rows) /\ t.rows[i].id = id
    BY <1>2, <2>1, PlaceIs
  <2>3. DOMAIN t = Fields /\ i \in DOMAIN t.rows /\ t.rows[i] \in Rows
    BY <2>2, StoreParts
  <2>4. MarkRow(p, t, seq) = IF p.label = "owner" THEN [t EXCEPT !.rows[i].owner = OTHER_CTX]
                             ELSE [t EXCEPT !.rows[i].meta.marked = TRUE]
    BY <1>0, <1>2, <2>1 DEF MarkRow
  <2>5. /\ [t EXCEPT !.rows[i].owner = OTHER_CTX] = Swap(t, i, [t.rows[i] EXCEPT !.owner = OTHER_CTX])
        /\ [t EXCEPT !.rows[i].meta.marked = TRUE] = Swap(t, i, [t.rows[i] EXCEPT !.meta.marked = TRUE])
    BY <2>3 DEF Swap, Fields
  <2>6. MarkRow(p, t, seq) = Swap(t, i, Marked(p, t.rows[i]))
    BY <2>4, <2>5 DEF Marked
  <2> QED
    BY <1>0, <2>2, <2>6
<1> QED
  BY <1>1, <1>2

(* A row deleted.                                                            *)
Kept(t, id) == {i \in DOMAIN t.rows : t.rows[i].id # id}
LEMMA WithoutIs ==
    ASSUME NEW t, StoreOK(t), NEW id
    PROVE  /\ StoreOK(Without(t, id)) /\ DOMAIN Without(t, id) = Fields
           /\ Without(t, id).rows = Picked(t.rows, Kept(t, id)) /\ Kept(t, id) \subseteq DOMAIN t.rows
           /\ Without(t, id).next = t.next /\ Without(t, id).book = t.book
           /\ Without(t, id).held = t.held /\ Without(t, id).memory = t.memory
           /\ ToSet(Without(t, id).rows) = {row \in ToSet(t.rows) : row.id # id}
<1>1. /\ DOMAIN t = Fields /\ t.rows \in Seq(Rows) /\ t.next \in [Contexts -> Nat]
      /\ Distinct(t.rows)
  BY StoreParts
<1>2. PICK u : u = Without(t, id)
  OBVIOUS
<1>3. /\ DOMAIN u = Fields /\ u.rows = Picked(t.rows, Kept(t, id)) /\ u.next = t.next
      /\ u.book = t.book /\ u.held = t.held /\ u.memory = t.memory
  BY <1>1, <1>2 DEF Without, Fields, Kept
<1>4. Kept(t, id) \subseteq DOMAIN t.rows
  BY DEF Kept
<1>5. u.rows \in Seq(Rows) /\ Distinct(u.rows) /\ ToSet(u.rows) = {t.rows[i] : i \in Kept(t, id)}
  BY <1>1, <1>3, <1>4, PickedIs, PickedDistinct, ToSetPicked
<1>6. ToSet(u.rows) = {row \in ToSet(t.rows) : row.id # id}
  BY <1>5 DEF Kept, ToSet
<1>7. StoreOK(u)
  BY <1>1, <1>3, <1>5 DEF StoreOK, Distinct, Fields
<1> QED
  BY <1>2, <1>3, <1>4, <1>6, <1>7

-----------------------------------------------------------------------------
(* The adapters: how each edits its table. *)

Pointing == {"langgraph_redis", "letta"}
Counting == {"crewai", "mem0"}
OwnForges == {"crewai"} \cup ContinuumKinds \cup AtmemKinds
Sealers == {"acrf"} \cup AtelyaKinds \cup ContinuumKinds

LEMMA KindsAre ==
    ASSUME NEW k \in VendorKinds
    PROVE  \/ k \in FrameworkKinds
           \/ k \in {"ledger", "acrf", "agent_memory"}
           \/ k \in InspeximusKinds \/ k \in AtelyaKinds \/ k \in ContinuumKinds
           \/ k \in AtmemKinds \/ k \in BlackboxKinds
BY DEF VendorKinds, EvidenceKinds

LEMMA RawFrameworkIs ==
    ASSUME NEW k \in FrameworkKinds
    PROVE  /\ Raw(k) = RawOf(k)
           /\ k = "langgraph_sqlite" => RawOf(k) = LanggraphSqliteRaw
           /\ k = "langgraph_postgres" => RawOf(k) = LanggraphPostgresRaw
           /\ k = "langgraph_redis" => RawOf(k) = LanggraphRedisRaw
           /\ k = "crewai" => RawOf(k) = CrewaiRaw
           /\ k = "openai_agents" => RawOf(k) = OpenaiAgentsRaw
           /\ k = "llamaindex" => RawOf(k) = LlamaindexRaw
           /\ k = "mem0" => RawOf(k) = Mem0Raw
           /\ k = "letta" => RawOf(k) = LettaRaw
           /\ k = "vertex" => RawOf(k) = VertexRaw
<1>1. Raw(k) = RawOf(k)
  BY DEF Raw, FrameworkKinds, InspeximusKinds, AtelyaKinds, ContinuumKinds, AtmemKinds, BlackboxKinds
<1>2. /\ k = "langgraph_sqlite" => RawOf(k) = LanggraphSqliteRaw
      /\ k = "langgraph_postgres" => RawOf(k) = LanggraphPostgresRaw
      /\ k = "langgraph_redis" => RawOf(k) = LanggraphRedisRaw
      /\ k = "crewai" => RawOf(k) = CrewaiRaw
      /\ k = "openai_agents" => RawOf(k) = OpenaiAgentsRaw
      /\ k = "llamaindex" => RawOf(k) = LlamaindexRaw
      /\ k = "mem0" => RawOf(k) = Mem0Raw
      /\ k = "letta" => RawOf(k) = LettaRaw
      /\ k = "vertex" => RawOf(k) = VertexRaw
  BY DEF RawOf
<1> QED
  BY <1>1, <1>2

LEMMA RawEvidenceIs ==
    ASSUME NEW k
    PROVE  /\ k = "ledger" => Raw(k) = LanggraphSqliteRaw
           /\ k = "acrf" => Raw(k) = AcrfRaw
           /\ k = "agent_memory" => Raw(k) = AgentMemoryRaw
           /\ k \in InspeximusKinds => Raw(k) = InspeximusRaw
           /\ k \in AtelyaKinds => Raw(k) = AtelyaRaw
           /\ k \in ContinuumKinds => Raw(k) = ContinuumRaw
           /\ k \in AtmemKinds => Raw(k) = AtmemRaw
           /\ k \in BlackboxKinds => Raw(k) = BlackboxRaw
<1> USE DEF FrameworkKinds, InspeximusKinds, AtelyaKinds, ContinuumKinds, AtmemKinds, BlackboxKinds
<1>1. k = "ledger" => Raw(k) = LanggraphSqliteRaw
  BY DEF Raw
<1>2. k = "acrf" => Raw(k) = AcrfRaw
  BY DEF Raw
<1>3. k = "agent_memory" => Raw(k) = AgentMemoryRaw
  BY DEF Raw
<1>4. k \in InspeximusKinds => Raw(k) = InspeximusRaw
  BY DEF Raw
<1>5. k \in AtelyaKinds => Raw(k) = AtelyaRaw
  BY DEF Raw
<1>6. k \in ContinuumKinds => Raw(k) = ContinuumRaw
  BY DEF Raw
<1>7. k \in AtmemKinds => Raw(k) = AtmemRaw
  BY DEF Raw
<1>8. k \in BlackboxKinds => Raw(k) = BlackboxRaw
  BY DEF Raw
<1> QED
  BY <1>1, <1>2, <1>3, <1>4, <1>5, <1>6, <1>7, <1>8

(* What the profiles say, field by field.                                    *)
Profile(p, points, label, forges, slots) ==
    p.points = points /\ p.label = label /\ p.forges = forges /\ p.slots = slots

LEMMA FrameworkProfile ==
    ASSUME NEW k \in FrameworkKinds
    PROVE  /\ k = "langgraph_sqlite" => Profile(Raw(k), FALSE, "meta", "mutated", "present")
           /\ k = "langgraph_postgres" => Profile(Raw(k), FALSE, "meta", "mutated", "present")
           /\ k = "langgraph_redis" => Profile(Raw(k), TRUE, "meta", "mutated", "present")
           /\ k = "crewai" => Profile(Raw(k), FALSE, "meta", "its_own_name", "remembered")
           /\ k = "openai_agents" => Profile(Raw(k), FALSE, "meta", "mutated", "present")
           /\ k = "llamaindex" => Profile(Raw(k), FALSE, "meta", "mutated", "present")
           /\ k = "mem0" => Profile(Raw(k), FALSE, "owner", "mutated", "history")
           /\ k = "letta" => Profile(Raw(k), TRUE, "meta", "mutated", "present")
           /\ k = "vertex" => Profile(Raw(k), FALSE, "meta", "a_text_of_its_own", "by_name")
<1>1. ASSUME k = "langgraph_sqlite" PROVE Profile(Raw(k), FALSE, "meta", "mutated", "present")
  <2>1. Raw(k) = LanggraphSqliteRaw
    BY <1>1, RawFrameworkIs
  <2> QED
    BY <2>1 DEF Profile, LanggraphSqliteRaw, RowTable
<1>2. ASSUME k = "langgraph_postgres" PROVE Profile(Raw(k), FALSE, "meta", "mutated", "present")
  <2>1. Raw(k) = LanggraphPostgresRaw
    BY <1>2, RawFrameworkIs
  <2> QED
    BY <2>1 DEF Profile, LanggraphPostgresRaw, RowTable
<1>3. ASSUME k = "langgraph_redis" PROVE Profile(Raw(k), TRUE, "meta", "mutated", "present")
  <2>1. Raw(k) = LanggraphRedisRaw
    BY <1>3, RawFrameworkIs
  <2> QED
    BY <2>1 DEF Profile, LanggraphRedisRaw, RowTable
<1>4. ASSUME k = "crewai" PROVE Profile(Raw(k), FALSE, "meta", "its_own_name", "remembered")
  <2>1. Raw(k) = CrewaiRaw
    BY <1>4, RawFrameworkIs
  <2> QED
    BY <2>1 DEF Profile, CrewaiRaw, RowTable
<1>5. ASSUME k = "openai_agents" PROVE Profile(Raw(k), FALSE, "meta", "mutated", "present")
  <2>1. Raw(k) = OpenaiAgentsRaw
    BY <1>5, RawFrameworkIs
  <2> QED
    BY <2>1 DEF Profile, OpenaiAgentsRaw, RowTable
<1>6. ASSUME k = "llamaindex" PROVE Profile(Raw(k), FALSE, "meta", "mutated", "present")
  <2>1. Raw(k) = LlamaindexRaw
    BY <1>6, RawFrameworkIs
  <2> QED
    BY <2>1 DEF Profile, LlamaindexRaw, RowTable
<1>7. ASSUME k = "mem0" PROVE Profile(Raw(k), FALSE, "owner", "mutated", "history")
  <2>1. Raw(k) = Mem0Raw
    BY <1>7, RawFrameworkIs
  <2> QED
    BY <2>1 DEF Profile, Mem0Raw, RowTable
<1>8. ASSUME k = "letta" PROVE Profile(Raw(k), TRUE, "meta", "mutated", "present")
  <2>1. Raw(k) = LettaRaw
    BY <1>8, RawFrameworkIs
  <2> QED
    BY <2>1 DEF Profile, LettaRaw, RowTable
<1>9. ASSUME k = "vertex" PROVE Profile(Raw(k), FALSE, "meta", "a_text_of_its_own", "by_name")
  <2>1. Raw(k) = VertexRaw
    BY <1>9, RawFrameworkIs
  <2> QED
    BY <2>1 DEF Profile, VertexRaw, RowTable
<1> QED
  BY <1>1, <1>2, <1>3, <1>4, <1>5, <1>6, <1>7, <1>8, <1>9

LEMMA EvidenceProfile ==
    ASSUME NEW k
    PROVE  /\ k = "ledger" => Profile(Raw(k), FALSE, "meta", "mutated", "present")
           /\ k = "acrf" => Profile(Raw(k), FALSE, "meta", "a_text_of_its_own", "present")
           /\ k = "agent_memory" => Profile(Raw(k), FALSE, "meta", "mutated", "present")
           /\ k \in InspeximusKinds => Profile(Raw(k), FALSE, "owner", "mutated", "present")
           /\ k \in AtelyaKinds => Profile(Raw(k), FALSE, "meta", "a_text_of_its_own", "present")
           /\ k \in ContinuumKinds => Profile(Raw(k), FALSE, "meta", "its_own_name", "present")
           /\ k \in AtmemKinds => Profile(Raw(k), FALSE, "meta", "its_own_name", "present")
           /\ k \in BlackboxKinds => Profile(Raw(k), FALSE, "meta", "a_text_of_its_own", "present")
<1>1. ASSUME k = "ledger" PROVE Profile(Raw(k), FALSE, "meta", "mutated", "present")
  <2>1. Raw(k) = LanggraphSqliteRaw
    BY <1>1, RawEvidenceIs
  <2> QED
    BY <2>1 DEF Profile, LanggraphSqliteRaw, RowTable
<1>2. ASSUME k = "acrf" PROVE Profile(Raw(k), FALSE, "meta", "a_text_of_its_own", "present")
  <2>1. Raw(k) = AcrfRaw
    BY <1>2, RawEvidenceIs
  <2> QED
    BY <2>1 DEF Profile, AcrfRaw, RowTable
<1>3. ASSUME k = "agent_memory" PROVE Profile(Raw(k), FALSE, "meta", "mutated", "present")
  <2>1. Raw(k) = AgentMemoryRaw
    BY <1>3, RawEvidenceIs
  <2> QED
    BY <2>1 DEF Profile, AgentMemoryRaw, RowTable
<1>4. ASSUME k \in InspeximusKinds PROVE Profile(Raw(k), FALSE, "owner", "mutated", "present")
  <2>1. Raw(k) = InspeximusRaw
    BY <1>4, RawEvidenceIs
  <2> QED
    BY <2>1 DEF Profile, InspeximusRaw, RowTable
<1>5. ASSUME k \in AtelyaKinds PROVE Profile(Raw(k), FALSE, "meta", "a_text_of_its_own", "present")
  <2>1. Raw(k) = AtelyaRaw
    BY <1>5, RawEvidenceIs
  <2> QED
    BY <2>1 DEF Profile, AtelyaRaw, RowTable
<1>6. ASSUME k \in ContinuumKinds PROVE Profile(Raw(k), FALSE, "meta", "its_own_name", "present")
  <2>1. Raw(k) = ContinuumRaw
    BY <1>6, RawEvidenceIs
  <2> QED
    BY <2>1 DEF Profile, ContinuumRaw, RowTable
<1>7. ASSUME k \in AtmemKinds PROVE Profile(Raw(k), FALSE, "meta", "its_own_name", "present")
  <2>1. Raw(k) = AtmemRaw
    BY <1>7, RawEvidenceIs
  <2> QED
    BY <2>1 DEF Profile, AtmemRaw, RowTable
<1>8. ASSUME k \in BlackboxKinds PROVE Profile(Raw(k), FALSE, "meta", "a_text_of_its_own", "present")
  <2>1. Raw(k) = BlackboxRaw
    BY <1>8, RawEvidenceIs
  <2> QED
    BY <2>1 DEF Profile, BlackboxRaw, RowTable
<1> QED
  BY <1>1, <1>2, <1>3, <1>4, <1>5, <1>6, <1>7, <1>8

(* The seal goes along with a row written elsewhere, or replayed.              *)
LEMMA SealGoesAlong ==
    ASSUME NEW k \in Sealers
    PROVE  Raw(k).takes = {"text", "meta", "seal"} /\ Raw(k).copies = {"text", "meta", "seal"}
<1>1. CASE k = "acrf"
  <2>1. Raw(k) = AcrfRaw
    BY <1>1, RawEvidenceIs
  <2> QED
    BY <2>1 DEF AcrfRaw, RowTable
<1>2. CASE k \in AtelyaKinds
  <2>1. Raw(k) = AtelyaRaw
    BY <1>2, RawEvidenceIs
  <2> QED
    BY <2>1 DEF AtelyaRaw, RowTable
<1>3. CASE k \in ContinuumKinds
  <2>1. Raw(k) = ContinuumRaw
    BY <1>3, RawEvidenceIs
  <2> QED
    BY <2>1 DEF ContinuumRaw, RowTable
<1> QED
  BY <1>1, <1>2, <1>3 DEF Sealers

LEMMA ProfileUse ==
    ASSUME NEW k \in VendorKinds
    PROVE  /\ Raw(k).points <=> k \in Pointing
           /\ OwnsNames(k) => Raw(k).label # "owner"
           /\ Raw(k).forges = "its_own_name" <=> k \in OwnForges
           /\ k \notin Counting \cup {"vertex"} => Raw(k).slots = "present"
           /\ k = "crewai" => Raw(k).slots = "remembered"
           /\ k = "mem0" => Raw(k).slots = "history"
           /\ k = "vertex" => Raw(k).slots = "by_name"
<1> DEFINE It == /\ Raw(k).points <=> k \in Pointing
                 /\ OwnsNames(k) => Raw(k).label # "owner"
                 /\ Raw(k).forges = "its_own_name" <=> k \in OwnForges
                 /\ k \notin Counting \cup {"vertex"} => Raw(k).slots = "present"
                 /\ k = "crewai" => Raw(k).slots = "remembered"
                 /\ k = "mem0" => Raw(k).slots = "history"
                 /\ k = "vertex" => Raw(k).slots = "by_name"
<1> USE DEF Profile, Pointing, OwnsNames, OwnForges, Counting, InspeximusKinds, AtelyaKinds,
            ContinuumKinds, AtmemKinds, BlackboxKinds
<1>1. CASE k = "langgraph_sqlite"
  <2>1. Profile(Raw(k), FALSE, "meta", "mutated", "present")
    BY <1>1, FrameworkProfile DEF FrameworkKinds
  <2> QED
    BY <1>1, <2>1
<1>2. CASE k = "langgraph_postgres"
  <2>1. Profile(Raw(k), FALSE, "meta", "mutated", "present")
    BY <1>2, FrameworkProfile DEF FrameworkKinds
  <2> QED
    BY <1>2, <2>1
<1>3. CASE k = "langgraph_redis"
  <2>1. Profile(Raw(k), TRUE, "meta", "mutated", "present")
    BY <1>3, FrameworkProfile DEF FrameworkKinds
  <2> QED
    BY <1>3, <2>1
<1>4. CASE k = "crewai"
  <2>1. Profile(Raw(k), FALSE, "meta", "its_own_name", "remembered")
    BY <1>4, FrameworkProfile DEF FrameworkKinds
  <2> QED
    BY <1>4, <2>1
<1>5. CASE k = "openai_agents"
  <2>1. Profile(Raw(k), FALSE, "meta", "mutated", "present")
    BY <1>5, FrameworkProfile DEF FrameworkKinds
  <2> QED
    BY <1>5, <2>1
<1>6. CASE k = "llamaindex"
  <2>1. Profile(Raw(k), FALSE, "meta", "mutated", "present")
    BY <1>6, FrameworkProfile DEF FrameworkKinds
  <2> QED
    BY <1>6, <2>1
<1>7. CASE k = "mem0"
  <2>1. Profile(Raw(k), FALSE, "owner", "mutated", "history")
    BY <1>7, FrameworkProfile DEF FrameworkKinds
  <2> QED
    BY <1>7, <2>1
<1>8. CASE k = "letta"
  <2>1. Profile(Raw(k), TRUE, "meta", "mutated", "present")
    BY <1>8, FrameworkProfile DEF FrameworkKinds
  <2> QED
    BY <1>8, <2>1
<1>9. CASE k = "vertex"
  <2>1. Profile(Raw(k), FALSE, "meta", "a_text_of_its_own", "by_name")
    BY <1>9, FrameworkProfile DEF FrameworkKinds
  <2> QED
    BY <1>9, <2>1
<1>10. CASE k = "ledger"
  <2>1. Profile(Raw(k), FALSE, "meta", "mutated", "present")
    BY <1>10, EvidenceProfile
  <2> QED
    BY <1>10, <2>1
<1>11. CASE k = "acrf"
  <2>1. Profile(Raw(k), FALSE, "meta", "a_text_of_its_own", "present")
    BY <1>11, EvidenceProfile
  <2> QED
    BY <1>11, <2>1
<1>12. CASE k = "agent_memory"
  <2>1. Profile(Raw(k), FALSE, "meta", "mutated", "present")
    BY <1>12, EvidenceProfile
  <2> QED
    BY <1>12, <2>1
<1>13. CASE k \in InspeximusKinds
  <2>1. Profile(Raw(k), FALSE, "owner", "mutated", "present")
    BY <1>13, EvidenceProfile
  <2> QED
    BY <1>13, <2>1
<1>14. CASE k \in AtelyaKinds
  <2>1. Profile(Raw(k), FALSE, "meta", "a_text_of_its_own", "present")
    BY <1>14, EvidenceProfile
  <2> QED
    BY <1>14, <2>1
<1>15. CASE k \in ContinuumKinds
  <2>1. Profile(Raw(k), FALSE, "meta", "its_own_name", "present")
    BY <1>15, EvidenceProfile
  <2> QED
    BY <1>15, <2>1
<1>16. CASE k \in AtmemKinds
  <2>1. Profile(Raw(k), FALSE, "meta", "its_own_name", "present")
    BY <1>16, EvidenceProfile
  <2> QED
    BY <1>16, <2>1
<1>17. CASE k \in BlackboxKinds
  <2>1. Profile(Raw(k), FALSE, "meta", "a_text_of_its_own", "present")
    BY <1>17, EvidenceProfile
  <2> QED
    BY <1>17, <2>1
<1>18. It
  BY KindsAre, <1>1, <1>2, <1>3, <1>4, <1>5, <1>6, <1>7, <1>8, <1>9, <1>10, <1>11, <1>12, <1>13, <1>14, <1>15, <1>16, <1>17 DEF FrameworkKinds
<1> QED
  BY <1>18

-----------------------------------------------------------------------------
(* Every edit leaves the store in order. *)

BoundsGrow(k, t, u) == \A c \in Contexts : Bound(k, t, c) <= Bound(k, u, c)
Step(k, t, u) == Fine(k, u) /\ (CountsNames(k) \/ BoundsGrow(k, t, u))

LEMMA BoundSame ==
    ASSUME NEW k, NEW t, StoreOK(t), Remembers(k, t), NEW u, u.next = t.next, u.memory = t.memory
    PROVE  BoundsGrow(k, t, u) /\ \A c : Bound(k, u, c) = Bound(k, t, c)
<1>1. \A c : Bound(k, u, c) = Bound(k, t, c)
  BY DEF Bound
<1>2. \A c \in Contexts : Bound(k, t, c) \in Nat
  BY BoundType
<1> QED
  BY <1>1, <1>2 DEF BoundsGrow

LEMMA StepSelf == ASSUME NEW k, NEW t, Fine(k, t) PROVE Step(k, t, t)
BY BoundSame DEF Fine, Step

(* More rows, under names the store has given out.                            *)
LEMMA GrownStep ==
    ASSUME NEW k, NEW t, Fine(k, t), NEW u, StoreOK(u), Remembers(k, u), BoundsGrow(k, t, u),
           \A row \in ToSet(u.rows) : row \in ToSet(t.rows) \/ NamedRow(k, u, row)
    PROVE  Step(k, t, u)
<1>1. ASSUME NEW row \in ToSet(t.rows) PROVE NamedRow(k, u, row)
  <2>1. NamedRow(k, t, row)
    BY DEF Fine, Named
  <2>2. row \in Rows
    BY RowsIn DEF Fine
  <2>3. row.id[1] \in Contexts /\ row.id[2] \in Int
    BY <2>2, RowParts
  <2>4. Bound(k, t, row.id[1]) \in Nat /\ Bound(k, u, row.id[1]) \in Nat
    BY <2>3, BoundType DEF Fine
  <2>5. Bound(k, t, row.id[1]) <= Bound(k, u, row.id[1])
    BY <2>3 DEF BoundsGrow
  <2> QED
    BY <2>1, <2>3, <2>4, <2>5 DEF NamedRow
<1>2. Named(k, u, u)
  BY <1>1 DEF Named
<1> QED
  BY <1>2 DEF Step, Fine

(* What is kept beside the rows changes.                                     *)
LEMMA BesideStep ==
    ASSUME NEW k, NEW t, NEW u, Step(k, t, u), NEW v, DOMAIN v = Fields, v.rows = u.rows,
           v.next = u.next, v.memory = u.memory, k = "mem0" => v.book = u.book
    PROVE  Step(k, t, v)
<1>1. Fine(k, u) /\ StoreOK(v)
  BY SameRows DEF Step, Fine
<1>2. \A c : Bound(k, v, c) = Bound(k, u, c)
  BY DEF Bound
<1>3. Named(k, v, v)
  BY <1>1, <1>2 DEF Fine, Named, NamedRow
<1>4. Remembers(k, v)
  <2>1. Ids(v) = Ids(u)
    BY DEF Ids
  <2> QED
    BY <1>1, <2>1 DEF Fine, Remembers
<1>5. CountsNames(k) \/ BoundsGrow(k, t, v)
  BY <1>2 DEF Step, BoundsGrow
<1> QED
  BY <1>1, <1>3, <1>4, <1>5 DEF Step, Fine

LEMMA SwapStep ==
    ASSUME NEW k, NEW t, Fine(k, t), NEW i \in 1..Len(t.rows), NEW row \in Rows,
           row.id = t.rows[i].id, OwnsNames(k) => row.owner = t.rows[i].owner
    PROVE  Step(k, t, Swap(t, i, row))
<1>1. PICK u : u = Swap(t, i, row)
  OBVIOUS
<1>0. StoreOK(t) /\ Remembers(k, t)
  BY DEF Fine
<1>2. StoreOK(u) /\ u.next = t.next /\ u.memory = t.memory /\ u.book = t.book
  BY <1>0, <1>1, SwapIs
<1>3. /\ ToSet(u.rows) = (ToSet(t.rows) \ {t.rows[i]}) \cup {row}
      /\ t.rows[i] \in ToSet(t.rows) /\ Ids(u) = Ids(t)
  <2>1. /\ ToSet(Swap(t, i, row).rows) = (ToSet(t.rows) \ {t.rows[i]}) \cup {row}
        /\ t.rows[i] \in ToSet(t.rows) /\ Ids(Swap(t, i, row)) = Ids(t)
    BY <1>0, SwapSet
  <2> QED
    BY <1>1, <2>1
<1>4. BoundsGrow(k, t, u) /\ \A c : Bound(k, u, c) = Bound(k, t, c)
  BY <1>0, <1>2, BoundSame
<1>5. NamedRow(k, t, t.rows[i])
  BY <1>3 DEF Fine, Named
<1>6. NamedRow(k, u, row)
  BY <1>4, <1>5 DEF NamedRow
<1>7. Remembers(k, u)
  BY <1>0, <1>2, <1>3 DEF Remembers
<1>8. \A r \in ToSet(u.rows) : r \in ToSet(t.rows) \/ NamedRow(k, u, r)
  BY <1>3, <1>6
<1> QED
  BY <1>1, <1>2, <1>4, <1>7, <1>8, GrownStep

LEMMA WithoutStep ==
    ASSUME NEW k, NEW t, Fine(k, t), NEW id
    PROVE  Step(k, t, Without(t, id))
<1>1. PICK u : u = Without(t, id)
  OBVIOUS
<1>0. StoreOK(t) /\ Remembers(k, t)
  BY DEF Fine
<1>2. /\ StoreOK(u) /\ u.next = t.next /\ u.memory = t.memory /\ u.book = t.book
      /\ ToSet(u.rows) \subseteq ToSet(t.rows)
  BY <1>0, <1>1, WithoutIs
<1>3. BoundsGrow(k, t, u)
  BY <1>0, <1>2, BoundSame
<1>4. Ids(u) \subseteq Ids(t)
  BY <1>0, <1>2, RowsIn
<1>5. Remembers(k, u)
  BY <1>0, <1>2, <1>4 DEF Remembers
<1> QED
  BY <1>1, <1>2, <1>3, <1>5, GrownStep

LEMMA OverwriteStep ==
    ASSUME NEW k, NEW t, Fine(k, t), NEW id, NEW row \in Rows, NEW fields
    PROVE  Step(k, t, Overwrite(t, id, row, fields))
<1>1. CASE Overwrite(t, id, row, fields) = t
  BY <1>1, StepSelf
<1>2. ASSUME NEW i \in 1..Len(t.rows), Overwrite(t, id, row, fields) = Swap(t, i, Taken(t.rows[i], row, fields))
      PROVE  Step(k, t, Overwrite(t, id, row, fields))
  <2>1. PICK old \in Rows : old = t.rows[i]
    BY StoreParts DEF Fine
  <2>2. PICK new : new = Taken(old, row, fields)
    OBVIOUS
  <2>3. new \in Rows /\ new.id = t.rows[i].id /\ new.owner = t.rows[i].owner
    BY <2>1, <2>2, TakenIs
  <2>4. Step(k, t, Swap(t, i, new))
    BY <2>3, SwapStep
  <2> QED
    BY <1>2, <2>1, <2>2, <2>4
<1> QED
  BY <1>1, <1>2, OverwriteIs DEF Fine

LEMMA MarkStep ==
    ASSUME NEW k \in VendorKinds, NEW t, Fine(k, t), NEW seq
    PROVE  Step(k, t, MarkRow(Raw(k), t, seq))
<1>0. PICK p : p = Raw(k)
  OBVIOUS
<1>1. CASE MarkRow(p, t, seq) = t
  BY <1>0, <1>1, StepSelf
<1>2. ASSUME NEW i \in 1..Len(t.rows), MarkRow(p, t, seq) = Swap(t, i, Marked(p, t.rows[i]))
      PROVE  Step(k, t, MarkRow(p, t, seq))
  <2>1. PICK old \in Rows : old = t.rows[i]
    BY StoreParts DEF Fine
  <2>2. PICK new : new = Marked(p, old)
    OBVIOUS
  <2>3. new \in Rows /\ new.id = t.rows[i].id
    BY <2>1, <2>2, MarkedIs
  <2>4. OwnsNames(k) => new.owner = t.rows[i].owner
    BY <1>0, <2>1, <2>2, MarkedIs, ProfileUse
  <2>5. Step(k, t, Swap(t, i, new))
    BY <2>3, <2>4, SwapStep
  <2> QED
    BY <1>2, <2>1, <2>2, <2>5
<1> QED
  BY <1>0, <1>1, <1>2, MarkIs DEF Fine

LEMMA RepointStep ==
    ASSUME NEW k \in VendorKinds, NEW t, NEW u, Step(k, t, u)
    PROVE  Step(k, t, Repoint(Raw(k), u))
<1>1. CASE Repoint(Raw(k), u) = u
  BY <1>1
<1>2. CASE Repoint(Raw(k), u) # u
  <2>1. Raw(k).points
    BY <1>2 DEF Repoint
  <2>2. k # "mem0"
    BY <2>1, ProfileUse DEF Pointing
  <2>3. PICK x : Repoint(Raw(k), u) = [u EXCEPT !.book = x]
    BY <1>2 DEF Repoint
  <2>4. PICK v : v = [u EXCEPT !.book = x]
    OBVIOUS
  <2>5. DOMAIN v = Fields /\ v.rows = u.rows /\ v.next = u.next /\ v.memory = u.memory
    BY <2>4, Bookkept DEF Step, Fine
  <2> QED
    BY <2>2, <2>3, <2>4, <2>5, BesideStep
<1> QED
  BY <1>1, <1>2

LEMMA DeleteStep ==
    ASSUME NEW k \in VendorKinds, NEW t, Fine(k, t), NEW seq
    PROVE  Step(k, t, VendorDelete(k, t, seq))
<1>1. Step(k, t, DeleteRow(Raw(k), t, seq))
  BY WithoutStep, RepointStep DEF DeleteRow
<1>2. CASE k \notin InspeximusKinds \/ k = "inspeximus_default"
  <2>1. k \in InspeximusKinds => Raw(k) = InspeximusRaw
    BY RawEvidenceIs
  <2> QED
    BY <1>1, <1>2, <2>1 DEF VendorDelete, InspeximusDelete
<1>3. CASE k \in InspeximusKinds /\ k # "inspeximus_default"
  <2>1. Raw(k) = InspeximusRaw
    BY <1>3, RawEvidenceIs
  <2>2. PICK u : u = DeleteRow(InspeximusRaw, t, seq)
    OBVIOUS
  <2>3. Step(k, t, u) /\ StoreOK(u)
    BY <1>1, <2>1, <2>2 DEF Step, Fine
  <2>4. PICK x, y : VendorDelete(k, t, seq) = [u EXCEPT !.book = x, !.held = y]
    <3>1. DOMAIN u = Fields
      BY <2>3, StoreParts
    <3> QED
      BY <1>3, <2>2, <3>1 DEF VendorDelete, InspeximusDelete, Fields
  <2>5. PICK v : v = [u EXCEPT !.book = x, !.held = y]
    OBVIOUS
  <2>6. DOMAIN v = Fields /\ v.rows = u.rows /\ v.next = u.next /\ v.memory = u.memory
    BY <2>3, <2>5 DEF StoreOK, Fields
  <2> QED
    BY <1>3, <2>3, <2>4, <2>5, <2>6, BesideStep DEF InspeximusKinds
<1> QED
  BY <1>2, <1>3

-----------------------------------------------------------------------------
(* Rows that come in. *)

LEMMA LastOfView ==
    ASSUME NEW t, StoreOK(t), NEW c, View(t, c) # <<>>
    PROVE  /\ Last(View(t, c)) \in Rows /\ Last(View(t, c)).owner = c
           /\ Last(View(t, c)) \in ToSet(t.rows) /\ Last(View(t, c)) \in ToSet(View(t, c))
           /\ Len(View(t, c)) \in DOMAIN View(t, c)
<1>1. PICK view : view = View(t, c)
  OBVIOUS
<1>2. view \in Seq(Rows) /\ view # <<>>
  BY <1>1, ViewIs
<1>3. Len(view) \in DOMAIN view /\ Last(view) = view[Len(view)]
  BY <1>2 DEF Last
<1>4. Last(view) \in ToSet(view)
  BY <1>3 DEF ToSet
<1>5. ToSet(view) = {row \in ToSet(t.rows) : row.owner = c}
  BY <1>1, ViewSet
<1>6. ToSet(t.rows) \subseteq Rows
  BY RowsIn
<1> QED
  BY <1>1, <1>3, <1>4, <1>5, <1>6

LEMMA FreshName ==
    ASSUME NEW k, NEW t, Fine(k, t), NEW c \in Contexts, NEW n \in Int,
           n >= Bound(k, t, c), k = "acrf" => c # CTX
    PROVE  <<c, n>> \notin Ids(t)
<1> SUFFICES ASSUME <<c, n>> \in Ids(t) PROVE FALSE
  OBVIOUS
<1>0. StoreOK(t) /\ Remembers(k, t)
  BY DEF Fine
<1>1. PICK row \in ToSet(t.rows) : row.id = <<c, n>>
  BY <1>0, RowsIn
<1>2. NamedRow(k, t, row)
  BY DEF Fine, Named
<1>3. row.id[1] = c /\ row.id[2] = n
  BY <1>1
<1>4. Bound(k, t, c) \in Nat
  BY <1>0, BoundType
<1> QED
  BY <1>2, <1>3, <1>4 DEF NamedRow

LEMMA JoinIs ==
    ASSUME NEW t, StoreOK(t), NEW new \in Seq(Rows), Distinct(new),
           \A row \in ToSet(new) : row.id \notin Ids(t),
           NEW u, DOMAIN u = Fields, u.rows = t.rows \o new, u.next \in [Contexts -> Nat]
    PROVE  /\ StoreOK(u) /\ ToSet(u.rows) = ToSet(t.rows) \cup ToSet(new)
           /\ Ids(u) = Ids(t) \cup {row.id : row \in ToSet(new)}
<1>1. t.rows \in Seq(Rows) /\ Distinct(t.rows)
  BY StoreParts
<1>2. \A v \in ToSet(t.rows), w \in ToSet(new) : v.id # w.id
  BY RowsIn
<1>3. u.rows \in Seq(Rows) /\ Distinct(u.rows) /\ ToSet(u.rows) = ToSet(t.rows) \cup ToSet(new)
  BY <1>1, <1>2, ConcatDistinct
<1>4. StoreOK(u)
  BY <1>3 DEF StoreOK, Distinct, Fields
<1>5. Ids(u) = {row.id : row \in ToSet(u.rows)} /\ Ids(t) = {row.id : row \in ToSet(t.rows)}
  BY <1>4, RowsIn
<1> QED
  BY <1>3, <1>4, <1>5

LEMMA OneDistinct == ASSUME NEW row PROVE Distinct(<<row>>)
BY DEF Distinct

LEMMA AddOneIs ==
    ASSUME NEW t, StoreOK(t), NEW row \in Rows, row.id \notin Ids(t)
    PROVE  /\ StoreOK(AddRows(t, CTX, <<row>>))
           /\ ToSet(AddRows(t, CTX, <<row>>).rows) = ToSet(t.rows) \cup {row}
           /\ Ids(AddRows(t, CTX, <<row>>)) = Ids(t) \cup {row.id}
           /\ AddRows(t, CTX, <<row>>).next = [t.next EXCEPT ![CTX] = @ + 1]
           /\ AddRows(t, CTX, <<row>>).memory = t.memory
           /\ AddRows(t, CTX, <<row>>).book = t.book
           /\ AddRows(t, CTX, <<row>>).held = t.held
           /\ AddRows(t, CTX, <<row>>).rows = t.rows \o <<row>>
<1>0. <<row>> \in Seq(Rows)
  BY OneRow
<1>1. PICK new \in Seq(Rows) : new = <<row>>
  BY <1>0
<1>2. Len(new) = 1 /\ ToSet(new) = {row} /\ Distinct(new)
  BY <1>1, OneRow, OneDistinct
<1>3. PICK u : u = AddRows(t, CTX, new)
  OBVIOUS
<1>4. /\ DOMAIN u = Fields /\ u.rows = t.rows \o new /\ u.next = [t.next EXCEPT ![CTX] = @ + Len(new)]
      /\ u.next \in [Contexts -> Nat] /\ u.book = t.book /\ u.held = t.held /\ u.memory = t.memory
  BY <1>3, AddIs, ContextsAre
<1>5. \A r \in ToSet(new) : r.id \notin Ids(t)
  BY <1>2
<1>6. /\ StoreOK(u) /\ ToSet(u.rows) = ToSet(t.rows) \cup ToSet(new)
      /\ Ids(u) = Ids(t) \cup {r.id : r \in ToSet(new)}
  BY <1>2, <1>4, <1>5, JoinIs
<1> QED
  BY <1>1, <1>2, <1>3, <1>4, <1>6

LEMMA NextGrows ==
    ASSUME NEW k, NEW t, StoreOK(t), Remembers(k, t), NEW u, Remembers(k, u),
           u.next = [t.next EXCEPT ![CTX] = @ + 1],
           k = "crewai" => Len(t.memory) <= Len(u.memory)
    PROVE  BoundsGrow(k, t, u)
<1>1. t.next \in [Contexts -> Nat] /\ CTX \in Contexts
  BY StoreParts, ContextsAre
<1>2. u.next[CTX] = t.next[CTX] + 1 /\ \A c \in Contexts : c # CTX => u.next[c] = t.next[c]
  BY <1>1
<1>3. k = "crewai" => Len(t.memory) \in Nat /\ Len(u.memory) \in Nat
  BY DEF Remembers
<1> QED
  BY <1>1, <1>2, <1>3 DEF BoundsGrow, Bound

(* One more row, at the end or elsewhere, named by the store or by the forger. *)
LEMMA OneMoreStep ==
    ASSUME NEW k, NEW t, Fine(k, t), NEW row \in Rows, row.owner = CTX, NEW u, StoreOK(u),
           ToSet(u.rows) = ToSet(t.rows) \cup {row},
           u.next = [t.next EXCEPT ![CTX] = @ + 1], Remembers(k, u),
           k = "crewai" => Len(t.memory) <= Len(u.memory),
           \/ row.id = ForgedId
           \/ k # "crewai" /\ row.id = <<CTX, t.next[CTX]>>
           \/ k = "crewai" /\ row.id = <<CTX, Len(t.memory)>> /\ Len(t.memory) < Len(u.memory)
    PROVE  Step(k, t, u)
<1>0. StoreOK(t) /\ Remembers(k, t) /\ t.next \in [Contexts -> Nat] /\ CTX \in Contexts
  BY StoreParts, ContextsAre DEF Fine
<1>1. BoundsGrow(k, t, u)
  BY <1>0, NextGrows
<1>2. Bound(k, u, CTX) \in Nat
  BY <1>0, BoundType
<1>3. row.id[1] = CTX /\ row.id[2] < Bound(k, u, CTX)
  <2>1. CASE row.id = ForgedId
    BY <1>2, <2>1 DEF ForgedId
  <2>2. CASE k # "crewai" /\ row.id = <<CTX, t.next[CTX]>>
    BY <1>0, <2>2 DEF Bound
  <2>3. CASE k = "crewai" /\ row.id = <<CTX, Len(t.memory)>> /\ Len(t.memory) < Len(u.memory)
    BY <2>3 DEF Bound
  <2> QED
    BY <2>1, <2>2, <2>3
<1>4. NamedRow(k, u, row)
  BY <1>3 DEF NamedRow
<1>5. \A r \in ToSet(u.rows) : r \in ToSet(t.rows) \/ NamedRow(k, u, r)
  BY <1>4
<1> QED
  BY <1>1, <1>5, GrownStep

LEMMA AddOneStep ==
    ASSUME NEW k, NEW t, Fine(k, t), NEW row \in Rows, row.owner = CTX, row.id \notin Ids(t),
           k # "mem0",
           row.id = ForgedId \/ (k # "crewai" /\ row.id = <<CTX, t.next[CTX]>>)
    PROVE  Step(k, t, AddRows(t, CTX, <<row>>))
<1>1. PICK u : u = AddRows(t, CTX, <<row>>)
  OBVIOUS
<1>2. /\ StoreOK(u) /\ ToSet(u.rows) = ToSet(t.rows) \cup {row}
      /\ u.next = [t.next EXCEPT ![CTX] = @ + 1] /\ u.memory = t.memory
  BY <1>1, AddOneIs DEF Fine
<1>3. Remembers(k, u) /\ Len(t.memory) <= Len(u.memory)
  BY <1>2 DEF Fine, Remembers
<1> QED
  BY <1>1, <1>2, <1>3, OneMoreStep

(* A row more in CrewAI's table, or in place of the one listed under its name.  *)
LEMMA InsertedStep ==
    ASSUME NEW t, Fine("crewai", t), NEW row \in Rows, NEW like \in Rows, like.owner = CTX,
           row.id = ForgedId \/ (row.id \in Ids(t) /\ row.id[1] = CTX)
    PROVE  Step("crewai", t, Inserted(t, row, like))
<1>0. StoreOK(t) /\ row.id \in Ids_ /\ row.text \in Texts /\ row.id[1] = CTX
  BY RowParts DEF Fine, ForgedId
<1>1. PICK new : new = [like EXCEPT !.id = row.id, !.text = row.text]
  OBVIOUS
<1>2. new \in Rows /\ new.id = row.id /\ new.owner = CTX
  BY <1>0, <1>1 DEF Rows, Ids_
<1>3. CASE row.id \in Ids(t)
  <2>1. PICK i \in 1..Len(t.rows) : i = PlaceOf(t, row.id) /\ t.rows[i].id = row.id
    BY <1>0, <1>3, PlaceIs
  <2>2. Inserted(t, row, like) = Swap(t, i, new)
    BY <1>1, <1>3, <2>1 DEF Inserted, Swap
  <2>3. t.rows[i] \in ToSet(t.rows)
    BY <1>0, <2>1, StoreParts DEF ToSet
  <2>4. t.rows[i].id[1] = t.rows[i].owner
    BY <2>3 DEF Fine, Named, NamedRow, OwnsNames, InspeximusKinds
  <2>5. new.owner = t.rows[i].owner /\ new.id = t.rows[i].id
    BY <1>0, <1>2, <2>1, <2>4
  <2>6. Step("crewai", t, Swap(t, i, new))
    BY <1>2, <2>1, <2>5, SwapStep
  <2> QED
    BY <2>2, <2>6
<1>4. CASE row.id \notin Ids(t)
  <2>1. Inserted(t, row, like) = AddRows(t, CTX, <<new>>)
    BY <1>1, <1>4 DEF Inserted
  <2>2. new.id = ForgedId /\ new.id \notin Ids(t)
    BY <1>2, <1>4
  <2>3. Step("crewai", t, AddRows(t, CTX, <<new>>))
    BY <1>2, <2>2, AddOneStep
  <2> QED
    BY <2>1, <2>3
<1> QED
  BY <1>3, <1>4

LEMMA OnlyCrewaiRemembers ==
    ASSUME NEW k \in VendorKinds
    PROVE  Raw(k).slots = "remembered" <=> k = "crewai"
<1>1. CASE k = "crewai"
  BY <1>1, ProfileUse
<1>2. CASE k = "mem0"
  BY <1>2, ProfileUse
<1>3. CASE k = "vertex"
  BY <1>3, ProfileUse
<1>4. CASE k \notin Counting \cup {"vertex"}
  BY <1>4, ProfileUse DEF Counting
<1> QED
  BY <1>1, <1>2, <1>3, <1>4 DEF Counting

(* A listed record written somewhere.                                        *)
LEMMA WriteStep ==
    ASSUME NEW k \in VendorKinds, NEW t, Fine(k, t), NEW seq, NEW row \in Rows,
           NEW listed \in ToSet(View(t, CTX)), row.id = listed.id, NEW like \in ToSet(View(t, CTX))
    PROVE  Step(k, t, WriteRow(Raw(k), t, seq, row, like))
<1>1. PICK p : p = Raw(k)
  OBVIOUS
<1>2. ToSet(View(t, CTX)) = {r \in ToSet(t.rows) : r.owner = CTX}
  BY ViewSet DEF Fine
<1>3. ToSet(t.rows) \subseteq Rows /\ Ids(t) = {r.id : r \in ToSet(t.rows)}
  BY RowsIn DEF Fine
<1>4. like \in Rows /\ like.owner = CTX /\ listed \in ToSet(t.rows) /\ listed.owner = CTX
  BY <1>2, <1>3
<1>5. row.id \in Ids(t)
  BY <1>3, <1>4
<1>6. CASE p.slots = "remembered" /\ seq + 1 \notin DOMAIN t.memory
  <2>1. k = "crewai"
    BY <1>1, <1>6, OnlyCrewaiRemembers
  <2>2. listed.id[1] = CTX
    BY <1>4, <2>1 DEF Fine, Named, NamedRow, OwnsNames, InspeximusKinds
  <2>3. Step("crewai", t, Inserted(t, row, like))
    BY <1>4, <1>5, <2>1, <2>2, InsertedStep
  <2>4. WriteRow(p, t, seq, row, like) = Inserted(t, row, like)
    BY <1>6 DEF WriteRow
  <2> QED
    BY <1>1, <2>1, <2>3, <2>4
<1>7. CASE ~(p.slots = "remembered" /\ seq + 1 \notin DOMAIN t.memory)
  <2>1. WriteRow(p, t, seq, row, like) = Overwrite(t, Slot(p, t, "write", seq), row, p.takes)
    BY <1>7 DEF WriteRow
  <2> QED
    BY <1>1, <2>1, OverwriteStep
<1> QED
  BY <1>6, <1>7

LEMMA ForgeStep ==
    ASSUME NEW k \in VendorKinds, NEW t, Fine(k, t), CanForge(Raw(k), t), k \notin {"mem0", "acrf"},
           NEW like \in ToSet(View(t, CTX))
    PROVE  Step(k, t, ForgeRow(Raw(k), t, like))
<1>1. PICK p : p = Raw(k)
  OBVIOUS
<1>2. PICK new : new = ForgedRow(p, t, Last(View(t, CTX)))
  OBVIOUS
<1>3. StoreOK(t) /\ View(t, CTX) # <<>>
  BY DEF Fine, CanForge
<1>4. Last(View(t, CTX)) \in Rows /\ Last(View(t, CTX)).owner = CTX
  BY <1>3, LastOfView
<1>5. /\ new \in Rows /\ new.owner = CTX
      /\ new.id = IF p.forges = "its_own_name" THEN ForgedId ELSE <<CTX, t.next[CTX]>>
  BY <1>2, <1>3, <1>4, ForgedIs
<1>a. k # "mem0" /\ k # "acrf"
  OBVIOUS
<1>b. CASE k = "crewai"
  <2>1. p.slots = "remembered" /\ new.id = ForgedId
    BY <1>b, <1>1, <1>5, ProfileUse DEF OwnForges
  <2>2. Len(t.memory) + 1 \notin DOMAIN t.memory
    <3>1. t.memory \in Seq(Ids_)
      BY <1>b DEF Fine, Remembers, AtelyaKinds
    <3> QED
      BY <3>1
  <2>3. ForgeRow(p, t, like) = Inserted(t, new, like)
    BY <1>2, <2>1, <2>2 DEF ForgeRow, WriteRow
  <2>4. like \in Rows /\ like.owner = CTX
    <3>1. ToSet(View(t, CTX)) = {r \in ToSet(t.rows) : r.owner = CTX}
      BY <1>3, ViewSet
    <3> QED
      BY <1>3, <3>1, RowsIn
  <2>5. Step("crewai", t, Inserted(t, new, like))
    BY <1>5, <1>b, <2>1, <2>4, InsertedStep
  <2> QED
    BY <1>1, <1>b, <2>3, <2>5
<1> SUFFICES ASSUME k # "crewai" PROVE Step(k, t, ForgeRow(Raw(k), t, like))
  BY <1>b
<1>c. p.slots # "remembered"
  BY <1>1, OnlyCrewaiRemembers
<1>6. ASSUME p.forges = "its_own_name" PROVE Step(k, t, AddRows(t, CTX, <<new>>))
  <2>1. new.id = ForgedId /\ ForgedId \notin Ids(t)
    BY <1>1, <1>5, <1>6, <1>c DEF CanForge
  <2>2. new.id \notin Ids(t)
    BY <2>1
  <2>3. new \in Rows /\ new.owner = CTX /\ new.id = ForgedId
    BY <1>5, <2>1
  <2>4. new.id = ForgedId \/ (k # "crewai" /\ new.id = <<CTX, t.next[CTX]>>)
    BY <2>3
  <2> QED
    BY <1>a, <1>5, <2>2, <2>4, AddOneStep
<1>7. ASSUME p.forges # "its_own_name" PROVE Step(k, t, AddRows(t, CTX, <<new>>))
  <2>1. k # "crewai"
    BY <1>1, <1>7, ProfileUse DEF OwnForges
  <2>2. new.id = <<CTX, t.next[CTX]>> /\ t.next[CTX] \in Nat
    BY <1>3, <1>5, <1>7, ContextsAre, StoreParts
  <2>3. new.id \notin Ids(t)
    BY <1>a, <2>1, <2>2, FreshName, ContextsAre DEF Bound
  <2> QED
    BY <1>a, <1>5, <2>1, <2>2, <2>3, AddOneStep
<1>8. PICK u : u = AddRows(t, CTX, <<new>>)
  OBVIOUS
<1>9. Step(k, t, u)
  BY <1>6, <1>7, <1>8
<1>10. ForgeRow(p, t, like) = u \/ ForgeRow(p, t, like) = [u EXCEPT !.book = new.id]
  BY <1>2, <1>8, <1>c DEF ForgeRow
<1>11. Step(k, t, [u EXCEPT !.book = new.id])
  <2>1. PICK v : v = [u EXCEPT !.book = new.id]
    OBVIOUS
  <2>2. DOMAIN v = Fields /\ v.rows = u.rows /\ v.next = u.next /\ v.memory = u.memory
    BY <1>9, <2>1, Bookkept DEF Step, Fine
  <2> QED
    BY <1>9, <2>1, <2>2, BesideStep
<1> QED
  BY <1>1, <1>9, <1>10, <1>11

-----------------------------------------------------------------------------
(* The frameworks: what each call does. *)

Calls(a, late, lists, lateFirst, serves) ==
    a.late = late /\ a.lists = lists /\ a.lateFirst = lateFirst /\ a.serves = serves

LEMMA ApiIs ==
    ASSUME NEW k \in FrameworkKinds
    PROVE  /\ k = "langgraph_sqlite" => ApiOf(k) = LanggraphSqliteApi
           /\ k = "langgraph_postgres" => ApiOf(k) = LanggraphPostgresApi
           /\ k = "langgraph_redis" => ApiOf(k) = LanggraphRedisApi
           /\ k = "crewai" => ApiOf(k) = CrewaiApi
           /\ k = "openai_agents" => ApiOf(k) = OpenaiAgentsApi
           /\ k = "llamaindex" => ApiOf(k) = LlamaindexApi
           /\ k = "mem0" => ApiOf(k) = Mem0Api
           /\ k = "letta" => ApiOf(k) = LettaApi
           /\ k = "vertex" => ApiOf(k) = VertexApi
BY DEF ApiOf

LEMMA ApiCalls ==
    ASSUME NEW k \in FrameworkKinds
    PROVE  /\ k = "langgraph_sqlite" => Calls(ApiOf(k), "late", "nowhere", FALSE, "a_row")
           /\ k = "langgraph_postgres" => Calls(ApiOf(k), "late", "nowhere", FALSE, "a_row")
           /\ k = "langgraph_redis" => Calls(ApiOf(k), "late", "nowhere", FALSE, "the_latest")
           /\ k = "crewai" => Calls(ApiOf(k), "remembered", "in_memory", TRUE, "anything")
           /\ k = "openai_agents" => Calls(ApiOf(k), "late", "nowhere", FALSE, "anything")
           /\ k = "llamaindex" => Calls(ApiOf(k), "remembered", "in_memory", FALSE, "anything")
           /\ k = "mem0" => Calls(ApiOf(k), "history", "in_the_book", FALSE, "a_row")
           /\ k = "letta" => Calls(ApiOf(k), "present", "nowhere", FALSE, "the_latest")
           /\ k = "vertex" => Calls(ApiOf(k), "late", "nowhere", FALSE, "anything")
<1>1. ASSUME k = "langgraph_sqlite" PROVE Calls(ApiOf(k), "late", "nowhere", FALSE, "a_row")
  <2>1. ApiOf(k) = LanggraphSqliteApi
    BY <1>1, ApiIs
  <2> QED
    BY <2>1 DEF Calls, LanggraphSqliteApi, ReadPath
<1>2. ASSUME k = "langgraph_postgres" PROVE Calls(ApiOf(k), "late", "nowhere", FALSE, "a_row")
  <2>1. ApiOf(k) = LanggraphPostgresApi
    BY <1>2, ApiIs
  <2> QED
    BY <2>1 DEF Calls, LanggraphPostgresApi, ReadPath
<1>3. ASSUME k = "langgraph_redis" PROVE Calls(ApiOf(k), "late", "nowhere", FALSE, "the_latest")
  <2>1. ApiOf(k) = LanggraphRedisApi
    BY <1>3, ApiIs
  <2> QED
    BY <2>1 DEF Calls, LanggraphRedisApi, ReadPath
<1>4. ASSUME k = "crewai" PROVE Calls(ApiOf(k), "remembered", "in_memory", TRUE, "anything")
  <2>1. ApiOf(k) = CrewaiApi
    BY <1>4, ApiIs
  <2> QED
    BY <2>1 DEF Calls, CrewaiApi, ReadPath
<1>5. ASSUME k = "openai_agents" PROVE Calls(ApiOf(k), "late", "nowhere", FALSE, "anything")
  <2>1. ApiOf(k) = OpenaiAgentsApi
    BY <1>5, ApiIs
  <2> QED
    BY <2>1 DEF Calls, OpenaiAgentsApi, ReadPath
<1>6. ASSUME k = "llamaindex" PROVE Calls(ApiOf(k), "remembered", "in_memory", FALSE, "anything")
  <2>1. ApiOf(k) = LlamaindexApi
    BY <1>6, ApiIs
  <2> QED
    BY <2>1 DEF Calls, LlamaindexApi, ReadPath
<1>7. ASSUME k = "mem0" PROVE Calls(ApiOf(k), "history", "in_the_book", FALSE, "a_row")
  <2>1. ApiOf(k) = Mem0Api
    BY <1>7, ApiIs
  <2> QED
    BY <2>1 DEF Calls, Mem0Api, ReadPath
<1>8. ASSUME k = "letta" PROVE Calls(ApiOf(k), "present", "nowhere", FALSE, "the_latest")
  <2>1. ApiOf(k) = LettaApi
    BY <1>8, ApiIs
  <2> QED
    BY <2>1 DEF Calls, LettaApi, ReadPath
<1>9. ASSUME k = "vertex" PROVE Calls(ApiOf(k), "late", "nowhere", FALSE, "anything")
  <2>1. ApiOf(k) = VertexApi
    BY <1>9, ApiIs
  <2> QED
    BY <2>1 DEF Calls, VertexApi, ReadPath
<1> QED
  BY <1>1, <1>2, <1>3, <1>4, <1>5, <1>6, <1>7, <1>8, <1>9

Remembering == {"crewai", "llamaindex"}
LEMMA ApiUse ==
    ASSUME NEW k \in FrameworkKinds
    PROVE  /\ ApiOf(k).late \in {"late", "remembered", "history", "present"}
           /\ ApiOf(k).late = "history" <=> k = "mem0"
           /\ ApiOf(k).lateFirst <=> k = "crewai"
           /\ ApiOf(k).lists = "in_memory" <=> k \in Remembering
           /\ ApiOf(k).lists = "in_the_book" <=> k = "mem0"
           /\ ApiOf(k).serves = "the_latest" <=> k \in Pointing
<1> DEFINE It == /\ ApiOf(k).late \in {"late", "remembered", "history", "present"}
                 /\ ApiOf(k).late = "history" <=> k = "mem0"
                 /\ ApiOf(k).lateFirst <=> k = "crewai"
                 /\ ApiOf(k).lists = "in_memory" <=> k \in Remembering
                 /\ ApiOf(k).lists = "in_the_book" <=> k = "mem0"
                 /\ ApiOf(k).serves = "the_latest" <=> k \in Pointing
<1> USE DEF Calls, Pointing, Remembering
<1>1. CASE k = "langgraph_sqlite"
  <2>1. Calls(ApiOf(k), "late", "nowhere", FALSE, "a_row")
    BY <1>1, ApiCalls
  <2> QED
    BY <1>1, <2>1
<1>2. CASE k = "langgraph_postgres"
  <2>1. Calls(ApiOf(k), "late", "nowhere", FALSE, "a_row")
    BY <1>2, ApiCalls
  <2> QED
    BY <1>2, <2>1
<1>3. CASE k = "langgraph_redis"
  <2>1. Calls(ApiOf(k), "late", "nowhere", FALSE, "the_latest")
    BY <1>3, ApiCalls
  <2> QED
    BY <1>3, <2>1
<1>4. CASE k = "crewai"
  <2>1. Calls(ApiOf(k), "remembered", "in_memory", TRUE, "anything")
    BY <1>4, ApiCalls
  <2> QED
    BY <1>4, <2>1
<1>5. CASE k = "openai_agents"
  <2>1. Calls(ApiOf(k), "late", "nowhere", FALSE, "anything")
    BY <1>5, ApiCalls
  <2> QED
    BY <1>5, <2>1
<1>6. CASE k = "llamaindex"
  <2>1. Calls(ApiOf(k), "remembered", "in_memory", FALSE, "anything")
    BY <1>6, ApiCalls
  <2> QED
    BY <1>6, <2>1
<1>7. CASE k = "mem0"
  <2>1. Calls(ApiOf(k), "history", "in_the_book", FALSE, "a_row")
    BY <1>7, ApiCalls
  <2> QED
    BY <1>7, <2>1
<1>8. CASE k = "letta"
  <2>1. Calls(ApiOf(k), "present", "nowhere", FALSE, "the_latest")
    BY <1>8, ApiCalls
  <2> QED
    BY <1>8, <2>1
<1>9. CASE k = "vertex"
  <2>1. Calls(ApiOf(k), "late", "nowhere", FALSE, "anything")
    BY <1>9, ApiCalls
  <2> QED
    BY <1>9, <2>1
<1>10. It
  BY <1>1, <1>2, <1>3, <1>4, <1>5, <1>6, <1>7, <1>8, <1>9 DEF FrameworkKinds
<1> QED
  BY <1>10

-----------------------------------------------------------------------------
(* The forges and appends of adapters that place rows by name. *)

LEMMA MaxIs ==
    ASSUME NEW S, S \subseteq Nat, IsFiniteSet(S), S # {}
    PROVE  Max(S) \in S /\ \A i \in S : i <= Max(S)
<1>x. PICK c \in Nat : c = Cardinality(S)
  BY OrderLists
<1>y. PICK f : f = Order(S)
  OBVIOUS
<1>1. c = Cardinality(S) /\ Lists(f, c, S)
  BY <1>x, <1>y, OrderLists
<1>2. PICK i \in S : TRUE
  OBVIOUS
<1>3. PICK k \in 1..c : f[k] = i
  BY <1>1 DEF Lists
<1>4. c \in 1..c
  OBVIOUS
<1>5. PICK m : m = f[c]
  OBVIOUS
<1>6. m \in S
  BY <1>1, <1>4, <1>5 DEF Lists
<1>7. ASSUME NEW j \in S PROVE m >= j
  <2>1. PICK l \in 1..c : f[l] = j
    BY <1>1 DEF Lists
  <2>2. l = c \/ l < c
    OBVIOUS
  <2>3. j = m \/ j < m
    BY <1>1, <1>4, <1>5, <2>1, <2>2 DEF Lists
  <2>4. j \in Nat /\ m \in Nat
    BY <1>6
  <2> QED
    BY <2>3, <2>4
<1>8. \E x \in S : \A y \in S : x >= y
  BY <1>6, <1>7
<1>9. Max(S) \in S /\ \A y \in S : Max(S) >= y
  BY <1>8 DEF Max
<1> QED
  BY <1>9

LEMMA StepTrans ==
    ASSUME NEW k, NEW t, Fine(k, t), NEW u, NEW v, Step(k, t, u), Step(k, u, v)
    PROVE  Step(k, t, v)
<1>1. \A c \in Contexts : Bound(k, t, c) \in Nat /\ Bound(k, u, c) \in Nat /\ Bound(k, v, c) \in Nat
  BY BoundType DEF Step, Fine
<1> QED
  BY <1>1 DEF Step, BoundsGrow

LEMMA InsertRowIs ==
    ASSUME NEW t, StoreOK(t), NEW p \in 1..(Len(t.rows) + 1), NEW row \in Rows, row.id \notin Ids(t),
           NEW u, DOMAIN u = Fields, u.rows = InsertAt(t.rows, p, row), u.next \in [Contexts -> Nat]
    PROVE  /\ StoreOK(u) /\ ToSet(u.rows) = ToSet(t.rows) \cup {row}
           /\ Ids(u) = Ids(t) \cup {row.id}
<1>1. t.rows \in Seq(Rows) /\ Distinct(t.rows)
  BY StoreParts
<1>2. \A r \in ToSet(t.rows) : r.id # row.id
  BY RowsIn
<1>3. Distinct(u.rows) /\ u.rows \in Seq(Rows) /\ ToSet(u.rows) = ToSet(t.rows) \cup {row}
  BY <1>1, <1>2, InsertDistinct, InsertIs, InsertSet
<1>4. StoreOK(u)
  BY <1>3 DEF StoreOK, Distinct, Fields
<1>5. Ids(u) = {r.id : r \in ToSet(u.rows)} /\ Ids(t) = {r.id : r \in ToSet(t.rows)}
  BY <1>4, RowsIn
<1> QED
  BY <1>3, <1>4, <1>5

(* The history with a forged name after the template's.                       *)
LEMMA HistoryIs ==
    ASSUME NEW t, Fine("mem0", t), View(t, CTX) # <<>>, NEW id \in Ids_
    PROVE  /\ HistoryWithForged(t, id) \in Seq(Ids_)
           /\ ToSet(HistoryWithForged(t, id)) = ToSet(t.book) \cup {id}
<1>1. StoreOK(t) /\ t.book \in Seq(Ids_) /\ Ids(t) \subseteq ToSet(t.book)
  BY DEF Fine, Remembers
<1>2. PICK template : template = Last(Names(t, CTX))
  OBVIOUS
<1>3. template \in ToSet(t.book)
  <2>1. Last(View(t, CTX)) \in ToSet(t.rows) /\ Len(View(t, CTX)) \in DOMAIN View(t, CTX)
    BY <1>1, LastOfView
  <2>2. Last(View(t, CTX)).id \in Ids(t)
    BY <1>1, <2>1, RowsIn
  <2>3. template = View(t, CTX)[Len(View(t, CTX))].id
    BY <1>1, <1>2, <2>1, NamesAre DEF Last
  <2> QED
    BY <1>1, <2>2, <2>3 DEF Last
<1>4. PICK i : i = CHOOSE j \in DOMAIN t.book : t.book[j] = template
  OBVIOUS
<1>5. i \in DOMAIN t.book
  BY <1>3, <1>4 DEF ToSet
<1>6. PICK p : p = i + 1
  OBVIOUS
<1>7. p \in 1..(Len(t.book) + 1)
  BY <1>1, <1>5, <1>6
<1>8. HistoryWithForged(t, id) = InsertAt(t.book, p, id)
  BY <1>2, <1>4, <1>6 DEF HistoryWithForged
<1>9. InsertAt(t.book, p, id) \in Seq(Ids_)
  BY <1>1, <1>7, InsertIs
<1>10. ToSet(InsertAt(t.book, p, id)) = ToSet(t.book) \cup {id}
  BY <1>1, <1>7, InsertSet
<1> QED
  BY <1>8, <1>9, <1>10

LEMMA Mem0ForgeStep ==
    ASSUME NEW t, Fine("mem0", t), CanForge(Raw("mem0"), t)
    PROVE  Step("mem0", t, Mem0Forge(Raw("mem0"), t))
<1>1. PICK p : p = Raw("mem0")
  OBVIOUS
<1>2. PICK new : new = ForgedRow(p, t, Last(View(t, CTX)))
  OBVIOUS
<1>3. StoreOK(t) /\ View(t, CTX) # <<>> /\ Remembers("mem0", t)
  BY DEF Fine, CanForge
<1>4. Last(View(t, CTX)) \in Rows /\ Last(View(t, CTX)).owner = CTX
  BY <1>3, LastOfView
<1>5. p.forges # "its_own_name"
  BY <1>1, FrameworkProfile DEF Profile, FrameworkKinds
<1>6. new \in Rows /\ new.owner = CTX /\ new.id = <<CTX, t.next[CTX]>>
  BY <1>2, <1>3, <1>4, <1>5, ForgedIs
<1>7. t.next \in [Contexts -> Nat] /\ CTX \in Contexts /\ DOMAIN t = Fields
  BY <1>3, StoreParts, ContextsAre
<1>8. new.id \notin Ids(t)
  BY <1>6, <1>7, FreshName DEF Bound
<1>9. new.id \in Ids_
  BY <1>6, RowParts
<1>10. PICK book : book = HistoryWithForged(t, new.id)
  OBVIOUS
<1>11. book \in Seq(Ids_) /\ ToSet(book) = ToSet(t.book) \cup {new.id}
  BY <1>3, <1>9, <1>10, HistoryIs
<1>12. PICK v : v = [t EXCEPT !.book = book, !.next[CTX] = @ + 1]
  OBVIOUS
<1>13. /\ DOMAIN v = Fields /\ v.rows = t.rows /\ v.memory = t.memory /\ v.book = book
       /\ v.next = [t.next EXCEPT ![CTX] = @ + 1] /\ v.next \in [Contexts -> Nat]
  BY <1>7, <1>12 DEF Fields
<1>14. PICK u : u = Mem0Forge(p, t)
  OBVIOUS
<1>15. \/ Mem0ForgeSlot(t) = new.id /\ u = [v EXCEPT !.rows = InsertAt(@, Max(Places(t, CTX)) + 1, new)]
       \/ u = Overwrite(v, Mem0ForgeSlot(t), new, p.takes)
  BY <1>2, <1>10, <1>12, <1>14 DEF Mem0Forge
<1>16. CASE u = [v EXCEPT !.rows = InsertAt(@, Max(Places(t, CTX)) + 1, new)]
  <2>1. PICK i : i = Max(Places(t, CTX)) + 1
    OBVIOUS
  <2>2. i \in 1..(Len(t.rows) + 1)
    <3>1. Places(t, CTX) \subseteq DOMAIN t.rows /\ t.rows \in Seq(Rows) /\ DOMAIN t.rows = 1..Len(t.rows)
      BY <1>3, PlacesIn, StoreParts
    <3>2. Places(t, CTX) # {}
      <4>1. Last(View(t, CTX)) \in ToSet(t.rows)
        BY <1>3, LastOfView
      <4> QED
        BY <1>4, <4>1 DEF Places, ToSet
    <3>3. Max(Places(t, CTX)) \in Places(t, CTX)
      BY <3>1, <3>2, PlacesFinite, MaxIs
    <3> QED
      BY <2>1, <3>1, <3>3
  <2>3. DOMAIN u = Fields /\ u.rows = InsertAt(t.rows, i, new) /\ u.next = v.next /\ u.memory = t.memory /\ u.book = book
    BY <1>13, <1>16, <2>1 DEF Fields
  <2>4. StoreOK(u) /\ ToSet(u.rows) = ToSet(t.rows) \cup {new} /\ Ids(u) = Ids(t) \cup {new.id}
    <3>1. u.next \in [Contexts -> Nat] /\ DOMAIN u = Fields /\ u.rows = InsertAt(t.rows, i, new)
      BY <1>13, <2>3
    <3>2. StoreOK(u)
      BY <1>3, <1>6, <1>8, <2>2, <3>1, InsertRowIs
    <3>3. ToSet(u.rows) = ToSet(t.rows) \cup {new}
      <4>1. t.rows \in Seq(Rows)
        BY <1>3, StoreParts
      <4>2. ToSet(InsertAt(t.rows, i, new)) = ToSet(t.rows) \cup {new}
        BY <1>6, <2>2, <4>1, InsertSet
      <4> QED
        BY <3>1, <4>2
    <3>4. Ids(u) = Ids(t) \cup {new.id}
      BY <1>3, <1>6, <1>8, <2>2, <3>1, InsertRowIs
    <3> QED
      BY <3>2, <3>3, <3>4
  <2>5. Remembers("mem0", u)
    BY <1>3, <1>11, <2>3, <2>4 DEF Remembers
  <2>6. u.next = [t.next EXCEPT ![CTX] = @ + 1]
    BY <1>13, <2>3
  <2>7. Step("mem0", t, u)
    BY <1>6, <2>4, <2>5, <2>6, OneMoreStep
  <2> QED
    BY <1>1, <1>14, <2>7
<1>17. CASE u = Overwrite(v, Mem0ForgeSlot(t), new, p.takes)
  <2>1. StoreOK(v)
    BY <1>3, <1>13 DEF StoreOK, Fields
  <2>2. Remembers("mem0", v)
    <3>1. Ids(v) = Ids(t)
      BY <1>13 DEF Ids
    <3> QED
      BY <1>3, <1>11, <1>13, <3>1 DEF Remembers
  <2>3. BoundsGrow("mem0", t, v)
    BY <1>3, <1>13, <2>2, NextGrows
  <2>4. \A row \in ToSet(v.rows) : row \in ToSet(t.rows) \/ NamedRow("mem0", v, row)
    BY <1>13
  <2>5. Step("mem0", t, v)
    BY <2>1, <2>2, <2>3, <2>4, GrownStep
  <2>6. Step("mem0", v, u)
    BY <1>6, <1>17, <2>5, OverwriteStep DEF Step
  <2>7. Step("mem0", t, u)
    BY <2>5, <2>6, StepTrans
  <2> QED
    BY <1>1, <1>14, <2>7
<1> QED
  BY <1>15, <1>16, <1>17

(* A row set among those picked and those left.                              *)
LEMMA ApartIs ==
    ASSUME NEW t, StoreOK(t), NEW here, here \subseteq DOMAIN t.rows,
           NEW row \in Rows, row.id \notin Ids(t),
           NEW u, DOMAIN u = Fields,
           u.rows = Picked(t.rows, here) \o <<row>> \o Picked(t.rows, DOMAIN t.rows \ here),
           u.next \in [Contexts -> Nat]
    PROVE  StoreOK(u) /\ ToSet(u.rows) = ToSet(t.rows) \cup {row}
<1>1. t.rows \in Seq(Rows) /\ Distinct(t.rows)
  BY StoreParts
<1>2. PICK rest : rest = DOMAIN t.rows \ here
  OBVIOUS
<1>3. PICK a : a = Picked(t.rows, here)
  OBVIOUS
<1>4. a \in Seq(Rows) /\ Distinct(a)
  BY <1>1, <1>3, PickedIs, PickedDistinct
<1>5. ToSet(a) = {t.rows[i] : i \in here}
  BY <1>1, <1>3, ToSetPicked
<1>6. PICK b : b = Picked(t.rows, rest)
  OBVIOUS
<1>7. rest \subseteq DOMAIN t.rows
  BY <1>2
<1>8. b \in Seq(Rows) /\ Distinct(b)
  BY <1>1, <1>6, <1>7, PickedIs, PickedDistinct
<1>9. ToSet(b) = {t.rows[i] : i \in rest}
  BY <1>1, <1>6, <1>7, ToSetPicked
<1>10. ToSet(t.rows) = ToSet(a) \cup ToSet(b)
  BY <1>2, <1>5, <1>9 DEF ToSet
<1>11. \A r \in ToSet(t.rows) : r.id # row.id
  BY RowsIn
<1>12. PICK one : one = <<row>>
  OBVIOUS
<1>13. one \in Seq(Rows) /\ Distinct(one) /\ ToSet(one) = {row}
  BY <1>12, OneRow, OneDistinct
<1>14. PICK c : c = a \o one
  OBVIOUS
<1>15. \A v \in ToSet(a), w \in ToSet(one) : v.id # w.id
  BY <1>10, <1>11, <1>13
<1>16. c \in Seq(Rows) /\ Distinct(c) /\ ToSet(c) = ToSet(a) \cup {row}
  BY <1>4, <1>13, <1>14, <1>15, ConcatDistinct
<1>17. ASSUME NEW v \in ToSet(a), NEW w \in ToSet(b) PROVE v.id # w.id
  <2>1. PICK i \in here : v = t.rows[i]
    BY <1>5
  <2>2. PICK j \in rest : w = t.rows[j]
    BY <1>9
  <2>3. i \in DOMAIN t.rows /\ j \in DOMAIN t.rows /\ i # j
    BY <1>2
  <2> QED
    BY <1>1, <2>1, <2>2, <2>3 DEF Distinct
<1>18. \A v \in ToSet(c), w \in ToSet(b) : v.id # w.id
  BY <1>10, <1>11, <1>16, <1>17
<1>19. c \o b \in Seq(Rows) /\ Distinct(c \o b) /\ ToSet(c \o b) = ToSet(c) \cup ToSet(b)
  BY <1>8, <1>16, <1>18, ConcatDistinct
<1>20. u.rows = c \o b
  BY <1>2, <1>3, <1>6, <1>12, <1>14
<1>21. ToSet(u.rows) = ToSet(t.rows) \cup {row}
  BY <1>10, <1>16, <1>19, <1>20
<1>22. StoreOK(u)
  BY <1>19, <1>20 DEF StoreOK, Distinct, Fields
<1> QED
  BY <1>21, <1>22

(* ACRF's put.                                                              *)
LEMMA AcrfPutIs ==
    ASSUME NEW t, StoreOK(t), NEW row \in Rows
    PROVE  \/ \E i \in 1..Len(t.rows) : t.rows[i].id = row.id /\ AcrfPut(t, row) = Swap(t, i, row)
           \/ /\ row.id \notin Ids(t) /\ StoreOK(AcrfPut(t, row))
              /\ ToSet(AcrfPut(t, row).rows) = ToSet(t.rows) \cup {row}
              /\ AcrfPut(t, row).next = t.next /\ AcrfPut(t, row).memory = t.memory
              /\ AcrfPut(t, row).book = t.book /\ AcrfPut(t, row).held = t.held
<1>0. DOMAIN t = Fields /\ t.next \in [Contexts -> Nat] /\ t.rows \in Seq(Rows)
  BY StoreParts
<1>1. CASE row.id \in Ids(t)
  <2>1. PICK i : i = PlaceOf(t, row.id)
    OBVIOUS
  <2>2. i \in 1..Len(t.rows) /\ t.rows[i].id = row.id
    BY <1>1, <2>1, PlaceIs
  <2>3. AcrfPut(t, row) = Swap(t, i, row)
    BY <1>1, <2>1 DEF AcrfPut, Swap
  <2> QED
    BY <2>2, <2>3
<1>2. CASE row.id \notin Ids(t)
  <2>1. PICK before : before = {i \in Places(t, CTX) : t.rows[i].id[2] < row.id[2]}
    OBVIOUS
  <2>2. before \subseteq DOMAIN t.rows
    BY <2>1 DEF Places
  <2>3. PICK rows : rows = Picked(t.rows, before) \o <<row>> \o Picked(t.rows, DOMAIN t.rows \ before)
    OBVIOUS
  <2>4. PICK u : u = [t EXCEPT !.rows = rows]
    OBVIOUS
  <2>5. AcrfPut(t, row) = u
    BY <1>2, <2>1, <2>3, <2>4 DEF AcrfPut
  <2>6. /\ DOMAIN u = Fields /\ u.rows = rows /\ u.next = t.next /\ u.memory = t.memory
        /\ u.book = t.book /\ u.held = t.held
    BY <1>0, <2>4 DEF Fields
  <2>8. /\ u.rows = Picked(t.rows, before) \o <<row>> \o Picked(t.rows, DOMAIN t.rows \ before)
        /\ u.next \in [Contexts -> Nat]
    BY <1>0, <2>3, <2>6
  <2>9. DOMAIN u = Fields
    BY <2>6
  <2>7. StoreOK(u) /\ ToSet(u.rows) = ToSet(t.rows) \cup {row}
    BY <1>2, <2>2, <2>8, <2>9, ApartIs
  <2> QED
    BY <1>2, <2>5, <2>6, <2>7
<1> QED
  BY <1>1, <1>2

LEMMA AcrfPutStep ==
    ASSUME NEW t, Fine("acrf", t), NEW row \in Rows, row.owner = CTX, row.id[1] = CTX
    PROVE  Step("acrf", t, AcrfPut(t, row))
<1>0. StoreOK(t) /\ Remembers("acrf", t)
  BY DEF Fine
<1>1. ASSUME NEW i \in 1..Len(t.rows), t.rows[i].id = row.id, AcrfPut(t, row) = Swap(t, i, row)
      PROVE  Step("acrf", t, AcrfPut(t, row))
  <2>1. t.rows[i] \in ToSet(t.rows)
    BY <1>0, StoreParts DEF ToSet
  <2>2. NamedRow("acrf", t, t.rows[i]) /\ OwnsNames("acrf")
    BY <2>1 DEF Fine, Named, OwnsNames, InspeximusKinds
  <2>3. t.rows[i].owner = row.owner
    BY <1>1, <2>2 DEF NamedRow
  <2> QED
    BY <1>1, <2>3, SwapStep
<1>2. ASSUME StoreOK(AcrfPut(t, row)), ToSet(AcrfPut(t, row).rows) = ToSet(t.rows) \cup {row},
             AcrfPut(t, row).next = t.next, AcrfPut(t, row).memory = t.memory
      PROVE  Step("acrf", t, AcrfPut(t, row))
  <2>1. PICK u : u = AcrfPut(t, row)
    OBVIOUS
  <2>2. StoreOK(u) /\ ToSet(u.rows) = ToSet(t.rows) \cup {row} /\ u.next = t.next /\ u.memory = t.memory
    BY <1>2, <2>1
  <2>3. BoundsGrow("acrf", t, u)
    BY <1>0, <2>2, BoundSame
  <2>4. Remembers("acrf", u)
    BY <1>0, <2>2 DEF Remembers
  <2>5. NamedRow("acrf", u, row)
    BY DEF NamedRow
  <2>6. Step("acrf", t, u)
    BY <2>2, <2>3, <2>4, <2>5, GrownStep
  <2> QED
    BY <2>1, <2>6
<1> QED
  BY <1>0, <1>1, <1>2, AcrfPutIs

LEMMA AcrfRows ==
    ASSUME NEW t, StoreOK(t)
    PROVE  /\ Signed(AcrfLate(t)) \in Rows /\ Signed(AcrfLate(t)).owner = CTX
           /\ Signed(AcrfLate(t)).id = <<CTX, Len(View(t, CTX))>>
           /\ Signed(AcrfLate(t)).seal = <<Said(Signed(AcrfLate(t)))>>
           /\ Signed(AcrfLate(t)).text = Text("seed", Len(View(t, CTX)))
           /\ Signed(AcrfLate(t)).meta = [ts |-> Len(View(t, CTX)), marked |-> FALSE]
<1>1. PICK n \in Nat : n = Len(View(t, CTX))
  BY ViewIs
<1>2. PICK row : row = Row(CTX, n, Text("seed", n))
  OBVIOUS
<1>3. /\ row \in Rows /\ row.id = <<CTX, n>> /\ row.owner = CTX /\ row.text = Text("seed", n)
      /\ row.meta = [ts |-> n, marked |-> FALSE]
  BY <1>2, ContextsAre, TextIs, RowIs
<1>4. AcrfLate(t) = row
  BY <1>1, <1>2 DEF AcrfLate
<1>5. PICK seal : seal = <<Said(row)>>
  OBVIOUS
<1>6. seal \in Seq(Saids)
  BY <1>3, <1>5, RowParts
<1>7. Signed(row) = [row EXCEPT !.seal = seal]
  BY <1>5 DEF Signed
<1>8. PICK new : new = Signed(row)
  OBVIOUS
<1>9. /\ new \in Rows /\ new.id = row.id /\ new.owner = row.owner /\ new.text = row.text
      /\ new.meta = row.meta /\ new.seal = seal /\ Said(new) = Said(row)
  BY <1>3, <1>6, <1>7, <1>8, SealedIs
<1> QED
  BY <1>1, <1>3, <1>4, <1>5, <1>8, <1>9

LEMMA AcrfForgedIs ==
    ASSUME NEW t, StoreOK(t), View(t, CTX) # <<>>,
           NEW row, row = [Last(View(t, CTX)) EXCEPT !.id = <<CTX, Len(View(t, CTX))>>, !.text = Text("forged", 0)]
    PROVE  /\ row \in Rows /\ row.owner = CTX /\ row.id = <<CTX, Len(View(t, CTX))>>
           /\ row.seal = Last(View(t, CTX)).seal
<1>1. Last(View(t, CTX)) \in Rows /\ Last(View(t, CTX)).owner = CTX
  BY LastOfView
<1>2. PICK last : last = Last(View(t, CTX))
  OBVIOUS
<1>3. PICK id : id = <<CTX, Len(View(t, CTX))>>
  OBVIOUS
<1>4. PICK text : text = Text("forged", 0)
  OBVIOUS
<1>5. id \in Contexts \X Int
  BY <1>3, ViewIs, ContextsAre
<1>6. text \in Texts
  BY <1>4, TextIs
<1>7. row = [last EXCEPT !.id = id, !.text = text]
  BY <1>2, <1>3, <1>4
<1>8. last \in Rows /\ last.owner = CTX
  BY <1>1, <1>2
<1>9. row \in Rows /\ row.owner = CTX /\ row.id = id /\ row.seal = last.seal
  BY <1>5, <1>6, <1>7, <1>8 DEF Rows
<1> QED
  BY <1>2, <1>3, <1>9

-----------------------------------------------------------------------------
(* What a framework appends. *)

LEMMA LateRowIs ==
    ASSUME NEW k \in FrameworkKinds, NEW t, Fine(k, t)
    PROVE  /\ LateText(ApiOf(k), t) \in Texts
           /\ LateRow(ApiOf(k), t) \in Rows /\ LateRow(ApiOf(k), t).owner = CTX
           /\ LateRow(ApiOf(k), t).id = IF k = "crewai" THEN <<CTX, Len(t.memory)>> ELSE <<CTX, t.next[CTX]>>
<1>0. StoreOK(t) /\ Remembers(k, t)
  BY DEF Fine
<1>1. Len(t.memory) \in Nat /\ t.next[CTX] \in Nat /\ Len(View(t, CTX)) \in Nat
  BY <1>0, StoreParts, ContextsAre, ViewIs DEF Remembers
<1>2. k = "mem0" => Len(t.book) \in Nat
  BY <1>0 DEF Remembers
<1>3. PICK a : a = ApiOf(k)
  OBVIOUS
<1>4. a.late \in {"late", "remembered", "history", "present"} /\ (a.late = "history" <=> k = "mem0")
  BY <1>3, ApiUse
<1>5. LateText(a, t) \in Texts
  <2>1. CASE a.late = "late"
    BY <2>1, TextIs DEF LateText
  <2>2. CASE a.late = "remembered"
    BY <1>1, <2>2, TextIs DEF LateText
  <2>3. CASE a.late = "history"
    BY <1>2, <1>4, <2>3, TextIs DEF LateText
  <2>4. CASE a.late = "present"
    BY <1>1, <2>4, TextIs DEF LateText
  <2> QED
    BY <1>4, <2>1, <2>2, <2>3, <2>4
<1>6. PICK n : n = IF k = "crewai" THEN Len(t.memory) ELSE t.next[CTX]
  OBVIOUS
<1>7. n \in Nat
  BY <1>1, <1>6
<1>8. LateRow(a, t) = Row(CTX, n, LateText(a, t))
  BY <1>3, <1>6, ApiUse DEF LateRow
<1>9. PICK text : text = LateText(a, t)
  OBVIOUS
<1>10. PICK row : row = Row(CTX, n, text)
  OBVIOUS
<1>11. row \in Rows /\ row.owner = CTX /\ row.id = <<CTX, n>>
  BY <1>5, <1>7, <1>9, <1>10, RowIs, ContextsAre
<1>12. LateText(ApiOf(k), t) = text /\ LateRow(ApiOf(k), t) = row
  BY <1>3, <1>8, <1>9, <1>10
<1>13. <<CTX, n>> = IF k = "crewai" THEN <<CTX, Len(t.memory)>> ELSE <<CTX, t.next[CTX]>>
  BY <1>6
<1> QED
  BY <1>5, <1>9, <1>11, <1>12, <1>13

LEMMA ListedIs ==
    ASSUME NEW k \in FrameworkKinds, NEW t, DOMAIN t = Fields, NEW new \in Seq(Rows), NEW c,
           NEW u, u = Listed(Raw(k), ApiOf(k), t, new, c)
    PROVE  /\ DOMAIN u = Fields /\ u.rows = t.rows /\ u.next = t.next /\ u.held = t.held
           /\ u.memory = IF k \in Remembering /\ c = CTX
                         THEN t.memory \o [h \in DOMAIN new |-> new[h].id] ELSE t.memory
           /\ u.book = IF k = "mem0" THEN t.book \o [h \in DOMAIN new |-> new[h].id]
                       ELSE IF k \in Pointing /\ c = CTX
                            THEN Last([h \in DOMAIN new |-> new[h].id]) ELSE t.book
<1>1. PICK names : names = [h \in DOMAIN new |-> new[h].id]
  OBVIOUS
<1>2. PICK a, p : a = ApiOf(k) /\ p = Raw(k)
  OBVIOUS
<1>3. /\ a.lists = "in_memory" <=> k \in Remembering
      /\ a.lists = "in_the_book" <=> k = "mem0"
      /\ p.points <=> k \in Pointing
  BY <1>2, ApiUse, ProfileUse DEF VendorKinds
<1>4. CASE k \in Remembering
  <2>1. k # "mem0" /\ k \notin Pointing
    BY <1>4 DEF Remembering, Pointing
  <2>2. CASE c = CTX
    <3>1. u = [t EXCEPT !.memory = @ \o names]
      BY <1>1, <1>2, <1>3, <1>4, <2>1, <2>2 DEF Listed
    <3> QED
      BY <1>1, <1>4, <2>1, <2>2, <3>1 DEF Fields
  <2>3. CASE c # CTX
    <3>1. u = t
      BY <1>1, <1>2, <1>3, <1>4, <2>1, <2>3 DEF Listed
    <3> QED
      BY <1>1, <1>4, <2>1, <2>3, <3>1 DEF Fields
  <2> QED
    BY <2>2, <2>3
<1>5. CASE k = "mem0"
  <2>1. k \notin Remembering /\ k \notin Pointing
    BY <1>5 DEF Remembering, Pointing
  <2>2. u = [t EXCEPT !.book = @ \o names]
    BY <1>1, <1>2, <1>3, <1>5, <2>1 DEF Listed
  <2> QED
    BY <1>1, <1>5, <2>1, <2>2 DEF Fields
<1>6. CASE k \notin Remembering /\ k # "mem0"
  <2>1. CASE k \in Pointing /\ c = CTX
    <3>1. u = [t EXCEPT !.book = Last(names)]
      BY <1>1, <1>2, <1>3, <1>6, <2>1 DEF Listed
    <3> QED
      BY <1>1, <1>6, <2>1, <3>1 DEF Fields
  <2>2. CASE ~(k \in Pointing /\ c = CTX)
    <3>1. u = t
      BY <1>1, <1>2, <1>3, <1>6, <2>2 DEF Listed
    <3> QED
      BY <1>1, <1>6, <2>2, <3>1 DEF Fields
  <2> QED
    BY <2>1, <2>2
<1> QED
  BY <1>4, <1>5, <1>6

LEMMA NotAtelya == ASSUME NEW k \in FrameworkKinds PROVE k \notin AtelyaKinds /\ k \in VendorKinds /\ k # "acrf"
BY DEF FrameworkKinds, AtelyaKinds, VendorKinds

(* Names joined to a list of names.                                          *)
LEMMA NamesOfNew ==
    ASSUME NEW new \in Seq(Rows), NEW names, names = [h \in DOMAIN new |-> new[h].id]
    PROVE  names \in Seq(Ids_) /\ Len(names) = Len(new) /\ ToSet(names) = {row.id : row \in ToSet(new)}
<1>1. DOMAIN new = 1..Len(new) /\ Len(new) \in Nat /\ \A h \in 1..Len(new) : new[h] \in Rows
  OBVIOUS
<1>2. \A h \in 1..Len(new) : new[h].id \in Ids_
  BY <1>1, RowParts
<1>3. names \in Seq(Ids_) /\ Len(names) = Len(new) /\ DOMAIN names = 1..Len(new)
  BY <1>1, <1>2
<1>4. ToSet(names) = {row.id : row \in ToSet(new)}
  BY <1>1, <1>3 DEF ToSet
<1> QED
  BY <1>3, <1>4

(* A row appended, at the end or before the forged one.                       *)
LEMMA AppendRowIs ==
    ASSUME NEW a, a.lateFirst \in BOOLEAN, NEW t, StoreOK(t), NEW row \in Rows, row.id \notin Ids(t),
           NEW u, u = AppendRow(a, t, row)
    PROVE  /\ StoreOK(u) /\ DOMAIN u = Fields
           /\ ToSet(u.rows) = ToSet(t.rows) \cup {row} /\ Ids(u) = Ids(t) \cup {row.id}
           /\ u.next = [t.next EXCEPT ![CTX] = @ + 1]
           /\ u.memory = t.memory /\ u.book = t.book /\ u.held = t.held
<1>1. DOMAIN t = Fields /\ t.next \in [Contexts -> Nat] /\ t.rows \in Seq(Rows)
  BY StoreParts
<1>2. CASE a.lateFirst /\ ForgedId \in Ids(t)
  <2>1. PICK p : p = PlaceOf(t, ForgedId)
    OBVIOUS
  <2>2. p \in 1..(Len(t.rows) + 1)
    BY <1>2, <2>1, PlaceIs, StoreParts
  <2>3. PICK rows : rows = InsertAt(t.rows, p, row)
    OBVIOUS
  <2>4. u = [t EXCEPT !.rows = rows, !.next[CTX] = @ + 1]
    BY <1>2, <2>1, <2>3 DEF AppendRow
  <2>5. /\ DOMAIN u = Fields /\ u.rows = rows /\ u.next = [t.next EXCEPT ![CTX] = @ + 1]
        /\ u.memory = t.memory /\ u.book = t.book /\ u.held = t.held
    BY <1>1, <2>4 DEF Fields
  <2>6. u.next \in [Contexts -> Nat]
    BY <1>1, <2>5, ContextsAre
  <2>7. StoreOK(u) /\ ToSet(u.rows) = ToSet(t.rows) \cup {row} /\ Ids(u) = Ids(t) \cup {row.id}
    BY <2>2, <2>3, <2>5, <2>6, InsertRowIs
  <2> QED
    BY <2>5, <2>7
<1>3. CASE ~(a.lateFirst /\ ForgedId \in Ids(t))
  <2>1. u = AddRows(t, CTX, <<row>>)
    BY <1>3 DEF AppendRow
  <2>2. PICK new : new = <<row>>
    OBVIOUS
  <2>3. new \in Seq(Rows)
    BY <2>2, OneRow
  <2>4. DOMAIN AddRows(t, CTX, new) = Fields
    BY <2>3, AddIs, ContextsAre
  <2>5. /\ StoreOK(AddRows(t, CTX, <<row>>))
        /\ ToSet(AddRows(t, CTX, <<row>>).rows) = ToSet(t.rows) \cup {row}
        /\ Ids(AddRows(t, CTX, <<row>>)) = Ids(t) \cup {row.id}
        /\ AddRows(t, CTX, <<row>>).next = [t.next EXCEPT ![CTX] = @ + 1]
        /\ AddRows(t, CTX, <<row>>).memory = t.memory
        /\ AddRows(t, CTX, <<row>>).book = t.book
        /\ AddRows(t, CTX, <<row>>).held = t.held
    BY AddOneIs
  <2> QED
    BY <2>1, <2>2, <2>4, <2>5
<1> QED
  BY <1>2, <1>3

LEMMA FrameworkAppendStep ==
    ASSUME NEW k \in FrameworkKinds, NEW t, Fine(k, t)
    PROVE  Step(k, t, AppendFramework(Raw(k), ApiOf(k), t))
<1>0. StoreOK(t) /\ Remembers(k, t)
  BY DEF Fine
<1>1. PICK row : row = LateRow(ApiOf(k), t)
  OBVIOUS
<1>2. /\ row \in Rows /\ row.owner = CTX
      /\ row.id = IF k = "crewai" THEN <<CTX, Len(t.memory)>> ELSE <<CTX, t.next[CTX]>>
  BY <1>1, LateRowIs
<1>3. PICK n : n = Bound(k, t, CTX)
  OBVIOUS
<1>4. n \in Nat /\ row.id = <<CTX, n>>
  BY <1>0, <1>2, <1>3, BoundType, ContextsAre DEF Bound
<1>5. row.id \notin Ids(t)
  BY <1>3, <1>4, FreshName, ContextsAre, NotAtelya
<1>6. PICK u : u = AppendRow(ApiOf(k), t, row)
  OBVIOUS
<1>7. ApiOf(k).lateFirst \in BOOLEAN
  BY ApiCalls DEF Calls, FrameworkKinds
<1>8. /\ StoreOK(u) /\ DOMAIN u = Fields
      /\ ToSet(u.rows) = ToSet(t.rows) \cup {row} /\ Ids(u) = Ids(t) \cup {row.id}
      /\ u.next = [t.next EXCEPT ![CTX] = @ + 1]
      /\ u.memory = t.memory /\ u.book = t.book /\ u.held = t.held
  BY <1>0, <1>2, <1>5, <1>6, <1>7, AppendRowIs
<1>9. PICK new : new = <<row>>
  OBVIOUS
<1>10. new \in Seq(Rows) /\ Len(new) = 1 /\ ToSet(new) = {row}
  BY <1>2, <1>9, OneRow
<1>11. PICK names : names = [h \in DOMAIN new |-> new[h].id]
  OBVIOUS
<1>12. names \in Seq(Ids_) /\ Len(names) = 1 /\ ToSet(names) = {row.id}
  BY <1>10, <1>11, NamesOfNew
<1>13. PICK v : v = Listed(Raw(k), ApiOf(k), u, new, CTX)
  OBVIOUS
<1>14. /\ DOMAIN v = Fields /\ v.rows = u.rows /\ v.next = u.next
       /\ v.memory = IF k \in Remembering THEN u.memory \o names ELSE u.memory
       /\ k = "mem0" => v.book = u.book \o names
  <2>1. DOMAIN u = Fields
    BY <1>8
  <2>2. /\ DOMAIN v = Fields /\ v.rows = u.rows /\ v.next = u.next /\ v.held = u.held
        /\ v.memory = IF k \in Remembering /\ CTX = CTX
                      THEN u.memory \o [h \in DOMAIN new |-> new[h].id] ELSE u.memory
        /\ v.book = IF k = "mem0" THEN u.book \o [h \in DOMAIN new |-> new[h].id]
                    ELSE IF k \in Pointing /\ CTX = CTX
                         THEN Last([h \in DOMAIN new |-> new[h].id]) ELSE u.book
    BY <1>10, <1>13, <2>1, ListedIs
  <2> QED
    BY <1>11, <2>2
<1>15. StoreOK(v)
  BY <1>8, <1>14, SameRows
<1>16. t.memory \in Seq(Ids_)
  BY <1>0, NotAtelya DEF Remembers
<1>17. /\ v.memory \in Seq(Ids_)
       /\ k = "crewai" => Len(t.memory) < Len(v.memory)
  <2>1. CASE k \in Remembering
    <3>1. v.memory = t.memory \o names
      BY <1>8, <1>14, <2>1
    <3>2. PICK old : old = t.memory
      OBVIOUS
    <3>3. old \o names \in Seq(Ids_) /\ Len(old \o names) = Len(old) + Len(names) /\ Len(old) \in Nat
      BY <1>12, <1>16, <3>2, Concat
    <3> QED
      BY <1>12, <3>1, <3>2, <3>3
  <2>2. CASE k \notin Remembering
    BY <1>8, <1>14, <1>16, <2>2 DEF Remembering
  <2> QED
    BY <2>1, <2>2
<1>18. ASSUME k = "mem0" PROVE v.book \in Seq(Ids_) /\ Ids(v) \subseteq ToSet(v.book)
  <2>1. t.book \in Seq(Ids_) /\ Ids(t) \subseteq ToSet(t.book)
    BY <1>0, <1>18 DEF Remembers
  <2>2. v.book = t.book \o names
    BY <1>8, <1>14, <1>18
  <2>3. v.book \in Seq(Ids_) /\ ToSet(v.book) = ToSet(t.book) \cup {row.id}
    BY <1>12, <2>1, <2>2, Concat, ToSetConcat
  <2>4. Ids(v) = Ids(u)
    BY <1>14 DEF Ids
  <2> QED
    BY <1>8, <2>1, <2>3, <2>4
<1>19. Remembers(k, v)
  BY <1>17, <1>18, NotAtelya DEF Remembers
<1>20. k = "crewai" => Len(t.memory) <= Len(v.memory)
  BY <1>16, <1>17
<1>21. Step(k, t, v)
  BY <1>2, <1>8, <1>14, <1>15, <1>17, <1>19, <1>20, OneMoreStep
<1> QED
  BY <1>1, <1>6, <1>9, <1>13, <1>21 DEF AppendFramework

-----------------------------------------------------------------------------
(* What a store with evidence appends. *)

(* A row under the next name.                                                *)
LEMMA NextNameStep ==
    ASSUME NEW k, k \notin {"crewai", "mem0", "acrf"}, NEW t, Fine(k, t), NEW row \in Rows,
           row.owner = CTX, row.id = <<CTX, t.next[CTX]>>
    PROVE  /\ Step(k, t, AddRows(t, CTX, <<row>>)) /\ row.id \notin Ids(t)
<1>0. StoreOK(t) /\ Remembers(k, t)
  BY DEF Fine
<1>1. PICK n : n = t.next[CTX]
  OBVIOUS
<1>2. n \in Nat /\ n = Bound(k, t, CTX)
  BY <1>0, <1>1, StoreParts, ContextsAre DEF Bound
<1>3. row.id \notin Ids(t)
  BY <1>1, <1>2, FreshName, ContextsAre
<1>4. Step(k, t, AddRows(t, CTX, <<row>>))
  BY <1>3, AddOneStep
<1> QED
  BY <1>3, <1>4

(* The same, with other evidence beside the rows.                             *)
LEMMA NextNameBesideStep ==
    ASSUME NEW k, k \notin {"crewai", "mem0", "acrf"}, NEW t, Fine(k, t), NEW row \in Rows,
           row.owner = CTX, row.id = <<CTX, t.next[CTX]>>,
           NEW v, DOMAIN v = Fields, v.rows = AddRows(t, CTX, <<row>>).rows,
           v.next = AddRows(t, CTX, <<row>>).next, v.memory = AddRows(t, CTX, <<row>>).memory
    PROVE  Step(k, t, v)
<1>1. PICK u : u = AddRows(t, CTX, <<row>>)
  OBVIOUS
<1>2. Step(k, t, u)
  BY <1>1, NextNameStep
<1>3. v.rows = u.rows /\ v.next = u.next /\ v.memory = u.memory
  BY <1>1
<1> QED
  BY <1>2, <1>3, BesideStep

LEMMA AddDomain ==
    ASSUME NEW t, StoreOK(t), NEW c \in Contexts, NEW new, NEW u, u = AddRows(t, c, new), NEW x, NEW y
    PROVE  /\ DOMAIN u = Fields
           /\ DOMAIN [u EXCEPT !.book = x] = Fields /\ [u EXCEPT !.book = x].rows = u.rows
           /\ [u EXCEPT !.book = x].next = u.next /\ [u EXCEPT !.book = x].memory = u.memory
           /\ DOMAIN [u EXCEPT !.held = x] = Fields /\ [u EXCEPT !.held = x].rows = u.rows
           /\ [u EXCEPT !.held = x].next = u.next /\ [u EXCEPT !.held = x].memory = u.memory
           /\ DOMAIN [u EXCEPT !.book = x, !.held = y] = Fields
           /\ [u EXCEPT !.book = x, !.held = y].rows = u.rows
           /\ [u EXCEPT !.book = x, !.held = y].next = u.next
           /\ [u EXCEPT !.book = x, !.held = y].memory = u.memory
BY StoreParts DEF AddRows, Fields

LEMMA NextRowIs ==
    ASSUME NEW t, StoreOK(t), NEW text \in Texts
    PROVE  \E row \in Rows :
              /\ Row(CTX, t.next[CTX], text) = row
              /\ row.owner = CTX /\ row.id = <<CTX, t.next[CTX]>>
              /\ row.text = text /\ row.meta = [ts |-> t.next[CTX], marked |-> FALSE]
              /\ row.seal = <<>>
<1>1. PICK n : n = t.next[CTX]
  OBVIOUS
<1>2. n \in Nat
  BY <1>1, StoreParts, ContextsAre
<1>3. PICK row : row = Row(CTX, n, text)
  OBVIOUS
<1>4. /\ row \in Rows /\ row.owner = CTX /\ row.id = <<CTX, n>>
      /\ row.text = text /\ row.meta = [ts |-> n, marked |-> FALSE] /\ row.seal = <<>>
  BY <1>2, <1>3, RowIs, ContextsAre
<1> QED
  BY <1>1, <1>3, <1>4

LEMMA LedgerAppendStep ==
    ASSUME NEW t, Fine("ledger", t)
    PROVE  Step("ledger", t, LedgerAppend(t))
<1>0. StoreOK(t)
  BY DEF Fine
<1>1. PICK text : text = Text("late", 0)
  OBVIOUS
<1>2. PICK row : row = Row(CTX, t.next[CTX], text)
  OBVIOUS
<1>3. text \in Texts
  BY <1>1, TextIs
<1>4. row \in Rows /\ row.owner = CTX /\ row.id = <<CTX, t.next[CTX]>>
  <2>1. PICK r \in Rows :
           /\ Row(CTX, t.next[CTX], text) = r
           /\ r.owner = CTX /\ r.id = <<CTX, t.next[CTX]>>
           /\ r.text = text /\ r.meta = [ts |-> t.next[CTX], marked |-> FALSE]
    BY <1>0, <1>3, NextRowIs
  <2> QED
    BY <1>2, <2>1
<1>5. LateRow(LanggraphSqliteApi, t) = row
  BY <1>1, <1>2 DEF LateRow, LateText, LanggraphSqliteApi, ReadPath
<1>6. PICK u : u = AddRows(t, CTX, <<row>>)
  OBVIOUS
<1>7. PICK x : x = u.held \o [h \in DOMAIN <<row>> |-> <<<<row>>[h].id, <<row>>[h].text>>]
  OBVIOUS
<1>8. PICK v : v = [u EXCEPT !.held = x]
  OBVIOUS
<1>9. LedgerAppend(t) = v
  BY <1>5, <1>6, <1>7, <1>8 DEF LedgerAppend, LedgerLogged
<1>10. DOMAIN v = Fields /\ v.rows = u.rows /\ v.next = u.next /\ v.memory = u.memory
  BY <1>0, <1>6, <1>8, AddDomain, ContextsAre
<1>11. Step("ledger", t, v)
  BY <1>4, <1>6, <1>10, NextNameBesideStep
<1> QED
  BY <1>9, <1>11

LEMMA InspeximusAppendStep ==
    ASSUME NEW k \in InspeximusKinds, NEW t, Fine(k, t)
    PROVE  Step(k, t, InspeximusAppend(k, t))
<1>0. StoreOK(t) /\ k \notin {"crewai", "mem0", "acrf"} \cup AtelyaKinds
  BY DEF Fine, InspeximusKinds, AtelyaKinds
<1>1. PICK text : text = Text("late", Len(t.memory))
  OBVIOUS
<1>2. PICK row : row = Row(CTX, t.next[CTX], text)
  OBVIOUS
<1>3. text \in Texts
  BY <1>0, <1>1, TextIs DEF Fine, Remembers
<1>4. row \in Rows /\ row.owner = CTX /\ row.id = <<CTX, t.next[CTX]>>
  <2>1. PICK r \in Rows :
           /\ Row(CTX, t.next[CTX], text) = r
           /\ r.owner = CTX /\ r.id = <<CTX, t.next[CTX]>>
           /\ r.text = text /\ r.meta = [ts |-> t.next[CTX], marked |-> FALSE]
    BY <1>0, <1>3, NextRowIs
  <2> QED
    BY <1>2, <2>1
<1>5. PICK u : u = AddRows(t, CTX, <<row>>)
  OBVIOUS
<1>6. PICK x : x = ReceiptsFor(t.book, <<row>>)
  OBVIOUS
<1>7. PICK v : v = InspeximusAppend(k, t)
  OBVIOUS
<1>8. v = u \/ v = [u EXCEPT !.book = x, !.held = Last(x)]
  BY <1>1, <1>2, <1>5, <1>6, <1>7 DEF InspeximusAppend, InspeximusAdd
<1>9. DOMAIN v = Fields /\ v.rows = u.rows /\ v.next = u.next /\ v.memory = u.memory
  <2>1. CASE v = u
    BY <1>0, <1>5, <2>1, AddDomain, ContextsAre
  <2>2. CASE v = [u EXCEPT !.book = x, !.held = Last(x)]
    BY <1>0, <1>5, <2>2, AddDomain, ContextsAre
  <2> QED
    BY <1>8, <2>1, <2>2
<1>10. Step(k, t, v)
  BY <1>0, <1>4, <1>5, <1>9, NextNameBesideStep
<1> QED
  BY <1>7, <1>10

LEMMA AtmemAppendStep ==
    ASSUME NEW k \in AtmemKinds, NEW t, Fine(k, t)
    PROVE  Step(k, t, AtmemAppend(k, t))
<1>0. StoreOK(t) /\ k \notin {"crewai", "mem0", "acrf"}
  BY DEF Fine, AtmemKinds
<1>1. PICK text : text = Text("late", 0)
  OBVIOUS
<1>2. PICK row : row = Row(CTX, t.next[CTX], text)
  OBVIOUS
<1>3. text \in Texts
  BY <1>1, TextIs
<1>4. row \in Rows /\ row.owner = CTX /\ row.id = <<CTX, t.next[CTX]>>
  <2>1. PICK r \in Rows :
           /\ Row(CTX, t.next[CTX], text) = r
           /\ r.owner = CTX /\ r.id = <<CTX, t.next[CTX]>>
           /\ r.text = text /\ r.meta = [ts |-> t.next[CTX], marked |-> FALSE]
    BY <1>0, <1>3, NextRowIs
  <2> QED
    BY <1>2, <2>1
<1>5. PICK u : u = AddRows(t, CTX, <<row>>)
  OBVIOUS
<1>6. PICK x : x = [u.book EXCEPT ![CTX] = @ \o Told(<<row>>)]
  OBVIOUS
<1>7. PICK v : v = AtmemAppend(k, t)
  OBVIOUS
<1>8. \/ v = [u EXCEPT !.book = x]
      \/ \E y : v = [u EXCEPT !.book = x, !.held = y]
  <2>1. PICK w : w = [u EXCEPT !.book = x]
    OBVIOUS
  <2>2. w = [u EXCEPT !.book[CTX] = @ \o Told(<<row>>)]
    BY <2>1, <1>6
  <2>3. v = w \/ \E y : v = [w EXCEPT !.held = y]
    BY <1>1, <1>2, <1>5, <1>7, <2>2 DEF AtmemAppend, AtmemAdd
  <2> QED
    BY <2>1, <2>3
<1>9. DOMAIN v = Fields /\ v.rows = u.rows /\ v.next = u.next /\ v.memory = u.memory
  <2>1. CASE v = [u EXCEPT !.book = x]
    BY <1>0, <1>5, <2>1, AddDomain, ContextsAre
  <2>2. ASSUME NEW y, v = [u EXCEPT !.book = x, !.held = y]
        PROVE  DOMAIN v = Fields /\ v.rows = u.rows /\ v.next = u.next /\ v.memory = u.memory
    BY <1>0, <1>5, <2>2, AddDomain, ContextsAre
  <2> QED
    BY <1>8, <2>1, <2>2
<1>10. Step(k, t, v)
  BY <1>0, <1>4, <1>5, <1>9, NextNameBesideStep
<1> QED
  BY <1>7, <1>10

LEMMA BlackboxAppendStep ==
    ASSUME NEW k \in BlackboxKinds, NEW t, Fine(k, t)
    PROVE  Step(k, t, BlackboxAppend(t))
<1>0. StoreOK(t) /\ k \notin {"crewai", "mem0", "acrf"}
  BY DEF Fine, BlackboxKinds
<1>1. PICK text : text = Text("seed", Len(View(t, CTX)))
  OBVIOUS
<1>2. PICK row : row = Row(CTX, t.next[CTX], text)
  OBVIOUS
<1>3. text \in Texts
  BY <1>0, <1>1, TextIs, ViewIs
<1>4. row \in Rows /\ row.owner = CTX /\ row.id = <<CTX, t.next[CTX]>>
  <2>1. PICK r \in Rows :
           /\ Row(CTX, t.next[CTX], text) = r
           /\ r.owner = CTX /\ r.id = <<CTX, t.next[CTX]>>
           /\ r.text = text /\ r.meta = [ts |-> t.next[CTX], marked |-> FALSE]
    BY <1>0, <1>3, NextRowIs
  <2> QED
    BY <1>2, <2>1
<1>5. PICK u : u = AddRows(t, CTX, <<row>>)
  OBVIOUS
<1>6. PICK x : x = Files(u)
  OBVIOUS
<1>7. PICK v : v = [u EXCEPT !.book = x, !.held = x]
  OBVIOUS
<1>8. [u EXCEPT !.held = x, !.book = x] = v
  BY <1>7
<1>9. BlackboxAppend(t) = v
  BY <1>1, <1>2, <1>5, <1>6, <1>8 DEF BlackboxAppend, BlackboxAdd, BlackboxScan
<1>10. DOMAIN v = Fields /\ v.rows = u.rows /\ v.next = u.next /\ v.memory = u.memory
  BY <1>0, <1>5, <1>7, AddDomain, ContextsAre
<1>11. Step(k, t, v)
  BY <1>0, <1>4, <1>5, <1>10, NextNameBesideStep
<1> QED
  BY <1>9, <1>11

LEMMA AgentMemoryAppendStep ==
    ASSUME NEW t, Fine("agent_memory", t)
    PROVE  Step("agent_memory", t, AgentMemoryAppend(t))
<1>0. StoreOK(t)
  BY DEF Fine
<1>1. PICK text : text = Text("late", 0)
  OBVIOUS
<1>2. PICK row : row = Row(CTX, t.next[CTX], text)
  OBVIOUS
<1>3. text \in Texts
  BY <1>1, TextIs
<1>4. row \in Rows /\ row.owner = CTX /\ row.id = <<CTX, t.next[CTX]>>
  <2>1. PICK r \in Rows :
           /\ Row(CTX, t.next[CTX], text) = r
           /\ r.owner = CTX /\ r.id = <<CTX, t.next[CTX]>>
           /\ r.text = text /\ r.meta = [ts |-> t.next[CTX], marked |-> FALSE]
    BY <1>0, <1>3, NextRowIs
  <2> QED
    BY <1>2, <2>1
<1>5. PICK u : u = AddRows(t, CTX, <<row>>)
  OBVIOUS
<1>6. PICK v : v = [u EXCEPT !.book = Served(u)]
  OBVIOUS
<1>7. AgentMemoryAppend(t) = v
  BY <1>1, <1>2, <1>5, <1>6 DEF AgentMemoryAppend, AgentMemorySealed
<1>8. DOMAIN v = Fields /\ v.rows = u.rows /\ v.next = u.next /\ v.memory = u.memory
  BY <1>0, <1>5, <1>6, AddDomain, ContextsAre
<1>9. Step("agent_memory", t, v)
  BY <1>4, <1>5, <1>8, NextNameBesideStep
<1> QED
  BY <1>7, <1>9

(* Continuum appends the row with its seal.                                   *)
LEMMA ContinuumRow ==
    ASSUME NEW t, StoreOK(t), NEW new,
           new = ChainFrom(View(t, CTX), <<Row(CTX, t.next[CTX], Text("seed", Len(View(t, CTX))))>>)
    PROVE  \E row \in Rows :
              /\ new = <<row>> /\ row.owner = CTX /\ row.id = <<CTX, t.next[CTX]>>
              /\ Said(row) = <<Text("seed", Len(View(t, CTX))), [ts |-> t.next[CTX], marked |-> FALSE]>>
              /\ row.seal = Append(HeadOf(View(t, CTX)), Said(row))
<1>1. PICK text : text = Text("seed", Len(View(t, CTX)))
  OBVIOUS
<1>2. PICK first : first = Row(CTX, t.next[CTX], text)
  OBVIOUS
<1>3. text \in Texts
  BY <1>1, TextIs, ViewIs
<1>4. /\ first \in Rows /\ first.owner = CTX /\ first.id = <<CTX, t.next[CTX]>>
      /\ first.text = text /\ first.meta = [ts |-> t.next[CTX], marked |-> FALSE]
  <2>1. PICK r \in Rows :
           /\ Row(CTX, t.next[CTX], text) = r
           /\ r.owner = CTX /\ r.id = <<CTX, t.next[CTX]>>
           /\ r.text = text /\ r.meta = [ts |-> t.next[CTX], marked |-> FALSE]
    BY <1>3, NextRowIs
  <2> QED
    BY <1>2, <2>1
<1>5. PICK one : one = <<first>>
  OBVIOUS
<1>6. one \in Seq(Rows) /\ Len(one) = 1 /\ one[1] = first
  BY <1>4, <1>5, OneRow
<1>7. PICK view : view = View(t, CTX)
  OBVIOUS
<1>8. view \in Seq(Rows)
  BY <1>7, ViewIs
<1>9. new = ChainFrom(view, one)
  BY <1>1, <1>2, <1>5, <1>7
<1>10. /\ new \in Seq(Rows) /\ Len(new) = Len(one)
       /\ \A i \in 1..Len(one) :
             /\ new[i].id = one[i].id /\ new[i].owner = one[i].owner
             /\ Said(new[i]) = Said(one[i])
             /\ new[i].seal = HeadOf(view) \o Told(SubSeq(one, 1, i))
  <2>1. one \in Seq(Rows)
    BY <1>6
  <2>2. /\ ChainFrom(view, one) \in Seq(Rows) /\ Len(ChainFrom(view, one)) = Len(one)
        /\ \A i \in 1..Len(one) :
              /\ ChainFrom(view, one)[i].id = one[i].id
              /\ ChainFrom(view, one)[i].owner = one[i].owner
              /\ Said(ChainFrom(view, one)[i]) = Said(one[i])
              /\ ChainFrom(view, one)[i].seal = HeadOf(view) \o Told(SubSeq(one, 1, i))
    BY <1>8, <2>1, ChainFromIs
  <2> QED
    BY <1>9, <2>2
<1>11. new = <<new[1]>> /\ new[1] \in Rows
  BY <1>6, <1>10
<1>12. 1 \in 1..Len(one)
  BY <1>6
<1>13. /\ new[1].id = <<CTX, t.next[CTX]>> /\ new[1].owner = CTX
       /\ Said(new[1]) = <<text, [ts |-> t.next[CTX], marked |-> FALSE]>>
  BY <1>4, <1>6, <1>10, <1>12 DEF Said
<1>14. SubSeq(one, 1, 1) = one
  BY <1>6
<1>15. Told(one) = <<Said(first)>>
  BY <1>5 DEF Told
<1>16. HeadOf(view) \in Seq(Saids)
  BY <1>8, <1>10, <1>6, ChainFromIs
<1>17. Said(first) \in Saids
  BY <1>4, RowParts
<1>18. new[1].seal = HeadOf(view) \o <<Said(first)>>
  BY <1>10, <1>12, <1>14, <1>15
<1>19. new[1].seal = Append(HeadOf(view), Said(first))
  <2>1. PICK head : head = HeadOf(view)
    OBVIOUS
  <2>2. PICK said : said = Said(first)
    OBVIOUS
  <2>3. head \in Seq(Saids) /\ said \in Saids
    BY <1>16, <1>17, <2>1, <2>2
  <2>4. head \o <<said>> = Append(head, said)
    BY <2>3
  <2> QED
    BY <1>18, <2>1, <2>2, <2>4
<1>20. Said(new[1]) = Said(first)
  BY <1>6, <1>10, <1>12
<1> QED
  BY <1>1, <1>7, <1>11, <1>13, <1>19, <1>20

LEMMA ContinuumAppendStep ==
    ASSUME NEW k \in ContinuumKinds, NEW t, Fine(k, t)
    PROVE  Step(k, t, ContinuumAppend(k, t))
<1>0. StoreOK(t) /\ k \notin {"crewai", "mem0", "acrf"}
  BY DEF Fine, ContinuumKinds
<1>1. PICK new : new = ChainFrom(View(t, CTX), <<Row(CTX, t.next[CTX], Text("seed", Len(View(t, CTX))))>>)
  OBVIOUS
<1>2. PICK row \in Rows : new = <<row>> /\ row.owner = CTX /\ row.id = <<CTX, t.next[CTX]>>
  BY <1>0, <1>1, ContinuumRow
<1>3. PICK u : u = AddRows(t, CTX, <<row>>)
  OBVIOUS
<1>4. PICK v : v = ContinuumAppend(k, t)
  OBVIOUS
<1>5. v = u \/ v = [u EXCEPT !.held = ContinuumHead(u)]
  BY <1>1, <1>2, <1>3, <1>4 DEF ContinuumAppend, ContinuumAdd
<1>6. DOMAIN v = Fields /\ v.rows = u.rows /\ v.next = u.next /\ v.memory = u.memory
  <2>1. CASE v = u
    BY <1>0, <1>3, <2>1, AddDomain, ContextsAre
  <2>2. CASE v = [u EXCEPT !.held = ContinuumHead(u)]
    BY <1>0, <1>3, <2>2, AddDomain, ContextsAre
  <2> QED
    BY <1>5, <2>1, <2>2
<1>7. Step(k, t, v)
  BY <1>0, <1>2, <1>3, <1>6, NextNameBesideStep
<1> QED
  BY <1>4, <1>7

LEMMA AcrfAppendStep ==
    ASSUME NEW t, Fine("acrf", t)
    PROVE  Step("acrf", t, AcrfAppend(t))
<1>1. StoreOK(t)
  BY DEF Fine
<1>2. PICK row : row = Signed(AcrfLate(t))
  OBVIOUS
<1>3. row \in Rows /\ row.owner = CTX /\ row.id = <<CTX, Len(View(t, CTX))>>
  BY <1>1, <1>2, AcrfRows
<1>4. row.id[1] = CTX
  BY <1>3
<1>5. Step("acrf", t, AcrfPut(t, row))
  BY <1>3, <1>4, AcrfPutStep
<1> QED
  BY <1>2, <1>5 DEF AcrfAppend

LEMMA AcrfForgeStep ==
    ASSUME NEW t, Fine("acrf", t), View(t, CTX) # <<>>
    PROVE  Step("acrf", t, AcrfForge(t))
<1>1. StoreOK(t)
  BY DEF Fine
<1>2. PICK row : row = [Last(View(t, CTX)) EXCEPT !.id = <<CTX, Len(View(t, CTX))>>, !.text = Text("forged", 0)]
  OBVIOUS
<1>3. row \in Rows /\ row.owner = CTX /\ row.id = <<CTX, Len(View(t, CTX))>>
  BY <1>1, <1>2, AcrfForgedIs
<1>4. row.id[1] = CTX
  BY <1>3
<1>5. Step("acrf", t, AcrfPut(t, row))
  BY <1>3, <1>4, AcrfPutStep
<1> QED
  BY <1>2, <1>5 DEF AcrfForge

(* Atelya's file rebuilt: the rows of a context are the chain over its events. *)
AtelyaRows(owner, texts) == [h \in DOMAIN texts |-> Row(owner, h - 1, texts[h])]
LEMMA AtelyaRowsAre ==
    ASSUME NEW c \in Contexts, NEW texts \in Seq(Texts)
    PROVE  /\ AtelyaRows(c, texts) \in Seq(Rows) /\ Len(AtelyaRows(c, texts)) = Len(texts)
           /\ \A h \in 1..Len(texts) :
                 /\ AtelyaRows(c, texts)[h].id = <<c, h - 1>> /\ AtelyaRows(c, texts)[h].owner = c
                 /\ Said(AtelyaRows(c, texts)[h]) = <<texts[h], [ts |-> h - 1, marked |-> FALSE]>>
<1>1. Len(texts) \in Nat /\ DOMAIN texts = 1..Len(texts) /\ \A h \in 1..Len(texts) : texts[h] \in Texts
  OBVIOUS
<1>2. ASSUME NEW h \in 1..Len(texts)
      PROVE  \E row \in Rows : /\ Row(c, h - 1, texts[h]) = row /\ row.id = <<c, h - 1>> /\ row.owner = c
                               /\ Said(row) = <<texts[h], [ts |-> h - 1, marked |-> FALSE]>>
  <2>1. PICK n : n = h - 1
    OBVIOUS
  <2>2. n \in Nat
    BY <1>1, <2>1
  <2>3. PICK text : text = texts[h]
    OBVIOUS
  <2>4. text \in Texts
    BY <1>1, <2>3
  <2>5. PICK row : row = Row(c, n, text)
    OBVIOUS
  <2>6. row \in Rows /\ row.id = <<c, n>> /\ row.owner = c
    BY <2>2, <2>4, <2>5, RowIs
  <2>7. row.text = text /\ row.meta = [ts |-> n, marked |-> FALSE]
    BY <2>2, <2>4, <2>5, RowIs
  <2>8. Said(row) = <<text, [ts |-> n, marked |-> FALSE]>>
    BY <2>7 DEF Said
  <2> QED
    BY <2>1, <2>3, <2>5, <2>6, <2>8
<1>3. PICK rows : rows = AtelyaRows(c, texts)
  OBVIOUS
<1>4. rows = [h \in 1..Len(texts) |-> Row(c, h - 1, texts[h])]
  BY <1>1, <1>3 DEF AtelyaRows
<1>5. \A h \in 1..Len(texts) : Row(c, h - 1, texts[h]) \in Rows
  BY <1>2
<1>6. rows \in Seq(Rows) /\ Len(rows) = Len(texts)
  BY <1>1, <1>4, <1>5
<1>7. \A h \in 1..Len(texts) :
         /\ rows[h].id = <<c, h - 1>> /\ rows[h].owner = c
         /\ Said(rows[h]) = <<texts[h], [ts |-> h - 1, marked |-> FALSE]>>
  BY <1>2, <1>4
<1> QED
  BY <1>3, <1>6, <1>7

LEMMA AtelyaRebuiltIs ==
    ASSUME NEW t, StoreOK(t), NEW c \in Contexts, NEW texts \in Seq(Texts),
           \A row \in ToSet(t.rows) : row.id[1] = row.owner,
           NEW u, u = AtelyaRebuilt(t, c, texts)
    PROVE  /\ StoreOK(u) /\ DOMAIN u = Fields
           /\ u.next = [t.next EXCEPT ![c] = Len(texts)]
           /\ u.book = t.book /\ u.held = t.held /\ u.memory = t.memory
           /\ View(u, c) = ChainFrom(<<>>, AtelyaRows(c, texts))
           /\ \A row \in ToSet(u.rows) :
                 \/ row \in ToSet(t.rows) /\ row.owner # c
                 \/ row.owner = c /\ row.id[1] = c /\ row.id[2] < Len(texts)
<1>0. /\ DOMAIN t = Fields /\ t.next \in [Contexts -> Nat] /\ t.rows \in Seq(Rows)
      /\ Distinct(t.rows)
  BY StoreParts
<1>1. PICK here : here = DOMAIN t.rows \ Places(t, c)
  OBVIOUS
<1>2. here \subseteq DOMAIN t.rows
  BY <1>1
<1>3. PICK rest : rest = Picked(t.rows, here)
  OBVIOUS
<1>4. rest \in Seq(Rows) /\ Distinct(rest) /\ ToSet(rest) = {t.rows[i] : i \in here}
  BY <1>0, <1>2, <1>3, PickedIs, PickedDistinct, ToSetPicked
<1>5. ToSet(rest) = {row \in ToSet(t.rows) : row.owner # c}
  BY <1>1, <1>4 DEF ToSet, Places
<1>6. PICK new : new = AtelyaRows(c, texts)
  OBVIOUS
<1>7. /\ new \in Seq(Rows) /\ Len(new) = Len(texts)
      /\ \A h \in 1..Len(texts) : new[h].id = <<c, h - 1>> /\ new[h].owner = c
  <2>1. /\ AtelyaRows(c, texts) \in Seq(Rows) /\ Len(AtelyaRows(c, texts)) = Len(texts)
        /\ \A h \in 1..Len(texts) :
              /\ AtelyaRows(c, texts)[h].id = <<c, h - 1>> /\ AtelyaRows(c, texts)[h].owner = c
              /\ Said(AtelyaRows(c, texts)[h]) = <<texts[h], [ts |-> h - 1, marked |-> FALSE]>>
    BY Zenon, AtelyaRowsAre
  <2> QED
    BY <1>6, <2>1
<1>8. PICK none : none = <<>>
  OBVIOUS
<1>9. none \in Seq(Rows)
  BY <1>8
<1>10. PICK chain : chain = ChainFrom(none, new)
  OBVIOUS
<1>11. /\ ChainFrom(none, new) \in Seq(Rows) /\ Len(ChainFrom(none, new)) = Len(new)
       /\ \A h \in 1..Len(new) :
             /\ ChainFrom(none, new)[h].id = new[h].id
             /\ ChainFrom(none, new)[h].owner = new[h].owner
  BY <1>7, <1>9, ChainFromIs
<1>12. /\ chain \in Seq(Rows) /\ Len(chain) = Len(texts) /\ Len(texts) \in Nat
       /\ \A h \in 1..Len(texts) : chain[h].id = <<c, h - 1>> /\ chain[h].owner = c
  BY <1>7, <1>10, <1>11
<1>13. Distinct(chain)
  BY <1>12 DEF Distinct
<1>14. \A row \in ToSet(chain) : row.owner = c /\ row.id[1] = c /\ row.id[2] < Len(texts)
  BY <1>12 DEF ToSet
<1>15. \A v \in ToSet(rest), w \in ToSet(chain) : v.id # w.id
  <2>1. \A v \in ToSet(rest) : v.id[1] # c
    BY <1>5
  <2> QED
    BY <1>14, <2>1
<1>16. /\ rest \o chain \in Seq(Rows) /\ Distinct(rest \o chain)
       /\ ToSet(rest \o chain) = ToSet(rest) \cup ToSet(chain)
  BY <1>4, <1>12, <1>13, <1>15, ConcatDistinct
<1>17. u = [t EXCEPT !.rows = rest \o chain, !.next[c] = Len(texts)]
  BY <1>1, <1>3, <1>6, <1>8, <1>10 DEF AtelyaRebuilt, AtelyaRows
<1>18. /\ DOMAIN u = Fields /\ u.rows = rest \o chain
       /\ u.next = [t.next EXCEPT ![c] = Len(texts)]
       /\ u.book = t.book /\ u.held = t.held /\ u.memory = t.memory
  BY <1>0, <1>17 DEF Fields
<1>19. u.next \in [Contexts -> Nat]
  BY <1>0, <1>12, <1>18
<1>20. StoreOK(u)
  BY <1>16, <1>18, <1>19 DEF StoreOK, Distinct, Fields
<1>21. \A row \in ToSet(u.rows) :
          \/ row \in ToSet(t.rows) /\ row.owner # c
          \/ row.owner = c /\ row.id[1] = c /\ row.id[2] < Len(texts)
  BY <1>5, <1>14, <1>16, <1>18
<1>22. PICK r : r = [t EXCEPT !.rows = rest]
  OBVIOUS
<1>23. DOMAIN r = Fields /\ r.rows = rest /\ r.next = t.next
  BY <1>0, <1>22 DEF Fields
<1>24. StoreOK(r)
  BY <1>0, <1>4, <1>23 DEF StoreOK, Distinct, Fields
<1>25. View(r, c) = <<>>
  <2>1. ToSet(View(r, c)) = {}
    BY <1>5, <1>23, <1>24, ViewSet
  <2>2. PICK view : view = View(r, c)
    OBVIOUS
  <2>3. view \in Seq(Rows)
    BY <1>24, <2>2, ViewIs
  <2>4. ASSUME Len(view) # 0 PROVE FALSE
    <3>1. 1 \in 1..Len(view)
      BY <2>3, <2>4
    <3>2. view[1] \in ToSet(view)
      BY <2>3, <3>1, ToSetIn
    <3> QED
      BY <2>1, <2>2, <3>2
  <2>5. view = <<>>
    BY <2>3, <2>4
  <2> QED
    BY <2>2, <2>5
<1>26. u.rows = r.rows \o chain
  BY <1>18, <1>23
<1>27. \A h \in 1..Len(chain) : chain[h].owner = c
  BY <1>12
<1>28. View(u, c) = View(r, c) \o chain
  <2>1. chain \in Seq(Rows)
    BY <1>12
  <2> QED
    BY <1>24, <1>26, <1>27, <2>1, ViewGrows
<1>29. View(u, c) = chain
  BY <1>12, <1>25, <1>28
<1> QED
  BY <1>6, <1>8, <1>10, <1>18, <1>20, <1>21, <1>29

LEMMA AtelyaRebuiltStep ==
    ASSUME NEW k \in AtelyaKinds, NEW t, Fine(k, t), NEW c \in Contexts, NEW texts \in Seq(Texts),
           NEW u, u = AtelyaRebuilt(t, c, texts),
           NEW v, DOMAIN v = Fields, v.rows = u.rows, v.next = u.next, v.memory \in Seq(Texts)
    PROVE  Step(k, t, v)
<1>1. StoreOK(t) /\ OwnsNames(k) /\ k # "crewai" /\ k # "mem0" /\ k # "acrf" /\ CountsNames(k)
  BY DEF Fine, OwnsNames, AtelyaKinds, InspeximusKinds, CountsNames
<1>2. \A row \in ToSet(t.rows) : row.id[1] = row.owner /\ row.id[2] < t.next[row.id[1]]
  BY <1>1 DEF Fine, Named, NamedRow, Bound
<1>3. /\ StoreOK(u) /\ u.next = [t.next EXCEPT ![c] = Len(texts)]
      /\ \A row \in ToSet(u.rows) :
            \/ row \in ToSet(t.rows) /\ row.owner # c
            \/ row.owner = c /\ row.id[1] = c /\ row.id[2] < Len(texts)
  BY <1>1, <1>2, AtelyaRebuiltIs
<1>4. StoreOK(v)
  BY <1>3, SameRows
<1>5. ASSUME NEW row \in ToSet(v.rows) PROVE NamedRow(k, v, row)
  <2>1. Bound(k, v, row.id[1]) = u.next[row.id[1]]
    BY <1>1 DEF Bound
  <2>2. row \in ToSet(u.rows)
    OBVIOUS
  <2>3. t.next \in [Contexts -> Nat] /\ Len(texts) \in Nat
    BY <1>1, StoreParts
  <2>4. CASE row \in ToSet(t.rows) /\ row.owner # c
    <3>1. row.id[1] = row.owner /\ row.id[2] < t.next[row.id[1]] /\ row.id[1] # c
      BY <1>2, <2>4
    <3>2. row.id[1] \in Contexts
      BY <1>1, <2>4, RowsIn, RowParts
    <3>3. u.next[row.id[1]] = t.next[row.id[1]]
      BY <1>3, <2>3, <3>1, <3>2
    <3> QED
      BY <2>1, <3>1, <3>3 DEF NamedRow
  <2>5. CASE row.owner = c /\ row.id[1] = c /\ row.id[2] < Len(texts)
    <3>1. u.next[c] = Len(texts)
      BY <1>3, <2>3
    <3> QED
      BY <2>1, <2>5, <3>1 DEF NamedRow
  <2> QED
    BY <1>3, <2>2, <2>4, <2>5
<1>6. Remembers(k, v)
  BY <1>1 DEF Remembers
<1>7. Fine(k, v)
  BY <1>4, <1>5, <1>6 DEF Fine, Named
<1> QED
  BY <1>1, <1>7 DEF Step

-----------------------------------------------------------------------------
(* The seed of a context. *)

SeedText(c) == IF c = CTX THEN "seed" ELSE "other"
LEMMA SeedRowsAre ==
    ASSUME NEW t, StoreOK(t), NEW c \in Contexts, t.next[c] = 0
    PROVE  /\ SeedRows(t, c) \in Seq(Rows) /\ Len(SeedRows(t, c)) = SeedCount
           /\ \A h \in 1..SeedCount :
                 /\ SeedRows(t, c)[h].id = <<c, h - 1>> /\ SeedRows(t, c)[h].owner = c
                 /\ SeedRows(t, c)[h].text = Text(SeedText(c), h - 1)
                 /\ SeedRows(t, c)[h].meta = [ts |-> h - 1, marked |-> FALSE]
                 /\ SeedRows(t, c)[h].text \in Texts
<1>1. PICK from : from = SeedText(c)
  OBVIOUS
<1>2. from \in {"seed", "other", "late", "forged"}
  BY <1>1 DEF SeedText
<1>3. SeedCount \in Nat
  BY SeedCountIs
<1>4. ASSUME NEW h \in 1..SeedCount
      PROVE  \E row \in Rows :
                /\ Row(c, t.next[c] + h - 1, Text(from, h - 1)) = row
                /\ row.id = <<c, h - 1>> /\ row.owner = c
                /\ row.text = Text(from, h - 1) /\ row.meta = [ts |-> h - 1, marked |-> FALSE]
                /\ row.text \in Texts
  <2>1. PICK n : n = h - 1
    OBVIOUS
  <2>2. n \in Nat /\ t.next[c] + h - 1 = n
    BY <1>3, <2>1
  <2>3. PICK text : text = Text(from, n)
    OBVIOUS
  <2>4. text \in Texts
    BY <1>2, <2>2, <2>3, TextIs
  <2>5. PICK row : row = Row(c, n, text)
    OBVIOUS
  <2>6. row \in Rows /\ row.id = <<c, n>> /\ row.owner = c
    BY <2>2, <2>4, <2>5, RowIs
  <2>7. row.text = text /\ row.meta = [ts |-> n, marked |-> FALSE]
    BY <2>2, <2>4, <2>5, RowIs
  <2> QED
    BY <2>1, <2>2, <2>3, <2>4, <2>5, <2>6, <2>7
<1>5. PICK rows : rows = SeedRows(t, c)
  OBVIOUS
<1>6. rows = [h \in 1..SeedCount |-> Row(c, t.next[c] + h - 1, Text(from, h - 1))]
  BY <1>1, <1>5 DEF SeedRows, SeedText
<1>7. \A h \in 1..SeedCount : Row(c, t.next[c] + h - 1, Text(from, h - 1)) \in Rows
  BY <1>4
<1>8. rows \in Seq(Rows) /\ Len(rows) = SeedCount
  BY <1>3, <1>6, <1>7
<1>9. \A h \in 1..SeedCount :
         /\ rows[h].id = <<c, h - 1>> /\ rows[h].owner = c
         /\ rows[h].text = Text(from, h - 1)
         /\ rows[h].meta = [ts |-> h - 1, marked |-> FALSE]
         /\ rows[h].text \in Texts
  BY <1>4, <1>6
<1> QED
  BY <1>1, <1>5, <1>8, <1>9

LEMMA SeedStep ==
    ASSUME NEW k \in VendorKinds, NEW t, Fine(k, t), NEW c \in Contexts, t.next[c] = 0,
           c = CTX => t.rows = <<>> /\ t.memory = <<>>,
           NEW new \in Seq(Rows), Len(new) = SeedCount,
           \A h \in 1..SeedCount : new[h].id = <<c, h - 1>> /\ new[h].owner = c,
           NEW u, DOMAIN u = Fields, u.rows = t.rows \o new,
           u.next = [t.next EXCEPT ![c] = @ + SeedCount], Remembers(k, u),
           k = "crewai" => Len(t.memory) <= Len(u.memory) /\ (c = CTX => Len(u.memory) = SeedCount)
    PROVE  Step(k, t, u)
<1>0. StoreOK(t) /\ Remembers(k, t) /\ SeedCount \in Nat /\ t.next \in [Contexts -> Nat]
  BY SeedCountIs, StoreParts DEF Fine
<1>1. Bound(k, t, c) = 0
  BY DEF Bound
<1>2. ASSUME NEW row \in ToSet(new)
      PROVE  row.owner = c /\ row.id[1] = c /\ row.id[2] < SeedCount /\ row.id \notin Ids(t)
  <2>1. PICK h \in 1..SeedCount : row = new[h]
    BY <1>0 DEF ToSet
  <2>2. row.id = <<c, h - 1>> /\ row.owner = c
    BY <2>1
  <2>3. row.id \notin Ids(t)
    <3>1. CASE c = CTX
      <4>1. DOMAIN t.rows = {}
        BY <3>1
      <4> QED
        BY <4>1 DEF Ids
    <3>2. CASE c # CTX
      <4>1. PICK n : n = h - 1
        OBVIOUS
      <4>2. n \in Int /\ n >= Bound(k, t, c)
        BY <1>0, <1>1, <4>1
      <4>3. <<c, n>> \notin Ids(t)
        BY <3>2, <4>2, FreshName
      <4> QED
        BY <2>2, <4>1, <4>3
    <3> QED
      BY <3>1, <3>2
  <2> QED
    BY <1>0, <2>2, <2>3
<1>3. Distinct(new)
  BY <1>0 DEF Distinct
<1>4. u.next \in [Contexts -> Nat]
  BY <1>0
<1>5. \A row \in ToSet(new) : row.id \notin Ids(t)
  BY <1>2
<1>6. StoreOK(u) /\ ToSet(u.rows) = ToSet(t.rows) \cup ToSet(new)
  BY <1>0, <1>3, <1>4, <1>5, JoinIs
<1>7. u.next[c] = SeedCount /\ \A d \in Contexts : d # c => u.next[d] = t.next[d]
  BY <1>0
<1>8. BoundsGrow(k, t, u)
  BY <1>0, <1>1, <1>7 DEF BoundsGrow, Bound
<1>9. Bound(k, u, c) = SeedCount
  BY <1>7 DEF Bound
<1>10. \A row \in ToSet(new) : NamedRow(k, u, row)
  BY <1>2, <1>9 DEF NamedRow
<1>11. \A row \in ToSet(u.rows) : row \in ToSet(t.rows) \/ NamedRow(k, u, row)
  BY <1>6, <1>10
<1> QED
  BY <1>6, <1>8, <1>11, GrownStep

(* A store as it is before the seed of a context.                             *)
Unseeded(t, c) == t.next[c] = 0 /\ (c = CTX => t.rows = <<>> /\ t.memory = <<>>)

LEMMA FrameworkSeedStep ==
    ASSUME NEW k \in FrameworkKinds, NEW t, Fine(k, t), NEW c \in Contexts, Unseeded(t, c)
    PROVE  Step(k, t, SeedFramework(Raw(k), ApiOf(k), t, c))
<1>0. StoreOK(t) /\ Remembers(k, t) /\ t.next[c] = 0 /\ SeedCount \in Nat
  BY SeedCountIs DEF Fine, Unseeded
<1>1. PICK new : new = SeedRows(t, c)
  OBVIOUS
<1>2. /\ new \in Seq(Rows) /\ Len(new) = SeedCount
      /\ \A h \in 1..SeedCount : new[h].id = <<c, h - 1>> /\ new[h].owner = c
  <2>1. /\ SeedRows(t, c) \in Seq(Rows) /\ Len(SeedRows(t, c)) = SeedCount
        /\ \A h \in 1..SeedCount :
              /\ SeedRows(t, c)[h].id = <<c, h - 1>> /\ SeedRows(t, c)[h].owner = c
              /\ SeedRows(t, c)[h].text = Text(SeedText(c), h - 1)
              /\ SeedRows(t, c)[h].meta = [ts |-> h - 1, marked |-> FALSE]
              /\ SeedRows(t, c)[h].text \in Texts
    BY Zenon, <1>0, SeedRowsAre
  <2> QED
    BY <1>1, <2>1
<1>3. PICK w : w = AddRows(t, c, new)
  OBVIOUS
<1>4. /\ DOMAIN w = Fields /\ w.rows = t.rows \o new
      /\ w.next = [t.next EXCEPT ![c] = @ + Len(new)]
      /\ w.memory = t.memory /\ w.book = t.book
  <2>1. new \in Seq(Rows)
    BY <1>2
  <2>2. /\ DOMAIN AddRows(t, c, new) = Fields
        /\ AddRows(t, c, new).rows = t.rows \o new
        /\ AddRows(t, c, new).next = [t.next EXCEPT ![c] = @ + Len(new)]
        /\ AddRows(t, c, new).memory = t.memory
        /\ AddRows(t, c, new).book = t.book
    BY <1>0, <2>1, AddIs
  <2> QED
    BY <1>3, <2>2
<1>5. PICK names : names = [h \in DOMAIN new |-> new[h].id]
  OBVIOUS
<1>6. names \in Seq(Ids_) /\ Len(names) = Len(new) /\ ToSet(names) = {row.id : row \in ToSet(new)}
  BY <1>2, <1>5, NamesOfNew
<1>7. PICK u : u = Listed(Raw(k), ApiOf(k), w, new, c)
  OBVIOUS
<1>8. /\ DOMAIN u = Fields /\ u.rows = w.rows /\ u.next = w.next
      /\ u.memory = IF k \in Remembering /\ c = CTX THEN w.memory \o names ELSE w.memory
      /\ k = "mem0" => u.book = w.book \o names
  <2>1. DOMAIN w = Fields
    BY <1>4
  <2>2. /\ DOMAIN u = Fields /\ u.rows = w.rows /\ u.next = w.next /\ u.held = w.held
        /\ u.memory = IF k \in Remembering /\ c = CTX
                      THEN w.memory \o [h \in DOMAIN new |-> new[h].id] ELSE w.memory
        /\ u.book = IF k = "mem0" THEN w.book \o [h \in DOMAIN new |-> new[h].id]
                    ELSE IF k \in Pointing /\ c = CTX
                         THEN Last([h \in DOMAIN new |-> new[h].id]) ELSE w.book
    BY <1>2, <1>7, <2>1, ListedIs
  <2> QED
    BY <1>5, <2>2
<1>9. u.rows = t.rows \o new /\ u.next = [t.next EXCEPT ![c] = @ + SeedCount]
  BY <1>2, <1>4, <1>8
<1>10. t.memory \in Seq(Ids_)
  BY <1>0, NotAtelya DEF Remembers
<1>11. /\ u.memory \in Seq(Ids_)
       /\ k = "crewai" => Len(t.memory) <= Len(u.memory) /\ (c = CTX => Len(u.memory) = SeedCount)
  <2>1. CASE k \in Remembering /\ c = CTX
    <3>1. PICK old : old = t.memory
      OBVIOUS
    <3>2. old \in Seq(Ids_) /\ Len(old) = 0
      BY <1>10, <2>1, <3>1 DEF Unseeded
    <3>3. old \o names \in Seq(Ids_) /\ Len(old \o names) = Len(old) + Len(names)
      BY <1>6, <3>2, Concat
    <3>4. u.memory = old \o names
      BY <1>4, <1>8, <2>1, <3>1
    <3> QED
      BY <1>0, <1>2, <1>6, <3>1, <3>2, <3>3, <3>4
  <2>2. CASE ~(k \in Remembering /\ c = CTX)
    <3>1. u.memory = t.memory
      BY <1>4, <1>8, <2>2
    <3>2. k = "crewai" => c # CTX
      BY <2>2 DEF Remembering
    <3> QED
      BY <1>10, <3>1, <3>2
  <2> QED
    BY <2>1, <2>2
<1>12. ASSUME k = "mem0" PROVE u.book \in Seq(Ids_) /\ Ids(u) \subseteq ToSet(u.book)
  <2>1. t.book \in Seq(Ids_) /\ Ids(t) \subseteq ToSet(t.book)
    BY <1>0, <1>12 DEF Remembers
  <2>2. u.book = t.book \o names
    BY <1>4, <1>8, <1>12
  <2>3. u.book \in Seq(Ids_) /\ ToSet(u.book) = ToSet(t.book) \cup {row.id : row \in ToSet(new)}
    BY <1>6, <2>1, <2>2, Concat, ToSetConcat
  <2>4. t.rows \in Seq(Rows)
    BY <1>0, StoreParts
  <2>5. ToSet(u.rows) = ToSet(t.rows) \cup ToSet(new)
    BY <1>2, <1>9, <2>4, ToSetConcat
  <2>6. Ids(t) = {row.id : row \in ToSet(t.rows)}
    BY <1>0, RowsIn
  <2>7. Ids(u) = {row.id : row \in ToSet(u.rows)}
    BY DEF Ids, ToSet
  <2> QED
    BY <2>1, <2>3, <2>5, <2>6, <2>7
<1>13. Remembers(k, u)
  BY <1>11, <1>12, NotAtelya DEF Remembers
<1>14. k \in VendorKinds
  BY NotAtelya
<1>15. c = CTX => t.rows = <<>> /\ t.memory = <<>>
  BY DEF Unseeded
<1>16. Step(k, t, u)
  BY <1>0, <1>2, <1>8, <1>9, <1>4, <1>11, <1>13, <1>14, <1>15, SeedStep
<1> QED
  BY <1>1, <1>3, <1>7, <1>16 DEF SeedFramework

(* The seed, possibly sealed row by row, with other evidence beside the rows.   *)
LEMMA EvidenceSeedStep ==
    ASSUME NEW k \in VendorKinds, k \notin {"crewai", "mem0"}, NEW t, Fine(k, t),
           NEW c \in Contexts, Unseeded(t, c),
           NEW new \in Seq(Rows), Len(new) = SeedCount,
           \A h \in 1..SeedCount : new[h].id = <<c, h - 1>> /\ new[h].owner = c,
           NEW u, DOMAIN u = Fields, u.rows = AddRows(t, c, new).rows,
           u.next = AddRows(t, c, new).next, u.memory = AddRows(t, c, new).memory
    PROVE  Step(k, t, u)
<1>0. StoreOK(t) /\ Remembers(k, t) /\ t.next[c] = 0
  BY DEF Fine, Unseeded
<1>1. PICK w : w = AddRows(t, c, new)
  OBVIOUS
<1>2. /\ w.rows = t.rows \o new /\ w.next = [t.next EXCEPT ![c] = @ + Len(new)]
      /\ w.memory = t.memory
  <2>1. /\ AddRows(t, c, new).rows = t.rows \o new
        /\ AddRows(t, c, new).next = [t.next EXCEPT ![c] = @ + Len(new)]
        /\ AddRows(t, c, new).memory = t.memory
    BY <1>0, AddIs
  <2> QED
    BY <1>1, <2>1
<1>3. u.rows = t.rows \o new /\ u.next = [t.next EXCEPT ![c] = @ + SeedCount] /\ u.memory = t.memory
  BY <1>1, <1>2
<1>4. Remembers(k, u)
  BY <1>0, <1>3 DEF Remembers
<1>5. c = CTX => t.rows = <<>> /\ t.memory = <<>>
  BY DEF Unseeded
<1> QED
  BY <1>0, <1>3, <1>4, <1>5, SeedStep

(* The same rows, names and memory, whatever is kept beside them.              *)
Beside(u, v) == DOMAIN v = Fields /\ v.rows = u.rows /\ v.next = u.next /\ v.memory = u.memory

LEMMA BesideIs ==
    ASSUME NEW u, DOMAIN u = Fields, NEW x, NEW y
    PROVE  /\ Beside(u, u) /\ Beside(u, [u EXCEPT !.book = x]) /\ Beside(u, [u EXCEPT !.held = x])
           /\ Beside(u, [u EXCEPT !.book = x, !.held = y])
BY DEF Beside, Fields

LEMMA SealedSeed ==
    ASSUME NEW k \in VendorKinds, k \notin {"crewai", "mem0"}, NEW t, Fine(k, t),
           NEW c \in Contexts, Unseeded(t, c),
           NEW new, \/ new = SeedRows(t, c)
                    \/ new = ChainFrom(View(t, c), SeedRows(t, c))
                    \/ new = [h \in 1..SeedCount |-> Signed(SeedRows(t, c)[h])],
           NEW u, u = AddRows(t, c, new)
    PROVE  DOMAIN u = Fields /\ \A v : Beside(u, v) => Step(k, t, v)
<1>0. StoreOK(t) /\ t.next[c] = 0
  BY DEF Fine, Unseeded
<1>1. PICK seed : seed = SeedRows(t, c)
  OBVIOUS
<1>2. /\ seed \in Seq(Rows) /\ Len(seed) = SeedCount
      /\ \A h \in 1..SeedCount : seed[h].id = <<c, h - 1>> /\ seed[h].owner = c
  <2>1. /\ SeedRows(t, c) \in Seq(Rows) /\ Len(SeedRows(t, c)) = SeedCount
        /\ \A h \in 1..SeedCount :
              /\ SeedRows(t, c)[h].id = <<c, h - 1>> /\ SeedRows(t, c)[h].owner = c
              /\ SeedRows(t, c)[h].text = Text(SeedText(c), h - 1)
              /\ SeedRows(t, c)[h].meta = [ts |-> h - 1, marked |-> FALSE]
              /\ SeedRows(t, c)[h].text \in Texts
    BY Zenon, <1>0, SeedRowsAre
  <2> QED
    BY <1>1, <2>1
<1>3. /\ new \in Seq(Rows) /\ Len(new) = SeedCount
      /\ \A h \in 1..SeedCount : new[h].id = <<c, h - 1>> /\ new[h].owner = c
  <2>1. CASE new = seed
    BY <1>2, <2>1
  <2>2. CASE new = ChainFrom(View(t, c), seed)
    <3>1. PICK view : view = View(t, c)
      OBVIOUS
    <3>2. view \in Seq(Rows)
      BY <1>0, <3>1, ViewIs
    <3>3. /\ ChainFrom(view, seed) \in Seq(Rows) /\ Len(ChainFrom(view, seed)) = Len(seed)
          /\ \A h \in 1..Len(seed) :
                /\ ChainFrom(view, seed)[h].id = seed[h].id
                /\ ChainFrom(view, seed)[h].owner = seed[h].owner
      BY <1>2, <3>2, ChainFromIs
    <3> QED
      BY <1>2, <2>2, <3>1, <3>3
  <2>3. CASE new = [h \in 1..SeedCount |-> Signed(seed[h])]
    <3>1. ASSUME NEW h \in 1..SeedCount
          PROVE  /\ Signed(seed[h]) \in Rows
                 /\ Signed(seed[h]).id = seed[h].id /\ Signed(seed[h]).owner = seed[h].owner
      <4>1. PICK row : row = seed[h]
        OBVIOUS
      <4>2. row \in Rows
        BY <1>2, <4>1
      <4>3. PICK seal : seal = <<Said(row)>>
        OBVIOUS
      <4>4. seal \in Seq(Saids)
        BY <4>2, <4>3, RowParts
      <4>5. Signed(row) = [row EXCEPT !.seal = seal]
        BY <4>3 DEF Signed
      <4>6. [row EXCEPT !.seal = seal] \in Rows
        BY <4>2, <4>4, SealedIs
      <4>7. [row EXCEPT !.seal = seal].id = row.id /\ [row EXCEPT !.seal = seal].owner = row.owner
        BY <4>2, <4>4, SealedIs
      <4> QED
        BY <4>1, <4>5, <4>6, <4>7
    <3>2. SeedCount \in Nat
      BY SeedCountIs
    <3>3. new \in Seq(Rows) /\ Len(new) = SeedCount
      BY <2>3, <3>1, <3>2
    <3>4. \A h \in 1..SeedCount : new[h] = Signed(seed[h])
      BY <2>3, <3>2
    <3> QED
      BY <1>2, <3>1, <3>3, <3>4
  <2> QED
    BY <1>1, <2>1, <2>2, <2>3
<1>4. Step(k, t, u)
  <2>1. DOMAIN u = Fields
    BY <1>0, AddDomain
  <2>2. u.rows = AddRows(t, c, new).rows /\ u.next = AddRows(t, c, new).next /\ u.memory = AddRows(t, c, new).memory
    OBVIOUS
  <2> QED
    BY <1>3, <2>1, <2>2, EvidenceSeedStep
<1>5. ASSUME NEW v, Beside(u, v) PROVE Step(k, t, v)
  BY <1>4, <1>5, BesideStep DEF Beside
<1>6. DOMAIN u = Fields
  BY <1>0, AddDomain
<1> QED
  BY <1>5, <1>6

LEMMA AtelyaRebuiltKeeps ==
    ASSUME NEW t, StoreOK(t), NEW c, NEW texts, NEW u, u = AtelyaRebuilt(t, c, texts)
    PROVE  DOMAIN u = Fields /\ u.memory = t.memory /\ u.book = t.book /\ u.held = t.held
BY StoreParts DEF AtelyaRebuilt, Fields

LEMMA AtelyaSeedStep ==
    ASSUME NEW k \in AtelyaKinds, NEW t, Fine(k, t), NEW c \in Contexts, Unseeded(t, c)
    PROVE  Step(k, t, AtelyaSeed(k, t, c))
<1>0. StoreOK(t) /\ t.next[c] = 0 /\ t.memory \in Seq(Texts)
  BY DEF Fine, Remembers, Unseeded
<1>1. PICK seed : seed = SeedRows(t, c)
  OBVIOUS
<1>2. \A h \in 1..SeedCount : seed[h].text \in Texts
  <2>1. /\ SeedRows(t, c) \in Seq(Rows) /\ Len(SeedRows(t, c)) = SeedCount
        /\ \A h \in 1..SeedCount :
              /\ SeedRows(t, c)[h].id = <<c, h - 1>> /\ SeedRows(t, c)[h].owner = c
              /\ SeedRows(t, c)[h].text = Text(SeedText(c), h - 1)
              /\ SeedRows(t, c)[h].meta = [ts |-> h - 1, marked |-> FALSE]
              /\ SeedRows(t, c)[h].text \in Texts
    BY Zenon, <1>0, SeedRowsAre
  <2> QED
    BY <1>1, <2>1
<1>3. PICK texts : texts = [h \in 1..SeedCount |-> seed[h].text]
  OBVIOUS
<1>4. texts \in Seq(Texts)
  BY <1>2, <1>3, SeedCountIs
<1>5. PICK u : u = AtelyaRebuilt(t, c, texts)
  OBVIOUS
<1>6. \A row \in ToSet(t.rows) : row.id[1] = row.owner
  BY DEF Fine, Named, NamedRow, OwnsNames, AtelyaKinds, InspeximusKinds
<1>7. DOMAIN u = Fields /\ u.memory = t.memory
  BY <1>0, <1>5, AtelyaRebuiltKeeps
<1>8. PICK w : w = [u EXCEPT !.memory = texts]
  OBVIOUS
<1>9. PICK x : x = HeadOf(View(w, CTX))
  OBVIOUS
<1>10. PICK v : v = AtelyaSeed(k, t, c)
  OBVIOUS
<1>11. v = u \/ v = w \/ v = [w EXCEPT !.held = x]
  BY <1>1, <1>3, <1>5, <1>8, <1>9, <1>10 DEF AtelyaSeed, AtelyaAnchored
<1>12. DOMAIN v = Fields /\ v.rows = u.rows /\ v.next = u.next /\ v.memory \in Seq(Texts)
  <2>1. CASE v = u
    BY <1>0, <1>7, <2>1
  <2>2. CASE v = w
    BY <1>4, <1>7, <1>8, <2>2 DEF Fields
  <2>3. CASE v = [w EXCEPT !.held = x]
    BY <1>4, <1>7, <1>8, <2>3 DEF Fields
  <2> QED
    BY <1>11, <2>1, <2>2, <2>3
<1>13. Step(k, t, v)
  BY <1>4, <1>5, <1>12, AtelyaRebuiltStep
<1> QED
  BY <1>10, <1>13

LEMMA AtelyaAppendStep ==
    ASSUME NEW k \in AtelyaKinds, NEW t, Fine(k, t)
    PROVE  Step(k, t, AtelyaAppend(k, t))
<1>0. StoreOK(t) /\ t.memory \in Seq(Texts)
  BY DEF Fine, Remembers
<1>1. PICK text : text = Text("seed", Len(t.memory))
  OBVIOUS
<1>2. text \in Texts
  BY <1>0, <1>1, TextIs
<1>3. PICK old : old = t.memory
  OBVIOUS
<1>4. PICK texts : texts = Append(old, text)
  OBVIOUS
<1>5. texts \in Seq(Texts)
  BY <1>0, <1>2, <1>3, <1>4
<1>6. PICK u : u = AtelyaRebuilt(t, CTX, texts)
  OBVIOUS
<1>7. \A row \in ToSet(t.rows) : row.id[1] = row.owner
  BY DEF Fine, Named, NamedRow, OwnsNames, AtelyaKinds, InspeximusKinds
<1>8. DOMAIN u = Fields /\ u.memory = t.memory
  BY <1>0, <1>6, AtelyaRebuiltKeeps
<1>9. PICK w : w = [u EXCEPT !.memory = texts]
  OBVIOUS
<1>10. PICK x : x = HeadOf(View(w, CTX))
  OBVIOUS
<1>11. PICK v : v = AtelyaAppend(k, t)
  OBVIOUS
<1>12. v = w \/ v = [w EXCEPT !.held = x]
  BY <1>1, <1>3, <1>4, <1>6, <1>9, <1>10, <1>11 DEF AtelyaAppend, AtelyaAnchored
<1>13. DOMAIN v = Fields /\ v.rows = u.rows /\ v.next = u.next /\ v.memory \in Seq(Texts)
  <2>1. CASE v = w
    BY <1>5, <1>8, <1>9, <2>1 DEF Fields
  <2>2. CASE v = [w EXCEPT !.held = x]
    BY <1>5, <1>8, <1>9, <2>2 DEF Fields
  <2> QED
    BY <1>12, <2>1, <2>2
<1>14. Step(k, t, v)
  BY <1>5, <1>6, <1>13, AtelyaRebuiltStep, ContextsAre
<1> QED
  BY <1>11, <1>14

(* The kinds are disjoint, and every definition by kind takes its own case.     *)
LEMMA KindsApart ==
    /\ \A k \in FrameworkKinds : k \notin {"ledger", "acrf", "agent_memory"} \cup InspeximusKinds
          \cup AtelyaKinds \cup ContinuumKinds \cup AtmemKinds \cup BlackboxKinds
    /\ \A k \in InspeximusKinds : k \notin {"ledger", "acrf", "agent_memory", "mem0", "crewai"} \cup FrameworkKinds
          \cup AtelyaKinds \cup ContinuumKinds \cup AtmemKinds \cup BlackboxKinds
    /\ \A k \in AtelyaKinds : k \notin {"ledger", "acrf", "agent_memory", "mem0", "crewai"} \cup FrameworkKinds
          \cup InspeximusKinds \cup ContinuumKinds \cup AtmemKinds \cup BlackboxKinds
    /\ \A k \in ContinuumKinds : k \notin {"ledger", "acrf", "agent_memory", "mem0", "crewai"} \cup FrameworkKinds
          \cup InspeximusKinds \cup AtelyaKinds \cup AtmemKinds \cup BlackboxKinds
    /\ \A k \in AtmemKinds : k \notin {"ledger", "acrf", "agent_memory", "mem0", "crewai"} \cup FrameworkKinds
          \cup InspeximusKinds \cup AtelyaKinds \cup ContinuumKinds \cup BlackboxKinds
    /\ \A k \in BlackboxKinds : k \notin {"ledger", "acrf", "agent_memory", "mem0", "crewai"} \cup FrameworkKinds
          \cup InspeximusKinds \cup AtelyaKinds \cup ContinuumKinds \cup AtmemKinds
    /\ \A k \in {"ledger", "acrf", "agent_memory"} : k \notin {"mem0", "crewai"} \cup FrameworkKinds
          \cup InspeximusKinds \cup AtelyaKinds \cup ContinuumKinds \cup AtmemKinds \cup BlackboxKinds
BY DEF FrameworkKinds, InspeximusKinds, AtelyaKinds, ContinuumKinds, AtmemKinds, BlackboxKinds

LEMMA VendorSeedStep ==
    ASSUME NEW k \in VendorKinds, NEW t, Fine(k, t), NEW c \in Contexts, Unseeded(t, c)
    PROVE  Step(k, t, VendorSeed(k, t, c))
<1>0. StoreOK(t)
  BY DEF Fine
<1>1. PICK seed : seed = SeedRows(t, c)
  OBVIOUS
<1>2. PICK w : w = AddRows(t, c, seed)
  OBVIOUS
<1>3. PICK v : v = VendorSeed(k, t, c)
  OBVIOUS
<1>13. DOMAIN w = Fields
  BY <1>0, <1>2, AddDomain
<1>14. ASSUME k \notin {"crewai", "mem0"}, Beside(w, v) PROVE Step(k, t, v)
  BY <1>1, <1>2, <1>14, SealedSeed
<1>4. CASE k \in FrameworkKinds
  <2>1. VendorSeed(k, t, c) = SeedFramework(Raw(k), ApiOf(k), t, c)
    BY <1>4, KindsApart DEF VendorSeed
  <2> QED
    BY <1>4, <2>1, FrameworkSeedStep
<1>5. CASE k = "ledger"
  <2>1. k \notin {"crewai", "mem0"} /\ k \notin FrameworkKinds
    BY <1>5, KindsApart
  <2>2. Beside(w, v)
    <3>1. CASE c = CTX
      <4>1. v = LedgerLogged(w, seed)
        BY <1>1, <1>2, <1>3, <1>5, <3>1, KindsApart DEF VendorSeed
      <4>2. PICK x : v = [w EXCEPT !.held = x]
        BY <4>1 DEF LedgerLogged
      <4> QED
        BY <1>13, <4>2, BesideIs
    <3>2. CASE c # CTX
      <4>1. v = w
        BY <1>1, <1>2, <1>3, <1>5, <3>2, KindsApart DEF VendorSeed
      <4> QED
        BY <1>13, <4>1, BesideIs
    <3> QED
      BY <3>1, <3>2
  <2> QED
    BY <1>3, <1>14, <2>1, <2>2
<1>6. CASE k \in InspeximusKinds
  <2>1. k \notin {"crewai", "mem0", "ledger"} /\ k \notin FrameworkKinds
    BY <1>6, KindsApart
  <2>2. PICK x : x = ReceiptsFor(t.book, seed)
    OBVIOUS
  <2>3. v = InspeximusAdd(k, t, c, seed)
    BY <1>1, <1>3, <1>6, KindsApart DEF VendorSeed
  <2>4. v = w \/ v = [w EXCEPT !.book = x, !.held = Last(x)]
    BY <1>2, <2>2, <2>3 DEF InspeximusAdd
  <2>5. Beside(w, v)
    <3>1. CASE v = w
      BY <1>13, <3>1, BesideIs
    <3>2. CASE v = [w EXCEPT !.book = x, !.held = Last(x)]
      BY <1>13, <3>2, BesideIs
    <3> QED
      BY <2>4, <3>1, <3>2
  <2> QED
    BY <1>3, <1>14, <2>1, <2>5
<1>7. CASE k \in AtelyaKinds
  <2>1. VendorSeed(k, t, c) = AtelyaSeed(k, t, c)
    BY <1>7, KindsApart DEF VendorSeed
  <2> QED
    BY <1>7, <2>1, AtelyaSeedStep
<1>8. CASE k \in ContinuumKinds
  <2>1. k \notin {"crewai", "mem0"}
    BY <1>8, KindsApart
  <2>2. PICK new : new = ChainFrom(View(t, c), seed)
    OBVIOUS
  <2>3. PICK u : u = AddRows(t, c, new)
    OBVIOUS
  <2>4. DOMAIN u = Fields /\ \A z : Beside(u, z) => Step(k, t, z)
    BY <1>1, <2>1, <2>2, <2>3, SealedSeed
  <2>5. v = ContinuumAdd(k, t, c, seed)
    BY <1>1, <1>3, <1>8, KindsApart DEF VendorSeed
  <2>6. v = u \/ v = [u EXCEPT !.held = ContinuumHead(u)]
    BY <2>2, <2>3, <2>5 DEF ContinuumAdd
  <2>7. Beside(u, v)
    <3>1. CASE v = u
      BY <2>4, <3>1, BesideIs
    <3>2. CASE v = [u EXCEPT !.held = ContinuumHead(u)]
      BY <2>4, <3>2, BesideIs
    <3> QED
      BY <2>6, <3>1, <3>2
  <2> QED
    BY <1>3, <2>4, <2>7
<1>9. CASE k \in AtmemKinds
  <2>1. k \notin {"crewai", "mem0"}
    BY <1>9, KindsApart
  <2>2. PICK x : x = [w.book EXCEPT ![c] = @ \o Told(seed)]
    OBVIOUS
  <2>3. PICK z : z = [w EXCEPT !.book = x]
    OBVIOUS
  <2>4. z = [w EXCEPT !.book[c] = @ \o Told(seed)]
    BY <2>2, <2>3
  <2>5. v = AtmemAdd(k, t, c, seed)
    BY <1>1, <1>3, <1>9, KindsApart DEF VendorSeed
  <2>6. v = z \/ \E y : v = [z EXCEPT !.held = y]
    BY <1>2, <2>4, <2>5 DEF AtmemAdd
  <2>7. Beside(w, v)
    <3>1. CASE v = z
      BY <1>13, <2>3, <3>1, BesideIs
    <3>2. ASSUME NEW y, v = [z EXCEPT !.held = y] PROVE Beside(w, v)
      BY <1>13, <2>3, <3>2 DEF Beside, Fields
    <3> QED
      BY <2>6, <3>1, <3>2
  <2> QED
    BY <1>3, <1>14, <2>1, <2>7
<1>10. CASE k = "acrf"
  <2>1. k \notin {"crewai", "mem0"}
    BY <1>10
  <2>2. PICK new : new = [h \in 1..SeedCount |-> Signed(seed[h])]
    OBVIOUS
  <2>3. PICK u : u = AddRows(t, c, new)
    OBVIOUS
  <2>4. DOMAIN u = Fields /\ \A z : Beside(u, z) => Step(k, t, z)
    BY <1>1, <2>1, <2>2, <2>3, SealedSeed
  <2>5. VendorSeed(k, t, c) = AcrfSeed(t, c)
    BY <1>10, KindsApart DEF VendorSeed
  <2>6. AcrfSeed(t, c) = u
    BY <1>1, <2>2, <2>3 DEF AcrfSeed
  <2> QED
    BY <2>4, <2>5, <2>6, BesideIs
<1>11. CASE k \in BlackboxKinds
  <2>1. k \notin {"crewai", "mem0"}
    BY <1>11, KindsApart
  <2>2. PICK x : x = Files(w)
    OBVIOUS
  <2>3. v = BlackboxAdd(t, c, seed)
    BY <1>1, <1>3, <1>11, KindsApart DEF VendorSeed
  <2>4. v = [w EXCEPT !.held = x, !.book = x]
    BY <1>2, <2>2, <2>3 DEF BlackboxAdd, BlackboxScan
  <2>5. Beside(w, v)
    BY <1>13, <2>4 DEF Beside, Fields
  <2> QED
    BY <1>3, <1>14, <2>1, <2>5
<1>12. CASE k = "agent_memory"
  <2>1. k \notin {"crewai", "mem0"}
    BY <1>12
  <2>2. Beside(w, v)
    <3>1. CASE c = CTX
      <4>1. v = AgentMemorySealed(w)
        BY <1>1, <1>2, <1>3, <1>12, <3>1, KindsApart DEF VendorSeed
      <4>2. PICK x : v = [w EXCEPT !.book = x]
        BY <4>1 DEF AgentMemorySealed
      <4> QED
        BY <1>13, <4>2, BesideIs
    <3>2. CASE c # CTX
      <4>1. v = w
        BY <1>1, <1>2, <1>3, <1>12, <3>2, KindsApart DEF VendorSeed
      <4> QED
        BY <1>13, <4>1, BesideIs
    <3> QED
      BY <3>1, <3>2
  <2> QED
    BY <1>3, <1>14, <2>1, <2>2
<1> QED
  BY <1>4, <1>5, <1>6, <1>7, <1>8, <1>9, <1>10, <1>11, <1>12, KindsAre

-----------------------------------------------------------------------------
(* Every operation of every adapter leaves its store in order. *)

LEMMA VendorAppendStep ==
    ASSUME NEW k \in VendorKinds, NEW t, Fine(k, t)
    PROVE  Step(k, t, VendorAppend(k, t))
<1>1. CASE k \in FrameworkKinds
  <2>1. VendorAppend(k, t) = AppendFramework(Raw(k), ApiOf(k), t)
    BY <1>1, KindsApart DEF VendorAppend
  <2> QED
    BY <1>1, <2>1, FrameworkAppendStep
<1>2. CASE k = "ledger"
  <2>1. VendorAppend(k, t) = LedgerAppend(t)
    BY <1>2, KindsApart DEF VendorAppend
  <2> QED
    BY <1>2, <2>1, LedgerAppendStep
<1>3. CASE k \in InspeximusKinds
  <2>1. VendorAppend(k, t) = InspeximusAppend(k, t)
    BY <1>3, KindsApart DEF VendorAppend
  <2> QED
    BY <1>3, <2>1, InspeximusAppendStep
<1>4. CASE k \in AtelyaKinds
  <2>1. VendorAppend(k, t) = AtelyaAppend(k, t)
    BY <1>4, KindsApart DEF VendorAppend
  <2> QED
    BY <1>4, <2>1, AtelyaAppendStep
<1>5. CASE k \in ContinuumKinds
  <2>1. VendorAppend(k, t) = ContinuumAppend(k, t)
    BY <1>5, KindsApart DEF VendorAppend
  <2> QED
    BY <1>5, <2>1, ContinuumAppendStep
<1>6. CASE k \in AtmemKinds
  <2>1. VendorAppend(k, t) = AtmemAppend(k, t)
    BY <1>6, KindsApart DEF VendorAppend
  <2> QED
    BY <1>6, <2>1, AtmemAppendStep
<1>7. CASE k = "acrf"
  <2>1. VendorAppend(k, t) = AcrfAppend(t)
    BY <1>7, KindsApart DEF VendorAppend
  <2> QED
    BY <1>7, <2>1, AcrfAppendStep
<1>8. CASE k \in BlackboxKinds
  <2>1. VendorAppend(k, t) = BlackboxAppend(t)
    BY <1>8, KindsApart DEF VendorAppend
  <2> QED
    BY <1>8, <2>1, BlackboxAppendStep
<1>9. CASE k = "agent_memory"
  <2>1. VendorAppend(k, t) = AgentMemoryAppend(t)
    BY <1>9, KindsApart DEF VendorAppend
  <2> QED
    BY <1>9, <2>1, AgentMemoryAppendStep
<1> QED
  BY <1>1, <1>2, <1>3, <1>4, <1>5, <1>6, <1>7, <1>8, <1>9, KindsAre

LEMMA VendorForgeStep ==
    ASSUME NEW k \in VendorKinds, NEW t, Fine(k, t), VendorCanForge(k, t),
           NEW like \in ToSet(View(t, CTX))
    PROVE  Step(k, t, VendorForge(k, t, like))
<1>0. CanForge(Raw(k), t)
  BY DEF VendorCanForge
<1>1. CASE k = "mem0"
  <2>1. VendorForge(k, t, like) = Mem0Forge(Raw("mem0"), t)
    BY <1>1 DEF VendorForge
  <2> QED
    BY <1>0, <1>1, <2>1, Mem0ForgeStep
<1>2. CASE k = "acrf"
  <2>1. VendorForge(k, t, like) = AcrfForge(t)
    BY <1>2 DEF VendorForge
  <2>2. View(t, CTX) # <<>>
    BY <1>0 DEF CanForge
  <2> QED
    BY <1>2, <2>1, <2>2, AcrfForgeStep
<1>3. CASE k \notin {"mem0", "acrf"}
  <2>1. VendorForge(k, t, like) = ForgeRow(Raw(k), t, like)
    BY <1>3 DEF VendorForge
  <2> QED
    BY <1>0, <1>3, <2>1, ForgeStep
<1> QED
  BY <1>1, <1>2, <1>3

LEMMA FineBeside ==
    ASSUME NEW k, NEW t, Fine(k, t), NEW u, Beside(t, u), k = "mem0" => u.book = t.book
    PROVE  Step(k, t, u)
<1>1. Step(k, t, t)
  BY StepSelf
<1> QED
  BY <1>1, BesideStep DEF Beside

LEMMA ReloadStep ==
    ASSUME NEW k \in VendorKinds, NEW t, Fine(k, t)
    PROVE  Step(k, t, VendorReload(k, t))
<1>1. CASE k = "blackbox_restart"
  <2>1. DOMAIN t = Fields
    BY StoreParts DEF Fine
  <2>2. PICK u : u = VendorReload(k, t)
    OBVIOUS
  <2>3. Beside(t, u)
    BY <1>1, <2>1, <2>2 DEF VendorReload, BlackboxRestart, Beside, Fields
  <2>4. Step(k, t, u)
    BY <1>1, <2>3, FineBeside
  <2> QED
    BY <2>2, <2>4
<1>2. CASE k # "blackbox_restart"
  BY <1>2, StepSelf DEF VendorReload
<1> QED
  BY <1>1, <1>2

LEMMA AskedStep ==
    ASSUME NEW k \in VendorKinds, NEW t, Fine(k, t)
    PROVE  Step(k, t, VendorAsked(k, t))
<1>1. CASE k \in BlackboxKinds
  <2>1. DOMAIN t = Fields
    BY StoreParts DEF Fine
  <2>2. PICK x : x = Files(t)
    OBVIOUS
  <2>3. PICK u : u = [t EXCEPT !.held = x, !.book = x]
    OBVIOUS
  <2>4. VendorAsked(k, t) = u
    BY <1>1, <2>2, <2>3 DEF VendorAsked, BlackboxScan
  <2>5. Beside(t, u)
    BY <2>1, <2>3 DEF Beside, Fields
  <2>6. k # "mem0"
    BY <1>1, KindsApart
  <2>7. Step(k, t, u)
    BY <2>5, <2>6, FineBeside
  <2> QED
    BY <2>4, <2>7
<1>2. CASE k \notin BlackboxKinds
  BY <1>2, StepSelf DEF VendorAsked
<1> QED
  BY <1>1, <1>2

(* A copy that may be put back.                                              *)
Copied(k, c, t) ==
    /\ StoreOK(c) /\ Remembers(k, c)
    /\ Named(k, c, IF CountsNames(k) THEN c ELSE t)

LEMMA CopiedGrows ==
    ASSUME NEW k, NEW c, NEW t, StoreOK(t), Remembers(k, t), Copied(k, c, t), NEW u, Step(k, t, u)
    PROVE  Copied(k, c, u)
<1>1. CASE CountsNames(k)
  BY <1>1 DEF Copied
<1>2. CASE ~CountsNames(k)
  <2>1. BoundsGrow(k, t, u) /\ StoreOK(u) /\ Remembers(k, u) /\ StoreOK(c)
    BY <1>2 DEF Step, Fine, Copied
  <2>2. ASSUME NEW row \in ToSet(c.rows) PROVE NamedRow(k, u, row)
    <3>1. NamedRow(k, t, row)
      BY <1>2 DEF Copied, Named
    <3>2. row \in Rows
      BY <2>1, RowsIn
    <3>3. row.id[1] \in Contexts /\ row.id[2] \in Int
      BY <3>2, RowParts
    <3>4. Bound(k, t, row.id[1]) \in Nat /\ Bound(k, u, row.id[1]) \in Nat
      BY <2>1, <3>3, BoundType
    <3>5. Bound(k, t, row.id[1]) <= Bound(k, u, row.id[1])
      BY <2>1, <3>3 DEF BoundsGrow
    <3> QED
      BY <3>1, <3>3, <3>4, <3>5 DEF NamedRow
  <2> QED
    BY <1>2, <2>2 DEF Copied, Named
<1> QED
  BY <1>1, <1>2

LEMMA RestoreFine ==
    ASSUME NEW k \in VendorKinds, NEW t, Fine(k, t), NEW c, Copied(k, c, t)
    PROVE  Fine(k, VendorRestore(k, t, c))
<1>0. /\ StoreOK(t) /\ Remembers(k, t) /\ StoreOK(c) /\ Remembers(k, c)
      /\ DOMAIN t = Fields /\ t.next \in [Contexts -> Nat] /\ c.next \in [Contexts -> Nat]
  BY StoreParts DEF Fine, Copied
<1>1. PICK next : next = IF CountsNames(k) THEN c.next ELSE t.next
  OBVIOUS
<1>2. PICK back : back = [t EXCEPT !.rows = c.rows, !.book = c.book, !.next = next]
  OBVIOUS
<1>3. back = [t EXCEPT !.rows = c.rows, !.book = c.book, !.next = IF CountsNames(k) THEN c.next ELSE @]
  BY <1>1, <1>2
<1>4. /\ DOMAIN back = Fields /\ back.rows = c.rows /\ back.book = c.book /\ back.next = next
      /\ back.memory = t.memory /\ back.held = t.held
  BY <1>0, <1>2 DEF Fields
<1>5. PICK v : v = VendorRestore(k, t, c)
  OBVIOUS
<1>6. CASE k = "agent_memory"
  <2>1. ~CountsNames(k) /\ OwnsNames(k) /\ k \notin AtelyaKinds
    BY <1>6 DEF CountsNames, OwnsNames, AtelyaKinds, BlackboxKinds, InspeximusKinds
  <2>2. PICK mine, others : mine = View(c, CTX) /\ others = View(t, OTHER_CTX)
    OBVIOUS
  <2>3. v = [back EXCEPT !.rows = mine \o others]
    BY <1>3, <1>5, <1>6, <2>1, <2>2 DEF VendorRestore
  <2>4. /\ DOMAIN v = Fields /\ v.rows = mine \o others /\ v.next = t.next /\ v.memory = t.memory
    BY <1>1, <1>4, <2>1, <2>3 DEF Fields
  <2>5. mine \in Seq(Rows) /\ Distinct(mine) /\ ToSet(mine) = {row \in ToSet(c.rows) : row.owner = CTX}
    BY <1>0, <2>2, ViewIs, ViewSet
  <2>6. others \in Seq(Rows) /\ Distinct(others) /\ ToSet(others) = {row \in ToSet(t.rows) : row.owner = OTHER_CTX}
    BY <1>0, <2>2, ViewIs, ViewSet
  <2>7. \A row \in ToSet(mine) : NamedRow(k, t, row) /\ row.owner = CTX
    BY <2>1, <2>5 DEF Copied, Named
  <2>8. \A row \in ToSet(others) : NamedRow(k, t, row) /\ row.owner = OTHER_CTX
    BY <2>6 DEF Fine, Named
  <2>9. \A x \in ToSet(mine), y \in ToSet(others) : x.id # y.id
    BY <2>1, <2>7, <2>8, ContextsAre DEF NamedRow
  <2>10. v.rows \in Seq(Rows) /\ Distinct(v.rows) /\ ToSet(v.rows) = ToSet(mine) \cup ToSet(others)
    BY <2>4, <2>5, <2>6, <2>9, ConcatDistinct
  <2>11. StoreOK(v)
    BY <1>0, <2>4, <2>10 DEF StoreOK, Distinct, Fields
  <2>12. \A d : Bound(k, v, d) = Bound(k, t, d)
    BY <2>4 DEF Bound
  <2>13. Named(k, v, v)
    BY <2>7, <2>8, <2>10, <2>12 DEF Named, NamedRow
  <2>14. Remembers(k, v)
    BY <1>0, <1>6, <2>4 DEF Remembers
  <2>15. Fine(k, v)
    BY <2>11, <2>13, <2>14 DEF Fine
  <2> QED
    BY <1>5, <2>15
<1>7. CASE k # "agent_memory"
  <2>1. /\ DOMAIN v = Fields /\ v.rows = c.rows /\ v.book = c.book /\ v.next = next
        /\ v.memory = IF k \in AtelyaKinds THEN c.memory ELSE t.memory
    <3>1. CASE k \in AtelyaKinds
      <4>1. v = [back EXCEPT !.memory = c.memory]
        BY <1>3, <1>5, <1>7, <3>1 DEF VendorRestore, AtelyaKinds
      <4> QED
        BY <1>4, <3>1, <4>1 DEF Fields
    <3>2. CASE k \notin AtelyaKinds /\ k = "inspeximus_home" /\ c.held # <<>>
      <4>1. v = [back EXCEPT !.held = c.held]
        BY <1>3, <1>5, <1>7, <3>2 DEF VendorRestore
      <4> QED
        BY <1>4, <3>2, <4>1 DEF Fields
    <3>3. CASE k \notin AtelyaKinds /\ ~(k = "inspeximus_home" /\ c.held # <<>>)
      <4>1. v = back
        BY <1>3, <1>5, <1>7, <3>3 DEF VendorRestore
      <4> QED
        BY <1>4, <3>3, <4>1
    <3> QED
      BY <3>1, <3>2, <3>3
  <2>2. next \in [Contexts -> Nat]
    BY <1>0, <1>1
  <2>3. StoreOK(v)
    BY <1>0, <2>1, <2>2, StoreParts DEF StoreOK, Distinct, Fields
  <2>4. Remembers(k, v)
    <3>1. v.memory \in Seq(IF k \in AtelyaKinds THEN Texts ELSE Ids_)
      BY <1>0, <2>1 DEF Remembers
    <3>2. Ids(v) = Ids(c)
      BY <2>1 DEF Ids
    <3> QED
      BY <1>0, <2>1, <3>1, <3>2 DEF Remembers
  <2>5. PICK w : w = IF CountsNames(k) THEN c ELSE t
    OBVIOUS
  <2>6. \A d : Bound(k, v, d) = Bound(k, w, d)
    <3>1. CASE CountsNames(k)
      <4>1. k # "crewai"
        BY <3>1 DEF CountsNames, AtelyaKinds, BlackboxKinds
      <4>2. v.next = c.next /\ w = c
        BY <1>1, <2>1, <2>5, <3>1
      <4> QED
        BY <4>1, <4>2 DEF Bound
    <3>2. CASE ~CountsNames(k)
      <4>1. k \notin AtelyaKinds
        BY <3>2 DEF CountsNames
      <4>2. v.next = t.next /\ v.memory = t.memory /\ w = t
        BY <1>1, <2>1, <2>5, <3>2, <4>1
      <4> QED
        BY <4>2 DEF Bound
    <3> QED
      BY <3>1, <3>2
  <2>7. Named(k, c, w)
    BY <2>5 DEF Copied
  <2>8. ToSet(v.rows) = ToSet(c.rows)
    BY <2>1
  <2>9. Named(k, v, v)
    BY <2>6, <2>7, <2>8 DEF Named, NamedRow
  <2>10. Fine(k, v)
    BY <2>3, <2>4, <2>9 DEF Fine
  <2> QED
    BY <1>5, <2>10
<1> QED
  BY <1>6, <1>7

-----------------------------------------------------------------------------
(* The invariant: the store and its copy are in order. *)

RestOK ==
    /\ kind \in Kinds
    /\ edits \in 0..MaxEdits
    /\ appends \in 0..MaxAppends
    /\ aim \in {<<>>} \cup (Contexts \X Int)
    /\ versions \in Seq(Seq(Saids)) \ {<<>>}
StoresOK ==
    /\ Fine(kind, s)
    /\ copy # <<>> => Copied(kind, copy, s)
TypeInv == RestOK /\ StoresOK

LEMMA VersionsGrow ==
    ASSUME NEW v \in Seq(Seq(Saids)) \ {<<>>}, NEW told \in Seq(Saids)
    PROVE  Append(v, told) \in Seq(Seq(Saids)) \ {<<>>}
OBVIOUS

LEMMA RecordedIs ==
    ASSUME RestOK, NEW t, StoreOK(t)
    PROVE  Recorded(t) \in Seq(Seq(Saids)) \ {<<>>}
BY ServedIs, VersionsGrow DEF RestOK, Recorded

LEMMA SetUpFine ==
    ASSUME NEW k \in VendorKinds
    PROVE  Fine(k, VendorSetUp(k)) /\ Unseeded(VendorSetUp(k), CTX)
<1>1. PICK t : t = VendorSetUp(k)
  OBVIOUS
<1>2. /\ DOMAIN t = Fields /\ t.rows = <<>> /\ t.next = [c \in Contexts |-> 0] /\ t.memory = <<>>
      /\ k = "mem0" => t.book = <<>>
  <2>1. CASE k \in BlackboxKinds
    BY <1>1, <2>1, KindsApart DEF VendorSetUp, BlackboxScan, EmptyStore, Fields
  <2>2. CASE k \notin BlackboxKinds /\ k \in AtmemKinds
    BY <1>1, <2>2, KindsApart DEF VendorSetUp, EmptyStore, Fields
  <2>3. CASE k \notin BlackboxKinds /\ k \notin AtmemKinds
    BY <1>1, <2>3 DEF VendorSetUp, EmptyStore, Fields
  <2> QED
    BY <2>1, <2>2, <2>3
<1>3. t.next \in [Contexts -> Nat] /\ t.next[CTX] = 0
  BY <1>2, ContextsAre
<1>4. StoreOK(t)
  BY <1>2, <1>3 DEF StoreOK, Fields
<1>5. ToSet(t.rows) = {} /\ Ids(t) = {}
  BY <1>2 DEF ToSet, Ids
<1>6. Named(k, t, t)
  BY <1>5 DEF Named
<1>7. Remembers(k, t)
  <2>1. PICK S : S = IF k \in AtelyaKinds THEN Texts ELSE Ids_
    OBVIOUS
  <2>2. t.memory \in Seq(S)
    BY <1>2
  <2>3. k = "mem0" => t.book \in Seq(Ids_)
    <3>1. PICK none : none = <<>>
      OBVIOUS
    <3>2. none \in Seq(Ids_)
      BY <3>1
    <3>3. ASSUME k = "mem0" PROVE t.book = none
      BY <1>2, <3>1, <3>3
    <3> QED
      BY <3>2, <3>3
  <2>4. Ids(t) \subseteq ToSet(t.book)
    BY <1>5
  <2> QED
    BY <2>1, <2>2, <2>3, <2>4 DEF Remembers
<1>8. Unseeded(t, CTX)
  BY <1>2, <1>3 DEF Unseeded
<1>9. Fine(k, t)
  BY <1>4, <1>6, <1>7 DEF Fine
<1> QED
  BY <1>1, <1>8, <1>9

LEMMA InitTypes == Init => TypeInv
<1> SUFFICES ASSUME Init PROVE TypeInv
  OBVIOUS
<1>1. kind \in VendorKinds /\ kind \in Kinds
  BY VendorAssumption DEF Init
<1>2. PICK t : t = VendorSetUp(kind)
  OBVIOUS
<1>3. Fine(kind, t) /\ Unseeded(t, CTX)
  BY <1>1, <1>2, SetUpFine
<1>4. s = VendorSeed(kind, t, CTX)
  BY <1>2 DEF Init
<1>5. Step(kind, t, s)
  BY <1>1, <1>3, <1>4, VendorSeedStep, ContextsAre
<1>6. Fine(kind, s)
  BY <1>5 DEF Step
<1>7. Served(s) \in Seq(Saids)
  BY <1>6, ServedIs DEF Fine
<1>8. versions \in Seq(Seq(Saids)) \ {<<>>}
  BY <1>7 DEF Init
<1>9. RestOK
  BY <1>1, <1>8, VendorAssumption DEF Init, RestOK
<1>10. StoresOK
  BY <1>6 DEF Init, StoresOK
<1> QED
  BY <1>9, <1>10 DEF TypeInv

LEMMA StoresAfterStep ==
    ASSUME StoresOK, kind' = kind, copy' = copy, Step(kind, s, s')
    PROVE  StoresOK'
<1>1. Fine(kind, s') /\ Fine(kind, s)
  BY DEF Step, StoresOK
<1>2. copy # <<>> => Copied(kind, copy, s')
  BY <1>1, CopiedGrows DEF StoresOK, Fine
<1> QED
  BY <1>1, <1>2 DEF StoresOK

LEMMA AimIs ==
    ASSUME TypeInv, NEW t, NEW seq, Edited(t, seq)
    PROVE  RestOK'
<1>1. StoreOK(s)
  BY DEF TypeInv, StoresOK, Fine
<1>2. edits' \in 0..MaxEdits /\ appends' \in 0..MaxAppends /\ kind' \in Kinds
  BY VendorAssumption DEF Edited, TypeInv, RestOK
<1>3. versions' \in Seq(Seq(Saids)) \ {<<>>}
  BY DEF Edited, TypeInv, RestOK
<1>4. aim' \in {<<>>} \cup (Contexts \X Int)
  <2>1. CASE seq \in Seqs
    <3>1. PICK h \in DOMAIN View(s, CTX) : seq = h - 1
      BY <2>1 DEF Seqs
    <3>2. h \in Nat /\ seq + 1 = h
      BY <1>1, <3>1, ViewIs
    <3>3. View(s, CTX)[h] \in Rows
      BY <1>1, <3>1, ViewIs, PickedHas
    <3>4. aim' = View(s, CTX)[h].id
      BY <2>1, <3>2 DEF Edited
    <3> QED
      BY <3>3, <3>4, RowParts DEF Ids_
  <2>2. CASE seq \notin Seqs
    BY <2>2 DEF Edited
  <2> QED
    BY <2>1, <2>2
<1> QED
  BY <1>2, <1>3, <1>4 DEF RestOK

(* The row of an ordinal, and a donor.                                        *)
LEMMA SeqRow ==
    ASSUME NEW t, StoreOK(t), NEW h \in DOMAIN View(t, CTX)
    PROVE  View(t, CTX)[h - 1 + 1] \in Rows /\ View(t, CTX)[h] \in Rows /\ h - 1 + 1 = h
<1>1. PICK view : view = View(t, CTX)
  OBVIOUS
<1>2. view \in Seq(Rows)
  BY <1>1, ViewIs
<1>3. h \in 1..Len(view)
  BY <1>1, <1>2
<1>4. h - 1 + 1 = h
  BY <1>3
<1>5. view[h] \in Rows
  BY <1>2, <1>3
<1> QED
  BY <1>1, <1>4, <1>5

LEMMA NextTypes == TypeInv /\ [Next]_vars => TypeInv'
<1> SUFFICES ASSUME TypeInv, [Next]_vars PROVE TypeInv'
  OBVIOUS
<1>0. kind \in VendorKinds /\ Fine(kind, s) /\ StoreOK(s) /\ RestOK /\ StoresOK
  BY VendorAssumption DEF TypeInv, RestOK, StoresOK, Fine
<1>1. CASE SeedOther
  <2>1. Unseeded(s, OTHER_CTX)
    BY <1>1, ContextsAre DEF SeedOther, Unseeded
  <2>2. Step(kind, s, s')
    BY <1>0, <1>1, <2>1, VendorSeedStep, ContextsAre DEF SeedOther
  <2>3. StoresOK'
    BY <1>0, <1>1, <2>2, StoresAfterStep DEF SeedOther
  <2>4. RestOK'
    BY <1>0, <1>1, RecordedIs DEF SeedOther, RestOK
  <2> QED
    BY <2>3, <2>4 DEF TypeInv
<1>2. CASE AppendGenuine
  <2>1. Step(kind, s, s')
    BY <1>0, <1>2, VendorAppendStep DEF AppendGenuine
  <2>2. StoresOK'
    BY <1>0, <1>2, <2>1, StoresAfterStep DEF AppendGenuine
  <2>3. StoreOK(s')
    BY <2>1 DEF Step, Fine
  <2>4. versions' \in Seq(Seq(Saids)) \ {<<>>}
    BY <1>0, <1>2, <2>3, RecordedIs DEF AppendGenuine
  <2>5. appends' \in 0..MaxAppends
    BY <1>0, <1>2, VendorAssumption DEF AppendGenuine, RestOK
  <2>6. RestOK'
    BY <1>0, <1>2, <2>4, <2>5 DEF AppendGenuine, RestOK
  <2> QED
    BY <2>2, <2>6 DEF TypeInv
<1>3. ASSUME NEW t, NEW seq, Edited(t, seq), Step(kind, s, t) PROVE TypeInv'
  <2>1. s' = t /\ kind' = kind /\ copy' = copy
    BY <1>3 DEF Edited
  <2>2. StoresOK'
    BY <1>0, <1>3, <2>1, StoresAfterStep
  <2>3. RestOK'
    BY <1>3, AimIs
  <2> QED
    BY <2>2, <2>3 DEF TypeInv
<1>4. CASE Mutate
  <2>1. PICK seq \in Seqs, first \in ToSet(View(s, CTX)) :
           Edited(WriteRow(P, s, seq, MutatedRow(P, View(s, CTX)[seq + 1]), first), seq)
    BY <1>4 DEF Mutate, Firsts
  <2>2. PICK h \in DOMAIN View(s, CTX) : seq = h - 1
    BY <2>1 DEF Seqs
  <2>3. PICK row : row = View(s, CTX)[seq + 1]
    OBVIOUS
  <2>4. row \in Rows
    BY <1>0, <2>2, <2>3, SeqRow
  <2>5. PICK new : new = MutatedRow(P, row)
    OBVIOUS
  <2>6. new \in Rows /\ new.id = row.id
    BY <2>4, <2>5, MutatedIs
  <2>a. row \in ToSet(View(s, CTX))
    BY <1>0, <2>2, <2>3, SeqRow DEF ToSet
  <2>7. PICK t : t = WriteRow(P, s, seq, new, first)
    OBVIOUS
  <2>8. Step(kind, s, t)
    BY <1>0, <2>1, <2>6, <2>7, <2>a, WriteStep DEF P
  <2>9. Edited(t, seq)
    BY <2>1, <2>3, <2>5, <2>7
  <2> QED
    BY <1>3, <2>8, <2>9
<1>5. CASE Move
  <2>1. PICK from, to \in Seqs, first \in ToSet(View(s, CTX)) :
           Edited(WriteRow(P, s, to, View(s, CTX)[from + 1], first), to)
    BY <1>5 DEF Move, Firsts
  <2>2. PICK h \in DOMAIN View(s, CTX) : from = h - 1
    BY <2>1 DEF Seqs
  <2>3. PICK row : row = View(s, CTX)[from + 1]
    OBVIOUS
  <2>4. row \in Rows
    BY <1>0, <2>2, <2>3, SeqRow
  <2>a. row \in ToSet(View(s, CTX))
    BY <1>0, <2>2, <2>3, SeqRow DEF ToSet
  <2>5. PICK t : t = WriteRow(P, s, to, row, first)
    OBVIOUS
  <2>6. Step(kind, s, t)
    BY <1>0, <2>1, <2>4, <2>5, <2>a, WriteStep DEF P
  <2>7. Edited(t, to)
    BY <2>1, <2>3, <2>5
  <2> QED
    BY <1>3, <2>6, <2>7
<1>6. CASE Delete
  <2>1. PICK seq \in Seqs : Edited(VendorDelete(kind, s, seq), seq)
    BY <1>6 DEF Delete
  <2>2. Step(kind, s, VendorDelete(kind, s, seq))
    BY <1>0, DeleteStep
  <2> QED
    BY <1>3, <2>1, <2>2
<1>7. CASE Replay
  <2>1. PICK seq \in Seqs, donor \in Donors : Edited(ReplayRow(P, s, seq, donor), seq)
    BY <1>7 DEF Replay
  <2>2. donor \in Rows
    <3>1. ToSet(View(s, CTX)) \subseteq Rows
      BY <1>0, ViewIs, ToSetIn
    <3>2. View(s, OTHER_CTX) # <<>> => Last(View(s, OTHER_CTX)) \in Rows
      BY <1>0, LastOfView
    <3> QED
      BY <2>1, <3>1, <3>2 DEF Donors
  <2>3. PICK t : t = ReplayRow(P, s, seq, donor)
    OBVIOUS
  <2>4. Step(kind, s, t)
    BY <1>0, <2>2, <2>3, OverwriteStep DEF ReplayRow
  <2>5. Edited(t, seq)
    BY <2>1, <2>3
  <2> QED
    BY <1>3, <2>4, <2>5
<1>8. CASE Mark
  <2>1. PICK seq \in Seqs : Edited(MarkRow(P, s, seq), seq)
    BY <1>8 DEF Mark
  <2>2. Step(kind, s, MarkRow(P, s, seq))
    BY <1>0, MarkStep DEF P
  <2> QED
    BY <1>3, <2>1, <2>2
<1>9. CASE Forge
  <2>1. PICK first \in ToSet(View(s, CTX)) :
           VendorCanForge(kind, s) /\ Edited(VendorForge(kind, s, first), Len(View(s, CTX)))
    BY <1>9 DEF Forge, Firsts
  <2>2. Step(kind, s, VendorForge(kind, s, first))
    BY <1>0, <2>1, VendorForgeStep
  <2> QED
    BY <1>3, <2>1, <2>2
<1>10. CASE TakeCopy
  <2>1. kind' = kind /\ s' = s /\ copy' = s
    BY <1>10 DEF TakeCopy
  <2>2. Copied(kind, s, s)
    BY <1>0 DEF Copied, Fine
  <2>3. StoresOK'
    BY <1>0, <2>1, <2>2 DEF StoresOK
  <2>4. RestOK'
    BY <1>0, <1>10 DEF TakeCopy, RestOK
  <2> QED
    BY <2>3, <2>4 DEF TypeInv
<1>11. CASE PutBack
  <2>1. kind' = kind /\ s' = VendorRestore(kind, s, copy) /\ copy' = <<>> /\ copy # <<>>
    BY <1>11 DEF PutBack
  <2>2. Copied(kind, copy, s)
    BY <1>0, <2>1 DEF StoresOK
  <2>3. Fine(kind, s')
    BY <1>0, <2>1, <2>2, RestoreFine
  <2>4. StoresOK'
    BY <2>1, <2>3 DEF StoresOK
  <2>5. RestOK'
    BY <1>0, <1>11 DEF PutBack, RestOK
  <2> QED
    BY <2>4, <2>5 DEF TypeInv
<1>12. CASE Restart
  <2>1. Step(kind, s, s')
    BY <1>0, <1>12, ReloadStep DEF Restart
  <2>2. StoresOK'
    BY <1>0, <1>12, <2>1, StoresAfterStep DEF Restart
  <2>3. RestOK'
    BY <1>0, <1>12 DEF Restart, RestOK
  <2> QED
    BY <2>2, <2>3 DEF TypeInv
<1>13. CASE Ask
  <2>1. Step(kind, s, s')
    BY <1>0, <1>13, AskedStep DEF Ask
  <2>2. StoresOK'
    BY <1>0, <1>13, <2>1, StoresAfterStep DEF Ask
  <2>3. RestOK'
    BY <1>0, <1>13, RecordedIs DEF Ask, RestOK
  <2> QED
    BY <2>2, <2>3 DEF TypeInv
<1>14. CASE UNCHANGED vars
  <2>1. RestOK'
    BY <1>0, <1>14 DEF RestOK, vars
  <2>2. StoresOK'
    BY <1>0, <1>14 DEF StoresOK, vars
  <2> QED
    BY <2>1, <2>2 DEF TypeInv
<1> QED
  BY <1>1, <1>2, <1>4, <1>5, <1>6, <1>7, <1>8, <1>9, <1>10, <1>11, <1>12, <1>13, <1>14 DEF Next

LEMMA Types == Spec => []TypeInv
<1> QED
  BY InitTypes, NextTypes, PTL DEF Spec

(***************************************************************************)
(* Through every sequence of edits, genuine writes, copies put back,          *)
(* restarts and scans, every adapter's store keeps its form: rows of the      *)
(* right fields, under names of which no two are alike, in the table and in   *)
(* any copy of it.                                                           *)
(***************************************************************************)
THEOREM TypeCorrect == Spec => []TypeOK
<1>1. TypeInv => TypeOK
  BY DEF TypeInv, TypeOK, RestOK, StoresOK, Fine, Copied
<1> QED
  BY <1>1, Types, PTL
=============================================================================
