----------------------------- MODULE ReviewProofs -----------------------------
(***************************************************************************)
(* Proofs about the lists of Review.tla, for any rows, limits and offsets: *)
(* a page holds the rows at the places it is asked for, and the last page  *)
(* is the one that says there are no more.                                 *)
(***************************************************************************)
EXTENDS Review, FiniteSetTheorems, TLAPS

\* The rows of a list are finite in number, and no two are at one place.
Ordered(ranks) ==
    /\ IsFiniteSet(DOMAIN ranks)
    /\ \A r \in DOMAIN ranks : ranks[r] \in Nat
    /\ \A r, q \in DOMAIN ranks : ranks[r] = ranks[q] => r = q

\* The rows up to a row.
UpTo(ranks, row) == {r \in DOMAIN ranks : ranks[r] <= ranks[row]}

\* Places count from 1 to the number of rows.
LEMMA PlaceType ==
    ASSUME NEW ranks, Ordered(ranks), NEW row \in DOMAIN ranks
    PROVE  /\ IsFiniteSet(UpTo(ranks, row))
           /\ Place(ranks, row) = Cardinality(UpTo(ranks, row))
           /\ Place(ranks, row) \in 1 .. Cardinality(DOMAIN ranks)
           /\ Cardinality(DOMAIN ranks) \in Nat
<1>1. UpTo(ranks, row) \in SUBSET DOMAIN ranks /\ row \in UpTo(ranks, row)
  BY DEF UpTo, Ordered
<1>2. /\ IsFiniteSet(UpTo(ranks, row))
      /\ Cardinality(UpTo(ranks, row)) <= Cardinality(DOMAIN ranks)
  BY <1>1, FS_Subset DEF Ordered
<1>3. /\ Cardinality(UpTo(ranks, row)) \in Nat /\ Cardinality(DOMAIN ranks) \in Nat
      /\ Cardinality(UpTo(ranks, row)) # 0
  BY <1>1, <1>2, FS_CardinalityType, FS_EmptySet DEF Ordered
<1> QED
  BY <1>2, <1>3 DEF Place, UpTo

\* A row that comes later has a greater place.
LEMMA PlacesIncrease ==
    ASSUME NEW ranks, Ordered(ranks),
           NEW r \in DOMAIN ranks, NEW q \in DOMAIN ranks, ranks[r] < ranks[q]
    PROVE  Place(ranks, r) < Place(ranks, q)
<1>1. UpTo(ranks, r) \in SUBSET UpTo(ranks, q) /\ q \in UpTo(ranks, q) /\ q \notin UpTo(ranks, r)
  BY DEF UpTo, Ordered
<1>2. /\ Cardinality(UpTo(ranks, r)) <= Cardinality(UpTo(ranks, q))
      /\ Cardinality(UpTo(ranks, r)) # Cardinality(UpTo(ranks, q))
  BY <1>1, PlaceType, FS_Subset
<1> QED
  BY <1>2, PlaceType

\* No place is taken twice or left free.
LEMMA PlacesAreTaken ==
    ASSUME NEW ranks, Ordered(ranks)
    PROVE  /\ \A r, q \in DOMAIN ranks : Place(ranks, r) = Place(ranks, q) => r = q
           /\ \A n \in 1 .. Cardinality(DOMAIN ranks) :
                 \E r \in DOMAIN ranks : Place(ranks, r) = n
<1> DEFINE size == Cardinality(DOMAIN ranks)
           place == [r \in DOMAIN ranks |-> Place(ranks, r)]
<1>1. \A r, q \in DOMAIN ranks : Place(ranks, r) = Place(ranks, q) => r = q
  <2> SUFFICES ASSUME NEW r \in DOMAIN ranks, NEW q \in DOMAIN ranks, r # q
               PROVE  Place(ranks, r) # Place(ranks, q)
    OBVIOUS
  <2>1. ranks[r] < ranks[q] \/ ranks[q] < ranks[r]
    BY DEF Ordered
  <2> QED
    BY <2>1, PlacesIncrease, PlaceType
<1>2. size \in Nat
  BY FS_CardinalityType DEF Ordered
<1>3. place \in [DOMAIN ranks -> 1 .. size]
  BY PlaceType
<1>4. place \in Injection(DOMAIN ranks, 1 .. size)
  BY <1>1, <1>3 DEF Injection, IsInjective
<1>5. IsFiniteSet(1 .. size) /\ Cardinality(1 .. size) = size
  BY <1>2, FS_Interval
<1>6. place \in Surjection(DOMAIN ranks, 1 .. size)
  BY <1>4, <1>5, FS_Injection
<1> QED
  BY <1>1, <1>6 DEF Surjection

\* A page is no longer than its limit.
LEMMA ItemsAreFew ==
    ASSUME NEW ranks, Ordered(ranks), NEW limit \in Nat, NEW offset \in Nat
    PROVE  /\ IsFiniteSet(Items(ranks, limit, offset))
           /\ Cardinality(Items(ranks, limit, offset)) \in 0 .. limit
<1> DEFINE items == Items(ranks, limit, offset)
           place == [r \in items |-> Place(ranks, r)]
<1>1. items \subseteq DOMAIN ranks
  BY DEF Items
<1>2. place \in Injection(items, offset + 1 .. offset + limit)
  BY <1>1, PlacesAreTaken DEF Items, Injection, IsInjective
<1>3. /\ IsFiniteSet(offset + 1 .. offset + limit)
      /\ Cardinality(offset + 1 .. offset + limit) = limit
  BY FS_Interval
<1>4. IsFiniteSet(items) /\ Cardinality(items) <= limit
  BY <1>2, <1>3, FS_Injection
<1> QED
  BY <1>4, FS_CardinalityType

\* A page that says that there is no more has the last row, or there is none after its offset.
LEMMA LastPage ==
    ASSUME NEW ranks, Ordered(ranks), NEW limit \in Nat \ {0}, NEW offset \in Nat,
           ~Page(ranks, limit, offset).has_more,
           NEW row \in DOMAIN ranks, Place(ranks, row) > offset
    PROVE  row \in Page(ranks, limit, offset).items
<1> DEFINE items == Items(ranks, limit, offset)
           size == Cardinality(DOMAIN ranks)
<1>1. Place(ranks, row) \in 1 .. size /\ size \in Nat
  BY PlaceType
<1>2. PICK r \in DOMAIN ranks : Place(ranks, r) = offset + 1
  BY <1>1, PlacesAreTaken
<1>3. items # {}
  BY <1>2 DEF Items
<1>4. Cardinality(items) \in 0 .. limit
  BY ItemsAreFew
<1>5. Page(ranks, limit, offset).has_more <=> offset + Cardinality(items) < size
  BY <1>3 DEF Page
<1> DEFINE n == Cardinality(items)
<1> HIDE DEF n, size, items
<1>6. Place(ranks, row) \in offset + 1 .. offset + limit
  <2>1. ~(offset + n < size) /\ n \in 0 .. limit
    BY <1>4, <1>5 DEF n
  <2> QED
    BY <1>1, <2>1
<1> QED
  BY <1>6 DEF Page, Items

\* A page shows the rows at its places: those after it are further on.
LEMMA NextPage ==
    ASSUME NEW ranks, Ordered(ranks), NEW limit \in Nat, NEW offset \in Nat,
           NEW row \in DOMAIN ranks, Place(ranks, row) > offset
    PROVE  \/ row \in Page(ranks, limit, offset).items
           \/ Place(ranks, row) > offset + limit
BY PlaceType DEF Page, Items

\* Rows that are added, or moved to the front, move the others on and never back.
LEMMA PlacesGrow ==
    ASSUME NEW ranks, Ordered(ranks), NEW later, Ordered(later),
           DOMAIN ranks \subseteq DOMAIN later,
           NEW row \in DOMAIN ranks,
           \A r \in DOMAIN ranks : ranks[r] <= ranks[row] => later[r] <= later[row]
    PROVE  Place(ranks, row) <= Place(later, row)
<1>1. UpTo(ranks, row) \in SUBSET UpTo(later, row)
  BY DEF UpTo
<1>2. Cardinality(UpTo(ranks, row)) <= Cardinality(UpTo(later, row))
  BY <1>1, PlaceType, FS_Subset
<1> QED
  BY <1>2, PlaceType
=============================================================================
