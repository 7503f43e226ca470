----------------------------- MODULE PagesProofs ----------------------------
(***************************************************************************)
(* Theorems about Pages, for any items, filters, files and sizes: the      *)
(* pages tell the truth.                                                   *)
(***************************************************************************)
EXTENDS Pages, SumTheorems, SequenceTheorems

(***************************************************************************)
(* The order of a listing, for a table `a` of the times.                   *)
(***************************************************************************)
Sooner(a, i, j) == a[i] < a[j] \/ (a[i] = a[j] /\ Rank[i] < Rank[j])
Sooners(a, S, i) == {j \in S : Sooner(a, j, i)}

LEMMA SoonerOrders ==
  ASSUME NEW a \in [Items -> Nat], NEW i \in Items, NEW j \in Items, NEW k \in Items
  PROVE  /\ ~Sooner(a, i, i)
         /\ Sooner(a, i, j) /\ Sooner(a, j, k) => Sooner(a, i, k)
         /\ Sooner(a, i, j) \/ Sooner(a, j, i) \/ i = j
<1>1. /\ a[i] \in Nat /\ a[j] \in Nat /\ a[k] \in Nat
      /\ Rank[i] \in Nat /\ Rank[j] \in Nat /\ Rank[k] \in Nat
      /\ Rank[i] = Rank[j] => i = j
  BY ItemsAssumption
<1>2. QED
  BY <1>1 DEF Sooner

LEMMA SoonersAreFew ==
  ASSUME NEW a, NEW S \in SUBSET Items, NEW i
  PROVE  /\ IsFiniteSet(S) /\ Cardinality(S) \in Nat
         /\ IsFiniteSet(Sooners(a, S, i)) /\ Cardinality(Sooners(a, S, i)) \in Nat
         /\ Sooners(a, S, i) \in SUBSET S
<1>1. IsFiniteSet(S)
  BY ItemsAssumption, FS_Subset
<1>2. Sooners(a, S, i) \in SUBSET S
  BY DEF Sooners
<1>3. IsFiniteSet(Sooners(a, S, i))
  BY <1>1, <1>2, FS_Subset
<1>4. QED
  BY <1>1, <1>2, <1>3, FS_CardinalityType

(* A part without one element of the whole is smaller.                     *)
LEMMA SmallerPart ==
  ASSUME NEW S, NEW T, NEW x \in S, IsFiniteSet(S), T \subseteq S, x \notin T
  PROVE  Cardinality(T) < Cardinality(S)
<1>1. T \in SUBSET S /\ T # S
  OBVIOUS
<1>2. IsFiniteSet(T) /\ Cardinality(T) <= Cardinality(S) /\ Cardinality(T) # Cardinality(S)
  BY <1>1, FS_Subset
<1>3. Cardinality(T) \in Nat /\ Cardinality(S) \in Nat
  BY <1>2, FS_CardinalityType
<1>4. QED
  BY <1>2, <1>3

LEMMA SoonersGrow ==
  ASSUME NEW a \in [Items -> Nat], NEW S \in SUBSET Items, NEW i \in S, NEW j \in S
  PROVE  Sooner(a, i, j) <=> Cardinality(Sooners(a, S, i)) < Cardinality(Sooners(a, S, j))
<1>1. ASSUME NEW p \in S, NEW q \in S, Sooner(a, p, q)
      PROVE  Cardinality(Sooners(a, S, p)) < Cardinality(Sooners(a, S, q))
  <2>1. /\ Sooners(a, S, p) \subseteq Sooners(a, S, q)
        /\ p \in Sooners(a, S, q) /\ p \notin Sooners(a, S, p)
    BY <1>1, SoonerOrders DEF Sooners
  <2>2. IsFiniteSet(Sooners(a, S, q))
    BY SoonersAreFew
  <2>3. QED
    BY <2>1, <2>2, SmallerPart
<1>2. /\ Cardinality(Sooners(a, S, i)) \in Nat /\ Cardinality(Sooners(a, S, j)) \in Nat
  BY SoonersAreFew
<1>3. Sooner(a, i, j) \/ Sooner(a, j, i) \/ i = j
  BY SoonerOrders
<1>4. QED
  BY <1>1, <1>2, <1>3

(* Every place of the order is taken, by one item.                         *)
LEMMA PlacesFill ==
  ASSUME NEW a \in [Items -> Nat], NEW S \in SUBSET Items
  PROVE  /\ \A i \in S : Cardinality(Sooners(a, S, i)) < Cardinality(S)
         /\ \A n \in Nat : n < Cardinality(S) => \E i \in S : Cardinality(Sooners(a, S, i)) = n
<1> DEFINE place == [i \in S |-> Cardinality(Sooners(a, S, i))]
           T == {place[i] : i \in S}
           N == Cardinality(S)
           D == 0 .. N - 1
<1>1. IsFiniteSet(S) /\ N \in Nat
  BY SoonersAreFew
<1>2. ASSUME NEW i \in S PROVE place[i] \in Nat /\ place[i] < N
  <2>1. i \notin Sooners(a, S, i)
    BY SoonerOrders DEF Sooners
  <2>2. Cardinality(Sooners(a, S, i)) < Cardinality(S)
    BY <1>1, <2>1, SmallerPart, SoonersAreFew
  <2>3. QED
    BY <2>2, SoonersAreFew
<1>3. \A i, j \in S : place[i] = place[j] => i = j
  <2> SUFFICES ASSUME NEW i \in S, NEW j \in S, place[i] = place[j] PROVE i = j
    OBVIOUS
  <2>1. ~Sooner(a, i, j) /\ ~Sooner(a, j, i)
    BY <1>2, SoonersGrow
  <2>2. QED
    BY <2>1, SoonerOrders
<1> HIDE DEF N
<1>4. T \subseteq D
  BY <1>1, <1>2
<1>5. place \in Injection(S, T) /\ place \in Surjection(S, T)
  <2>1. /\ place \in [S -> T] /\ \A t \in T : \E i \in S : place[i] = t
        /\ \A i, j \in S : place[i] = place[j] => i = j
    BY <1>2, <1>3
  <2> HIDE DEF place, T
  <2>2. QED
    BY <2>1 DEF Injection, Surjection, IsInjective
<1>6. Cardinality(T) = N
  <2> HIDE DEF place, T
  <2>1. QED
    BY <1>1, <1>5, FS_Surjection DEF N
<1>7. IsFiniteSet(D) /\ Cardinality(D) = N
  BY <1>1, FS_Interval
<1>8. T = D
  <2> HIDE DEF T, D
  <2>1. QED
    BY <1>4, <1>6, <1>7, FS_Subset
<1>9. ASSUME NEW n \in Nat, n < N PROVE \E i \in S : Cardinality(Sooners(a, S, i)) = n
  <2>1. n \in T
    BY <1>1, <1>8, <1>9
  <2>2. QED
    BY <2>1
<1>10. QED
  BY <1>2, <1>9 DEF N

-----------------------------------------------------------------------------
(***************************************************************************)
(* The relayer's answers.                                                  *)
(***************************************************************************)

LEMMA Order ==
  /\ \A i, j : Before(i, j) <=> Sooner(at, i, j)
  /\ \A S, i : Earlier(S, i) = Sooners(at, S, i)
BY DEF Before, Sooner, Earlier, Sooners

LEMMA InOrderIs ==
  ASSUME at \in [Items -> Nat], NEW S \in SUBSET Items
  PROVE  /\ InOrder(S) \in Seq(S) /\ Len(InOrder(S)) = Cardinality(S) /\ Cardinality(S) \in Nat
         /\ DOMAIN InOrder(S) = 1 .. Cardinality(S)
         /\ \A n \in 1 .. Cardinality(S) :
              InOrder(S)[n] \in S /\ Cardinality(Earlier(S, InOrder(S)[n])) = n - 1
         /\ \A i \in S : /\ Cardinality(Earlier(S, i)) + 1 \in 1 .. Cardinality(S)
                         /\ InOrder(S)[Cardinality(Earlier(S, i)) + 1] = i
<1> DEFINE N == Cardinality(S)
           s == InOrder(S)
           Place(i) == Cardinality(Earlier(S, i))
<1>1. N \in Nat /\ \A i \in S : Place(i) \in Nat /\ Place(i) < N
  BY SoonersAreFew, PlacesFill, Order
<1>2. \A n \in Nat : n < N => \E i \in S : Place(i) = n
  BY PlacesFill, Order
<1>3. \A i, j \in S : Place(i) = Place(j) => i = j
  <2> SUFFICES ASSUME NEW i \in S, NEW j \in S, Place(i) = Place(j) PROVE i = j
    OBVIOUS
  <2>1. ~Sooner(at, i, j) /\ ~Sooner(at, j, i)
    BY <1>1, SoonersGrow, Order
  <2>2. QED
    BY <2>1, SoonerOrders
<1>4. s = [n \in 1 .. N |-> CHOOSE i \in S : Place(i) = n - 1]
  BY DEF InOrder
<1> HIDE DEF Place, s, N
<1>5. ASSUME NEW n \in 1 .. N PROVE s[n] \in S /\ Place(s[n]) = n - 1
  <2>1. n - 1 \in Nat /\ n - 1 < N
    BY <1>1
  <2>2. \E i \in S : Place(i) = n - 1
    BY <1>2, <2>1
  <2>3. s[n] = CHOOSE i \in S : Place(i) = n - 1
    BY <1>4
  <2>4. QED
    BY <2>2, <2>3
<1>6. s \in [1 .. N -> S]
  BY <1>4, <1>5
<1>7. s \in Seq(S) /\ Len(s) = N /\ DOMAIN s = 1 .. N
  BY <1>1, <1>6
<1>8. ASSUME NEW i \in S PROVE Place(i) + 1 \in 1 .. N /\ s[Place(i) + 1] = i
  <2>1. Place(i) + 1 \in 1 .. N
    BY <1>1
  <2>2. s[Place(i) + 1] \in S /\ Place(s[Place(i) + 1]) = Place(i)
    BY <1>1, <2>1, <1>5
  <2>3. QED
    BY <2>1, <2>2, <1>3
<1>9. QED
  BY <1>1, <1>5, <1>7, <1>8 DEF N, s, Place

LEMMA Stored ==
  ASSUME PagesTyped
  PROVE  /\ at \in [Items -> Nat] /\ StoredItems \in SUBSET Items
         /\ \A kind, filter : Matching(kind, filter) \in SUBSET StoredItems
BY BoundsAssumption DEF PagesTyped, TypeOK, StoredItems, Matching

LEMMA RowIs ==
  ASSUME NEW i \in Items
  PROVE  Row(i) \in Items \X BOOLEAN /\ Row(i)[1] = i /\ (Row(i)[2] <=> i \in final)
<1>1. (i \in final) \in BOOLEAN
  OBVIOUS
<1> DEFINE b == i \in final
<1>2. Row(i) = <<i, b>>
  BY DEF Row
<1>3. b \in BOOLEAN /\ (b <=> i \in final)
  BY <1>1
<1> HIDE DEF b
<1>4. Row(i) \in Items \X BOOLEAN /\ Row(i)[1] = i /\ Row(i)[2] = b
  BY <1>2, <1>3
<1>5. QED
  BY <1>3, <1>4

LEMMA RowsOfAre ==
  ASSUME PagesTyped, NEW S \in SUBSET StoredItems
  PROVE  /\ RowsOf(S) \in Rows /\ Len(RowsOf(S)) = Cardinality(S) /\ Cardinality(S) \in Nat
         /\ \A n \in 1 .. Cardinality(S) :
              RowsOf(S)[n] = Row(InOrder(S)[n]) /\ RowsOf(S)[n] \in Items \X BOOLEAN
<1> DEFINE s == InOrder(S)
           N == Cardinality(S)
<1>1. /\ DOMAIN s = 1 .. N /\ N \in Nat /\ \A n \in 1 .. N : s[n] \in Items
  BY Stored, InOrderIs
<1>2. RowsOf(S) = [n \in 1 .. N |-> Row(s[n])]
  BY <1>1 DEF RowsOf
<1>3. \A n \in 1 .. N : Row(s[n]) \in Items \X BOOLEAN
  BY <1>1, RowIs
<1> HIDE DEF s, N
<1>4. RowsOf(S) \in [1 .. N -> Items \X BOOLEAN]
  BY <1>2, <1>3
<1>5. RowsOf(S) \in Seq(Items \X BOOLEAN) /\ Len(RowsOf(S)) = N
  BY <1>1, <1>4
<1>6. QED
  BY <1>1, <1>2, <1>3, <1>5 DEF Rows, N, s

LEMMA MinOfTwo ==
  ASSUME NEW m \in Nat, NEW n \in Nat
  PROVE  Min({m, n}) = IF m <= n THEN m ELSE n
<1>1. \E x \in {m, n} : \A y \in {m, n} : x <= y
  OBVIOUS
<1>2. Min({m, n}) \in {m, n} /\ \A y \in {m, n} : Min({m, n}) <= y
  BY <1>1 DEF Min
<1>3. QED
  BY <1>2

(* The page of a listing: the rows from its offset on, at most PageSize.   *)
LEMMA ListingIs ==
  ASSUME PagesTyped, NEW key \in Keys
  PROVE  LET M == Matching(key.page, key.run)
             rows == Listing(key)
         IN  /\ rows \in Rows /\ Len(rows) \in Nat /\ Len(rows) <= PageSize
             /\ Cardinality(M) \in Nat
             /\ key.offset <= Cardinality(M) =>
                  /\ key.offset + Len(rows) <= Cardinality(M)
                  /\ Len(rows) < PageSize => key.offset + Len(rows) = Cardinality(M)
             /\ \A n \in 1 .. Len(rows) : \E i \in M : rows[n] = Row(i)
             /\ ItemsIn(rows) =
                  {i \in M : /\ key.offset <= Cardinality(Earlier(M, i))
                             /\ Cardinality(Earlier(M, i)) < key.offset + Len(rows)}
<1> DEFINE M == Matching(key.page, key.run)
           all == RowsOf(M)
           N == Cardinality(M)
           o == key.offset
           m == Min({Len(all), o + PageSize})
           rows == SubSeq(all, o + 1, m)
<1>1. M \in SUBSET StoredItems /\ o \in Nat /\ PageSize \in Nat \ {0} /\ Listing(key) = rows
  BY Stored, BoundsAssumption DEF Keys, Listing
<1>2. /\ N \in Nat /\ Len(all) = N
      /\ \A n \in 1 .. N : all[n] = Row(InOrder(M)[n]) /\ all[n] \in Items \X BOOLEAN
  BY <1>1, RowsOfAre
<1>3. /\ \A n \in 1 .. N : InOrder(M)[n] \in M /\ Cardinality(Earlier(M, InOrder(M)[n])) = n - 1
      /\ \A i \in M : /\ Cardinality(Earlier(M, i)) \in Nat
                       /\ Cardinality(Earlier(M, i)) + 1 \in 1 .. N
                       /\ InOrder(M)[Cardinality(Earlier(M, i)) + 1] = i
  <2>1. M \in SUBSET Items
    BY <1>1, Stored
  <2>2. \A i \in M : Cardinality(Earlier(M, i)) \in Nat
    BY <2>1, SoonersAreFew, Order
  <2>3. QED
    BY <2>1, <2>2, InOrderIs, Stored
<1>4. m = IF N <= o + PageSize THEN N ELSE o + PageSize
  <2>1. m = Min({N, o + PageSize}) /\ o + PageSize \in Nat
    BY <1>1, <1>2
  <2> HIDE DEF m, N, o
  <2>2. QED
    BY <2>1, <1>2, MinOfTwo
<1> HIDE DEF m, M, N, o, all
<1>5. m \in Nat /\ m <= N
  BY <1>1, <1>2, <1>4
<1>6. /\ rows \in Seq(Items \X BOOLEAN)
      /\ Len(rows) = IF o + 1 <= m THEN m - o ELSE 0
      /\ \A n \in 1 .. m - o : rows[n] = all[o + n]
  <2>1. \A n \in o + 1 .. m : all[n] \in Items \X BOOLEAN
    BY <1>1, <1>2, <1>5
  <2>2. /\ rows \in Seq(Items \X BOOLEAN)
        /\ Len(rows) = IF o + 1 <= m THEN m - (o + 1) + 1 ELSE 0
        /\ \A n \in 1 .. m - (o + 1) + 1 : rows[n] = all[(o + 1) + n - 1]
    BY <1>1, <1>5, <2>1, SubSeqProperties
  <2> HIDE DEF rows
  <2>3. Len(rows) = IF o + 1 <= m THEN m - o ELSE 0
    BY <1>1, <1>5, <2>2
  <2>4. ASSUME NEW n \in 1 .. m - o PROVE rows[n] = all[o + n]
    <3>1. n \in 1 .. m - (o + 1) + 1 /\ (o + 1) + n - 1 = o + n
      BY <1>1, <1>5
    <3>2. rows[n] = all[(o + 1) + n - 1]
      BY <2>2, <3>1
    <3>3. QED
      BY <3>1, <3>2
  <2>5. QED
    BY <2>2, <2>3, <2>4
<1> HIDE DEF rows
<1>7. Len(rows) \in Nat /\ Len(rows) <= PageSize /\ DOMAIN rows = 1 .. Len(rows)
  BY <1>1, <1>4, <1>5, <1>6, LenProperties
<1>8. o <= N => /\ o + Len(rows) <= N
                /\ Len(rows) < PageSize => o + Len(rows) = N
  BY <1>1, <1>2, <1>4, <1>5, <1>6
<1>9. ASSUME NEW n \in 1 .. Len(rows), NEW k \in Int, k = o + n
      PROVE  /\ k \in 1 .. N /\ rows[n] = Row(InOrder(M)[k])
             /\ InOrder(M)[k] \in M
             /\ Cardinality(Earlier(M, InOrder(M)[k])) = k - 1
  <2>1. n \in 1 .. m - o /\ k \in 1 .. N
    BY <1>1, <1>2, <1>5, <1>6, <1>9
  <2>2. rows[n] = all[k]
    BY <2>1, <1>6, <1>9
  <2>3. QED
    BY <2>1, <2>2, <1>2, <1>3
<1>10. ItemsIn(rows) = {i \in M : o <= Cardinality(Earlier(M, i))
                                 /\ Cardinality(Earlier(M, i)) < o + Len(rows)}
  <2>1. ASSUME NEW i \in ItemsIn(rows)
        PROVE  /\ i \in M /\ o <= Cardinality(Earlier(M, i))
               /\ Cardinality(Earlier(M, i)) < o + Len(rows)
    <3>1. PICK n \in 1 .. Len(rows) : i = rows[n][1]
      BY <1>7 DEF ItemsIn
    <3>2. PICK k \in Int : k = o + n
      BY <1>1
    <3>3. /\ rows[n] = Row(InOrder(M)[k]) /\ InOrder(M)[k] \in M
          /\ Cardinality(Earlier(M, InOrder(M)[k])) = k - 1
      BY <3>2, <1>9
    <3>4. i = InOrder(M)[k]
      BY <3>1, <3>3 DEF Row
    <3>5. QED
      BY <3>2, <3>3, <3>4, <1>1, <1>7
  <2>2. ASSUME NEW i \in M, o <= Cardinality(Earlier(M, i)),
               Cardinality(Earlier(M, i)) < o + Len(rows)
        PROVE  i \in ItemsIn(rows)
    <3> DEFINE place == Cardinality(Earlier(M, i))
               n == place + 1 - o
    <3>1. place + 1 \in 1 .. N /\ InOrder(M)[place + 1] = i
      BY <1>3
    <3>2. place \in Int
      BY <1>3
    <3> HIDE DEF place
    <3>3. n \in 1 .. Len(rows) /\ o + n = place + 1 /\ place + 1 \in Int
      BY <3>1, <3>2, <2>2, <1>1, <1>7 DEF place
    <3> HIDE DEF n
    <3>4. rows[n] = Row(i)
      BY <3>1, <3>3, <1>9
    <3>5. QED
      BY <3>3, <3>4, <1>7 DEF ItemsIn, Row
  <2>3. QED
    BY <2>1, <2>2
<1>11. ASSUME NEW n \in 1 .. Len(rows) PROVE \E i \in M : rows[n] = Row(i)
  <2>1. PICK k \in Int : k = o + n
    BY <1>1
  <2>2. QED
    BY <2>1, <1>9
<1>12. QED
  BY <1>1, <1>2, <1>6, <1>7, <1>8, <1>10, <1>11 DEF M, N, o, Rows

(* Whatever is asked, each row answered is the one the store has.          *)
LEMMA AnswersAre ==
  ASSUME PagesTyped, NEW key \in Keys
  PROVE  /\ Answer(key) \in Rows
         /\ ItemsIn(Answer(key)) \subseteq StoredItems
         /\ FinalIn(Answer(key)) = ItemsIn(Answer(key)) \intersect final
<1> DEFINE rows == Answer(key)
<1>1. rows \in Rows /\ \A n \in 1 .. Len(rows) : \E i \in StoredItems : rows[n] = Row(i)
  <2>1. CASE key.page = "performance"
    <3> DEFINE S == Matching("intents", IF key.run = All THEN "default" ELSE key.run)
    <3>1. S \in SUBSET StoredItems /\ rows = RowsOf(S)
      BY <2>1, Stored DEF Answer, Counted
    <3>2. /\ rows \in Rows /\ Len(rows) = Cardinality(S)
          /\ \A n \in 1 .. Cardinality(S) : rows[n] = Row(InOrder(S)[n])
      BY <3>1, RowsOfAre
    <3>3. \A n \in 1 .. Cardinality(S) : InOrder(S)[n] \in S
      <4>1. S \in SUBSET Items
        BY <3>1, Stored
      <4> HIDE DEF S
      <4>2. QED
        BY <4>1, Stored, InOrderIs
    <3> HIDE DEF S
    <3>4. QED
      BY <3>1, <3>2, <3>3
  <2>2. CASE key.page # "performance"
    <3>1. rows = Listing(key)
      BY <2>2 DEF Answer
    <3>2. QED
      BY <3>1, ListingIs, Stored
  <2>3. QED
    BY <2>1, <2>2
<1> HIDE DEF rows
<1>2. DOMAIN rows = 1 .. Len(rows)
  BY <1>1, LenProperties DEF Rows
<1>3. \A n \in DOMAIN rows : rows[n][1] \in StoredItems /\ (rows[n][2] <=> rows[n][1] \in final)
  BY <1>1, <1>2, RowIs DEF StoredItems
<1>4. ItemsIn(rows) \subseteq StoredItems
  BY <1>3 DEF ItemsIn
<1>5. FinalIn(rows) = ItemsIn(rows) \intersect final
  BY <1>3 DEF FinalIn, ItemsIn
<1>6. QED
  BY <1>1, <1>4, <1>5 DEF rows

-----------------------------------------------------------------------------
(***************************************************************************)
(* What the reader has seen of a listing M, its times given by `a`.        *)
(***************************************************************************)
CoveredIn(a, M, o, seen) ==
  /\ o <= Cardinality(M)
  /\ \A i \in M : Cardinality(Sooners(a, M, i)) < o => \E j \in seen : a[j] = a[i]

Between(a, M, seen, rows) ==
  \A i \in M, j \in ItemsIn(rows) : Sooner(a, i, j) => \E k \in seen : a[k] = a[i]

Follows(a, M, o, u, rows) ==
  LET seen == u \union ItemsIn(rows)
  IN  CoveredIn(a, M, o + Len(rows), seen) /\ Between(a, M, seen, rows)

(* A listing grows at its end: what was covered still is.                  *)
LEMMA CoveredStays ==
  ASSUME NEW a \in [Items -> Nat], NEW b \in [Items -> Nat],
         NEW M \in SUBSET Items, NEW L \in SUBSET Items, NEW o \in Nat, NEW seen,
         M \subseteq L, CoveredIn(a, M, o, seen),
         \A i \in M \union seen : b[i] = a[i],
         \A k \in L \ M, i \in M : b[i] <= b[k],
         \A k, i \in L \ M : k = i
  PROVE  CoveredIn(b, L, o, seen)
<1>1. /\ IsFiniteSet(M) /\ IsFiniteSet(L) /\ Cardinality(M) \in Nat /\ Cardinality(L) \in Nat
      /\ Cardinality(M) <= Cardinality(L)
  <2>1. M \in SUBSET L
    OBVIOUS
  <2>2. IsFiniteSet(M) /\ IsFiniteSet(L) /\ Cardinality(M) \in Nat /\ Cardinality(L) \in Nat
    BY SoonersAreFew
  <2>3. QED
    BY <2>1, <2>2, FS_Subset
<1>2. ASSUME NEW i \in M, NEW j \in M PROVE Sooner(b, i, j) <=> Sooner(a, i, j)
  BY DEF Sooner
<1>3. ASSUME NEW i \in L, Cardinality(Sooners(b, L, i)) < o
      PROVE  \E j \in seen : b[j] = b[i]
  <2> DEFINE n == Cardinality(Sooners(b, L, i))
  <2>1. n \in Nat /\ n < o
    BY <1>3, SoonersAreFew
  <2>2. CASE i \in M
    <3>1. Sooners(a, M, i) \in SUBSET Sooners(b, L, i)
      BY <1>2, <2>2 DEF Sooners
    <3>2. Cardinality(Sooners(a, M, i)) <= n /\ Cardinality(Sooners(a, M, i)) \in Nat
      BY <3>1, SoonersAreFew, FS_Subset
    <3>3. PICK j \in seen : a[j] = a[i]
      BY <2>1, <2>2, <3>2 DEF CoveredIn
    <3>4. QED
      BY <3>3, <2>2
  <2>3. CASE i \notin M
    <3>1. PICK p \in M : Cardinality(Sooners(a, M, p)) = n
      <4>1. n < Cardinality(M)
        BY <1>1, <2>1 DEF CoveredIn
      <4>2. QED
        BY <2>1, <4>1, PlacesFill
    <3>2. ~Sooner(b, p, i)
      <4> SUFFICES ASSUME Sooner(b, p, i) PROVE FALSE
        OBVIOUS
      <4>1. Sooners(a, M, p) \subseteq Sooners(b, L, i)
        <5> SUFFICES ASSUME NEW q \in M, Sooner(a, q, p) PROVE Sooner(b, q, i)
          BY DEF Sooners
        <5>1. Sooner(b, q, p)
          BY <1>2
        <5>2. QED
          BY <5>1, SoonerOrders
      <4>2. p \in Sooners(b, L, i) /\ p \notin Sooners(a, M, p)
        BY SoonerOrders DEF Sooners
      <4>3. Cardinality(Sooners(a, M, p)) < n
        BY <4>1, <4>2, SmallerPart, SoonersAreFew
      <4>4. QED
        BY <2>1, <3>1, <4>3
    <3>3. b[p] = b[i]
      BY <2>3, <3>2 DEF Sooner
    <3>4. PICK j \in seen : a[j] = a[p]
      BY <2>1, <3>1 DEF CoveredIn
    <3>5. QED
      BY <3>3, <3>4
  <2>4. QED
    BY <2>2, <2>3
<1>4. o <= Cardinality(L)
  BY <1>1 DEF CoveredIn
<1>5. QED
  BY <1>3, <1>4 DEF CoveredIn

(* Less covered, more seen.                                                *)
LEMMA CoveredLess ==
  ASSUME NEW a, NEW M \in SUBSET Items, NEW o \in Nat, NEW l \in Nat, l <= o,
         NEW u, NEW v, u \subseteq v, CoveredIn(a, M, o, u)
  PROVE  CoveredIn(a, M, l, v)
<1>1. Cardinality(M) \in Nat /\ \A i \in M : Cardinality(Sooners(a, M, i)) \in Nat
  BY SoonersAreFew
<1>2. QED
  BY <1>1 DEF CoveredIn

LEMMA NoneCovered ==
  ASSUME NEW a, NEW M \in SUBSET Items, NEW u
  PROVE  CoveredIn(a, M, 0, u)
<1>1. Cardinality(M) \in Nat /\ \A i \in M : Cardinality(Sooners(a, M, i)) \in Nat
  BY SoonersAreFew
<1>2. QED
  BY <1>1 DEF CoveredIn

LEMMA NoRows ==
  /\ ItemsIn(<< >>) = {} /\ FinalIn(<< >>) = {} /\ Len(<< >>) = 0 /\ << >> \in Rows
BY DEF ItemsIn, FinalIn, Rows

(* Rows not there yet follow from what is covered.                         *)
LEMMA NoneFollow ==
  ASSUME NEW a, NEW M, NEW o \in Nat, NEW u, CoveredIn(a, M, o, u)
  PROVE  Follows(a, M, o, u, << >>)
<1>1. o + 0 = o /\ u \union {} = u
  OBVIOUS
<1>2. QED
  BY <1>1, NoRows DEF Follows, Between

LEMMA FollowsStays ==
  ASSUME NEW a \in [Items -> Nat], NEW b \in [Items -> Nat],
         NEW M \in SUBSET Items, NEW L \in SUBSET Items, NEW o \in Nat, NEW u \in SUBSET Items,
         NEW rows \in Rows, ItemsIn(rows) \subseteq Items, Follows(a, M, o, u, rows),
         M \subseteq L,
         \A i \in M \union u \union ItemsIn(rows) : b[i] = a[i],
         \A k \in L \ M, i \in M \union ItemsIn(rows) : b[i] <= b[k],
         \A k, i \in L \ M : k = i
  PROVE  Follows(b, L, o, u, rows)
<1> DEFINE seen == u \union ItemsIn(rows)
           n == o + Len(rows)
<1>1. n \in Nat /\ CoveredIn(a, M, n, seen) /\ Between(a, M, seen, rows)
  <2>1. Len(rows) \in Nat
    BY LenProperties DEF Rows
  <2>2. QED
    BY <2>1 DEF Follows
<1> HIDE DEF n
<1>2. CoveredIn(b, L, n, seen)
  <2>1. \A i \in M \union seen : b[i] = a[i]
    OBVIOUS
  <2> HIDE DEF seen
  <2>2. QED
    BY <1>1, <2>1, CoveredStays
<1>3. ASSUME NEW i \in L, NEW j \in ItemsIn(rows), Sooner(b, i, j)
      PROVE  \E k \in seen : b[k] = b[i]
  <2>1. CASE i \in M
    <3>1. Sooner(a, i, j)
      BY <1>3, <2>1 DEF Sooner
    <3>2. PICK k \in seen : a[k] = a[i]
      BY <1>1, <2>1, <3>1 DEF Between
    <3>3. QED
      BY <2>1, <3>2
  <2>2. CASE i \notin M
    <3>1. b[j] <= b[i] /\ b[j] \in Nat /\ b[i] \in Nat /\ b[i] <= b[j]
      BY <1>3, <2>2 DEF Sooner
    <3>2. QED
      BY <3>1
  <2>3. QED
    BY <2>1, <2>2
<1>4. Between(b, L, seen, rows)
  BY <1>3 DEF Between
<1>5. QED
  BY <1>2, <1>4 DEF Follows, n

(* The rows of a page continue what was covered before it.                 *)
LEMMA PageFollows ==
  ASSUME NEW a \in [Items -> Nat], NEW M \in SUBSET Items, NEW o \in Nat, NEW u,
         CoveredIn(a, M, o, u), NEW rows \in Rows, o + Len(rows) <= Cardinality(M),
         ItemsIn(rows) = {i \in M : /\ o <= Cardinality(Sooners(a, M, i))
                                    /\ Cardinality(Sooners(a, M, i)) < o + Len(rows)}
  PROVE  Follows(a, M, o, u, rows)
<1> DEFINE seen == u \union ItemsIn(rows)
           place == [i \in M |-> Cardinality(Sooners(a, M, i))]
           n == o + Len(rows)
<1>1. /\ Len(rows) \in Nat /\ n \in Nat /\ Cardinality(M) \in Nat
      /\ \A i \in M : place[i] \in Nat
  <2>1. Len(rows) \in Nat
    BY LenProperties DEF Rows
  <2>2. Cardinality(M) \in Nat /\ \A i \in M : Cardinality(Sooners(a, M, i)) \in Nat
    BY SoonersAreFew
  <2>3. QED
    BY <2>1, <2>2
<1>2. ASSUME NEW i \in M, place[i] < n PROVE \E j \in seen : a[j] = a[i]
  <2>1. CASE place[i] < o
    BY <2>1 DEF CoveredIn
  <2>2. CASE o <= place[i]
    BY <1>2, <2>2
  <2>3. QED
    BY <1>1, <2>1, <2>2
<1>3. ASSUME NEW i \in M, NEW j \in ItemsIn(rows), Sooner(a, i, j) PROVE place[i] < n
  <2>1. j \in M /\ place[j] < n
    OBVIOUS
  <2>2. place[i] < place[j]
    BY <1>3, <2>1, SoonersGrow
  <2> HIDE DEF place, n
  <2>3. QED
    BY <1>1, <2>1, <2>2
<1>4. CoveredIn(a, M, n, seen)
  BY <1>2 DEF CoveredIn
<1>5. Between(a, M, seen, rows)
  BY <1>2, <1>3 DEF Between
<1>6. QED
  BY <1>4, <1>5 DEF Follows

-----------------------------------------------------------------------------
(***************************************************************************)
(* The invariant, part by part, over the tables as parameters.             *)
(***************************************************************************)
LocatedIn(a, o, i, rows) ==
  \/ i \in ItemsIn(rows)
  \/ Len(rows) = PageSize /\ \A j \in ItemsIn(rows) : Sooner(a, j, i)
  \/ o > 0 /\ \A j \in ItemsIn(rows) : Sooner(a, i, j)

LocatedState(i, rows) == LocatedIn(at, offset, i, rows)

IsListing == page \in {"intents", "batches"}
Listed == Matching(page, run)

FollowState ==
  /\ above \subseteq StoredItems /\ CoveredIn(at, Listed, offset, above)
  /\ IsListing => \A rows \in {poll.rows, data.rows} : Follows(at, Listed, offset, above, rows)

LEMMA FollowIs == PagesFollow <=> FollowState
<1>1. \A o, seen : Covered(o, seen) <=> CoveredIn(at, Listed, o, seen)
  BY Order DEF Covered, CoveredIn, Listed
<1>2. \A rows, seen : Between(at, Listed, seen, rows) <=>
        \A i \in Listed, j \in ItemsIn(rows) : Before(i, j) => \E k \in seen : at[k] = at[i]
  BY Order DEF Between
<1>3. \A rows : Follows(at, Listed, offset, above, rows) <=>
        LET seen == above \union ItemsIn(rows)
        IN  /\ Covered(offset + Len(rows), seen)
            /\ \A i \in Listed, j \in ItemsIn(rows) :
                 Before(i, j) => \E k \in seen : at[k] = at[i]
  BY <1>1, <1>2 DEF Follows
<1>4. PagesFollow <=>
        /\ above \subseteq StoredItems /\ Covered(offset, above)
        /\ IsListing => \A rows \in {poll.rows, data.rows} :
             LET seen == above \union ItemsIn(rows)
             IN  /\ Covered(offset + Len(rows), seen)
                 /\ \A i \in Listed, j \in ItemsIn(rows) :
                      Before(i, j) => \E k \in seen : at[k] = at[i]
  BY DEF PagesFollow, IsListing, Listed
<1>5. QED
  BY <1>1, <1>3, <1>4 DEF FollowState

LEMMA LocatedIs == \A i, rows : Located(i, rows) <=> LocatedIn(at, offset, i, rows)
BY Order DEF Located, LocatedIn

StoreTyped == ms \in 1 .. MaxMs /\ at \in [Items -> 0 .. MaxMs] /\ final \subseteq Items
ViewTyped == page \in PageNames /\ run \in Filters /\ offset \in Nat /\ detail \in BOOLEAN
HookTyped ==
  /\ poll \in Polls /\ dead \subseteq Polls /\ data \in [key : Keys, rows : Rows]
  /\ due \in BOOLEAN
FormTyped ==
  /\ form \in [busy : BOOLEAN, accepted : Intents \union {None}]
  /\ posts \subseteq [item : Intents, accepted : BOOLEAN, form : BOOLEAN]
ComparisonTyped ==
  comparison \in [selection : Recorded \union {"imported"},
                  imported : Valid \union {None}, reading : SUBSET Files]

LEMMA TypedIs ==
  PagesTyped <=> StoreTyped /\ ViewTyped /\ HookTyped /\ FormTyped /\ ComparisonTyped
<1>1. PagesTyped => StoreTyped /\ ViewTyped /\ HookTyped /\ FormTyped /\ ComparisonTyped
  BY DEF PagesTyped, TypeOK, StoreTyped, ViewTyped, HookTyped, FormTyped, ComparisonTyped
<1>2. ASSUME StoreTyped, ViewTyped, HookTyped, FormTyped, ComparisonTyped PROVE PagesTyped
  <2>1. poll.at \in {"off", "asking", "answered", "timer"}
        /\ \A r \in {poll, data} \union dead : r.key \in Keys /\ r.rows \in Rows
    BY <1>2 DEF HookTyped, Polls
  <2>2. form.busy \in BOOLEAN /\ form.accepted \in Intents \union {None}
    BY <1>2 DEF FormTyped
  <2>3. /\ comparison.selection \in Recorded \union {"imported"}
        /\ comparison.imported \in Valid \union {None} /\ comparison.reading \subseteq Files
    BY <1>2 DEF ComparisonTyped
  <2>4. TypeOK
    BY <1>2, <2>1, <2>2, <2>3 DEF TypeOK, StoreTyped, ViewTyped
  <2>5. QED
    BY <1>2, <2>4 DEF PagesTyped, HookTyped, FormTyped, ComparisonTyped
<1>3. QED
  BY <1>1, <1>2

-----------------------------------------------------------------------------
(***************************************************************************)
(* What the relayer answers to the page that asks.                         *)
(***************************************************************************)
LEMMA KeyIs ==
  ASSUME PagesTyped, page # "agents"
  PROVE  /\ CurrentKey \in Keys /\ CurrentKey.page = page /\ CurrentKey.run = run
         /\ CurrentKey.offset = offset
BY DEF CurrentKey, Key, Keys, PagesTyped, TypeOK

LEMMA ListedAre ==
  ASSUME PagesTyped, IsListing, CoveredIn(at, Listed, offset, above)
  PROVE  LET rows == Answer(CurrentKey)
         IN  /\ Listed \in SUBSET Items /\ rows \in Rows /\ Len(rows) \in Nat /\ offset \in Nat
             /\ offset + Len(rows) <= Cardinality(Listed) /\ Cardinality(Listed) \in Nat
             /\ Len(rows) <= PageSize
             /\ Len(rows) < PageSize => offset + Len(rows) = Cardinality(Listed)
             /\ ItemsIn(rows) =
                  {i \in Listed : /\ offset <= Cardinality(Sooners(at, Listed, i))
                                  /\ Cardinality(Sooners(at, Listed, i)) < offset + Len(rows)}
<1> DEFINE key == CurrentKey
           rows == Listing(key)
<1>1. /\ key \in Keys /\ key.page = page /\ key.run = run /\ key.offset = offset
      /\ Answer(CurrentKey) = rows
  <2>1. page # "agents" /\ page # "performance"
    BY DEF IsListing
  <2>2. QED
    BY <2>1, KeyIs DEF Answer
<1> HIDE DEF key
<1>2. Matching(key.page, key.run) = Listed
  BY <1>1 DEF Listed
<1>3. /\ rows \in Rows /\ Len(rows) \in Nat /\ Len(rows) <= PageSize
      /\ Cardinality(Listed) \in Nat
      /\ key.offset <= Cardinality(Listed) =>
           /\ key.offset + Len(rows) <= Cardinality(Listed)
           /\ Len(rows) < PageSize => key.offset + Len(rows) = Cardinality(Listed)
      /\ ItemsIn(rows) =
           {i \in Listed : /\ key.offset <= Cardinality(Earlier(Listed, i))
                           /\ Cardinality(Earlier(Listed, i)) < key.offset + Len(rows)}
  BY <1>1, <1>2, ListingIs
<1>4. ItemsIn(rows) =
        {i \in Listed : /\ offset <= Cardinality(Sooners(at, Listed, i))
                        /\ Cardinality(Sooners(at, Listed, i)) < offset + Len(rows)}
  BY <1>1, <1>3, Order
<1>5. Listed \in SUBSET Items /\ offset \in Nat
  BY Stored DEF Listed, PagesTyped, TypeOK
<1>6. offset <= Cardinality(Listed)
  BY DEF CoveredIn
<1> HIDE DEF rows
<1>7. QED
  BY <1>1, <1>3, <1>4, <1>5, <1>6

LEMMA AnswerFollows ==
  ASSUME PagesTyped, IsListing, CoveredIn(at, Listed, offset, above)
  PROVE  Follows(at, Listed, offset, above, Answer(CurrentKey))
BY ListedAre, PageFollows, Stored

LEMMA AnswerLocates ==
  ASSUME PagesTyped, page = "intents", CoveredIn(at, Listed, offset, above),
         NEW i \in StoredItems, i \in Intents, run \in {All, RunOf[i]}
  PROVE  LocatedIn(at, offset, i, Answer(CurrentKey))
<1> DEFINE rows == Answer(CurrentKey)
           M == Listed
           place == [j \in M |-> Cardinality(Sooners(at, M, j))]
<1>1. i \in M
  BY DEF Listed, Matching, Intents, Of
<1>2. IsListing
  BY DEF IsListing
<1>3. /\ M \in SUBSET Items /\ Len(rows) \in Nat /\ offset \in Nat
      /\ offset + Len(rows) <= Cardinality(M) /\ Cardinality(M) \in Nat
      /\ Len(rows) <= PageSize /\ PageSize \in Nat
      /\ Len(rows) < PageSize => offset + Len(rows) = Cardinality(M)
      /\ ItemsIn(rows) = {j \in M : offset <= place[j] /\ place[j] < offset + Len(rows)}
  BY <1>2, ListedAre, BoundsAssumption
<1>4. /\ \A j \in M : place[j] \in Nat /\ place[j] < Cardinality(M)
      /\ \A j, k \in M : Sooner(at, j, k) <=> place[j] < place[k]
  BY <1>3, SoonersAreFew, SoonersGrow, PlacesFill, Stored
<1> HIDE DEF rows, M, place
<1>5. CASE place[i] < offset
  <2>1. offset > 0 /\ \A j \in ItemsIn(rows) : Sooner(at, i, j)
    BY <1>1, <1>3, <1>4, <1>5
  <2>2. QED
    BY <2>1 DEF LocatedIn, rows
<1>6. CASE offset <= place[i] /\ place[i] < offset + Len(rows)
  BY <1>1, <1>3, <1>6 DEF LocatedIn, rows
<1>7. CASE offset + Len(rows) <= place[i]
  <2>1. Len(rows) = PageSize /\ \A j \in ItemsIn(rows) : Sooner(at, j, i)
    BY <1>1, <1>3, <1>4, <1>7
  <2>2. QED
    BY <2>1 DEF LocatedIn, rows
<1>8. QED
  BY <1>1, <1>3, <1>4, <1>5, <1>6, <1>7

-----------------------------------------------------------------------------
(***************************************************************************)
(* The steps.  First those of the page's own polls.                        *)
(***************************************************************************)
FormPosts ==
  /\ form.accepted # None => HasForm /\ form.accepted \in StoredItems
  /\ \A p \in posts :
       page = "intents" /\ (p.form => HasForm) /\ (p.accepted => p.item \in StoredItems)

Reported(i) == form.accepted = i /\ i # None /\ ~due /\ run \in {All, RunOf[i]}

FormState ==
  /\ FormPosts
  /\ \A i \in Intents : Reported(i) =>
       /\ poll.at = "answered" => LocatedIn(at, offset, i, poll.rows)
       /\ data # Nothing => LocatedIn(at, offset, i, data.rows)

LEMMA FormIs == FormTyped => (FormFollows <=> FormState)
<1> SUFFICES ASSUME FormTyped PROVE FormFollows <=> FormState
  OBVIOUS
<1>1. form.accepted # None => form.accepted \in Intents
  BY DEF FormTyped
<1>2. QED
  BY <1>1, LocatedIs DEF FormFollows, FormState, FormPosts, Reported

LEMMA Emptied ==
  ASSUME PagesInv
  PROVE  /\ StoredItems \in SUBSET Items /\ Listed \in SUBSET Items /\ offset \in Nat
         /\ CoveredIn(at, Listed, offset, above)
         /\ Follows(at, Listed, offset, above, << >>)
         /\ FollowState /\ FormState
<1>1. FollowState /\ PagesTyped
  BY FollowIs DEF PagesInv
<1>2. offset \in Nat /\ CoveredIn(at, Listed, offset, above)
  BY <1>1 DEF FollowState, PagesTyped, TypeOK
<1>3. FormState
  BY <1>1, TypedIs, FormIs DEF PagesInv
<1>4. StoredItems \in SUBSET Items /\ Listed \in SUBSET Items
  BY <1>1, Stored DEF Listed
<1>5. QED
  BY <1>1, <1>2, <1>3, <1>4, NoneFollow

(* Sending, answering, failing and showing a poll of the page's effect.    *)
PollMoves ==
  /\ poll.at # "off" /\ poll' \in Polls /\ poll'.key = poll.key /\ poll'.at # "off"
  /\ \/ poll'.at # "answered" /\ poll'.rows = << >> /\ data' = data
     \/ poll'.at # "answered" /\ poll'.rows = << >> /\ poll.at = "answered"
        /\ data' = [key |-> poll.key, rows |-> poll.rows]
     \/ poll'.at = "answered" /\ poll'.rows = Answer(CurrentKey) /\ data' = data
  /\ UNCHANGED <<storeVars, viewVars, dead, due, formVars, comparison, above>>

LEMMA PollTyped ==
  ASSUME PagesTyped, PollMoves
  PROVE  PagesTyped'
<1>1. StoreTyped' /\ ViewTyped' /\ FormTyped' /\ ComparisonTyped'
  BY TypedIs DEF PollMoves, storeVars, viewVars, formVars,
                 StoreTyped, ViewTyped, FormTyped, ComparisonTyped, Intents, Of
<1>2. data' \in [key : Keys, rows : Rows]
  BY DEF PollMoves, PagesTyped, Polls
<1>3. HookTyped'
  BY <1>2 DEF PollMoves, HookTyped, PagesTyped
<1>4. QED
  BY <1>1, <1>3, TypedIs, PTL

LEMMA PollFollows ==
  ASSUME PagesInv, PollMoves
  PROVE  PagesInv'
<1>1. /\ PagesTyped /\ PagesTyped' /\ FormTyped' /\ StoreFollows /\ KeysFollow
      /\ RowsWereTrue /\ ComparisonIsDefined
  BY PollTyped, TypedIs, PTL DEF PagesInv
<1>2. poll.key = CurrentKey /\ CurrentKey \in Keys
  BY <1>1 DEF KeysFollow, PollMoves, PagesTyped, Polls
<1> DEFINE rows == Answer(CurrentKey)
<1>3. /\ poll'.rows = << >> \/ poll'.rows = rows
      /\ data' = data \/ data'.rows = poll.rows
      /\ CurrentKey' = CurrentKey /\ StoredItems' = StoredItems /\ Listed' = Listed
      /\ IsListing' = IsListing
  BY DEF PollMoves, CurrentKey, Key, storeVars, viewVars, StoredItems, Listed, Matching, IsListing
<1>4. KeysFollow'
  BY <1>1, <1>2, <1>3 DEF PollMoves, KeysFollow
<1>5. RowsWereTrue'
  <2>1. rows \in Rows /\ ItemsIn(rows) \subseteq StoredItems
        /\ FinalIn(rows) = ItemsIn(rows) \intersect final
    BY <1>1, <1>2, AnswersAre
  <2> HIDE DEF rows
  <2>2. \A r \in {poll'.rows, data'.rows} :
           ItemsIn(r) \subseteq StoredItems /\ FinalIn(r) \subseteq final
    BY <1>1, <1>3, <2>1, NoRows DEF RowsWereTrue
  <2>3. FinalIn(data'.rows) \intersect ItemsIn(poll'.rows) \subseteq FinalIn(poll'.rows)
    BY <1>1, <1>3, <2>1, <2>2, NoRows DEF PollMoves
  <2>4. QED
    BY <1>3, <2>2, <2>3 DEF RowsWereTrue, PollMoves, storeVars
<1>6. FollowState'
  <2>1. IsListing => Follows(at, Listed, offset, above, rows)
    BY <1>1, Emptied, AnswerFollows
  <2> HIDE DEF rows
  <2>2. above \subseteq StoredItems /\ CoveredIn(at, Listed, offset, above)
    BY Emptied DEF FollowState
  <2>3. IsListing => \A r \in {poll'.rows, data'.rows} : Follows(at, Listed, offset, above, r)
    BY <1>3, <2>1, Emptied DEF FollowState
  <2>4. at' = at /\ offset' = offset /\ above' = above
    BY DEF PollMoves, storeVars, viewVars
  <2>5. QED
    BY <1>3, <2>2, <2>3, <2>4 DEF FollowState
<1>7. FormState'
  <2>1. \A i : Reported(i)' <=> Reported(i)
    BY DEF PollMoves, formVars, viewVars, Reported
  <2>2. FormPosts'
    BY <1>3, Emptied DEF FormState, FormPosts, PollMoves, formVars, viewVars, HasForm
  <2>3. ASSUME NEW i \in Intents, Reported(i)
        PROVE  /\ poll'.at = "answered" => LocatedIn(at, offset, i, poll'.rows)
               /\ data' # Nothing => LocatedIn(at, offset, i, data'.rows)
    <3>1. i \in StoredItems /\ page = "intents" /\ run \in {All, RunOf[i]}
      BY <2>3, Emptied DEF FormState, FormPosts, Reported, HasForm
    <3>2. LocatedIn(at, offset, i, rows)
      BY <1>1, <3>1, Emptied, AnswerLocates
    <3>3. QED
      BY <1>3, <2>3, <3>2, Emptied DEF FormState, PollMoves
  <2>4. at' = at /\ offset' = offset /\ Intents' = Intents
    BY DEF PollMoves, storeVars, viewVars, Intents, Of
  <2>5. QED
    BY <2>1, <2>2, <2>3, <2>4 DEF FormState
<1>8. StoreFollows' /\ ComparisonIsDefined'
  BY <1>1 DEF PollMoves, storeVars, StoreFollows, ComparisonIsDefined
<1>9. PagesFollow' /\ FormFollows'
  BY <1>1, <1>6, <1>7, FollowIs, FormIs, PTL
<1>10. QED
  BY <1>1, <1>4, <1>5, <1>8, <1>9 DEF PagesInv

LEMMA RearmedIs ==
  ASSUME NEW r \in Polls, NEW ok
  PROVE  Rearmed(ok, r) = [at |-> "timer", key |-> r.key, rows |-> << >>]
<1> DEFINE timed == [r EXCEPT !.at = "timer"]
<1>1. timed = [at |-> "timer", key |-> r.key, rows |-> r.rows]
  BY DEF Polls
<1>2. timed \in Polls /\ timed.at = "timer" /\ timed.key = r.key
  BY <1>1 DEF Polls
<1>3. Rearmed(ok, r) = [timed EXCEPT !.rows = << >>]
  BY DEF Rearmed
<1> HIDE DEF timed
<1>4. \A e : [timed EXCEPT !.rows = e] = [at |-> timed.at, key |-> timed.key, rows |-> e]
  BY <1>2 DEF Polls
<1>5. QED
  BY <1>2, <1>3, <1>4

LEMMA PollSteps ==
  ASSUME PagesInv, TimerFires \/ ApiAnswers \/ PollReturns \/ PollThrows
  PROVE  PagesInv'
<1>1. PagesTyped /\ poll \in Polls /\ poll = [at |-> poll.at, key |-> poll.key, rows |-> poll.rows]
      /\ (poll.at # "off" => poll.key = CurrentKey)
  BY DEF PagesInv, PagesTyped, KeysFollow, Polls
<1>2. poll.at # "off"
  BY DEF TimerFires, ApiAnswers, PollReturns, PollThrows
<1>3. UNCHANGED <<storeVars, viewVars, dead, due, formVars, comparison, above>>
  BY DEF TimerFires, ApiAnswers, PollReturns, PollThrows
<1>4. CASE ApiAnswers
  <2>1. Answer(poll.key) \in Rows /\ poll' = [at |-> "answered", key |-> poll.key, rows |-> Answer(poll.key)]
    BY <1>1, <1>4, AnswersAre DEF ApiAnswers, WithAnswer, Polls
  <2>2. QED
    BY <1>1, <1>2, <1>3, <1>4, <2>1, PollFollows DEF ApiAnswers, PollMoves, Polls
<1>5. CASE TimerFires \/ PollReturns \/ PollThrows
  <2>1. /\ poll'.at \in {"asking", "timer"}
        /\ poll' = [at |-> poll'.at, key |-> poll.key, rows |-> << >>]
    <3>1. \A ok : Rearmed(ok, poll) = [at |-> "timer", key |-> poll.key, rows |-> << >>]
      BY <1>1, RearmedIs
    <3>2. CASE TimerFires
      <4>1. poll' = [at |-> "asking", key |-> poll.key, rows |-> << >>]
        BY <3>2 DEF TimerFires, Ask
      <4>2. QED
        BY <4>1
    <3>3. CASE PollReturns \/ PollThrows
      <4>1. poll' = [at |-> "timer", key |-> poll.key, rows |-> << >>]
        BY <3>1, <3>3 DEF PollReturns, PollThrows
      <4>2. QED
        BY <4>1
    <3>4. QED
      BY <1>5, <3>2, <3>3
  <2>2. poll' \in Polls
    BY <1>1, <2>1, NoRows DEF Polls
  <2>3. \/ data' = data
        \/ poll.at = "answered" /\ data' = [key |-> poll.key, rows |-> poll.rows]
    BY <1>5 DEF TimerFires, PollReturns, PollThrows, Show
  <2>4. QED
    BY <1>2, <1>3, <2>1, <2>2, <2>3, PollFollows DEF PollMoves
<1>6. QED
  BY <1>4, <1>5

(* Steps that leave the store, the route and the page's own poll alone.    *)
Settled == UNCHANGED <<storeVars, page, run, offset, poll, data, above>>

LEMMA SettledKeeps ==
  ASSUME PagesInv, Settled
  PROVE  StoreTyped' /\ StoreFollows' /\ KeysFollow' /\ RowsWereTrue' /\ PagesFollow'
<1>1. /\ at' = at /\ ms' = ms /\ final' = final /\ page' = page /\ run' = run
      /\ offset' = offset /\ poll' = poll /\ data' = data /\ above' = above
  BY DEF Settled, storeVars
<1>2. /\ CurrentKey' = CurrentKey /\ StoredItems' = StoredItems /\ Listed' = Listed
      /\ IsListing' = IsListing
  BY <1>1 DEF CurrentKey, Key, StoredItems, Listed, Matching, IsListing
<1>3. FollowState'
  BY <1>1, <1>2, Emptied DEF FollowState
<1>4. StoreTyped' /\ StoreFollows' /\ KeysFollow' /\ RowsWereTrue'
  BY <1>1, <1>2 DEF PagesInv, PagesTyped, TypeOK, StoreTyped, StoreFollows, KeysFollow, RowsWereTrue
<1>5. PagesFollow'
  BY <1>3, FollowIs, PTL
<1>6. QED
  BY <1>4, <1>5

LEMMA DeadReturnsStep ==
  ASSUME PagesInv, DeadReturns
  PROVE  PagesInv'
<1>1. Settled /\ UNCHANGED <<viewVars, due, formVars, comparison>> /\ dead' \subseteq dead
  BY DEF DeadReturns, Drop, Settled, viewVars
<1>2. StoreTyped' /\ StoreFollows' /\ KeysFollow' /\ RowsWereTrue' /\ PagesFollow'
  BY <1>1, SettledKeeps
<1>3. ViewTyped' /\ HookTyped' /\ FormTyped' /\ ComparisonTyped'
  BY <1>1, TypedIs DEF PagesInv, viewVars, formVars, Settled,
       ViewTyped, HookTyped, FormTyped, ComparisonTyped, Intents, Of
<1>4. FormState'
  BY <1>1, Emptied DEF FormState, FormPosts, HasForm, Reported, Settled, viewVars, formVars,
       storeVars, StoredItems, Intents, Of
<1>5. PagesTyped' /\ FormFollows'
  BY <1>2, <1>3, <1>4, TypedIs, FormIs, PTL
<1>6. ComparisonIsDefined'
  BY <1>1 DEF ComparisonIsDefined, PagesInv
<1>7. QED
  BY <1>2, <1>5, <1>6 DEF PagesInv

-----------------------------------------------------------------------------
(***************************************************************************)
(* The form, a detail, the comparison.                                     *)
(***************************************************************************)
LEMMA SettledForm ==
  ASSUME PagesInv, Settled, UNCHANGED <<dead, comparison>>, ViewTyped', due' \in BOOLEAN,
         FormTyped', FormPosts',
         form'.accepted # None =>
           \/ due'
           \/ form'.accepted = form.accepted /\ due' = due
  PROVE  PagesInv'
<1>1. StoreTyped' /\ StoreFollows' /\ KeysFollow' /\ RowsWereTrue' /\ PagesFollow'
  BY SettledKeeps
<1>2. HookTyped' /\ ComparisonTyped'
  BY TypedIs DEF PagesInv, Settled, HookTyped, ComparisonTyped
<1>3. FormState'
  <2>1. \A i : Reported(i)' => Reported(i)
    BY DEF Reported, Settled
  <2>2. at' = at /\ offset' = offset /\ poll' = poll /\ data' = data /\ Intents' = Intents
    BY DEF Settled, storeVars, Intents, Of
  <2>3. QED
    BY <2>1, <2>2, Emptied DEF FormState
<1>4. PagesTyped' /\ FormFollows'
  BY <1>1, <1>2, <1>3, TypedIs, FormIs, PTL
<1>5. ComparisonIsDefined'
  BY DEF ComparisonIsDefined, PagesInv
<1>6. QED
  BY <1>1, <1>4, <1>5 DEF PagesInv

LEMMA PostIs ==
  ASSUME FormTyped, NEW p \in posts
  PROVE  /\ p.item \in Intents /\ p.accepted \in BOOLEAN /\ p.form \in BOOLEAN
         /\ p = [item |-> p.item, accepted |-> p.accepted, form |-> p.form]
BY DEF FormTyped

LEMMA FormSteps ==
  ASSUME PagesInv,
         \/ ToggleDetail \/ SubmitMalformed \/ \E i \in Intents : Submit(i)
         \/ \E p \in posts : PostReturns(p) \/ PostFails(p)
  PROVE  PagesInv'
<1>1. ViewTyped /\ HookTyped /\ FormTyped /\ FormPosts
  BY TypedIs, Emptied DEF PagesInv, FormState
<1>2. EmptyForm \in [busy : BOOLEAN, accepted : Intents \union {None}]
  BY DEF EmptyForm
<1>3. CASE ToggleDetail
  <2>1. ASSUME NEW p \in Orphans
        PROVE  /\ p \in [item : Intents, accepted : BOOLEAN, form : BOOLEAN] /\ ~p.form
               /\ page = "intents" /\ (p.accepted => p.item \in StoredItems)
    <3>1. PICK q \in posts : p = [q EXCEPT !.form = FALSE]
      BY DEF Orphans
    <3>2. p = [item |-> q.item, accepted |-> q.accepted, form |-> FALSE]
      BY <1>1, <3>1, PostIs
    <3>3. QED
      BY <1>1, <3>2, PostIs DEF FormPosts
  <2>2. Settled /\ UNCHANGED <<dead, comparison, due>> /\ form' = EmptyForm /\ posts' = Orphans
    BY <1>3 DEF ToggleDetail, Settled, hookVars
  <2>3. ViewTyped' /\ FormTyped'
    BY <1>1, <1>2, <1>3, <2>1, <2>2 DEF ToggleDetail, ViewTyped, FormTyped, Settled, Intents, Of
  <2>4. FormPosts'
    BY <2>1, <2>2 DEF FormPosts, EmptyForm, Settled, storeVars, StoredItems
  <2>5. QED
    BY <1>1, <2>2, <2>3, <2>4, SettledForm DEF EmptyForm, HookTyped
<1>4. CASE SubmitMalformed
  <2>1. Settled /\ UNCHANGED <<viewVars, dead, comparison, due, posts>> /\ form' = EmptyForm
    BY <1>4 DEF SubmitMalformed, Settled, hookVars, viewVars
  <2>2. ViewTyped' /\ FormTyped'
    BY <1>1, <1>2, <2>1 DEF ViewTyped, FormTyped, viewVars, Intents, Of
  <2>3. FormPosts'
    BY <1>1, <2>1 DEF FormPosts, EmptyForm, Settled, storeVars, viewVars, StoredItems, HasForm
  <2>4. QED
    BY <1>1, <2>1, <2>2, <2>3, SettledForm DEF EmptyForm, HookTyped
<1>5. ASSUME NEW i \in Intents, Submit(i) PROVE PagesInv'
  <2>1. /\ Settled /\ UNCHANGED <<viewVars, dead, comparison, due>> /\ HasForm
        /\ form' = [busy |-> TRUE, accepted |-> None] /\ posts' = posts \union {Post(i)}
    BY <1>5 DEF Submit, Settled, hookVars, viewVars, EmptyForm
  <2>2. Post(i) = [item |-> i, accepted |-> FALSE, form |-> TRUE]
    BY DEF Post
  <2>3. ViewTyped' /\ FormTyped'
    <3>1. ViewTyped' /\ Intents' = Intents
      BY <1>1, <2>1 DEF ViewTyped, viewVars, Intents, Of
    <3>2. Post(i) \in [item : Intents, accepted : BOOLEAN, form : BOOLEAN]
      BY <2>2
    <3>3. posts' \subseteq [item : Intents, accepted : BOOLEAN, form : BOOLEAN]
      BY <1>1, <2>1, <3>2 DEF FormTyped
    <3>4. form' \in [busy : BOOLEAN, accepted : Intents \union {None}]
      BY <2>1
    <3>5. QED
      BY <3>1, <3>3, <3>4 DEF FormTyped
  <2>4. FormPosts'
    BY <1>1, <2>1, <2>2 DEF FormPosts, Settled, storeVars, viewVars, StoredItems, HasForm
  <2>5. QED
    BY <1>1, <2>1, <2>3, <2>4, SettledForm DEF HookTyped
<1>6. ASSUME NEW p \in posts, PostReturns(p) PROVE PagesInv'
  <2>1. /\ Settled /\ UNCHANGED <<viewVars, dead, comparison>> /\ due' = TRUE
        /\ p.accepted /\ posts' = posts \ {p}
        /\ form' = IF p.form THEN [busy |-> FALSE, accepted |-> p.item] ELSE form
    <3>1. EmptyForm.busy = FALSE
      BY DEF EmptyForm
    <3>2. \A f \in [busy : BOOLEAN, accepted : Intents \union {None}] :
            [f EXCEPT !.accepted = p.item] = [busy |-> f.busy, accepted |-> p.item]
      OBVIOUS
    <3>3. [EmptyForm EXCEPT !.accepted = p.item] = [busy |-> FALSE, accepted |-> p.item]
      BY <1>2, <3>1, <3>2
    <3>4. QED
      BY <1>6, <3>3 DEF PostReturns, Refreshed, Settled, viewVars
  <2>2. ViewTyped' /\ FormTyped'
    BY <1>1, <2>1, PostIs DEF ViewTyped, FormTyped, viewVars, Intents, Of
  <2>3. form'.accepted # None => HasForm /\ form'.accepted \in StoredItems
    BY <1>1, <2>1 DEF FormPosts
  <2>4. FormPosts'
    BY <1>1, <2>1, <2>3 DEF FormPosts, Settled, storeVars, viewVars, StoredItems, HasForm
  <2>5. QED
    BY <2>1, <2>2, <2>4, SettledForm
<1>7. ASSUME NEW p \in posts, PostFails(p) PROVE PagesInv'
  <2>1. /\ Settled /\ UNCHANGED <<viewVars, dead, comparison, due>>
        /\ posts' = posts \ {p} /\ form' \in {EmptyForm, form}
    BY <1>7 DEF PostFails, Settled, viewVars, hookVars
  <2>2. ViewTyped' /\ FormTyped'
    BY <1>1, <1>2, <2>1 DEF ViewTyped, FormTyped, viewVars, Intents, Of
  <2>3. FormPosts'
    BY <1>1, <2>1 DEF FormPosts, EmptyForm, Settled, storeVars, viewVars, StoredItems, HasForm
  <2>4. QED
    BY <1>1, <2>1, <2>2, <2>3, SettledForm DEF EmptyForm, HookTyped
<1>8. QED
  BY <1>3, <1>4, <1>5, <1>6, <1>7

LEMMA CompareStep ==
  ASSUME PagesInv, NEW c, Compare(c),
         c \in [selection : Recorded \union {"imported"},
                imported : Valid \union {None}, reading : SUBSET Files],
         c.selection = "imported" => c.imported # None
  PROVE  PagesInv'
<1>1. Settled /\ UNCHANGED <<viewVars, dead, due, formVars>> /\ comparison' = c
  BY DEF Compare, Settled, viewVars, hookVars
<1>2. StoreTyped' /\ StoreFollows' /\ KeysFollow' /\ RowsWereTrue' /\ PagesFollow'
  BY <1>1, SettledKeeps
<1>3. ViewTyped' /\ HookTyped' /\ FormTyped' /\ ComparisonTyped'
  BY <1>1, TypedIs DEF PagesInv, viewVars, formVars, Settled,
       ViewTyped, HookTyped, FormTyped, ComparisonTyped, Intents, Of
<1>4. FormState'
  BY <1>1, Emptied DEF FormState, FormPosts, HasForm, Reported, Settled, viewVars, formVars,
       storeVars, StoredItems, Intents, Of
<1>5. PagesTyped' /\ FormFollows'
  BY <1>2, <1>3, <1>4, TypedIs, FormIs, PTL
<1>6. ComparisonIsDefined'
  BY <1>1 DEF ComparisonIsDefined
<1>7. QED
  BY <1>2, <1>5, <1>6 DEF PagesInv

LEMMA CompareSteps ==
  ASSUME PagesInv,
         \/ \E f \in Files : ChooseFile(f) \/ ReadReturns(f) \/ ReadFails(f) \/ Paste(f)
         \/ \E w \in Recorded \union {"imported"} : SelectWorkload(w)
  PROVE  PagesInv'
<1> DEFINE C == [selection : Recorded \union {"imported"},
                 imported : Valid \union {None}, reading : SUBSET Files]
           Sound(c) == c \in C /\ (c.selection = "imported" => c.imported # None)
<1>1. Sound(comparison)
  BY DEF PagesInv, PagesTyped, ComparisonIsDefined
<1>2. ASSUME NEW c, Sound(c), NEW fs \in SUBSET Files
      PROVE  Sound([c EXCEPT !.reading = fs])
  BY <1>2
<1>3. ASSUME NEW c, Sound(c), NEW f \in Files
      PROVE  Sound(Accepted(c, f))
  <2>1. CASE f \in Valid
    <3> DEFINE d == [c EXCEPT !.imported = f]
    <3>1. d \in C /\ d.imported = f
      BY <1>3, <2>1
    <3>2. f # None
      BY ItemsAssumption DEF None
    <3>3. Accepted(c, f) = [d EXCEPT !.selection = "imported"]
      BY <2>1 DEF Accepted
    <3> HIDE DEF d
    <3>4. Accepted(c, f) = [selection |-> "imported", imported |-> d.imported, reading |-> d.reading]
      BY <3>1, <3>3
    <3>5. QED
      BY <3>1, <3>2, <3>4
  <2>2. CASE f \notin Valid
    BY <1>3, <2>2 DEF Accepted
  <2>3. QED
    BY <2>1, <2>2
<1>4. ASSUME NEW w \in Workloads PROVE Sound([comparison EXCEPT !.selection = w])
  <2>1. [comparison EXCEPT !.selection = w] =
          [selection |-> w, imported |-> comparison.imported, reading |-> comparison.reading]
    BY <1>1
  <2>2. w \in Recorded \/ comparison.imported # None
    BY DEF Workloads
  <2>3. w \in Recorded \union {"imported"} /\ (w \in Recorded => w # "imported")
    BY DEF Workloads, Recorded
  <2>4. QED
    BY <1>1, <2>1, <2>2, <2>3
<1>5. \A c : Sound(c) /\ Compare(c) => PagesInv'
  BY CompareStep
<1>6. comparison.reading \subseteq Files
  BY <1>1
<1> HIDE DEF Sound
<1>7. ASSUME NEW f \in Files, ChooseFile(f) \/ ReadReturns(f) \/ ReadFails(f) \/ Paste(f)
      PROVE  PagesInv'
  <2>1. Sound([comparison EXCEPT !.reading = @ \union {f}]) /\ Sound(Read(f))
    BY <1>1, <1>2, <1>6 DEF Read
  <2>2. Sound(Accepted(Read(f), f)) /\ Sound(Accepted(comparison, f))
    BY <1>1, <1>3, <2>1
  <2>3. QED
    BY <1>5, <1>7, <2>1, <2>2 DEF ChooseFile, ReadReturns, ReadFails, Paste
<1>8. ASSUME NEW w, SelectWorkload(w) PROVE PagesInv'
  BY <1>4, <1>5, <1>8 DEF SelectWorkload
<1>9. QED
  BY <1>7, <1>8

-----------------------------------------------------------------------------
(***************************************************************************)
(* The relayer goes on.                                                    *)
(***************************************************************************)
Grows ==
  /\ ms' \in 1 .. MaxMs /\ ms <= ms' /\ final \subseteq final' /\ final' \subseteq Items
  /\ at' = at \/ \E k \in Items : at[k] = 0 /\ at' = [at EXCEPT ![k] = ms]
  /\ UNCHANGED <<page, run, offset, poll, data, above>>

LEMMA StoreGrows ==
  ASSUME PagesInv, Grows
  PROVE  /\ at \in [Items -> Nat] /\ at' \in [Items -> Nat]
         /\ StoreTyped' /\ StoreFollows'
         /\ StoredItems \subseteq StoredItems' /\ Listed \subseteq Listed' /\ Listed' \in SUBSET Items
         /\ \A i \in StoredItems : at'[i] = at[i]
         /\ \A k \in StoredItems' \ StoredItems, i \in Items : at'[i] <= at'[k]
         /\ \A i, k \in StoredItems' \ StoredItems : i = k
         /\ Listed' \ Listed \subseteq StoredItems' \ StoredItems
<1>1. /\ at \in [Items -> 0 .. MaxMs] /\ ms \in 1 .. MaxMs /\ MaxMs \in Nat
      /\ \A i \in Items : at[i] <= ms
  BY BoundsAssumption DEF PagesInv, PagesTyped, TypeOK, StoreFollows
<1>2. /\ at' \in [Items -> 0 .. MaxMs] /\ \A i \in Items : at'[i] <= ms
      /\ \A i \in Items : at[i] # 0 => at'[i] = at[i]
      /\ \A k \in Items : at[k] = 0 /\ at'[k] # 0 => at'[k] = ms
      /\ \A i, k \in Items : at[k] = 0 /\ at'[k] # 0 /\ at[i] = 0 /\ at'[i] # 0 => i = k
  BY <1>1 DEF Grows
<1>3. StoreTyped' /\ StoreFollows'
  BY <1>1, <1>2 DEF Grows, StoreTyped, StoreFollows
<1>4. StoredItems' = {i \in Items : at'[i] # 0} /\ StoredItems = {i \in Items : at[i] # 0}
  BY DEF StoredItems
<1>5. Listed \subseteq Listed' /\ Listed' \in SUBSET Items
      /\ Listed' \ Listed \subseteq StoredItems' \ StoredItems
  BY <1>2, <1>4 DEF Listed, Matching, Grows
<1>6. at \in [Items -> Nat] /\ at' \in [Items -> Nat]
  BY <1>1, <1>2
<1>7. QED
  BY <1>1, <1>2, <1>3, <1>4, <1>5, <1>6

LEMMA StoreKeeps ==
  ASSUME PagesInv, Grows
  PROVE  /\ StoreTyped' /\ StoreFollows' /\ KeysFollow' /\ RowsWereTrue' /\ PagesFollow'
         /\ \A i \in StoredItems, rows \in {poll.rows, data.rows} :
              LocatedIn(at, offset, i, rows) => LocatedIn(at', offset, i, rows)
<1>1. /\ page' = page /\ run' = run /\ offset' = offset /\ poll' = poll /\ data' = data
      /\ above' = above /\ CurrentKey' = CurrentKey /\ IsListing' = IsListing
  BY DEF Grows, CurrentKey, Key, IsListing
<1>2. StoreTyped' /\ StoreFollows'
  BY StoreGrows
<1>3. /\ FollowState /\ RowsWereTrue /\ KeysFollow
      /\ poll.rows \in Rows /\ data.rows \in Rows
  BY Emptied DEF PagesInv, PagesTyped, Polls
<1>4. KeysFollow' /\ RowsWereTrue'
  BY <1>1, <1>3, StoreGrows DEF KeysFollow, RowsWereTrue, Grows
<1>5. above \subseteq StoredItems' /\ above \in SUBSET Items
      /\ \A rows \in {poll.rows, data.rows} : ItemsIn(rows) \subseteq StoredItems
  BY <1>3, StoreGrows, Emptied DEF FollowState, RowsWereTrue
<1>6. Listed \subseteq StoredItems /\ Listed \in SUBSET Items /\ offset \in Nat
  BY Emptied DEF Listed, Matching
<1>7. CoveredIn(at', Listed', offset, above)
  <2>1. \A i \in Listed \union above : at'[i] = at[i]
    BY <1>3, <1>6, StoreGrows DEF FollowState
  <2>2. /\ \A k \in Listed' \ Listed, i \in Listed : at'[i] <= at'[k]
        /\ \A k, i \in Listed' \ Listed : k = i
    BY <1>6, StoreGrows
  <2>3. CoveredIn(at, Listed, offset, above)
    BY <1>3 DEF FollowState
  <2>4. QED
    BY <1>6, <2>1, <2>2, <2>3, StoreGrows, CoveredStays
<1>8. ASSUME NEW rows \in {poll.rows, data.rows}, IsListing
      PROVE  Follows(at', Listed', offset, above, rows)
  <2>1. \A i \in Listed \union above \union ItemsIn(rows) : at'[i] = at[i]
    BY <1>3, <1>5, <1>6, StoreGrows DEF FollowState
  <2>2. ItemsIn(rows) \subseteq Items
    BY <1>5, Emptied
  <2>3. /\ \A k \in Listed' \ Listed, i \in Listed \union ItemsIn(rows) : at'[i] <= at'[k]
        /\ \A k, i \in Listed' \ Listed : k = i
    BY <1>6, <2>2, StoreGrows
  <2>4. Follows(at, Listed, offset, above, rows) /\ rows \in Rows
    BY <1>3, <1>8 DEF FollowState
  <2>5. QED
    BY <1>5, <1>6, <2>1, <2>2, <2>3, <2>4, StoreGrows, FollowsStays
<1>9. FollowState'
  BY <1>1, <1>5, <1>7, <1>8 DEF FollowState
<1>10. PagesFollow'
  BY <1>9, FollowIs, PTL
<1>11. ASSUME NEW i \in StoredItems, NEW rows \in {poll.rows, data.rows},
              LocatedIn(at, offset, i, rows)
       PROVE  LocatedIn(at', offset, i, rows)
  <2>1. \A j \in ItemsIn(rows) : at'[j] = at[j] /\ at'[i] = at[i]
    BY <1>5, StoreGrows
  <2>2. QED
    BY <1>11, <2>1 DEF LocatedIn, Sooner
<1>12. QED
  BY <1>2, <1>4, <1>10, <1>11

LEMMA GrowsKeeps ==
  ASSUME PagesInv, Grows, UNCHANGED <<viewVars, dead, due, form, comparison>>,
         FormTyped', FormPosts'
  PROVE  PagesInv'
<1>1. StoreTyped' /\ StoreFollows' /\ KeysFollow' /\ RowsWereTrue' /\ PagesFollow'
  BY StoreKeeps
<1>2. ViewTyped' /\ HookTyped' /\ ComparisonTyped'
  BY TypedIs DEF PagesInv, Grows, viewVars, ViewTyped, HookTyped, ComparisonTyped
<1>3. FormState'
  <2>1. /\ \A i : Reported(i)' <=> Reported(i)
        /\ offset' = offset /\ poll' = poll /\ data' = data /\ Intents' = Intents
    BY DEF Reported, viewVars, Grows, Intents, Of
  <2>2. \A i : Reported(i) => i \in StoredItems
    BY Emptied DEF Reported, FormState, FormPosts
  <2>3. QED
    BY <2>1, <2>2, Emptied, StoreKeeps DEF FormState
<1>4. PagesTyped' /\ FormFollows'
  BY <1>1, <1>2, <1>3, TypedIs, FormIs, PTL
<1>5. ComparisonIsDefined'
  BY DEF ComparisonIsDefined, PagesInv
<1>6. QED
  BY <1>1, <1>4, <1>5 DEF PagesInv

LEMMA StoreSteps ==
  ASSUME PagesInv,
         \/ Tick
         \/ \E i \in Items : Arrive(i) \/ Finalize(i)
         \/ \E p \in posts : ApiHandlesPost(p)
  PROVE  PagesInv'
<1>1. FormTyped /\ FormPosts /\ ms \in 1 .. MaxMs /\ MaxMs \in Nat /\ final \subseteq Items
  BY TypedIs, Emptied, BoundsAssumption DEF PagesInv, FormState, PagesTyped, TypeOK
<1>2. CASE Tick \/ \E i \in Items : Arrive(i) \/ Finalize(i)
  <2>1. Grows /\ UNCHANGED <<viewVars, dead, due, form, posts, comparison>>
    <3>1. UNCHANGED <<viewVars, hookVars, formVars, comparison, above>>
      BY <1>2 DEF Tick, Arrive, Finalize, RelayerStep
    <3>2. /\ ms' \in 1 .. MaxMs /\ ms <= ms' /\ final \subseteq final' /\ final' \subseteq Items
          /\ at' = at \/ \E k \in Items : at[k] = 0 /\ at' = [at EXCEPT ![k] = ms]
      BY <1>1, <1>2 DEF Tick, Arrive, Finalize, Insert
    <3>3. QED
      BY <3>1, <3>2 DEF Grows, viewVars, hookVars, formVars
  <2>2. FormTyped'
    BY <1>1, <2>1 DEF FormTyped, Intents, Of
  <2>3. FormPosts'
    BY <1>1, <2>1, StoreGrows DEF FormPosts, HasForm, viewVars
  <2>4. QED
    BY <2>1, <2>2, <2>3, GrowsKeeps
<1>3. ASSUME NEW p \in posts, ApiHandlesPost(p) PROVE PagesInv'
  <2> DEFINE q == [p EXCEPT !.accepted = TRUE]
  <2>1. p.item \in Intents /\ q = [item |-> p.item, accepted |-> TRUE, form |-> p.form]
    <3>1. p \in [item : Intents, accepted : BOOLEAN, form : BOOLEAN]
      BY <1>1 DEF FormTyped
    <3>2. \A b \in BOOLEAN :
            [p EXCEPT !.accepted = b] = [item |-> p.item, accepted |-> b, form |-> p.form]
      BY <3>1
    <3>3. QED
      BY <3>1, <3>2
  <2>2. p.item \in Items
    BY <2>1 DEF Intents, Of
  <2>3. /\ Grows /\ UNCHANGED <<viewVars, dead, due, form, comparison>>
        /\ posts' = (posts \ {p}) \union {q}
    <3>1. /\ at' # at => at[p.item] = 0 /\ at' = [at EXCEPT ![p.item] = ms]
          /\ UNCHANGED <<ms, final, viewVars, hookVars, form, comparison, above>>
          /\ posts' = (posts \ {p}) \union {q}
      BY <1>3 DEF ApiHandlesPost, Insert
    <3> HIDE DEF q
    <3>2. QED
      BY <1>1, <2>2, <3>1 DEF Grows, viewVars, hookVars
  <2>4. p.item \in StoredItems'
    BY <1>1, <1>3, <2>2, StoreGrows, <2>3 DEF ApiHandlesPost, Insert, StoredItems
  <2>5. q.item = p.item /\ q.form = p.form /\ q \in [item : Intents, accepted : BOOLEAN, form : BOOLEAN]
    BY <1>1, <2>1, PostIs
  <2> HIDE DEF q
  <2>6. FormTyped'
    BY <1>1, <2>3, <2>5 DEF FormTyped, Intents, Of
  <2>7. FormPosts'
    BY <1>1, <2>3, <2>4, <2>5, StoreGrows DEF FormPosts, HasForm, viewVars
  <2>8. QED
    BY <2>3, <2>6, <2>7, GrowsKeeps
<1>4. QED
  BY <1>2, <1>3

-----------------------------------------------------------------------------
(***************************************************************************)
(* The effect runs anew.                                                   *)
(***************************************************************************)
Restarts ==
  /\ Rerun(CurrentKey') /\ UNCHANGED storeVars /\ ViewTyped'
  /\ above' \subseteq StoredItems /\ CoveredIn(at, Listed', offset', above')

LEMMA RerunTyped ==
  ASSUME PagesTyped, Restarts
  PROVE  /\ HookTyped'
         /\ data' = Nothing /\ poll'.rows = << >> /\ poll'.at # "answered"
         /\ poll'.at # "off" => poll'.key = CurrentKey'
<1>1. Abandoned \subseteq Polls
  <2>1. CASE poll.at = "asking"
    <3>1. poll.key \in Keys /\ Answer(poll.key) \in Rows
      BY AnswersAre DEF PagesTyped, Polls
    <3>2. WithAnswer(poll) \in Polls
      BY <3>1 DEF WithAnswer, PagesTyped, Polls
    <3>3. QED
      BY <2>1, <3>2 DEF Abandoned
  <2>2. CASE poll.at # "asking"
    BY <2>2 DEF Abandoned, PagesTyped
  <2>3. QED
    BY <2>1, <2>2
<1>2. NoKey \in Keys
  BY ItemsAssumption DEF NoKey, Keys, PageNames
<1>3. CurrentKey' \in Keys
  BY <1>2 DEF Restarts, ViewTyped, CurrentKey, Key, Keys
<1>4. /\ poll' \in Polls /\ poll'.rows = << >> /\ poll'.at # "answered"
      /\ poll'.at # "off" => poll'.key = CurrentKey'
  <2> DEFINE key == CurrentKey'
  <2>1. poll' = IF key = NoKey THEN [at |-> "off", key |-> NoKey, rows |-> << >>]
                ELSE [at |-> "asking", key |-> key, rows |-> << >>]
    BY DEF Restarts, Rerun, Off, Ask
  <2>2. key \in Keys
    BY <1>3
  <2> HIDE DEF key
  <2>3. CASE key = NoKey
    BY <1>2, <2>1, <2>3, NoRows DEF Polls
  <2>4. CASE key # NoKey
    <3>1. poll' = [at |-> "asking", key |-> key, rows |-> << >>]
      BY <2>1, <2>4
    <3>2. poll'.at = "asking" /\ poll'.key = key /\ poll'.rows = << >> /\ poll' \in Polls
      BY <2>2, <3>1, NoRows DEF Polls
    <3>3. QED
      BY <3>2 DEF key
  <2>5. QED
    BY <2>3, <2>4
<1>5. data' = Nothing /\ Nothing \in [key : Keys, rows : Rows]
  BY <1>2, NoRows DEF Restarts, Rerun, Nothing
<1>6. dead' \subseteq Polls /\ due' \in BOOLEAN
  BY <1>1 DEF Restarts, Rerun, PagesTyped
<1>7. QED
  BY <1>4, <1>5, <1>6 DEF HookTyped

LEMMA RestartKeeps ==
  ASSUME PagesInv, Restarts, FormTyped', FormPosts', ComparisonTyped', ComparisonIsDefined'
  PROVE  PagesInv'
<1>1. /\ HookTyped' /\ data' = Nothing /\ poll'.rows = << >> /\ poll'.at # "answered"
      /\ poll'.at # "off" => poll'.key = CurrentKey'
  BY RerunTyped DEF PagesInv
<1>2. at' = at /\ ms' = ms /\ final' = final /\ StoredItems' = StoredItems
  BY DEF Restarts, storeVars, StoredItems
<1>3. StoreTyped' /\ StoreFollows'
  BY <1>2 DEF PagesInv, StoreFollows, StoreTyped, PagesTyped, TypeOK
<1>4. KeysFollow' /\ RowsWereTrue'
  BY <1>1, NoRows DEF KeysFollow, RowsWereTrue, Nothing
<1>5. FormState'
  BY <1>1 DEF FormState
<1>6. FollowState'
  <2>1. offset' \in Nat /\ CoveredIn(at, Listed', offset', above') /\ above' \subseteq StoredItems
    BY DEF Restarts, ViewTyped
  <2>2. Follows(at, Listed', offset', above', << >>)
    BY <2>1, NoneFollow
  <2>3. poll'.rows = << >> /\ data'.rows = << >>
    BY <1>1 DEF Nothing
  <2>4. QED
    BY <1>2, <2>1, <2>2, <2>3 DEF FollowState
<1>7. ViewTyped'
  BY DEF Restarts
<1>8. PagesTyped' /\ PagesFollow' /\ FormFollows'
  BY <1>1, <1>3, <1>5, <1>6, <1>7, TypedIs, FollowIs, FormIs, PTL
<1>9. QED
  BY <1>3, <1>4, <1>8 DEF PagesInv

LEMMA RestartSteps ==
  ASSUME PagesInv,
         \/ \E p \in PageNames, d \in BOOLEAN : Navigate(p, d)
         \/ NextPage \/ PreviousPage \/ Refresh \/ RunEffect
         \/ \E r \in Filters : ApplyRun(r)
  PROVE  PagesInv'
<1>1. /\ ViewTyped /\ FormTyped /\ FormPosts /\ ComparisonTyped /\ ComparisonIsDefined
      /\ above \subseteq StoredItems /\ FollowState /\ data.rows \in Rows
  BY TypedIs, Emptied DEF PagesInv, FormState, FollowState, PagesTyped
<1>2. UNCHANGED storeVars => Listed' \in SUBSET Items
  BY DEF Listed, Matching, StoredItems, storeVars
<1>3. EmptyForm \in [busy : BOOLEAN, accepted : Intents \union {None}] /\ EmptyForm.accepted = None
  BY DEF EmptyForm
<1>4. ASSUME NEW p \in PageNames, NEW d \in BOOLEAN, Navigate(p, d)
      PROVE  PagesInv'
  <2>1. CurrentKey' = Key(p, run, 0)
    BY <1>4 DEF Navigate, CurrentKey
  <2>2. Restarts
    <3>1. ViewTyped'
      BY <1>1, <1>4 DEF Navigate, ViewTyped
    <3>2. CoveredIn(at, Listed', offset', above')
      BY <1>2, <1>4, NoneCovered DEF Navigate
    <3>3. QED
      BY <1>4, <2>1, <3>1, <3>2 DEF Navigate, Restarts
  <2>3. FormTyped' /\ FormPosts'
    BY <1>3, <1>4 DEF Navigate, FormTyped, FormPosts, Intents, Of
  <2>4. ComparisonTyped' /\ ComparisonIsDefined'
    <3>1. comparison' = [selection |-> "steady", imported |-> None, reading |-> {}]
      BY <1>4 DEF Navigate, FirstComparison
    <3>2. QED
      BY <3>1 DEF ComparisonTyped, ComparisonIsDefined, Recorded
  <2>5. QED
    BY <2>2, <2>3, <2>4, RestartKeeps
<1>5. ASSUME NEW r \in Filters, ApplyRun(r)
      PROVE  PagesInv'
  <2>1. CurrentKey' = Key(page, r, 0)
    BY <1>5 DEF ApplyRun, CurrentKey
  <2>2. Restarts
    <3>1. ViewTyped'
      BY <1>1, <1>5 DEF ApplyRun, ViewTyped
    <3>2. CoveredIn(at, Listed', offset', above')
      BY <1>2, <1>5, NoneCovered DEF ApplyRun
    <3>3. QED
      BY <1>5, <2>1, <3>1, <3>2 DEF ApplyRun, Restarts
  <2>3. FormTyped' /\ FormPosts'
    <3>1. CASE page = "performance"
      <4>1. UNCHANGED <<formVars, page, detail, storeVars>>
        BY <1>5, <3>1 DEF ApplyRun
      <4>2. QED
        BY <1>1, <4>1 DEF formVars, storeVars, FormTyped, FormPosts, HasForm, StoredItems, Intents, Of
    <3>2. CASE page # "performance"
      BY <1>3, <1>5, <3>2 DEF ApplyRun, FormTyped, FormPosts, Intents, Of
    <3>3. QED
      BY <3>1, <3>2
  <2>4. ComparisonTyped' /\ ComparisonIsDefined'
    BY <1>1, <1>5 DEF ApplyRun, ComparisonTyped, ComparisonIsDefined
  <2>5. QED
    BY <2>2, <2>3, <2>4, RestartKeeps
<1>6. ASSUME UNCHANGED <<storeVars, page, detail, run, formVars, comparison>>,
             Rerun(CurrentKey'), offset' \in Nat, above' \subseteq StoredItems,
             CoveredIn(at, Listed, offset', above')
      PROVE  PagesInv'
  <2>1. Listed' = Listed
    BY <1>6 DEF Listed, Matching, StoredItems, storeVars
  <2>2. ViewTyped'
    BY <1>1, <1>6 DEF ViewTyped
  <2>3. Restarts
    BY <1>6, <2>1, <2>2 DEF Restarts
  <2>4. FormTyped' /\ FormPosts' /\ ComparisonTyped' /\ ComparisonIsDefined'
    BY <1>1, <1>6 DEF formVars, storeVars, FormTyped, FormPosts, HasForm, StoredItems, Intents, Of,
         ComparisonTyped, ComparisonIsDefined
  <2>5. QED
    BY <2>3, <2>4, RestartKeeps
<1>7. CASE Refresh \/ RunEffect
  <2>1. UNCHANGED <<storeVars, viewVars, formVars, comparison, above>> /\ Rerun(CurrentKey)
    BY <1>7 DEF Refresh, RunEffect
  <2>2. CurrentKey' = CurrentKey /\ offset' = offset
    BY <2>1 DEF CurrentKey, Key, viewVars
  <2>3. QED
    BY <1>1, <1>6, <2>1, <2>2 DEF viewVars, FollowState, ViewTyped
<1>8. ASSUME NEW o \in Nat, Turn(o), NEW n \in Nat, o <= n,
             CoveredIn(at, Listed, n, above \union ItemsIn(data.rows))
      PROVE  PagesInv'
  <2>1. CurrentKey' = Key(page, run, o)
    BY <1>8 DEF Turn, CurrentKey
  <2>2. CoveredIn(at, Listed, o, above \union ItemsIn(data.rows))
    BY <1>8, CoveredLess, Emptied
  <2>3. ItemsIn(data.rows) \subseteq StoredItems
    BY DEF PagesInv, RowsWereTrue
  <2>4. QED
    BY <1>1, <1>6, <1>8, <2>1, <2>2, <2>3 DEF Turn
<1>9. CASE NextPage
  <2> DEFINE o == offset + PageSize
             n == offset + Len(data.rows)
  <2>1. offset \in Nat /\ PageSize \in Nat /\ Len(data.rows) \in Nat /\ Len(data.rows) >= PageSize
    BY <1>1, <1>9, BoundsAssumption, LenProperties DEF NextPage, ViewTyped, Rows
  <2>2. o \in Nat /\ n \in Nat /\ o <= n
    BY <2>1
  <2>3. Turn(o) /\ IsListing
    BY <1>9 DEF NextPage, Turn, ListIsOpen, IsListing
  <2>4. CoveredIn(at, Listed, n, above \union ItemsIn(data.rows))
    BY <1>1, <2>3 DEF FollowState, Follows
  <2> HIDE DEF o, n
  <2>5. QED
    BY <1>8, <2>2, <2>3, <2>4
<1>10. CASE PreviousPage
  <2> DEFINE o == IF offset < PageSize THEN 0 ELSE offset - PageSize
  <2>1. o \in Nat /\ offset \in Nat /\ o <= offset
    BY <1>1, BoundsAssumption DEF ViewTyped
  <2>2. Turn(o)
    BY <1>10 DEF PreviousPage
  <2>3. CoveredIn(at, Listed, offset, above \union ItemsIn(data.rows))
    BY <1>1, <2>1, CoveredLess, Emptied DEF FollowState
  <2> HIDE DEF o
  <2>4. QED
    BY <1>8, <2>1, <2>2, <2>3
<1>11. QED
  BY <1>4, <1>5, <1>7, <1>9, <1>10

-----------------------------------------------------------------------------
(***************************************************************************)
(* The theorems.                                                           *)
(***************************************************************************)
LEMMA PagesInitially ==
  ASSUME Init PROVE PagesInv
<1>1. NoKey \in Keys /\ ms \in 1 .. MaxMs
  BY ItemsAssumption, BoundsAssumption DEF NoKey, Keys, PageNames, Init
<1>2. poll = [at |-> "off", key |-> NoKey, rows |-> << >>] /\ poll \in Polls
      /\ data = Nothing /\ Nothing = [key |-> NoKey, rows |-> << >>]
  BY <1>1, NoRows DEF Init, Off, Nothing, Polls
<1>3. StoreTyped /\ ViewTyped
  <2>1. 0 \in 0 .. MaxMs
    BY BoundsAssumption
  <2>2. at \in [Items -> 0 .. MaxMs]
    BY <2>1 DEF Init
  <2>3. StoreTyped
    BY <1>1, <2>2 DEF Init, StoreTyped
  <2>4. ViewTyped
    BY ItemsAssumption DEF Init, ViewTyped, PageNames
  <2>5. QED
    BY <2>3, <2>4
<1>4. HookTyped
  <2>1. data \in [key : Keys, rows : Rows]
    BY <1>1, <1>2, NoRows
  <2>2. dead \subseteq Polls /\ due \in BOOLEAN
    BY DEF Init
  <2>3. QED
    BY <1>2, <2>1, <2>2 DEF HookTyped
<1>5. FormTyped /\ ComparisonTyped /\ ComparisonIsDefined
  <2>1. comparison = [selection |-> "steady", imported |-> None, reading |-> {}]
    BY DEF Init, FirstComparison
  <2>2. form = [busy |-> FALSE, accepted |-> None] /\ posts = {}
    BY DEF Init, EmptyForm
  <2>3. QED
    BY <2>1, <2>2 DEF FormTyped, ComparisonTyped, ComparisonIsDefined, Recorded
<1>6. PagesTyped
  BY <1>3, <1>4, <1>5, TypedIs
<1>7. StoreFollows /\ KeysFollow /\ RowsWereTrue
  BY <1>2, <1>3, NoRows, BoundsAssumption DEF Init, StoreFollows, KeysFollow, RowsWereTrue, StoreTyped
<1>8. FormFollows
  BY DEF Init, EmptyForm, FormFollows
<1>9. FollowState
  <2>1. Listed \in SUBSET Items /\ offset = 0 /\ 0 \in Nat /\ above = {}
    BY DEF Init, Listed, Matching, StoredItems
  <2>2. page = "agents"
    BY DEF Init
  <2>3. QED
    BY <2>1, <2>2, NoneCovered DEF FollowState, IsListing
<1>10. QED
  BY <1>5, <1>6, <1>7, <1>8, <1>9, FollowIs DEF PagesInv

LEMMA PagesStutter ==
  ASSUME PagesInv, UNCHANGED vars PROVE PagesInv'
<1>1. Settled /\ UNCHANGED <<viewVars, dead, comparison, due, form, posts>>
  BY DEF vars, Settled, viewVars, hookVars, formVars
<1>2. ViewTyped' /\ FormTyped' /\ due' \in BOOLEAN
  BY <1>1, TypedIs DEF PagesInv, viewVars, ViewTyped, FormTyped, HookTyped, Intents, Of
<1>3. FormPosts'
  BY <1>1, Emptied DEF FormState, FormPosts, Settled, storeVars, viewVars, StoredItems, HasForm
<1>4. QED
  BY <1>1, <1>2, <1>3, SettledForm

(* Every state the console and the relayer reach satisfies the inductive   *)
(* invariant: what was answered was so, the form knows what it sent, and   *)
(* the reader has seen what is behind him.                                 *)
THEOREM PagesInvariance == Spec => []PagesInv
<1>1. Init => PagesInv
  BY PagesInitially
<1>2. PagesInv /\ [Next]_vars => PagesInv'
  <2> SUFFICES ASSUME PagesInv, [Next]_vars PROVE PagesInv'
    OBVIOUS
  <2>1. CASE UNCHANGED vars
    BY <2>1, PagesStutter
  <2>2. CASE Next
    BY <2>2, PollSteps, DeadReturnsStep, FormSteps, CompareSteps, StoreSteps, RestartSteps
       DEF Next
  <2>3. QED
    BY <2>1, <2>2
<1>3. QED
  BY <1>1, <1>2, PTL DEF Spec

(* What the pages show follows from the invariant.                         *)
LEMMA InvariantTells ==
  ASSUME PagesInv
  PROVE  TypeOK /\ ShowsItsOwn /\ AcceptedIsListed /\ NothingSkipped /\ ComparisonIsDefined
<1>1. TypeOK /\ ShowsItsOwn /\ ComparisonIsDefined
  BY DEF PagesInv, PagesTyped, KeysFollow, ShowsItsOwn
<1>2. AcceptedIsListed
  BY DEF PagesInv, FormFollows, Located, AcceptedIsListed, Shown
<1>3. NothingSkipped
  <2>1. ASSUME page \in {"intents", "batches"},
               NEW i \in Matching(page, run), NEW j \in ItemsIn(data.rows), Before(i, j)
        PROVE  \E k \in above \union ItemsIn(data.rows) : at[k] = at[i]
    BY <2>1 DEF PagesInv, PagesFollow
  <2>2. QED
    BY <2>1 DEF NothingSkipped, Shown
<1>4. QED
  BY <1>1, <1>2, <1>3

LEMMA OutcomesKept ==
  ASSUME PagesInv, [Next]_vars
  PROVE  OutcomesStay
<1>1. \/ data' = Nothing
      \/ data' = data
      \/ PollReturns
  <2>1. CASE UNCHANGED vars
    BY <2>1 DEF vars, hookVars
  <2>2. CASE Next
    <3>1. CASE \/ \E p \in PageNames, d \in BOOLEAN : Navigate(p, d)
               \/ NextPage \/ PreviousPage \/ Refresh \/ RunEffect
               \/ \E r \in Filters : ApplyRun(r)
      BY <3>1 DEF Navigate, NextPage, PreviousPage, Turn, Refresh, RunEffect, ApplyRun, Rerun
    <3>2. CASE \/ TimerFires \/ ApiAnswers \/ PollThrows \/ DeadReturns \/ SubmitMalformed
               \/ ToggleDetail \/ \E i \in Intents : Submit(i)
               \/ \E p \in posts : ApiHandlesPost(p) \/ PostReturns(p) \/ PostFails(p)
      BY <3>2 DEF TimerFires, ApiAnswers, PollThrows, DeadReturns, Drop, SubmitMalformed,
           ToggleDetail, Submit, ApiHandlesPost, PostReturns, PostFails, hookVars
    <3>3. CASE \/ \E f \in Files : ChooseFile(f) \/ ReadReturns(f) \/ ReadFails(f) \/ Paste(f)
               \/ \E w \in Recorded \union {"imported"} : SelectWorkload(w)
               \/ Tick \/ \E i \in Items : Arrive(i) \/ Finalize(i)
      BY <3>3 DEF ChooseFile, ReadReturns, ReadFails, Paste, SelectWorkload, Compare, Tick,
           Arrive, Finalize, RelayerStep, hookVars
    <3>4. QED
      BY <2>2, <3>1, <3>2, <3>3 DEF Next
  <2>3. QED
    BY <2>1, <2>2
<1>2. CASE data' = Nothing
  BY <1>2, NoRows DEF OutcomesStay, Shown, Nothing
<1>3. CASE data' = data
  BY <1>3 DEF OutcomesStay
<1>4. CASE PollReturns
  <2>1. data'.rows = poll.rows
    BY <1>4 DEF PollReturns, Show
  <2>2. FinalIn(data.rows) \intersect ItemsIn(poll.rows) \subseteq FinalIn(poll.rows)
    BY DEF PagesInv, RowsWereTrue
  <2>3. QED
    BY <2>1, <2>2 DEF OutcomesStay, Shown
<1>5. QED
  BY <1>1, <1>2, <1>3, <1>4

(* The pages tell the truth: they show the answer to their own request,    *)
(* list what the form reports as accepted, skip nothing between two pages, *)
(* draw a comparison that is there, and take no outcome back.              *)
THEOREM PagesTell == Spec => PagesTellTheTruth
<1>1. PagesInv => TypeOK /\ ShowsItsOwn /\ AcceptedIsListed /\ NothingSkipped /\ ComparisonIsDefined
  BY InvariantTells
<1>2. PagesInv /\ [Next]_vars => OutcomesStay
  BY OutcomesKept
<1>3. QED
  BY <1>1, <1>2, PagesInvariance, PTL DEF Spec, PagesTellTheTruth
=============================================================================
