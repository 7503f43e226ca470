---------------------------- MODULE SumTheorems -----------------------------
(***************************************************************************)
(* What SumFunctionOnSet, the sum of f[x] over the elements x of a finite  *)
(* set, does when the set grows.  The provers cannot use an induction      *)
(* theorem whose hypothesis is an operator, so the induction is spelled    *)
(* out with sets: the counterexamples are a set, and a nonempty one has a  *)
(* minimal element.                                                        *)
(***************************************************************************)
EXTENDS Integers, FiniteSetsExt, FiniteSetTheorems, WellFoundedInduction, TLAPS

(* Every nonempty set of natural numbers has a least element.              *)
LEMMA LeastNatural ==
  ASSUME NEW T \in SUBSET Nat, T # {}
  PROVE  \E n \in T : \A m \in T : n <= m
<1> DEFINE R == OpToRel(<, Nat)
<1>1. IsWellFoundedOn(R, Nat)
  BY NatLessThanWellFounded
<1>2. \A m, n \in Nat : m < n => <<m, n>> \in R
  BY DEF OpToRel
<1> HIDE DEF R
<1>3. PICK n \in T : \A m \in T : <<m, n>> \notin R
  BY <1>1, WFMin
<1>4. \A m \in T : n <= m
  <2> TAKE m \in T
  <2>1. m \in Nat /\ n \in Nat /\ ~(m < n)
    BY <1>2, <1>3
  <2>2. QED
    BY <2>1
<1>5. QED
  BY <1>4

(* Induction over the natural numbers, for membership in a set.            *)
LEMMA SetInduction ==
  ASSUME NEW P, 0 \in P, \A n \in Nat : n \in P => n + 1 \in P
  PROVE  Nat \subseteq P
<1> DEFINE T == Nat \ P
<1> SUFFICES ASSUME T # {} PROVE FALSE
  OBVIOUS
<1>1. PICK n \in T : \A m \in T : n <= m
  <2>1. T \in SUBSET Nat
    OBVIOUS
  <2> HIDE DEF T
  <2>2. QED
    BY <2>1, LeastNatural
<1>2. n - 1 \in Nat /\ (n - 1) + 1 = n
  OBVIOUS
<1>3. n - 1 \in P
  BY <1>1, <1>2
<1>4. QED
  BY <1>2, <1>3

(* What a function makes of a finite set is finite.                        *)
LEMMA FiniteImage ==
  ASSUME NEW f, NEW S, IsFiniteSet(S)
  PROVE  IsFiniteSet({f[x] : x \in S})
<1> DEFINE T == {f[x] : x \in S}
           g == [x \in S |-> f[x]]
<1>1. g \in [S -> T] /\ \A t \in T : \E x \in S : g[x] = t
  OBVIOUS
<1>2. g \in Surjection(S, T)
  BY <1>1 DEF Surjection
<1>3. QED
  BY <1>2, FS_Surjection

(* Of a family of finite sets, one contains no other.                      *)
LEMMA SmallestSet ==
  ASSUME NEW S, IsFiniteSet(S), NEW F \in SUBSET SUBSET S, F # {}
  PROVE  \E s \in F : \A t \in F : t \subseteq s => t = s
<1> DEFINE R == StrictSubsetOrdering(S)
<1>1. IsWellFoundedOn(R, SUBSET S)
  BY FS_StrictSubsetOrderingWellFounded, FS_FiniteSubsetsOfFinite
<1>2. \A t, s \in SUBSET S : t \subseteq s /\ t # s => <<t, s>> \in R
  BY DEF StrictSubsetOrdering
<1> HIDE DEF R
<1>3. PICK s \in F : \A t \in F : <<t, s>> \notin R
  BY <1>1, WFMin
<1>4. QED
  BY <1>2, <1>3

-----------------------------------------------------------------------------
(* The recursion inside SumFunctionOnSet has a solution, and only one.     *)

Element(s) == CHOOSE x \in s : TRUE
SumRow(f, g, s) == IF s = {} THEN 0 ELSE f[Element(s)] + g[s \ {Element(s)}]
SumTable(f, S, g) == g = [s \in SUBSET S |-> SumRow(f, g, s)]

LEMMA ElementOf ==
  ASSUME NEW s, s # {}
  PROVE  Element(s) \in s
BY DEF Element

LEMMA SumTableExists ==
  ASSUME NEW f, NEW S, IsFiniteSet(S)
  PROVE  \E g : SumTable(f, S, g)
<1> DEFINE Upto(n, g) ==
             /\ g = [s \in SUBSET S |-> g[s]]
             /\ \A s \in SUBSET S : Cardinality(s) <= n => g[s] = SumRow(f, g, s)
           P == {n \in Nat : \E g : Upto(n, g)}
<1>1. \A s \in SUBSET S : IsFiniteSet(s) /\ Cardinality(s) \in Nat
                          /\ Cardinality(s) <= Cardinality(S)
  BY FS_Subset, FS_CardinalityType
<1>2. \A s \in SUBSET S : Cardinality(s) <= 0 => s = {}
  BY <1>1, FS_EmptySet
<1>3. 0 \in P
  <2> DEFINE g == [s \in SUBSET S |-> 0]
  <2>1. Upto(0, g)
    BY <1>2 DEF SumRow
  <2>2. QED
    BY <2>1
<1>4. \A n \in Nat : n \in P => n + 1 \in P
  <2> SUFFICES ASSUME NEW n \in Nat, n \in P PROVE n + 1 \in P
    OBVIOUS
  <2>1. PICK g : Upto(n, g)
    OBVIOUS
  <2> DEFINE h == [s \in SUBSET S |-> SumRow(f, g, s)]
  <2>2. h = [s \in SUBSET S |-> h[s]]
    OBVIOUS
  <2>3. ASSUME NEW s \in SUBSET S, Cardinality(s) <= n + 1
        PROVE  h[s] = SumRow(f, h, s)
    <3>1. CASE s = {}
      BY <3>1 DEF SumRow
    <3>2. CASE s # {}
      <4> DEFINE r == s \ {Element(s)}
      <4>1. r \in SUBSET S /\ Cardinality(r) <= n
        <5>1. Cardinality(r) = Cardinality(s) - 1
          BY <1>1, <3>2, ElementOf, FS_RemoveElement
        <5>2. QED
          BY <5>1, <2>3, <1>1
      <4>2. g[r] = SumRow(f, g, r) /\ h[r] = SumRow(f, g, r)
        BY <4>1, <2>1
      <4>3. h[s] = f[Element(s)] + g[r] /\ SumRow(f, h, s) = f[Element(s)] + h[r]
        BY <3>2 DEF SumRow
      <4> HIDE DEF h, r
      <4>4. QED
        BY <4>2, <4>3
    <3>3. QED
      BY <3>1, <3>2
  <2>4. Upto(n + 1, h)
    BY <2>2, <2>3
  <2> HIDE DEF Upto, h
  <2>5. QED
    BY <2>4
<1>5. Cardinality(S) \in P
  <2> HIDE DEF P
  <2>1. QED
    BY <1>3, <1>4, SetInduction, FS_CardinalityType
<1>6. PICK g : Upto(Cardinality(S), g)
  BY <1>5
<1>7. \A s \in SUBSET S : g[s] = SumRow(f, g, s)
  BY <1>1, <1>6
<1>8. QED
  BY <1>6, <1>7 DEF SumTable

(* Two tables of equal values agree where both are defined.                *)
LEMMA SumTablesAgree ==
  ASSUME NEW f, NEW e, NEW S, NEW T \in SUBSET S, IsFiniteSet(S), NEW g, NEW h,
         SumTable(f, S, g), SumTable(e, T, h), \A x \in T : f[x] = e[x]
  PROVE  \A s \in SUBSET T : g[s] = h[s]
<1> DEFINE F == {s \in SUBSET T : g[s] # h[s]}
<1> SUFFICES ASSUME F # {} PROVE FALSE
  OBVIOUS
<1>1. F \in SUBSET SUBSET S
  OBVIOUS
<1>2. PICK s \in F : \A t \in F : t \subseteq s => t = s
  <2> HIDE DEF F
  <2>1. QED
    BY <1>1, SmallestSet
<1>3. s \in SUBSET T /\ s \in SUBSET S /\ g[s] # h[s]
  OBVIOUS
<1>4. g[s] = SumRow(f, g, s) /\ h[s] = SumRow(e, h, s)
  BY <1>3 DEF SumTable
<1>5. s # {}
  BY <1>3, <1>4 DEF SumRow
<1> DEFINE r == s \ {Element(s)}
<1>6. r \in SUBSET T /\ r # s /\ r \subseteq s /\ Element(s) \in T
  BY <1>3, <1>5, ElementOf
<1>7. g[r] = h[r]
  BY <1>2, <1>6
<1>8. QED
  BY <1>3, <1>4, <1>5, <1>6, <1>7 DEF SumRow

LEMMA SumIsTable ==
  ASSUME NEW f, NEW S, IsFiniteSet(S)
  PROVE  \E g : SumTable(f, S, g) /\ SumFunctionOnSet(f, S) = g[S]
<1> DEFINE g == CHOOSE g : SumTable(f, S, g)
<1>1. SumTable(f, S, g)
  BY SumTableExists
<1>2. SumFunctionOnSet(f, S) = g[S]
  BY DEF SumFunctionOnSet, FoldFunctionOnSet, MapThenFoldSet, SumTable, SumRow, Element
<1>3. QED
  BY <1>1, <1>2

-----------------------------------------------------------------------------
(* The sum of nothing; and of a set, by the element its recursion takes.   *)
THEOREM SumOfNone ==
  ASSUME NEW f
  PROVE  SumFunctionOnSet(f, {}) = 0
<1>1. PICK g : SumTable(f, {}, g) /\ SumFunctionOnSet(f, {}) = g[{}]
  BY SumIsTable, FS_EmptySet
<1>2. g[{}] = SumRow(f, g, {})
  BY <1>1 DEF SumTable
<1>3. QED
  BY <1>1, <1>2 DEF SumRow

LEMMA SumByElement ==
  ASSUME NEW f, NEW S, IsFiniteSet(S), S # {}
  PROVE  SumFunctionOnSet(f, S) =
           f[Element(S)] + SumFunctionOnSet(f, S \ {Element(S)})
<1> DEFINE T == S \ {Element(S)}
<1>1. T \in SUBSET S /\ IsFiniteSet(T)
  BY FS_Subset
<1>2. PICK g : SumTable(f, S, g) /\ SumFunctionOnSet(f, S) = g[S]
  BY SumIsTable
<1>3. PICK h : SumTable(f, T, h) /\ SumFunctionOnSet(f, T) = h[T]
  BY <1>1, SumIsTable
<1> HIDE DEF T
<1>4. g[T] = h[T]
  BY <1>1, <1>2, <1>3, SumTablesAgree
<1>5. g[S] = f[Element(S)] + g[T]
  BY <1>2 DEF SumTable, SumRow, T
<1>6. QED
  BY <1>2, <1>3, <1>4, <1>5 DEF T

(* Only the values on the set matter.                                      *)
THEOREM SumOfEqual ==
  ASSUME NEW f, NEW e, NEW S, IsFiniteSet(S), \A x \in S : f[x] = e[x]
  PROVE  SumFunctionOnSet(f, S) = SumFunctionOnSet(e, S)
<1>1. PICK g : SumTable(f, S, g) /\ SumFunctionOnSet(f, S) = g[S]
  BY SumIsTable
<1>2. PICK h : SumTable(e, S, h) /\ SumFunctionOnSet(e, S) = h[S]
  BY SumIsTable
<1>3. S \in SUBSET S
  OBVIOUS
<1>4. \A s \in SUBSET S : g[s] = h[s]
  BY <1>1, <1>2, <1>3, SumTablesAgree
<1>5. QED
  BY <1>1, <1>2, <1>3, <1>4

(* A sum of natural numbers is one.                                        *)
THEOREM SumIsNatural ==
  ASSUME NEW f, NEW S, IsFiniteSet(S), \A x \in S : f[x] \in Nat
  PROVE  SumFunctionOnSet(f, S) \in Nat
<1> DEFINE F == {s \in SUBSET S : SumFunctionOnSet(f, s) \notin Nat}
<1> SUFFICES ASSUME F # {} PROVE FALSE
  OBVIOUS
<1>1. PICK s \in F : \A t \in F : t \subseteq s => t = s
  <2>1. F \in SUBSET SUBSET S
    OBVIOUS
  <2> HIDE DEF F
  <2>2. QED
    BY <2>1, SmallestSet
<1>2. s \in SUBSET S /\ SumFunctionOnSet(f, s) \notin Nat /\ IsFiniteSet(s)
  BY FS_Subset
<1>3. s # {}
  BY <1>2, SumOfNone
<1> DEFINE r == s \ {Element(s)}
<1>4. r \in SUBSET S /\ r # s /\ r \subseteq s /\ f[Element(s)] \in Nat
  BY <1>2, <1>3, ElementOf
<1>5. SumFunctionOnSet(f, r) \in Nat
  BY <1>1, <1>4
<1>6. QED
  BY <1>2, <1>3, <1>4, <1>5, SumByElement

(* Any element may be taken out first: the order does not matter.          *)
THEOREM SumWithout ==
  ASSUME NEW f, NEW S, IsFiniteSet(S), \A x \in S : f[x] \in Nat, NEW y \in S
  PROVE  SumFunctionOnSet(f, S) = f[y] + SumFunctionOnSet(f, S \ {y})
<1> DEFINE Sum(s) == SumFunctionOnSet(f, s)
           F == {s \in SUBSET S : \E x \in s : Sum(s) # f[x] + Sum(s \ {x})}
<1> SUFFICES ASSUME F # {} PROVE FALSE
  OBVIOUS
<1>1. PICK s \in F : \A t \in F : t \subseteq s => t = s
  <2>1. F \in SUBSET SUBSET S
    OBVIOUS
  <2> HIDE DEF F
  <2>2. QED
    BY <2>1, SmallestSet
<1>2. PICK x \in s : Sum(s) # f[x] + Sum(s \ {x})
  OBVIOUS
<1> DEFINE e == Element(s)
<1>3. s \in SUBSET S /\ e \in s
  BY <1>2, ElementOf
<1>4. \A t \in SUBSET S : IsFiniteSet(t) /\ Sum(t) \in Nat
  BY FS_Subset, SumIsNatural
<1>5. Sum(s) = f[e] + Sum(s \ {e})
  BY <1>3, <1>4, SumByElement
<1> HIDE DEF e
<1>6. x # e
  BY <1>2, <1>5
<1>7. Sum(s \ {e}) = f[x] + Sum((s \ {e}) \ {x})
  <2>1. s \ {e} \notin F /\ s \ {e} \in SUBSET S /\ x \in s \ {e}
    BY <1>1, <1>2, <1>3, <1>6
  <2>2. QED
    BY <2>1
<1>8. Sum(s \ {x}) = f[e] + Sum((s \ {x}) \ {e})
  <2>1. s \ {x} \notin F /\ s \ {x} \in SUBSET S /\ e \in s \ {x}
    BY <1>1, <1>2, <1>3, <1>6
  <2>2. QED
    BY <2>1
<1>9. (s \ {e}) \ {x} = (s \ {x}) \ {e}
  OBVIOUS
<1>10. /\ f[x] \in Nat /\ f[e] \in Nat
       /\ Sum((s \ {e}) \ {x}) \in Nat
  BY <1>3, <1>4
<1> HIDE DEF Sum
<1>11. QED
  BY <1>2, <1>5, <1>7, <1>8, <1>9, <1>10

(* One more element adds its value.                                        *)
THEOREM SumWithOneMore ==
  ASSUME NEW f, NEW S, IsFiniteSet(S), NEW y, y \notin S,
         \A x \in S \union {y} : f[x] \in Nat
  PROVE  SumFunctionOnSet(f, S \union {y}) = SumFunctionOnSet(f, S) + f[y]
<1>1. IsFiniteSet(S \union {y}) /\ (S \union {y}) \ {y} = S
  BY FS_AddElement
<1>2. SumFunctionOnSet(f, S \union {y}) = f[y] + SumFunctionOnSet(f, S)
  <2> DEFINE T == S \union {y}
  <2>1. IsFiniteSet(T) /\ y \in T /\ (\A x \in T : f[x] \in Nat) /\ T \ {y} = S
    BY <1>1
  <2> HIDE DEF T
  <2>2. SumFunctionOnSet(f, T) = f[y] + SumFunctionOnSet(f, T \ {y})
    BY <2>1, SumWithout
  <2>3. QED
    BY <2>1, <2>2 DEF T
<1>3. SumFunctionOnSet(f, S) \in Nat /\ f[y] \in Nat
  BY SumIsNatural
<1>4. QED
  BY <1>2, <1>3

(* Two parts without a common element.                                     *)
THEOREM SumOfParts ==
  ASSUME NEW f, NEW S, IsFiniteSet(S), \A x \in S : f[x] \in Nat, NEW T \in SUBSET S
  PROVE  SumFunctionOnSet(f, S) = SumFunctionOnSet(f, T) + SumFunctionOnSet(f, S \ T)
<1> DEFINE Sum(s) == SumFunctionOnSet(f, s)
           F == {t \in SUBSET S : Sum(S) # Sum(t) + Sum(S \ t)}
<1> SUFFICES ASSUME F # {} PROVE FALSE
  OBVIOUS
<1>1. PICK t \in F : \A r \in F : r \subseteq t => r = t
  <2>1. F \in SUBSET SUBSET S
    OBVIOUS
  <2> HIDE DEF F
  <2>2. QED
    BY <2>1, SmallestSet
<1>2. \A s \in SUBSET S : IsFiniteSet(s) /\ Sum(s) \in Nat
  BY FS_Subset, SumIsNatural
<1>3. t \in SUBSET S /\ Sum(S) # Sum(t) + Sum(S \ t)
  OBVIOUS
<1>4. t # {}
  <2>1. Sum({}) = 0 /\ Sum(S) \in Nat /\ S \ {} = S
    BY <1>2, SumOfNone
  <2> HIDE DEF Sum
  <2>2. QED
    BY <1>3, <2>1
<1>5. PICK x : x \in t
  BY <1>4
<1> DEFINE r == t \ {x}
<1>6. r \in SUBSET S /\ S \ t \in SUBSET S /\ S \ r \in SUBSET S /\ f[x] \in Nat
  BY <1>3, <1>5
<1>7. Sum(S) = Sum(r) + Sum(S \ r)
  BY <1>1, <1>5, <1>6
<1>8. Sum(t) = f[x] + Sum(r)
  BY <1>2, <1>3, <1>5, SumWithout
<1>9. Sum(S \ r) = f[x] + Sum(S \ t)
  <2>1. x \in S \ r /\ (S \ r) \ {x} = S \ t
    BY <1>3, <1>5
  <2>2. IsFiniteSet(S \ r) /\ \A y \in S \ r : f[y] \in Nat
    BY <1>2, <1>6
  <2> HIDE DEF r
  <2>3. Sum(S \ r) = f[x] + Sum((S \ r) \ {x})
    BY <2>1, <2>2, SumWithout
  <2>4. QED
    BY <2>1, <2>3
<1>10. Sum(r) \in Nat /\ Sum(S \ t) \in Nat
  BY <1>2, <1>6
<1> HIDE DEF Sum, r
<1>11. QED
  BY <1>3, <1>6, <1>7, <1>8, <1>9, <1>10

(* A part sums to no more than the whole.                                  *)
THEOREM SumOfPart ==
  ASSUME NEW f, NEW S, IsFiniteSet(S), \A x \in S : f[x] \in Nat, NEW T \in SUBSET S
  PROVE  SumFunctionOnSet(f, T) <= SumFunctionOnSet(f, S)
<1>1. SumFunctionOnSet(f, S) = SumFunctionOnSet(f, T) + SumFunctionOnSet(f, S \ T)
  BY SumOfParts
<1>2. SumFunctionOnSet(f, T) \in Nat /\ SumFunctionOnSet(f, S \ T) \in Nat
  BY FS_Subset, SumIsNatural
<1>3. QED
  BY <1>1, <1>2

-----------------------------------------------------------------------------
(***************************************************************************)
(* For the measurements: the greatest of finitely many numbers, and the    *)
(* sizes of sets.                                                          *)
(***************************************************************************)

LEMMA GreatestNatural ==
  ASSUME NEW T, T \subseteq Nat, IsFiniteSet(T), T # {}
  PROVE  \E n \in T : \A m \in T : m <= n
<1> DEFINE Bounded(s) == \E n \in s : \A m \in s : m <= n
           F == {s \in SUBSET T : s # {} /\ ~Bounded(s)}
<1> SUFFICES ASSUME F # {} PROVE FALSE
  OBVIOUS
<1>1. PICK s \in F : \A t \in F : t \subseteq s => t = s
  <2>1. F \in SUBSET SUBSET T /\ F # {} /\ IsFiniteSet(T)
    OBVIOUS
  <2> HIDE DEF F
  <2>2. QED
    BY ONLY <2>1, SmallestSet
<1>2. s \in SUBSET T /\ ~Bounded(s)
  OBVIOUS
<1>3. PICK x : x \in s
  OBVIOUS
<1>4. s \ {x} # {}
  BY <1>2, <1>3
<1>5. Bounded(s \ {x})
  <2> DEFINE r == s \ {x}
  <2>1. r \in SUBSET T /\ r \subseteq s /\ r # s /\ r # {}
    BY <1>2, <1>3, <1>4
  <2>2. r \notin F
    BY <1>1, <2>1
  <2> HIDE DEF r
  <2>3. Bounded(r)
    BY <2>1, <2>2
  <2>4. QED
    BY <2>3 DEF r
<1>6. PICK n \in s \ {x} : \A m \in s \ {x} : m <= n
  BY <1>5
<1>7. n \in Nat /\ x \in Nat
  BY <1>2, <1>3
<1>8. CASE x <= n
  BY <1>2, <1>6, <1>8
<1>9. CASE ~(x <= n)
  <2>1. \A m \in s : m <= x
    BY <1>2, <1>6, <1>7, <1>9
  <2>2. QED
    BY <1>2, <1>3, <2>1
<1>10. QED
  BY <1>8, <1>9

(* The sizes of sets without a common element add up to that of the union. *)
THEOREM SumOfSizes ==
  ASSUME NEW f, NEW S, IsFiniteSet(S), \A k \in S : IsFiniteSet(f[k]),
         \A k, n \in S : f[k] \intersect f[n] # {} => k = n,
         NEW sizes, \A k \in S : sizes[k] = Cardinality(f[k])
  PROVE  SumFunctionOnSet(sizes, S) = Cardinality(UNION {f[k] : k \in S})
<1> DEFINE All(s) == UNION {f[k] : k \in s}
           Adds(s) == IsFiniteSet(All(s)) /\ SumFunctionOnSet(sizes, s) = Cardinality(All(s))
           F == {s \in SUBSET S : ~Adds(s)}
<1> SUFFICES ASSUME F # {} PROVE FALSE
  <2>1. S \in SUBSET S
    OBVIOUS
  <2>2. QED
    BY <2>1
<1>1. PICK s \in F : \A t \in F : t \subseteq s => t = s
  <2>1. F \in SUBSET SUBSET S
    OBVIOUS
  <2> HIDE DEF F
  <2>2. QED
    BY <2>1, SmallestSet
<1>2. s \in SUBSET S /\ ~Adds(s) /\ IsFiniteSet(s)
  BY FS_Subset
<1>3. s # {}
  <2> SUFFICES ASSUME s = {} PROVE FALSE
    OBVIOUS
  <2>1. All(s) = {} /\ IsFiniteSet({}) /\ Cardinality({}) = 0
    BY FS_EmptySet
  <2>2. SumFunctionOnSet(sizes, s) = 0
    BY SumOfNone
  <2>3. QED
    BY <1>2, <2>1, <2>2
<1>4. PICK x : x \in s
  BY <1>3
<1> DEFINE r == s \ {x}
<1>5. r \in SUBSET S /\ r # s /\ r \subseteq s /\ x \in S
  BY <1>2, <1>4
<1>6. Adds(r)
  BY <1>1, <1>5
<1>7. All(s) = All(r) \union f[x] /\ All(r) \intersect f[x] = {}
  <2>1. \A k \in r : f[k] \intersect f[x] = {}
    BY <1>5
  <2>2. All(r) \intersect f[x] = {}
    BY <2>1
  <2>3. s = r \union {x}
    BY <1>4
  <2>4. All(s) = All(r) \union f[x]
    BY <2>3
  <2>5. QED
    BY <2>2, <2>4
<1>8. IsFiniteSet(f[x]) /\ Cardinality(f[x]) \in Nat /\ sizes[x] = Cardinality(f[x])
  BY <1>5, FS_CardinalityType
<1>9. \A k \in s : sizes[k] \in Nat
  BY <1>2, FS_CardinalityType
<1>10. SumFunctionOnSet(sizes, s) = sizes[x] + SumFunctionOnSet(sizes, r)
  BY <1>2, <1>4, <1>9, SumWithout
<1> HIDE DEF All
<1>11. /\ IsFiniteSet(All(r) \union f[x])
       /\ Cardinality(All(r) \union f[x]) =
            Cardinality(All(r)) + Cardinality(f[x]) - Cardinality(All(r) \intersect f[x])
  BY <1>6, <1>8, FS_Union
<1>12. Cardinality(All(r) \intersect f[x]) = 0 /\ Cardinality(All(r)) \in Nat
  BY <1>6, <1>7, FS_EmptySet, FS_CardinalityType
<1>13. SumFunctionOnSet(sizes, r) = Cardinality(All(r))
  BY <1>6
<1> HIDE DEF r
<1>14. IsFiniteSet(All(s)) /\ SumFunctionOnSet(sizes, s) = Cardinality(All(s))
  BY <1>7, <1>8, <1>10, <1>11, <1>12, <1>13
<1>15. QED
  BY <1>2, <1>14
=============================================================================
