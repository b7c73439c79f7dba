--------------------------- MODULE CountingProofs ---------------------------
(***************************************************************************)
(* Laws of Tally, and of smallest and greatest elements of sets of numbers.*)
(***************************************************************************)
EXTENDS Counting, Integers, FiniteSetTheorems, TLAPS

(* What is a unit.                                                         *)
LEMMA UnitsElement ==
  ASSUME NEW f, NEW S, NEW u
  PROVE  u \in Units(f, S) <=> \E x \in S : \E n \in 1..f[x] : u = <<x, n>>
BY DEF Units

(* Finitely many places with finitely many units each.                     *)
LEMMA UnitsFinite ==
  ASSUME NEW S, IsFiniteSet(S), NEW f, \A x \in S : f[x] \in Nat
  PROVE  IsFiniteSet(Units(f, S)) /\ Tally(f, S) \in Nat
<1> DEFINE Of == {{x} \X (1..f[x]) : x \in S}
           h == [x \in S |-> {x} \X (1..f[x])]
<1>1. h \in Surjection(S, Of)
  BY DEF Surjection
<1>2. IsFiniteSet(Of)
  BY <1>1, FS_Surjection
<1>3. ASSUME NEW T \in Of PROVE IsFiniteSet(T)
  <2>1. PICK x \in S : T = {x} \X (1..f[x])
    OBVIOUS
  <2>2. IsFiniteSet({x}) /\ IsFiniteSet(1..f[x])
    <3>1. 1 \in Int /\ f[x] \in Int
      OBVIOUS
    <3>2. IsFiniteSet(1..f[x])
      BY <3>1, FS_Interval
    <3>3. QED BY <3>2, FS_Singleton
  <2>3. QED BY <2>1, <2>2, FS_Product
<1>4. IsFiniteSet(UNION Of)
  BY <1>2, <1>3, FS_UNION
<1>5. IsFiniteSet(Units(f, S))
  BY <1>4 DEF Units
<1>6. QED BY <1>5, FS_CardinalityType DEF Tally

(* Equal where it matters, equal in sum.                                   *)
LEMMA TallyEqual ==
  ASSUME NEW S, NEW f, NEW g, \A x \in S : f[x] = g[x]
  PROVE  Tally(f, S) = Tally(g, S)
<1>1. Units(f, S) = Units(g, S)
  BY DEF Units
<1>2. QED BY <1>1 DEF Tally

(* The sum over nothing.                                                   *)
LEMMA TallyEmpty ==
  ASSUME NEW f
  PROVE  Tally(f, {}) = 0
<1>1. Units(f, {}) = {}
  BY DEF Units
<1>2. QED BY <1>1, FS_EmptySet DEF Tally

(* A sum does not fall when no term does.                                  *)
LEMMA TallyMonotone ==
  ASSUME NEW S, IsFiniteSet(S), NEW f, NEW g,
         \A x \in S : f[x] \in Nat /\ g[x] \in Nat /\ f[x] <= g[x]
  PROVE  Tally(f, S) <= Tally(g, S)
<1>1. Units(f, S) \subseteq Units(g, S)
  <2> SUFFICES ASSUME NEW u \in Units(f, S) PROVE u \in Units(g, S)
    OBVIOUS
  <2>1. PICK x \in S : \E n \in 1..f[x] : u = <<x, n>>
    BY UnitsElement
  <2>2. PICK n \in 1..f[x] : u = <<x, n>>
    BY <2>1
  <2>3. n \in 1..g[x]
    OBVIOUS
  <2>4. QED BY <2>2, <2>3, UnitsElement
<1>2. IsFiniteSet(Units(g, S))
  BY UnitsFinite
<1>3. QED BY <1>1, <1>2, FS_Subset DEF Tally

(* A part has at most the sum of the whole, and the same if the rest has   *)
(* nothing.                                                                *)
LEMMA TallySubset ==
  ASSUME NEW S, IsFiniteSet(S), NEW T \in SUBSET S, NEW f, \A x \in S : f[x] \in Nat
  PROVE  /\ Tally(f, T) <= Tally(f, S)
         /\ (\A x \in S \ T : f[x] = 0) => Tally(f, T) = Tally(f, S)
<1>1. Units(f, T) \subseteq Units(f, S)
  BY DEF Units
<1>2. IsFiniteSet(Units(f, S))
  BY UnitsFinite
<1>3. Tally(f, T) <= Tally(f, S)
  BY <1>1, <1>2, FS_Subset DEF Tally
<1>4. ASSUME \A x \in S \ T : f[x] = 0 PROVE Units(f, S) \subseteq Units(f, T)
  <2>1. SUFFICES ASSUME NEW u \in Units(f, S) PROVE u \in Units(f, T)
    OBVIOUS
  <2>2. PICK x \in S : \E n \in 1..f[x] : u = <<x, n>>
    BY UnitsElement
  <2>3. f[x] # 0
    BY <2>2
  <2>4. x \in T
    BY <1>4, <2>3
  <2>5. QED BY <2>2, <2>4, UnitsElement
<1>5. ASSUME \A x \in S \ T : f[x] = 0 PROVE Tally(f, T) = Tally(f, S)
  <2>1. Units(f, T) = Units(f, S)
    BY <1>1, <1>4, <1>5
  <2>2. QED BY <2>1 DEF Tally
<1>6. QED BY <1>3, <1>5

(* One place more, with its own units.                                     *)
LEMMA TallyAdd ==
  ASSUME NEW S, IsFiniteSet(S), NEW y, y \notin S, NEW f, \A x \in S \cup {y} : f[x] \in Nat
  PROVE  Tally(f, S \cup {y}) = Tally(f, S) + f[y]
<1> DEFINE A == Units(f, S)
           B == {y} \X (1..f[y])
<1>1. Units(f, S \cup {y}) = A \cup B
  BY DEF Units
<1>2. A \cap B = {}
  BY DEF Units
<1>3. IsFiniteSet(A)
  BY UnitsFinite
<1>4. IsFiniteSet(B) /\ Cardinality(B) = f[y]
  <2>1. IsFiniteSet({y}) /\ Cardinality({y}) = 1
    BY FS_Singleton
  <2>2. IsFiniteSet(1..f[y]) /\ Cardinality(1..f[y]) = f[y]
    <3>1. f[y] \in Nat /\ 1 \in Int /\ f[y] \in Int
      OBVIOUS
    <3>2. IsFiniteSet(1..f[y]) /\ Cardinality(1..f[y]) = IF 1 > f[y] THEN 0 ELSE f[y] - 1 + 1
      BY <3>1, FS_Interval
    <3>3. QED BY <3>1, <3>2
  <2>3. IsFiniteSet(B) /\ Cardinality(B) = Cardinality({y}) * Cardinality(1..f[y])
    BY <2>1, <2>2, FS_Product
  <2>4. QED BY <2>1, <2>2, <2>3
<1> HIDE DEF A, B
<1>5. Cardinality(A \cup B) = Cardinality(A) + Cardinality(B) - Cardinality(A \cap B)
  BY <1>3, <1>4, FS_Union
<1>6. Cardinality(A \cap B) = 0 /\ Cardinality(A) \in Nat
  BY <1>2, <1>3, FS_EmptySet, FS_CardinalityType
<1>7. Cardinality(A \cup B) = Cardinality(A) + f[y]
  BY <1>4, <1>5, <1>6
<1>8. QED BY <1>1, <1>7 DEF Tally, A

(* One place less.                                                         *)
LEMMA TallyRemove ==
  ASSUME NEW S, IsFiniteSet(S), NEW y \in S, NEW f, \A x \in S : f[x] \in Nat
  PROVE  Tally(f, S) = Tally(f, S \ {y}) + f[y]
<1>1. IsFiniteSet(S \ {y})
  BY FS_RemoveElement
<1>2. S = (S \ {y}) \cup {y}
  OBVIOUS
<1>3. Tally(f, (S \ {y}) \cup {y}) = Tally(f, S \ {y}) + f[y]
  BY <1>1, TallyAdd
<1>4. QED BY <1>2, <1>3

(* One term changes.                                                       *)
LEMMA TallyChange ==
  ASSUME NEW S, IsFiniteSet(S), NEW y \in S, NEW f, NEW g,
         \A x \in S : f[x] \in Nat /\ g[x] \in Nat, \A x \in S \ {y} : g[x] = f[x]
  PROVE  Tally(g, S) = Tally(f, S) + g[y] - f[y]
<1>1. /\ Tally(f, S) = Tally(f, S \ {y}) + f[y]
      /\ Tally(g, S) = Tally(g, S \ {y}) + g[y]
  BY TallyRemove
<1>2. Tally(f, S \ {y}) = Tally(g, S \ {y})
  BY TallyEqual
<1>3. IsFiniteSet(S \ {y})
  BY FS_RemoveElement
<1>4. Tally(f, S \ {y}) \in Nat
  BY <1>3, UnitsFinite
<1>5. QED BY <1>1, <1>2, <1>4

(* A term is at most the sum.                                              *)
LEMMA TallyTerm ==
  ASSUME NEW S, IsFiniteSet(S), NEW y \in S, NEW f, \A x \in S : f[x] \in Nat
  PROVE  f[y] <= Tally(f, S)
<1>1. IsFiniteSet(S \ {y})
  BY FS_RemoveElement
<1>2. Tally(f, S \ {y}) \in Nat
  BY <1>1, UnitsFinite
<1>3. Tally(f, S) = Tally(f, S \ {y}) + f[y] /\ f[y] \in Nat
  BY TallyRemove
<1>4. QED BY <1>2, <1>3

(* One element for another.                                                *)
LEMMA SwapCount ==
  ASSUME NEW S, IsFiniteSet(S), NEW a \in S, NEW b, b \notin S
  PROVE  Cardinality((S \ {a}) \cup {b}) = Cardinality(S)
<1>1. IsFiniteSet(S \ {a}) /\ Cardinality(S \ {a}) = Cardinality(S) - 1 /\ Cardinality(S) \in Nat
  BY FS_RemoveElement, FS_CardinalityType
<1>2. Cardinality((S \ {a}) \cup {b}) = Cardinality(S \ {a}) + 1
  BY <1>1, FS_AddElement
<1>3. QED BY <1>1, <1>2

(* As many images as elements.                                             *)
LEMMA ImageCount ==
  ASSUME NEW S, IsFiniteSet(S), NEW f, \A x, y \in S : f[x] = f[y] => x = y
  PROVE  /\ IsFiniteSet({f[x] : x \in S})
         /\ Cardinality({f[x] : x \in S}) = Cardinality(S)
<1> DEFINE T == {f[x] : x \in S}
           g == [x \in S |-> f[x]]
<1>1. g \in Surjection(S, T) /\ g \in Injection(S, T)
  BY DEF Surjection, Injection, IsInjective
<1> HIDE DEF g
<1>2. QED BY <1>1, FS_Surjection

(* A set of numbers that is not empty has a smallest element...            *)
LEMMA SmallestExists ==
  ASSUME NEW S \in SUBSET Nat, S # {}
  PROVE  \E m \in S : \A n \in S : m <= n
<1> DEFINE Less == {ss \in Nat \X Nat : ss[1] < ss[2]}
<1>1. IsWellFoundedOn(Less, Nat)
  BY NatLessThanWellFounded DEF OpToRel
<1>2. PICK m \in S : \A n \in S : ~ (<<n, m>> \in Less)
  BY <1>1, WFMin
<1>3. ASSUME NEW n \in S PROVE m <= n
  <2>1. m \in Nat /\ n \in Nat
    OBVIOUS
  <2>2. ~ (<<n, m>> \in Less)
    BY <1>2
  <2>3. QED BY <2>1, <2>2
<1>4. QED BY <1>3

(* ... and, if it is bounded, a greatest.                                  *)
LEMMA GreatestExists ==
  ASSUME NEW S \in SUBSET Nat, S # {}, NEW b \in Nat, \A n \in S : n <= b
  PROVE  \E m \in S : \A n \in S : n <= m
<1> DEFINE Above == {m \in Nat : \A n \in S : n <= m}
<1>1. PICK m \in Above : \A n \in Above : m <= n
  BY SmallestExists
<1>2. SUFFICES ASSUME m \notin S PROVE FALSE
  BY <1>1
<1>3. \A n \in S : n < m
  BY <1>1, <1>2
<1>4. m - 1 \in Above
  <2>1. PICK k \in S : TRUE
    OBVIOUS
  <2>2. k \in Nat /\ m \in Nat /\ k < m
    BY <1>3
  <2>3. m - 1 \in Nat
    BY <2>2
  <2>4. ASSUME NEW n \in S PROVE n <= m - 1
    BY <2>2, <1>3
  <2>5. QED BY <2>3, <2>4
<1>5. QED BY <1>1, <1>4
=============================================================================
