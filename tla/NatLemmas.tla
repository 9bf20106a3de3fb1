------------------------------- MODULE NatLemmas ------------------------------
(***************************************************************************)
(* Facts about the natural numbers that the proofs of several modules use. *)
(* The least-element principle is taken from the well-foundedness of <,    *)
(* and induction is stated for sets of numbers rather than for predicates. *)
(***************************************************************************)
EXTENDS Integers, WellFoundedInduction, TLAPS

\* A non-empty set of naturals has a least element: the lowest clear bit of a
\* bitmap, the lowest free cluster of a table.
LEMMA LeastNat ==
  ASSUME NEW S \in SUBSET Nat, S # {}
  PROVE  \E m \in S : \A n \in S : m <= n
<1> DEFINE R == OpToRel(<, Nat)
<1>1. R = {p \in Nat \X Nat : p[1] < p[2]}
  BY DEF OpToRel
<1>2. IsWellFoundedOn(R, Nat)
  BY NatLessThanWellFounded
<1> HIDE DEF R
<1>3. PICK m \in S : \A n \in S : ~ (<<n, m>> \in R)
  BY <1>2, WFMin
<1>4. \A n \in S : ~ (n < m)
  BY <1>1, <1>3
<1> QED BY <1>4

\* Induction, for the set of the numbers that have the property.
LEMMA SetInduction ==
  ASSUME NEW S \in SUBSET Nat, 0 \in S, \A n \in S : n + 1 \in S
  PROVE  S = Nat
<1> SUFFICES ASSUME Nat \ S # {} PROVE FALSE
  OBVIOUS
<1>1. PICK m \in Nat \ S : \A n \in Nat \ S : m <= n
  BY LeastNat, Nat \ S \in SUBSET Nat
<1>2. m - 1 \in S
  BY <1>1
<1> QED BY <1>1, <1>2

\* A non-empty set of naturals with an upper bound has a greatest element.
LEMMA GreatestNat ==
  ASSUME NEW S \in SUBSET Nat, S # {}, NEW b \in Nat, \A n \in S : n <= b
  PROVE  \E m \in S : \A n \in S : n <= m
<1> DEFINE Bounds == {u \in Nat : \A n \in S : n <= u}
<1>1. PICK m \in Bounds : \A u \in Bounds : m <= u
  BY LeastNat, b \in Bounds
<1>2. m \in S
  <2> SUFFICES ASSUME m \notin S PROVE FALSE
    OBVIOUS
  <2>1. \A n \in S : n <= m - 1
    BY <1>1
  <2>2. m - 1 \in Nat
    <3>1. PICK n \in S : TRUE
      OBVIOUS
    <3> QED BY <2>1, <3>1
  <2>3. m - 1 \in Bounds
    BY <2>1, <2>2
  <2> QED BY <1>1, <2>3
<1> QED BY <1>1, <1>2

\* Finitely many naturals have an upper bound.
LEMMA BoundOfFamily ==
  ASSUME NEW len \in Nat, NEW f \in [1 .. len -> Nat]
  PROVE  \E b \in Nat : \A i \in 1 .. len : f[i] <= b
<1> DEFINE Prefixes == {k \in Nat : k <= len => \E b \in Nat : \A i \in 1 .. k : f[i] <= b}
<1>1. 0 \in Prefixes
  OBVIOUS
<1>2. ASSUME NEW k \in Prefixes PROVE k + 1 \in Prefixes
  <2> SUFFICES ASSUME k + 1 <= len
               PROVE  \E b \in Nat : \A i \in 1 .. k + 1 : f[i] <= b
    OBVIOUS
  <2>1. PICK b \in Nat : \A i \in 1 .. k : f[i] <= b
    OBVIOUS
  <2>2. f[k + 1] \in Nat
    OBVIOUS
  <2>3. CASE f[k + 1] <= b
    <3> WITNESS b \in Nat
    <3> QED BY <2>1, <2>3
  <2>4. CASE b < f[k + 1]
    <3> WITNESS f[k + 1] \in Nat
    <3> QED BY <2>1, <2>2, <2>4
  <2> QED BY <2>2, <2>3, <2>4
<1> HIDE DEF Prefixes
<1>3. Prefixes = Nat
  BY <1>1, <1>2, SetInduction, Prefixes \in SUBSET Nat DEF Prefixes
<1>4. len \in Prefixes
  BY <1>3
<1> QED BY <1>4 DEF Prefixes

\* Division brackets its dividend.
LEMMA DivBracket ==
  ASSUME NEW a \in Nat, NEW b \in Nat \ {0}
  PROVE  /\ a \div b \in Nat
         /\ (a \div b) * b <= a
         /\ a < (a \div b) * b + b
  BY SMT

\* Division is monotone.
LEMMA DivMonotone ==
  ASSUME NEW a \in Nat, NEW c \in Nat, NEW b \in Nat \ {0}, a <= c
  PROVE  a \div b <= c \div b
  BY SMT

\* The word of a bit of an n-word bitmap is one of the n words.
LEMMA DivBelow ==
  ASSUME NEW a \in Nat, NEW n \in Nat, NEW b \in Nat \ {0}, a < n * b
  PROVE  a \div b < n
  BY SMT
=============================================================================
