------------------------------ MODULE DagProofs ------------------------------
(***************************************************************************)
(* Lemmas about the sets of changesets of Dag.tla, for every graph: what   *)
(* closed sets are closed under, and that heads and roots stand for the    *)
(* sets they are taken of.                                                 *)
(***************************************************************************)
EXTENDS Dag, WellFoundedInduction, TLAPS

-----------------------------------------------------------------------------
(* Numbers *)

\* A set of numbers that is not empty has a least member, ...
LEMMA HasLeast ==
    ASSUME NEW S \in SUBSET Nat, S # {}
    PROVE  \E m \in S : \A x \in S : m <= x
<1> DEFINE R == OpToRel(<, Nat)
<1>1. \E m \in S : \A x \in S : ~(<<x, m>> \in R)
  <2>1. IsWellFoundedOn(R, Nat)
    BY NatLessThanWellFounded
  <2> HIDE DEF R
  <2> QED
    BY <2>1, WFMin, Zenon
<1>2. PICK m \in S : \A x \in S : ~(<<x, m>> \in R)
  BY <1>1
<1>3. ASSUME NEW x \in S
      PROVE  m <= x
  <2>1. ~(x < m)
    BY <1>2 DEF OpToRel
  <2> QED
    BY <2>1
<1> QED
  BY <1>3

\* ... and one of numbers up to n a greatest.
LEMMA HasGreatest ==
    ASSUME NEW n \in Nat, NEW S \in SUBSET (0..n), S # {}
    PROVE  \E m \in S : \A x \in S : x <= m
<1> DEFINE T == {n - x : x \in S}
<1>1. T \in SUBSET Nat /\ T # {}
  <2>1. \A x \in S : n - x \in Nat
    <3> SUFFICES ASSUME NEW x \in S PROVE n - x \in Nat
      OBVIOUS
    <3>1. x \in Int /\ x <= n
      OBVIOUS
    <3> QED
      BY <3>1
  <2> QED
    BY <2>1
<1>2. PICK k \in T : \A y \in T : k <= y
  BY <1>1, HasLeast, Zenon
<1>3. PICK m \in S : k = n - m
  BY <1>2
<1>4. \A x \in S : x <= m
  <2> SUFFICES ASSUME NEW x \in S PROVE x <= m
    OBVIOUS
  <2>1. k <= n - x
    BY <1>2
  <2> QED
    BY <2>1, <1>3
<1> QED
  BY <1>4

-----------------------------------------------------------------------------
(* Ancestry *)

\* What an order says of two changesets.
LEMMA Ancestry ==
    ASSUME IsOrder, NEW c \in Changesets, NEW a \in ancestors[c]
    PROVE  /\ c \in ancestors[c]
           /\ a \in Changesets /\ a <= c
           /\ ancestors[a] \subseteq ancestors[c]
<1>1. ancestors[c] \subseteq Changesets /\ ancestors[c] \subseteq 1..c /\ c \in ancestors[c]
  BY DEF IsOrder
<1>2. ancestors[a] \subseteq ancestors[c]
  BY DEF IsOrder
<1>3. a \in Changesets /\ a \in 1..c /\ c \in Int
  BY <1>1 DEF Changesets
<1> QED
  BY <1>1, <1>2, <1>3

\* A changeset that is an ancestor of its ancestor is the same.
LEMMA AncestryIsAntisymmetric ==
    ASSUME IsOrder, NEW c \in Changesets, NEW d \in Changesets,
           c \in ancestors[d], d \in ancestors[c]
    PROVE  c = d
<1>1. c <= d /\ d <= c
  BY Ancestry
<1> QED
  BY <1>1, DagAssumption DEF Changesets

\* The ancestors of a set contain it and are closed.
LEMMA AncestorsAreClosed ==
    ASSUME IsOrder, NEW S \in SUBSET Changesets
    PROVE  /\ S \subseteq AncestorsOf(S)
           /\ AncestorsOf(S) \subseteq Changesets
           /\ IsClosed(AncestorsOf(S))
<1>1. S \subseteq AncestorsOf(S)
  BY Ancestry, Zenon DEF AncestorsOf, IsOrder
<1>2. AncestorsOf(S) \subseteq Changesets
  BY Ancestry, Zenon DEF AncestorsOf
<1>3. IsClosed(AncestorsOf(S))
  <2> SUFFICES ASSUME NEW a \in AncestorsOf(AncestorsOf(S))
               PROVE  a \in AncestorsOf(S)
    BY DEF IsClosed
  <2>1. PICK b \in AncestorsOf(S) : a \in ancestors[b]
    BY DEF AncestorsOf
  <2>2. PICK c \in S : b \in ancestors[c]
    BY DEF AncestorsOf
  <2>3. a \in ancestors[c]
    BY <2>1, <2>2, Ancestry
  <2> QED
    BY <2>3 DEF AncestorsOf
<1> QED
  BY <1>1, <1>2, <1>3

\* A closed set has the ancestors of its subsets.
LEMMA ClosedHasAncestors ==
    ASSUME NEW S, NEW T, IsClosed(S), T \subseteq S
    PROVE  AncestorsOf(T) \subseteq S
BY DEF IsClosed, AncestorsOf

\* Two closed sets make a closed set.
LEMMA ClosedUnion ==
    ASSUME NEW S, NEW T, IsClosed(S), IsClosed(T)
    PROVE  IsClosed(S \cup T)
BY DEF IsClosed, AncestorsOf

\* Every changeset of a set is an ancestor of one of its heads.
LEMMA HeadsCover ==
    ASSUME IsOrder, NEW S \in SUBSET Changesets, NEW c \in S
    PROVE  \E h \in HeadsOf(S) : c \in ancestors[h]
<1> DEFINE D == {d \in S : c \in ancestors[d]}
<1>1. D \in SUBSET (0..N) /\ D # {}
  <2>1. c \in D
    BY Ancestry, Zenon DEF IsOrder
  <2>2. S \subseteq 0..N
    BY DagAssumption DEF Changesets
  <2> QED
    BY <2>1, <2>2
<1>2. PICK h \in D : \A d \in D : d <= h
  <2> HIDE DEF D
  <2> QED
    BY <1>1, HasGreatest, DagAssumption, Zenon
<1>3. h \in HeadsOf(S)
  <2> SUFFICES ASSUME NEW d \in S, h \in ParentsOf(d) PROVE FALSE
    BY <1>2 DEF HeadsOf
  <2>1. h \in ancestors[d] /\ h # d
    BY DEF ParentsOf
  <2>2. c \in ancestors[d] /\ h <= d
    BY <2>1, Ancestry
  <2>3. d <= h
    BY <1>2, <2>2
  <2> QED
    BY <2>1, <2>2, <2>3, DagAssumption DEF Changesets
<1> QED
  BY <1>2, <1>3

\* Every changeset of a set descends from one of its roots.
LEMMA RootsCover ==
    ASSUME IsOrder, NEW S \in SUBSET Changesets, NEW c \in S
    PROVE  \E r \in RootsOf(S) : r \in ancestors[c]
<1> DEFINE A == S \cap ancestors[c]
<1>1. A \in SUBSET Nat /\ A # {}
  <2>1. c \in A
    BY Ancestry, Zenon DEF IsOrder
  <2>2. S \subseteq Nat
    BY DagAssumption DEF Changesets
  <2> QED
    BY <2>1, <2>2
<1>2. PICK r \in A : \A a \in A : r <= a
  <2> HIDE DEF A
  <2> QED
    BY <1>1, HasLeast, Zenon
<1>3. r \in RootsOf(S)
  <2> SUFFICES ASSUME NEW p \in S, p \in ParentsOf(r) PROVE FALSE
    BY <1>2 DEF RootsOf
  <2>1. p \in ancestors[r] /\ p # r
    BY DEF ParentsOf
  <2>2. p \in ancestors[c] /\ p <= r
    BY <2>1, Ancestry
  <2>3. r <= p
    BY <1>2, <2>2
  <2> QED
    BY <2>1, <2>2, <2>3, DagAssumption DEF Changesets
<1> QED
  BY <1>2, <1>3

\* Heads and roots stand for the sets they are taken of.
LEMMA HeadsSpan ==
    ASSUME IsOrder, NEW S \in SUBSET Changesets
    PROVE  AncestorsOf(HeadsOf(S)) = AncestorsOf(S)
<1>1. ASSUME NEW a \in AncestorsOf(S)
      PROVE  a \in AncestorsOf(HeadsOf(S))
  <2>1. PICK c \in S : a \in ancestors[c]
    BY DEF AncestorsOf
  <2>2. PICK h \in HeadsOf(S) : c \in ancestors[h]
    BY HeadsCover
  <2>3. a \in ancestors[h]
    BY <2>1, <2>2, Ancestry DEF HeadsOf
  <2> QED
    BY <2>3 DEF AncestorsOf
<1>2. AncestorsOf(HeadsOf(S)) \subseteq AncestorsOf(S)
  BY DEF AncestorsOf, HeadsOf
<1> QED
  BY <1>1, <1>2

LEMMA RootsSpan ==
    ASSUME IsOrder, NEW S \in SUBSET Changesets
    PROVE  DescendantsOf(RootsOf(S)) = DescendantsOf(S)
<1>1. ASSUME NEW d \in DescendantsOf(S)
      PROVE  d \in DescendantsOf(RootsOf(S))
  <2>1. PICK c \in S : c \in ancestors[d] /\ d \in Changesets
    BY DEF DescendantsOf
  <2>2. PICK r \in RootsOf(S) : r \in ancestors[c]
    BY RootsCover
  <2>3. r \in ancestors[d]
    BY <2>1, <2>2, Ancestry
  <2> QED
    BY <2>1, <2>2, <2>3 DEF DescendantsOf
<1>2. DescendantsOf(RootsOf(S)) \subseteq DescendantsOf(S)
  BY DEF DescendantsOf, RootsOf
<1> QED
  BY <1>1, <1>2

\* What is above a changeset is above one of its children: each other ancestor of a
\* changeset is an ancestor of one of its parents.
LEMMA ParentsCover ==
    ASSUME IsOrder, NEW c \in Changesets, NEW a \in ancestors[c], a # c
    PROVE  \E p \in ParentsOf(c) : a \in ancestors[p]
<1> DEFINE D == {d \in ancestors[c] \ {c} : a \in ancestors[d]}
<1>1. D \in SUBSET (0..N) /\ D # {}
  <2>1. a \in D
    <3>1. a \in Changesets
      BY Ancestry
    <3> QED
      BY <3>1 DEF IsOrder
  <2>2. ancestors[c] \subseteq 0..N
    BY DagAssumption DEF IsOrder, Changesets
  <2> QED
    BY <2>1, <2>2
<1> HIDE DEF D
<1>2. PICK m \in D : \A x \in D : x <= m
  BY <1>1, HasGreatest, DagAssumption
<1>3. m \in ancestors[c] \ {c} /\ a \in ancestors[m] /\ m \in Changesets
  BY Ancestry DEF D
<1>4. ASSUME NEW x \in ancestors[c] \ {c}, m \in ancestors[x]
      PROVE  x = m
  <2>1. x \in Changesets /\ ancestors[m] \subseteq ancestors[x]
    BY <1>4, Ancestry
  <2>2. x \in D
    BY <1>3, <1>4, <2>1 DEF D
  <2>3. x <= m /\ m <= x
    BY <1>2, <1>4, <2>1, <2>2, Ancestry
  <2> QED
    BY <1>3, <2>1, <2>3, DagAssumption DEF Changesets
<1> QED
  BY <1>3, <1>4 DEF ParentsOf

\* If nothing between two changesets of a set is outside of it, no root of the set
\* descends from another.
LEMMA RootsAreIncomparable ==
    ASSUME IsOrder, NEW S \in SUBSET Changesets,
           \A a \in S : \A d \in S : \A c \in ancestors[d] : a \in ancestors[c] => c \in S,
           NEW r \in RootsOf(S), NEW q \in RootsOf(S), r \in ancestors[q]
    PROVE  r = q
<1> SUFFICES ASSUME r # q PROVE FALSE
  OBVIOUS
<1>1. r \in S /\ q \in S /\ q \in Changesets
  BY DEF RootsOf
<1>2. PICK p \in ParentsOf(q) : r \in ancestors[p]
  BY <1>1, ParentsCover
<1>3. p \in ancestors[q]
  BY DEF ParentsOf
<1>4. p \in S
  BY <1>1, <1>2, <1>3
<1> QED
  BY <1>4 DEF RootsOf
=============================================================================
