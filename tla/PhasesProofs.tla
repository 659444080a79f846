----------------------------- MODULE PhasesProofs -----------------------------
(***************************************************************************)
(* Theorems about Phases.tla, for every graph, any number of phases and    *)
(* any sequence of transactions, roll backs and strips:                    *)
(*   - Minimal: no root of a phase is the descendant of another;           *)
(*   - MovesAreAsAsked: the roots that advanceboundary(),                  *)
(*     retractboundary() and registernew() compute stand for the phases    *)
(*     the user is told of;                                                *)
(*   - StripsKeepPhases: what a strip sets aside comes back in its phases; *)
(*   - MovesAlwaysRecorded: tr.changes misses no move, and is exact as     *)
(*     long as no phase is raised.                                         *)
(* They rest on what the computed roots span: the descendants of the roots *)
(* of a phase are what is in this phase or a higher one.                   *)
(***************************************************************************)
EXTENDS Phases, DagProofs

\* A repository and roots of it.
Rooted(csets, roots) ==
    /\ IsOrder
    /\ csets \in SUBSET Changesets /\ IsClosed(csets)
    /\ roots \in [Tracked -> SUBSET csets]

-----------------------------------------------------------------------------
(* Numbers and phases *)

\* Greatest() of phases.
LEMMA GreatestPhase ==
    ASSUME NEW S \in SUBSET Phase, S # {}
    PROVE  Greatest(S) \in S /\ \A q \in S : q <= Greatest(S)
<1>1. \E m \in S : \A q \in S : q <= m
  BY HasGreatest, PhaseAssumption DEF Phase
<1> QED
  BY <1>1 DEF Greatest

\* Least() of changesets.
LEMMA LeastChangeset ==
    ASSUME NEW S \in SUBSET Changesets, S # {}
    PROVE  Least(S) \in S /\ \A q \in S : Least(S) <= q
<1>1. S \in SUBSET Nat
  BY DagAssumption DEF Changesets
<1>2. \E m \in S : \A q \in S : m <= q
  BY <1>1, HasLeast
<1> QED
  BY <1>2 DEF Least

\* A changeset is in the highest phase that has a root among its ancestors.
LEMMA PhaseIsHighest ==
    ASSUME NEW roots, NEW c
    PROVE  /\ PhaseOf(roots, c) \in Phase
           /\ \A p \in Tracked : ancestors[c] \cap roots[p] # {} => p <= PhaseOf(roots, c)
           /\ PhaseOf(roots, c) # 0 =>
                 /\ PhaseOf(roots, c) \in Tracked
                 /\ ancestors[c] \cap roots[PhaseOf(roots, c)] # {}
<1> DEFINE P == {0} \cup {p \in Tracked : ancestors[c] \cap roots[p] # {}}
<1>1. P \in SUBSET Phase /\ P # {}
  BY PhaseAssumption DEF Phase, Tracked
<1>2. PhaseOf(roots, c) = Greatest(P)
  BY DEF PhaseOf
<1>3. Greatest(P) \in P /\ \A q \in P : q <= Greatest(P)
  <2> HIDE DEF P
  <2> QED
    BY <1>1, GreatestPhase
<1> QED
  BY <1>1, <1>2, <1>3

\* There is one such phase.
LEMMA PhaseIs ==
    ASSUME NEW roots, NEW c, NEW q \in Phase,
           q # 0 => ancestors[c] \cap roots[q] # {},
           \A p \in Tracked : ancestors[c] \cap roots[p] # {} => p <= q
    PROVE  PhaseOf(roots, c) = q
<1>1. PhaseOf(roots, c) \in Int /\ q \in Int /\ 0 <= q /\ 0 <= PhaseOf(roots, c)
  BY PhaseIsHighest, PhaseAssumption DEF Phase
<1>2. q <= PhaseOf(roots, c)
  <2>1. CASE q = 0
    BY <1>1, <2>1
  <2>2. CASE q # 0
    <3>1. q \in Tracked
      BY <2>2, PhaseAssumption DEF Phase, Tracked
    <3> QED
      BY <2>2, <3>1, PhaseIsHighest
  <2> QED
    BY <2>1, <2>2
<1>3. PhaseOf(roots, c) <= q
  <2>1. CASE PhaseOf(roots, c) = 0
    BY <1>1, <2>1
  <2>2. CASE PhaseOf(roots, c) # 0
    BY <2>2, PhaseIsHighest
  <2> QED
    BY <2>1, <2>2
<1> QED
  BY <1>1, <1>2, <1>3

\* No changeset is in a lower phase than its ancestors.
LEMMA PhasesGrow ==
    ASSUME IsOrder, NEW roots, NEW c \in Changesets, NEW a \in ancestors[c]
    PROVE  PhaseOf(roots, a) <= PhaseOf(roots, c)
<1>1. ancestors[a] \subseteq ancestors[c]
  BY Ancestry
<1>2. CASE PhaseOf(roots, a) = 0
  BY <1>2, PhaseIsHighest, PhaseAssumption DEF Phase
<1>3. CASE PhaseOf(roots, a) # 0
  <2>1. /\ PhaseOf(roots, a) \in Tracked
        /\ ancestors[c] \cap roots[PhaseOf(roots, a)] # {}
    BY <1>1, <1>3, PhaseIsHighest
  <2> QED
    BY <2>1, PhaseIsHighest
<1> QED
  BY <1>2, <1>3

-----------------------------------------------------------------------------
(* _retractboundary() *)

\* The changesets of S that are in a lower phase than t.
Lower(roots, t, S) == {c \in S : PhaseOf(roots, c) < t}

\* What the roots of t span after the move, and that the other phases keep theirs.
LEMMA RetractedRoots ==
    ASSUME NEW csets, NEW roots, Rooted(csets, roots), NEW t \in Phase, NEW S \in SUBSET csets
    PROVE  /\ RetractRoots(csets, roots, t, S) \in [Tracked -> SUBSET csets]
           /\ \A p \in Tracked : p # t => RetractRoots(csets, roots, t, S)[p] = roots[p]
           /\ t \in Tracked => \A c \in csets :
                 ancestors[c] \cap RetractRoots(csets, roots, t, S)[t] # {} <=>
                     c \in DescendantsOf(roots[t]) \/ c \in DescendantsOf(Lower(roots, t, S))
           /\ t = 0 => RetractRoots(csets, roots, t, S) = roots
<1> DEFINE new == Lower(roots, t, S)
           current == roots[t] \cup new
           above == {c \in current : c >= Least(new)}
           X == csets \cap DescendantsOf(above)
<1>1. CASE new = {}
  <2>1. RetractRoots(csets, roots, t, S) = roots
    BY <1>1 DEF RetractRoots, Lower
  <2>2. \A c \in csets : c \notin DescendantsOf(new)
    BY <1>1 DEF DescendantsOf
  <2>3. \A c \in csets : t \in Tracked =>
           (ancestors[c] \cap roots[t] # {} <=> c \in DescendantsOf(roots[t]))
    BY DEF DescendantsOf, Rooted
  <2> QED
    BY <2>1, <2>2, <2>3 DEF Rooted
<1>2. CASE new # {}
  <2>1. RetractRoots(csets, roots, t, S) =
           [roots EXCEPT ![t] = (current \ above) \cup RootsOf(X)]
    BY <1>2 DEF RetractRoots, Lower
  <2>2. t # 0 /\ t \in Tracked
    <3>1. PICK c \in S : PhaseOf(roots, c) < t
      BY <1>2 DEF Lower
    <3>2. PhaseOf(roots, c) \in Phase
      BY PhaseIsHighest
    <3> QED
      BY <3>1, <3>2, PhaseAssumption DEF Phase, Tracked
  <2>3. current \in SUBSET csets /\ above \in SUBSET csets /\ X \in SUBSET Changesets
    BY <2>2 DEF Rooted, Lower
  <2> HIDE DEF above
  <2>4. DescendantsOf(RootsOf(X)) = DescendantsOf(X)
    BY <2>3, RootsSpan DEF Rooted
  <2>5. above \subseteq current
    BY DEF above
  <2>6. \A c \in csets : ancestors[c] \subseteq csets
    BY DEF Rooted, IsClosed, AncestorsOf
  <2>7. \A c \in csets : c \in DescendantsOf(X) <=> c \in DescendantsOf(above)
    <3>1. SUFFICES ASSUME NEW c \in csets
                   PROVE c \in DescendantsOf(X) <=> c \in DescendantsOf(above)
      OBVIOUS
    <3>2. c \in Changesets
      BY DEF Rooted
    <3>3. c \in DescendantsOf(above) => c \in DescendantsOf(X)
      <4>1. above \subseteq X
        BY <2>3 DEF DescendantsOf, Rooted, IsOrder
      <4> QED
        BY <4>1 DEF DescendantsOf
    <3>4. c \in DescendantsOf(X) => c \in DescendantsOf(above)
      <4>1. SUFFICES ASSUME c \in DescendantsOf(X) PROVE c \in DescendantsOf(above)
        OBVIOUS
      <4>2. PICK x \in ancestors[c] : x \in DescendantsOf(above)
        BY <4>1 DEF DescendantsOf
      <4>3. ancestors[x] \subseteq ancestors[c]
        BY <3>2, Ancestry DEF Rooted
      <4> QED
        BY <3>2, <4>2, <4>3 DEF DescendantsOf
    <3> QED
      BY <3>3, <3>4
  <2>8. ASSUME NEW c \in csets
        PROVE ancestors[c] \cap ((current \ above) \cup RootsOf(X)) # {} <=>
                  c \in DescendantsOf(roots[t]) \/ c \in DescendantsOf(new)
    <3>1. c \in Changesets
      BY DEF Rooted
    <3>2. ancestors[c] \cap RootsOf(X) # {} <=> c \in DescendantsOf(above)
      <4>1. ancestors[c] \cap RootsOf(X) # {} <=> c \in DescendantsOf(RootsOf(X))
        BY <3>1 DEF DescendantsOf
      <4> QED
        BY <2>4, <2>7, <4>1
    <3>3. c \in DescendantsOf(above) <=> ancestors[c] \cap above # {}
      BY <3>1 DEF DescendantsOf
    <3>4. ancestors[c] \cap current # {} <=>
              c \in DescendantsOf(roots[t]) \/ c \in DescendantsOf(new)
      BY <3>1 DEF DescendantsOf
    <3> HIDE DEF X, current
    <3> QED
      BY <2>5, <3>2, <3>3, <3>4
  <2>9. (current \ above) \cup RootsOf(X) \in SUBSET csets
    BY <2>3 DEF RootsOf
  <2> HIDE DEF X, current
  <2> QED
    BY <2>1, <2>2, <2>8, <2>9 DEF Rooted
<1> QED
  BY <1>1, <1>2

\* The descendants of S are in t or a higher phase, and nothing else is moved.
LEMMA RetractedPhases ==
    ASSUME NEW csets, NEW roots, Rooted(csets, roots), NEW t \in Phase, NEW S \in SUBSET csets,
           NEW c \in csets
    PROVE  PhaseOf(RetractRoots(csets, roots, t, S), c) =
              IF c \in DescendantsOf(S) THEN Larger(PhaseOf(roots, c), t) ELSE PhaseOf(roots, c)
<1> DEFINE q == PhaseOf(roots, c)
           now == RetractRoots(csets, roots, t, S)
           new == Lower(roots, t, S)
<1>1. c \in Changesets /\ IsOrder /\ S \subseteq Changesets
  BY DEF Rooted
<1>2. q \in Phase /\ \A p \in Phase : p \in Int
  BY PhaseIsHighest, PhaseAssumption DEF Phase
<1>3. CASE t = 0
  <2>1. now = roots
    BY <1>3, RetractedRoots
  <2>2. Larger(q, t) = q
    BY <1>2, <1>3, PhaseAssumption DEF Larger, Phase
  <2> QED
    BY <2>1, <2>2
<1>4. CASE t # 0
  <2>1. t \in Tracked /\ t \in Int
    BY <1>4, PhaseAssumption DEF Phase, Tracked
  <2>2. /\ \A p \in Tracked : p # t => now[p] = roots[p]
        /\ ancestors[c] \cap now[t] # {} <=> c \in DescendantsOf(roots[t]) \/ c \in DescendantsOf(new)
    BY <2>1, RetractedRoots
  <2>3. c \in DescendantsOf(roots[t]) <=> ancestors[c] \cap roots[t] # {}
    BY <1>1 DEF DescendantsOf
  <2>4. /\ \A p \in Tracked : ancestors[c] \cap roots[p] # {} => p <= q
        /\ q # 0 => q \in Tracked /\ ancestors[c] \cap roots[q] # {}
    BY PhaseIsHighest
  <2>5. ASSUME NEW s \in S, s \in ancestors[c], s \notin new
        PROVE  t <= q
    <3>1. PhaseOf(roots, s) <= q
      BY <1>1, <2>5, PhasesGrow
    <3>2. ~(PhaseOf(roots, s) < t) /\ PhaseOf(roots, s) \in Phase
      BY <2>5, PhaseIsHighest DEF Lower
    <3>3. PhaseOf(roots, s) \in Int /\ q \in Int
      BY <1>2, <3>2
    <3> HIDE DEF q
    <3> QED
      BY <2>1, <3>1, <3>2, <3>3
  <2> HIDE DEF q, now, new
  <2>6. CASE c \in DescendantsOf(new)
    <3>1. c \in DescendantsOf(S)
      BY <2>6 DEF DescendantsOf, Lower, new
    <3>2. PhaseOf(now, c) = Larger(q, t)
      <4>1. Larger(q, t) \in Phase
        BY <1>2 DEF Larger
      <4>2. CASE q > t
        <5>1. Larger(q, t) = q /\ q # t
          BY <1>2, <2>1, <4>2 DEF Larger
        <5>2. q # 0 => ancestors[c] \cap now[q] # {}
          BY <2>2, <2>4, <5>1
        <5>3. \A p \in Tracked : ancestors[c] \cap now[p] # {} => p <= q
          BY <2>1, <2>2, <2>4, <4>2, <1>2
        <5> QED
          BY <4>1, <5>1, <5>2, <5>3, PhaseIs
      <4>3. CASE ~(q > t)
        <5>1. Larger(q, t) = t
          BY <4>3 DEF Larger
        <5>2. ancestors[c] \cap now[t] # {}
          BY <2>2, <2>6
        <5>3. \A p \in Tracked : ancestors[c] \cap now[p] # {} => p <= t
          <6>1. \A p \in Tracked : p \in Int
            BY PhaseAssumption DEF Tracked
          <6> QED
            BY <1>2, <2>1, <2>2, <2>4, <4>3, <6>1
        <5> QED
          BY <5>1, <5>2, <5>3, PhaseIs
      <4> QED
        BY <4>2, <4>3
    <3> QED
      BY <3>1, <3>2 DEF q, now
  <2>7. CASE c \notin DescendantsOf(new)
    <3>1. \A p \in Tracked : ancestors[c] \cap now[p] # {} <=> ancestors[c] \cap roots[p] # {}
      BY <2>2, <2>3, <2>7
    <3>2. PhaseOf(now, c) = q
      BY <1>2, <2>4, <3>1, PhaseIs
    <3>3. c \in DescendantsOf(S) => Larger(q, t) = q
      <4>1. SUFFICES ASSUME c \in DescendantsOf(S) PROVE Larger(q, t) = q
        OBVIOUS
      <4>2. PICK s \in S : s \in ancestors[c]
        BY <4>1 DEF DescendantsOf
      <4>3. s \notin new
        BY <1>1, <2>7, <4>2 DEF DescendantsOf
      <4>4. t <= q
        BY <2>5, <4>2, <4>3
      <4> QED
        BY <1>2, <2>1, <4>4 DEF Larger
    <3> QED
      BY <3>2, <3>3 DEF q, now
  <2> QED
    BY <2>6, <2>7
<1> QED
  BY <1>3, <1>4

\* The roots of each phase.
Minimal(roots) == \A p \in Tracked : Antichain(roots[p])

\* The roots below the lowest new one stay as they are, and no computed one descends
\* from them: it was in a lower phase.
LEMMA RetractedMinimal ==
    ASSUME NEW csets, NEW roots, Rooted(csets, roots), Minimal(roots),
           NEW t \in Phase, NEW S \in SUBSET csets
    PROVE  Minimal(RetractRoots(csets, roots, t, S))
<1> DEFINE now == RetractRoots(csets, roots, t, S)
           new == Lower(roots, t, S)
           current == roots[t] \cup new
           above == {c \in current : c >= Least(new)}
           X == csets \cap DescendantsOf(above)
<1>1. \A p \in Tracked : p # t => now[p] = roots[p]
  BY RetractedRoots
<1>2. ASSUME t \in Tracked, new # {}
      PROVE  Antichain(now[t])
  <2>1. now[t] = (current \ above) \cup RootsOf(X)
    BY <1>2 DEF RetractRoots, Lower, Rooted
  <2>2. /\ IsOrder /\ current \in SUBSET csets /\ csets \in SUBSET Changesets
        /\ new \in SUBSET Changesets /\ X \in SUBSET Changesets
        /\ \A c \in csets : ancestors[c] \subseteq csets
    BY <1>2 DEF Rooted, Lower, IsClosed, AncestorsOf
  <2>3. Least(new) \in Changesets /\ \A c \in new : Least(new) <= c
    BY <1>2, <2>2, LeastChangeset
  <2>4. \A c \in Changesets : c \in Int
    BY DagAssumption DEF Changesets
  <2>5. \A c \in current \ above : c \in roots[t] /\ c < Least(new)
    BY <2>2, <2>3, <2>4
  <2>6. \A c \in above : c \in current /\ Least(new) <= c
    BY <2>2, <2>3, <2>4
  <2>7. Antichain(roots[t])
    BY <1>2 DEF Minimal
  <2> HIDE DEF above
  <2>8. ASSUME NEW r \in RootsOf(X), NEW q \in RootsOf(X), r \in ancestors[q]
        PROVE  r = q
    <3>1. \A a \in X : \A d \in X : \A c \in ancestors[d] : a \in ancestors[c] => c \in X
      <4>1. SUFFICES ASSUME NEW a \in X, NEW d \in X, NEW c \in ancestors[d], a \in ancestors[c]
                     PROVE  c \in X
        OBVIOUS
      <4>2. c \in csets /\ c \in Changesets
        BY <2>2
      <4>3. ancestors[a] \subseteq ancestors[c]
        BY <2>2, <4>1, <4>2, Ancestry
      <4>4. ancestors[a] \cap above # {}
        BY DEF DescendantsOf
      <4> QED
        BY <4>2, <4>3, <4>4 DEF DescendantsOf
    <3> QED
      BY <2>2, <2>8, <3>1, RootsAreIncomparable
  <2>9. ASSUME NEW r \in RootsOf(X)
        PROVE  r \in csets /\ (\E a \in above : a \in ancestors[r] /\ a <= r)
    <3>1. r \in X
      BY DEF RootsOf
    <3>2. PICK a \in above : a \in ancestors[r]
      BY <3>1 DEF DescendantsOf
    <3>3. a <= r
      BY <2>2, <3>1, <3>2, Ancestry
    <3> QED
      BY <3>1, <3>2, <3>3
  <2>10. ASSUME NEW c \in current \ above, NEW r \in RootsOf(X)
         PROVE  r \notin ancestors[c] /\ c \notin ancestors[r]
    <3>1. PICK a \in above : a \in ancestors[r] /\ a <= r
      BY <2>9
    <3>2. r \in csets /\ r \in Changesets /\ c \in Changesets /\ a \in csets /\ a \in Changesets
      BY <2>2, <2>6, <2>9
    <3>3. Least(new) <= r /\ c < Least(new)
      BY <2>3, <2>4, <2>5, <2>6, <3>1, <3>2
    <3>4. r \notin ancestors[c]
      <4>1. r \in ancestors[c] => r <= c
        BY <2>2, <3>2, Ancestry
      <4> QED
        BY <2>3, <2>4, <3>2, <3>3, <4>1
    <3>5. a = r
      <4>1. a \in ancestors[a]
        BY <2>2, <3>2 DEF IsOrder
      <4>2. a \in X
        BY <3>2, <4>1 DEF DescendantsOf
      <4>3. PICK q \in RootsOf(X) : q \in ancestors[a]
        BY <2>2, <4>2, RootsCover
      <4>4. ancestors[a] \subseteq ancestors[r]
        BY <2>2, <3>1, <3>2, Ancestry
      <4>5. q = r
        BY <2>8, <4>3, <4>4
      <4> QED
        BY <2>2, <3>1, <3>2, <4>3, <4>5, AncestryIsAntisymmetric
    <3>6. r \in roots[t] \/ r \in new
      BY <2>6, <3>5
    <3>7. c \in roots[t] /\ c # r
      BY <2>3, <2>4, <2>5, <3>2, <3>3
    <3>8. ASSUME c \in ancestors[r], r \in roots[t]
          PROVE  FALSE
      BY <2>7, <3>7, <3>8 DEF Antichain
    <3>9. ASSUME c \in ancestors[r], r \in new
          PROVE  FALSE
      <4>1. t <= PhaseOf(roots, r)
        BY <1>2, <3>7, <3>9, PhaseIsHighest
      <4>2. PhaseOf(roots, r) < t /\ PhaseOf(roots, r) \in Phase
        BY <3>9, PhaseIsHighest DEF Lower
      <4> QED
        BY <4>1, <4>2, PhaseAssumption DEF Phase
    <3> QED
      BY <3>4, <3>6, <3>8, <3>9
  <2>11. \A c \in current \ above : \A d \in current \ above : c \in ancestors[d] => c = d
    BY <2>5, <2>7 DEF Antichain
  <2> HIDE DEF X, current
  <2> QED
    BY <2>1, <2>8, <2>10, <2>11 DEF Antichain
<1>3. ASSUME new = {}
      PROVE  now = roots
  BY <1>3 DEF RetractRoots, Lower
<1> HIDE DEF now, new
<1>4. \A p \in Tracked : Antichain(now[p])
  BY <1>1, <1>2, <1>3 DEF Minimal
<1> QED
  BY <1>4 DEF Minimal, now

-----------------------------------------------------------------------------
(* advanceboundary() *)

\* What stays in a phase above t, and the roots that follow from it.
Staying(csets, roots, p, S) ==
    (csets \cap DescendantsOf(roots[p])) \ AdvanceAffected(roots, p, S)

Left(csets, roots, t, S) ==
    [p \in Tracked |-> IF p <= t THEN roots[p] ELSE RootsOf(Staying(csets, roots, p, S))]

Dropped(csets, roots, t, S) ==
    UNION {roots[p] \ Left(csets, roots, t, S)[p] : p \in Tracked \ 1..t}

\* advanceboundary() in these terms.
LEMMA AdvanceIs ==
    ASSUME NEW csets, NEW roots, NEW t, NEW S
    PROVE  AdvanceRoots(csets, roots, t, S) =
              IF t = 0 THEN Left(csets, roots, t, S)
              ELSE RetractRoots(csets, Left(csets, roots, t, S), t, Dropped(csets, roots, t, S))
BY DEF AdvanceRoots, Left, Dropped, Staying

\* The loop need not look at the changesets that are in a lower phase: no root of p
\* is below them.
LEMMA StayingIs ==
    ASSUME NEW csets, NEW roots, Rooted(csets, roots), NEW S \in SUBSET csets,
           NEW p \in Tracked
    PROVE  Staying(csets, roots, p, S) = (csets \cap DescendantsOf(roots[p])) \ AncestorsOf(S)
<1> DEFINE reached == {s \in S : PhaseOf(roots, s) >= p}
<1>1. IsOrder /\ csets \subseteq Changesets /\ roots[p] \subseteq csets
  BY DEF Rooted
<1>2. AdvanceAffected(roots, p, S) = DescendantsOf(roots[p]) \cap AncestorsOf(reached)
  BY DEF AdvanceAffected, Between
<1>3. AncestorsOf(reached) \subseteq AncestorsOf(S)
  BY DEF AncestorsOf
<1>4. ASSUME NEW c \in csets, c \in DescendantsOf(roots[p]), c \in AncestorsOf(S)
      PROVE  c \in AncestorsOf(reached)
  <2>1. PICK s \in S : c \in ancestors[s]
    BY <1>4 DEF AncestorsOf
  <2>2. ancestors[c] \subseteq ancestors[s]
    BY <1>1, <2>1, Ancestry
  <2>3. ancestors[s] \cap roots[p] # {}
    BY <1>4, <2>2 DEF DescendantsOf
  <2>4. p <= PhaseOf(roots, s) /\ PhaseOf(roots, s) \in Phase
    BY <2>3, PhaseIsHighest
  <2>5. PhaseOf(roots, s) >= p
    BY <2>4, PhaseAssumption DEF Phase, Tracked
  <2> QED
    BY <2>1, <2>5 DEF AncestorsOf
<1> HIDE DEF reached
<1> QED
  BY <1>1, <1>2, <1>3, <1>4 DEF Staying

\* What the roots that are left span: a changeset leaves all phases above t if it is
\* an ancestor of one of S, and no phase otherwise.
LEMMA LeftRoots ==
    ASSUME NEW csets, NEW roots, Rooted(csets, roots), NEW t \in Phase, NEW S \in SUBSET csets
    PROVE  /\ Rooted(csets, Left(csets, roots, t, S))
           /\ \A p \in Tracked : \A c \in csets :
                 ancestors[c] \cap Left(csets, roots, t, S)[p] # {} <=>
                     ancestors[c] \cap roots[p] # {} /\ (p <= t \/ c \notin AncestorsOf(S))
<1>1. IsOrder /\ csets \in SUBSET Changesets /\ \A c \in csets : ancestors[c] \subseteq csets
  BY DEF Rooted, IsClosed, AncestorsOf
<1>2. ASSUME NEW p \in Tracked
      PROVE  Left(csets, roots, t, S)[p] \subseteq csets
  BY <1>2 DEF Left, RootsOf, Staying, Rooted
<1>3. ASSUME NEW p \in Tracked, NEW c \in csets
      PROVE  ancestors[c] \cap Left(csets, roots, t, S)[p] # {} <=>
                ancestors[c] \cap roots[p] # {} /\ (p <= t \/ c \notin AncestorsOf(S))
  <2>1. CASE p <= t
    BY <2>1 DEF Left
  <2>2. CASE ~(p <= t)
    <3> DEFINE X == (csets \cap DescendantsOf(roots[p])) \ AncestorsOf(S)
    <3>1. Left(csets, roots, t, S)[p] = RootsOf(X) /\ X \in SUBSET Changesets
      <4>1. Left(csets, roots, t, S)[p] = RootsOf(Staying(csets, roots, p, S))
        BY <2>2 DEF Left
      <4>2. Staying(csets, roots, p, S) = X
        BY StayingIs
      <4> QED
        BY <1>1, <4>1, <4>2
    <3>2. ancestors[c] \cap RootsOf(X) # {} <=> c \in DescendantsOf(RootsOf(X))
      BY <1>1 DEF DescendantsOf
    <3>3. DescendantsOf(RootsOf(X)) = DescendantsOf(X)
      <4> HIDE DEF X
      <4> QED
        BY <1>1, <3>1, RootsSpan
    <3>4. c \in DescendantsOf(X) => ancestors[c] \cap roots[p] # {} /\ c \notin AncestorsOf(S)
      <4>1. SUFFICES ASSUME c \in DescendantsOf(X)
                     PROVE  ancestors[c] \cap roots[p] # {} /\ c \notin AncestorsOf(S)
        OBVIOUS
      <4>2. PICK x \in ancestors[c] : x \in X
        BY <4>1 DEF DescendantsOf
      <4>3. ancestors[x] \subseteq ancestors[c]
        BY <1>1, Ancestry
      <4>4. ancestors[x] \cap roots[p] # {}
        BY <4>2 DEF DescendantsOf
      <4>5. ASSUME c \in AncestorsOf(S)
            PROVE  FALSE
        <5>1. PICK s \in S : c \in ancestors[s]
          BY <4>5 DEF AncestorsOf
        <5>2. ancestors[c] \subseteq ancestors[s]
          BY <1>1, <5>1, Ancestry
        <5>3. x \in AncestorsOf(S)
          BY <5>1, <5>2 DEF AncestorsOf
        <5> QED
          BY <4>2, <5>3
      <4> QED
        BY <4>3, <4>4, <4>5
    <3>5. ancestors[c] \cap roots[p] # {} /\ c \notin AncestorsOf(S) => c \in DescendantsOf(X)
      <4>1. c \in ancestors[c] /\ c \in Changesets
        BY <1>1 DEF IsOrder
      <4>2. ancestors[c] \cap roots[p] # {} => c \in DescendantsOf(roots[p])
        BY <4>1 DEF DescendantsOf
      <4> QED
        BY <4>1, <4>2 DEF DescendantsOf
    <3> HIDE DEF X
    <3> QED
      BY <2>2, <3>1, <3>2, <3>3, <3>4, <3>5
  <2> QED
    BY <2>1, <2>2
<1>4. Left(csets, roots, t, S) \in [Tracked -> SUBSET csets]
  <2>1. Left(csets, roots, t, S) =
           [p \in Tracked |-> Left(csets, roots, t, S)[p]]
    BY DEF Left
  <2> QED
    BY <1>2, <2>1
<1> QED
  BY <1>3, <1>4 DEF Rooted

\* The roots that are dropped are below what leaves a phase, and below nothing that
\* was in t or a lower phase.
LEMMA DroppedRoots ==
    ASSUME NEW csets, NEW roots, Rooted(csets, roots), NEW t \in Phase, NEW S \in SUBSET csets
    PROVE  /\ Dropped(csets, roots, t, S) \in SUBSET csets
           /\ \A c \in csets : c \in DescendantsOf(Dropped(csets, roots, t, S)) =>
                 \E p \in Tracked : p > t /\ ancestors[c] \cap roots[p] # {}
           /\ \A c \in csets : \A p \in Tracked :
                 c \in AncestorsOf(S) /\ p > t /\ ancestors[c] \cap roots[p] # {} =>
                     c \in DescendantsOf(Dropped(csets, roots, t, S))
<1> DEFINE left == Left(csets, roots, t, S)
           dropped == Dropped(csets, roots, t, S)
<1>1. \A p \in Tracked : p \in Int /\ 1 <= p
  BY PhaseAssumption DEF Tracked
<1>2. t \in Int
  BY PhaseAssumption DEF Phase
<1>3. \A p \in Tracked : p \notin 1..t <=> p > t
  BY <1>1, <1>2
<1>4. dropped = UNION {roots[p] \ left[p] : p \in Tracked \ 1..t}
  BY DEF Dropped
<1> HIDE DEF dropped, left
<1>5. \A d : d \in dropped <=> \E p \in Tracked : p > t /\ d \in roots[p] /\ d \notin left[p]
  <2>1. \A d : d \in dropped <=> \E p \in Tracked \ 1..t : d \in roots[p] /\ d \notin left[p]
    <3>1. ASSUME NEW d
          PROVE  d \in dropped <=> \E p \in Tracked \ 1..t : d \in roots[p] \ left[p]
      BY <1>4
    <3> QED
      BY <3>1
  <2> QED
    BY <1>3, <2>1, Zenon
<1>6. dropped \in SUBSET csets
  BY <1>5 DEF Rooted
<1>7. \A c \in csets : c \in DescendantsOf(dropped) =>
         \E p \in Tracked : p > t /\ ancestors[c] \cap roots[p] # {}
  BY <1>5 DEF DescendantsOf
<1>8. ASSUME NEW c \in csets, NEW p \in Tracked, c \in AncestorsOf(S), p > t,
             ancestors[c] \cap roots[p] # {}
      PROVE  c \in DescendantsOf(dropped)
  <2>1. PICK d \in roots[p] : d \in ancestors[c]
    BY <1>8
  <2>2. d \in csets /\ d \in ancestors[d] /\ c \in Changesets
    BY DEF Rooted, IsOrder
  <2>3. d \in AncestorsOf(S)
    <3>1. PICK s \in S : c \in ancestors[s]
      BY <1>8 DEF AncestorsOf
    <3>2. ancestors[c] \subseteq ancestors[s]
      BY <3>1, Ancestry DEF Rooted
    <3> QED
      BY <2>1, <3>1, <3>2 DEF AncestorsOf
  <2>4. d \notin left[p]
    <3>1. ~(p <= t)
      BY <1>1, <1>2, <1>8
    <3>2. ancestors[d] \cap left[p] = {}
      BY <2>2, <2>3, <3>1, LeftRoots DEF left
    <3> QED
      BY <2>2, <3>2
  <2> QED
    BY <1>5, <1>8, <2>1, <2>2, <2>4 DEF DescendantsOf
<1> QED
  BY <1>6, <1>7, <1>8 DEF dropped

\* The ancestors of S are in t or a lower phase, and nothing else is moved.
LEMMA AdvancedPhases ==
    ASSUME NEW csets, NEW roots, Rooted(csets, roots), NEW t \in Phase, NEW S \in SUBSET csets,
           NEW c \in csets
    PROVE  PhaseOf(AdvanceRoots(csets, roots, t, S), c) =
              IF c \in AncestorsOf(S) THEN Smaller(PhaseOf(roots, c), t) ELSE PhaseOf(roots, c)
<1> DEFINE q == PhaseOf(roots, c)
           left == Left(csets, roots, t, S)
           dropped == Dropped(csets, roots, t, S)
           now == AdvanceRoots(csets, roots, t, S)
<1>1. /\ q \in Phase
      /\ \A p \in Tracked : ancestors[c] \cap roots[p] # {} => p <= q
      /\ q # 0 => q \in Tracked /\ ancestors[c] \cap roots[q] # {}
  BY PhaseIsHighest
<1>2. /\ \A p \in Phase : p \in Int /\ 0 <= p
      /\ \A p \in Tracked : p \in Int /\ 1 <= p /\ p \in Phase
  BY PhaseAssumption DEF Phase, Tracked
<1>3. /\ Rooted(csets, left)
      /\ \A p \in Tracked : ancestors[c] \cap left[p] # {} <=>
            ancestors[c] \cap roots[p] # {} /\ (p <= t \/ c \notin AncestorsOf(S))
  BY LeftRoots
<1>4. /\ dropped \in SUBSET csets
      /\ c \in DescendantsOf(dropped) =>
            \E p \in Tracked : p > t /\ ancestors[c] \cap roots[p] # {}
      /\ \A p \in Tracked :
            c \in AncestorsOf(S) /\ p > t /\ ancestors[c] \cap roots[p] # {} =>
                c \in DescendantsOf(dropped)
  BY DroppedRoots
<1>5. PhaseOf(now, c) = IF t = 0 \/ c \notin DescendantsOf(dropped) THEN PhaseOf(left, c)
                        ELSE Larger(PhaseOf(left, c), t)
  BY <1>3, <1>4, AdvanceIs, RetractedPhases
<1>6. PhaseOf(left, c) \in Phase
  BY PhaseIsHighest
<1> HIDE DEF q, left, dropped, now
<1>7. CASE c \notin AncestorsOf(S)
  <2>1. PhaseOf(left, c) = q
    BY <1>1, <1>3, <1>7, PhaseIs
  <2>2. c \in DescendantsOf(dropped) => Larger(q, t) = q
    <3>1. c \in DescendantsOf(dropped) => t < q
      BY <1>1, <1>2, <1>4
    <3> QED
      BY <1>1, <1>2, <3>1 DEF Larger
  <2> QED
    BY <1>5, <1>7, <2>1, <2>2 DEF q, now
<1>8. CASE c \in AncestorsOf(S) /\ q <= t
  <2>1. PhaseOf(left, c) = q
    <3>1. q # 0 => ancestors[c] \cap left[q] # {}
      BY <1>1, <1>3, <1>8
    <3>2. \A p \in Tracked : ancestors[c] \cap left[p] # {} => p <= q
      BY <1>1, <1>3
    <3> QED
      BY <1>1, <3>1, <3>2, PhaseIs
  <2>2. c \notin DescendantsOf(dropped)
    BY <1>1, <1>2, <1>4, <1>8
  <2>3. Smaller(q, t) = q
    BY <1>1, <1>2, <1>8 DEF Smaller
  <2> QED
    BY <1>5, <1>8, <2>1, <2>2, <2>3 DEF q, now
<1>9. CASE c \in AncestorsOf(S) /\ q > t
  <2>1. c \in DescendantsOf(dropped)
    BY <1>1, <1>2, <1>4, <1>9
  <2>2. PhaseOf(left, c) <= t
    <3>1. PhaseOf(left, c) # 0 =>
             PhaseOf(left, c) \in Tracked /\ ancestors[c] \cap left[PhaseOf(left, c)] # {}
      BY PhaseIsHighest
    <3> QED
      BY <1>2, <1>3, <1>6, <1>9, <3>1
  <2>3. Smaller(q, t) = t
    BY <1>1, <1>2, <1>9 DEF Smaller
  <2>4. PhaseOf(now, c) = t
    <3>1. CASE t = 0
      <4>1. PhaseOf(now, c) = PhaseOf(left, c)
        BY <1>5, <3>1
      <4>2. PhaseOf(left, c) \in Int /\ 0 <= PhaseOf(left, c)
        BY <1>2, <1>6
      <4> QED
        BY <2>2, <3>1, <4>1, <4>2
    <3>2. CASE t # 0
      <4>1. PhaseOf(now, c) = Larger(PhaseOf(left, c), t)
        BY <1>5, <2>1, <3>2
      <4>2. ~(PhaseOf(left, c) > t) \/ PhaseOf(left, c) = t
        BY <1>2, <1>6, <2>2
      <4> QED
        BY <4>1, <4>2 DEF Larger
    <3> QED
      BY <3>1, <3>2
  <2> QED
    BY <1>9, <2>3, <2>4 DEF q, now
<1> QED
  BY <1>1, <1>2, <1>7, <1>8, <1>9

\* Between two changesets that stay in a phase all stay in it, so the roots that are
\* left do not descend from one another.
LEMMA AdvancedMinimal ==
    ASSUME NEW csets, NEW roots, Rooted(csets, roots), Minimal(roots),
           NEW t \in Phase, NEW S \in SUBSET csets
    PROVE  /\ AdvanceRoots(csets, roots, t, S) \in [Tracked -> SUBSET csets]
           /\ Minimal(AdvanceRoots(csets, roots, t, S))
<1> DEFINE left == Left(csets, roots, t, S)
<1>1. Rooted(csets, left)
  BY LeftRoots
<1>2. ASSUME NEW p \in Tracked
      PROVE  Antichain(left[p])
  <2>1. CASE p <= t
    BY <2>1 DEF Left, Minimal
  <2>2. CASE ~(p <= t)
    <3> DEFINE X == Staying(csets, roots, p, S)
    <3>1. left[p] = RootsOf(X)
      BY <2>2 DEF Left
    <3>2. X = (csets \cap DescendantsOf(roots[p])) \ AncestorsOf(S)
      BY StayingIs
    <3>3. IsOrder /\ X \in SUBSET Changesets /\ csets \subseteq Changesets
          /\ \A c \in csets : ancestors[c] \subseteq csets
      BY <3>2 DEF Rooted, IsClosed, AncestorsOf
    <3> HIDE DEF X
    <3>4. ASSUME NEW a \in X, NEW d \in X, NEW c \in ancestors[d], a \in ancestors[c]
          PROVE  c \in X
      <4>1. c \in csets /\ c \in Changesets
        BY <3>2, <3>3
      <4>2. ancestors[a] \subseteq ancestors[c]
        BY <3>3, <3>4, <4>1, Ancestry
      <4>3. c \in DescendantsOf(roots[p])
        BY <3>2, <4>1, <4>2 DEF DescendantsOf
      <4>4. c \notin AncestorsOf(S)
        <5>1. SUFFICES ASSUME c \in AncestorsOf(S) PROVE FALSE
          OBVIOUS
        <5>2. PICK s \in S : c \in ancestors[s]
          BY <5>1 DEF AncestorsOf
        <5>3. ancestors[c] \subseteq ancestors[s]
          BY <3>3, <5>2, Ancestry
        <5> QED
          BY <3>2, <3>4, <5>2, <5>3 DEF AncestorsOf
      <4> QED
        BY <3>2, <4>1, <4>3, <4>4
    <3>5. \A r \in RootsOf(X) : \A q \in RootsOf(X) : r \in ancestors[q] => r = q
      BY <3>3, <3>4, RootsAreIncomparable
    <3> QED
      BY <3>1, <3>5 DEF Antichain
  <2> QED
    BY <2>1, <2>2
<1>3. Minimal(left)
  BY <1>2 DEF Minimal
<1>4. Dropped(csets, roots, t, S) \in SUBSET csets
  BY DroppedRoots
<1>5. left \in [Tracked -> SUBSET csets]
  BY <1>1 DEF Rooted
<1> HIDE DEF left
<1> QED
  BY <1>1, <1>3, <1>4, <1>5, AdvanceIs, RetractedMinimal, RetractedRoots DEF left

-----------------------------------------------------------------------------
(* The operations and what the user is told *)

\* The phase of a new changeset, its ancestors considered.
LEMMA NewPhases ==
    ASSUME Rooted(known, phaseroots), NEW t \in Phase,
           NEW new \in SUBSET (Changesets \ known), IsClosed(known \cup new)
    PROVE  /\ Rooted(known \cup new, RetractRoots(known \cup new, phaseroots, t, new))
           /\ \A c \in known :
                 PhaseOf(RetractRoots(known \cup new, phaseroots, t, new), c) = PhaseOf(phaseroots, c)
           /\ \A c \in new :
                 /\ t <= PhaseOf(RetractRoots(known \cup new, phaseroots, t, new), c)
                 /\ PhaseOf(RetractRoots(known \cup new, phaseroots, t, new), c) =
                       Greatest({t} \cup {PhaseOf(phaseroots, a) : a \in ancestors[c] \ new})
<1> DEFINE all == known \cup new
           roots == RetractRoots(all, phaseroots, t, new)
<1>1. /\ IsOrder /\ all \in SUBSET Changesets /\ known \subseteq Changesets
      /\ \A c \in known : ancestors[c] \subseteq known
      /\ \A c \in all : ancestors[c] \subseteq all
  BY DEF Rooted, IsClosed, AncestorsOf
<1>2. Rooted(all, phaseroots)
  BY <1>1 DEF Rooted
<1>3. Rooted(all, roots)
  BY <1>2, RetractedRoots DEF Rooted
<1>4. \A c \in all : PhaseOf(roots, c) =
         IF c \in DescendantsOf(new) THEN Larger(PhaseOf(phaseroots, c), t)
         ELSE PhaseOf(phaseroots, c)
  BY <1>2, RetractedPhases
<1>5. \A c \in known : PhaseOf(roots, c) = PhaseOf(phaseroots, c)
  BY <1>1, <1>4 DEF DescendantsOf
<1>6. ASSUME NEW c \in new
      PROVE  /\ t <= PhaseOf(roots, c)
             /\ PhaseOf(roots, c) =
                   Greatest({t} \cup {PhaseOf(phaseroots, a) : a \in ancestors[c] \ new})
  <2> DEFINE m == PhaseOf(phaseroots, c)
             G == {t} \cup {PhaseOf(phaseroots, a) : a \in ancestors[c] \ new}
  <2>1. c \in Changesets /\ c \in ancestors[c] /\ c \in DescendantsOf(new)
    BY <1>1 DEF IsOrder, DescendantsOf
  <2>2. PhaseOf(roots, c) = Larger(m, t)
    BY <1>4, <2>1
  <2>3. m \in Phase /\ m \in Int /\ t \in Int /\ 0 <= t /\ \A p \in Phase : p \in Int
    BY PhaseIsHighest, PhaseAssumption DEF Phase
  <2>4. G \in SUBSET Phase /\ G # {}
    BY PhaseIsHighest
  <2>5. \A a \in ancestors[c] : PhaseOf(phaseroots, a) <= m
    BY <1>1, <2>1, PhasesGrow
  <2>6. m # 0 => m \in G
    <3>1. SUFFICES ASSUME m # 0 PROVE m \in G
      OBVIOUS
    <3>2. m \in Tracked /\ ancestors[c] \cap phaseroots[m] # {}
      BY <3>1, PhaseIsHighest
    <3>3. PICK r \in ancestors[c] : r \in phaseroots[m]
      BY <3>2
    <3>4. r \in known /\ r \notin new /\ r \in ancestors[r]
      BY <1>1, <3>2, <3>3 DEF Rooted, IsOrder
    <3>5. m <= PhaseOf(phaseroots, r) /\ PhaseOf(phaseroots, r) \in Phase
      BY <3>2, <3>3, <3>4, PhaseIsHighest
    <3>6. m = PhaseOf(phaseroots, r)
      <4>1. PhaseOf(phaseroots, r) \in Int /\ PhaseOf(phaseroots, r) <= m
        BY <2>3, <2>5, <3>3, <3>5
      <4> HIDE DEF m
      <4> QED
        BY <2>3, <3>5, <4>1
    <3> QED
      BY <3>3, <3>4, <3>6
  <2>7. \A g \in G : g = t \/ g <= m
    BY <2>5
  <2> HIDE DEF m, G
  <2>8. Greatest(G) \in G /\ \A g \in G : g <= Greatest(G)
    BY <2>4, GreatestPhase
  <2>9. t \in G
    BY DEF G
  <2>10. Greatest(G) \in Int
    BY <2>3, <2>4, <2>8
  <2>11. Greatest(G) = Larger(m, t) /\ t <= Larger(m, t)
    <3>1. CASE m > t
      <4>1. m \in G /\ Larger(m, t) = m
        BY <2>3, <2>6, <3>1 DEF Larger
      <4> QED
        BY <2>3, <2>7, <2>8, <2>10, <3>1, <4>1
    <3>2. CASE ~(m > t)
      <4>1. Larger(m, t) = t
        BY <3>2 DEF Larger
      <4> QED
        BY <2>3, <2>7, <2>8, <2>9, <2>10, <3>2, <4>1
    <3> QED
      BY <3>1, <3>2
  <2> QED
    BY <2>2, <2>11 DEF G
<1> QED
  BY <1>3, <1>5, <1>6

\* The operations on any roots of the repository do what is asked for.
LEMMA RootedMovesAsAsked ==
    ASSUME Rooted(known, phaseroots)
    PROVE  MovesAsAsked
<1> DEFINE now == PhasesOf(known, phaseroots)
<1>1. DOMAIN now = known /\ \A c \in known : now[c] = PhaseOf(phaseroots, c)
  BY DEF PhasesOf
<1> HIDE DEF now
<1>2. ASSUME NEW t \in Phase, NEW S \in SUBSET known
      PROVE  /\ PhasesOf(known, AdvanceRoots(known, phaseroots, t, S)) = Advanced(now, t, S)
             /\ PhasesOf(known, RetractRoots(known, phaseroots, t, S)) = Retracted(now, t, S)
  <2>1. \A c \in known : PhaseOf(AdvanceRoots(known, phaseroots, t, S), c) =
           IF c \in AncestorsOf(S) THEN Smaller(now[c], t) ELSE now[c]
    BY <1>1, AdvancedPhases
  <2>2. \A c \in known : PhaseOf(RetractRoots(known, phaseroots, t, S), c) =
           IF c \in DescendantsOf(S) THEN Larger(now[c], t) ELSE now[c]
    BY <1>1, RetractedPhases
  <2>3. PhasesOf(known, AdvanceRoots(known, phaseroots, t, S)) = Advanced(now, t, S)
    BY <1>1, <2>1 DEF PhasesOf, Advanced
  <2>4. PhasesOf(known, RetractRoots(known, phaseroots, t, S)) = Retracted(now, t, S)
    BY <1>1, <2>2 DEF PhasesOf, Retracted
  <2> QED
    BY <2>3, <2>4
<1>3. ASSUME NEW t \in Phase, NEW new \in SUBSET (Changesets \ known), IsClosed(known \cup new)
      PROVE  /\ PhasesOf(known \cup new, RetractRoots(known \cup new, phaseroots, t, new))
                   = Added(now, t, new)
             /\ \A S \in SUBSET known :
                   PhasesOf(known \cup new,
                            AdvanceRoots(known \cup new,
                                         RetractRoots(known \cup new, phaseroots, t, new),
                                         t, new \cup S))
                       = Received(now, t, new, S)
  <2> DEFINE all == known \cup new
             roots == RetractRoots(all, phaseroots, t, new)
  <2>1. /\ Rooted(all, roots)
        /\ \A c \in known : PhaseOf(roots, c) = now[c]
        /\ \A c \in new :
              /\ t <= PhaseOf(roots, c)
              /\ PhaseOf(roots, c) =
                    Greatest({t} \cup {PhaseOf(phaseroots, a) : a \in ancestors[c] \ new})
    BY <1>1, <1>3, NewPhases
  <2> HIDE DEF roots
  <2>2. PhasesOf(all, roots) = Added(now, t, new)
    <3>1. ASSUME NEW c \in new
          PROVE  {PhaseOf(phaseroots, a) : a \in ancestors[c] \ new} =
                    {now[a] : a \in ancestors[c] \ new}
      <4>1. ancestors[c] \ new \subseteq known
        BY <1>3 DEF IsClosed, AncestorsOf
      <4> QED
        BY <1>1, <4>1
    <3>2. \A c \in all : PhaseOf(roots, c) =
             IF c \in known THEN now[c]
             ELSE Greatest({t} \cup {now[a] : a \in ancestors[c] \ new})
      BY <2>1, <3>1
    <3> QED
      BY <1>1, <3>2 DEF PhasesOf, Added
  <2>3. ASSUME NEW S \in SUBSET known
        PROVE  PhasesOf(all, AdvanceRoots(all, roots, t, new \cup S)) = Received(now, t, new, S)
    <3>1. \A c \in all : PhaseOf(AdvanceRoots(all, roots, t, new \cup S), c) =
             IF c \in AncestorsOf(new \cup S) THEN Smaller(PhaseOf(roots, c), t)
             ELSE PhaseOf(roots, c)
      BY <2>1, AdvancedPhases
    <3>2. new \cup S = S \cup new
      OBVIOUS
    <3>3. \A c \in new : c \in AncestorsOf(new \cup S) /\ c \notin known
      BY <2>1 DEF AncestorsOf, Rooted, IsOrder
    <3>4. \A c \in new : Smaller(PhaseOf(roots, c), t) = t
      <4>1. ASSUME NEW c \in new
            PROVE  Smaller(PhaseOf(roots, c), t) = t
        <5>1. PhaseOf(roots, c) \in Int /\ t \in Int /\ t <= PhaseOf(roots, c)
          <6>1. PhaseOf(roots, c) \in Phase /\ t <= PhaseOf(roots, c)
            BY <2>1, PhaseIsHighest
          <6> QED
            BY <6>1, PhaseAssumption DEF Phase
        <5> QED
          BY <5>1 DEF Smaller
      <4> QED
        BY <4>1
    <3>5. \A c \in all : PhaseOf(AdvanceRoots(all, roots, t, new \cup S), c) =
             IF c \in new THEN t
             ELSE IF c \in AncestorsOf(S \cup new) THEN Smaller(now[c], t) ELSE now[c]
      BY <2>1, <3>1, <3>2, <3>3, <3>4
    <3> QED
      BY <1>1, <3>5 DEF PhasesOf, Received
  <2> QED
    BY <2>2, <2>3 DEF roots
<1> QED
  BY <1>2, <1>3 DEF MovesAsAsked, now

-----------------------------------------------------------------------------
(* tr.changes *)

\* The moves that are noted.
Noted(csets, ch) == DOMAIN ch \subseteq csets /\ \A c \in DOMAIN ch : ch[c] \in Movements

\* _trackphasechange() for some changesets.
LEMMA TrackNotes ==
    ASSUME NEW csets, NEW ch, Noted(csets, ch), NEW moved, NEW old, NEW new,
           DOMAIN moved \subseteq csets,
           \A c \in DOMAIN moved : old[c] \in Phase \cup {Absent} /\ new[c] \in Phase
    PROVE  Noted(csets, Track(ch, moved, old, new))
<1> DEFINE now == Track(ch, moved, old, new)
<1>1. DOMAIN now = DOMAIN ch \cup DOMAIN moved
  BY DEF Track
<1>2. ASSUME NEW c \in DOMAIN now
      PROVE  now[c] \in Movements
  <2>1. CASE c \notin DOMAIN moved
    <3>1. now[c] = ch[c] /\ c \in DOMAIN ch
      BY <1>1, <1>2, <2>1 DEF Track
    <3> QED
      BY <3>1 DEF Noted
  <2>2. CASE c \in DOMAIN moved
    <3>1. now[c] = [old |-> IF c \in DOMAIN ch THEN ch[c].old ELSE old[c], new |-> new[c]]
      BY <1>1, <2>2 DEF Track
    <3>2. c \in DOMAIN ch => ch[c].old \in Phase \cup {Absent}
      BY DEF Noted, Movements
    <3> QED
      BY <2>2, <3>1, <3>2 DEF Movements
  <2> QED
    BY <2>1, <2>2
<1> QED
  BY <1>1, <1>2 DEF Noted

\* What the operations note.
LEMMA ChangesAreNoted ==
    ASSUME NEW csets, NEW roots, Rooted(csets, roots), NEW ch, Noted(csets, ch),
           NEW t \in Phase, NEW S \in SUBSET csets
    PROVE  /\ Noted(csets, NewChanges(ch, roots, S))
           /\ Noted(csets, AdvanceChanges(ch, roots, t, S))
           /\ Noted(csets, RetractChanges(csets, ch, roots, t, S))
<1>1. Noted(csets, NewChanges(ch, roots, S))
  <2> DEFINE phase == [c \in S |-> PhaseOf(roots, c)]
             absent == [c \in S |-> Absent]
  <2>1. DOMAIN phase = S /\ \A c \in S : absent[c] \in Phase \cup {Absent} /\ phase[c] \in Phase
    BY PhaseIsHighest
  <2>2. NewChanges(ch, roots, S) = Track(ch, phase, absent, phase)
    BY DEF NewChanges
  <2> HIDE DEF phase, absent
  <2> QED
    BY <2>1, <2>2, TrackNotes
<1>2. Noted(csets, AdvanceChanges(ch, roots, t, S))
  <2> DEFINE moved == UNION {AdvanceAffected(roots, p, S) : p \in Tracked \ 1..t}
             to == [c \in moved |-> t]
             from == [c \in moved |-> PhaseOf(roots, c)]
  <2>1. moved \subseteq csets
    <3>1. \A p : AdvanceAffected(roots, p, S) \subseteq AncestorsOf(S)
      BY DEF AdvanceAffected, Between, AncestorsOf
    <3>2. AncestorsOf(S) \subseteq csets
      BY ClosedHasAncestors DEF Rooted
    <3> QED
      BY <3>1, <3>2
  <2>2. AdvanceChanges(ch, roots, t, S) = Track(ch, to, from, to)
    BY DEF AdvanceChanges
  <2>3. DOMAIN to = moved
        /\ \A c \in moved : from[c] \in Phase \cup {Absent} /\ to[c] \in Phase
    <3> HIDE DEF moved
    <3> QED
      BY PhaseIsHighest
  <2> HIDE DEF moved, to, from
  <2> QED
    BY <2>1, <2>2, <2>3, TrackNotes
<1>3. Noted(csets, RetractChanges(csets, ch, roots, t, S))
  <2> DEFINE now == RetractRoots(csets, roots, t, S)
             affected == (csets \cap DescendantsOf(now[t])) \ DescendantsOf(roots[t])
             rest(p) == {a \in affected : \A q \in (p + 1)..t : a \notin DescendantsOf(roots[q])}
             between == [p \in 1..t |-> Between(roots[p], rest(p))]
             moved == affected \cup UNION {between[p] : p \in 1..t}
             old == [c \in moved |-> Greatest({0} \cup {p \in 1..t : c \in between[p]})]
             to == [c \in moved |-> t]
  <2>1. RetractChanges(csets, ch, roots, t, S) =
           IF t = 0 \/ now = roots THEN ch ELSE Track(ch, old, old, to)
    BY DEF RetractChanges
  <2>2. moved \subseteq csets
    <3>1. affected \subseteq csets
      OBVIOUS
    <3>2. AncestorsOf(csets) \subseteq csets
      BY DEF Rooted, IsClosed
    <3>3. \A p \in 1..t : between[p] \subseteq AncestorsOf(csets)
      BY <3>1 DEF Between, AncestorsOf
    <3> HIDE DEF affected, between
    <3> QED
      BY <3>1, <3>2, <3>3
  <2>3. \A c \in moved : old[c] \in Phase
    <3> SUFFICES ASSUME NEW c \in moved
                 PROVE  Greatest({0} \cup {p \in 1..t : c \in between[p]}) \in Phase
      OBVIOUS
    <3> DEFINE P == {0} \cup {p \in 1..t : c \in between[p]}
    <3> HIDE DEF between
    <3>1. P \in SUBSET Phase /\ P # {}
      BY PhaseAssumption DEF Phase
    <3> HIDE DEF P
    <3>2. Greatest(P) \in Phase
      BY <3>1, GreatestPhase
    <3> QED
      BY <3>2 DEF P
  <2> HIDE DEF now, between, affected
  <2>4. DOMAIN old = moved /\ \A c \in moved : to[c] \in Phase
    OBVIOUS
  <2> HIDE DEF moved, old, to
  <2>5. Noted(csets, Track(ch, old, old, to))
    BY <2>2, <2>3, <2>4, TrackNotes
  <2> QED
    BY <2>1, <2>5
<1> QED
  BY <1>1, <1>2, <1>3

-----------------------------------------------------------------------------
(* The inductive invariant *)

\* The repository, in memory and as committed, and what a strip has set aside: it
\* and what is left make the repository that the strip leaves.
Repository(csets, roots) == Rooted(csets, roots) /\ Minimal(roots)

Committed(dk) ==
    /\ dk.known \in SUBSET Changesets /\ IsClosed(dk.known)
    /\ dk.roots \in [Tracked -> SUBSET Changesets] /\ Minimal(dk.roots)

SetAside(csets, dk, mv, bn) ==
    bn # Absent =>
        /\ bn.csets \in SUBSET Changesets
        /\ bn.target \in Phase
        /\ bn.heads[0] \subseteq bn.csets /\ bn.heads[1] \subseteq bn.csets
        /\ IsClosed(dk.known \cup bn.csets)
        /\ mv = 0 => csets = dk.known

Changes(csets, ch, mv) == Noted(csets, ch) /\ (mv = 0 => DOMAIN ch = {}) /\ mv \in Nat

Inv(csets, roots, dk, ch, mv, bn) ==
    Repository(csets, roots) /\ Committed(dk) /\ SetAside(csets, dk, mv, bn)
    /\ Changes(csets, ch, mv)

PhasesIInv == Inv(known, phaseroots, disk, changes, moves, bundle)

\* The graph does not change.
LEMMA GraphStays ==
    ASSUME ancestors' = ancestors,
           Inv(known', phaseroots', disk', changes', moves', bundle')
    PROVE  PhasesIInv'
BY DEF PhasesIInv, Inv, Repository, Committed, SetAside, Changes, Noted, Rooted, Minimal,
       Antichain, IsOrder, IsClosed, AncestorsOf

\* It holds at first.
LEMMA InitInv == PhasesInit => PhasesIInv
<1> SUFFICES ASSUME PhasesInit PROVE PhasesIInv
  OBVIOUS
<1>1. /\ IsOrder /\ known \in SUBSET Changesets /\ IsClosed(known)
      /\ phaseroots \in [Tracked -> SUBSET known] /\ Minimal(phaseroots)
  BY DEF PhasesInit, IsDag, Minimal
<1>2. Repository(known, phaseroots)
  BY <1>1 DEF Repository, Rooted
<1>3. Committed(disk)
  <2>1. disk.known = known /\ disk.roots = phaseroots
    BY DEF PhasesInit
  <2> QED
    BY <1>1, <2>1 DEF Committed
<1>4. bundle = Absent /\ DOMAIN changes = {} /\ moves = 0
  BY DEF PhasesInit
<1>5. SetAside(known, disk, moves, bundle) /\ Changes(known, changes, moves)
  BY <1>4 DEF SetAside, Changes, Noted
<1> QED
  BY <1>2, <1>3, <1>5 DEF PhasesIInv, Inv

\* New roots and new notes of an operation in a transaction.
LEMMA MoveInv ==
    ASSUME PhasesIInv, Move,
           Repository(known', phaseroots'), Noted(known', changes')
    PROVE  Inv(known', phaseroots', disk', changes', moves', bundle')
<1>1. /\ Committed(disk) /\ moves \in Nat
      /\ moves' = moves + 1 /\ bundle' = Absent /\ disk' = disk
  BY DEF PhasesIInv, Inv, Changes, Move
<1>2. moves' \in Nat /\ moves' # 0
  BY <1>1
<1> QED
  BY <1>1, <1>2 DEF Inv, SetAside, Changes

\* What is known is more than it was.
LEMMA Wider ==
    ASSUME PhasesIInv, NEW new \in SUBSET Changesets, IsClosed(known \cup new)
    PROVE  Repository(known \cup new, phaseroots) /\ Noted(known \cup new, changes)
BY DEF PhasesIInv, Inv, Repository, Rooted, Changes, Noted

\* A commit or a pull.
LEMMA RegisterInv ==
    ASSUME PhasesIInv, NEW t \in Phase, NEW new \in SUBSET Changesets, Register(t, new)
    PROVE  PhasesIInv'
<1>1. /\ Move /\ IsClosed(known \cup new) /\ ancestors' = ancestors
      /\ known' = known \cup new
      /\ phaseroots' = RetractRoots(known', phaseroots, t, new)
      /\ changes' = NewChanges(changes, phaseroots', new)
  BY DEF Register
<1>2. /\ Rooted(known', phaseroots) /\ Minimal(phaseroots)
      /\ Noted(known', changes) /\ new \in SUBSET known'
  BY <1>1, Wider DEF Repository
<1>3. Rooted(known', phaseroots')
  BY <1>1, <1>2, RetractedRoots DEF Rooted
<1>4. Minimal(phaseroots')
  BY <1>1, <1>2, RetractedMinimal
<1>5. Noted(known', changes')
  BY <1>1, <1>2, <1>3, ChangesAreNoted
<1> QED
  BY <1>1, <1>3, <1>4, <1>5, MoveInv, GraphStays DEF Repository

\* A changegroup that was pushed here.
LEMMA ReceiveInv ==
    ASSUME PhasesIInv, NEW t \in {0, 1}, NEW new \in SUBSET Changesets,
           NEW dup \in SUBSET known, Receive(t, new, dup)
    PROVE  PhasesIInv'
<1> DEFINE roots == RetractRoots(known', phaseroots, t, new)
<1>1. /\ Move /\ IsClosed(known \cup new) /\ ancestors' = ancestors
      /\ known' = known \cup new
      /\ phaseroots' = AdvanceRoots(known', roots, t, new \cup dup)
      /\ changes' = AdvanceChanges(NewChanges(changes, roots, new), roots, t, new \cup dup)
  BY DEF Receive
<1>2. t \in Phase
  BY PhaseAssumption DEF Phase
<1>3. /\ Rooted(known', phaseroots) /\ Minimal(phaseroots)
      /\ Noted(known', changes) /\ new \in SUBSET known' /\ new \cup dup \in SUBSET known'
  BY <1>1, Wider DEF Repository
<1>4. Rooted(known', roots) /\ Minimal(roots)
  <2>1. roots \in [Tracked -> SUBSET known'] /\ Minimal(roots)
    BY <1>2, <1>3, RetractedRoots, RetractedMinimal
  <2> QED
    BY <1>3, <2>1 DEF Rooted
<1> HIDE DEF roots
<1>5. phaseroots' \in [Tracked -> SUBSET known'] /\ Minimal(phaseroots')
  BY <1>1, <1>2, <1>3, <1>4, AdvancedMinimal
<1>6. Rooted(known', phaseroots')
  BY <1>4, <1>5 DEF Rooted
<1>7. Noted(known', changes')
  <2>1. Noted(known', NewChanges(changes, roots, new))
    BY <1>2, <1>3, <1>4, ChangesAreNoted
  <2> QED
    BY <1>1, <1>2, <1>3, <1>4, <2>1, ChangesAreNoted
<1> QED
  BY <1>1, <1>5, <1>6, <1>7, MoveInv, GraphStays DEF Repository

\* advanceboundary().
LEMMA AdvanceInv ==
    ASSUME PhasesIInv, NEW t \in Phase, NEW S \in SUBSET known, Advance(t, S)
    PROVE  PhasesIInv'
<1>1. /\ Move /\ ancestors' = ancestors /\ known' = known
      /\ phaseroots' = AdvanceRoots(known, phaseroots, t, S)
      /\ changes' = AdvanceChanges(changes, phaseroots, t, S)
  BY DEF Advance
<1>2. Rooted(known, phaseroots) /\ Minimal(phaseroots) /\ Noted(known, changes)
  BY DEF PhasesIInv, Inv, Repository, Changes
<1>3. phaseroots' \in [Tracked -> SUBSET known] /\ Minimal(phaseroots')
  BY <1>1, <1>2, AdvancedMinimal
<1>4. Noted(known', changes')
  BY <1>1, <1>2, ChangesAreNoted
<1>5. Repository(known', phaseroots')
  BY <1>1, <1>2, <1>3 DEF Repository, Rooted
<1> QED
  BY <1>1, <1>4, <1>5, MoveInv, GraphStays

\* retractboundary().
LEMMA RetractInv ==
    ASSUME PhasesIInv, NEW t \in Phase, NEW S \in SUBSET known, Retract(t, S)
    PROVE  PhasesIInv'
<1>1. /\ Move /\ ancestors' = ancestors /\ known' = known
      /\ phaseroots' = RetractRoots(known, phaseroots, t, S)
      /\ changes' = RetractChanges(known, changes, phaseroots, t, S)
  BY DEF Retract
<1>2. Rooted(known, phaseroots) /\ Minimal(phaseroots) /\ Noted(known, changes)
  BY DEF PhasesIInv, Inv, Repository, Changes
<1>3. phaseroots' \in [Tracked -> SUBSET known] /\ Minimal(phaseroots')
  BY <1>1, <1>2, RetractedRoots, RetractedMinimal
<1>4. Noted(known', changes')
  BY <1>1, <1>2, ChangesAreNoted
<1>5. Repository(known', phaseroots')
  BY <1>1, <1>2, <1>3 DEF Repository, Rooted
<1> QED
  BY <1>1, <1>4, <1>5, MoveInv, GraphStays

\* The end of a transaction.
LEMMA CommitInv ==
    ASSUME PhasesIInv, Commit
    PROVE  PhasesIInv'
<1>1. /\ ancestors' = ancestors /\ known' = known /\ phaseroots' = phaseroots
      /\ disk' = [known |-> known, roots |-> phaseroots]
      /\ moves' = 0 /\ changes' = <<>> /\ bundle' = Absent
  BY DEF Commit
<1>2. Repository(known, phaseroots)
  BY DEF PhasesIInv, Inv
<1>3. Committed(disk')
  <2>1. disk'.known = known /\ disk'.roots = phaseroots
    BY <1>1
  <2> QED
    BY <1>2, <2>1 DEF Committed, Repository, Rooted
<1>4. SetAside(known', disk', moves', bundle') /\ Changes(known', changes', moves')
  BY <1>1 DEF SetAside, Changes, Noted
<1>5. Inv(known', phaseroots', disk', changes', moves', bundle')
  BY <1>1, <1>2, <1>3, <1>4 DEF Inv
<1> QED
  BY <1>1, <1>5, GraphStays

\* filterunknown() leaves roots that are known.
LEMMA FilteredRoots ==
    ASSUME NEW roots, NEW csets, Minimal(roots)
    PROVE  Filtered(roots, csets) \in [Tracked -> SUBSET csets] /\ Minimal(Filtered(roots, csets))
BY DEF Filtered, Minimal, Antichain

\* A roll back.
LEMMA AbortInv ==
    ASSUME PhasesIInv, Abort
    PROVE  PhasesIInv'
<1>1. /\ ancestors' = ancestors /\ known' = disk.known
      /\ phaseroots' = Filtered(disk.roots, disk.known)
      /\ moves' = 0 /\ changes' = <<>> /\ disk' = disk /\ bundle' = bundle
  BY DEF Abort
<1>2. Committed(disk) /\ IsOrder /\ SetAside(known, disk, moves, bundle)
  BY DEF PhasesIInv, Inv, Repository, Rooted
<1>3. phaseroots' \in [Tracked -> SUBSET known'] /\ Minimal(phaseroots')
  BY <1>1, <1>2, FilteredRoots DEF Committed
<1>4. Repository(known', phaseroots')
  BY <1>1, <1>2, <1>3 DEF Repository, Rooted, Committed
<1>5. SetAside(known', disk', moves', bundle') /\ Changes(known', changes', moves')
  BY <1>1, <1>2 DEF SetAside, Changes, Noted
<1>6. Inv(known', phaseroots', disk', changes', moves', bundle')
  BY <1>1, <1>2, <1>4, <1>5 DEF Inv
<1> QED
  BY <1>1, <1>6, GraphStays

\* What repair.strip() leaves, and what it sets aside.
LEMMA StripInv ==
    ASSUME PhasesIInv, NEW S \in SUBSET known, S # {}, StripFrom(S)
    PROVE  PhasesIInv'
<1> DEFINE gone == known \cap DescendantsOf(S)
           later == {c \in known \ gone : c >= Least(gone)}
<1>1. /\ moves = 0 /\ ancestors' = ancestors /\ changes' = changes /\ moves' = moves
      /\ known' = known \ (gone \cup later)
      /\ phaseroots' = Filtered(phaseroots, known')
      /\ bundle' = IF later = {} THEN Absent ELSE Saved(later)
      /\ disk' = [known |-> known', roots |-> IF later = {} THEN phaseroots' ELSE disk.roots]
  BY DEF StripFrom
<1>2. /\ Rooted(known, phaseroots) /\ Minimal(phaseroots) /\ Committed(disk)
      /\ IsOrder /\ known \in SUBSET Changesets /\ \A c \in known : ancestors[c] \subseteq known
      /\ Changes(known, changes, moves)
  BY DEF PhasesIInv, Inv, Repository, Rooted, IsClosed, AncestorsOf
<1>3. gone \in SUBSET Changesets /\ gone # {}
  BY <1>2 DEF DescendantsOf, IsOrder
<1>4. \A c \in known \ gone : ancestors[c] \subseteq known \ gone
  <2>1. SUFFICES ASSUME NEW c \in known \ gone, NEW a \in ancestors[c]
                 PROVE  a \in known \ gone
    OBVIOUS
  <2>2. a \in known /\ c \in Changesets /\ ancestors[a] \subseteq ancestors[c]
    BY <1>2, Ancestry
  <2> QED
    BY <2>2 DEF DescendantsOf
<1> HIDE DEF gone
<1>5. Least(gone) \in Changesets /\ \A c \in Changesets : c \in Int
  <2>1. Least(gone) \in Changesets
    BY <1>3, LeastChangeset
  <2>2. \A c \in Changesets : c \in Int
    BY DagAssumption DEF Changesets
  <2> QED
    BY <2>1, <2>2
<1>6. known' = {c \in known \ gone : ~(c >= Least(gone))}
  BY <1>1
<1>7. \A c \in known' : ancestors[c] \subseteq known'
  <2>1. SUFFICES ASSUME NEW c \in known', NEW a \in ancestors[c]
                 PROVE  a \in known'
    OBVIOUS
  <2>2. c \in known \ gone /\ ~(c >= Least(gone)) /\ c \in Changesets
    BY <1>2, <1>6
  <2>3. a \in known \ gone /\ a \in Changesets /\ a <= c
    BY <1>2, <1>4, <2>2, Ancestry
  <2>4. ~(a >= Least(gone))
    BY <1>5, <2>2, <2>3
  <2> QED
    BY <1>6, <2>3, <2>4
<1>8. known' \in SUBSET Changesets /\ IsClosed(known')
  BY <1>2, <1>6, <1>7 DEF IsClosed, AncestorsOf
<1>9. phaseroots' \in [Tracked -> SUBSET known'] /\ Minimal(phaseroots')
  BY <1>1, <1>2, FilteredRoots
<1>10. Repository(known', phaseroots')
  BY <1>2, <1>8, <1>9 DEF Repository, Rooted
<1>11. Committed(disk')
  <2>1. disk'.known = known' /\ disk'.roots = IF later = {} THEN phaseroots' ELSE disk.roots
    BY <1>1
  <2> HIDE DEF later
  <2> QED
    BY <1>2, <1>8, <1>9, <2>1 DEF Committed
<1>12. SetAside(known', disk', moves', bundle')
  <2>1. SUFFICES ASSUME bundle' # Absent PROVE SetAside(known', disk', moves', bundle')
    BY DEF SetAside
  <2>2. bundle' = Saved(later)
    BY <1>1, <2>1
  <2>3. IsClosed(known' \cup later)
    <3>1. known' \cup later = known \ gone
      BY <1>1
    <3> QED
      BY <1>4, <3>1 DEF IsClosed, AncestorsOf
  <2>4. later \in SUBSET Changesets
    BY <1>2
  <2> HIDE DEF later
  <2>5. bundle'.target \in Phase
    <3>1. (\E c \in HeadsOf(later) : PhaseOf(phaseroots, c) = Secret) => Secret \in Phase
      BY PhaseIsHighest
    <3>2. 1 \in Phase
      BY PhaseAssumption DEF Phase
    <3>3. bundle'.target = IF \E c \in HeadsOf(later) : PhaseOf(phaseroots, c) = Secret
                            THEN Secret ELSE 1
      BY <2>2 DEF Saved
    <3> QED
      BY <3>1, <3>2, <3>3
  <2>6. bundle'.csets = later /\ disk'.known = known'
        /\ bundle'.heads[0] \subseteq later /\ bundle'.heads[1] \subseteq later
    BY <1>1, <2>2 DEF Saved, HeadsOf
  <2> QED
    BY <2>3, <2>4, <2>5, <2>6 DEF SetAside
<1>13. Changes(known', changes', moves')
  BY <1>1, <1>2 DEF Changes, Noted
<1> QED
  BY <1>1, <1>10, <1>11, <1>12, <1>13, GraphStays DEF Inv

\* It is applied again.
LEMMA ReapplyInv ==
    ASSUME PhasesIInv, Reapply
    PROVE  PhasesIInv'
<1> DEFINE r0 == RetractRoots(known', phaseroots, bundle.target, bundle.csets)
           pub == {c \in bundle.heads[0] : PhaseOf(r0, c) # 0}
           r1 == AdvanceRoots(known', r0, 0, pub)
           dra == {c \in bundle.heads[1] : PhaseOf(r1, c) # 1}
           new == NewChanges(changes, r0, bundle.csets)
<1>1. /\ moves = 0 /\ bundle # Absent /\ ancestors' = ancestors /\ disk' = disk
      /\ bundle' = bundle /\ moves' = 1
      /\ known' = known \cup bundle.csets
      /\ phaseroots' = AdvanceRoots(known', r1, 1, dra)
      /\ changes' = AdvanceChanges(AdvanceChanges(new, r0, 0, pub), r1, 1, dra)
  BY DEF Reapply
<1>2. /\ Committed(disk) /\ SetAside(known, disk, moves, bundle)
      /\ bundle.csets \in SUBSET Changesets /\ bundle.target \in Phase
      /\ bundle.heads[0] \subseteq bundle.csets /\ bundle.heads[1] \subseteq bundle.csets
      /\ IsClosed(known \cup bundle.csets)
  BY <1>1 DEF PhasesIInv, Inv, SetAside
<1>3. Repository(known', phaseroots) /\ Noted(known', changes)
  BY <1>1, <1>2, Wider
<1>4. 0 \in Phase /\ 1 \in Phase /\ bundle.csets \in SUBSET known'
      /\ bundle.target \in Phase
      /\ pub \in SUBSET known' /\ dra \in SUBSET known'
  BY <1>1, <1>2, PhaseAssumption DEF Phase
<1> HIDE DEF pub, dra
<1>5. Rooted(known', r0) /\ Minimal(r0) /\ Noted(known', new)
  <2>1. r0 \in [Tracked -> SUBSET known'] /\ Minimal(r0)
    BY <1>3, <1>4, RetractedRoots, RetractedMinimal DEF Repository
  <2>2. Rooted(known', r0)
    BY <1>3, <2>1 DEF Rooted, Repository
  <2> HIDE DEF r0
  <2> QED
    BY <1>3, <1>4, <2>1, <2>2, ChangesAreNoted
<1> HIDE DEF r0, new
<1>6. Rooted(known', r1) /\ Minimal(r1)
  <2>1. r1 \in [Tracked -> SUBSET known'] /\ Minimal(r1)
    BY <1>4, <1>5, AdvancedMinimal
  <2> QED
    BY <1>5, <2>1 DEF Rooted
<1>7. Noted(known', AdvanceChanges(new, r0, 0, pub))
  BY <1>4, <1>5, ChangesAreNoted
<1> HIDE DEF r1
<1>8. Noted(known', changes')
  BY <1>1, <1>4, <1>6, <1>7, ChangesAreNoted
<1>9. Repository(known', phaseroots')
  <2>1. phaseroots' \in [Tracked -> SUBSET known'] /\ Minimal(phaseroots')
    BY <1>1, <1>4, <1>6, AdvancedMinimal
  <2> QED
    BY <1>6, <2>1 DEF Repository, Rooted
<1>10. SetAside(known', disk', moves', bundle') /\ Changes(known', changes', moves')
  BY <1>1, <1>2, <1>8 DEF SetAside, Changes
<1> QED
  BY <1>1, <1>2, <1>9, <1>10, GraphStays DEF Inv

\* So it is inductive.
LEMMA NextInv == PhasesIInv /\ [PhasesNext]_phasevars => PhasesIInv'
<1> SUFFICES ASSUME PhasesIInv, [PhasesNext]_phasevars PROVE PhasesIInv'
  OBVIOUS
<1>1. CASE PhasesNext
  <2>1. ASSUME NEW t \in Phase, NEW S \in SUBSET known, Advance(t, S) \/ Retract(t, S)
        PROVE  PhasesIInv'
    BY <2>1, AdvanceInv, RetractInv
  <2>2. ASSUME NEW t \in Phase, NEW new \in SUBSET Changesets, Register(t, new)
        PROVE  PhasesIInv'
    BY <2>2, RegisterInv
  <2>3. ASSUME NEW t \in {0, 1}, NEW new \in SUBSET Changesets, NEW dup \in SUBSET known,
               Receive(t, new, dup)
        PROVE  PhasesIInv'
    BY <2>3, ReceiveInv
  <2>4. ASSUME NEW S \in SUBSET known, S # {}, StripFrom(S)
        PROVE  PhasesIInv'
    BY <2>4, StripInv
  <2>5. CASE Commit \/ Abort \/ Reapply
    BY <2>5, CommitInv, AbortInv, ReapplyInv
  <2> QED
    BY <1>1, <2>1, <2>2, <2>3, <2>4, <2>5, Zenon DEF PhasesNext
<1>2. CASE UNCHANGED phasevars
  <2>1. UNCHANGED <<ancestors, known, phaseroots, disk, changes, moves, bundle>>
    BY <1>2 DEF phasevars
  <2>2. Inv(known', phaseroots', disk', changes', moves', bundle')
    BY <2>1 DEF PhasesIInv
  <2> QED
    BY <2>1, <2>2, GraphStays
<1> QED
  BY <1>1, <1>2

-----------------------------------------------------------------------------
(* What was committed, and what became of it *)

\* The phase a changeset was committed with.
Before(dk, c) == IF c \in dk.known THEN PhaseOf(dk.roots, c) ELSE Absent

\* What has a new phase is in tr.changes, with its old one if it was there.
Told(csets, roots, dk, ch) ==
    /\ \A c \in csets : Before(dk, c) # PhaseOf(roots, c) => c \in DOMAIN ch
    /\ \A c \in DOMAIN ch : (ch[c].old = Absent) <=> (c \notin dk.known)

\* And with the new one.
ToldExactly(csets, roots, dk, ch) ==
    /\ \A c \in csets : Before(dk, c) # PhaseOf(roots, c) => c \in DOMAIN ch
    /\ \A c \in DOMAIN ch : /\ ch[c].old = Before(dk, c)
                            /\ ch[c].new = PhaseOf(roots, c)

\* What a strip has set aside has the phases that the file of roots still gives it.
SetAsideAsItWas(roots, dk, mv, bn) ==
    /\ bn.csets \in SUBSET Changesets /\ bn.csets \cap dk.known = {}
    /\ bn.was = [c \in bn.csets |-> PhaseOf(dk.roots, c)]
    /\ bn.target = IF \E c \in HeadsOf(bn.csets) : PhaseOf(dk.roots, c) = Secret
                     THEN Secret ELSE 1
    /\ \A p \in {0, 1} : bn.heads[p] = HeadsOf({c \in bn.csets : PhaseOf(dk.roots, c) = p})
    /\ mv > 0 /\ MaxPhase <= Secret =>
          \A c \in bn.csets : PhaseOf(roots, c) = PhaseOf(dk.roots, c)

\* The invariant of what was committed: no transaction is open and the repository is
\* what the store says, or tr.changes says what became of it.
History(csets, roots, dk, ch, mv, bn) ==
    /\ dk.known \subseteq csets
    /\ bn = Absent => dk.roots \in [Tracked -> SUBSET dk.known]
    /\ mv = 0 => csets = dk.known /\ roots = Filtered(dk.roots, dk.known)
    /\ Told(csets, roots, dk, ch)
    /\ bn # Absent => SetAsideAsItWas(roots, dk, mv, bn)

PhasesHistory == PhasesIInv /\ History(known, phaseroots, disk, changes, moves, bundle)

\* The state of the next step, given as values.
LEMMA HistoryStays ==
    ASSUME ancestors' = ancestors, PhasesIInv',
           History(known', phaseroots', disk', changes', moves', bundle')
    PROVE  PhasesHistory'
<1>1. PICK csets, roots, dk, ch, mv, bn :
        /\ csets = known' /\ roots = phaseroots' /\ dk = disk' /\ ch = changes'
        /\ mv = moves' /\ bn = bundle'
  OBVIOUS
<1>2. History(csets, roots, dk, ch, mv, bn)
  BY <1>1
<1>3. \A r, c : PhaseOf(r, c)' = PhaseOf(r, c)
  BY DEF PhaseOf
<1>4. Told(csets, roots, dk, ch)' = Told(csets, roots, dk, ch)
  BY <1>3 DEF Told, Before
<1>5. \A S : HeadsOf(S)' = HeadsOf(S)
  BY DEF HeadsOf, ParentsOf
<1>6. SetAsideAsItWas(roots, dk, mv, bn)' = SetAsideAsItWas(roots, dk, mv, bn)
  BY <1>3, <1>5 DEF SetAsideAsItWas
<1>7. History(csets, roots, dk, ch, mv, bn)'
  BY <1>2, <1>4, <1>6 DEF History
<1>8. History(known, phaseroots, disk, changes, moves, bundle)'
  BY <1>1, <1>7
<1> QED BY <1>8 DEF PhasesHistory

\* Roots that are filtered stand for the same phases of what is left.
LEMMA FilteredPhases ==
    ASSUME NEW roots, NEW csets, IsClosed(csets), NEW c \in csets
    PROVE  PhaseOf(Filtered(roots, csets), c) = PhaseOf(roots, c)
<1>1. ancestors[c] \subseteq csets
  BY DEF IsClosed, AncestorsOf
<1>2. \A p \in Tracked : ancestors[c] \cap Filtered(roots, csets)[p] = ancestors[c] \cap roots[p]
  BY <1>1 DEF Filtered
<1>3. {p \in Tracked : ancestors[c] \cap Filtered(roots, csets)[p] # {}} =
      {p \in Tracked : ancestors[c] \cap roots[p] # {}}
  BY <1>2
<1> QED BY <1>3 DEF PhaseOf

\* No phase is Absent.
LEMMA PhaseIsPresent ==
    ASSUME NEW roots, NEW c PROVE PhaseOf(roots, c) # Absent
BY PhaseIsHighest, PhasesAssumption

\* At the start of a transaction nothing has moved.
LEMMA NothingMoved ==
    ASSUME NEW csets, NEW roots, NEW dk, NEW ch, IsClosed(dk.known), csets = dk.known,
           roots = Filtered(dk.roots, dk.known), DOMAIN ch = {}
    PROVE  Told(csets, roots, dk, ch) /\ ToldExactly(csets, roots, dk, ch)
BY FilteredPhases DEF Told, ToldExactly, Before

\* _trackphasechange() of the changesets of moved, where no other one moves.
LEMMA TrackTells ==
    ASSUME NEW csets, NEW roots, NEW dk, NEW ch, DOMAIN ch \subseteq csets,
           NEW all, csets \subseteq all, NEW now, NEW moved, NEW old, NEW new,
           \A c \in all \ DOMAIN moved : c \in csets /\ PhaseOf(now, c) = PhaseOf(roots, c),
           \A c \in DOMAIN moved :
              c \in all /\ (old[c] = Absent <=> c \notin csets) /\ (c \notin csets => c \notin dk.known)
    PROVE  /\ Told(csets, roots, dk, ch) => Told(all, now, dk, Track(ch, moved, old, new))
           /\ /\ ToldExactly(csets, roots, dk, ch)
              /\ \A c \in DOMAIN moved :
                    /\ new[c] = PhaseOf(now, c)
                    /\ c \in csets => old[c] = PhaseOf(roots, c)
              => ToldExactly(all, now, dk, Track(ch, moved, old, new))
<1> DEFINE T == Track(ch, moved, old, new)
<1>1. DOMAIN T = DOMAIN ch \cup DOMAIN moved
  BY DEF Track
<1>2. \A c \in DOMAIN T : c \notin DOMAIN moved => T[c] = ch[c] /\ c \in DOMAIN ch
  BY <1>1 DEF Track
<1>3. \A c \in DOMAIN moved :
        /\ T[c].old = IF c \in DOMAIN ch THEN ch[c].old ELSE old[c]
        /\ T[c].new = new[c]
  BY <1>1 DEF Track
<1> HIDE DEF T
<1>4. ASSUME \A c \in csets : Before(dk, c) # PhaseOf(roots, c) => c \in DOMAIN ch
      PROVE  \A c \in all : Before(dk, c) # PhaseOf(now, c) => c \in DOMAIN T
  BY <1>1, <1>4
<1>5. ASSUME NEW c \in DOMAIN moved, c \notin DOMAIN ch, c \in csets,
             \A d \in csets : Before(dk, d) # PhaseOf(roots, d) => d \in DOMAIN ch
      PROVE  Before(dk, c) = PhaseOf(roots, c) /\ c \in dk.known
  <2>1. Before(dk, c) = PhaseOf(roots, c)
    BY <1>5
  <2> QED BY <2>1, PhaseIsPresent DEF Before
<1>6. ASSUME Told(csets, roots, dk, ch) PROVE Told(all, now, dk, T)
  <2>1. ASSUME NEW c \in DOMAIN T PROVE (T[c].old = Absent) <=> (c \notin dk.known)
    <3>1. CASE c \in DOMAIN ch
      BY <1>2, <1>3, <1>6, <2>1, <3>1 DEF Told
    <3>2. CASE c \notin DOMAIN ch
      <4>1. c \in DOMAIN moved /\ T[c].old = old[c]
        BY <1>1, <1>3, <2>1, <3>2
      <4>2. c \in csets => c \in dk.known
        BY <1>5, <1>6, <3>2, <4>1 DEF Told
      <4> QED BY <4>1, <4>2
    <3> QED BY <3>1, <3>2
  <2> QED BY <1>4, <1>6, <2>1 DEF Told
<1>7. ASSUME ToldExactly(csets, roots, dk, ch),
             \A c \in DOMAIN moved : /\ new[c] = PhaseOf(now, c)
                                     /\ c \in csets => old[c] = PhaseOf(roots, c)
      PROVE  ToldExactly(all, now, dk, T)
  <2>1. ASSUME NEW c \in DOMAIN T
        PROVE  T[c].old = Before(dk, c) /\ T[c].new = PhaseOf(now, c)
    <3>1. CASE c \notin DOMAIN moved
      <4>1. T[c] = ch[c] /\ c \in DOMAIN ch /\ c \in all
        BY <1>2, <2>1, <3>1
      <4> QED BY <1>7, <3>1, <4>1 DEF ToldExactly
    <3>2. CASE c \in DOMAIN moved
      <4>1. T[c].new = PhaseOf(now, c)
        BY <1>3, <1>7, <3>2
      <4>2. CASE c \in DOMAIN ch
        BY <1>3, <1>7, <3>2, <4>1, <4>2 DEF ToldExactly
      <4>3. CASE c \notin DOMAIN ch /\ c \in csets
        <5>1. Before(dk, c) = PhaseOf(roots, c)
          BY <1>5, <1>7, <3>2, <4>3 DEF ToldExactly
        <5> QED BY <1>3, <1>7, <3>2, <4>1, <4>3, <5>1
      <4>4. CASE c \notin DOMAIN ch /\ c \notin csets
        <5>1. old[c] = Absent /\ c \notin dk.known
          BY <3>2, <4>4
        <5> QED BY <1>3, <3>2, <4>1, <4>4, <5>1 DEF Before
      <4> QED BY <4>2, <4>3, <4>4
    <3> QED BY <3>1, <3>2
  <2> QED BY <1>4, <1>7, <2>1 DEF ToldExactly
<1> QED BY <1>6, <1>7 DEF T

\* advanceboundary(): what it tracks is what moves, and it goes to the target phase.
LEMMA AdvanceTells ==
    ASSUME NEW csets, NEW roots, Rooted(csets, roots), NEW dk, dk.known \subseteq csets,
           NEW ch, DOMAIN ch \subseteq csets, NEW t \in Phase, NEW S \in SUBSET csets,
           NEW now, now = AdvanceRoots(csets, roots, t, S)
    PROVE  /\ Told(csets, roots, dk, ch) => Told(csets, now, dk, AdvanceChanges(ch, roots, t, S))
           /\ ToldExactly(csets, roots, dk, ch) =>
                 ToldExactly(csets, now, dk, AdvanceChanges(ch, roots, t, S))
<1> DEFINE moved == UNION {AdvanceAffected(roots, p, S) : p \in Tracked \ 1..t}
           to == [c \in moved |-> t]
           from == [c \in moved |-> PhaseOf(roots, c)]
<1>1. AdvanceChanges(ch, roots, t, S) = Track(ch, to, from, to)
  BY DEF AdvanceChanges
<1>2. IsOrder /\ csets \in SUBSET Changesets /\ AncestorsOf(S) \subseteq csets
  BY ClosedHasAncestors DEF Rooted
<1>3. \A p \in Tracked : p \in Int /\ (p \notin 1..t <=> p > t)
  BY PhaseAssumption DEF Tracked, Phase
<1>4. ASSUME NEW c \in moved PROVE c \in csets /\ PhaseOf(now, c) = t
  <2>1. PICK p \in Tracked \ 1..t : c \in AdvanceAffected(roots, p, S)
    BY <1>4
  <2>2. c \in AncestorsOf(S) /\ ancestors[c] \cap roots[p] # {}
    BY <2>1 DEF AdvanceAffected, Between, AncestorsOf, DescendantsOf
  <2>3. c \in csets /\ p <= PhaseOf(roots, c) /\ p > t
    BY <1>2, <1>3, <2>1, <2>2, PhaseIsHighest
  <2>4. PhaseOf(now, c) = Smaller(PhaseOf(roots, c), t)
    BY <2>2, <2>3, AdvancedPhases
  <2>5. PhaseOf(roots, c) \in Int /\ t \in Int
    BY PhaseIsHighest DEF Phase
  <2>6. Smaller(PhaseOf(roots, c), t) = t
    BY <1>3, <2>1, <2>3, <2>5 DEF Smaller
  <2> QED BY <2>3, <2>4, <2>6
<1>5. ASSUME NEW c \in csets, c \notin moved PROVE PhaseOf(now, c) = PhaseOf(roots, c)
  <2>1. PhaseOf(now, c) =
          IF c \in AncestorsOf(S) THEN Smaller(PhaseOf(roots, c), t) ELSE PhaseOf(roots, c)
    BY AdvancedPhases
  <2>2. CASE c \in AncestorsOf(S)
    <3>1. PICK s \in S : c \in ancestors[s]
      BY <2>2 DEF AncestorsOf
    <3>2. PICK P : P = PhaseOf(roots, c)
      OBVIOUS
    <3>3. P <= PhaseOf(roots, s) /\ P \in Phase /\ PhaseOf(roots, s) \in Int /\ t \in Int
      BY <1>2, <3>1, <3>2, PhasesGrow, PhaseIsHighest DEF Phase
    <3>4. ASSUME P > t PROVE FALSE
      <4>1. P # 0
        BY <3>3, <3>4 DEF Phase
      <4>2. P \in Tracked \ 1..t /\ ancestors[c] \cap roots[P] # {}
        BY <1>3, <3>2, <3>4, <4>1, PhaseIsHighest
      <4>3. s \in {x \in S : PhaseOf(roots, x) >= P}
        BY <3>3
      <4>4. c \in AdvanceAffected(roots, P, S)
        BY <1>2, <2>2, <3>1, <4>2, <4>3 DEF AdvanceAffected, Between, AncestorsOf, DescendantsOf
      <4> QED BY <1>5, <4>2, <4>4
    <3>5. P <= t
      BY <3>3, <3>4 DEF Phase
    <3> QED BY <2>1, <2>2, <3>2, <3>3, <3>5 DEF Smaller, Phase
  <2> QED BY <2>1, <2>2
<1> HIDE DEF moved
<1>6. DOMAIN to = moved /\ \A c \in moved : to[c] = t /\ from[c] = PhaseOf(roots, c)
  OBVIOUS
<1> HIDE DEF to, from
<1>7. \A c \in csets \ DOMAIN to : c \in csets /\ PhaseOf(now, c) = PhaseOf(roots, c)
  BY <1>5, <1>6
<1>8. \A c \in DOMAIN to :
        c \in csets /\ (from[c] = Absent <=> c \notin csets) /\ (c \notin csets => c \notin dk.known)
  BY <1>4, <1>6, PhaseIsPresent
<1>9. \A c \in DOMAIN to : /\ to[c] = PhaseOf(now, c)
                           /\ c \in csets => from[c] = PhaseOf(roots, c)
  BY <1>4, <1>6
<1>10. /\ Told(csets, roots, dk, ch) => Told(csets, now, dk, Track(ch, to, from, to))
       /\ ToldExactly(csets, roots, dk, ch) =>
             ToldExactly(csets, now, dk, Track(ch, to, from, to))
  BY <1>7, <1>8, <1>9, TrackTells
<1> QED BY <1>1, <1>10

\* registernew().
LEMMA NewTells ==
    ASSUME Rooted(known, phaseroots), NEW dk, dk.known \subseteq known,
           NEW ch, DOMAIN ch \subseteq known, NEW t \in Phase,
           NEW new \in SUBSET (Changesets \ known), IsClosed(known \cup new),
           NEW now, now = RetractRoots(known \cup new, phaseroots, t, new)
    PROVE  /\ Told(known, phaseroots, dk, ch) =>
                 Told(known \cup new, now, dk, NewChanges(ch, now, new))
           /\ ToldExactly(known, phaseroots, dk, ch) =>
                 ToldExactly(known \cup new, now, dk, NewChanges(ch, now, new))
<1> DEFINE phase == [c \in new |-> PhaseOf(now, c)]
           absent == [c \in new |-> Absent]
<1>1. NewChanges(ch, now, new) = Track(ch, phase, absent, phase)
  BY DEF NewChanges
<1>2. DOMAIN phase = new /\ \A c \in new : phase[c] = PhaseOf(now, c) /\ absent[c] = Absent
  OBVIOUS
<1> HIDE DEF phase, absent
<1>3. \A c \in known : PhaseOf(now, c) = PhaseOf(phaseroots, c)
  BY NewPhases
<1>4. \A c \in (known \cup new) \ DOMAIN phase : c \in known /\ PhaseOf(now, c) = PhaseOf(phaseroots, c)
  BY <1>2, <1>3
<1>5. \A c \in DOMAIN phase :
        /\ c \in known \cup new /\ (absent[c] = Absent <=> c \notin known)
        /\ c \notin known => c \notin dk.known
  BY <1>2
<1>6. \A c \in DOMAIN phase : /\ phase[c] = PhaseOf(now, c)
                              /\ c \in known => absent[c] = PhaseOf(phaseroots, c)
  BY <1>2
<1>7. /\ Told(known, phaseroots, dk, ch) =>
            Told(known \cup new, now, dk, Track(ch, phase, absent, phase))
      /\ ToldExactly(known, phaseroots, dk, ch) =>
            ToldExactly(known \cup new, now, dk, Track(ch, phase, absent, phase))
  BY <1>4, <1>5, <1>6, TrackTells
<1> QED BY <1>1, <1>7

\* retractboundary(), which may track more than what moves.
LEMMA RetractTells ==
    ASSUME NEW csets, NEW roots, Rooted(csets, roots), NEW dk, dk.known \subseteq csets,
           NEW ch, DOMAIN ch \subseteq csets, NEW t \in Phase, NEW S \in SUBSET csets,
           Told(csets, roots, dk, ch)
    PROVE  Told(csets, RetractRoots(csets, roots, t, S), dk, RetractChanges(csets, ch, roots, t, S))
<1> DEFINE now == RetractRoots(csets, roots, t, S)
           affected == (csets \cap DescendantsOf(now[t])) \ DescendantsOf(roots[t])
           rest(p) == {a \in affected : \A q \in (p + 1)..t : a \notin DescendantsOf(roots[q])}
           between == [p \in 1..t |-> Between(roots[p], rest(p))]
           moved == affected \cup UNION {between[p] : p \in 1..t}
           old == [c \in moved |-> Greatest({0} \cup {p \in 1..t : c \in between[p]})]
           to == [c \in moved |-> t]
<1>1. RetractChanges(csets, ch, roots, t, S) =
         IF t = 0 \/ now = roots THEN ch ELSE Track(ch, old, old, to)
  BY DEF RetractChanges
<1>2. CASE t = 0 \/ now = roots
  BY <1>1, <1>2, RetractedRoots
<1>3. CASE ~(t = 0 \/ now = roots)
  <2>1. moved \subseteq csets
    <3>1. affected \subseteq csets
      OBVIOUS
    <3>2. AncestorsOf(csets) \subseteq csets
      BY DEF Rooted, IsClosed
    <3>3. \A p \in 1..t : between[p] \subseteq AncestorsOf(csets)
      BY <3>1 DEF Between, AncestorsOf
    <3> HIDE DEF affected, between
    <3> QED BY <3>1, <3>2, <3>3
  <2>2. \A c \in moved : old[c] # Absent
    <3> SUFFICES ASSUME NEW c \in moved
                 PROVE  Greatest({0} \cup {p \in 1..t : c \in between[p]}) # Absent
      OBVIOUS
    <3> DEFINE P == {0} \cup {p \in 1..t : c \in between[p]}
    <3> HIDE DEF between
    <3>1. P \in SUBSET Phase /\ P # {}
      BY PhaseAssumption DEF Phase
    <3> HIDE DEF P
    <3>2. Greatest(P) \in Phase
      BY <3>1, GreatestPhase
    <3> QED BY <3>2, PhasesAssumption DEF P
  <2>3. ASSUME NEW c \in csets, c \notin affected PROVE PhaseOf(now, c) = PhaseOf(roots, c)
    <3>1. PhaseOf(now, c) =
            IF c \in DescendantsOf(S) THEN Larger(PhaseOf(roots, c), t) ELSE PhaseOf(roots, c)
      BY RetractedPhases
    <3>2. t \in Tracked /\ t \in Int /\ PhaseOf(roots, c) \in Int /\ PhaseOf(now, c) \in Phase
      BY <1>3, PhaseIsHighest DEF Phase, Tracked
    <3>3. ASSUME PhaseOf(now, c) # PhaseOf(roots, c) PROVE FALSE
      <4>1. PhaseOf(now, c) = t /\ PhaseOf(roots, c) < t
        BY <3>1, <3>2, <3>3 DEF Larger
      <4>2. ancestors[c] \cap now[t] # {}
        <5> HIDE DEF now
        <5> QED BY <1>3, <4>1, PhaseIsHighest
      <4>3. c \in Changesets
        BY DEF Rooted
      <4>4. c \in DescendantsOf(now[t])
        BY <4>2, <4>3 DEF DescendantsOf
      <4>5. c \in DescendantsOf(roots[t])
        <5> HIDE DEF now
        <5> QED BY <2>3, <4>4 DEF affected
      <4>6. t <= PhaseOf(roots, c)
        BY <3>2, <4>5, PhaseIsHighest DEF DescendantsOf
      <4> QED BY <3>2, <4>1, <4>6
    <3> QED BY <3>3
  <2> HIDE DEF now, affected, between
  <2>4. DOMAIN old = moved
    OBVIOUS
  <2>5. affected \subseteq moved
    OBVIOUS
  <2> HIDE DEF moved, old, to
  <2>6. \A c \in csets \ DOMAIN old : c \in csets /\ PhaseOf(now, c) = PhaseOf(roots, c)
    BY <2>3, <2>4, <2>5
  <2>7. \A c \in DOMAIN old :
          c \in csets /\ (old[c] = Absent <=> c \notin csets) /\ (c \notin csets => c \notin dk.known)
    BY <2>1, <2>2, <2>4
  <2>8. Told(csets, now, dk, Track(ch, old, old, to))
    BY <2>6, <2>7, TrackTells
  <2> QED BY <1>1, <1>3, <2>8 DEF now
<1> QED BY <1>2, <1>3

\* A move that raises no phase changes nothing.
LEMMA RetractIdle ==
    ASSUME NEW csets, NEW roots, Rooted(csets, roots), NEW ch, NEW t \in Phase,
           NEW S \in SUBSET csets,
           \A c \in csets : ~(PhaseOf(roots, c) < PhaseOf(RetractRoots(csets, roots, t, S), c))
    PROVE  /\ RetractRoots(csets, roots, t, S) = roots
           /\ RetractChanges(csets, ch, roots, t, S) = ch
<1>1. Lower(roots, t, S) = {}
  <2> SUFFICES ASSUME NEW c \in S, PhaseOf(roots, c) < t PROVE FALSE
    BY DEF Lower
  <2>1. c \in csets /\ c \in Changesets /\ c \in ancestors[c]
    BY DEF Rooted, IsOrder
  <2>2. c \in DescendantsOf(S)
    BY <2>1 DEF DescendantsOf
  <2>3. PhaseOf(RetractRoots(csets, roots, t, S), c) = Larger(PhaseOf(roots, c), t)
    BY <2>1, <2>2, RetractedPhases
  <2>4. PhaseOf(roots, c) \in Int /\ t \in Int
    BY PhaseIsHighest DEF Phase
  <2>5. Larger(PhaseOf(roots, c), t) = t
    BY <2>4 DEF Larger
  <2> QED BY <2>1, <2>3, <2>5
<1>2. RetractRoots(csets, roots, t, S) = roots
  BY <1>1 DEF RetractRoots, Lower
<1> QED BY <1>2 DEF RetractChanges

\* An operation in a transaction.
LEMMA MoveHistory ==
    ASSUME PhasesHistory, Move, PhasesIInv', ancestors' = ancestors, known \subseteq known',
           Told(known', phaseroots', disk, changes')
    PROVE  PhasesHistory'
<1>1. moves' # 0 /\ bundle' = Absent /\ disk' = disk /\ bundle = Absent
  BY DEF Move, PhasesHistory, PhasesIInv, Inv, Changes
<1>2. disk.known \subseteq known' /\ disk.roots \in [Tracked -> SUBSET disk.known]
  BY <1>1 DEF PhasesHistory, History
<1> QED BY <1>1, <1>2, HistoryStays DEF History

\* What the two invariants say of the repository.
LEMMA Known ==
    ASSUME PhasesHistory
    PROVE  /\ Rooted(known, phaseroots) /\ DOMAIN changes \subseteq known
           /\ disk.known \subseteq known /\ Told(known, phaseroots, disk, changes)
BY DEF PhasesHistory, PhasesIInv, Inv, Repository, Changes, Noted, History

\* What was told exactly is so after a commit, a pull, ...
LEMMA RegisterTells ==
    ASSUME PhasesHistory, NEW t \in Phase, NEW new \in SUBSET Changesets, Register(t, new)
    PROVE  /\ Told(known', phaseroots', disk, changes')
           /\ ToldExactly(known, phaseroots, disk, changes) =>
                 ToldExactly(known', phaseroots', disk, changes')
<1>1. PICK now : now = phaseroots'
  OBVIOUS
<1>2. /\ new \in SUBSET (Changesets \ known) /\ IsClosed(known \cup new) /\ known' = known \cup new
      /\ now = RetractRoots(known \cup new, phaseroots, t, new)
      /\ changes' = NewChanges(changes, now, new)
  BY <1>1 DEF Register
<1> QED BY <1>1, <1>2, Known, NewTells

\* ... a changegroup that was pushed here, ...
LEMMA ReceiveTells ==
    ASSUME PhasesHistory, NEW t \in {0, 1}, NEW new \in SUBSET Changesets,
           NEW dup \in SUBSET known, Receive(t, new, dup)
    PROVE  /\ Told(known', phaseroots', disk, changes')
           /\ ToldExactly(known, phaseroots, disk, changes) =>
                 ToldExactly(known', phaseroots', disk, changes')
<1>1. PICK all, roots, ch, now :
        /\ all = known \cup new /\ roots = RetractRoots(all, phaseroots, t, new)
        /\ ch = NewChanges(changes, roots, new) /\ now = phaseroots'
  OBVIOUS
<1>2. /\ new \in SUBSET (Changesets \ known) /\ IsClosed(all) /\ known' = all
      /\ now = AdvanceRoots(all, roots, t, new \cup dup)
      /\ changes' = AdvanceChanges(ch, roots, t, new \cup dup)
  BY <1>1 DEF Receive
<1>3. t \in Phase
  BY PhaseAssumption DEF Phase
<1>4. /\ Told(all, roots, disk, ch)
      /\ ToldExactly(known, phaseroots, disk, changes) => ToldExactly(all, roots, disk, ch)
  BY <1>1, <1>2, <1>3, Known, NewTells
<1>5. Rooted(all, roots) /\ disk.known \subseteq all /\ new \cup dup \in SUBSET all
  BY <1>1, <1>2, <1>3, Known, NewPhases
<1>6. DOMAIN ch \subseteq all
  <2>1. DOMAIN ch = DOMAIN changes \cup new
    BY <1>1 DEF NewChanges, Track
  <2> QED BY <1>1, <2>1, Known
<1>7. /\ Told(all, roots, disk, ch) =>
            Told(all, now, disk, AdvanceChanges(ch, roots, t, new \cup dup))
      /\ ToldExactly(all, roots, disk, ch) =>
            ToldExactly(all, now, disk, AdvanceChanges(ch, roots, t, new \cup dup))
  BY <1>2, <1>3, <1>5, <1>6, AdvanceTells
<1> QED BY <1>1, <1>2, <1>4, <1>7

\* ... and publishing.
LEMMA AdvanceStepTells ==
    ASSUME PhasesHistory, NEW t \in Phase, NEW S \in SUBSET known, Advance(t, S)
    PROVE  /\ Told(known', phaseroots', disk, changes')
           /\ ToldExactly(known, phaseroots, disk, changes) =>
                 ToldExactly(known', phaseroots', disk, changes')
<1>1. PICK now : now = phaseroots'
  OBVIOUS
<1>2. /\ known' = known /\ now = AdvanceRoots(known, phaseroots, t, S)
      /\ changes' = AdvanceChanges(changes, phaseroots, t, S)
  BY <1>1 DEF Advance
<1> QED BY <1>1, <1>2, Known, AdvanceTells

\* What raises phases is not missing.
LEMMA RetractStepTells ==
    ASSUME PhasesHistory, NEW t \in Phase, NEW S \in SUBSET known, Retract(t, S)
    PROVE  /\ Told(known', phaseroots', disk, changes')
           /\ /\ \A c \in known : ~(PhaseOf(phaseroots, c) < PhaseOf(phaseroots', c))
              /\ ToldExactly(known, phaseroots, disk, changes)
              => ToldExactly(known', phaseroots', disk, changes')
<1>1. /\ known' = known /\ phaseroots' = RetractRoots(known, phaseroots, t, S)
      /\ changes' = RetractChanges(known, changes, phaseroots, t, S)
  BY DEF Retract
<1>2. Told(known', phaseroots', disk, changes')
  BY <1>1, Known, RetractTells
<1>3. ASSUME \A c \in known : ~(PhaseOf(phaseroots, c) < PhaseOf(phaseroots', c))
      PROVE  phaseroots' = phaseroots /\ changes' = changes
  BY <1>1, <1>3, Known, RetractIdle
<1> QED BY <1>1, <1>2, <1>3

\* Before the bundle of a strip is applied.
LEMMA BeforeReapply ==
    ASSUME PhasesHistory, moves = 0, bundle # Absent
    PROVE  /\ SetAsideAsItWas(phaseroots, disk, moves, bundle)
           /\ known = disk.known /\ bundle.csets \in SUBSET (Changesets \ known)
           /\ bundle.target \in Phase /\ bundle.target \in {1, Secret}
           /\ IsClosed(known) /\ IsClosed(known \cup bundle.csets)
           /\ \A c \in known : PhaseOf(phaseroots, c) = PhaseOf(disk.roots, c)
           /\ bundle.heads[0] \in SUBSET bundle.csets /\ bundle.heads[1] \in SUBSET bundle.csets
<1>1. /\ SetAsideAsItWas(phaseroots, disk, moves, bundle)
      /\ known = disk.known /\ phaseroots = Filtered(disk.roots, disk.known)
  BY DEF PhasesHistory, History
<1>2. /\ bundle.target \in Phase /\ IsClosed(known \cup bundle.csets) /\ IsClosed(known)
      /\ bundle.heads[0] \in SUBSET bundle.csets /\ bundle.heads[1] \in SUBSET bundle.csets
  BY <1>1 DEF PhasesHistory, PhasesIInv, Inv, SetAside, Repository, Rooted
<1>3. bundle.target \in {1, Secret} /\ bundle.csets \in SUBSET (Changesets \ known)
  BY <1>1 DEF SetAsideAsItWas
<1> QED BY <1>1, <1>2, <1>3, FilteredPhases

\* The phases of the changesets as they are applied again.
LEMMA ReapplyKeeps ==
    ASSUME PhasesHistory, moves = 0, bundle # Absent, MaxPhase <= Secret,
           NEW all, all = known \cup bundle.csets,
           NEW r0, r0 = RetractRoots(all, phaseroots, bundle.target, bundle.csets),
           NEW pub, pub = {c \in bundle.heads[0] : PhaseOf(r0, c) # 0},
           NEW r1, r1 = AdvanceRoots(all, r0, 0, pub),
           NEW dra, dra = {c \in bundle.heads[1] : PhaseOf(r1, c) # 1},
           NEW c \in bundle.csets
    PROVE  PhaseOf(AdvanceRoots(all, r1, 1, dra), c) = PhaseOf(disk.roots, c)
<1> DEFINE Was(x) == PhaseOf(disk.roots, x)
           L == bundle.csets
           target == bundle.target
<1>1. /\ SetAsideAsItWas(phaseroots, disk, moves, bundle)
      /\ L \in SUBSET (Changesets \ known) /\ target \in Phase /\ target \in {1, 2}
      /\ IsClosed(all) /\ \A x \in known : PhaseOf(phaseroots, x) = Was(x)
      /\ bundle.heads[0] \in SUBSET L /\ bundle.heads[1] \in SUBSET L
      /\ Rooted(known, phaseroots) /\ IsOrder
  BY BeforeReapply, Known DEF Secret, Rooted
<1>c. c \in L
  OBVIOUS
<1> HIDE DEF L, target
<1>2. /\ \A x : Was(x) \in {0, 1, 2}
      /\ 0 \in Phase /\ 1 \in Phase
  BY PhaseIsHighest, PhaseAssumption DEF Phase, Secret
<1>3. \A x \in Changesets : \A a \in ancestors[x] : Was(a) <= Was(x)
  BY <1>1, PhasesGrow
<1>4. ASSUME NEW p \in {0, 1}
      PROVE  /\ \A x \in L : Was(x) = p => x \in AncestorsOf(bundle.heads[p])
             /\ \A x \in L : x \in AncestorsOf(bundle.heads[p]) => Was(x) <= p
             /\ \A x \in bundle.heads[p] : Was(x) = p
  <2> DEFINE Z == {x \in L : Was(x) = p}
  <2>1. bundle.heads[p] = HeadsOf(Z)
    BY <1>1 DEF SetAsideAsItWas, L
  <2>2. Z \in SUBSET Changesets
    BY <1>1
  <2>3. \A x \in Z : x \in AncestorsOf(HeadsOf(Z))
    <3> HIDE DEF Z
    <3> QED BY <1>1, <2>2, HeadsCover DEF AncestorsOf
  <2>4. HeadsOf(Z) \subseteq Z
    BY DEF HeadsOf
  <2>5. \A x \in L : x \in AncestorsOf(Z) => Was(x) <= p
    BY <1>3, <2>2 DEF AncestorsOf
  <2>6. AncestorsOf(HeadsOf(Z)) \subseteq AncestorsOf(Z)
    BY <2>4 DEF AncestorsOf
  <2> QED BY <2>1, <2>3, <2>4, <2>5, <2>6
<1>5. ASSUME NEW x \in L PROVE Was(x) <= target
  <2> SUFFICES ASSUME ~(Was(x) <= target) PROVE FALSE
    OBVIOUS
  <2>1. target = 1 /\ Was(x) = 2
    BY <1>1, <1>2
  <2>2. L \in SUBSET Changesets
    BY <1>1
  <2>3. PICK h \in HeadsOf(L) : x \in ancestors[h]
    BY <1>1, <2>2, HeadsCover
  <2>4. h \in Changesets
    BY <2>2 DEF HeadsOf
  <2>5. Was(h) = 2
    BY <1>2, <1>3, <2>1, <2>3, <2>4
  <2>6. target = Secret
    BY <1>1, <2>3, <2>5 DEF SetAsideAsItWas, Secret, L, target
  <2> QED BY <2>1, <2>6 DEF Secret
<1>6. ASSUME NEW x \in L PROVE PhaseOf(r0, x) = target
  <2> DEFINE G == {target} \cup {PhaseOf(phaseroots, a) : a \in ancestors[x] \ L}
  <2>1. PhaseOf(r0, x) = Greatest(G)
    BY <1>1, NewPhases DEF L, target
  <2>2. G \in SUBSET Phase /\ G # {} /\ target \in G
    BY <1>1, PhaseIsHighest
  <2>3. \A g \in G : g <= target
    <3>1. SUFFICES ASSUME NEW a \in ancestors[x] \ L PROVE PhaseOf(phaseroots, a) <= target
      BY <1>1
    <3>2. a \in known /\ x \in Changesets
      BY <1>1 DEF IsClosed, AncestorsOf, L
    <3>3. Was(a) <= Was(x) /\ PhaseOf(phaseroots, a) = Was(a)
      BY <1>1, <1>3, <3>2
    <3>4. Was(x) <= target
      BY <1>5
    <3> QED BY <1>1, <1>2, <3>3, <3>4
  <2> HIDE DEF G
  <2>4. Greatest(G) \in G /\ target <= Greatest(G)
    BY <2>2, GreatestPhase
  <2>5. PICK g : g = Greatest(G)
    OBVIOUS
  <2>6. g \in Phase /\ g <= target /\ target <= g
    BY <2>2, <2>3, <2>4, <2>5
  <2>7. g = target
    BY <1>1, <2>6 DEF Phase
  <2> QED BY <2>1, <2>5, <2>7
<1>7. Rooted(all, r0)
  BY <1>1, NewPhases DEF L, target
<1>8. pub = bundle.heads[0]
  <2>1. \A x \in bundle.heads[0] : PhaseOf(r0, x) # 0
    <3>1. \A x \in bundle.heads[0] : x \in L
      BY <1>1
    <3>2. target # 0
      BY <1>1
    <3> QED BY <1>6, <3>1, <3>2
  <2> QED BY <2>1
<1>9. pub \in SUBSET all /\ dra \in SUBSET all /\ L \subseteq all
  BY <1>1, <1>8 DEF L
<1>10. Rooted(all, r1)
  <2>1. AdvanceRoots(all, r0, 0, pub) = Left(all, r0, 0, pub)
    BY AdvanceIs
  <2>2. 0 \in Phase
    BY <1>2
  <2>3. Rooted(all, Left(all, r0, 0, pub))
    BY <1>7, <1>9, <2>2, LeftRoots
  <2> QED BY <2>1, <2>3
<1>11. ASSUME NEW x \in L PROVE PhaseOf(r1, x) = IF Was(x) = 0 THEN 0 ELSE target
  <2>1. PhaseOf(AdvanceRoots(all, r0, 0, pub), x) =
          IF x \in AncestorsOf(pub) THEN Smaller(PhaseOf(r0, x), 0) ELSE PhaseOf(r0, x)
    <3>1. x \in all /\ 0 \in Phase
      BY <1>2, <1>9
    <3> QED BY <1>7, <1>9, <3>1, AdvancedPhases
  <2>2. x \in AncestorsOf(pub) <=> Was(x) = 0
    <3>1. 0 \in {0, 1}
      OBVIOUS
    <3>2. /\ Was(x) = 0 => x \in AncestorsOf(bundle.heads[0])
          /\ x \in AncestorsOf(bundle.heads[0]) => Was(x) <= 0
      BY <1>4, <3>1
    <3>3. Was(x) <= 0 => Was(x) = 0
      BY <1>2
    <3> QED BY <1>8, <3>2, <3>3
  <2>3. PhaseOf(r0, x) = target
    BY <1>6
  <2>4. Smaller(target, 0) = 0
    BY <1>1 DEF Smaller
  <2>5. PhaseOf(AdvanceRoots(all, r0, 0, pub), x) = IF Was(x) = 0 THEN 0 ELSE target
    BY <2>1, <2>2, <2>3, <2>4
  <2> QED BY <2>5
<1>12. PhaseOf(AdvanceRoots(all, r1, 1, dra), c) =
         IF c \in AncestorsOf(dra) THEN Smaller(PhaseOf(r1, c), 1) ELSE PhaseOf(r1, c)
  <2>1. c \in all /\ 1 \in Phase
    BY <1>2, <1>9, <1>c
  <2>2. \A S \in SUBSET all : \A x \in all :
          PhaseOf(AdvanceRoots(all, r1, 1, S), x) =
             IF x \in AncestorsOf(S) THEN Smaller(PhaseOf(r1, x), 1) ELSE PhaseOf(r1, x)
    BY <1>10, <2>1, AdvancedPhases
  <2> QED BY <1>9, <2>1, <2>2
<1>13. \A x \in bundle.heads[1] : PhaseOf(r1, x) = target
  BY <1>1, <1>4, <1>11
<1>14. CASE target = 1
  <2>1. dra = {}
    BY <1>13, <1>14
  <2>2. c \notin AncestorsOf(dra)
    BY <2>1 DEF AncestorsOf
  <2>3. Was(c) <= 1
    BY <1>5, <1>14, <1>c
  <2>4. PhaseOf(r1, c) = IF Was(c) = 0 THEN 0 ELSE 1
    BY <1>11, <1>14, <1>c
  <2>5. PhaseOf(AdvanceRoots(all, r1, 1, dra), c) = Was(c)
    BY <1>2, <1>12, <2>2, <2>3, <2>4
  <2> QED BY <2>5
<1>15. CASE target = 2
  <2>1. dra = bundle.heads[1]
    BY <1>13, <1>15
  <2>2. /\ Was(c) = 1 => c \in AncestorsOf(dra)
        /\ c \in AncestorsOf(dra) => Was(c) <= 1
    BY <1>4, <1>c, <2>1
  <2>3. PhaseOf(r1, c) = IF Was(c) = 0 THEN 0 ELSE 2
    BY <1>11, <1>15, <1>c
  <2>4. Smaller(0, 1) = 0 /\ Smaller(2, 1) = 1
    BY DEF Smaller
  <2>5. PhaseOf(AdvanceRoots(all, r1, 1, dra), c) = Was(c)
    BY <1>2, <1>12, <2>2, <2>3, <2>4
  <2> QED BY <2>5
<1> QED BY <1>1, <1>14, <1>15 DEF L, target

\* registernew() of a bundle, then updatephases() with its heads.
LEMMA ReapplyHistory ==
    ASSUME PhasesHistory, Reapply, PhasesIInv'
    PROVE  /\ PhasesHistory'
           /\ ToldExactly(known, phaseroots, disk, changes) =>
                 ToldExactly(known', phaseroots', disk, changes')
<1>1. PICK all, csets, target : all = known \cup bundle.csets /\ csets = bundle.csets
                                /\ target = bundle.target
  OBVIOUS
<1>2. PICK r0 : r0 = RetractRoots(all, phaseroots, target, csets)
  OBVIOUS
<1>3. PICK pub : pub = {c \in bundle.heads[0] : PhaseOf(r0, c) # 0}
  OBVIOUS
<1>4. PICK r1 : r1 = AdvanceRoots(all, r0, 0, pub)
  OBVIOUS
<1>5. PICK dra : dra = {c \in bundle.heads[1] : PhaseOf(r1, c) # 1}
  OBVIOUS
<1>6. PICK new, ch, now : /\ new = NewChanges(changes, r0, csets)
                          /\ ch = AdvanceChanges(new, r0, 0, pub)
                          /\ now = AdvanceRoots(all, r1, 1, dra)
  OBVIOUS
<1>7. /\ moves = 0 /\ bundle # Absent /\ ancestors' = ancestors /\ disk' = disk
      /\ bundle' = bundle /\ moves' = 1 /\ known' = all /\ phaseroots' = now
      /\ changes' = AdvanceChanges(ch, r1, 1, dra)
  BY <1>1, <1>2, <1>3, <1>4, <1>5, <1>6 DEF Reapply
<1>8. /\ SetAsideAsItWas(phaseroots, disk, moves, bundle)
      /\ csets \in SUBSET (Changesets \ known) /\ target \in Phase /\ IsClosed(all)
      /\ bundle.heads[0] \in SUBSET csets /\ bundle.heads[1] \in SUBSET csets
  BY <1>1, <1>7, BeforeReapply
<1>9. 0 \in Phase /\ 1 \in Phase /\ pub \in SUBSET all /\ dra \in SUBSET all
      /\ disk.known \subseteq all
  BY <1>1, <1>3, <1>5, <1>8, Known, PhaseAssumption DEF Phase
<1>10. Rooted(all, r0)
  BY <1>1, <1>2, <1>8, Known, NewPhases
<1>11. Rooted(all, r1)
  <2>1. r1 = Left(all, r0, 0, pub)
    BY <1>4, AdvanceIs
  <2>2. Rooted(all, Left(all, r0, 0, pub))
    BY <1>9, <1>10, LeftRoots
  <2> QED BY <2>1, <2>2
<1>12. /\ Told(all, r0, disk, new)
       /\ ToldExactly(known, phaseroots, disk, changes) => ToldExactly(all, r0, disk, new)
  BY <1>1, <1>2, <1>6, <1>8, Known, NewTells
<1>13. DOMAIN new \subseteq all /\ DOMAIN ch \subseteq all
  <2>1. DOMAIN new = DOMAIN changes \cup csets
    BY <1>6 DEF NewChanges, Track
  <2>2. DOMAIN new \subseteq all
    BY <1>1, <2>1, Known
  <2>3. DOMAIN ch = DOMAIN new \cup UNION {AdvanceAffected(r0, p, pub) : p \in Tracked \ 1..0}
    BY <1>6 DEF AdvanceChanges, Track
  <2>4. \A p : AdvanceAffected(r0, p, pub) \subseteq AncestorsOf(pub)
    BY DEF AdvanceAffected, Between, AncestorsOf
  <2>5. AncestorsOf(pub) \subseteq all
    BY <1>8, <1>9, ClosedHasAncestors
  <2> QED BY <2>2, <2>3, <2>4, <2>5
<1>14. /\ Told(all, r1, disk, ch)
       /\ ToldExactly(known, phaseroots, disk, changes) => ToldExactly(all, r1, disk, ch)
  <2>1. /\ Told(all, r0, disk, new) => Told(all, r1, disk, AdvanceChanges(new, r0, 0, pub))
        /\ ToldExactly(all, r0, disk, new) =>
              ToldExactly(all, r1, disk, AdvanceChanges(new, r0, 0, pub))
    BY <1>4, <1>9, <1>10, <1>13, AdvanceTells
  <2> QED BY <1>6, <1>12, <2>1
<1>15. /\ Told(known', phaseroots', disk, changes')
       /\ ToldExactly(known, phaseroots, disk, changes) =>
             ToldExactly(known', phaseroots', disk, changes')
  <2>1. /\ Told(all, r1, disk, ch) => Told(all, now, disk, AdvanceChanges(ch, r1, 1, dra))
        /\ ToldExactly(all, r1, disk, ch) =>
              ToldExactly(all, now, disk, AdvanceChanges(ch, r1, 1, dra))
    BY <1>6, <1>9, <1>11, <1>13, AdvanceTells
  <2> QED BY <1>7, <1>14, <2>1
<1>16. SetAsideAsItWas(phaseroots', disk', moves', bundle')
  <2>1. ASSUME MaxPhase <= Secret, NEW c \in csets
        PROVE  PhaseOf(now, c) = PhaseOf(disk.roots, c)
    <3>1. all = known \cup bundle.csets /\ c \in bundle.csets
      BY <1>1, <2>1
    <3>2. r0 = RetractRoots(all, phaseroots, bundle.target, bundle.csets)
      BY <1>1, <1>2
    <3>3. moves = 0 /\ bundle # Absent /\ MaxPhase <= Secret
      BY <1>7, <2>1
    <3>4. PhaseOf(AdvanceRoots(all, r1, 1, dra), c) = PhaseOf(disk.roots, c)
      <4> DEFINE Kept(a, s, d) == \A x \in bundle.csets :
                    PhaseOf(AdvanceRoots(a, s, 1, d), x) = PhaseOf(disk.roots, x)
                 Draft(a, s) == \A d : d = {x \in bundle.heads[1] : PhaseOf(s, x) # 1} =>
                                          Kept(a, s, d)
                 Public(a, r, p) == \A s : s = AdvanceRoots(a, r, 0, p) => Draft(a, s)
                 Target(a, r) == \A p : p = {x \in bundle.heads[0] : PhaseOf(r, x) # 0} =>
                                           Public(a, r, p)
      <4>1. \A a : a = known \cup bundle.csets =>
              \A r : r = RetractRoots(a, phaseroots, bundle.target, bundle.csets) =>
                Target(a, r)
        BY <3>3, ReapplyKeeps
      <4> HIDE DEF Target
      <4>2. Target(all, r0)
        BY <3>1, <3>2, <4>1
      <4> HIDE DEF Public
      <4>3. Public(all, r0, pub)
        BY <1>3, <4>2 DEF Target
      <4> HIDE DEF Draft
      <4>4. Draft(all, r1)
        BY <1>4, <4>3 DEF Public
      <4> HIDE DEF Kept
      <4>5. Kept(all, r1, dra)
        BY <1>5, <4>4 DEF Draft
      <4> QED BY <3>1, <4>5 DEF Kept
    <3> QED BY <1>6, <3>4
  <2> QED BY <1>1, <1>7, <1>8, <2>1 DEF SetAsideAsItWas
<1>17. History(known', phaseroots', disk', changes', moves', bundle')
  BY <1>7, <1>9, <1>15, <1>16 DEF History
<1> QED BY <1>7, <1>15, <1>17, HistoryStays

\* What backupbundle() returns is a bundle.
LEMMA SavedIsPresent ==
    ASSUME NEW later \in SUBSET Changesets PROVE Saved(later) # Absent
<1> DEFINE Bundles == [csets : SUBSET Changesets, target : {1, Secret},
                       heads : [{0, 1} -> SUBSET Changesets],
                       was : UNION {[B -> Phase] : B \in SUBSET Changesets}]
           heads == [p \in {0, 1} |-> HeadsOf({c \in later : PhaseOf(phaseroots, c) = p})]
           was == [c \in later |-> PhaseOf(phaseroots, c)]
           target == IF \E c \in HeadsOf(later) : PhaseOf(phaseroots, c) = Secret
                       THEN Secret ELSE 1
<1>1. heads \in [{0, 1} -> SUBSET Changesets]
  BY DEF HeadsOf
<1>2. was \in [later -> Phase]
  BY PhaseIsHighest
<1>3. was \in UNION {[B -> Phase] : B \in SUBSET Changesets}
  BY <1>2
<1>4. target \in {1, Secret}
  OBVIOUS
<1>5. Saved(later) = [csets |-> later, target |-> target, heads |-> heads, was |-> was]
  BY DEF Saved
<1>6. Absent \notin Bundles
  BY PhasesAssumption
<1> HIDE DEF heads, was, target
<1>7. Saved(later) \in Bundles
  BY <1>1, <1>3, <1>4, <1>5
<1> QED BY <1>6, <1>7

\* What repair.strip() leaves and sets aside.
LEMMA StripHistory ==
    ASSUME PhasesHistory, NEW S \in SUBSET known, S # {}, StripFrom(S), PhasesIInv'
    PROVE  PhasesHistory'
<1>1. PICK gone, later :
        /\ gone = known \cap DescendantsOf(S) /\ later = {c \in known \ gone : c >= Least(gone)}
  OBVIOUS
<1>2. PICK left : left = known \ (gone \cup later)
  OBVIOUS
<1>3. /\ moves = 0 /\ bundle = Absent /\ ancestors' = ancestors /\ changes' = changes
      /\ moves' = 0 /\ known' = left /\ phaseroots' = Filtered(phaseroots, left)
      /\ bundle' = IF later = {} THEN Absent ELSE Saved(later)
      /\ disk' = [known |-> left, roots |-> IF later = {} THEN phaseroots' ELSE disk.roots]
  BY <1>1, <1>2 DEF StripFrom
<1>4. /\ disk.roots \in [Tracked -> SUBSET disk.known] /\ known = disk.known
      /\ phaseroots = Filtered(disk.roots, disk.known) /\ DOMAIN changes = {}
      /\ Rooted(known, phaseroots)
  BY <1>3, Known DEF PhasesHistory, History, PhasesIInv, Inv, Changes
<1>5. phaseroots = disk.roots
  BY <1>4 DEF Filtered
<1>6. PICK roots : roots = IF later = {} THEN phaseroots' ELSE disk.roots
  OBVIOUS
<1>7. disk'.known = left /\ disk'.roots = roots
  BY <1>3, <1>6
<1>8. IsClosed(left)
  <2>1. IsClosed(left)'
    BY <1>3 DEF PhasesIInv, Inv, Repository, Rooted
  <2> QED BY <1>3, <2>1 DEF IsClosed, AncestorsOf
<1>9. phaseroots' = Filtered(roots, left)
  <2>1. Filtered(Filtered(phaseroots, left), left) = Filtered(phaseroots, left)
    BY DEF Filtered
  <2> QED BY <1>3, <1>5, <1>6, <2>1
<1>10. Told(known', phaseroots', disk', changes')
  <2>1. PICK dk, now : dk = disk' /\ now = phaseroots'
    OBVIOUS
  <2>2. dk.known = left /\ now = Filtered(dk.roots, dk.known)
    BY <1>7, <1>9, <2>1
  <2>3. Told(left, now, dk, changes)
    BY <1>4, <1>8, <2>2, NothingMoved
  <2> QED BY <1>3, <2>1, <2>3
<1>11. ASSUME later = {} PROVE roots \in [Tracked -> SUBSET left]
  BY <1>3, <1>6, <1>11 DEF Filtered
<1>12. ASSUME later # {} PROVE SetAsideAsItWas(phaseroots', disk', moves', bundle')
  <2>1. bundle' = Saved(later) /\ roots = phaseroots
    BY <1>3, <1>5, <1>6, <1>12
  <2>2. /\ bundle'.csets = later
        /\ bundle'.was = [c \in later |-> PhaseOf(roots, c)]
        /\ bundle'.target = IF \E c \in HeadsOf(later) : PhaseOf(roots, c) = Secret
                              THEN Secret ELSE 1
        /\ \A p \in {0, 1} :
              bundle'.heads[p] = HeadsOf({c \in later : PhaseOf(roots, c) = p})
    BY <2>1 DEF Saved
  <2>3. later \in SUBSET Changesets /\ later \cap left = {}
    BY <1>1, <1>2, <1>4 DEF Rooted
  <2>4. PICK now, dk, mv, bn :
          now = phaseroots' /\ dk = disk' /\ mv = moves' /\ bn = bundle'
    OBVIOUS
  <2>5. bn.csets = later /\ dk.known = left /\ dk.roots = roots /\ mv = 0
    BY <1>3, <1>7, <2>2, <2>4
  <2>6. /\ bn.csets \in SUBSET Changesets /\ bn.csets \cap dk.known = {}
        /\ bn.was = [c \in bn.csets |-> PhaseOf(dk.roots, c)]
    BY <2>2, <2>3, <2>4, <2>5
  <2>7. bn.target = IF \E c \in HeadsOf(bn.csets) : PhaseOf(dk.roots, c) = Secret
                      THEN Secret ELSE 1
    BY <2>2, <2>4, <2>5
  <2>8. \A p \in {0, 1} :
           bn.heads[p] = HeadsOf({c \in bn.csets : PhaseOf(dk.roots, c) = p})
    BY <2>2, <2>4, <2>5
  <2>9. ~(mv > 0)
    BY <2>5
  <2>10. SetAsideAsItWas(now, dk, mv, bn)
    BY <2>6, <2>7, <2>8, <2>9 DEF SetAsideAsItWas
  <2> QED BY <2>4, <2>10
<1>13. History(known', phaseroots', disk', changes', moves', bundle')
  <2>1. disk'.known \subseteq known' /\ known' = disk'.known
        /\ phaseroots' = Filtered(disk'.roots, disk'.known)
    BY <1>3, <1>7, <1>9
  <2>2. bundle' = Absent => disk'.roots \in [Tracked -> SUBSET disk'.known]
    <3>1. later \in SUBSET Changesets
      BY <1>1, <1>4 DEF Rooted
    <3>2. Saved(later) # Absent
      BY <3>1, SavedIsPresent
    <3> QED BY <1>3, <1>7, <1>11, <3>2
  <2>3. bundle' # Absent => SetAsideAsItWas(phaseroots', disk', moves', bundle')
    BY <1>3, <1>12
  <2> QED BY <1>3, <1>10, <2>1, <2>2, <2>3 DEF History
<1> QED BY <1>3, <1>13, HistoryStays

\* The file of roots is written, ...
LEMMA CommitHistory ==
    ASSUME PhasesHistory, Commit, PhasesIInv'
    PROVE  PhasesHistory'
<1>1. /\ ancestors' = ancestors /\ known' = known /\ phaseroots' = phaseroots
      /\ disk' = [known |-> known, roots |-> phaseroots]
      /\ moves' = 0 /\ changes' = <<>> /\ bundle' = Absent
  BY DEF Commit
<1>2. Rooted(known, phaseroots)
  BY Known
<1>3. phaseroots \in [Tracked -> SUBSET known] /\ IsClosed(known)
  BY <1>2 DEF Rooted
<1>4. PICK dk : dk = [known |-> known, roots |-> phaseroots]
  OBVIOUS
<1>5. dk.known = known /\ dk.roots = phaseroots
  BY <1>4
<1>6. phaseroots = Filtered(dk.roots, dk.known)
  BY <1>3, <1>5 DEF Filtered
<1>7. Told(known, phaseroots, dk, <<>>)
  <2>1. DOMAIN <<>> = {}
    OBVIOUS
  <2>2. PICK ch : ch = <<>>
    OBVIOUS
  <2> QED BY <1>3, <1>5, <1>6, <2>1, <2>2, NothingMoved
<1>8. History(known', phaseroots', disk', changes', moves', bundle')
  BY <1>1, <1>3, <1>4, <1>5, <1>6, <1>7 DEF History
<1> QED BY <1>1, <1>8, HistoryStays

\* ... or read again.
LEMMA AbortHistory ==
    ASSUME PhasesHistory, Abort, PhasesIInv'
    PROVE  PhasesHistory'
<1>1. /\ ancestors' = ancestors /\ known' = disk.known
      /\ phaseroots' = Filtered(disk.roots, disk.known)
      /\ moves' = 0 /\ changes' = <<>> /\ disk' = disk /\ bundle' = bundle
  BY DEF Abort
<1>2. IsClosed(disk.known)
  BY DEF PhasesHistory, PhasesIInv, Inv, Committed
<1>3. Told(known', phaseroots', disk, changes')
  <2>1. DOMAIN <<>> = {}
    OBVIOUS
  <2>2. PICK ch, now, csets : ch = <<>> /\ now = Filtered(disk.roots, disk.known) /\ csets = disk.known
    OBVIOUS
  <2>3. Told(csets, now, disk, ch)
    BY <1>2, <2>1, <2>2, NothingMoved
  <2> QED BY <1>1, <2>2, <2>3
<1>4. bundle # Absent => SetAsideAsItWas(phaseroots', disk', moves', bundle')
  BY <1>1 DEF PhasesHistory, History, SetAsideAsItWas
<1>5. History(known', phaseroots', disk', changes', moves', bundle')
  BY <1>1, <1>3, <1>4 DEF History, PhasesHistory
<1> QED BY <1>1, <1>5, HistoryStays

\* The first transaction starts from what was committed.
LEMMA InitHistory == PhasesInit => PhasesHistory
<1> SUFFICES ASSUME PhasesInit PROVE PhasesHistory
  OBVIOUS
<1>1. PhasesIInv
  BY InitInv
<1>2. /\ disk = [known |-> known, roots |-> phaseroots] /\ changes = <<>> /\ moves = 0
      /\ bundle = Absent /\ IsClosed(known) /\ phaseroots \in [Tracked -> SUBSET known]
  BY DEF PhasesInit
<1>3. disk.known = known /\ disk.roots = phaseroots
  BY <1>2
<1>4. phaseroots = Filtered(disk.roots, disk.known)
  BY <1>2, <1>3 DEF Filtered
<1>5. Told(known, phaseroots, disk, changes)
  <2>1. DOMAIN changes = {}
    BY <1>2
  <2> QED BY <1>2, <1>3, <1>4, <2>1, NothingMoved
<1> QED BY <1>1, <1>2, <1>3, <1>4, <1>5 DEF PhasesHistory, History

\* Every operation keeps the invariant.
LEMMA NextHistory == PhasesHistory /\ [PhasesNext]_phasevars => PhasesHistory'
<1> SUFFICES ASSUME PhasesHistory, [PhasesNext]_phasevars PROVE PhasesHistory'
  OBVIOUS
<1>1. PhasesIInv'
  BY NextInv DEF PhasesHistory
<1>2. CASE PhasesNext
  <2>1. ASSUME NEW t \in Phase, NEW S \in SUBSET known, Advance(t, S)
        PROVE  PhasesHistory'
    BY <1>1, <2>1, AdvanceStepTells, MoveHistory DEF Advance
  <2>2. ASSUME NEW t \in Phase, NEW S \in SUBSET known, Retract(t, S)
        PROVE  PhasesHistory'
    BY <1>1, <2>2, RetractStepTells, MoveHistory DEF Retract
  <2>3. ASSUME NEW t \in Phase, NEW new \in SUBSET Changesets, Register(t, new)
        PROVE  PhasesHistory'
    BY <1>1, <2>3, RegisterTells, MoveHistory DEF Register
  <2>4. ASSUME NEW t \in {0, 1}, NEW new \in SUBSET Changesets, NEW dup \in SUBSET known,
               Receive(t, new, dup)
        PROVE  PhasesHistory'
    BY <1>1, <2>4, ReceiveTells, MoveHistory DEF Receive
  <2>5. ASSUME NEW S \in SUBSET known, S # {}, StripFrom(S)
        PROVE  PhasesHistory'
    BY <1>1, <2>5, StripHistory
  <2>6. CASE Commit \/ Abort \/ Reapply
    BY <1>1, <2>6, CommitHistory, AbortHistory, ReapplyHistory
  <2> QED BY <1>2, <2>1, <2>2, <2>3, <2>4, <2>5, <2>6, Zenon DEF PhasesNext
<1>3. CASE UNCHANGED phasevars
  <2>1. UNCHANGED <<ancestors, known, phaseroots, disk, changes, moves, bundle>>
    BY <1>3 DEF phasevars
  <2>2. History(known', phaseroots', disk', changes', moves', bundle')
    BY <2>1 DEF PhasesHistory
  <2> QED BY <1>1, <2>1, <2>2, HistoryStays
<1> QED BY <1>2, <1>3

-----------------------------------------------------------------------------
(* Theorems *)

\* The invariant of any sequence of transactions.
THEOREM Invariance == PhasesSpec => []PhasesIInv
BY InitInv, NextInv, PTL DEF PhasesSpec

\* The roots are changesets of the repository, and tr.changes says nothing of others.
THEOREM TypeCorrect == PhasesSpec => []PhasesTypeOK
<1>1. PhasesIInv => PhasesTypeOK
  BY DEF PhasesIInv, Inv, Repository, Rooted, Committed, SetAside, Changes, Noted, PhasesTypeOK
<1> QED
  BY <1>1, Invariance, PTL

\* "Simplify boundary to contains phase roots only": no root of a phase descends
\* from another, whatever was moved, rolled back, stripped and applied again.
THEOREM RootsAreMinimal == PhasesSpec => []RootsMinimal
<1>1. PhasesIInv => RootsMinimal
  BY DEF PhasesIInv, Inv, Repository, Minimal, RootsMinimal
<1> QED
  BY <1>1, Invariance, PTL

\* advanceboundary(), retractboundary() and registernew() move the changesets that
\* hg help phases says and no other, on every graph and from any phases.
THEOREM MovesAreAsAsked == PhasesSpec => []MovesAsAsked
<1>1. PhasesIInv => MovesAsAsked
  BY RootedMovesAsAsked DEF PhasesIInv, Inv, Repository
<1> QED
  BY <1>1, Invariance, PTL

\* What was committed is what tr.changes is told from, in every reachable state.
THEOREM Past == PhasesSpec => []PhasesHistory
BY InitHistory, NextHistory, PTL DEF PhasesSpec

\* StripKeepsPhases: what a strip had to set aside comes back in the phases it had, if
\* there are none above secret.
THEOREM StripsKeepPhases ==
    ASSUME MaxPhase <= Secret
    PROVE  PhasesSpec => []StripKeepsPhases
<1>1. PhasesHistory => StripKeepsPhases
  <2> SUFFICES ASSUME PhasesHistory, bundle # Absent, moves > 0, NEW c \in bundle.csets
               PROVE  PhaseOf(phaseroots, c) = bundle.was[c]
    BY DEF StripKeepsPhases
  <2>1. SetAsideAsItWas(phaseroots, disk, moves, bundle)
    BY DEF PhasesHistory, History
  <2> QED BY <2>1 DEF SetAsideAsItWas
<1> QED BY <1>1, Past, PTL

\* MovesAreRecorded: no change of phase is missing from tr.changes, and operations
\* that raise no phase leave in it what happened to each changeset and no other.
THEOREM MovesAlwaysRecorded == PhasesSpec => MovesAreRecorded
<1>1. PhasesHistory => MovesAreTracked
  BY DEF PhasesHistory, History, Told, Before, MovesAreTracked, Moved, Old
<1>2. PhasesIInv => (Exact <=> ToldExactly(known, phaseroots, disk, changes))
  <2> SUFFICES ASSUME PhasesIInv
               PROVE  Exact <=> ToldExactly(known, phaseroots, disk, changes)
    OBVIOUS
  <2>1. \A c \in DOMAIN changes : changes[c] \in Movements
    BY DEF PhasesIInv, Inv, Changes, Noted
  <2>2. ASSUME NEW c \in DOMAIN changes
        PROVE  changes[c] = MoveOf(c) <=>
                  changes[c].old = Before(disk, c) /\ changes[c].new = PhaseOf(phaseroots, c)
    BY <2>1 DEF MoveOf, Old, Before, Movements
  <2> QED BY <2>2 DEF Exact, ToldExactly, Moved, Old, Before
<1>3. ASSUME PhasesHistory, PhasesNext, PhasesHistory', Exact, moves' > 0, ~Raises
      PROVE  Exact'
  <2>1. ToldExactly(known, phaseroots, disk, changes)
    BY <1>2, <1>3 DEF PhasesHistory
  <2>2. ancestors' = ancestors
    BY <1>3 DEF PhasesNext, Advance, Retract, Register, Receive, Commit, Abort, StripFrom, Reapply
  <2>3. \A r, c : PhaseOf(r, c)' = PhaseOf(r, c)
    BY <2>2 DEF PhaseOf
  <2>4. ToldExactly(known', phaseroots', disk, changes') /\ disk' = disk
    <3>1. ASSUME NEW t \in Phase, NEW S \in SUBSET known, Advance(t, S)
          PROVE  ToldExactly(known', phaseroots', disk, changes') /\ disk' = disk
      BY <1>3, <2>1, <3>1, AdvanceStepTells DEF Advance, Move
    <3>2. ASSUME NEW t \in Phase, NEW S \in SUBSET known, Retract(t, S)
          PROVE  ToldExactly(known', phaseroots', disk, changes') /\ disk' = disk
      <4>1. \A c \in known : ~(PhaseOf(phaseroots, c) < PhaseOf(phaseroots', c))
        <5>1. PICK now : now = phaseroots'
          OBVIOUS
        <5>2. \A c \in known : PhaseOf(phaseroots, c)' = PhaseOf(now, c)
          BY <2>2, <5>1 DEF PhaseOf
        <5>3. known' = known
          BY <3>2 DEF Retract
        <5> QED BY <1>3, <5>1, <5>2, <5>3 DEF Raises
      <4> QED BY <1>3, <2>1, <3>2, <4>1, RetractStepTells DEF Retract, Move
    <3>3. ASSUME NEW t \in Phase, NEW new \in SUBSET Changesets, Register(t, new)
          PROVE  ToldExactly(known', phaseroots', disk, changes') /\ disk' = disk
      BY <1>3, <2>1, <3>3, RegisterTells DEF Register, Move
    <3>4. ASSUME NEW t \in {0, 1}, NEW new \in SUBSET Changesets, NEW dup \in SUBSET known,
                 Receive(t, new, dup)
          PROVE  ToldExactly(known', phaseroots', disk, changes') /\ disk' = disk
      BY <1>3, <2>1, <3>4, ReceiveTells DEF Receive, Move
    <3>5. CASE Reapply
      BY <1>3, <2>1, <3>5, ReapplyHistory DEF Reapply, PhasesHistory
    <3>6. ~Commit /\ ~Abort /\ \A S : ~StripFrom(S)
      BY <1>3 DEF Commit, Abort, StripFrom
    <3> QED BY <1>3, <3>1, <3>2, <3>3, <3>4, <3>5, <3>6, Zenon DEF PhasesNext
  <2>5. ToldExactly(known, phaseroots, disk, changes)'
    <3>1. PICK csets, roots, dk, ch :
            csets = known' /\ roots = phaseroots' /\ dk = disk' /\ ch = changes'
      OBVIOUS
    <3>2. ToldExactly(csets, roots, dk, ch)
      BY <2>4, <3>1
    <3>3. ToldExactly(csets, roots, dk, ch)' = ToldExactly(csets, roots, dk, ch)
      BY <2>3 DEF ToldExactly, Before
    <3> QED BY <3>1, <3>2, <3>3
  <2>6. (Exact <=> ToldExactly(known, phaseroots, disk, changes))'
    BY <1>2, <1>3, PTL DEF PhasesHistory
  <2> QED BY <2>5, <2>6
<1>4. PhasesHistory /\ PhasesHistory' /\ [PhasesNext]_phasevars =>
        [/\ MovesAreTracked'
         /\ Exact /\ moves' > 0 /\ ~Raises => Exact']_phasevars
  <2>1. PhasesHistory' => MovesAreTracked'
    BY <1>1, PTL
  <2> QED BY <1>3, <2>1
<1> QED BY <1>4, Past, PTL DEF PhasesSpec, MovesAreRecorded
=============================================================================
