----------------------------- MODULE StripProofs -----------------------------
(***************************************************************************)
(* Theorems about Strip.tla, for every graph of changesets, any files and  *)
(* any number of strips, deaths and errors:                                *)
(*   - TypesAreKept: the type invariant;                                   *)
(*   - NothingIsLost: what is to stay can always be had back;              *)
(*   - StripsAreExact: a strip cuts where it should and takes away what it *)
(*     should;                                                             *)
(*   - LinksStayGood: file revisions are linked to their changesets.       *)
(* They take it that the process does not die while endgroup() writes.     *)
(*                                                                         *)
(* The argument: what matters is not the logs as they are but as the       *)
(* journal makes them when it is played (ClPlayed, FlPlayed).  A strip     *)
(* writes where it is going to cut before it cuts, so from then on the     *)
(* logs played are those of the repository that stays, whatever has been   *)
(* cut; they and the temporary bundle fit together (Fit) and have all that *)
(* is to stay (Kept), and no later step changes either until the bundle is *)
(* applied and the journal goes.                                           *)
(***************************************************************************)
EXTENDS Strip, DagProofs, SequenceTheorems, FiniteSetTheorems

\* The members of a finite set as a sequence.
LEMMA InSetToSeqs ==
    ASSUME NEW S, IsFiniteSet(S), NEW t \in SetToSeqs(S)
    PROVE  /\ t \in Seq(S) /\ Range(t) = S
           /\ \A i, j \in DOMAIN t : t[i] = t[j] => i = j
<1> DEFINE D == 1..Cardinality(S)
<1>1. Cardinality(S) \in Nat
  BY FS_CardinalityType
<1>2. t \in [D -> S] /\ \A i, j \in D : i # j => t[i] # t[j]
  BY DEF SetToSeqs
<1>3. IsFiniteSet(D) /\ Cardinality(D) = Cardinality(S)
  BY <1>1, FS_Interval
<1>4. t \in Injection(D, S)
  BY <1>2 DEF Injection, IsInjective
<1>5. t \in Surjection(D, S)
  BY <1>3, <1>4, FS_Injection
<1>6. Range(t) = S
  BY <1>2, <1>5 DEF Surjection, Range
<1> QED
  BY <1>1, <1>2, <1>6, SeqDef

-----------------------------------------------------------------------------
(* resolvestripinfo() *)

\* What is in a log.
LEMMA LogTypes ==
    ASSUME NEW s \in Seq(Rev)
    PROVE  /\ Len(s) \in Nat /\ DOMAIN s = 1..Len(s)
           /\ \A r \in DOMAIN s : s[r].link \in Int /\ s[r].node \in Int
           /\ \A r \in DOMAIN s : s[r].link \in Changesets /\ s[r].node \in Changesets
<1>1. Len(s) \in Nat /\ DOMAIN s = 1..Len(s) /\ s \in [1..Len(s) -> Rev]
  BY LenProperties
<1>2. \A r \in DOMAIN s : s[r].link \in Changesets /\ s[r].node \in Changesets
  BY <1>1 DEF Rev
<1>3. \A c \in Changesets : c \in Int
  BY DagAssumption DEF Changesets
<1> QED BY <1>1, <1>2, <1>3

\* A log on which the walk relies: parents come first, by revision and by link, and
\* no two revisions have the same link.
LinksGoUp(f) ==
    /\ filelog[f] \in Seq(Rev)
    /\ \A r, q \in DOMAIN filelog[f] : filelog[f][r].link = filelog[f][q].link => r = q
    /\ \A r \in DOMAIN filelog[f] : \A q \in ParentRevs(f, r) :
          q < r /\ filelog[f][q].link < filelog[f][r].link

WalkFrom(f, m) ==
    [point |-> Len(filelog[f]) + 1, broken |-> {}, large |-> LargeLinks(f, HeadRevs(f), m)]

WalkOn(f, m, s) == IF s.large = {} THEN s ELSE WalkDown(f, m, s)

\* The walk is what its definition says, from its start to its end.
LEMMA WalkIs ==
    ASSUME NEW f, NEW m, Len(filelog[f]) \in Nat
    PROVE  Walk(f, m) = [k \in 0..Len(filelog[f]) |->
              IF k = 0 THEN WalkFrom(f, m) ELSE WalkOn(f, m, Walk(f, m)[k - 1])]
<1> DEFINE IsWalk(n, w) ==
        w = [k \in 0..n |-> IF k = 0 THEN WalkFrom(f, m) ELSE WalkOn(f, m, w[k - 1])]
           Without == {n \in Nat : ~ \E w : IsWalk(n, w)}
<1>1. Without = {}
  <2> SUFFICES ASSUME Without # {} PROVE FALSE
    OBVIOUS
  <2>1. PICK n \in Without : \A x \in Without : n <= x
    <3>1. Without \in SUBSET Nat
      OBVIOUS
    <3> HIDE DEF Without
    <3> QED BY <3>1, HasLeast
  <2>2. n # 0
    <3>1. IsWalk(0, [k \in 0..0 |-> WalkFrom(f, m)])
      OBVIOUS
    <3> HIDE DEF IsWalk
    <3> QED BY <2>1, <3>1
  <2>3. n - 1 \in Nat /\ n - 1 \notin Without
    <3>1. n \in Nat /\ n - 1 \in Nat
      BY <2>2
    <3> HIDE DEF Without
    <3> QED BY <2>1, <3>1
  <2>4. PICK w : IsWalk(n - 1, w)
    <3> HIDE DEF IsWalk
    <3> QED BY <2>3
  <2> DEFINE v == [k \in 0..n |-> IF k = n THEN WalkOn(f, m, w[n - 1]) ELSE w[k]]
  <2>5. \A k \in 0..n : v[k] = IF k = 0 THEN WalkFrom(f, m) ELSE WalkOn(f, m, v[k - 1])
    <3> SUFFICES ASSUME NEW k \in 0..n
                 PROVE  v[k] = IF k = 0 THEN WalkFrom(f, m) ELSE WalkOn(f, m, v[k - 1])
      OBVIOUS
    <3>1. CASE k = n
      BY <2>2, <2>3, <3>1
    <3>2. CASE k # n
      <4>1. k \in 0..(n - 1) /\ v[k] = w[k]
        BY <2>3, <3>2
      <4>2. k # 0 => v[k - 1] = w[k - 1]
        BY <2>3, <4>1
      <4> QED BY <2>4, <4>1, <4>2
    <3> QED BY <3>1, <3>2
  <2>6. IsWalk(n, v)
    BY <2>5
  <2> QED
    <3> HIDE DEF IsWalk, v
    <3> QED BY <2>1, <2>6
<1>2. \E w : IsWalk(Len(filelog[f]), w)
  <2> HIDE DEF IsWalk
  <2> QED BY <1>1
<1>3. Walk(f, m) = CHOOSE w : IsWalk(Len(filelog[f]), w)
  BY DEF Walk, WalkFrom, WalkOn
<1>4. IsWalk(Len(filelog[f]), Walk(f, m))
  <2> HIDE DEF IsWalk
  <2> QED BY <1>2, <1>3
<1> QED BY <1>4

\* The links the walk knows to be ahead of it: those of the heads, and of the parents
\* of what it has passed.
Ahead(f, m, p) ==
    {filelog[f][q].link : q \in
        {i \in DOMAIN filelog[f] :
            /\ i < p /\ filelog[f][i].link >= m
            /\ i \in HeadRevs(f) \/ \E r \in DOMAIN filelog[f] : r >= p /\ i \in ParentRevs(f, r)}}

Large(f, m) == {r \in DOMAIN filelog[f] : filelog[f][r].link >= m}

\* It knows of one as long as there is one.
LEMMA AheadIsKnown ==
    ASSUME NEW f, NEW m \in Int, NEW p \in Int, LinksGoUp(f),
           NEW i \in Large(f, m), i < p
    PROVE  Ahead(f, m, p) # {}
<1> DEFINE S == {q \in Large(f, m) : q < p}
<1>1. /\ Len(filelog[f]) \in Nat /\ DOMAIN filelog[f] = 1..Len(filelog[f])
      /\ \A r \in DOMAIN filelog[f] : filelog[f][r].link \in Int
  BY LogTypes DEF LinksGoUp
<1>2. S \in SUBSET (0..Len(filelog[f])) /\ S # {}
  BY <1>1 DEF Large
<1>3. PICK g \in S : \A q \in S : q <= g
  <2> HIDE DEF S
  <2> QED BY <1>1, <1>2, HasGreatest
<1>4. g \in DOMAIN filelog[f] /\ filelog[f][g].link >= m /\ g < p /\ g \in Int
  BY <1>1 DEF Large
<1>5. g \in HeadRevs(f) \/ \E r \in DOMAIN filelog[f] : r >= p /\ g \in ParentRevs(f, r)
  <2> SUFFICES ASSUME g \notin HeadRevs(f)
               PROVE  \E r \in DOMAIN filelog[f] : r >= p /\ g \in ParentRevs(f, r)
    OBVIOUS
  <2>1. PICK r \in DOMAIN filelog[f] : g \in ParentRevs(f, r)
    BY <1>4 DEF HeadRevs
  <2>2. g < r /\ filelog[f][g].link < filelog[f][r].link
    BY <2>1 DEF LinksGoUp
  <2>3. r \in Large(f, m)
    BY <1>1, <1>4, <2>2 DEF Large
  <2>4. ~(r < p)
    <3> SUFFICES ASSUME r < p PROVE FALSE
      OBVIOUS
    <3>1. r \in S
      BY <2>3
    <3> QED BY <1>1, <1>3, <1>4, <2>2, <3>1
  <2> QED BY <1>1, <2>1, <2>4
<1>6. filelog[f][g].link \in Ahead(f, m, p)
  BY <1>4, <1>5 DEF Ahead
<1> QED BY <1>6

\* What is known at each round.
WalkInv(f, m, s, k) ==
    /\ s.point \in 1..(Len(filelog[f]) + 1)
    /\ s.large = {} \/ s.point = Len(filelog[f]) + 1 - k
    /\ s.large = Ahead(f, m, s.point)
    /\ s.broken = {r \in DOMAIN filelog[f] : r >= s.point} \ Large(f, m)
    /\ s.point # Len(filelog[f]) + 1 => \E q \in Large(f, m) : q <= s.point

LEMMA WalkStarts ==
    ASSUME NEW f, NEW m \in Int, LinksGoUp(f)
    PROVE  WalkInv(f, m, WalkFrom(f, m), 0)
<1>1. /\ Len(filelog[f]) \in Nat /\ DOMAIN filelog[f] = 1..Len(filelog[f])
      /\ HeadRevs(f) \subseteq DOMAIN filelog[f]
  BY DEF LinksGoUp, HeadRevs
<1>2. Ahead(f, m, Len(filelog[f]) + 1) = LargeLinks(f, HeadRevs(f), m)
  BY <1>1 DEF Ahead, LargeLinks
<1>3. {r \in DOMAIN filelog[f] : r >= Len(filelog[f]) + 1} = {}
  BY <1>1
<1> QED BY <1>1, <1>2, <1>3 DEF WalkInv, WalkFrom

LEMMA WalkGoesOn ==
    ASSUME NEW f, NEW m \in Int, LinksGoUp(f), NEW k \in Nat, NEW s,
           WalkInv(f, m, s, k)
    PROVE  WalkInv(f, m, WalkOn(f, m, s), k + 1)
<1>1. /\ Len(filelog[f]) \in Nat /\ DOMAIN filelog[f] = 1..Len(filelog[f])
      /\ \A r \in DOMAIN filelog[f] : filelog[f][r].link \in Int
  BY LogTypes DEF LinksGoUp
<1>2. CASE s.large = {}
  BY <1>2 DEF WalkInv, WalkOn
<1>3. CASE s.large # {}
  <2> DEFINE r == s.point - 1
             t == WalkDown(f, m, s)
             F == filelog[f]
  <2>1. PICK q \in Large(f, m) : q < s.point
    BY <1>3 DEF WalkInv, Ahead, Large
  <2>2. s.point \in Int /\ r \in DOMAIN F /\ r \in Int /\ q <= r
    BY <1>1, <2>1 DEF WalkInv, Large
  <2>3. /\ t.point = r /\ t.large = (s.large \ {F[r].link}) \cup LargeLinks(f, ParentRevs(f, r), m)
        /\ t.broken = IF F[r].link < m THEN s.broken \cup {r} ELSE s.broken
    BY DEF WalkDown
  <2> HIDE DEF t
  <2>4. t.point = Len(F) + 1 - (k + 1) /\ t.point \in 1..(Len(F) + 1)
    <3>1. s.point = Len(F) + 1 - k /\ s.point \in 1..(Len(F) + 1)
      BY <1>3 DEF WalkInv
    <3>2. t.point = s.point - 1 /\ s.point - 1 \in 1..Len(F) /\ Len(F) \in Nat
      BY <1>1, <2>2, <2>3
    <3> HIDE DEF F, r
    <3> QED BY <3>1, <3>2
  <2>5. t.broken = {i \in DOMAIN F : i >= r} \ Large(f, m)
    <3>1. s.broken = {i \in DOMAIN F : i >= s.point} \ Large(f, m)
      BY DEF WalkInv
    <3>2. {i \in DOMAIN F : i >= r} = {i \in DOMAIN F : i >= s.point} \cup {r}
      BY <1>1, <2>2
    <3>3. r \in Large(f, m) <=> ~(F[r].link < m)
      BY <1>1, <2>2 DEF Large
    <3> QED BY <2>3, <3>1, <3>2, <3>3
  <2>6. t.large \subseteq Ahead(f, m, r)
    <3> SUFFICES ASSUME NEW l \in t.large PROVE l \in Ahead(f, m, r)
      OBVIOUS
    <3>1. CASE l \in s.large /\ l # F[r].link
      <4>1. PICK i \in DOMAIN F :
               /\ l = F[i].link /\ i < s.point /\ F[i].link >= m
               /\ i \in HeadRevs(f) \/ \E j \in DOMAIN F : j >= s.point /\ i \in ParentRevs(f, j)
        BY <3>1 DEF WalkInv, Ahead
      <4>2. i < r
        BY <1>1, <2>2, <3>1, <4>1
      <4>3. i \in HeadRevs(f) \/ \E j \in DOMAIN F : j >= r /\ i \in ParentRevs(f, j)
        BY <1>1, <2>2, <4>1
      <4> QED BY <4>1, <4>2, <4>3 DEF Ahead
    <3>2. CASE l \in LargeLinks(f, ParentRevs(f, r), m)
      <4>1. PICK i \in ParentRevs(f, r) : l = F[i].link /\ F[i].link >= m
        BY <3>2 DEF LargeLinks
      <4>2. i \in DOMAIN F /\ i < r
        BY <2>2, <4>1 DEF LinksGoUp, ParentRevs
      <4> QED BY <2>2, <4>1, <4>2 DEF Ahead
    <3> QED BY <2>3, <3>1, <3>2
  <2>7. Ahead(f, m, r) \subseteq t.large
    <3> SUFFICES ASSUME NEW l \in Ahead(f, m, r) PROVE l \in t.large
      OBVIOUS
    <3>1. PICK i \in DOMAIN F :
             /\ l = F[i].link /\ i < r /\ F[i].link >= m
             /\ i \in HeadRevs(f) \/ \E j \in DOMAIN F : j >= r /\ i \in ParentRevs(f, j)
      BY DEF Ahead
    <3>2. l # F[r].link
      BY <1>1, <2>2, <3>1 DEF LinksGoUp
    <3>3. CASE i \in HeadRevs(f)
      <4>1. l \in Ahead(f, m, s.point)
        BY <1>1, <2>2, <3>1, <3>3 DEF Ahead
      <4> QED BY <2>3, <3>2, <4>1 DEF WalkInv
    <3>4. ASSUME NEW j \in DOMAIN F, j >= r, i \in ParentRevs(f, j) PROVE l \in t.large
      <4>1. CASE j = r
        <5>1. l \in LargeLinks(f, ParentRevs(f, r), m)
          BY <3>1, <3>4, <4>1 DEF LargeLinks
        <5> QED BY <2>3, <5>1
      <4>2. CASE j >= s.point
        <5>1. l \in Ahead(f, m, s.point)
          <6>1. i < s.point
            BY <1>1, <2>2, <3>1
          <6> QED BY <3>1, <3>4, <4>2, <6>1 DEF Ahead
        <5> QED BY <2>3, <3>2, <5>1 DEF WalkInv
      <4> QED BY <1>1, <2>2, <3>4, <4>1, <4>2
    <3> QED BY <3>1, <3>3, <3>4
  <2>8. WalkOn(f, m, s) = t
    BY <1>3 DEF WalkOn, t
  <2> QED BY <2>1, <2>2, <2>3, <2>4, <2>5, <2>6, <2>7, <2>8 DEF WalkInv
<1> QED BY <1>2, <1>3

\* It ends at the first revision linked to m or later, and has seen all those after
\* it that are linked to an earlier one.
LEMMA WalkEnds ==
    ASSUME NEW f, NEW m \in Int, LinksGoUp(f)
    PROVE  LET s == StripInfo(f, m) IN
           /\ s.point \in Large(f, m) \cup {Len(filelog[f]) + 1}
           /\ \A r \in Large(f, m) : s.point <= r
           /\ s.broken = {r \in DOMAIN filelog[f] : r > s.point} \ Large(f, m)
<1> DEFINE n == Len(filelog[f])
           w == Walk(f, m)
<1>1. n \in Nat /\ DOMAIN filelog[f] = 1..n
  BY DEF LinksGoUp
<1>2. w = [k \in 0..n |-> IF k = 0 THEN WalkFrom(f, m) ELSE WalkOn(f, m, w[k - 1])]
  BY <1>1, WalkIs
<1> HIDE DEF w
<1>3. \A k \in 0..n : WalkInv(f, m, w[k], k)
  <2> DEFINE Bad == {k \in 0..n : ~WalkInv(f, m, w[k], k)}
  <2> SUFFICES ASSUME Bad # {} PROVE FALSE
    OBVIOUS
  <2>1. PICK k \in Bad : \A x \in Bad : k <= x
    <3>1. Bad \in SUBSET Nat
      BY <1>1
    <3> HIDE DEF Bad
    <3> QED BY <3>1, HasLeast
  <2>2. k # 0
    BY <1>1, <1>2, <2>1, WalkStarts
  <2>3. k - 1 \in Nat /\ k - 1 \in 0..n /\ k \in 0..n
    BY <1>1, <2>2
  <2>4. k - 1 \notin Bad
    <3> HIDE DEF Bad
    <3> QED BY <1>1, <2>1, <2>3
  <2>5. WalkInv(f, m, w[k - 1], k - 1)
    BY <2>3, <2>4
  <2>6. w[k] = WalkOn(f, m, w[k - 1])
    BY <1>2, <2>2, <2>3
  <2>7. WalkInv(f, m, w[k], (k - 1) + 1)
    BY <2>3, <2>5, <2>6, WalkGoesOn
  <2>8. (k - 1) + 1 = k
    BY <2>3
  <2> QED BY <2>1, <2>7, <2>8
<1> DEFINE s == w[n]
<1>4. WalkInv(f, m, s, n) /\ s = StripInfo(f, m)
  BY <1>1, <1>3 DEF StripInfo, w
<1> HIDE DEF s
<1>5. s.point \in Int
  BY <1>1, <1>4 DEF WalkInv
<1>6. Large(f, m) \subseteq 1..n
  BY <1>1 DEF Large
<1>7. Ahead(f, m, s.point) = {}
  <2>1. s.large = Ahead(f, m, s.point) /\ (s.large = {} \/ s.point = n + 1 - n)
    BY <1>4 DEF WalkInv
  <2>2. s.point = 1 => Ahead(f, m, s.point) = {}
    BY <1>1 DEF Ahead
  <2> QED BY <1>1, <2>1, <2>2
<1>8. \A r \in Large(f, m) : s.point <= r
  BY <1>5, <1>6, <1>7, AheadIsKnown
<1>9. s.point \in Large(f, m) \cup {n + 1}
  BY <1>1, <1>4, <1>5, <1>6, <1>8 DEF WalkInv
<1>10. s.broken = {r \in DOMAIN filelog[f] : r > s.point} \ Large(f, m)
  <2>1. s.broken = {r \in DOMAIN filelog[f] : r >= s.point} \ Large(f, m)
    BY <1>4 DEF WalkInv
  <2>2. \A r \in DOMAIN filelog[f] : r \notin Large(f, m) => (r >= s.point <=> r > s.point)
    BY <1>1, <1>5, <1>9
  <2> QED BY <2>1, <2>2
<1> QED BY <1>4, <1>8, <1>9, <1>10

-----------------------------------------------------------------------------
(* The inductive invariant *)

\* Parents come first in a sequence of changesets, which has none twice.
Ordered(s) == \A i, j \in DOMAIN s : s[i] \in ancestors[s[j]] => i <= j

Nothing == [csets |-> <<>>, nodes |-> [f \in Files |-> {}]]
Contents(b) == IF b = Absent THEN Nothing ELSE b
Saved(b) == Range(b.csets)
NodesOf(s) == {r.node : r \in Range(s)}

\* A bundle has the changesets it shares with the changelog in the order they have
\* there, and first.
CsetsFit(cl, b) ==
    /\ Ordered(cl) /\ Ordered(b.csets)
    /\ IsClosed(Range(cl)) /\ IsClosed(Range(cl) \cup Saved(b))
    /\ \A i, j \in DOMAIN b.csets : \A k \in DOMAIN cl :
          i <= j /\ cl[k] = b.csets[j] => \E l \in 1..k : cl[l] = b.csets[i]

\* Each revision of a file is linked to the first changeset that introduces it.
LinksFirst(f, cl, s) ==
    \A r \in DOMAIN s :
        /\ s[r].link \in DOMAIN cl /\ node[f][cl[s[r].link]] = s[r].node
        /\ \A i \in DOMAIN cl : node[f][cl[i]] = s[r].node => s[r].link <= i

ParentsFirst(f, s) ==
    /\ \A r, q \in DOMAIN s : s[r].node = s[q].node => r = q
    /\ \A r \in DOMAIN s : \A n \in NodeParents(f, s[r].node) :
          \E q \in 1..(r - 1) : s[q].node = n

\* What a file lacks is in the bundle, with the first changeset that introduces it.
NodesFit(f, cl, s, b) ==
    /\ LinksFirst(f, cl, s) /\ ParentsFirst(f, s)
    /\ \A c \in Range(cl) \cup Saved(b) : manifest[f][c] \in {0} \cup NodesOf(s) \cup b.nodes[f]
    /\ \A n \in b.nodes[f] : \E c \in Saved(b) : node[f][c] = n
    /\ \A n \in b.nodes[f] \ NodesOf(s) : \A k \in DOMAIN cl :
          node[f][cl[k]] = n => \E l \in 1..k : cl[l] \in Saved(b) /\ node[f][cl[l]] = n

Fit(cl, fl, b) == CsetsFit(cl, b) /\ \A f \in Files : NodesFit(f, cl, fl[f], b)

IsRepository(cl, fl) == Fit(cl, fl, Nothing)

\* Each changeset from before the strip can be had back.
Kept(cl, fl, b, bk) ==
    /\ before \subseteq Range(cl) \cup Saved(b) \cup Saved(bk)
    /\ \A c \in before : \A f \in Files :
          manifest[f][c] \in {0} \cup NodesOf(fl[f]) \cup b.nodes[f] \cup bk.nodes[f]
    /\ before \ strip \subseteq Range(cl) \cup Saved(b)
    /\ \A c \in before \ strip : \A f \in Files :
          manifest[f][c] \in {0} \cup NodesOf(fl[f]) \cup b.nodes[f]

\* What the journal makes of the logs when it is played.
Plan == IF pc = "group" THEN journal \o queue ELSE journal

PlayedBy(j, log, s) ==
    LET entry == {e \in Range(j) : e.log = log}
    IN IF entry = {} THEN s ELSE CutTo(s, (CHOOSE e \in entry : TRUE).len)

ClPlayed == IF journal = Absent THEN changelog ELSE PlayedBy(Plan, Changelog, changelog)
FlPlayed == IF journal = Absent THEN filelog
            ELSE [f \in Files |-> PlayedBy(Plan, f, filelog[f])]

LogOf(l) == IF l = Changelog THEN changelog ELSE filelog[l]

T == Contents(temp)
B == Contents(backup)

GraphInv ==
    /\ IsDag
    /\ \A f \in Files : IsManifest(f) /\ IsIntroduction(f)

\* Which files there are at each stage, and what the journal says of the logs.
Shape ==
    /\ pc \in {"group", "cut", "files", "close"} => journal # Absent
    /\ pc \notin {"group", "cut", "files", "close", "crashed"} => journal = Absent
    /\ pc \in {"group", "cut"} => queue \in Seq(Entries)
    /\ pc = "files" => queue \in Seq(Files)
    /\ pc \notin {"group", "cut", "files"} => queue = <<>>
    /\ pc # "files" => added = <<>>
    /\ pc \in {"backup", "temp"} => temp = Absent
    /\ pc \in {"apply", "files", "close"} => temp # Absent
    /\ pc \in {"backup", "temp", "open", "group", "cut"} => ~unbundle

JournalInv ==
    /\ journal # Absent => \A d, e \in Range(Plan) : d.log = e.log => d = e
    /\ pc = "cut" =>
          /\ Range(queue) \subseteq Range(journal)
          /\ \A e \in Range(journal) : e \in Range(queue) \/ Len(LogOf(e.log)) <= e.len
    /\ pc \in {"files", "close"} =>
          \A l \in Files \cup {Changelog} :
             \E e \in Range(journal) : e.log = l /\ e.len <= Len(LogOf(l))

\* What goes, goes with all that descends from it.
StripInv ==
    pc # "idle" =>
        /\ strip \subseteq before /\ strip # {}
        /\ \A c \in before : ancestors[c] \cap strip # {} => c \in strip

\* What is known of the two bundles before the cut.
BundlesInv ==
    /\ pc \in {"backup", "temp", "open", "group"} => before = Range(changelog)
    /\ pc \in {"temp", "open"} => backup \in Bundle(strip, Heads)
    /\ pc = "open" => temp \in IF SaveHeads = {} THEN {Absent} ELSE Bundle(SaveBases, SaveHeads)

\* What has been received.
Received(f) ==
    /\ LinksFirst(f, changelog \o added, filelog[f]) /\ ParentsFirst(f, filelog[f])
    /\ NodesOf(filelog[f]) = NodesOf(FlPlayed[f]) \cup T.nodes[f]

ReceivedInv ==
    /\ pc = "files" =>
          /\ changelog = ClPlayed
          /\ added \in InOrderOf(T.csets, Saved(T) \ Range(changelog))
          /\ \A i, j \in DOMAIN queue : queue[i] = queue[j] => i = j
          /\ \A f \in Files :
                IF f \in Range(queue) THEN filelog[f] = FlPlayed[f] ELSE Received(f)
    /\ pc = "close" => Range(changelog) = Range(ClPlayed) \cup Saved(T)
    /\ pc \in {"close", "done"} =>
          /\ Saved(T) \subseteq Range(changelog)
          /\ \A f \in Files : T.nodes[f] \subseteq NodesOf(filelog[f])

\* The repository as it is, and as the journal makes it with the temporary bundle.
RepositoryInv ==
    /\ pc \in {"idle", "backup", "temp", "open", "group", "close", "done"} =>
          IsRepository(changelog, filelog)
    /\ pc \in {"group", "close", "done"} => Fit(changelog, filelog, T)
    /\ pc # "idle" => Fit(ClPlayed, FlPlayed, T)

KeptInv ==
    /\ pc = "idle" => Kept(changelog, filelog, Nothing, B)
    /\ pc # "idle" => Kept(ClPlayed, FlPlayed, T, B)
    /\ pc \in {"group", "cut", "apply", "files", "close", "done"} /\ ~unbundle =>
          Range(ClPlayed) \cup Saved(T) = before \ strip

IInv ==
    /\ TypeOK /\ GraphInv /\ Shape /\ JournalInv /\ StripInv
    /\ BundlesInv /\ ReceivedInv /\ RepositoryInv /\ KeptInv
-----------------------------------------------------------------------------
(* Changesets and the file revisions they introduce *)

\* What the graph is, with the types of what it gives.
Graph ==
    /\ IsOrder /\ \A f \in Files : IsManifest(f) /\ IsIntroduction(f)
    /\ node \in [Files -> [Changesets -> 0..N]]
    /\ manifest \in [Files -> [Changesets -> 0..N]]

LEMMA GraphIs ==
    ASSUME TypeOK, GraphInv
    PROVE  Graph
BY DEF TypeOK, GraphInv, Graph, IsDag

\* A parent is an ancestor, and another changeset.
LEMMA ParentIsAncestor ==
    ASSUME IsOrder, NEW c \in Changesets, NEW p \in ParentsOf(c)
    PROVE  /\ p \in Changesets /\ p \in ancestors[c] /\ p < c
           /\ \A a \in ancestors[p] : a \in ancestors[c] /\ a \in Changesets /\ a < c /\ a # c
<1>1. p \in ancestors[c] /\ p # c
  BY DEF ParentsOf
<1>2. p \in Changesets /\ p <= c /\ ancestors[p] \subseteq ancestors[c]
  BY <1>1, Ancestry
<1>3. p < c
  BY <1>1, <1>2, DagAssumption DEF Changesets
<1>4. ASSUME NEW a \in ancestors[p] PROVE a \in Changesets /\ a < c /\ a # c
  <2>1. a \in Changesets /\ a <= p
    BY <1>2, Ancestry
  <2> QED BY <1>2, <1>3, <2>1, DagAssumption DEF Changesets
<1> QED BY <1>1, <1>2, <1>3, <1>4

\* What a changeset has in a file, it or an ancestor introduced.
LEMMA Introduced ==
    ASSUME Graph, NEW f \in Files, NEW c \in Changesets, manifest[f][c] # 0
    PROVE  \E a \in ancestors[c] : a \in Changesets /\ node[f][a] = manifest[f][c]
<1> USE DEF Graph
<1> DEFINE S == {a \in ancestors[c] : manifest[f][a] = manifest[f][c]}
<1>1. S \in SUBSET Nat /\ S # {}
  <2>1. c \in ancestors[c] /\ ancestors[c] \subseteq 1..c /\ c \in Int
    BY DagAssumption DEF IsOrder, Changesets
  <2> QED BY <2>1
<1>2. PICK a \in S : \A x \in S : a <= x
  <2> HIDE DEF S
  <2> QED BY <1>1, HasLeast
<1>3. a \in Changesets /\ a \in ancestors[c]
  BY Ancestry
<1>4. CASE node[f][a] # 0
  BY <1>2, <1>3, <1>4 DEF IsManifest
<1>5. CASE node[f][a] = 0
  <2>1. PICK p \in ParentsOf(a) : manifest[f][p] = manifest[f][a]
    BY <1>2, <1>3, <1>5 DEF IsManifest
  <2>2. p \in ancestors[a] /\ p < a
    BY <1>3, ParentIsAncestor
  <2>3. p \in S
    BY <1>3, <2>1, <2>2, Ancestry
  <2>4. a <= p
    BY <1>2, <2>3
  <2> QED BY <1>3, <2>2, <2>4, ParentIsAncestor, <2>1, DagAssumption DEF Changesets
<1> QED BY <1>4, <1>5

\* In a repository a file has the parents of a revision before it, also by their links.
LEMMA ParentsLinkedBefore ==
    ASSUME Graph, NEW f \in Files, NEW cl \in Seq(Changesets), NEW s \in Seq(Rev),
           Ordered(cl), IsClosed(Range(cl)), LinksFirst(f, cl, s), ParentsFirst(f, s),
           NEW r \in DOMAIN s, NEW q \in DOMAIN s, s[q].node \in NodeParents(f, s[r].node)
    PROVE  q < r /\ s[q].link < s[r].link
<1>1. /\ DOMAIN s = 1..Len(s) /\ Len(s) \in Nat /\ s[q].link \in Int /\ s[r].link \in Int
      /\ s[r].node \in Changesets /\ s[q].node \in Changesets
  BY LogTypes
<1>2. DOMAIN cl = 1..Len(cl) /\ Len(cl) \in Nat /\ \A i \in DOMAIN cl : cl[i] \in Changesets
  BY LenProperties
<1>3. q < r
  <2>1. PICK p \in 1..(r - 1) : s[p].node = s[q].node
    BY DEF ParentsFirst
  <2>2. p \in DOMAIN s /\ p < r
    BY <1>1
  <2>3. p = q
    BY <2>1, <2>2 DEF ParentsFirst
  <2> QED BY <2>2, <2>3
<1> DEFINE c == cl[s[r].link]
           n == s[r].node
<1>4. c \in Changesets /\ node[f][c] = n /\ n # 0 /\ c \in Range(cl)
      /\ s[r].link \in DOMAIN cl
  BY <1>1, <1>2, DagAssumption DEF LinksFirst, Changesets, Range
<1>5. NodeParents(f, n) = NodeParents(f, c)
  BY <1>4 DEF Graph, IsIntroduction
<1>6. PICK p \in ParentsOf(c) : manifest[f][p] = s[q].node /\ s[q].node # 0
  BY <1>5 DEF NodeParents
<1>7. p \in Changesets
  BY <1>4, ParentIsAncestor DEF Graph
<1>8. PICK a \in ancestors[p] : a \in Changesets /\ node[f][a] = s[q].node
  BY <1>6, <1>7, Introduced
<1>9. a \in ancestors[c] /\ a # c
  BY <1>4, <1>8, ParentIsAncestor DEF Graph
<1>10. PICK k \in DOMAIN cl : cl[k] = a
  BY <1>4, <1>9 DEF IsClosed, AncestorsOf, Range
<1>11. s[q].link <= k
  BY <1>8, <1>10 DEF LinksFirst
<1>12. k <= s[r].link /\ k # s[r].link
  BY <1>4, <1>9, <1>10 DEF Ordered
<1> QED BY <1>1, <1>2, <1>3, <1>10, <1>11, <1>12

\* So resolvestripinfo() works.
LEMMA RepositoryGoesUp ==
    ASSUME Graph, NEW f \in Files, changelog \in Seq(Changesets), filelog[f] \in Seq(Rev),
           IsRepository(changelog, filelog)
    PROVE  LinksGoUp(f)
<1>1. /\ Ordered(changelog) /\ IsClosed(Range(changelog))
      /\ LinksFirst(f, changelog, filelog[f]) /\ ParentsFirst(f, filelog[f])
  <2>1. Range(changelog) \cup Saved(Nothing) = Range(changelog)
    BY DEF Saved, Nothing, Range
  <2> QED BY <2>1 DEF IsRepository, Fit, CsetsFit, NodesFit
<1>2. PICK cl \in Seq(Changesets) : cl = changelog
  OBVIOUS
<1>3. PICK s \in Seq(Rev) : s = filelog[f]
  OBVIOUS
<1>4. ASSUME NEW r \in DOMAIN s, NEW q \in ParentRevs(f, r) PROVE q < r /\ s[q].link < s[r].link
  <2>1. q \in DOMAIN s /\ s[q].node \in NodeParents(f, s[r].node)
    BY <1>3 DEF ParentRevs
  <2> QED BY <1>1, <1>2, <1>3, <2>1, ParentsLinkedBefore
<1>5. ASSUME NEW r \in DOMAIN s, NEW q \in DOMAIN s, s[r].link = s[q].link PROVE r = q
  BY <1>1, <1>3, <1>5 DEF LinksFirst, ParentsFirst
<1> QED BY <1>3, <1>4, <1>5 DEF LinksGoUp

-----------------------------------------------------------------------------
(* Bundles *)

\* The place of a changeset in a sequence.
LEMMA RevOfIs ==
    ASSUME IsOrder, NEW s \in Seq(Changesets), Ordered(s), NEW k \in DOMAIN s
    PROVE  RevOf(s, s[k]) = k
<1>1. DOMAIN s = 1..Len(s) /\ Len(s) \in Nat /\ \A i \in DOMAIN s : s[i] \in Changesets
  BY LenProperties
<1>2. ASSUME NEW i \in DOMAIN s, s[i] = s[k] PROVE i = k
  <2>1. s[i] \in ancestors[s[k]] /\ s[k] \in ancestors[s[i]]
    BY <1>1, <1>2 DEF IsOrder
  <2>2. i <= k /\ k <= i
    BY <2>1 DEF Ordered
  <2> QED BY <1>1, <2>2
<1> QED BY <1>2 DEF RevOf

\* A part of a sequence has the order of the whole.
LEMMA InOrder ==
    ASSUME IsOrder, NEW s \in Seq(Changesets), Ordered(s), NEW S \in SUBSET Range(s),
           NEW t \in InOrderOf(s, S)
    PROVE  /\ t \in Seq(Changesets) /\ Range(t) = S /\ Ordered(t)
           /\ \A i, j \in DOMAIN t : \A k, l \in DOMAIN s :
                 s[k] = t[i] /\ s[l] = t[j] => (i <= j <=> k <= l)
<1>1. DOMAIN s = 1..Len(s) /\ Len(s) \in Nat /\ \A i \in DOMAIN s : s[i] \in Changesets
  BY LenProperties
<1>2. S \in SUBSET Changesets
  BY <1>1 DEF Range
<1>3. IsFiniteSet(S)
  <2>1. IsFiniteSet(Changesets)
    BY FS_Interval, DagAssumption DEF Changesets
  <2> QED BY <1>2, <2>1, FS_Subset
<1>4. t \in SetToSeqs(S)
  BY DEF InOrderOf
<1>5. /\ t \in Seq(S) /\ Range(t) = S
      /\ \A i, j \in DOMAIN t : t[i] = t[j] => i = j
  BY <1>3, <1>4, InSetToSeqs
<1>6. DOMAIN t = 1..Len(t) /\ Len(t) \in Nat /\ \A i \in DOMAIN t : t[i] \in S
  BY <1>5, LenProperties
<1>7. t \in Seq(Changesets)
  BY <1>2, <1>5, SeqDef
<1>8. ASSUME NEW i \in DOMAIN t, NEW j \in DOMAIN t, NEW k \in DOMAIN s, NEW l \in DOMAIN s,
             s[k] = t[i], s[l] = t[j]
      PROVE  i <= j <=> k <= l
  <2>1. RevOf(s, t[i]) = k /\ RevOf(s, t[j]) = l
    BY <1>8, RevOfIs
  <2>2. (i < j => k < l) /\ (j < i => l < k)
    BY <2>1 DEF InOrderOf
  <2>3. i = j => k = l
    BY <2>1
  <2> QED BY <1>1, <1>6, <2>2, <2>3
<1>9. ASSUME NEW i \in DOMAIN t, NEW j \in DOMAIN t, t[i] \in ancestors[t[j]]
      PROVE  i <= j
  <2>1. PICK k \in DOMAIN s : s[k] = t[i]
    BY <1>6 DEF Range
  <2>2. PICK l \in DOMAIN s : s[l] = t[j]
    BY <1>6 DEF Range
  <2>3. k <= l
    BY <1>9, <2>1, <2>2 DEF Ordered
  <2> QED BY <1>8, <2>1, <2>2, <2>3
<1>10. Ordered(t)
  BY <1>9 DEF Ordered
<1> QED BY <1>5, <1>7, <1>8, <1>10

\* The parts of outgoing(missingroots, ancestorsof).
CommonOf(roots, hs) == AncestorsOf(CommonHeads(roots, hs \cap DescendantsOf(roots)))
MissingOf(roots, hs) == AncestorsOf(hs \cap DescendantsOf(roots)) \ CommonOf(roots, hs)

\* What descends from a root and is below a head is missing, and not common.
LEMMA IsMissing ==
    ASSUME IsOrder, NEW roots \in SUBSET Changesets, NEW hs \in SUBSET Changesets,
           roots \subseteq AncestorsOf(hs),
           NEW c \in AncestorsOf(hs), NEW r \in roots, r \in ancestors[c]
    PROVE  c \in MissingOf(roots, hs) /\ c \notin CommonOf(roots, hs)
<1> DEFINE H == hs \cap DescendantsOf(roots)
<1>1. ASSUME NEW d \in AncestorsOf(hs), NEW q \in roots, q \in ancestors[d]
      PROVE  d \in AncestorsOf(H) /\ d \in DescendantsOf(roots)
  <2>1. PICK h \in hs : d \in ancestors[h]
    BY DEF AncestorsOf
  <2>2. d \in Changesets /\ q \in ancestors[h]
    BY <1>1, <2>1, Ancestry
  <2>3. h \in H
    BY <2>1, <2>2 DEF DescendantsOf
  <2> QED BY <1>1, <2>1, <2>2, <2>3 DEF AncestorsOf, DescendantsOf
<1>2. c \in AncestorsOf(H)
  BY <1>1
<1>3. c \notin CommonOf(roots, hs)
  <2> SUFFICES ASSUME c \in CommonOf(roots, hs) PROVE FALSE
    OBVIOUS
  <2>1. PICK q \in CommonHeads(roots, H) : c \in ancestors[q]
    BY DEF CommonOf, AncestorsOf
  <2>2. PICK b \in roots : q \in ParentsOf(b)
    BY DEF CommonHeads
  <2>3. q \in ancestors[b] /\ q \in Changesets
    BY <2>2, ParentIsAncestor
  <2>4. PICK h \in hs : b \in ancestors[h]
    BY DEF AncestorsOf
  <2>5. q \in AncestorsOf(hs)
    BY <2>3, <2>4, Ancestry DEF AncestorsOf
  <2>6. r \in ancestors[q]
    BY <2>1, <2>3, Ancestry
  <2>7. q \in Between(roots, H)
    BY <1>1, <2>5, <2>6 DEF Between
  <2> QED BY <2>1, <2>7 DEF CommonHeads
<1> QED BY <1>2, <1>3 DEF MissingOf

\* What a bundle has.
LEMMA BundleIs ==
    ASSUME IsOrder, changelog \in Seq(Changesets), Ordered(changelog), IsClosed(Range(changelog)),
           filelog \in [Files -> Seq(Rev)],
           NEW roots \in SUBSET Changesets, NEW hs \in SUBSET Range(changelog),
           NEW b \in Bundle(roots, hs)
    PROVE  /\ b \in Bundles /\ Saved(b) = MissingOf(roots, hs) /\ Saved(b) \subseteq Range(changelog)
           /\ Ordered(b.csets)
           /\ \A i, j \in DOMAIN b.csets : \A k, l \in DOMAIN changelog :
                 changelog[k] = b.csets[i] /\ changelog[l] = b.csets[j] => (i <= j <=> k <= l)
           /\ \A f \in Files : b.nodes[f] =
                 {r.node : r \in {q \in Range(filelog[f]) :
                     /\ changelog[q.link] \notin CommonOf(roots, hs)
                     /\ \E c \in MissingOf(roots, hs) : node[f][c] = q.node}}
<1>1. /\ b.csets \in InOrderOf(changelog, MissingOf(roots, hs))
      /\ b = [csets |-> b.csets, nodes |-> b.nodes]
      /\ b.nodes = [f \in Files |->
            {r.node : r \in {q \in Range(filelog[f]) :
                /\ changelog[q.link] \notin CommonOf(roots, hs)
                /\ \E c \in MissingOf(roots, hs) : node[f][c] = q.node}}]
  BY DEF Bundle, MissingOf, CommonOf
<1>2. MissingOf(roots, hs) \subseteq Range(changelog)
  BY DEF MissingOf, IsClosed, AncestorsOf
<1>3. PICK cl \in Seq(Changesets) : cl = changelog
  OBVIOUS
<1>4. /\ b.csets \in Seq(Changesets) /\ Range(b.csets) = MissingOf(roots, hs)
      /\ Ordered(b.csets)
      /\ \A i, j \in DOMAIN b.csets : \A k, l \in DOMAIN cl :
            cl[k] = b.csets[i] /\ cl[l] = b.csets[j] => (i <= j <=> k <= l)
  <2>1. PICK t, S : t = b.csets /\ S = MissingOf(roots, hs)
    OBVIOUS
  <2>2. S \in SUBSET Range(cl) /\ t \in InOrderOf(cl, S)
    BY <1>1, <1>2, <1>3, <2>1
  <2>3. Ordered(cl)
    BY <1>3
  <2> QED BY <2>1, <2>2, <2>3, InOrder
<1>5. b.nodes \in [Files -> SUBSET (1..N)]
  <2>1. \A f \in Files : \A q \in Range(filelog[f]) : q.node \in 1..N
    <3> SUFFICES ASSUME NEW f \in Files, NEW q \in Range(filelog[f]) PROVE q.node \in 1..N
      OBVIOUS
    <3>1. filelog[f] \in Seq(Rev)
      OBVIOUS
    <3>2. q \in Rev
      BY <3>1, LenProperties DEF Range
    <3> QED BY <3>2 DEF Rev, Changesets
  <2> QED BY <1>1, <2>1
<1>6. b \in Bundles
  BY <1>1, <1>4, <1>5 DEF Bundles
<1> QED BY <1>1, <1>2, <1>3, <1>4, <1>6 DEF Saved

\* The least of a set of numbers.
LEMMA MinIs ==
    ASSUME NEW S \in SUBSET Nat, S # {}
    PROVE  Min(S) \in S /\ \A x \in S : Min(S) <= x
<1>1. \E m \in S : \A x \in S : m <= x
  BY HasLeast
<1> QED BY <1>1 DEF Min

LogTyped == changelog \in Seq(Changesets) /\ filelog \in [Files -> Seq(Rev)]

\* What a repository is.
LEMMA RepositoryIs ==
    ASSUME LogTyped, IsRepository(changelog, filelog)
    PROVE  /\ Ordered(changelog) /\ IsClosed(Range(changelog))
           /\ Range(changelog) \subseteq Changesets
           /\ DOMAIN changelog = 1..Len(changelog) /\ Len(changelog) \in Nat
           /\ \A f \in Files :
                 /\ filelog[f] \in Seq(Rev)
                 /\ LinksFirst(f, changelog, filelog[f]) /\ ParentsFirst(f, filelog[f])
                 /\ \A c \in Range(changelog) : manifest[f][c] \in {0} \cup NodesOf(filelog[f])
<1>1. Range(changelog) \cup Saved(Nothing) = Range(changelog)
  BY DEF Saved, Nothing, Range
<1>2. \A f \in Files : Nothing.nodes[f] = {}
  BY DEF Nothing
<1>3. /\ Range(changelog) \subseteq Changesets
      /\ DOMAIN changelog = 1..Len(changelog) /\ Len(changelog) \in Nat
  BY LenProperties DEF LogTyped, Range
<1>4. Ordered(changelog) /\ IsClosed(Range(changelog))
  BY <1>1 DEF IsRepository, Fit, CsetsFit
<1>5. ASSUME NEW f \in Files
      PROVE  /\ filelog[f] \in Seq(Rev)
             /\ LinksFirst(f, changelog, filelog[f]) /\ ParentsFirst(f, filelog[f])
             /\ \A c \in Range(changelog) : manifest[f][c] \in {0} \cup NodesOf(filelog[f])
  <2>1. NodesFit(f, changelog, filelog[f], Nothing)
    BY DEF IsRepository, Fit
  <2> QED BY <1>1, <1>2, <2>1 DEF NodesFit, LogTyped
<1> QED BY <1>3, <1>4, <1>5

\* A bundle of a repository has nothing for it.
LEMMA BundleFits ==
    ASSUME IsOrder, LogTyped, IsRepository(changelog, filelog),
           NEW roots \in SUBSET Changesets, NEW hs \in SUBSET Range(changelog),
           NEW b \in Bundle(roots, hs)
    PROVE  /\ b \in Bundles /\ Fit(changelog, filelog, b) /\ Saved(b) = MissingOf(roots, hs)
           /\ \A f \in Files : b.nodes[f] =
                 {r.node : r \in {q \in Range(filelog[f]) :
                     /\ changelog[q.link] \notin CommonOf(roots, hs)
                     /\ \E c \in MissingOf(roots, hs) : node[f][c] = q.node}}
<1>1. /\ Ordered(changelog) /\ IsClosed(Range(changelog)) /\ LogTyped
      /\ changelog \in Seq(Changesets) /\ filelog \in [Files -> Seq(Rev)]
      /\ DOMAIN changelog = 1..Len(changelog) /\ Len(changelog) \in Nat
  BY RepositoryIs DEF LogTyped
<1>2. /\ b \in Bundles /\ Saved(b) = MissingOf(roots, hs) /\ Saved(b) \subseteq Range(changelog)
      /\ Ordered(b.csets)
      /\ \A i, j \in DOMAIN b.csets : \A k, l \in DOMAIN changelog :
            changelog[k] = b.csets[i] /\ changelog[l] = b.csets[j] => (i <= j <=> k <= l)
      /\ \A f \in Files : b.nodes[f] =
            {r.node : r \in {q \in Range(filelog[f]) :
                /\ changelog[q.link] \notin CommonOf(roots, hs)
                /\ \E c \in MissingOf(roots, hs) : node[f][c] = q.node}}
  BY <1>1, BundleIs
<1>3. Range(changelog) \cup Saved(b) = Range(changelog)
  BY <1>2
<1>4. ASSUME NEW i \in DOMAIN b.csets, NEW j \in DOMAIN b.csets, NEW k \in DOMAIN changelog,
             i <= j, changelog[k] = b.csets[j]
      PROVE  \E l \in 1..k : changelog[l] = b.csets[i]
  <2>1. b.csets[i] \in Saved(b)
    BY DEF Saved, Range
  <2>2. PICK l \in DOMAIN changelog : changelog[l] = b.csets[i]
    BY <1>2, <2>1 DEF Range
  <2>3. l <= k
    BY <1>2, <1>4, <2>2
  <2> QED BY <1>1, <2>2, <2>3
<1>5. CsetsFit(changelog, b)
  <2>1. \A i, j \in DOMAIN b.csets : \A k \in DOMAIN changelog :
           i <= j /\ changelog[k] = b.csets[j] => \E l \in 1..k : changelog[l] = b.csets[i]
    BY <1>4
  <2>2. IsClosed(Range(changelog) \cup Saved(b))
    BY <1>1, <1>3
  <2> QED BY <1>1, <1>2, <2>1, <2>2 DEF CsetsFit
<1>6. ASSUME NEW f \in Files PROVE NodesFit(f, changelog, filelog[f], b)
  <2>1. /\ LinksFirst(f, changelog, filelog[f]) /\ ParentsFirst(f, filelog[f])
        /\ \A c \in Range(changelog) : manifest[f][c] \in {0} \cup NodesOf(filelog[f])
    BY RepositoryIs
  <2>2. b.nodes[f] \subseteq NodesOf(filelog[f])
    BY <1>2 DEF NodesOf
  <2>3. \A n \in b.nodes[f] : \E c \in Saved(b) : node[f][c] = n
    BY <1>2
  <2> QED BY <1>3, <2>1, <2>2, <2>3 DEF NodesFit
<1> QED BY <1>2, <1>5, <1>6 DEF Fit

\* A bundle has all that was before when nothing is missing.
LEMMA KeptWhole ==
    ASSUME NEW cl, NEW fl, NEW b, NEW bk, Fit(cl, fl, b), before \subseteq Range(cl)
    PROVE  Kept(cl, fl, b, bk)
BY DEF Kept, Fit, NodesFit

-----------------------------------------------------------------------------
(* What a strip saves *)

\* Before the cut: the changesets to go, and those to save with it.
Opening ==
    /\ Graph /\ LogTyped /\ IsRepository(changelog, filelog) /\ before = Range(changelog)
    /\ strip \subseteq before /\ strip # {}
    /\ \A c \in before : ancestors[c] \cap strip # {} => c \in strip

\* The first changeset to go.
LEMMA StripRevIs ==
    ASSUME Opening
    PROVE  /\ StripRev \in DOMAIN changelog /\ StripRev \in Nat /\ StripRev >= 1
           /\ \A i \in DOMAIN changelog : i < StripRev => changelog[i] \notin strip
           /\ \A i \in DOMAIN changelog : i >= StripRev <=> changelog[i] \in Later
           /\ Later \subseteq before
<1>1. /\ IsOrder /\ Ordered(changelog) /\ changelog \in Seq(Changesets)
      /\ DOMAIN changelog = 1..Len(changelog) /\ Len(changelog) \in Nat
  BY RepositoryIs DEF Opening, Graph, LogTyped
<1>2. \A k \in DOMAIN changelog : RevOf(changelog, changelog[k]) = k
  <2>1. PICK cl \in Seq(Changesets) : cl = changelog
    BY <1>1
  <2>2. Ordered(cl)
    BY <1>1, <2>1
  <2> QED BY <1>1, <2>1, <2>2, RevOfIs
<1> DEFINE S == {RevOf(changelog, c) : c \in strip}
<1>3. \A c \in strip : \E k \in DOMAIN changelog : c = changelog[k] /\ RevOf(changelog, c) = k
  BY <1>2 DEF Opening, Range
<1>4. S \in SUBSET Nat /\ S # {} /\ S \subseteq DOMAIN changelog
  BY <1>1, <1>3 DEF Opening
<1>5. StripRev \in S /\ \A x \in S : StripRev <= x
  <2>1. StripRev = Min(S)
    BY DEF StripRev
  <2> HIDE DEF S
  <2> QED BY <1>4, <2>1, MinIs
<1>6. StripRev \in DOMAIN changelog /\ StripRev \in Nat /\ StripRev >= 1
  BY <1>1, <1>4, <1>5
<1>7. ASSUME NEW i \in DOMAIN changelog, i < StripRev, changelog[i] \in strip PROVE FALSE
  <2>1. i \in S
    BY <1>2, <1>7
  <2>2. StripRev <= i
    BY <1>5, <2>1
  <2>3. i \in Nat /\ StripRev \in Nat
    BY <1>1, <1>6
  <2> QED BY <1>7, <2>2, <2>3
<1>8. ASSUME NEW i \in DOMAIN changelog PROVE i >= StripRev <=> changelog[i] \in Later
  <2>1. i >= StripRev => changelog[i] \in Later
    BY <1>1, <1>6 DEF Later
  <2>2. ASSUME changelog[i] \in Later PROVE i >= StripRev
    <3>1. PICK j \in StripRev..Len(changelog) : changelog[j] = changelog[i]
      BY <2>2 DEF Later
    <3>2. j \in DOMAIN changelog
      BY <1>1, <1>6, <3>1
    <3>3. RevOf(changelog, changelog[i]) = j /\ RevOf(changelog, changelog[i]) = i
      BY <1>2, <3>1, <3>2
    <3> QED BY <1>1, <1>6, <3>1, <3>3
  <2> QED BY <2>1, <2>2
<1>9. Later \subseteq before
  BY <1>1, <1>6 DEF Later, Opening, Range
<1> QED BY <1>6, <1>7, <1>8, <1>9

\* The walk in each file.
Point(f) == StripInfo(f, StripRev).point

\* Where resolvestripinfo() cuts a file, and what is lost with the cut.
LEMMA PointIs ==
    ASSUME Opening, NEW f \in Files
    PROVE  /\ filelog[f] \in Seq(Rev)
           /\ Point(f) \in Large(f, StripRev) \cup {Len(filelog[f]) + 1}
           /\ Point(f) \in 1..(Len(filelog[f]) + 1)
           /\ \A r \in DOMAIN filelog[f] : r < Point(f) => filelog[f][r].link < StripRev
           /\ StripInfo(f, StripRev).broken =
                 {r \in DOMAIN filelog[f] : r > Point(f)} \ Large(f, StripRev)
           /\ \A r \in DOMAIN filelog[f] : r >= Point(f) => f \in Affected
<1>1. /\ Graph /\ LogTyped /\ IsRepository(changelog, filelog) /\ filelog[f] \in Seq(Rev)
      /\ changelog \in Seq(Changesets)
  BY DEF Opening, LogTyped
<1>2. LinksGoUp(f) /\ StripRev \in Int /\ LinksFirst(f, changelog, filelog[f])
  BY <1>1, RepositoryGoesUp, RepositoryIs, StripRevIs
<1>3. /\ Point(f) \in Large(f, StripRev) \cup {Len(filelog[f]) + 1}
      /\ \A r \in Large(f, StripRev) : Point(f) <= r
      /\ StripInfo(f, StripRev).broken =
                 {r \in DOMAIN filelog[f] : r > Point(f)} \ Large(f, StripRev)
  <2>1. PICK m \in Int : m = StripRev
    BY <1>2
  <2> QED BY <1>2, <2>1, WalkEnds DEF Point
<1>4. /\ Len(filelog[f]) \in Nat /\ DOMAIN filelog[f] = 1..Len(filelog[f])
      /\ \A r \in DOMAIN filelog[f] : filelog[f][r].link \in Int /\ filelog[f][r].node \in Int
      /\ \A r \in DOMAIN filelog[f] : filelog[f][r].node \in Changesets
  <2>1. PICK s \in Seq(Rev) : s = filelog[f]
    BY <1>1
  <2> QED BY <2>1, LogTypes
<1>5. Point(f) \in 1..(Len(filelog[f]) + 1)
  BY <1>3, <1>4 DEF Large
<1>6. ASSUME NEW r \in DOMAIN filelog[f], r < Point(f) PROVE filelog[f][r].link < StripRev
  <2>1. r \notin Large(f, StripRev)
    BY <1>3, <1>4, <1>5, <1>6
  <2> QED BY <1>2, <1>4, <2>1 DEF Large
<1>7. ASSUME NEW r \in DOMAIN filelog[f], r >= Point(f) PROVE f \in Affected
  <2>1. Point(f) \in Large(f, StripRev)
    BY <1>3, <1>4, <1>7
  <2>2. PICK p \in DOMAIN filelog[f] : filelog[f][p].link >= StripRev
    BY <2>1 DEF Large
  <2>3. /\ filelog[f][p].link \in DOMAIN changelog
        /\ node[f][changelog[filelog[f][p].link]] = filelog[f][p].node
    BY <1>2 DEF LinksFirst
  <2>4. changelog[filelog[f][p].link] \in Later
    BY <2>2, <2>3, StripRevIs
  <2>5. filelog[f][p].node # 0
    BY <1>4, DagAssumption DEF Changesets
  <2> QED BY <2>3, <2>4, <2>5 DEF Affected
<1> QED BY <1>1, <1>3, <1>5, <1>6, <1>7

\* What stays has its ancestors with it.
LEMMA StayingIsClosed ==
    ASSUME Opening
    PROVE  IsClosed(before \ strip) /\ before \subseteq Changesets
<1>1. IsClosed(before) /\ before \subseteq Changesets
  BY RepositoryIs DEF Opening
<1>2. ASSUME NEW c \in before \ strip, NEW a \in ancestors[c] PROVE a \in before \ strip
  <2>1. a \in before
    BY <1>1, <1>2 DEF IsClosed, AncestorsOf
  <2>2. ancestors[c] \cap strip = {}
    BY <1>2 DEF Opening
  <2> QED BY <1>2, <2>1, <2>2
<1> QED BY <1>1, <1>2 DEF IsClosed, AncestorsOf

\* The changesets to save, which all are between a base and a head.
LEMMA SaveIs ==
    ASSUME Opening
    PROVE  /\ Save \subseteq before \ strip /\ Later \ strip \subseteq Save
           /\ \A f \in Files : \A r \in DOMAIN filelog[f] :
                 r >= Point(f) /\ filelog[f][r].link < StripRev =>
                    changelog[filelog[f][r].link] \in Save
           /\ \A c \in Save : \E h \in SaveHeads : c \in ancestors[h]
           /\ \A c \in Save : \E b \in SaveBases : b \in ancestors[c]
<1>1. /\ before \subseteq Changesets /\ before = Range(changelog) /\ IsOrder
      /\ Later \subseteq before
  BY StayingIsClosed, StripRevIs DEF Opening, Graph
<1>2. ASSUME NEW f \in Files, NEW r \in DOMAIN filelog[f]
      PROVE  /\ filelog[f][r].link \in DOMAIN changelog /\ filelog[f][r].link \in Int
             /\ r \in Int /\ Point(f) \in Int /\ StripRev \in Int
             /\ (r \in StripInfo(f, StripRev).broken =>
                    filelog[f][r].link < StripRev)
             /\ (r >= Point(f) /\ filelog[f][r].link < StripRev =>
                    f \in Affected /\ r \in StripInfo(f, StripRev).broken)
  <2>1. PICK s \in Seq(Rev) : s = filelog[f]
    BY DEF Opening, LogTyped
  <2>2. /\ s[r].link \in Int /\ r \in Int /\ Len(s) \in Nat
    BY <1>2, <2>1, LogTypes
  <2>3. s[r].link \in DOMAIN changelog
    BY <1>2, <2>1, RepositoryIs DEF Opening, LinksFirst
  <2>4. StripRev \in Int
    BY StripRevIs
  <2>5. /\ Point(f) \in Large(f, StripRev) \cup {Len(s) + 1} /\ Point(f) \in Int
        /\ StripInfo(f, StripRev).broken =
                 {q \in DOMAIN filelog[f] : q > Point(f)} \ Large(f, StripRev)
        /\ (r >= Point(f) => f \in Affected)
    BY <1>2, <2>1, <2>2, PointIs
  <2>6. r \in Large(f, StripRev) <=> s[r].link >= StripRev
    BY <1>2, <2>1 DEF Large
  <2>7. r \in StripInfo(f, StripRev).broken => s[r].link < StripRev
    BY <2>2, <2>4, <2>5, <2>6
  <2>8. ASSUME r >= Point(f), s[r].link < StripRev PROVE r \in StripInfo(f, StripRev).broken
    <3>1. r \notin Large(f, StripRev)
      BY <2>2, <2>4, <2>6, <2>8
    <3>2. r # Len(s) + 1
      BY <1>2, <2>1, <2>2, LogTypes
    <3>3. r > Point(f)
      BY <2>2, <2>5, <2>8, <3>1, <3>2
    <3> QED BY <1>2, <2>5, <3>1, <3>3
  <2> QED BY <2>1, <2>2, <2>3, <2>4, <2>5, <2>7, <2>8
<1>3. Broken \subseteq before \ strip
  <2> SUFFICES ASSUME NEW c \in Broken PROVE c \in before \ strip
    OBVIOUS
  <2>1. PICK f \in Affected : \E r \in StripInfo(f, StripRev).broken :
           c = changelog[filelog[f][r].link]
    BY DEF Broken
  <2>2. PICK r \in StripInfo(f, StripRev).broken : c = changelog[filelog[f][r].link]
    BY <2>1
  <2>3. f \in Files /\ r \in DOMAIN filelog[f]
    BY <2>1, <2>2, PointIs DEF Affected
  <2>4. filelog[f][r].link \in DOMAIN changelog /\ filelog[f][r].link < StripRev
    BY <1>2, <2>1, <2>3, <2>2
  <2> QED BY <1>1, <2>2, <2>4, StripRevIs DEF Range
<1>4. Save \subseteq before \ strip /\ Later \ strip \subseteq Save
  BY <1>1, <1>3 DEF Save
<1>5. ASSUME NEW f \in Files, NEW r \in DOMAIN filelog[f],
             r >= Point(f), filelog[f][r].link < StripRev
      PROVE  changelog[filelog[f][r].link] \in Save
  <2>1. f \in Affected /\ r \in StripInfo(f, StripRev).broken
    BY <1>2, <1>5
  <2> QED BY <2>1 DEF Save, Broken
<1>6. ASSUME NEW c \in Save PROVE \E h \in SaveHeads : c \in ancestors[h]
  <2> DEFINE D == {d \in Save : c \in ancestors[d]}
  <2>1. D \in SUBSET (0..N) /\ D # {} /\ N \in Nat /\ c \in Changesets
    <3>1. Save \subseteq 0..N /\ N \in Nat
      BY <1>1, <1>4, DagAssumption DEF Changesets
    <3>2. c \in D /\ c \in Changesets
      BY <1>1, <1>4, <1>6 DEF IsOrder
    <3> QED BY <3>1, <3>2
  <2>2. PICK h \in D : \A d \in D : d <= h
    <3> HIDE DEF D
    <3> QED BY <2>1, HasGreatest
  <2>3. ASSUME NEW d \in Later \ strip, h \in ParentsOf(d) PROVE FALSE
    <3>1. d \in Save /\ d \in Changesets
      BY <1>1, <1>4
    <3>2. h \in ancestors[d] /\ h < d /\ h \in Changesets
      BY <1>1, <2>3, <3>1, ParentIsAncestor
    <3>3. c \in ancestors[d]
      BY <1>1, <2>2, <3>1, <3>2, Ancestry
    <3>4. d <= h
      BY <2>2, <3>1, <3>3
    <3> QED BY <3>1, <3>2, <3>4, DagAssumption DEF Changesets
  <2> QED BY <2>2, <2>3 DEF SaveHeads
<1>7. ASSUME NEW c \in Save PROVE \E b \in SaveBases : b \in ancestors[c]
  <2> DEFINE A == Save \cap ancestors[c]
  <2>1. A \in SUBSET Nat /\ A # {} /\ c \in Changesets
    <3>1. Save \subseteq Nat
      BY <1>1, <1>4, DagAssumption DEF Changesets
    <3>2. c \in A /\ c \in Changesets
      BY <1>1, <1>4, <1>7 DEF IsOrder
    <3> QED BY <3>1, <3>2
  <2>2. PICK b \in A : \A x \in A : b <= x
    <3> HIDE DEF A
    <3> QED BY <2>1, HasLeast
  <2>3. b \in Changesets /\ b \in ancestors[b]
    <3>1. b \in ancestors[c]
      BY <2>2
    <3>2. b \in Changesets
      BY <1>1, <2>1, <3>1, Ancestry
    <3> QED BY <1>1, <3>2 DEF IsOrder
  <2>4. ASSUME NEW a \in ancestors[b] \cap Save PROVE a = b
    <3>1. a \in A /\ a <= b /\ a \in Changesets
      BY <1>1, <2>1, <2>2, <2>3, Ancestry
    <3>2. b <= a
      BY <2>2, <3>1
    <3> QED BY <2>3, <3>1, <3>2, DagAssumption DEF Changesets
  <2> QED BY <2>2, <2>3, <2>4 DEF SaveBases
<1> QED BY <1>4, <1>5, <1>6, <1>7

\* What the temporary bundle has.
LEMMA TempIs ==
    ASSUME Opening, NEW t \in IF SaveHeads = {} THEN {Absent} ELSE Bundle(SaveBases, SaveHeads),
           NEW b, b = Contents(t)
    PROVE  /\ b \in Bundles /\ Fit(changelog, filelog, b)
           /\ Save \subseteq Saved(b) /\ Saved(b) \subseteq before \ strip
           /\ \A f \in Files : b.nodes[f] \subseteq NodesOf(filelog[f])
           /\ \A f \in Files : \A r \in DOMAIN filelog[f] : \A c \in Save :
                 r >= Point(f) /\ node[f][c] = filelog[f][r].node =>
                    filelog[f][r].node \in b.nodes[f]
<1>1. CASE SaveHeads = {}
  <2>1. b = Nothing /\ Save = {}
    BY <1>1, SaveIs DEF Contents
  <2>2. b \in Bundles /\ Saved(b) = {} /\ \A f \in Files : b.nodes[f] = {}
    BY <2>1 DEF Nothing, Bundles, Saved, Range
  <2>3. Fit(changelog, filelog, b)
    BY <2>1 DEF Opening, IsRepository
  <2> QED BY <2>1, <2>2, <2>3
<1>2. CASE SaveHeads # {}
  <2>1. b \in Bundle(SaveBases, SaveHeads)
    <3>1. Bundle(SaveBases, SaveHeads) \subseteq Bundles
      <4>1. SaveBases \in SUBSET Changesets /\ SaveHeads \in SUBSET Range(changelog)
        BY SaveIs, StayingIsClosed DEF SaveBases, SaveHeads, Opening
      <4>2. PICK R, H : R = SaveBases /\ H = SaveHeads
        OBVIOUS
      <4> QED BY <4>1, <4>2, BundleFits DEF Opening, Graph
    <3> QED BY <1>2, <3>1, AbsentAssumption DEF Contents
  <2>2. PICK R, H : R = SaveBases /\ H = SaveHeads
    OBVIOUS
  <2>3. /\ R \in SUBSET Changesets /\ H \in SUBSET Range(changelog) /\ H \in SUBSET Changesets
        /\ R \subseteq Save /\ H \subseteq Save /\ Save \subseteq before \ strip
        /\ before = Range(changelog)
    BY <2>2, SaveIs, StayingIsClosed DEF SaveBases, SaveHeads, Opening
  <2>4. b \in Bundles /\ Fit(changelog, filelog, b)
    BY <2>1, <2>2, <2>3, BundleFits DEF Opening, Graph
  <2>5. b \in Bundle(R, H) /\ IsOrder /\ LogTyped /\ IsRepository(changelog, filelog)
    BY <2>1, <2>2 DEF Opening, Graph
  <2>6. /\ Saved(b) = MissingOf(R, H)
        /\ \A f \in Files : b.nodes[f] =
              {r.node : r \in {q \in Range(filelog[f]) :
                  /\ changelog[q.link] \notin CommonOf(R, H)
                  /\ \E c \in MissingOf(R, H) : node[f][c] = q.node}}
    BY <2>3, <2>5, BundleFits
  <2>7. \A c \in Save : c \in MissingOf(R, H) /\ c \notin CommonOf(R, H)
    <3> SUFFICES ASSUME NEW c \in Save PROVE c \in MissingOf(R, H) /\ c \notin CommonOf(R, H)
      OBVIOUS
    <3>1. R \subseteq AncestorsOf(H)
      BY <2>2, <2>3, SaveIs DEF AncestorsOf
    <3>2. c \in AncestorsOf(H)
      BY <2>2, SaveIs DEF AncestorsOf
    <3>3. PICK r \in R : r \in ancestors[c]
      BY <2>2, SaveIs
    <3> QED BY <2>3, <3>1, <3>2, <3>3, IsMissing DEF Opening, Graph
  <2>8. MissingOf(R, H) \subseteq before \ strip /\ CommonOf(R, H) \subseteq before \ strip
    <3>1. /\ IsClosed(before \ strip) /\ AncestorsOf(H \cap DescendantsOf(R)) \subseteq before \ strip
      BY <2>3, StayingIsClosed DEF IsClosed, AncestorsOf
    <3>2. CommonHeads(R, H \cap DescendantsOf(R)) \subseteq before \ strip
      <4> SUFFICES ASSUME NEW p \in CommonHeads(R, H \cap DescendantsOf(R))
                   PROVE  p \in before \ strip
        OBVIOUS
      <4>1. PICK c \in R : p \in ParentsOf(c)
        BY DEF CommonHeads
      <4>2. p \in ancestors[c]
        BY <4>1 DEF ParentsOf
      <4> QED BY <2>3, <3>1, <4>1, <4>2 DEF IsClosed, AncestorsOf
    <3> QED BY <3>1, <3>2 DEF MissingOf, CommonOf, IsClosed, AncestorsOf
  <2>9. ASSUME NEW f \in Files, NEW r \in DOMAIN filelog[f], NEW c \in Save,
               r >= Point(f), node[f][c] = filelog[f][r].node
        PROVE  filelog[f][r].node \in b.nodes[f]
    <3> DEFINE d == changelog[filelog[f][r].link]
    <3>1. filelog[f][r].link \in DOMAIN changelog
      BY <2>9, RepositoryIs DEF Opening, LinksFirst
    <3>2. d \notin CommonOf(R, H)
      <4>1. CASE d \in strip
        BY <2>8, <4>1
      <4>2. CASE d \in Later \ strip
        BY <2>7, <4>2, SaveIs
      <4>3. CASE d \notin Later
        <5>1. ~(filelog[f][r].link >= StripRev)
          BY <3>1, <4>3, StripRevIs
        <5>2. filelog[f][r].link \in Int /\ StripRev \in Int
          BY <3>1, StripRevIs, RepositoryIs DEF Opening
        <5>3. filelog[f][r].link < StripRev
          BY <5>1, <5>2
        <5>4. d \in Save
          BY <2>9, <5>3, SaveIs
        <5> QED BY <2>7, <5>4
      <4> QED BY <4>1, <4>2, <4>3
    <3>3. filelog[f][r] \in Range(filelog[f])
      BY <2>9 DEF Range
    <3> QED BY <2>6, <2>7, <2>9, <3>2, <3>3
  <2>10. \A f \in Files : b.nodes[f] \subseteq NodesOf(filelog[f])
    BY <2>6 DEF NodesOf
  <2> QED BY <2>4, <2>6, <2>7, <2>8, <2>9, <2>10
<1> QED BY <1>1, <1>2

\* What the backup has.
LEMMA BackupIs ==
    ASSUME Opening, NEW b \in Bundle(strip, Heads)
    PROVE  /\ b \in Bundles /\ strip \subseteq Saved(b)
           /\ \A f \in Files : \A r \in DOMAIN filelog[f] :
                 changelog[filelog[f][r].link] \in strip => filelog[f][r].node \in b.nodes[f]
<1>1. /\ before \subseteq Changesets /\ before = Range(changelog) /\ IsOrder
      /\ LogTyped /\ IsRepository(changelog, filelog) /\ strip \subseteq before
  BY StayingIsClosed DEF Opening, Graph
<1>2. PICK R, H : R = strip /\ H = Heads
  OBVIOUS
<1>3. /\ R \in SUBSET Changesets /\ H \in SUBSET Range(changelog) /\ H \in SUBSET Changesets
  BY <1>1, <1>2 DEF Heads, HeadsOf
<1>4. b \in Bundles
  BY <1>1, <1>2, <1>3, BundleFits
<1>5. /\ Saved(b) = MissingOf(R, H)
      /\ \A f \in Files : b.nodes[f] =
            {r.node : r \in {q \in Range(filelog[f]) :
                /\ changelog[q.link] \notin CommonOf(R, H)
                /\ \E c \in MissingOf(R, H) : node[f][c] = q.node}}
  BY <1>1, <1>2, <1>3, BundleFits
<1>6. before \subseteq AncestorsOf(H)
  BY <1>1, <1>2, HeadsSpan, AncestorsAreClosed DEF Heads
<1>7. \A c \in strip : c \in MissingOf(R, H) /\ c \notin CommonOf(R, H)
  <2> SUFFICES ASSUME NEW c \in strip PROVE c \in MissingOf(R, H) /\ c \notin CommonOf(R, H)
    OBVIOUS
  <2>1. c \in R /\ c \in ancestors[c] /\ c \in AncestorsOf(H) /\ R \subseteq AncestorsOf(H)
    BY <1>1, <1>2, <1>6 DEF IsOrder
  <2> QED BY <1>1, <1>3, <2>1, IsMissing
<1>8. ASSUME NEW f \in Files, NEW r \in DOMAIN filelog[f], changelog[filelog[f][r].link] \in strip
      PROVE  filelog[f][r].node \in b.nodes[f]
  <2>1. filelog[f][r] \in Range(filelog[f])
    BY <1>8 DEF Range
  <2>2. node[f][changelog[filelog[f][r].link]] = filelog[f][r].node
    BY <1>1, <1>8, RepositoryIs DEF LinksFirst
  <2> QED BY <1>5, <1>7, <1>8, <2>1, <2>2
<1> QED BY <1>4, <1>5, <1>7, <1>8

-----------------------------------------------------------------------------
(* What the cut leaves *)

\* The beginning of a sequence.
LEMMA PrefixIs ==
    ASSUME NEW S, NEW s \in Seq(S), NEW n \in 0..Len(s)
    PROVE  /\ SubSeq(s, 1, n) \in Seq(S) /\ DOMAIN SubSeq(s, 1, n) = 1..n
           /\ Len(SubSeq(s, 1, n)) = n
           /\ \A i \in 1..n : SubSeq(s, 1, n)[i] = s[i] /\ i \in DOMAIN s
<1>1. Len(s) \in Nat /\ n \in Nat /\ n <= Len(s) /\ DOMAIN s = 1..Len(s)
  BY LenProperties
<1>2. SubSeq(s, 1, n) = [i \in 1..n |-> s[i]]
  BY <1>1, SubSeqProperties
<1>3. \A i \in 1..n : s[i] \in S /\ i \in DOMAIN s
  BY <1>1, LenProperties
<1>4. SubSeq(s, 1, n) \in Seq(S)
  BY <1>1, <1>2, <1>3, SeqDef
<1>5. Len(SubSeq(s, 1, n)) = n
  BY <1>1, <1>2
<1> QED BY <1>2, <1>3, <1>4, <1>5

\* The part of a file below the cut.
IsCut(cl, fl) ==
    /\ cl = SubSeq(changelog, 1, StripRev - 1)
    /\ \A f \in Files : fl[f] = SubSeq(filelog[f], 1, Point(f) - 1)

LEMMA CutIs ==
    ASSUME Opening, NEW cl, NEW fl, IsCut(cl, fl)
    PROVE  /\ cl \in Seq(Changesets) /\ DOMAIN cl = 1..(StripRev - 1)
           /\ \A i \in DOMAIN cl : cl[i] = changelog[i] /\ i \in DOMAIN changelog /\ i \in Int
           /\ Range(cl) = before \ Later
           /\ \A f \in Files :
                 /\ fl[f] \in Seq(Rev) /\ DOMAIN fl[f] = 1..(Point(f) - 1) /\ Point(f) \in Nat
                 /\ \A i \in DOMAIN fl[f] :
                       fl[f][i] = filelog[f][i] /\ i \in DOMAIN filelog[f] /\ i \in Int
                 /\ \A r \in DOMAIN filelog[f] : r \in Int /\ (r \in DOMAIN fl[f] <=> ~(r >= Point(f)))
<1>1. /\ StripRev \in DOMAIN changelog /\ StripRev \in Nat /\ StripRev >= 1
      /\ \A i \in DOMAIN changelog : i >= StripRev <=> changelog[i] \in Later
      /\ changelog \in Seq(Changesets) /\ before = Range(changelog)
  BY StripRevIs DEF Opening, LogTyped
<1>2. DOMAIN changelog = 1..Len(changelog) /\ Len(changelog) \in Nat
  BY <1>1, LenProperties
<1>3. StripRev - 1 \in 0..Len(changelog)
  BY <1>1, <1>2
<1>4. PICK m \in 0..Len(changelog) : m = StripRev - 1
  BY <1>3
<1>5. PICK s \in Seq(Changesets) : s = changelog
  BY <1>1
<1>6. cl = SubSeq(s, 1, m) /\ m \in 0..Len(s)
  BY <1>4, <1>5 DEF IsCut
<1>7. /\ cl \in Seq(Changesets) /\ DOMAIN cl = 1..m
      /\ \A i \in 1..m : cl[i] = s[i] /\ i \in DOMAIN s
  BY <1>6, PrefixIs
<1>8. Range(cl) = before \ Later
  <2>1. ASSUME NEW c \in Range(cl) PROVE c \in before \ Later
    <3>1. PICK i \in 1..m : c = s[i] /\ i \in DOMAIN s
      BY <1>7 DEF Range
    <3>2. ~(i >= StripRev)
      BY <1>1, <1>4
    <3> QED BY <1>1, <1>5, <3>1, <3>2 DEF Range
  <2>2. ASSUME NEW c \in before \ Later PROVE c \in Range(cl)
    <3>1. PICK i \in DOMAIN changelog : c = changelog[i]
      BY <1>1 DEF Range
    <3>2. ~(i >= StripRev)
      BY <1>1, <3>1
    <3>3. i \in 1..m
      BY <1>1, <1>2, <1>4, <3>2
    <3> QED BY <1>5, <1>7, <3>1, <3>3 DEF Range
  <2> QED BY <2>1, <2>2
<1>9. ASSUME NEW f \in Files
      PROVE  /\ fl[f] \in Seq(Rev) /\ DOMAIN fl[f] = 1..(Point(f) - 1) /\ Point(f) \in Nat
             /\ \A i \in DOMAIN fl[f] :
                   fl[f][i] = filelog[f][i] /\ i \in DOMAIN filelog[f] /\ i \in Int
             /\ \A r \in DOMAIN filelog[f] : r \in Int /\ (r \in DOMAIN fl[f] <=> ~(r >= Point(f)))
  <2>1. /\ filelog[f] \in Seq(Rev) /\ Point(f) \in 1..(Len(filelog[f]) + 1)
    BY PointIs
  <2>2. DOMAIN filelog[f] = 1..Len(filelog[f]) /\ Len(filelog[f]) \in Nat
    BY <2>1, LenProperties
  <2>3. Point(f) \in Nat /\ Point(f) - 1 \in 0..Len(filelog[f])
    BY <2>1, <2>2
  <2>4. PICK t \in Seq(Rev) : t = filelog[f]
    BY <2>1
  <2>5. PICK n \in 0..Len(t) : n = Point(f) - 1
    BY <2>3, <2>4
  <2>6. fl[f] = SubSeq(t, 1, n)
    BY <2>4, <2>5 DEF IsCut
  <2>7. /\ fl[f] \in Seq(Rev) /\ DOMAIN fl[f] = 1..n
        /\ \A i \in 1..n : fl[f][i] = t[i] /\ i \in DOMAIN t
    BY <2>6, PrefixIs
  <2>8. \A r \in DOMAIN filelog[f] : r \in Int /\ (r \in 1..n <=> ~(r >= Point(f)))
    BY <2>2, <2>3, <2>5
  <2> QED BY <2>3, <2>4, <2>5, <2>7, <2>8
<1> QED BY <1>1, <1>4, <1>5, <1>7, <1>8, <1>9

\* With the temporary bundle, what the cut leaves has all that stays; with the backup,
\* all that was.
LEMMA CutFits ==
    ASSUME Opening, NEW cl, NEW fl, IsCut(cl, fl),
           NEW t \in IF SaveHeads = {} THEN {Absent} ELSE Bundle(SaveBases, SaveHeads),
           NEW b, b = Contents(t), NEW bk \in Bundle(strip, Heads)
    PROVE  /\ Fit(cl, fl, b) /\ Kept(cl, fl, b, bk)
           /\ Range(cl) \cup Saved(b) = before \ strip
<1>1. /\ cl \in Seq(Changesets) /\ DOMAIN cl = 1..(StripRev - 1)
      /\ \A i \in DOMAIN cl : cl[i] = changelog[i] /\ i \in DOMAIN changelog /\ i \in Int
      /\ Range(cl) = before \ Later
  BY CutIs
<1>2. /\ Fit(changelog, filelog, b)
      /\ Save \subseteq Saved(b) /\ Saved(b) \subseteq before \ strip
  BY TempIs
<1>3. /\ strip \subseteq Later /\ Later \subseteq before /\ before = Range(changelog)
      /\ strip \subseteq Saved(bk) /\ Later \ strip \subseteq Save /\ StripRev \in Nat
  <2>1. ASSUME NEW c \in strip PROVE c \in Later
    <3>1. PICK i \in DOMAIN changelog : c = changelog[i]
      BY DEF Opening, Range
    <3>2. ~(i < StripRev) /\ i \in Int /\ StripRev \in Int
      BY <3>1, StripRevIs, RepositoryIs DEF Opening
    <3> QED BY <3>1, <3>2, StripRevIs
  <2> QED BY <2>1, StripRevIs, BackupIs, SaveIs DEF Opening
<1>4. Range(cl) \cup Saved(b) = before \ strip
  BY <1>1, <1>2, <1>3
<1>5. CsetsFit(cl, b)
  <2>1. CsetsFit(changelog, b)
    BY <1>2 DEF Fit
  <2>2. Ordered(cl) /\ Ordered(b.csets)
    BY <1>1, <2>1 DEF CsetsFit, Ordered
  <2>3. IsClosed(Range(cl) \cup Saved(b))
    BY <1>4, StayingIsClosed
  <2>4. IsClosed(Range(cl))
    <3> SUFFICES ASSUME NEW k \in DOMAIN cl, NEW a \in ancestors[cl[k]] PROVE a \in Range(cl)
      BY DEF IsClosed, AncestorsOf, Range
    <3>1. k \in DOMAIN changelog /\ cl[k] = changelog[k] /\ k \in Int /\ k < StripRev
      BY <1>1, <1>3
    <3>2. PICK i \in DOMAIN changelog : changelog[i] = a
      BY <2>1, <3>1 DEF CsetsFit, IsClosed, AncestorsOf, Range
    <3>3. i <= k
      BY <2>1, <3>1, <3>2 DEF CsetsFit, Ordered
    <3>4. i \in 1..(StripRev - 1)
      BY <1>3, <3>1, <3>2, <3>3, RepositoryIs DEF Opening
    <3> QED BY <1>1, <3>2, <3>4 DEF Range
  <2>5. ASSUME NEW i \in DOMAIN b.csets, NEW j \in DOMAIN b.csets, NEW k \in DOMAIN cl,
               i <= j, cl[k] = b.csets[j]
        PROVE  \E l \in 1..k : cl[l] = b.csets[i]
    <3>1. k \in DOMAIN changelog /\ changelog[k] = b.csets[j] /\ k \in Int
      BY <1>1, <2>5
    <3>2. PICK l \in 1..k : changelog[l] = b.csets[i]
      BY <2>1, <2>5, <3>1 DEF CsetsFit
    <3>3. l \in DOMAIN cl
      BY <1>1, <1>3, <3>1
    <3> QED BY <1>1, <3>2, <3>3
  <2> QED BY <2>2, <2>3, <2>5, <2>4 DEF CsetsFit
<1>6. ASSUME NEW f \in Files
      PROVE  /\ NodesFit(f, cl, fl[f], b)
             /\ \A c \in before \ strip : manifest[f][c] \in {0} \cup NodesOf(fl[f]) \cup b.nodes[f]
             /\ \A c \in before :
                   manifest[f][c] \in {0} \cup NodesOf(fl[f]) \cup b.nodes[f] \cup bk.nodes[f]
  <2> DEFINE s == fl[f]
             F == filelog[f]
  <2>1. /\ s \in Seq(Rev) /\ DOMAIN s = 1..(Point(f) - 1) /\ Point(f) \in Nat
        /\ \A i \in DOMAIN s : s[i] = F[i] /\ i \in DOMAIN F /\ i \in Int
        /\ \A r \in DOMAIN F : r \in Int /\ (r \in DOMAIN s <=> ~(r >= Point(f)))
    BY CutIs
  <2>2. /\ LinksFirst(f, changelog, F) /\ ParentsFirst(f, F) /\ F \in Seq(Rev)
        /\ \A c \in before : manifest[f][c] \in {0} \cup NodesOf(F)
    BY <1>3, RepositoryIs DEF Opening
  <2>3. /\ \A r \in DOMAIN F : r \in DOMAIN s => F[r].link < StripRev
        /\ \A r \in DOMAIN F : r >= Point(f) /\ F[r].link < StripRev => changelog[F[r].link] \in Save
        /\ \A r \in DOMAIN F : \A c \in Save :
              r >= Point(f) /\ node[f][c] = F[r].node => F[r].node \in b.nodes[f]
        /\ \A r \in DOMAIN F : changelog[F[r].link] \in strip => F[r].node \in bk.nodes[f]
        /\ b.nodes[f] \subseteq NodesOf(F)
    <3>1. \A r \in DOMAIN F : r < Point(f) => F[r].link < StripRev
      BY PointIs
    <3>2. \A r \in DOMAIN F : r \in DOMAIN s => r < Point(f)
      BY <2>1
    <3>3. /\ \A r \in DOMAIN F : \A c \in Save :
              r >= Point(f) /\ node[f][c] = F[r].node => F[r].node \in b.nodes[f]
          /\ b.nodes[f] \subseteq NodesOf(F)
      BY TempIs
    <3>4. \A r \in DOMAIN F : r >= Point(f) /\ F[r].link < StripRev => changelog[F[r].link] \in Save
      BY SaveIs
    <3>5. \A r \in DOMAIN F : changelog[F[r].link] \in strip => F[r].node \in bk.nodes[f]
      BY BackupIs
    <3> HIDE DEF F, s
    <3> QED BY <3>1, <3>2, <3>3, <3>4, <3>5
  <2>4. \A r \in DOMAIN F : /\ F[r].link \in DOMAIN changelog /\ F[r].link \in Int
                            /\ node[f][changelog[F[r].link]] = F[r].node
                            /\ \A i \in DOMAIN changelog :
                                  node[f][changelog[i]] = F[r].node => F[r].link <= i
    BY <2>2, RepositoryIs DEF LinksFirst, Opening
  <2>5. DOMAIN changelog = 1..Len(changelog) /\ Len(changelog) \in Nat
    BY RepositoryIs DEF Opening
  <2>6. \A n : n \in NodesOf(F) <=> \E r \in DOMAIN F : n = F[r].node
    BY DEF NodesOf, Range
  <2>7. \A n : n \in NodesOf(s) <=> \E r \in DOMAIN s : n = s[r].node
    BY DEF NodesOf, Range
  <2> HIDE DEF F, s
  <2>8. LinksFirst(f, cl, s)
    <3> SUFFICES ASSUME NEW r \in DOMAIN s
                 PROVE  /\ s[r].link \in DOMAIN cl /\ node[f][cl[s[r].link]] = s[r].node
                        /\ \A i \in DOMAIN cl : node[f][cl[i]] = s[r].node => s[r].link <= i
      BY DEF LinksFirst
    <3>1. s[r] = F[r] /\ r \in DOMAIN F /\ F[r].link < StripRev
      BY <2>1, <2>3
    <3>2. s[r].link \in DOMAIN cl
      BY <1>1, <1>3, <2>4, <2>5, <3>1
    <3> QED BY <1>1, <2>4, <3>1, <3>2
  <2>9. ParentsFirst(f, s)
    <3>1. \A r, q \in DOMAIN s : s[r].node = s[q].node => r = q
      BY <2>1, <2>2 DEF ParentsFirst
    <3>2. ASSUME NEW r \in DOMAIN s, NEW n \in NodeParents(f, s[r].node)
          PROVE  \E q \in 1..(r - 1) : s[q].node = n
      <4>1. PICK q \in 1..(r - 1) : F[q].node = n
        BY <2>1, <2>2, <3>2 DEF ParentsFirst
      <4>2. q \in DOMAIN s
        BY <2>1, <4>1
      <4> QED BY <2>1, <4>1, <4>2
    <3> QED BY <3>1, <3>2 DEF ParentsFirst
  <2>10. ASSUME NEW c \in before \ strip
         PROVE  manifest[f][c] \in {0} \cup NodesOf(s) \cup b.nodes[f]
    <3> SUFFICES ASSUME manifest[f][c] # 0, manifest[f][c] \notin NodesOf(s)
                 PROVE  manifest[f][c] \in b.nodes[f]
      OBVIOUS
    <3>1. PICK r \in DOMAIN F : manifest[f][c] = F[r].node
      BY <2>2, <2>6
    <3>2. r >= Point(f)
      BY <2>1, <2>7, <3>1
    <3>3. CASE F[r].link < StripRev
      BY <2>3, <2>4, <3>1, <3>2, <3>3
    <3>4. CASE ~(F[r].link < StripRev)
      <4>1. c \in Changesets
        BY StayingIsClosed
      <4>2. PICK a \in ancestors[c] : node[f][a] = manifest[f][c]
        BY <4>1, Introduced DEF Opening
      <4>3. a \in before \ strip
        BY <4>2, StayingIsClosed DEF IsClosed, AncestorsOf
      <4>4. PICK k \in DOMAIN changelog : changelog[k] = a
        BY <1>3, <4>3 DEF Range
      <4>5. F[r].link <= k
        BY <2>4, <3>1, <4>2, <4>4
      <4>6. k >= StripRev
        BY <1>3, <2>4, <2>5, <3>4, <4>5
      <4>7. a \in Save
        BY <1>3, <4>3, <4>4, <4>6, StripRevIs
      <4> QED BY <2>3, <3>1, <3>2, <4>2, <4>7
    <3> QED BY <3>3, <3>4
  <2>11. ASSUME NEW c \in before
         PROVE  manifest[f][c] \in {0} \cup NodesOf(s) \cup b.nodes[f] \cup bk.nodes[f]
    <3> SUFFICES ASSUME manifest[f][c] # 0, manifest[f][c] \notin NodesOf(s)
                 PROVE  manifest[f][c] \in b.nodes[f] \cup bk.nodes[f]
      OBVIOUS
    <3>1. PICK r \in DOMAIN F : manifest[f][c] = F[r].node
      BY <2>2, <2>6
    <3>2. r >= Point(f)
      BY <2>1, <2>7, <3>1
    <3> DEFINE d == changelog[F[r].link]
    <3>3. CASE F[r].link < StripRev
      BY <2>3, <2>4, <3>1, <3>2, <3>3
    <3>4. CASE d \in strip
      BY <2>3, <3>1, <3>4
    <3>5. CASE ~(F[r].link < StripRev) /\ d \notin strip
      <4>1. d \in Later
        BY <1>3, <2>4, <3>5, StripRevIs
      <4>2. d \in Save
        BY <1>3, <3>5, <4>1
      <4> QED BY <2>3, <2>4, <3>1, <3>2, <4>2
    <3> QED BY <3>3, <3>4, <3>5
  <2>12. \A n \in b.nodes[f] : \E c \in Saved(b) : node[f][c] = n
    BY <1>2 DEF Fit, NodesFit
  <2>13. ASSUME NEW n \in b.nodes[f] \ NodesOf(s), NEW k \in DOMAIN cl, node[f][cl[k]] = n
         PROVE  \E l \in 1..k : cl[l] \in Saved(b) /\ node[f][cl[l]] = n
    <3>1. PICK r \in DOMAIN F : n = F[r].node
      BY <2>3, <2>6
    <3>2. r >= Point(f)
      BY <2>1, <2>7, <3>1
    <3>3. F[r].link <= k /\ k \in Int
      BY <1>1, <2>4, <2>13, <3>1
    <3>4. k < StripRev /\ 1 <= F[r].link
      BY <1>1, <1>3, <2>4, <2>5
    <3>5. F[r].link < StripRev /\ F[r].link \in 1..k /\ F[r].link \in DOMAIN cl
      BY <1>1, <1>3, <2>4, <3>3, <3>4
    <3>6. changelog[F[r].link] \in Saved(b)
      BY <1>2, <2>3, <3>2, <3>5
    <3> QED BY <1>1, <2>4, <3>1, <3>5, <3>6
  <2>14. \A c \in Range(cl) \cup Saved(b) : manifest[f][c] \in {0} \cup NodesOf(s) \cup b.nodes[f]
    BY <1>4, <2>10
  <2>15. NodesFit(f, cl, s, b)
    BY <2>8, <2>9, <2>12, <2>13, <2>14 DEF NodesFit
  <2> QED BY <2>10, <2>11, <2>15 DEF s
<1>7. Fit(cl, fl, b)
  BY <1>5, <1>6 DEF Fit
<1>8. Kept(cl, fl, b, bk)
  <2>1. before \subseteq Range(cl) \cup Saved(b) \cup Saved(bk)
    BY <1>3, <1>4
  <2>2. before \ strip \subseteq Range(cl) \cup Saved(b)
    BY <1>4
  <2> QED BY <1>6, <2>1, <2>2 DEF Kept
<1> QED BY <1>4, <1>7, <1>8

-----------------------------------------------------------------------------
(* What is received *)

\* One sequence after another.
LEMMA ConcatIs ==
    ASSUME NEW S, NEW s \in Seq(S), NEW t \in Seq(S)
    PROVE  /\ s \o t \in Seq(S) /\ Range(s \o t) = Range(s) \cup Range(t)
           /\ DOMAIN s = 1..Len(s) /\ Len(s) \in Nat /\ DOMAIN t = 1..Len(t) /\ Len(t) \in Nat
           /\ DOMAIN (s \o t) = 1..(Len(s) + Len(t))
           /\ \A i \in DOMAIN s : (s \o t)[i] = s[i] /\ i \in DOMAIN (s \o t)
           /\ \A i \in DOMAIN (s \o t) : i \notin DOMAIN s =>
                 i > Len(s) /\ i - Len(s) \in DOMAIN t /\ (s \o t)[i] = t[i - Len(s)]
           /\ \A i \in DOMAIN t : (s \o t)[i + Len(s)] = t[i] /\ i + Len(s) \in DOMAIN (s \o t)
<1>1. /\ DOMAIN s = 1..Len(s) /\ Len(s) \in Nat /\ DOMAIN t = 1..Len(t) /\ Len(t) \in Nat
  BY LenProperties
<1>2. s \o t \in Seq(S) /\ Len(s \o t) = Len(s) + Len(t)
      /\ \A i \in 1..(Len(s) + Len(t)) :
            (s \o t)[i] = IF i <= Len(s) THEN s[i] ELSE t[i - Len(s)]
  BY ConcatProperties
<1>3. DOMAIN (s \o t) = 1..(Len(s) + Len(t))
  BY <1>2, LenProperties
<1> DEFINE u == s \o t
<1>4. u \in Seq(S) /\ DOMAIN u = 1..(Len(s) + Len(t))
      /\ \A i \in 1..(Len(s) + Len(t)) : u[i] = IF i <= Len(s) THEN s[i] ELSE t[i - Len(s)]
  BY <1>2, <1>3
<1> HIDE DEF u
<1>5. \A i \in DOMAIN s : u[i] = s[i] /\ i \in DOMAIN u
  BY <1>1, <1>4
<1>6. \A i \in DOMAIN u : i \notin DOMAIN s =>
         i > Len(s) /\ i - Len(s) \in DOMAIN t /\ u[i] = t[i - Len(s)]
  BY <1>1, <1>4
<1>7. \A i \in DOMAIN t : u[i + Len(s)] = t[i] /\ i + Len(s) \in DOMAIN u
  <2> SUFFICES ASSUME NEW i \in DOMAIN t PROVE u[i + Len(s)] = t[i] /\ i + Len(s) \in DOMAIN u
    OBVIOUS
  <2>1. i + Len(s) \in 1..(Len(s) + Len(t)) /\ ~(i + Len(s) <= Len(s)) /\ (i + Len(s)) - Len(s) = i
    BY <1>1
  <2> QED BY <1>4, <2>1
<1>8. Range(u) = Range(s) \cup Range(t)
  <2>1. ASSUME NEW x \in Range(u) PROVE x \in Range(s) \cup Range(t)
    BY <1>5, <1>6 DEF Range
  <2>2. ASSUME NEW x \in Range(s) \cup Range(t) PROVE x \in Range(u)
    BY <1>5, <1>7 DEF Range
  <2> QED BY <2>1, <2>2
<1> QED BY <1>1, <1>4, <1>5, <1>6, <1>7, <1>8 DEF u

\* The changelog as it is in memory while the files are received.
LEMMA Joined ==
    ASSUME IsOrder, NEW cl \in Seq(Changesets), NEW b \in Bundles, CsetsFit(cl, b),
           NEW a \in InOrderOf(b.csets, Saved(b) \ Range(cl))
    PROVE  /\ a \in Seq(Changesets) /\ b.csets \in Seq(Changesets)
           /\ cl \o a \in Seq(Changesets) /\ Range(cl \o a) = Range(cl) \cup Saved(b)
           /\ CsetsFit(cl \o a, b)
<1>1. b.csets \in Seq(Changesets) /\ Ordered(b.csets) /\ Ordered(cl)
  BY DEF Bundles, CsetsFit
<1>2. /\ a \in Seq(Changesets) /\ Range(a) = Saved(b) \ Range(cl) /\ Ordered(a)
      /\ \A i, j \in DOMAIN a : \A k, l \in DOMAIN b.csets :
            b.csets[k] = a[i] /\ b.csets[l] = a[j] => (i <= j <=> k <= l)
  <2>1. PICK t \in Seq(Changesets) : t = b.csets
    BY <1>1
  <2>2. PICK S \in SUBSET Range(t) : S = Saved(b) \ Range(cl)
    BY <2>1 DEF Saved
  <2>3. Ordered(t) /\ a \in InOrderOf(t, S)
    BY <1>1, <2>1, <2>2
  <2> QED BY <2>1, <2>2, <2>3, InOrder
<1> DEFINE u == cl \o a
<1>3. /\ u \in Seq(Changesets) /\ Range(u) = Range(cl) \cup Range(a)
      /\ DOMAIN cl = 1..Len(cl) /\ Len(cl) \in Nat /\ DOMAIN a = 1..Len(a) /\ Len(a) \in Nat
      /\ DOMAIN u = 1..(Len(cl) + Len(a))
      /\ \A i \in DOMAIN cl : u[i] = cl[i] /\ i \in DOMAIN u
      /\ \A i \in DOMAIN u : i \notin DOMAIN cl =>
            i > Len(cl) /\ i - Len(cl) \in DOMAIN a /\ u[i] = a[i - Len(cl)]
      /\ \A i \in DOMAIN a : u[i + Len(cl)] = a[i] /\ i + Len(cl) \in DOMAIN u
  BY <1>2, ConcatIs
<1> HIDE DEF u
<1>4. Range(u) = Range(cl) \cup Saved(b)
  BY <1>2, <1>3
<1>5. \A i \in DOMAIN a : a[i] \in Saved(b) /\ a[i] \notin Range(cl)
  BY <1>2 DEF Range
<1>6. \A i \in DOMAIN cl : cl[i] \in Range(cl)
  BY DEF Range
<1>7. Ordered(u)
  <2> SUFFICES ASSUME NEW i \in DOMAIN u, NEW j \in DOMAIN u, u[i] \in ancestors[u[j]]
               PROVE  i <= j
    BY DEF Ordered
  <2>1. CASE i \in DOMAIN cl /\ j \in DOMAIN cl
    BY <1>1, <1>3, <2>1 DEF Ordered
  <2>2. CASE i \in DOMAIN cl /\ j \notin DOMAIN cl
    BY <1>3, <2>2
  <2>3. CASE i \notin DOMAIN cl /\ j \in DOMAIN cl
    <3>1. u[i] \in Range(cl)
      BY <1>3, <1>6, <2>3 DEF CsetsFit, IsClosed, AncestorsOf
    <3> QED BY <1>3, <1>5, <2>3, <3>1
  <2>4. CASE i \notin DOMAIN cl /\ j \notin DOMAIN cl
    <3>1. i - Len(cl) <= j - Len(cl)
      BY <1>2, <1>3, <2>4 DEF Ordered
    <3> QED BY <1>3, <3>1
  <2> QED BY <2>1, <2>2, <2>3, <2>4
<1>8. IsClosed(Range(u)) /\ IsClosed(Range(u) \cup Saved(b))
  <2>1. Range(u) \cup Saved(b) = Range(u) /\ IsClosed(Range(cl) \cup Saved(b))
    BY <1>4 DEF CsetsFit
  <2> QED BY <1>4, <2>1
<1>9. ASSUME NEW i \in DOMAIN b.csets, NEW j \in DOMAIN b.csets, NEW k \in DOMAIN u,
             i <= j, u[k] = b.csets[j]
      PROVE  \E l \in 1..k : u[l] = b.csets[i]
  <2>1. CASE k \in DOMAIN cl
    <3>1. PICK l \in 1..k : cl[l] = b.csets[i]
      BY <1>3, <1>9, <2>1 DEF CsetsFit
    <3>2. l \in DOMAIN cl
      BY <1>3, <2>1
    <3> QED BY <1>3, <3>1, <3>2
  <2>2. CASE k \notin DOMAIN cl
    <3>1. k > Len(cl) /\ k - Len(cl) \in DOMAIN a /\ u[k] = a[k - Len(cl)]
      BY <1>3, <2>2
    <3>2. b.csets[i] \in Range(cl) \cup Range(a)
      BY <1>2 DEF Saved, Range
    <3>3. CASE b.csets[i] \in Range(cl)
      <4>1. PICK l \in DOMAIN cl : cl[l] = b.csets[i]
        BY <3>3 DEF Range
      <4>2. l \in 1..k
        BY <1>3, <3>1
      <4> QED BY <1>3, <4>1, <4>2
    <3>4. CASE b.csets[i] \in Range(a)
      <4>1. PICK l \in DOMAIN a : a[l] = b.csets[i]
        BY <3>4 DEF Range
      <4>2. l <= k - Len(cl)
        BY <1>2, <1>9, <3>1, <4>1
      <4>3. l + Len(cl) \in 1..k
        BY <1>3, <3>1, <4>2
      <4> QED BY <1>3, <4>1, <4>3
    <3> QED BY <3>2, <3>3, <3>4
  <2> QED BY <2>1, <2>2
<1>10. CsetsFit(u, b)
  BY <1>1, <1>7, <1>8, <1>9 DEF CsetsFit
<1> QED BY <1>1, <1>2, <1>3, <1>4, <1>10 DEF u

\* The first changeset of a bundle that introduces a node, and what addgroup() makes of
\* the nodes it receives.
FirstOf(f, b, n) == Min({i \in DOMAIN b.csets : node[f][b.csets[i]] = n})

AddGroup(f, all, b, new) ==
    [i \in DOMAIN new |->
        [node |-> new[i], link |-> RevOf(all, b.csets[FirstOf(f, b, new[i])])]]

\* A file that is to receive what a bundle has for it.
Receives(f, cl, s, b, a) ==
    /\ IsOrder /\ cl \in Seq(Changesets) /\ b \in Bundles /\ CsetsFit(cl, b)
    /\ a \in InOrderOf(b.csets, Saved(b) \ Range(cl))
    /\ f \in Files /\ s \in Seq(Rev) /\ NodesFit(f, cl, s, b)

\* addgroup() links a node to the first changeset that introduces it.
LEMMA LinkIs ==
    ASSUME NEW f, NEW cl, NEW s, NEW b, NEW a, Receives(f, cl, s, b, a),
           NEW n \in b.nodes[f] \ NodesOf(s),
           NEW k, k = RevOf(cl \o a, b.csets[FirstOf(f, b, n)])
    PROVE  /\ k \in DOMAIN (cl \o a) /\ node[f][(cl \o a)[k]] = n
           /\ \A i \in DOMAIN (cl \o a) : node[f][(cl \o a)[i]] = n => k <= i
<1> USE DEF Receives
<1>1. PICK u : u = cl \o a
  OBVIOUS
<1>2. PICK first : first = FirstOf(f, b, n)
  OBVIOUS
<1>3. /\ b.csets \in Seq(Changesets)
      /\ u \in Seq(Changesets) /\ Range(u) = Range(cl) \cup Saved(b) /\ CsetsFit(u, b)
      /\ \A i \in DOMAIN cl : u[i] = cl[i] /\ i \in DOMAIN u
  <2>1. /\ a \in Seq(Changesets) /\ b.csets \in Seq(Changesets)
        /\ u \in Seq(Changesets) /\ Range(u) = Range(cl) \cup Saved(b) /\ CsetsFit(u, b)
    BY <1>1, Joined
  <2>2. \A i \in DOMAIN cl : u[i] = cl[i] /\ i \in DOMAIN u
    BY <1>1, <2>1, ConcatIs
  <2> QED BY <2>1, <2>2
<1>4. /\ DOMAIN b.csets = 1..Len(b.csets) /\ DOMAIN u = 1..Len(u)
      /\ Len(b.csets) \in Nat /\ Len(u) \in Nat
  BY <1>3, LenProperties
<1>5. PICK S : S = {i \in DOMAIN b.csets : node[f][b.csets[i]] = n}
  OBVIOUS
<1>6. S \in SUBSET Nat /\ S # {}
  <2>1. PICK c \in Saved(b) : node[f][c] = n
    BY DEF NodesFit
  <2> QED BY <1>4, <1>5, <2>1 DEF Saved, Range
<1>7. first \in S /\ \A x \in S : first <= x
  <2>1. first = Min(S)
    BY <1>5, <1>2 DEF FirstOf
  <2>2. Min(S) \in S /\ \A x \in S : Min(S) <= x
    BY ONLY <1>6, MinIs
  <2> QED BY <2>1, <2>2
<1>8. first \in DOMAIN b.csets /\ node[f][b.csets[first]] = n
      /\ \A j \in DOMAIN b.csets : node[f][b.csets[j]] = n => first <= j
  BY <1>7, <1>5
<1>9. PICK m \in DOMAIN u : u[m] = b.csets[first]
  BY <1>3, <1>8 DEF Saved, Range
<1>10. k = m
  <2>1. Ordered(u)
    BY <1>3 DEF CsetsFit
  <2>2. RevOf(u, u[m]) = m
    BY <1>3, <2>1, RevOfIs
  <2> QED BY <1>1, <1>9, <1>2, <2>2
<1>11. \A i \in DOMAIN u : u[i] = u[m] => i = m
  BY <1>3, <1>9, RevOfIs DEF CsetsFit
<1>12. ASSUME NEW i \in DOMAIN u, u[i] \in Saved(b), node[f][u[i]] = n PROVE m <= i
  <2>1. PICK j \in DOMAIN b.csets : b.csets[j] = u[i]
    BY <1>12 DEF Saved, Range
  <2>2. first <= j
    BY <1>8, <1>12, <2>1
  <2>3. PICK l \in 1..i : u[l] = b.csets[first]
    BY <1>3, <1>8, <2>1, <2>2 DEF CsetsFit
  <2>4. l = m
    <3>1. l \in DOMAIN u
      BY <1>4, <2>3
    <3>2. u[l] = u[m]
      BY <1>9, <2>3
    <3> QED BY <1>11, <3>1, <3>2
  <2> QED BY <2>3, <2>4
<1>13. ASSUME NEW i \in DOMAIN u, node[f][u[i]] = n PROVE m <= i
  <2>1. CASE u[i] \in Saved(b)
    BY <1>12, <1>13, <2>1
  <2>2. CASE u[i] \notin Saved(b)
    <3>1. i \in DOMAIN cl /\ cl[i] = u[i]
      <4>1. PICK j \in DOMAIN cl : cl[j] = u[i]
        BY <1>3, <2>2 DEF Range
      <4>2. u[j] = u[i] /\ j \in DOMAIN u
        BY <1>3, <4>1
      <4>3. j = i
        <5>1. Ordered(u)
          BY <1>3 DEF CsetsFit
        <5>2. RevOf(u, u[j]) = j /\ RevOf(u, u[i]) = i
          BY <1>3, <4>2, <5>1, RevOfIs
        <5> QED BY <4>2, <5>2
      <4> QED BY <4>1, <4>3
    <3>2. PICK l \in 1..i : cl[l] \in Saved(b) /\ node[f][cl[l]] = n
      BY <1>13, <3>1 DEF NodesFit
    <3>3. l \in DOMAIN cl /\ l \in DOMAIN u /\ u[l] = cl[l] /\ l <= i /\ l \in Int /\ i \in Int
      <4>1. DOMAIN cl = 1..Len(cl) /\ Len(cl) \in Nat
        BY LenProperties
      <4>2. l \in DOMAIN cl /\ l <= i /\ l \in Int /\ i \in Int
        BY <3>1, <4>1
      <4> QED BY <1>3, <4>2
    <3>4. m <= l
      BY <1>12, <3>2, <3>3
    <3> QED BY <1>4, <3>3, <3>4
  <2> QED BY <2>1, <2>2
<1> QED BY <1>1, <1>8, <1>9, <1>10, <1>13

\* Links stay good as the changelog grows.
LEMMA LinksStay ==
    ASSUME NEW cl \in Seq(Changesets), NEW a \in Seq(Changesets), NEW f, NEW s,
           LinksFirst(f, cl, s)
    PROVE  LinksFirst(f, cl \o a, s)
<1>1. PICK u : u = cl \o a
  OBVIOUS
<1>2. /\ DOMAIN cl = 1..Len(cl) /\ Len(cl) \in Nat
      /\ \A i \in DOMAIN cl : u[i] = cl[i] /\ i \in DOMAIN u
      /\ \A i \in DOMAIN u : i \in Int /\ (i \notin DOMAIN cl => i > Len(cl))
  BY <1>1, ConcatIs
<1>3. ASSUME NEW r \in DOMAIN s
      PROVE  /\ s[r].link \in DOMAIN u /\ node[f][u[s[r].link]] = s[r].node
             /\ \A i \in DOMAIN u : node[f][u[i]] = s[r].node => s[r].link <= i
  <2>1. /\ s[r].link \in DOMAIN cl /\ node[f][cl[s[r].link]] = s[r].node
        /\ \A i \in DOMAIN cl : node[f][cl[i]] = s[r].node => s[r].link <= i
    BY DEF LinksFirst
  <2>2. ASSUME NEW i \in DOMAIN u, node[f][u[i]] = s[r].node PROVE s[r].link <= i
    <3>1. CASE i \in DOMAIN cl
      BY <1>2, <2>1, <2>2, <3>1
    <3>2. CASE i \notin DOMAIN cl
      BY <1>2, <2>1, <3>2
    <3> QED BY <3>1, <3>2
  <2> QED BY <1>2, <2>1, <2>2
<1> QED BY <1>1, <1>3 DEF LinksFirst

\* What there is when all is received.
IsReceived(cl, fl, b, a, fl2) ==
    /\ IsOrder /\ cl \in Seq(Changesets) /\ b \in Bundles /\ Fit(cl, fl, b)
    /\ a \in InOrderOf(b.csets, Saved(b) \ Range(cl))
    /\ \A f \in Files : /\ LinksFirst(f, cl \o a, fl2[f]) /\ ParentsFirst(f, fl2[f])
                        /\ NodesOf(fl2[f]) = NodesOf(fl[f]) \cup b.nodes[f]

LEMMA AllReceived ==
    ASSUME NEW cl, NEW fl, NEW b, NEW a, NEW fl2, IsReceived(cl, fl, b, a, fl2),
           NEW all, all = cl \o a
    PROVE  /\ IsRepository(all, fl2) /\ Fit(all, fl2, b)
           /\ Range(all) = Range(cl) \cup Saved(b)
<1> USE DEF IsReceived
<1>1. /\ Range(all) = Range(cl) \cup Saved(b) /\ CsetsFit(all, b) /\ CsetsFit(cl, b)
  BY Joined DEF Fit
<1>2. Saved(Nothing) = {} /\ DOMAIN Nothing.csets = {} /\ \A f \in Files : Nothing.nodes[f] = {}
  BY DEF Saved, Nothing, Range
<1>3. CsetsFit(all, Nothing)
  <2>1. Range(all) \cup Saved(Nothing) = Range(all)
    BY <1>2
  <2> QED BY <1>1, <1>2, <2>1 DEF CsetsFit, Ordered
<1>4. ASSUME NEW f \in Files
      PROVE  NodesFit(f, all, fl2[f], b) /\ NodesFit(f, all, fl2[f], Nothing)
  <2>1. /\ \A c \in Range(cl) \cup Saved(b) : manifest[f][c] \in {0} \cup NodesOf(fl[f]) \cup b.nodes[f]
        /\ \A n \in b.nodes[f] : \E c \in Saved(b) : node[f][c] = n
    BY DEF Fit, NodesFit
  <2>2. /\ LinksFirst(f, all, fl2[f]) /\ ParentsFirst(f, fl2[f])
        /\ NodesOf(fl2[f]) = NodesOf(fl[f]) \cup b.nodes[f]
    OBVIOUS
  <2>3. \A c \in Range(all) : manifest[f][c] \in {0} \cup NodesOf(fl2[f])
    BY <1>1, <2>1, <2>2
  <2>4. Range(all) \cup Saved(b) = Range(all) /\ Range(all) \cup Saved(Nothing) = Range(all)
    BY <1>1, <1>2
  <2>5. b.nodes[f] \ NodesOf(fl2[f]) = {}
    BY <2>2
  <2> QED BY <1>2, <2>1, <2>2, <2>3, <2>4, <2>5 DEF NodesFit
<1> QED BY <1>1, <1>3, <1>4 DEF IsRepository, Fit

\* There are no more changesets in a changelog than there are changesets.
LEMMA NotTooMany ==
    ASSUME IsOrder, NEW s \in Seq(Changesets), Ordered(s)
    PROVE  Len(s) <= N
<1>1. Len(s) \in Nat /\ DOMAIN s = 1..Len(s) /\ N \in Nat /\ \A i \in DOMAIN s : s[i] \in Changesets
  BY LenProperties, DagAssumption
<1>2. \A i, j \in DOMAIN s : s[i] = s[j] => i = j
  <2> SUFFICES ASSUME NEW i \in DOMAIN s, NEW j \in DOMAIN s, s[i] = s[j] PROVE i = j
    OBVIOUS
  <2>1. s[i] \in ancestors[s[j]] /\ s[j] \in ancestors[s[i]]
    BY <1>1 DEF IsOrder
  <2>2. i <= j /\ j <= i
    BY <2>1 DEF Ordered
  <2> QED BY <1>1, <2>2
<1>3. s \in [1..Len(s) -> 1..N]
  BY <1>1 DEF Changesets
<1>4. s \in Injection(1..Len(s), 1..N)
  BY <1>1, <1>2, <1>3 DEF Injection, IsInjective
<1>5. IsFiniteSet(1..N) /\ Cardinality(1..N) = N /\ Cardinality(1..Len(s)) = Len(s)
  <2>1. 1 \in Int /\ N \in Int /\ Len(s) \in Int
    BY <1>1
  <2>2. \A a, b \in Int : IsFiniteSet(a..b) /\ Cardinality(a..b) = IF a > b THEN 0 ELSE b - a + 1
    BY FS_Interval
  <2>3. IsFiniteSet(1..N)
    BY <2>1, <2>2
  <2>4. Cardinality(1..N) = IF 1 > N THEN 0 ELSE N - 1 + 1
    BY <2>1, <2>2
  <2>5. Cardinality(1..Len(s)) = IF 1 > Len(s) THEN 0 ELSE Len(s) - 1 + 1
    BY <2>1, <2>2
  <2>6. (IF 1 > N THEN 0 ELSE N - 1 + 1) = N /\ (IF 1 > Len(s) THEN 0 ELSE Len(s) - 1 + 1) = Len(s)
    BY <1>1
  <2> QED BY <2>3, <2>4, <2>5, <2>6
<1>6. Cardinality(1..Len(s)) <= Cardinality(1..N)
  BY <1>4, <1>5, FS_Injection
<1> QED BY <1>5, <1>6

NodeSeq(s) == [i \in DOMAIN s |-> s[i].node]

\* A file with what it receives.
LEMMA FileReceived ==
    ASSUME Graph, NEW f, NEW cl, NEW s, NEW b, NEW a, Receives(f, cl, s, b, a),
           NEW new \in SetToSeqs(b.nodes[f] \ NodesOf(s)),
           NEW have, have = NodeSeq(s), Sorted(f, have \o new),
           NEW es, es = AddGroup(f, cl \o a, b, new)
    PROVE  /\ es \in Seq(Rev) /\ s \o es \in Seq(Rev)
           /\ LinksFirst(f, cl \o a, s \o es) /\ ParentsFirst(f, s \o es)
           /\ NodesOf(s \o es) = NodesOf(s) \cup b.nodes[f]
<1> SUFFICES ASSUME IsOrder, cl \in Seq(Changesets), b \in Bundles, CsetsFit(cl, b),
                    a \in InOrderOf(b.csets, Saved(b) \ Range(cl)),
                    f \in Files, s \in Seq(Rev), NodesFit(f, cl, s, b)
             PROVE  /\ es \in Seq(Rev) /\ s \o es \in Seq(Rev)
                    /\ LinksFirst(f, cl \o a, s \o es) /\ ParentsFirst(f, s \o es)
                    /\ NodesOf(s \o es) = NodesOf(s) \cup b.nodes[f]
  BY DEF Receives
<1>1. /\ IsOrder /\ a \in Seq(Changesets) /\ cl \o a \in Seq(Changesets)
      /\ Ordered(cl \o a)
  BY Joined DEF Graph, CsetsFit
<1>2. PICK all \in Seq(Changesets) : all = cl \o a
  BY <1>1
<1>3. DOMAIN all = 1..Len(all) /\ Len(all) \in Nat /\ Len(all) <= N
  BY <1>1, <1>2, LenProperties, NotTooMany
<1>4. /\ new \in Seq(b.nodes[f] \ NodesOf(s)) /\ Range(new) = b.nodes[f] \ NodesOf(s)
      /\ \A i, j \in DOMAIN new : new[i] = new[j] => i = j
  <2>1. b.nodes[f] \subseteq 1..N
    BY DEF Bundles
  <2>2. IsFiniteSet(1..N)
    BY FS_Interval, DagAssumption
  <2>3. IsFiniteSet(b.nodes[f] \ NodesOf(s))
    BY <2>1, <2>2, FS_Subset
  <2> QED BY <2>3, InSetToSeqs
<1>5. /\ DOMAIN new = 1..Len(new) /\ Len(new) \in Nat
      /\ \A i \in DOMAIN new : new[i] \in b.nodes[f] \ NodesOf(s) /\ new[i] \in Changesets
  BY <1>4, LenProperties DEF Bundles, Changesets
<1>6. ASSUME NEW i \in DOMAIN new
      PROVE  /\ es[i].node = new[i] /\ es[i].link \in DOMAIN all /\ es[i] \in Rev
             /\ node[f][all[es[i].link]] = new[i]
             /\ \A k \in DOMAIN all : node[f][all[k]] = new[i] => es[i].link <= k
  <2>1. PICK n \in b.nodes[f] \ NodesOf(s) : n = new[i]
    BY <1>5, <1>6
  <2>2. PICK l : l = RevOf(cl \o a, b.csets[FirstOf(f, b, n)])
    OBVIOUS
  <2>3. /\ l \in DOMAIN (cl \o a) /\ node[f][(cl \o a)[l]] = n
        /\ \A k \in DOMAIN (cl \o a) : node[f][(cl \o a)[k]] = n => l <= k
    BY <2>2, LinkIs
  <2>4. es[i] = [node |-> n, link |-> l]
    BY <1>6, <2>1, <2>2 DEF AddGroup
  <2>5. l \in Changesets
    <3>1. l \in 1..Len(all)
      BY <1>2, <1>3, <2>3
    <3> QED BY <1>3, <3>1, DagAssumption DEF Changesets
  <2>6. es[i] \in Rev
    BY <1>5, <1>6, <2>1, <2>4, <2>5 DEF Rev
  <2> QED BY <1>2, <2>1, <2>3, <2>4, <2>6
<1>7. es \in Seq(Rev) /\ DOMAIN es = DOMAIN new /\ Len(es) = Len(new)
  <2>1. DOMAIN es = DOMAIN new /\ es = [i \in DOMAIN new |-> es[i]]
    BY DEF AddGroup
  <2>2. es \in [1..Len(new) -> Rev]
    BY <1>5, <1>6, <2>1
  <2>3. es \in Seq(Rev) /\ DOMAIN es = 1..Len(new)
    BY <1>5, <2>2, SeqDef
  <2> QED BY <1>5, <2>2, <2>3, LenProperties
<1>8. PICK t : t = s \o es
  OBVIOUS
<1>9. /\ t \in Seq(Rev) /\ Range(t) = Range(s) \cup Range(es)
      /\ DOMAIN s = 1..Len(s) /\ Len(s) \in Nat
      /\ DOMAIN t = 1..(Len(s) + Len(new))
      /\ \A i \in DOMAIN s : t[i] = s[i] /\ i \in DOMAIN t
      /\ \A i \in DOMAIN t : i \notin DOMAIN s =>
            i > Len(s) /\ i - Len(s) \in DOMAIN new /\ t[i] = es[i - Len(s)]
  <2>1. s \in Seq(Rev)
    OBVIOUS
  <2>2. PICK e2 \in Seq(Rev) : e2 = es
    BY <1>7
  <2>3. /\ s \o e2 \in Seq(Rev) /\ Range(s \o e2) = Range(s) \cup Range(e2)
        /\ DOMAIN s = 1..Len(s) /\ Len(s) \in Nat
        /\ DOMAIN (s \o e2) = 1..(Len(s) + Len(e2))
        /\ \A i \in DOMAIN s : (s \o e2)[i] = s[i] /\ i \in DOMAIN (s \o e2)
        /\ \A i \in DOMAIN (s \o e2) : i \notin DOMAIN s =>
              i > Len(s) /\ i - Len(s) \in DOMAIN e2 /\ (s \o e2)[i] = e2[i - Len(s)]
    BY ONLY <2>1, ConcatIs
  <2> QED BY <1>7, <1>8, <2>2, <2>3
<1>10. LinksFirst(f, all, t)
  <2>1. LinksFirst(f, all, s)
    BY <1>1, <1>2, LinksStay DEF NodesFit
  <2> SUFFICES ASSUME NEW r \in DOMAIN t
               PROVE  /\ t[r].link \in DOMAIN all /\ node[f][all[t[r].link]] = t[r].node
                      /\ \A k \in DOMAIN all : node[f][all[k]] = t[r].node => t[r].link <= k
    BY DEF LinksFirst
  <2>2. CASE r \in DOMAIN s
    BY <1>9, <2>1, <2>2 DEF LinksFirst
  <2>3. CASE r \notin DOMAIN s
    <3>1. PICK i \in DOMAIN new : t[r] = es[i]
      BY <1>9, <2>3
    <3> QED BY <1>6, <3>1
  <2> QED BY <2>2, <2>3
<1>11. have = [i \in DOMAIN s |-> s[i].node]
  BY DEF NodeSeq
<1>12. PICK u : u = have \o new
  OBVIOUS
<1>13. DOMAIN u = DOMAIN t /\ \A i \in DOMAIN t : u[i] = t[i].node
  <2>1. have \in Seq(Changesets) /\ Len(have) = Len(s) /\ DOMAIN have = DOMAIN s
    <3>1. \A i \in DOMAIN s : s[i].node \in Changesets
      BY LogTypes
    <3>2. have \in [1..Len(s) -> Changesets]
      BY <1>9, <1>11, <3>1
    <3>3. Len(s) \in Nat
      BY <1>9
    <3>4. have \in Seq(Changesets) /\ DOMAIN have = 1..Len(s)
      BY ONLY <3>2, <3>3, SeqDef
    <3> QED BY <1>9, <3>2, <3>4, LenProperties
  <2>2. PICK h \in Seq(Changesets) : h = have
    BY <2>1
  <2>3. PICK m \in Seq(Changesets) : m = new
    <3>1. new \in [1..Len(new) -> Changesets]
      BY <1>4, <1>5, LenProperties
    <3>2. new \in Seq(Changesets)
      BY <1>5, <3>1, SeqDef
    <3> QED BY <3>2
  <2>4. /\ DOMAIN (h \o m) = 1..(Len(h) + Len(m))
        /\ \A i \in DOMAIN h : (h \o m)[i] = h[i]
        /\ \A i \in DOMAIN (h \o m) : i \notin DOMAIN h => (h \o m)[i] = m[i - Len(h)]
    BY ConcatIs
  <2>5. DOMAIN u = DOMAIN t
    BY <1>9, <1>11, <1>12, <2>1, <2>2, <2>3, <2>4
  <2>6. ASSUME NEW i \in DOMAIN t PROVE u[i] = t[i].node
    <3>1. CASE i \in DOMAIN s
      BY <1>9, <1>11, <1>12, <2>1, <2>2, <2>3, <2>4, <3>1
    <3>2. CASE i \notin DOMAIN s
      <4>1. u[i] = new[i - Len(s)]
        BY <1>12, <2>1, <2>2, <2>3, <2>4, <2>5, <2>6, <3>2
      <4> QED BY <1>6, <1>9, <2>6, <3>2, <4>1
    <3> QED BY <3>1, <3>2
  <2> QED BY <2>5, <2>6
<1>14. ParentsFirst(f, t)
  <2>1. ASSUME NEW r \in DOMAIN t, NEW q \in DOMAIN t, t[r].node = t[q].node PROVE r = q
    <3>1. \A i \in DOMAIN s : t[i].node \in NodesOf(s)
      BY <1>9 DEF NodesOf, Range
    <3>2. \A i \in DOMAIN t : i \notin DOMAIN s =>
             i - Len(s) \in DOMAIN new /\ t[i].node = new[i - Len(s)] /\ t[i].node \notin NodesOf(s)
      BY <1>5, <1>6, <1>9
    <3>3. CASE r \in DOMAIN s /\ q \in DOMAIN s
      BY <1>9, <2>1, <3>3 DEF NodesFit, ParentsFirst
    <3>4. CASE r \notin DOMAIN s /\ q \notin DOMAIN s
      <4>1. r - Len(s) = q - Len(s)
        BY <1>4, <2>1, <3>2, <3>4
      <4>2. r \in Int /\ q \in Int
        BY <1>9
      <4> QED BY <1>9, <4>1, <4>2
    <3> QED BY <2>1, <3>1, <3>2, <3>3, <3>4
  <2>2. ASSUME NEW r \in DOMAIN t, NEW n \in NodeParents(f, t[r].node)
        PROVE  \E q \in 1..(r - 1) : t[q].node = n
    <3>1. r \in DOMAIN u /\ n \in NodeParents(f, u[r]) /\ Sorted(f, u)
      BY <1>12, <1>13, <2>2
    <3>2. PICK q \in 1..(r - 1) : u[q] = n
      BY <3>1 DEF Sorted
    <3>3. q \in DOMAIN t
      BY <1>5, <1>9, <2>2, <3>2
    <3> QED BY <1>13, <3>2, <3>3
  <2> QED BY <2>1, <2>2 DEF ParentsFirst
<1>15. NodesOf(t) = NodesOf(s) \cup b.nodes[f]
  <2>1. NodesOf(es) = Range(new)
    <3>1. \A x : x \in NodesOf(es) <=> \E i \in DOMAIN es : x = es[i].node
      BY DEF NodesOf, Range
    <3>2. \A x : x \in Range(new) <=> \E i \in DOMAIN new : x = new[i]
      BY DEF Range
    <3>3. \A i \in DOMAIN new : es[i].node = new[i]
      BY <1>6
    <3>4. ASSUME NEW x \in NodesOf(es) PROVE x \in Range(new)
      <4>1. PICK i \in DOMAIN es : x = es[i].node
        BY <3>1, <3>4
      <4>2. i \in DOMAIN new /\ x = new[i]
        BY <1>7, <3>3, <4>1
      <4> QED BY <3>2, <4>2
    <3>5. ASSUME NEW x \in Range(new) PROVE x \in NodesOf(es)
      <4>1. PICK i \in DOMAIN new : x = new[i]
        BY <3>2, <3>5
      <4>2. i \in DOMAIN es /\ x = es[i].node
        BY <1>7, <3>3, <4>1
      <4> QED BY <3>1, <4>2
    <3> QED BY <3>4, <3>5
  <2>2. NodesOf(t) = NodesOf(s) \cup NodesOf(es)
    BY <1>9 DEF NodesOf
  <2> QED BY <1>4, <2>1, <2>2
<1> QED BY <1>2, <1>7, <1>8, <1>9, <1>10, <1>14, <1>15

-----------------------------------------------------------------------------
(* Playing the journal *)

\* The first of a sequence, and the others.
LEMMA HeadTailIs ==
    ASSUME NEW S, NEW q \in Seq(S), q # <<>>
    PROVE  /\ Head(q) \in S /\ Tail(q) \in Seq(S) /\ Range(q) = {Head(q)} \cup Range(Tail(q))
           /\ (\A i, j \in DOMAIN q : q[i] = q[j] => i = j) =>
                 /\ Head(q) \notin Range(Tail(q))
                 /\ \A i, j \in DOMAIN Tail(q) : Tail(q)[i] = Tail(q)[j] => i = j
<1>1. Len(q) \in Nat /\ Len(q) # 0 /\ DOMAIN q = 1..Len(q) /\ \A i \in DOMAIN q : q[i] \in S
  BY LenProperties, EmptySeq
<1>2. /\ Head(q) = q[1] /\ Tail(q) \in Seq(S) /\ Len(Tail(q)) = Len(q) - 1
      /\ \A i \in 1..Len(Tail(q)) : Tail(q)[i] = q[i + 1]
  BY HeadTailProperties
<1>3. DOMAIN Tail(q) = 1..(Len(q) - 1)
  BY <1>2, LenProperties
<1>4. 1 \in DOMAIN q
  BY <1>1
<1>5. \A i \in DOMAIN Tail(q) : i + 1 \in DOMAIN q /\ i + 1 # 1 /\ i \in Int /\ Tail(q)[i] = q[i + 1]
  BY <1>1, <1>2, <1>3
<1>6. \A d \in Range(q) : d = q[1] \/ d \in Range(Tail(q))
  <2> SUFFICES ASSUME NEW i \in DOMAIN q, i # 1 PROVE q[i] \in Range(Tail(q))
    BY DEF Range
  <2>1. i - 1 \in 1..(Len(q) - 1) /\ (i - 1) + 1 = i
    BY <1>1
  <2> QED BY <1>2, <1>3, <2>1 DEF Range
<1>7. Range(Tail(q)) \subseteq Range(q)
  BY <1>5 DEF Range
<1>8. ASSUME \A i, j \in DOMAIN q : q[i] = q[j] => i = j
      PROVE  /\ Head(q) \notin Range(Tail(q))
             /\ \A i, j \in DOMAIN Tail(q) : Tail(q)[i] = Tail(q)[j] => i = j
  <2>1. \A i \in DOMAIN Tail(q) : Tail(q)[i] # q[1]
    BY <1>4, <1>5, <1>8
  <2>2. ASSUME NEW i \in DOMAIN Tail(q), NEW j \in DOMAIN Tail(q), Tail(q)[i] = Tail(q)[j]
        PROVE  i = j
    <3>1. i + 1 = j + 1 /\ i \in Int /\ j \in Int
      BY <1>5, <1>8, <2>2
    <3> QED BY <3>1
  <2> QED BY <1>2, <2>1, <2>2 DEF Range
<1>9. q[1] \in Range(q) /\ q[1] \in S
  BY <1>1, <1>4 DEF Range
<1> QED BY <1>2, <1>6, <1>7, <1>8, <1>9

\* A log that is cut.
LEMMA CutToIs ==
    ASSUME NEW S, NEW s \in Seq(S), NEW n \in Nat
    PROVE  /\ CutTo(s, n) \in Seq(S) /\ Range(CutTo(s, n)) \subseteq Range(s)
           /\ Len(CutTo(s, n)) <= n
           /\ n <= Len(s) => CutTo(s, n) = SubSeq(s, 1, n)
           /\ Len(s) <= n => CutTo(s, n) = s
<1>1. Len(s) \in Nat /\ DOMAIN s = 1..Len(s)
  BY LenProperties
<1>2. PICK m \in Nat : m = Len(s)
  BY <1>1
<1>3. CASE n <= Len(s)
  <2>1. Min({n, Len(s)}) = n
    <3>1. {n, Len(s)} \in SUBSET Nat /\ {n, Len(s)} # {}
      BY <1>1
    <3>2. /\ Min({n, Len(s)}) \in {n, Len(s)}
          /\ \A x \in {n, Len(s)} : Min({n, Len(s)}) <= x
      BY ONLY <3>1, MinIs
    <3> QED BY <1>1, <1>3, <3>2
  <2>2. n \in 0..Len(s)
    BY <1>1, <1>3
  <2>3. CutTo(s, n) = SubSeq(s, 1, n)
    BY <2>1 DEF CutTo
  <2>4. /\ CutTo(s, n) \in Seq(S) /\ Len(CutTo(s, n)) = n /\ DOMAIN CutTo(s, n) = 1..n
        /\ \A i \in 1..n : CutTo(s, n)[i] = s[i] /\ i \in DOMAIN s
    BY <2>2, <2>3, PrefixIs
  <2>5. Range(CutTo(s, n)) \subseteq Range(s)
    BY <2>4 DEF Range
  <2>6. Len(s) <= n => CutTo(s, n) = s
    <3> SUFFICES ASSUME Len(s) <= n PROVE CutTo(s, n) = s
      OBVIOUS
    <3>1. n = Len(s)
      <4>1. n <= m /\ m <= n
        BY <1>3, <1>2
      <4>2. n = m
        BY <4>1
      <4> QED BY <1>2, <4>2
    <3> HIDE DEF CutTo
    <3>2. Len(CutTo(s, n)) = Len(s) /\ \A i \in 1..Len(s) : CutTo(s, n)[i] = s[i]
      BY <2>4, <3>1
    <3> QED BY <2>4, <3>2, SeqEqual
  <2> QED BY <2>3, <2>4, <2>5, <2>6
<1>4. CASE ~(n <= Len(s))
  <2>1. Min({n, Len(s)}) = Len(s)
    <3>1. {n, Len(s)} \in SUBSET Nat /\ {n, Len(s)} # {}
      BY <1>1
    <3>2. /\ Min({n, Len(s)}) \in {n, Len(s)}
          /\ \A x \in {n, Len(s)} : Min({n, Len(s)}) <= x
      BY ONLY <3>1, MinIs
    <3> QED BY <1>1, <1>4, <3>2
  <2>2. Len(s) \in 0..Len(s)
    BY <1>1
  <2>3. CutTo(s, n) = SubSeq(s, 1, Len(s))
    BY <2>1 DEF CutTo
  <2>4. /\ CutTo(s, n) \in Seq(S) /\ Len(CutTo(s, n)) = Len(s)
        /\ \A i \in 1..Len(s) : CutTo(s, n)[i] = s[i]
    BY <2>2, <2>3, PrefixIs
  <2>5. CutTo(s, n) = s
    <3> HIDE DEF CutTo
    <3> QED BY <2>4, SeqEqual
  <2>6. m <= n /\ ~(n <= m)
    BY <1>4, <1>2
  <2>7. Len(s) <= n
    BY <1>2, <2>6
  <2> QED BY <1>4, <2>5, <2>7
<1> QED BY <1>3, <1>4

\* To cut again changes nothing, and what is added beyond the cut does not matter.
LEMMA CutAgain ==
    ASSUME NEW S, NEW s \in Seq(S), NEW n \in Nat
    PROVE  /\ CutTo(CutTo(s, n), n) = CutTo(s, n)
           /\ \A t \in Seq(S) : n <= Len(s) => CutTo(s \o t, n) = CutTo(s, n)
<1>1. CutTo(CutTo(s, n), n) = CutTo(s, n)
  <2>1. PICK u \in Seq(S) : u = CutTo(s, n) /\ Len(u) <= n
    BY CutToIs
  <2> QED BY <2>1, CutToIs
<1>2. ASSUME NEW t \in Seq(S), n <= Len(s) PROVE CutTo(s \o t, n) = CutTo(s, n)
  <2>1. /\ s \o t \in Seq(S) /\ Len(s) \in Nat /\ Len(s \o t) \in Nat /\ n <= Len(s \o t)
        /\ \A i \in 1..Len(s) : (s \o t)[i] = s[i]
    <3>1. Len(s) \in Nat /\ Len(t) \in Nat /\ Len(s \o t) = Len(s) + Len(t) /\ s \o t \in Seq(S)
      BY LenProperties, ConcatProperties
    <3>2. \A i \in 1..Len(s) : (s \o t)[i] = s[i]
      BY ConcatIs
    <3> QED BY <1>2, <3>1, <3>2
  <2>2. PICK u \in Seq(S) : u = s \o t
    BY <2>1
  <2>3. CutTo(u, n) = SubSeq(u, 1, n) /\ CutTo(s, n) = SubSeq(s, 1, n)
    BY <1>2, <2>1, <2>2, CutToIs
  <2>4. n \in 0..Len(s) /\ n \in 0..Len(u)
    BY <1>2, <2>1, <2>2
  <2>5. /\ SubSeq(u, 1, n) \in Seq(S) /\ SubSeq(s, 1, n) \in Seq(S)
        /\ Len(SubSeq(u, 1, n)) = n /\ Len(SubSeq(s, 1, n)) = n
        /\ \A i \in 1..n : SubSeq(u, 1, n)[i] = u[i] /\ SubSeq(s, 1, n)[i] = s[i]
    BY <2>4, PrefixIs
  <2>6. \A i \in 1..n : u[i] = s[i]
    BY <2>1, <2>2, <2>4
  <2>7. SubSeq(u, 1, n) = SubSeq(s, 1, n)
    <3>1. PICK v, w : v = SubSeq(u, 1, n) /\ w = SubSeq(s, 1, n)
      OBVIOUS
    <3>2. v \in Seq(S) /\ w \in Seq(S) /\ Len(v) = Len(w) /\ \A i \in 1..Len(v) : v[i] = w[i]
      BY <2>5, <2>6, <3>1
    <3> QED BY <3>1, <3>2, SeqEqual
  <2> QED BY <2>2, <2>3, <2>7
<1> QED BY <1>1, <1>2

\* A journal has at most one entry for a log.
IsJournal(j) == j \in Seq(Entries) /\ \A d, e \in Range(j) : d.log = e.log => d = e

\* An entry of the journal says how its log is cut; a log without one is left alone.
LEMMA PlayedByIs ==
    ASSUME NEW j, IsJournal(j), NEW s
    PROVE  /\ \A e \in Range(j) : PlayedBy(j, e.log, s) = CutTo(s, e.len) /\ e.len \in Nat
           /\ \A log : (\A e \in Range(j) : e.log # log) => PlayedBy(j, log, s) = s
<1>1. ASSUME NEW e \in Range(j) PROVE PlayedBy(j, e.log, s) = CutTo(s, e.len) /\ e.len \in Nat
  <2>1. {d \in Range(j) : d.log = e.log} = {e}
    BY DEF IsJournal
  <2>2. (CHOOSE d \in {e} : TRUE) = e
    OBVIOUS
  <2>3. e \in Entries
    BY LenProperties DEF IsJournal, Range
  <2> QED BY <2>1, <2>2, <2>3 DEF PlayedBy, Entries
<1>2. ASSUME NEW log, \A e \in Range(j) : e.log # log PROVE PlayedBy(j, log, s) = s
  <2>1. {d \in Range(j) : d.log = log} = {}
    BY <1>2
  <2> QED BY <2>1 DEF PlayedBy
<1> QED BY <1>1, <1>2

\* A log is cut, or left as it is.
LEMMA PlayedByCuts ==
    ASSUME NEW j, IsJournal(j), NEW S, NEW s \in Seq(S), NEW log
    PROVE  /\ PlayedBy(j, log, s) \in Seq(S) /\ Range(PlayedBy(j, log, s)) \subseteq Range(s)
           /\ (\A e \in Range(j) : e.log = log => Len(s) <= e.len) => PlayedBy(j, log, s) = s
           /\ \A t \in Seq(S) : (\E e \in Range(j) : e.log = log /\ e.len <= Len(s)) =>
                 PlayedBy(j, log, s \o t) = PlayedBy(j, log, s)
           /\ \A e \in Range(j) : e.log = log => PlayedBy(j, log, CutTo(s, e.len)) = PlayedBy(j, log, s)
<1>1. CASE \A e \in Range(j) : e.log # log
  BY <1>1, PlayedByIs
<1>2. ASSUME NEW e \in Range(j), e.log = log PROVE
           /\ PlayedBy(j, log, s) \in Seq(S) /\ Range(PlayedBy(j, log, s)) \subseteq Range(s)
           /\ (\A d \in Range(j) : d.log = log => Len(s) <= d.len) => PlayedBy(j, log, s) = s
           /\ \A t \in Seq(S) : (\E d \in Range(j) : d.log = log /\ d.len <= Len(s)) =>
                 PlayedBy(j, log, s \o t) = PlayedBy(j, log, s)
           /\ \A d \in Range(j) : d.log = log => PlayedBy(j, log, CutTo(s, d.len)) = PlayedBy(j, log, s)
  <2>1. e.len \in Nat /\ \A t : PlayedBy(j, log, t) = CutTo(t, e.len)
    BY <1>2, PlayedByIs
  <2>2. \A d \in Range(j) : d.log = log => d = e
    BY <1>2 DEF IsJournal
  <2>3. CutTo(s, e.len) \in Seq(S) /\ Range(CutTo(s, e.len)) \subseteq Range(s)
        /\ (Len(s) <= e.len => CutTo(s, e.len) = s)
    BY <2>1, CutToIs
  <2>4. /\ CutTo(CutTo(s, e.len), e.len) = CutTo(s, e.len)
        /\ \A t \in Seq(S) : e.len <= Len(s) => CutTo(s \o t, e.len) = CutTo(s, e.len)
    BY <2>1, CutAgain
  <2> QED BY <1>2, <2>1, <2>2, <2>3, <2>4
<1> QED BY <1>1, <1>2

-----------------------------------------------------------------------------
(* Steps that leave things alone *)

\* What fits together does so as long as the graph is what it is.
LEMMA FitStays ==
    ASSUME UNCHANGED graph, NEW cl, NEW fl, NEW b
    PROVE  /\ Fit(cl, fl, b) <=> Fit(cl, fl, b)'
           /\ IsRepository(cl, fl) <=> IsRepository(cl, fl)'
           /\ \A f, s : ParentsFirst(f, s) <=> ParentsFirst(f, s)'
           /\ \A f, x, s : LinksFirst(f, x, s) <=> LinksFirst(f, x, s)'
<1>1. \A x, y : CsetsFit(x, y) <=> CsetsFit(x, y)'
  BY DEF graph, CsetsFit, Ordered, IsClosed, AncestorsOf, Saved
<1>2. \A f, c : NodeParents(f, c)' = NodeParents(f, c)
  BY DEF graph, NodeParents, ParentsOf
<1>3. \A f, s : ParentsFirst(f, s) <=> ParentsFirst(f, s)'
  BY <1>2 DEF ParentsFirst
<1>4. \A f, x, s : LinksFirst(f, x, s) <=> LinksFirst(f, x, s)'
  BY DEF graph, LinksFirst
<1>5. \A f, x, s, y : NodesFit(f, x, s, y) <=> NodesFit(f, x, s, y)'
  BY <1>3, <1>4 DEF graph, NodesFit, NodesOf, Saved
<1>6. \A x, y, z : Fit(x, y, z) <=> Fit(x, y, z)'
  BY <1>1, <1>5 DEF Fit
<1> QED BY <1>3, <1>4, <1>6 DEF IsRepository, Nothing

LEMMA KeptStays ==
    ASSUME UNCHANGED <<graph, strip, before>>, NEW cl, NEW fl, NEW b, NEW bk, Kept(cl, fl, b, bk)
    PROVE  Kept(cl, fl, b, bk)'
BY DEF graph, Kept, Saved, NodesOf

\* The bundles that there may be depend on the logs and on what goes.
LEMMA BundleStays ==
    ASSUME UNCHANGED <<graph, logs, strip>>
    PROVE  /\ Bundle(strip, Heads)' = Bundle(strip, Heads)
           /\ (IF SaveHeads = {} THEN {Absent} ELSE Bundle(SaveBases, SaveHeads))' =
                 IF SaveHeads = {} THEN {Absent} ELSE Bundle(SaveBases, SaveHeads)
<1>1. \A roots, hs : Bundle(roots, hs)' = Bundle(roots, hs)
  BY DEF Bundle, InOrderOf, RevOf, CommonHeads, Between, DescendantsOf, AncestorsOf, ParentsOf,
         graph, logs
<1>2. Heads' = Heads /\ strip' = strip
  BY DEF Heads, HeadsOf, ParentsOf, graph, logs
<1>3. Later' = Later /\ StripRev' = StripRev
  BY DEF Later, StripRev, RevOf, graph, logs
<1>4. \A f, m : StripInfo(f, m)' = StripInfo(f, m)
  BY DEF StripInfo, Walk, WalkDown, LargeLinks, HeadRevs, ParentRevs, NodeParents, ParentsOf,
         graph, logs
<1>5. Affected' = Affected
  BY <1>3 DEF Affected, graph
<1>6. Broken' = Broken
  BY <1>3, <1>4, <1>5 DEF Broken, logs
<1>7. Save' = Save
  BY <1>2, <1>3, <1>6 DEF Save
<1>8. SaveHeads' = SaveHeads
  BY <1>2, <1>3, <1>7 DEF SaveHeads, ParentsOf, graph
<1>9. SaveBases' = SaveBases
  BY <1>7 DEF SaveBases, graph
<1> QED BY <1>1, <1>2, <1>8, <1>9

LEMMA GraphStays ==
    ASSUME GraphInv, UNCHANGED graph
    PROVE  GraphInv'
<1>1. IsDag'
  BY DEF GraphInv, graph, IsDag, IsOrder, ParentsOf
<1>2. \A f, c : NodeParents(f, c)' = NodeParents(f, c)
  BY DEF graph, NodeParents, ParentsOf
<1>3. \A f : (IsManifest(f) <=> IsManifest(f)') /\ (IsIntroduction(f) <=> IsIntroduction(f)')
  BY <1>2 DEF graph, IsManifest, IsIntroduction, ParentsOf
<1> QED BY <1>1, <1>3 DEF GraphInv

\* What the invariant says of the values of the variables.
LEMMA Typed ==
    ASSUME IInv
    PROVE  /\ Graph /\ IsOrder /\ LogTyped /\ TypeOK /\ GraphInv
           /\ changelog \in Seq(Changesets) /\ \A f \in Files : filelog[f] \in Seq(Rev)
           /\ T \in Bundles /\ B \in Bundles /\ Nothing \in Bundles
           /\ Saved(Nothing) = {} /\ \A f \in Files : Nothing.nodes[f] = {}
<1>1. TypeOK /\ GraphInv
  BY DEF IInv
<1>2. Graph /\ IsOrder /\ LogTyped
  BY <1>1, GraphIs DEF Graph, TypeOK, LogTyped
<1>3. Nothing \in Bundles /\ Saved(Nothing) = {} /\ \A f \in Files : Nothing.nodes[f] = {}
  BY DEF Nothing, Bundles, Saved, Range
<1>4. T \in Bundles /\ B \in Bundles
  BY <1>1, <1>3 DEF TypeOK, T, B, Contents
<1> QED BY <1>1, <1>2, <1>3, <1>4 DEF LogTyped

\* Before the cut.
LEMMA OpeningIs ==
    ASSUME IInv, pc \in {"backup", "temp", "open"}
    PROVE  Opening
BY Typed DEF IInv, RepositoryInv, BundlesInv, StripInv, Opening

\* The journal that Plan stands for.
LEMMA PlanIs ==
    ASSUME IInv, journal # Absent
    PROVE  IsJournal(Plan)
<1>1. journal \in Seq(Entries)
  BY DEF IInv, TypeOK
<1>2. pc = "group" => queue \in Seq(Entries)
  BY DEF IInv, Shape
<1>3. Plan \in Seq(Entries)
  BY <1>1, <1>2, ConcatProperties DEF Plan
<1>4. \A d, e \in Range(Plan) : d.log = e.log => d = e
  BY DEF IInv, JournalInv
<1> QED BY <1>3, <1>4 DEF IsJournal

\* What is played is a part of what there is.
LEMMA PlayedAre ==
    ASSUME IInv
    PROVE  /\ ClPlayed \in Seq(Changesets) /\ Range(ClPlayed) \subseteq Range(changelog)
           /\ FlPlayed \in [Files -> Seq(Rev)]
           /\ \A f \in Files : NodesOf(FlPlayed[f]) \subseteq NodesOf(filelog[f])
<1>1. changelog \in Seq(Changesets) /\ filelog \in [Files -> Seq(Rev)]
  BY Typed DEF LogTyped
<1>2. CASE journal = Absent
  BY <1>1, <1>2 DEF ClPlayed, FlPlayed
<1>3. CASE journal # Absent
  <2>1. IsJournal(Plan)
    BY <1>3, PlanIs
  <2>2. PICK j : j = Plan
    OBVIOUS
  <2>3. PICK cl \in Seq(Changesets) : cl = changelog
    BY <1>1
  <2>4. PlayedBy(j, Changelog, cl) \in Seq(Changesets) /\ Range(PlayedBy(j, Changelog, cl)) \subseteq Range(cl)
    BY <2>1, <2>2, PlayedByCuts
  <2>5. ASSUME NEW f \in Files
        PROVE  /\ PlayedBy(j, f, filelog[f]) \in Seq(Rev)
               /\ NodesOf(PlayedBy(j, f, filelog[f])) \subseteq NodesOf(filelog[f])
    <3>1. PICK s \in Seq(Rev) : s = filelog[f]
      BY <1>1
    <3>2. PlayedBy(j, f, s) \in Seq(Rev) /\ Range(PlayedBy(j, f, s)) \subseteq Range(s)
      BY <2>1, <2>2, PlayedByCuts
    <3> QED BY <3>1, <3>2 DEF NodesOf
  <2>6. ClPlayed = PlayedBy(j, Changelog, cl) /\ FlPlayed = [f \in Files |-> PlayedBy(j, f, filelog[f])]
    BY <1>3, <2>2, <2>3 DEF ClPlayed, FlPlayed
  <2> QED BY <2>3, <2>4, <2>5, <2>6
<1> QED BY <1>2, <1>3

-----------------------------------------------------------------------------
(* The initial states *)

\* A repository as pulls leave it.
LEMMA InitInv == Init => IInv
<1> SUFFICES ASSUME Init PROVE IInv
  OBVIOUS
<1>1. PICK order \in [Files -> UNION {SetToSeqs(S) : S \in SUBSET Changesets}] :
         /\ \A f \in Files : /\ Range(order[f]) = Range(node[f]) \ {0}
                             /\ Sorted(f, order[f])
         /\ filelog = [f \in Files |->
               [i \in DOMAIN order[f] |-> [node |-> order[f][i], link |-> order[f][i]]]]
  BY DEF Init
<1>2. GraphInv /\ node \in [Files -> [Changesets -> 0..N]] /\ manifest \in [Files -> [Changesets -> 0..N]]
      /\ Graph /\ IsOrder
  BY DEF Init, GraphInv, Graph, IsDag
<1>3. \A f \in Files : Range(order[f]) \subseteq Changesets
  <2> SUFFICES ASSUME NEW f \in Files, NEW n \in Range(order[f]) PROVE n \in Changesets
    OBVIOUS
  <2>1. n \in Range(node[f]) /\ n # 0
    BY <1>1
  <2>2. n \in 0..N
    BY <1>2, <2>1 DEF Range
  <2> QED BY <2>1, <2>2, DagAssumption DEF Changesets
<1>4. ASSUME NEW f \in Files
      PROVE  /\ order[f] \in Seq(Changesets)
             /\ \A i, j \in DOMAIN order[f] : order[f][i] = order[f][j] => i = j
  <2>1. PICK S \in SUBSET Changesets : order[f] \in SetToSeqs(S)
    BY <1>1
  <2>2. IsFiniteSet(S)
    <3>1. IsFiniteSet(Changesets)
      BY FS_Interval, DagAssumption DEF Changesets
    <3> QED BY <3>1, FS_Subset
  <2>3. order[f] \in Seq(S) /\ \A i, j \in DOMAIN order[f] : order[f][i] = order[f][j] => i = j
    BY <2>1, <2>2, InSetToSeqs
  <2> QED BY <2>3, SeqDef
<1>5. ASSUME NEW f \in Files
      PROVE  /\ filelog[f] \in Seq(Rev) /\ DOMAIN filelog[f] = DOMAIN order[f]
             /\ \A i \in DOMAIN filelog[f] : /\ filelog[f][i].node = order[f][i]
                                             /\ filelog[f][i].link = order[f][i]
                                             /\ order[f][i] \in Changesets
  <2>1. /\ Len(order[f]) \in Nat /\ DOMAIN order[f] = 1..Len(order[f])
        /\ \A i \in DOMAIN order[f] : order[f][i] \in Changesets
    <3>1. PICK s \in Seq(Changesets) : s = order[f]
      BY <1>4
    <3> QED BY <3>1, LenProperties
  <2>2. filelog[f] = [i \in DOMAIN order[f] |-> [node |-> order[f][i], link |-> order[f][i]]]
    BY <1>1
  <2>3. filelog[f] \in [1..Len(order[f]) -> Rev]
    BY <2>1, <2>2 DEF Rev
  <2>4. filelog[f] \in Seq(Rev)
    BY <2>1, <2>3, SeqDef
  <2> QED BY <2>1, <2>2, <2>4
<1>6. /\ changelog \in Seq(Changesets) /\ DOMAIN changelog = Changesets /\ Range(changelog) = Changesets
      /\ \A i \in Changesets : changelog[i] = i
  BY DagAssumption, SeqDef DEF Init, Changesets, Range
<1>7. filelog \in [Files -> Seq(Rev)]
  BY <1>1, <1>5
<1>8. TypeOK
  <2>1. <<>> \in Seq(Entries) /\ <<>> \in Seq(Changesets)
    OBVIOUS
  <2>2. /\ journal = Absent /\ backup = Absent /\ temp = Absent /\ pc = "idle" /\ strip = {}
        /\ queue = <<>> /\ unbundle = FALSE /\ added = <<>> /\ before = {} /\ strips = 0 /\ crashes = 0
    BY DEF Init
  <2> QED BY <1>2, <1>6, <1>7, <2>1, <2>2 DEF TypeOK
<1>9. T = Nothing /\ B = Nothing /\ Saved(Nothing) = {} /\ DOMAIN Nothing.csets = {}
      /\ \A f \in Files : Nothing.nodes[f] = {}
  BY DEF Init, T, B, Contents, Nothing, Saved, Range
<1>10. CsetsFit(changelog, Nothing)
  <2>1. Ordered(changelog)
    BY <1>2, <1>6, Ancestry DEF Ordered
  <2>2. IsClosed(Range(changelog))
    BY <1>2, <1>6, Ancestry DEF IsClosed, AncestorsOf
  <2>3. Range(changelog) \cup Saved(Nothing) = Range(changelog) /\ Ordered(Nothing.csets)
    BY <1>9 DEF Ordered
  <2> QED BY <1>9, <2>1, <2>2, <2>3 DEF CsetsFit
<1>11. ASSUME NEW f \in Files PROVE NodesFit(f, changelog, filelog[f], Nothing)
  <2>1. IsIntroduction(f)
    BY <1>2 DEF GraphInv
  <2>2. ASSUME NEW r \in DOMAIN filelog[f]
        PROVE  /\ filelog[f][r].node \in Changesets /\ filelog[f][r].link = filelog[f][r].node
               /\ node[f][filelog[f][r].node] = filelog[f][r].node
    <3>1. /\ filelog[f][r].node = order[f][r] /\ filelog[f][r].link = order[f][r]
          /\ order[f][r] \in Changesets /\ order[f][r] \in Range(order[f])
      BY <1>5, <2>2 DEF Range
    <3>2. order[f][r] \in Range(node[f]) \ {0}
      BY <1>1, <3>1
    <3>3. PICK c \in Changesets : node[f][c] = order[f][r] /\ order[f][r] # 0
      BY <1>2, <3>2 DEF Range
    <3> QED BY <2>1, <3>1, <3>3 DEF IsIntroduction
  <2>3. LinksFirst(f, changelog, filelog[f])
    <3> SUFFICES ASSUME NEW r \in DOMAIN filelog[f]
                 PROVE  /\ filelog[f][r].link \in DOMAIN changelog
                        /\ node[f][changelog[filelog[f][r].link]] = filelog[f][r].node
                        /\ \A i \in DOMAIN changelog :
                              node[f][changelog[i]] = filelog[f][r].node => filelog[f][r].link <= i
      BY DEF LinksFirst
    <3>1. filelog[f][r].node # 0
      BY <2>2, DagAssumption DEF Changesets
    <3> QED BY <1>6, <2>1, <2>2, <3>1 DEF IsIntroduction
  <2>4. ParentsFirst(f, filelog[f])
    <3>1. \A r, q \in DOMAIN filelog[f] : filelog[f][r].node = filelog[f][q].node => r = q
      BY <1>4, <1>5
    <3>2. ASSUME NEW r \in DOMAIN filelog[f], NEW n \in NodeParents(f, filelog[f][r].node)
          PROVE  \E q \in 1..(r - 1) : filelog[f][q].node = n
      <4>1. r \in DOMAIN order[f] /\ n \in NodeParents(f, order[f][r])
        BY <1>5, <3>2
      <4>2. PICK q \in 1..(r - 1) : order[f][q] = n
        BY <1>1, <4>1 DEF Sorted
      <4>3. DOMAIN order[f] = 1..Len(order[f]) /\ Len(order[f]) \in Nat
        BY <1>4, LenProperties
      <4>4. q \in DOMAIN order[f]
        BY <4>1, <4>2, <4>3
      <4> QED BY <1>5, <4>2, <4>4
    <3> QED BY <3>1, <3>2 DEF ParentsFirst
  <2>5. ASSUME NEW c \in Range(changelog) \cup Saved(Nothing)
        PROVE  manifest[f][c] \in {0} \cup NodesOf(filelog[f])
    <3> SUFFICES ASSUME manifest[f][c] # 0 PROVE manifest[f][c] \in NodesOf(filelog[f])
      OBVIOUS
    <3>1. c \in Changesets
      BY <1>6, <1>9
    <3>2. PICK a \in Changesets : node[f][a] = manifest[f][c]
      BY <1>2, <3>1, Introduced
    <3>3. manifest[f][c] \in Range(order[f])
      BY <1>1, <1>2, <3>2 DEF Range
    <3> QED BY <1>5, <3>3 DEF NodesOf, Range
  <2> QED BY <1>9, <2>3, <2>4, <2>5 DEF NodesFit
<1>12. Fit(changelog, filelog, Nothing)
  BY <1>10, <1>11 DEF Fit
<1>13. Shape /\ JournalInv /\ StripInv /\ BundlesInv /\ ReceivedInv
  BY DEF Init, Shape, JournalInv, StripInv, BundlesInv, ReceivedInv
<1>14. RepositoryInv
  BY <1>12 DEF Init, RepositoryInv, IsRepository
<1>15. KeptInv
  BY DEF Init, KeptInv, Kept
<1> QED BY <1>2, <1>8, <1>13, <1>14, <1>15 DEF IInv

-----------------------------------------------------------------------------
(* The steps, one by one *)

\* The process chooses what goes; the repository is what it was.
LEMMA StartStep ==
    ASSUME IInv, NEW roots \in (SUBSET Range(changelog)) \ {{}}, Start(roots)
    PROVE  IInv'
<1> USE DEF Start
<1>1. /\ pc = "idle" /\ pc' = "backup" /\ journal = Absent /\ journal' = Absent
      /\ queue = <<>> /\ added = <<>> /\ UNCHANGED <<graph, logs, queue, added, crashes>>
      /\ changelog' = changelog /\ filelog' = filelog /\ before' = Range(changelog)
      /\ temp' = Absent /\ backup' = Absent /\ unbundle' = FALSE
  BY DEF IInv, Shape, logs
<1>2. IsRepository(changelog, filelog) /\ Range(changelog) \subseteq Changesets /\ IsClosed(Range(changelog))
  BY <1>1, Typed, RepositoryIs DEF IInv, RepositoryInv
<1>3. TypeOK'
  <2>1. TypeOK /\ strip' \subseteq Changesets /\ before' \subseteq Changesets
    BY <1>1, <1>2, Typed
  <2>2. strips' \in Nat /\ crashes' = crashes
    BY <1>1, <2>1 DEF TypeOK
  <2> QED BY <1>1, <2>1, <2>2 DEF TypeOK, graph, Working
<1>4. GraphInv'
  BY <1>1, Typed, GraphStays
<1>5. Shape' /\ JournalInv' /\ ReceivedInv'
  BY <1>1 DEF Shape, JournalInv, ReceivedInv
<1>6. StripInv'
  <2>1. strip' \subseteq before'
    BY <1>1
  <2>2. strip' # {}
    <3>1. PICK r \in roots : r \in Range(changelog)
      OBVIOUS
    <3>2. r \in DescendantsOf(roots)
      BY <1>2, <3>1, Typed DEF DescendantsOf, IsOrder
    <3> QED BY <3>1, <3>2
  <2>3. ASSUME NEW c \in before', ancestors'[c] \cap strip' # {} PROVE c \in strip'
    <3>1. c \in Range(changelog) /\ c \in Changesets /\ ancestors' = ancestors
      BY <1>1, <1>2, <2>3 DEF graph
    <3>2. PICK a \in ancestors[c] : a \in DescendantsOf(roots)
      BY <2>3, <3>1
    <3>3. PICK r \in roots : r \in ancestors[a]
      BY <3>2 DEF DescendantsOf
    <3>4. r \in ancestors[c]
      BY <3>1, <3>2, <3>3, Typed, Ancestry
    <3>5. c \in DescendantsOf(roots)
      BY <3>1, <3>3, <3>4 DEF DescendantsOf
    <3> QED BY <3>1, <3>5
  <2> QED BY <2>1, <2>2, <2>3 DEF StripInv
<1>7. BundlesInv'
  BY <1>1 DEF BundlesInv
<1>8. ClPlayed' = changelog /\ FlPlayed' = filelog /\ T' = Nothing /\ Nothing' = Nothing
  BY <1>1 DEF ClPlayed, FlPlayed, T, Contents, Nothing
<1>9. PICK cl, fl, b, bk : cl = changelog /\ fl = filelog /\ b = Nothing /\ bk = B'
  OBVIOUS
<1>10. Fit(cl, fl, b)' /\ IsRepository(cl, fl)'
  BY <1>1, <1>2, <1>9, FitStays DEF IsRepository
<1>11. RepositoryInv'
  BY <1>1, <1>8, <1>9, <1>10 DEF RepositoryInv
<1>12. KeptInv'
  <2>1. /\ \A c \in Range(cl) : \A f \in Files : manifest[f][c] \in {0} \cup NodesOf(fl[f])
    BY <1>2, <1>9, Typed, RepositoryIs
  <2>2. Kept(cl, fl, b, bk)'
    BY <1>1, <1>9, <2>1 DEF Kept, graph, NodesOf
  <2> QED BY <1>1, <1>8, <1>9, <2>2 DEF KeptInv
<1> QED BY <1>3, <1>4, <1>5, <1>6, <1>7, <1>11, <1>12 DEF IInv

\* The backup bundle has what goes.
LEMMA WriteBackupStep ==
    ASSUME IInv, WriteBackup
    PROVE  IInv'
<1> USE DEF WriteBackup
<1>1. /\ pc = "backup" /\ pc' = "temp" /\ journal = Absent /\ journal' = Absent /\ temp = Absent
      /\ queue = <<>> /\ added = <<>> /\ ~unbundle
      /\ UNCHANGED <<graph, logs, journal, temp, goal, queue, added, bounds>>
      /\ changelog' = changelog /\ filelog' = filelog /\ before' = before /\ strip' = strip
      /\ temp' = Absent
  BY DEF IInv, Shape, logs, goal
<1>2. Opening /\ before = Range(changelog) /\ Fit(changelog, filelog, Nothing)
      /\ IsRepository(changelog, filelog)
  BY <1>1, OpeningIs DEF Opening, IsRepository
<1>3. backup' \in Bundle(strip, Heads) /\ backup' \in Bundles
  BY <1>2, BackupIs
<1>4. TypeOK'
  BY <1>1, <1>3, Typed DEF TypeOK, graph, goal, bounds, Working
<1>5. GraphInv'
  BY <1>1, Typed, GraphStays
<1>6. Shape' /\ JournalInv' /\ ReceivedInv' /\ StripInv'
  BY <1>1 DEF Shape, JournalInv, ReceivedInv, IInv, StripInv, graph, goal
<1>7. BundlesInv'
  <2>1. Bundle(strip, Heads)' = Bundle(strip, Heads)
    BY <1>1, BundleStays
  <2> QED BY <1>1, <1>2, <1>3, <2>1 DEF BundlesInv
<1>8. ClPlayed' = changelog /\ FlPlayed' = filelog /\ T' = Nothing /\ Nothing' = Nothing
  BY <1>1 DEF ClPlayed, FlPlayed, T, Contents, Nothing
<1>9. PICK cl, fl, b, bk : cl = changelog /\ fl = filelog /\ b = Nothing /\ bk = B'
  OBVIOUS
<1>10. Fit(cl, fl, b)' /\ IsRepository(cl, fl)'
  BY <1>1, <1>2, <1>9, FitStays
<1>11. RepositoryInv'
  BY <1>1, <1>8, <1>9, <1>10 DEF RepositoryInv
<1>12. KeptInv'
  <2>1. Kept(cl, fl, b, bk)
    BY <1>2, <1>9, KeptWhole
  <2>2. Kept(cl, fl, b, bk)'
    BY <1>1, <2>1, KeptStays
  <2> QED BY <1>1, <1>8, <1>9, <2>2 DEF KeptInv
<1> QED BY <1>4, <1>5, <1>6, <1>7, <1>11, <1>12 DEF IInv

\* The temporary bundle has what is above the cut and stays.
LEMMA WriteTempStep ==
    ASSUME IInv, WriteTemp
    PROVE  IInv'
<1> USE DEF WriteTemp
<1>1. /\ pc = "temp" /\ pc' = "open" /\ journal = Absent /\ journal' = Absent
      /\ queue = <<>> /\ added = <<>> /\ ~unbundle
      /\ UNCHANGED <<graph, logs, journal, backup, goal, queue, added, bounds>>
      /\ changelog' = changelog /\ filelog' = filelog /\ before' = before /\ strip' = strip
  BY DEF IInv, Shape, logs, goal
<1>2. Opening /\ before = Range(changelog) /\ Fit(changelog, filelog, Nothing)
      /\ IsRepository(changelog, filelog)
  BY <1>1, OpeningIs DEF Opening, IsRepository
<1>3. PICK t : t = temp'
  OBVIOUS
<1>4. t \in IF SaveHeads = {} THEN {Absent} ELSE Bundle(SaveBases, SaveHeads)
  BY <1>3
<1>5. PICK b : b = Contents(t)
  OBVIOUS
<1>6. b \in Bundles /\ Fit(changelog, filelog, b)
  BY <1>2, <1>4, <1>5, TempIs
<1>7. T' = b /\ B' = B
  BY <1>1, <1>3, <1>5 DEF T, B, Contents, Nothing
<1>8. TypeOK'
  <2>1. temp' # Absent => temp' \in Bundles
    BY <1>3, <1>5, <1>6 DEF Contents
  <2> QED BY <1>1, <2>1, Typed DEF TypeOK, graph, goal, bounds, Working
<1>9. GraphInv'
  BY <1>1, Typed, GraphStays
<1>10. Shape' /\ JournalInv' /\ ReceivedInv' /\ StripInv'
  BY <1>1 DEF Shape, JournalInv, ReceivedInv, IInv, StripInv, graph, goal
<1>11. BundlesInv'
  <2>1. backup' \in Bundle(strip, Heads)
    BY <1>1 DEF IInv, BundlesInv
  <2> QED BY <1>1, <1>2, <1>3, <1>4, <2>1, BundleStays DEF BundlesInv
<1>12. ClPlayed' = changelog /\ FlPlayed' = filelog
  BY <1>1 DEF ClPlayed, FlPlayed
<1>13. PICK cl, fl, bk : cl = changelog /\ fl = filelog /\ bk = B
  OBVIOUS
<1>14. Fit(cl, fl, b)' /\ IsRepository(cl, fl)'
  BY <1>1, <1>2, <1>6, <1>13, FitStays
<1>15. RepositoryInv'
  BY <1>1, <1>7, <1>12, <1>13, <1>14 DEF RepositoryInv
<1>16. KeptInv'
  <2>1. Kept(cl, fl, b, bk)
    BY <1>2, <1>6, <1>13, KeptWhole
  <2>2. Kept(cl, fl, b, bk)'
    BY <1>1, <2>1, KeptStays
  <2> QED BY <1>1, <1>7, <1>12, <1>13, <2>2 DEF KeptInv
<1> QED BY <1>8, <1>9, <1>10, <1>11, <1>15, <1>16 DEF IInv

\* The logs as the entries queued are going to cut them, and the temporary bundle, have
\* all that is to stay: this is where the walk and the two bundles matter.
LEMMA OpenStripStep ==
    ASSUME IInv, OpenStrip
    PROVE  IInv'
<1> USE DEF OpenStrip
<1>1. /\ pc = "open" /\ pc' = "group" /\ journal = Absent /\ journal' = <<>>
      /\ added = <<>> /\ ~unbundle
      /\ UNCHANGED <<graph, logs, bundles, goal, added, bounds>>
      /\ changelog' = changelog /\ filelog' = filelog /\ before' = before /\ strip' = strip
      /\ temp' = temp /\ backup' = backup
  BY DEF IInv, Shape, logs, goal, bundles
<1>2. Opening /\ before = Range(changelog) /\ IsRepository(changelog, filelog)
      /\ backup \in Bundle(strip, Heads)
      /\ temp \in IF SaveHeads = {} THEN {Absent} ELSE Bundle(SaveBases, SaveHeads)
  BY <1>1, OpeningIs DEF Opening, IInv, BundlesInv
<1>3. PICK cuts \in SetToSeqs(FileCuts) :
         queue' = <<[log |-> Changelog, len |-> StripRev - 1]>> \o cuts
  OBVIOUS
<1>4. \A e \in FileCuts : e \in Entries /\ e.log \in Files /\ e.len = Point(e.log) - 1
                          /\ Point(e.log) <= Len(filelog[e.log])
  <2> SUFFICES ASSUME NEW f \in Files
               PROVE  [log |-> f, len |-> Point(f) - 1] \in Entries
    BY DEF FileCuts, Affected, Point
  <2>1. Point(f) \in 1..(Len(filelog[f]) + 1) /\ filelog[f] \in Seq(Rev)
    BY <1>2, PointIs
  <2>2. Point(f) - 1 \in Nat
    BY <2>1, LenProperties
  <2> QED BY <2>2 DEF Entries
<1>5. \A f \in Files : Point(f) <= Len(filelog[f]) => [log |-> f, len |-> Point(f) - 1] \in FileCuts
  <2> SUFFICES ASSUME NEW f \in Files, Point(f) <= Len(filelog[f])
               PROVE  [log |-> f, len |-> Point(f) - 1] \in FileCuts
    OBVIOUS
  <2>1. Point(f) \in 1..(Len(filelog[f]) + 1) /\ filelog[f] \in Seq(Rev)
        /\ \A r \in DOMAIN filelog[f] : r >= Point(f) => f \in Affected
    BY <1>2, PointIs
  <2>2. Point(f) \in DOMAIN filelog[f] /\ Point(f) >= Point(f)
    BY <2>1, LenProperties
  <2>3. f \in Affected
    BY <2>1, <2>2
  <2> QED BY <2>3 DEF FileCuts, Point
<1>6. cuts \in Seq(FileCuts) /\ Range(cuts) = FileCuts
  <2>1. IsFiniteSet(FileCuts)
    <3> DEFINE cut(f) == [log |-> f, len |-> StripInfo(f, StripRev).point - 1]
               Cut == {g \in Affected : StripInfo(g, StripRev).point <= Len(filelog[g])}
    <3>1. IsFiniteSet(Cut)
      <4>1. Cut \subseteq Files
        BY DEF Affected
      <4> QED BY <4>1, FS_Subset, StripAssumption
    <3>2. FileCuts = {cut(f) : f \in Cut}
      BY DEF FileCuts
    <3>3. [f \in Cut |-> cut(f)] \in Surjection(Cut, FileCuts)
      <4> HIDE DEF cut, Cut
      <4> QED BY <3>2 DEF Surjection
    <3> HIDE DEF cut, Cut
    <3> QED BY <3>1, <3>3, FS_Surjection
  <2> QED BY <1>3, <2>1, InSetToSeqs
<1>7. PICK e0 : e0 = [log |-> Changelog, len |-> StripRev - 1]
  OBVIOUS
<1>8. e0 \in Entries /\ e0.log = Changelog /\ e0.len = StripRev - 1
  BY <1>2, <1>7, StripRevIs DEF Entries
<1>9. queue' \in Seq(Entries) /\ Range(queue') = {e0} \cup FileCuts
  <2>1. <<e0>> \in Seq(Entries) /\ Range(<<e0>>) = {e0} /\ cuts \in Seq(Entries)
    <3>1. cuts \in Seq(Entries)
      BY <1>4, <1>6, SeqDef
    <3> QED BY <1>8, <3>1 DEF Range
  <2>2. <<e0>> \o cuts \in Seq(Entries) /\ Range(<<e0>> \o cuts) = Range(<<e0>>) \cup Range(cuts)
    <3>1. PICK s \in Seq(Entries) : s = <<e0>>
      BY <2>1
    <3>2. PICK t \in Seq(Entries) : t = cuts
      BY <2>1
    <3>3. s \o t \in Seq(Entries) /\ Range(s \o t) = Range(s) \cup Range(t)
      BY ONLY ConcatIs
    <3> QED BY <3>1, <3>2, <3>3
  <2> QED BY <1>3, <1>6, <1>7, <2>1, <2>2
<1>10. PICK q : q = queue'
  OBVIOUS
<1>11. Plan' = q
  <2>1. <<>> \o q = q
    BY <1>9, <1>10
  <2> QED BY <1>1, <1>10, <2>1 DEF Plan
<1>12. IsJournal(q)
  <2>1. ASSUME NEW d \in Range(q), NEW e \in Range(q), d.log = e.log PROVE d = e
    <3>1. (d = e0 \/ d \in FileCuts) /\ (e = e0 \/ e \in FileCuts)
      BY <1>9, <1>10
    <3>2. \A x \in FileCuts : x.log # Changelog
      BY <1>4, StripAssumption
    <3>3. d \in FileCuts /\ e \in FileCuts => d = e
      <4>1. \A x \in FileCuts : x = [log |-> x.log, len |-> Point(x.log) - 1]
        BY DEF FileCuts, Point
      <4> QED BY <2>1, <4>1
    <3> QED BY <1>8, <2>1, <3>1, <3>2, <3>3
  <2> QED BY <1>9, <1>10, <2>1 DEF IsJournal
<1>13. <<>> # Absent
  <2>1. <<>> \in Seq(Entries)
    OBVIOUS
  <2> QED BY ONLY <2>1, AbsentAssumption
<1>14. PICK cl : cl = SubSeq(changelog, 1, StripRev - 1)
  OBVIOUS
<1>15. PICK fl : fl = [f \in Files |-> SubSeq(filelog[f], 1, Point(f) - 1)]
  OBVIOUS
<1>16. ClPlayed' = cl
  <2>1. PlayedBy(q, Changelog, changelog) = CutTo(changelog, StripRev - 1)
    BY <1>8, <1>9, <1>10, <1>12, PlayedByIs
  <2>2. PICK s \in Seq(Changesets) : s = changelog
    BY Typed
  <2>3. StripRev - 1 \in Nat /\ StripRev - 1 <= Len(s)
    BY <1>2, <2>2, StripRevIs, LenProperties
  <2>4. CutTo(s, StripRev - 1) = SubSeq(s, 1, StripRev - 1)
    BY <2>3, CutToIs
  <2>5. <<>> # Absent
    BY <1>13
  <2> QED BY <1>1, <1>11, <1>14, <2>1, <2>2, <2>4, <2>5 DEF ClPlayed, PlayedBy, CutTo
<1>17. \A f \in Files : PlayedBy(q, f, filelog[f]) = fl[f]
  <2> SUFFICES ASSUME NEW f \in Files PROVE PlayedBy(q, f, filelog[f]) = fl[f]
    OBVIOUS
  <2>1. PICK s \in Seq(Rev) : s = filelog[f]
    BY Typed
  <2>2. Point(f) \in 1..(Len(s) + 1) /\ Len(s) \in Nat /\ Point(f) - 1 \in Nat
    <3>1. Point(f) \in 1..(Len(s) + 1) /\ Len(s) \in Nat
      BY <1>2, <2>1, PointIs, LenProperties
    <3> QED BY <3>1
  <2>3. CASE Point(f) <= Len(s)
    <3>1. PICK e \in FileCuts : e.log = f /\ e.len = Point(f) - 1
      BY <1>5, <2>1, <2>3
    <3>2. PlayedBy(q, f, s) = CutTo(s, Point(f) - 1)
      BY <1>9, <1>10, <1>12, <3>1, PlayedByIs
    <3>3. PICK n \in Nat : n = Point(f) - 1
      BY <2>2
    <3>4. n <= Len(s)
      BY <2>2, <2>3, <3>3
    <3>5. CutTo(s, n) = SubSeq(s, 1, n)
      BY <3>4, CutToIs
    <3> QED BY <1>15, <2>1, <3>2, <3>3, <3>5
  <2>4. CASE ~(Point(f) <= Len(s))
    <3>1. \A e \in Range(q) : e.log # f
      <4>1. \A e \in FileCuts : e.log # f
        BY <1>4, <2>1, <2>4
      <4> QED BY <1>8, <1>9, <1>10, <4>1, StripAssumption
    <3>2. PlayedBy(q, f, s) = s
      BY <1>12, <3>1, PlayedByIs
    <3>3. Point(f) - 1 = Len(s)
      BY <2>2, <2>4
    <3>4. SubSeq(s, 1, Len(s)) = s
      BY <2>2, PrefixIs, SeqEqual
    <3> QED BY <1>15, <2>1, <3>2, <3>3, <3>4
  <2> QED BY <2>3, <2>4
<1>18. FlPlayed' = fl
  <2>1. <<>> # Absent
    BY <1>13
  <2>2. FlPlayed' = [f \in Files |-> PlayedBy(q, f, filelog[f])]
    BY <1>1, <1>11, <2>1 DEF FlPlayed, PlayedBy, CutTo
  <2> QED BY <1>15, <1>17, <2>2
<1>19. IsCut(cl, fl)
  BY <1>14, <1>15 DEF IsCut
<1>20. PICK b, bk : b = T /\ bk = B
  OBVIOUS
<1>21. /\ b \in Bundles /\ Fit(changelog, filelog, b) /\ bk = backup
       /\ b = Contents(temp) /\ bk \in Bundle(strip, Heads)
  <2>1. backup \in Bundles
    BY <1>2, BackupIs
  <2>2. bk = backup
    BY <1>20, <2>1, AbsentAssumption DEF B, Contents
  <2>3. b = Contents(temp)
    BY <1>20 DEF T
  <2>4. PICK t : t = temp
    OBVIOUS
  <2>5. b \in Bundles /\ Fit(changelog, filelog, b)
    BY <1>2, <2>3, <2>4, TempIs
  <2> QED BY <1>2, <2>2, <2>3, <2>5
<1>22. Fit(cl, fl, b) /\ Kept(cl, fl, b, bk) /\ Range(cl) \cup Saved(b) = before \ strip
  <2>1. PICK t : t = temp
    OBVIOUS
  <2> QED BY <1>2, <1>19, <1>21, <2>1, CutFits
<1>23. T' = b /\ B' = bk
  BY <1>1, <1>20 DEF T, B, Contents, Nothing
<1>24. TypeOK'
  <2>1. <<>> \in Seq(Entries)
    OBVIOUS
  <2> QED BY <1>1, <1>9, <2>1, Typed DEF TypeOK, graph, goal, bounds, Working
<1>25. GraphInv'
  BY <1>1, Typed, GraphStays
<1>26. Shape' /\ ReceivedInv' /\ StripInv' /\ BundlesInv'
  <2>1. Shape'
    BY <1>1, <1>9, <1>13 DEF Shape, goal
  <2>2. ReceivedInv' /\ BundlesInv'
    BY <1>1, <1>2 DEF ReceivedInv, BundlesInv
  <2>3. StripInv'
    BY <1>1 DEF IInv, StripInv, graph
  <2> QED BY <2>1, <2>2, <2>3
<1>27. JournalInv'
  BY <1>1, <1>10, <1>11, <1>12 DEF JournalInv, IsJournal
<1>28. PICK cl0, fl0 : cl0 = changelog /\ fl0 = filelog
  OBVIOUS
<1>29. Fit(cl, fl, b)' /\ Fit(cl0, fl0, b)' /\ IsRepository(cl0, fl0)'
  BY <1>1, <1>2, <1>21, <1>22, <1>28, FitStays
<1>30. RepositoryInv'
  BY <1>1, <1>16, <1>18, <1>23, <1>28, <1>29 DEF RepositoryInv
<1>31. KeptInv'
  <2>1. Kept(cl, fl, b, bk)'
    BY <1>1, <1>22, KeptStays
  <2> QED BY <1>1, <1>16, <1>18, <1>22, <1>23, <2>1 DEF KeptInv, Saved
<1> QED BY <1>24, <1>25, <1>26, <1>27, <1>30, <1>31 DEF IInv

\* When the journal makes the same of the logs, it goes on being good.
LEMMA PlayedStays ==
    ASSUME IInv, pc # "idle", UNCHANGED <<graph, strip, before>>,
           ClPlayed' = ClPlayed, FlPlayed' = FlPlayed, T' = T, B' = B
    PROVE  /\ Fit(ClPlayed, FlPlayed, T)' /\ Kept(ClPlayed, FlPlayed, T, B)'
           /\ pc \in {"group", "cut", "apply", "files", "close", "done"} /\ ~unbundle =>
                 (Range(ClPlayed) \cup Saved(T) = before \ strip)'
<1>1. PICK cl, fl, b, bk : cl = ClPlayed /\ fl = FlPlayed /\ b = T /\ bk = B
  OBVIOUS
<1>2. Fit(cl, fl, b) /\ Kept(cl, fl, b, bk)
  BY <1>1 DEF IInv, RepositoryInv, KeptInv
<1>3. Fit(cl, fl, b)' /\ Kept(cl, fl, b, bk)'
  BY <1>2, FitStays, KeptStays
<1>4. pc \in {"group", "cut", "apply", "files", "close", "done"} /\ ~unbundle =>
         Range(cl) \cup Saved(b) = before \ strip
  BY <1>1 DEF IInv, KeptInv
<1> QED BY <1>1, <1>3, <1>4 DEF Saved

\* So does a repository that is left alone.
LEMMA LogsStay ==
    ASSUME UNCHANGED <<graph, logs>>, T' = T
    PROVE  /\ IsRepository(changelog, filelog) => IsRepository(changelog, filelog)'
           /\ Fit(changelog, filelog, T) => Fit(changelog, filelog, T)'
<1>1. PICK cl, fl, b : cl = changelog /\ fl = filelog /\ b = T
  OBVIOUS
<1> QED BY <1>1, FitStays DEF logs

\* What has been written of the entries and what has not is the same journal.
LEMMA WriteEntryStep ==
    ASSUME IInv, WriteEntry
    PROVE  IInv'
<1> USE DEF WriteEntry
<1>1. /\ pc = "group" /\ pc' = "group" /\ journal # Absent /\ journal \in Seq(Entries)
      /\ queue \in Seq(Entries) /\ queue # <<>> /\ added = <<>> /\ ~unbundle
      /\ UNCHANGED <<graph, logs, bundles, pc, goal, added, bounds>>
      /\ changelog' = changelog /\ filelog' = filelog /\ before' = before /\ strip' = strip
      /\ temp' = temp /\ backup' = backup /\ unbundle' = unbundle
  BY DEF IInv, Shape, TypeOK, logs, goal, bundles
<1>2. /\ journal' \in Seq(Entries) /\ queue' \in Seq(Entries)
      /\ journal' \o queue' = journal \o queue
  <2>1. PICK j \in Seq(Entries) : j = journal
    BY <1>1
  <2>2. PICK q \in Seq(Entries) : q = queue /\ q # <<>>
    BY <1>1
  <2>3. Head(q) \in Entries /\ Tail(q) \in Seq(Entries) /\ Len(q) \in Nat /\ Len(q) > 0
        /\ Len(Tail(q)) = Len(q) - 1 /\ \A i \in 1..Len(Tail(q)) : Tail(q)[i] = q[i + 1]
    BY <2>2, HeadTailProperties, EmptySeq, LenProperties
  <2>4. Append(j, Head(q)) \in Seq(Entries)
    BY <2>3, AppendProperties
  <2>5. Append(j, Head(q)) \o Tail(q) = j \o q
    BY <2>2
  <2> QED BY <2>1, <2>2, <2>3, <2>4, <2>5
<1>3. journal' # Absent /\ Plan' = Plan
  <2>1. journal' # Absent
    BY ONLY <1>2, AbsentAssumption
  <2> QED BY <1>1, <1>2, <2>1 DEF Plan
<1>4. ClPlayed' = ClPlayed /\ FlPlayed' = FlPlayed /\ T' = T /\ B' = B
  <2>1. \A j, log, s : PlayedBy(j, log, s)' = PlayedBy(j, log, s)
    BY DEF PlayedBy, CutTo
  <2>2. T' = T /\ B' = B
    BY <1>1 DEF T, B, Contents, Nothing
  <2> QED BY <1>1, <1>3, <2>1, <2>2 DEF ClPlayed, FlPlayed
<1>5. TypeOK'
  BY <1>1, <1>2, Typed DEF TypeOK, graph, goal, bounds, Working
<1>6. GraphInv'
  BY <1>1, Typed, GraphStays
<1>7. Shape' /\ ReceivedInv' /\ BundlesInv'
  BY <1>1, <1>2, <1>3 DEF Shape, ReceivedInv, BundlesInv, IInv
<1>8. StripInv' /\ JournalInv'
  BY <1>1, <1>3 DEF IInv, StripInv, JournalInv, graph
<1>9. RepositoryInv'
  BY <1>1, <1>4, PlayedStays, LogsStay DEF IInv, RepositoryInv
<1>10. KeptInv'
  BY <1>1, <1>4, PlayedStays DEF KeptInv
<1> QED BY <1>5, <1>6, <1>7, <1>8, <1>9, <1>10 DEF IInv

LEMMA EndGroupStep ==
    ASSUME IInv, EndGroup
    PROVE  IInv'
<1> USE DEF EndGroup
<1>1. /\ pc = "group" /\ pc' = "cut" /\ journal # Absent /\ journal \in Seq(Entries)
      /\ journal' = journal /\ queue' = journal
      /\ queue = <<>> /\ added = <<>> /\ ~unbundle
      /\ UNCHANGED <<graph, logs, journal, bundles, goal, added, bounds>>
      /\ changelog' = changelog /\ filelog' = filelog /\ before' = before /\ strip' = strip
      /\ temp' = temp /\ backup' = backup /\ unbundle' = unbundle
  BY DEF IInv, Shape, TypeOK, logs, goal, bundles
<1>2. Plan' = Plan
  <2>1. PICK j \in Seq(Entries) : j = journal
    BY <1>1
  <2>2. j \o <<>> = j
    OBVIOUS
  <2> QED BY <1>1, <2>1, <2>2 DEF Plan
<1>3. ClPlayed' = ClPlayed /\ FlPlayed' = FlPlayed /\ T' = T /\ B' = B
  <2>1. \A j, log, s : PlayedBy(j, log, s)' = PlayedBy(j, log, s)
    BY DEF PlayedBy, CutTo
  <2>2. T' = T /\ B' = B
    BY <1>1 DEF T, B, Contents, Nothing
  <2> QED BY <1>1, <1>2, <2>1, <2>2 DEF ClPlayed, FlPlayed
<1>4. TypeOK'
  BY <1>1, Typed DEF TypeOK, graph, goal, bounds, Working
<1>5. GraphInv'
  BY <1>1, Typed, GraphStays
<1>6. Shape' /\ ReceivedInv' /\ BundlesInv'
  BY <1>1 DEF Shape, ReceivedInv, BundlesInv, IInv
<1>7. StripInv' /\ JournalInv'
  BY <1>1, <1>2 DEF IInv, StripInv, JournalInv, graph
<1>8. RepositoryInv'
  BY <1>1, <1>3, PlayedStays DEF RepositoryInv
<1>9. KeptInv'
  BY <1>1, <1>3, PlayedStays DEF KeptInv
<1> QED BY <1>4, <1>5, <1>6, <1>7, <1>8, <1>9 DEF IInv

\* A log that is cut is cut to the same by the journal.
LEMMA CutNextStep ==
    ASSUME IInv, CutNext
    PROVE  IInv'
<1> USE DEF CutNext
<1>1. /\ pc = "cut" /\ pc' = "cut" /\ journal # Absent /\ journal \in Seq(Entries)
      /\ journal' = journal /\ queue \in Seq(Entries) /\ queue # <<>> /\ added = <<>> /\ ~unbundle
      /\ UNCHANGED <<graph, journal, bundles, pc, goal, added, bounds>>
      /\ before' = before /\ strip' = strip
      /\ temp' = temp /\ backup' = backup /\ unbundle' = unbundle
      /\ Plan = journal /\ Plan' = journal
  BY DEF IInv, Shape, TypeOK, goal, bundles, Plan
<1>2. IsJournal(journal)
  BY <1>1, PlanIs
<1>3. PICK e : e = Head(queue)
  OBVIOUS
<1>4. /\ e \in Range(journal) /\ e \in Range(queue) /\ e \in Entries /\ e.len \in Nat
      /\ queue' \in Seq(Entries)
      /\ \A d \in Range(queue) : d = e \/ d \in Range(queue')
      /\ Range(queue') \subseteq Range(queue)
  <2>1. PICK q \in Seq(Entries) : q = queue /\ q # <<>>
    BY <1>1
  <2>2. /\ Head(q) \in Entries /\ Tail(q) \in Seq(Entries)
        /\ Range(q) = {Head(q)} \cup Range(Tail(q))
    BY <2>1, HeadTailIs
  <2>3. Range(queue) \subseteq Range(journal)
    BY <1>1 DEF IInv, JournalInv
  <2> QED BY <1>1, <1>3, <2>1, <2>2, <2>3 DEF Entries
<1>5. PICK j : j = journal
  OBVIOUS
<1>6. CutLog(e)
  BY <1>3
<1>7. /\ changelog' \in Seq(Changesets) /\ PlayedBy(j, Changelog, changelog') = PlayedBy(j, Changelog, changelog)
      /\ changelog' = changelog \/ (e.log = Changelog /\ Len(changelog') <= e.len)
      /\ e.log = Changelog => Len(changelog') <= e.len
  <2>1. PICK cl \in Seq(Changesets) : cl = changelog
    BY Typed
  <2>2. CASE e.log = Changelog
    <3>1. changelog' = CutTo(cl, e.len)
      BY <1>6, <2>1, <2>2 DEF CutLog
    <3>2. CutTo(cl, e.len) \in Seq(Changesets) /\ Len(CutTo(cl, e.len)) <= e.len
      BY <1>4, CutToIs
    <3>3. PlayedBy(j, Changelog, CutTo(cl, e.len)) = PlayedBy(j, Changelog, cl)
      BY <1>2, <1>4, <1>5, <2>2, PlayedByCuts
    <3> QED BY <2>1, <2>2, <3>1, <3>2, <3>3
  <2>3. CASE e.log # Changelog
    <3>1. changelog' = changelog
      BY <1>6, <2>3 DEF CutLog
    <3> QED BY <2>1, <2>3, <3>1
  <2> QED BY <2>2, <2>3
<1>8. /\ filelog' \in [Files -> Seq(Rev)]
      /\ \A f \in Files : /\ PlayedBy(j, f, filelog'[f]) = PlayedBy(j, f, filelog[f])
                          /\ e.log = f => Len(filelog'[f]) <= e.len
                          /\ e.log # f => filelog'[f] = filelog[f]
  <2>1. CASE e.log = Changelog
    <3>1. filelog' = filelog
      BY <1>6, <2>1 DEF CutLog
    <3> QED BY <2>1, <3>1, Typed, StripAssumption DEF LogTyped
  <2>2. CASE e.log # Changelog
    <3>1. e.log \in Files
      BY <1>4, <2>2 DEF Entries
    <3>2. PICK s \in Seq(Rev) : s = filelog[e.log]
      BY <3>1, Typed
    <3>3. filelog' = [filelog EXCEPT ![e.log] = CutTo(s, e.len)]
      BY <1>6, <2>2, <3>2 DEF CutLog
    <3>4. CutTo(s, e.len) \in Seq(Rev) /\ Len(CutTo(s, e.len)) <= e.len
      BY <1>4, CutToIs
    <3>5. PlayedBy(j, e.log, CutTo(s, e.len)) = PlayedBy(j, e.log, s)
      BY <1>2, <1>4, <1>5, PlayedByCuts
    <3>6. filelog \in [Files -> Seq(Rev)]
      BY Typed DEF LogTyped
    <3>7. /\ filelog' \in [Files -> Seq(Rev)] /\ filelog'[e.log] = CutTo(s, e.len)
          /\ \A f \in Files : f # e.log => filelog'[f] = filelog[f]
      BY <3>1, <3>3, <3>4, <3>6
    <3> QED BY <3>2, <3>4, <3>5, <3>7
  <2> QED BY <2>1, <2>2
<1>9. ClPlayed' = ClPlayed /\ FlPlayed' = FlPlayed /\ T' = T /\ B' = B
  <2>1. \A k, log, s : PlayedBy(k, log, s)' = PlayedBy(k, log, s)
    BY DEF PlayedBy, CutTo
  <2>2. T' = T /\ B' = B
    BY <1>1 DEF T, B, Contents, Nothing
  <2>3. ClPlayed' = ClPlayed
    BY <1>1, <1>5, <1>7, <2>1 DEF ClPlayed
  <2>4. FlPlayed = [f \in Files |-> PlayedBy(j, f, filelog[f])]
    BY <1>1, <1>5 DEF FlPlayed
  <2>5. FlPlayed' = [f \in Files |-> PlayedBy(j, f, filelog'[f])]
    BY <1>1, <1>5, <2>1 DEF FlPlayed
  <2> QED BY <1>8, <2>2, <2>3, <2>4, <2>5
<1>10. TypeOK'
  BY <1>1, <1>4, <1>7, <1>8, Typed DEF TypeOK, graph, goal, bounds, Working
<1>11. GraphInv'
  BY <1>1, Typed, GraphStays
<1>12. Shape' /\ ReceivedInv' /\ BundlesInv'
  BY <1>1, <1>4 DEF Shape, ReceivedInv, BundlesInv
<1>13. StripInv'
  BY <1>1 DEF IInv, StripInv, graph
<1>14. JournalInv'
  <2>1. \A d \in Range(journal) : d \in Range(queue') \/ Len(LogOf(d.log)') <= d.len
    <3> SUFFICES ASSUME NEW d \in Range(journal), d \notin Range(queue')
                 PROVE  Len(LogOf(d.log)') <= d.len
      OBVIOUS
    <3>1. d \in Entries
      BY <1>1, LenProperties DEF Range
    <3>2. CASE d = e
      BY <1>4, <1>7, <1>8, <3>1, <3>2 DEF LogOf, Entries
    <3>3. CASE d # e
      <4>1. d.log # e.log
        BY <1>2, <1>4, <3>3 DEF IsJournal
      <4>2. Len(LogOf(d.log)) <= d.len
        BY <1>1, <1>4, <3>3 DEF IInv, JournalInv
      <4>3. LogOf(d.log)' = LogOf(d.log)
        BY <1>7, <1>8, <3>1, <4>1 DEF LogOf, Entries
      <4> QED BY <4>2, <4>3
    <3> QED BY <3>2, <3>3
  <2>2. Range(queue') \subseteq Range(journal)
    BY <1>1, <1>4 DEF IInv, JournalInv
  <2>3. \A d, x \in Range(journal) : d.log = x.log => d = x
    BY <1>2 DEF IsJournal
  <2>4. \A d \in Range(journal') : d \in Range(queue') \/ Len(LogOf(d.log))' <= d.len
    BY <1>1, <2>1
  <2> QED BY <1>1, <2>2, <2>3, <2>4 DEF JournalInv
<1>15. RepositoryInv'
  BY <1>1, <1>9, PlayedStays DEF RepositoryInv
<1>16. KeptInv'
  BY <1>1, <1>9, PlayedStays DEF KeptInv
<1> QED BY <1>10, <1>11, <1>12, <1>13, <1>14, <1>15, <1>16 DEF IInv

\* All has been cut, so that without the journal the logs are what it would make them.
LEMMA CloseStripStep ==
    ASSUME IInv, CloseStrip
    PROVE  IInv'
<1> USE DEF CloseStrip
<1>1. /\ pc = "cut" /\ journal # Absent /\ journal \in Seq(Entries)
      /\ journal' = Absent /\ queue = <<>> /\ queue' = <<>> /\ added = <<>> /\ ~unbundle
      /\ UNCHANGED <<graph, logs, bundles, goal, queue, added, bounds>>
      /\ pc' = (IF temp = Absent THEN "done" ELSE "apply")
      /\ changelog' = changelog /\ filelog' = filelog /\ before' = before /\ strip' = strip
      /\ temp' = temp /\ backup' = backup /\ unbundle' = unbundle
      /\ Plan = journal
  BY DEF IInv, Shape, TypeOK, goal, bundles, Plan, logs
<1>2. IsJournal(journal)
  BY <1>1, PlanIs
<1>3. \A e \in Range(journal) : Len(LogOf(e.log)) <= e.len
  BY <1>1 DEF IInv, JournalInv, Range
<1>4. PICK j : j = journal
  OBVIOUS
<1>5. ClPlayed = changelog
  <2>1. PICK cl \in Seq(Changesets) : cl = changelog
    BY Typed
  <2>2. \A e \in Range(j) : e.log = Changelog => Len(cl) <= e.len
    BY <1>3, <1>4, <2>1 DEF LogOf
  <2>3. PlayedBy(j, Changelog, cl) = cl
    BY <1>2, <1>4, <2>2, PlayedByCuts
  <2> QED BY <1>1, <1>4, <2>1, <2>3 DEF ClPlayed
<1>6. FlPlayed = filelog
  <2>1. ASSUME NEW f \in Files PROVE PlayedBy(j, f, filelog[f]) = filelog[f]
    <3>1. PICK s \in Seq(Rev) : s = filelog[f]
      BY Typed
    <3>2. \A e \in Range(j) : e.log = f => Len(s) <= e.len
      BY <1>3, <1>4, <3>1, StripAssumption DEF LogOf
    <3>3. PlayedBy(j, f, s) = s
      BY <1>2, <1>4, <3>2, PlayedByCuts
    <3> QED BY <3>1, <3>3
  <2>2. filelog \in [Files -> Seq(Rev)] /\ FlPlayed = [f \in Files |-> PlayedBy(j, f, filelog[f])]
    BY <1>1, <1>4, Typed DEF FlPlayed, LogTyped
  <2> QED BY <2>1, <2>2
<1>7. ClPlayed' = ClPlayed /\ FlPlayed' = FlPlayed /\ T' = T /\ B' = B
  <2>1. ClPlayed' = changelog /\ FlPlayed' = filelog
    BY <1>1 DEF ClPlayed, FlPlayed
  <2>2. T' = T /\ B' = B
    BY <1>1 DEF T, B, Contents, Nothing
  <2> QED BY <1>5, <1>6, <2>1, <2>2
<1>8. TypeOK'
  BY <1>1, Typed DEF TypeOK, graph, goal, bounds, Working
<1>9. GraphInv'
  BY <1>1, Typed, GraphStays
<1>10. Shape' /\ BundlesInv'
  BY <1>1 DEF Shape, BundlesInv
<1>11. StripInv' /\ JournalInv'
  BY <1>1 DEF IInv, StripInv, JournalInv, graph
<1>12. /\ Fit(changelog, filelog, T)'
       /\ temp = Absent => IsRepository(changelog, filelog)'
  <2>1. Fit(changelog, filelog, T)
    BY <1>1, <1>5, <1>6 DEF IInv, RepositoryInv
  <2>2. temp = Absent => T = Nothing
    BY DEF T, Contents
  <2> QED BY <1>1, <1>7, <2>1, <2>2, LogsStay DEF IsRepository
<1>13. ReceivedInv'
  <2>1. temp = Absent => T' = Nothing
    BY <1>7 DEF T, Contents
  <2>2. Saved(Nothing) = {} /\ \A f \in Files : Nothing.nodes[f] = {}
    BY Typed
  <2>3. pc' = "done" => Saved(T)' = {} /\ \A f \in Files : (T.nodes[f])' = {}
    BY <1>1, <2>1, <2>2 DEF Saved
  <2> QED BY <1>1, <2>3 DEF ReceivedInv
<1>14. RepositoryInv'
  BY <1>1, <1>7, <1>12, PlayedStays DEF RepositoryInv
<1>15. KeptInv'
  BY <1>1, <1>7, PlayedStays DEF KeptInv
<1> QED BY <1>8, <1>9, <1>10, <1>11, <1>13, <1>14, <1>15 DEF IInv

\* The journal has the ends of the logs: it makes them what they are.
LEMMA OpenApplyStep ==
    ASSUME IInv, OpenApply
    PROVE  IInv'
<1> USE DEF OpenApply
<1>1. /\ pc = "apply" /\ pc' = "files" /\ journal = Absent /\ temp # Absent
      /\ UNCHANGED <<graph, logs, bundles, goal, bounds>>
      /\ changelog' = changelog /\ filelog' = filelog /\ before' = before /\ strip' = strip
      /\ temp' = temp /\ backup' = backup /\ unbundle' = unbundle
  BY DEF IInv, Shape, goal, bundles, logs
<1>2. PICK files \in SetToSeqs(Files) :
         /\ queue' = files
         /\ journal' = <<[log |-> Changelog, len |-> Len(changelog)]>> \o
               [i \in DOMAIN files |->
                   [log |-> files[i], len |-> Len(filelog[files[i]])]]
  OBVIOUS
<1>3. /\ files \in Seq(Files) /\ Range(files) = Files
      /\ \A i, j \in DOMAIN files : files[i] = files[j] => i = j
  BY StripAssumption, InSetToSeqs
<1>4. DOMAIN files = 1..Len(files) /\ Len(files) \in Nat /\ \A i \in DOMAIN files : files[i] \in Files
  BY <1>3, LenProperties
<1>5. PICK e0 : e0 = [log |-> Changelog, len |-> Len(changelog)]
  OBVIOUS
<1>6. e0 \in Entries /\ e0.log = Changelog /\ e0.len = Len(changelog)
  <2>1. Len(changelog) \in Nat
    BY Typed, LenProperties
  <2> QED BY <1>5, <2>1 DEF Entries
<1>7. PICK es : es = [i \in DOMAIN files |-> [log |-> files[i], len |-> Len(filelog[files[i]])]]
  OBVIOUS
<1>8. /\ es \in Seq(Entries)
      /\ \A i \in DOMAIN files : es[i].log = files[i] /\ es[i].len = Len(filelog[files[i]])
      /\ \A e \in Range(es) : e.log \in Files /\ e = [log |-> e.log, len |-> Len(filelog[e.log])]
      /\ \A f \in Files : \E e \in Range(es) : e.log = f
  <2>1. \A f \in Files : Len(filelog[f]) \in Nat
    BY Typed, LenProperties
  <2>2. \A i \in DOMAIN files : [log |-> files[i], len |-> Len(filelog[files[i]])] \in Entries
    BY <1>4, <2>1 DEF Entries
  <2>3. es \in [1..Len(files) -> Entries]
    BY <1>4, <1>7, <2>2
  <2>4. es \in Seq(Entries)
    BY <1>4, <2>3, SeqDef
  <2>5. \A e \in Range(es) : \E i \in DOMAIN files :
           e = [log |-> files[i], len |-> Len(filelog[files[i]])]
    BY <1>7 DEF Range
  <2>6. \A f \in Files : \E i \in DOMAIN files : f = files[i]
    BY <1>3 DEF Range
  <2>7. \A i \in DOMAIN files : es[i] \in Range(es)
    BY <1>7 DEF Range
  <2>8. \A i \in DOMAIN files : es[i].log = files[i] /\ es[i].len = Len(filelog[files[i]])
    BY <1>7
  <2>9. ASSUME NEW e \in Range(es)
        PROVE  e.log \in Files /\ e = [log |-> e.log, len |-> Len(filelog[e.log])]
    BY <1>4, <2>5
  <2>10. ASSUME NEW f \in Files PROVE \E e \in Range(es) : e.log = f
    <3>1. PICK i \in DOMAIN files : f = files[i]
      BY <2>6
    <3> QED BY <2>7, <2>8, <3>1
  <2> QED BY <2>4, <2>8, <2>9, <2>10
<1>9. journal' \in Seq(Entries) /\ Range(journal') = {e0} \cup Range(es)
  <2>1. <<e0>> \in Seq(Entries) /\ Range(<<e0>>) = {e0}
    BY <1>6 DEF Range
  <2>2. PICK s \in Seq(Entries) : s = <<e0>>
    BY <2>1
  <2>3. PICK t \in Seq(Entries) : t = es
    BY <1>8
  <2>4. s \o t \in Seq(Entries) /\ Range(s \o t) = Range(s) \cup Range(t)
    BY ONLY ConcatIs
  <2> QED BY <1>2, <1>5, <1>7, <2>1, <2>2, <2>3, <2>4
<1>10. journal' # Absent
  BY ONLY <1>9, AbsentAssumption
<1>11. PICK j : j = journal'
  OBVIOUS
<1>12. IsJournal(j) /\ Plan' = j
  <2>1. ASSUME NEW d \in Range(j), NEW e \in Range(j), d.log = e.log PROVE d = e
    <3>1. (d = e0 \/ d \in Range(es)) /\ (e = e0 \/ e \in Range(es))
      BY <1>9, <1>11
    <3>2. \A x \in Range(es) : x.log # Changelog
      BY <1>8, StripAssumption
    <3>3. d \in Range(es) /\ e \in Range(es) => d = e
      BY <1>8, <2>1
    <3> QED BY <1>6, <2>1, <3>1, <3>2, <3>3
  <2> QED BY <1>1, <1>9, <1>11, <2>1 DEF IsJournal, Plan
<1>13. ClPlayed' = changelog
  <2>1. PICK cl \in Seq(Changesets) : cl = changelog
    BY Typed
  <2>2. \A e \in Range(j) : e.log = Changelog => Len(cl) <= e.len
    <3>1. \A e \in Range(j) : e.log = Changelog => e = e0
      BY <1>8, <1>9, <1>11, StripAssumption
    <3>2. Len(cl) \in Nat
      BY LenProperties
    <3> QED BY <1>6, <2>1, <3>1, <3>2
  <2>3. PlayedBy(j, Changelog, cl) = cl
    BY <1>12, <2>2, PlayedByCuts
  <2> QED BY <1>1, <1>10, <1>12, <2>1, <2>3 DEF ClPlayed, PlayedBy, CutTo
<1>14. FlPlayed' = filelog
  <2>1. ASSUME NEW f \in Files PROVE PlayedBy(j, f, filelog[f]) = filelog[f]
    <3>1. PICK s \in Seq(Rev) : s = filelog[f]
      BY Typed
    <3>2. \A e \in Range(j) : e.log = f => Len(s) <= e.len
      <4>1. \A e \in Range(j) : e.log = f => e.len = Len(filelog[f])
        <5>1. \A e \in Range(j) : e.log = f => e \in Range(es)
          BY <1>6, <1>9, <1>11, StripAssumption
        <5>2. \A e \in Range(es) : e.len = Len(filelog[e.log])
          BY <1>8
        <5> QED BY <5>1, <5>2
      <4>2. Len(s) \in Nat
        BY LenProperties
      <4> QED BY <3>1, <4>1, <4>2
    <3>3. PlayedBy(j, f, s) = s
      BY <1>12, <3>2, PlayedByCuts
    <3> QED BY <3>1, <3>3
  <2>2. FlPlayed' = [f \in Files |-> PlayedBy(j, f, filelog[f])]
    BY <1>1, <1>10, <1>12 DEF FlPlayed, PlayedBy, CutTo
  <2>3. filelog \in [Files -> Seq(Rev)]
    BY Typed DEF LogTyped
  <2> QED BY <2>1, <2>2, <2>3
<1>15. ClPlayed' = ClPlayed /\ FlPlayed' = FlPlayed /\ T' = T /\ B' = B
  <2>1. T' = T /\ B' = B
    BY <1>1 DEF T, B, Contents, Nothing
  <2> QED BY <1>1, <1>13, <1>14, <2>1 DEF ClPlayed, FlPlayed
<1>16. T = temp /\ added' \in InOrderOf(T.csets, Saved(T) \ Range(changelog))
  BY <1>1 DEF T, Contents, Saved
<1>17. added' \in Seq(Changesets)
  <2>1. PICK b \in Bundles : b = T
    BY Typed
  <2>2. PICK cl \in Seq(Changesets) : cl = changelog
    BY Typed
  <2>3. PICK a : a = added'
    OBVIOUS
  <2>4. CsetsFit(cl, b)
    <3>1. ClPlayed = changelog
      BY <1>1 DEF ClPlayed
    <3> QED BY <1>1, <2>1, <2>2, <3>1 DEF IInv, RepositoryInv, Fit
  <2>5. a \in InOrderOf(b.csets, Saved(b) \ Range(cl))
    BY <1>16, <2>1, <2>2, <2>3
  <2>6. a \in Seq(Changesets)
    BY <2>4, <2>5, Typed, Joined
  <2> QED BY <2>3, <2>6
<1>18. TypeOK'
  BY <1>1, <1>2, <1>3, <1>9, <1>17, Typed DEF TypeOK, graph, goal, bounds, Working
<1>19. GraphInv'
  BY <1>1, Typed, GraphStays
<1>20. Shape' /\ BundlesInv'
  BY <1>1, <1>2, <1>3, <1>10 DEF Shape, BundlesInv
<1>21. StripInv'
  BY <1>1 DEF IInv, StripInv, graph
<1>22. JournalInv'
  <2>1. \A l \in Files \cup {Changelog} : \E e \in Range(j) : e.log = l /\ e.len <= Len(LogOf(l))
    <3>1. e0 \in Range(j) /\ e0.len <= Len(LogOf(Changelog))
      <4>1. Len(changelog) \in Nat
        BY Typed, LenProperties
      <4> QED BY <1>6, <1>9, <1>11, <4>1 DEF LogOf
    <3>2. ASSUME NEW f \in Files PROVE \E e \in Range(j) : e.log = f /\ e.len <= Len(LogOf(f))
      <4>1. PICK e \in Range(es) : e.log = f /\ e.len = Len(filelog[f])
        BY <1>8
      <4>2. Len(filelog[f]) \in Nat
        BY Typed, LenProperties
      <4>3. LogOf(f) = filelog[f]
        BY StripAssumption DEF LogOf
      <4>4. e.len <= Len(LogOf(f))
        BY <4>1, <4>2, <4>3
      <4>5. e \in Range(j)
        BY <1>9, <1>11, <4>1
      <4> QED BY <4>1, <4>4, <4>5
    <3> QED BY <1>6, <3>1, <3>2
  <2>2. \A l : LogOf(l)' = LogOf(l)
    BY <1>1 DEF LogOf
  <2>3. \A l \in Files \cup {Changelog} : \E e \in Range(journal') : e.log = l /\ e.len <= Len(LogOf(l))'
    BY <1>11, <2>1, <2>2
  <2>4. \A d, e \in Range(Plan') : d.log = e.log => d = e
    BY <1>12 DEF IsJournal
  <2> QED BY <1>1, <2>3, <2>4 DEF JournalInv
<1>23. ReceivedInv'
  <2>1. changelog' = ClPlayed'
    BY <1>1, <1>13
  <2>2. added' \in InOrderOf(T.csets, Saved(T) \ Range(changelog))'
    <3>1. InOrderOf(T.csets, Saved(T) \ Range(changelog))' = InOrderOf(T.csets, Saved(T) \ Range(changelog))
      BY <1>1, <1>15 DEF InOrderOf, RevOf, Saved
    <3> QED BY <1>16, <3>1
  <2>3. \A i, k \in DOMAIN queue' : queue'[i] = queue'[k] => i = k
    BY <1>2, <1>3
  <2>4. \A f \in Files : f \in Range(queue') /\ filelog'[f] = FlPlayed'[f]
    BY <1>1, <1>2, <1>3, <1>14
  <2> QED BY <1>1, <2>1, <2>2, <2>3, <2>4 DEF ReceivedInv
<1>24. RepositoryInv'
  BY <1>1, <1>15, PlayedStays DEF RepositoryInv
<1>25. KeptInv'
  BY <1>1, <1>15, PlayedStays DEF KeptInv
<1> QED BY <1>18, <1>19, <1>20, <1>21, <1>22, <1>23, <1>24, <1>25 DEF IInv

\* A file grows past what the journal has for it.
LEMMA ApplyFileStep ==
    ASSUME IInv, ApplyFile
    PROVE  IInv'
<1> USE DEF ApplyFile
<1>1. /\ pc = "files" /\ pc' = "files" /\ journal # Absent /\ journal \in Seq(Entries)
      /\ journal' = journal /\ queue \in Seq(Files) /\ queue # <<>> /\ temp # Absent
      /\ UNCHANGED <<graph, changelog, journal, bundles, pc, goal, added, bounds>>
      /\ changelog' = changelog /\ before' = before /\ strip' = strip /\ added' = added
      /\ temp' = temp /\ backup' = backup /\ unbundle' = unbundle
      /\ Plan = journal /\ Plan' = journal
  BY DEF IInv, Shape, TypeOK, goal, bundles, Plan
<1>2. IsJournal(journal)
  BY <1>1, PlanIs
<1>3. PICK f : f = Head(queue)
  OBVIOUS
<1>4. /\ f \in Files /\ queue' \in Seq(Files) /\ Range(queue) = {f} \cup Range(queue')
      /\ f \notin Range(queue') /\ \A i, j \in DOMAIN queue' : queue'[i] = queue'[j] => i = j
  <2>1. PICK q \in Seq(Files) : q = queue /\ q # <<>>
    BY <1>1
  <2>2. \A i, j \in DOMAIN q : q[i] = q[j] => i = j
    BY <1>1, <2>1 DEF IInv, ReceivedInv
  <2>3. /\ Head(q) \in Files /\ Tail(q) \in Seq(Files) /\ Range(q) = {Head(q)} \cup Range(Tail(q))
        /\ Head(q) \notin Range(Tail(q))
        /\ \A i, j \in DOMAIN Tail(q) : Tail(q)[i] = Tail(q)[j] => i = j
    BY <2>1, <2>2, HeadTailIs
  <2> QED BY <1>3, <2>1, <2>3
<1>5. /\ changelog = ClPlayed /\ added \in InOrderOf(T.csets, Saved(T) \ Range(changelog))
      /\ T = temp /\ filelog[f] = FlPlayed[f]
      /\ \A g \in Files : IF g \in Range(queue) THEN filelog[g] = FlPlayed[g] ELSE Received(g)
      /\ Fit(ClPlayed, FlPlayed, T)
  BY <1>1, <1>4 DEF IInv, ReceivedInv, RepositoryInv, T, Contents
<1>6. PICK new \in SetToSeqs(temp.nodes[f] \ Nodes(f)) :
         /\ Sorted(f, [i \in DOMAIN filelog[f] |-> filelog[f][i].node] \o new)
         /\ filelog' = [filelog EXCEPT ![f] = filelog[f] \o
               [i \in DOMAIN new |-> [node |-> new[i], link |-> LinkOf(f, new[i])]]]
  BY <1>3
<1>7. PICK es : es = [i \in DOMAIN new |-> [node |-> new[i], link |-> LinkOf(f, new[i])]]
  OBVIOUS
<1>8. PICK s \in Seq(Rev) : s = filelog[f]
  BY <1>4, Typed
<1>9. PICK b \in Bundles : b = T
  BY Typed
<1>10. PICK cl \in Seq(Changesets) : cl = changelog
  BY Typed
<1>11. PICK a : a = added
  OBVIOUS
<1>12. /\ CsetsFit(cl, b) /\ NodesFit(f, cl, s, b) /\ a \in InOrderOf(b.csets, Saved(b) \ Range(cl))
       /\ new \in SetToSeqs(b.nodes[f] \ NodesOf(s))
       /\ Sorted(f, [i \in DOMAIN s |-> s[i].node] \o new)
  <2>1. CsetsFit(cl, b) /\ NodesFit(f, cl, s, b)
    BY <1>4, <1>5, <1>8, <1>9, <1>10 DEF Fit
  <2>2. Nodes(f) = NodesOf(s)
    BY <1>8 DEF Nodes, NodesOf
  <2> QED BY <1>5, <1>6, <1>8, <1>9, <1>10, <1>11, <2>1, <2>2
<1>13. es = AddGroup(f, cl \o a, b, new)
  BY <1>5, <1>7, <1>9, <1>10, <1>11 DEF LinkOf, AddGroup, FirstOf
<1>14. /\ es \in Seq(Rev) /\ s \o es \in Seq(Rev)
       /\ LinksFirst(f, cl \o a, s \o es) /\ ParentsFirst(f, s \o es)
       /\ NodesOf(s \o es) = NodesOf(s) \cup b.nodes[f]
  <2>1. Graph /\ f \in Files /\ s \in Seq(Rev) /\ b \in Bundles /\ cl \in Seq(Changesets) /\ IsOrder
    BY <1>4, Typed
  <2>2. Receives(f, cl, s, b, a)
    BY <1>12, <2>1 DEF Receives
  <2>3. PICK have : have = NodeSeq(s)
    OBVIOUS
  <2>4. Sorted(f, have \o new)
    BY <1>12, <2>3 DEF NodeSeq
  <2> HIDE DEF ApplyFile
  <2> QED BY ONLY <1>12, <1>13, <2>1, <2>2, <2>3, <2>4, FileReceived
<1>15. filelog \in [Files -> Seq(Rev)] /\ filelog' = [filelog EXCEPT ![f] = s \o es]
  BY <1>6, <1>7, <1>8, Typed DEF LogTyped
<1>16. /\ filelog' \in [Files -> Seq(Rev)] /\ filelog'[f] = s \o es
       /\ \A g \in Files : g # f => filelog'[g] = filelog[g]
  BY <1>4, <1>14, <1>15
<1>17. PICK j : j = journal
  OBVIOUS
<1>18. \A g \in Files : PlayedBy(j, g, filelog'[g]) = PlayedBy(j, g, filelog[g])
  <2>1. PICK e \in Range(j) : e.log = f /\ e.len <= Len(s)
    <3>1. \E e \in Range(journal) : e.log = f /\ e.len <= Len(LogOf(f))
      BY <1>1, <1>4 DEF IInv, JournalInv
    <3>2. LogOf(f) = s
      BY <1>4, <1>8, StripAssumption DEF LogOf
    <3> QED BY <1>17, <3>1, <3>2
  <2>2. PlayedBy(j, f, s \o es) = PlayedBy(j, f, s)
    BY <1>2, <1>14, <1>17, <2>1, PlayedByCuts
  <2> QED BY <1>8, <1>16, <2>2
<1>19. ClPlayed' = ClPlayed /\ FlPlayed' = FlPlayed /\ T' = T /\ B' = B
  <2>1. \A k, log, x : PlayedBy(k, log, x)' = PlayedBy(k, log, x)
    BY DEF PlayedBy, CutTo
  <2>2. T' = T /\ B' = B
    BY <1>1 DEF T, B, Contents, Nothing
  <2>3. ClPlayed' = ClPlayed
    BY <1>1, <2>1 DEF ClPlayed
  <2>4. FlPlayed = [g \in Files |-> PlayedBy(j, g, filelog[g])]
    BY <1>1, <1>17 DEF FlPlayed
  <2>5. FlPlayed' = [g \in Files |-> PlayedBy(j, g, filelog'[g])]
    BY <1>1, <1>17, <2>1 DEF FlPlayed
  <2> QED BY <1>18, <2>2, <2>3, <2>4, <2>5
<1>20. TypeOK'
  BY <1>1, <1>4, <1>16, Typed DEF TypeOK, graph, goal, bounds, Working
<1>21. GraphInv'
  BY <1>1, Typed, GraphStays
<1>22. Shape' /\ BundlesInv'
  BY <1>1, <1>4 DEF Shape, BundlesInv, IInv
<1>23. StripInv'
  BY <1>1 DEF IInv, StripInv, graph
<1>24. JournalInv'
  <2>1. \A l \in Files \cup {Changelog} : \E e \in Range(journal) : e.log = l /\ e.len <= Len(LogOf(l)')
    <3> SUFFICES ASSUME NEW l \in Files \cup {Changelog}
                 PROVE  \E e \in Range(journal) : e.log = l /\ e.len <= Len(LogOf(l)')
      OBVIOUS
    <3>1. PICK e \in Range(journal) : e.log = l /\ e.len <= Len(LogOf(l))
      BY <1>1 DEF IInv, JournalInv
    <3>2. CASE l = f
      <4>1. LogOf(l) = s /\ LogOf(l)' = s \o es
        BY <1>4, <1>8, <1>16, <3>2, StripAssumption DEF LogOf
      <4>2. Len(s \o es) = Len(s) + Len(es) /\ Len(s) \in Nat /\ Len(es) \in Nat /\ e.len \in Nat
        <5>1. Len(s \o es) = Len(s) + Len(es) /\ Len(s) \in Nat /\ Len(es) \in Nat
          BY <1>14, ConcatProperties, LenProperties
        <5> QED BY <1>2, <3>1, <5>1, PlayedByIs
      <4>3. e.len <= Len(s \o es)
        BY <3>1, <4>1, <4>2
      <4> QED BY <3>1, <4>1, <4>3
    <3>3. CASE l # f
      <4>1. LogOf(l)' = LogOf(l)
        BY <1>1, <1>16, <3>3 DEF LogOf
      <4> QED BY <3>1, <4>1
    <3> QED BY <3>2, <3>3
  <2>2. \A l \in Files \cup {Changelog} : \E e \in Range(journal') : e.log = l /\ e.len <= Len(LogOf(l))'
    BY <1>1, <2>1
  <2>3. \A d, e \in Range(Plan') : d.log = e.log => d = e
    BY <1>1, <1>2 DEF IsJournal
  <2> QED BY <1>1, <2>2, <2>3 DEF JournalInv
<1>25. ReceivedInv'
  <2>1. changelog' = ClPlayed'
    BY <1>1, <1>5, <1>19
  <2>2. added' \in InOrderOf(T.csets, Saved(T) \ Range(changelog))'
    <3>1. InOrderOf(T.csets, Saved(T) \ Range(changelog))' = InOrderOf(T.csets, Saved(T) \ Range(changelog))
      BY <1>1, <1>19 DEF InOrderOf, RevOf, Saved
    <3> QED BY <1>1, <1>5, <3>1
  <2>3. ASSUME NEW g \in Files
        PROVE  IF g \in Range(queue') THEN filelog'[g] = FlPlayed'[g] ELSE Received(g)'
    <3>1. CASE g = f
      <4>1. /\ LinksFirst(f, cl \o a, s \o es)' /\ ParentsFirst(f, s \o es)'
            /\ NodesOf(s \o es)' = NodesOf(FlPlayed[f])' \cup T'.nodes[f]
        <5>1. PICK all, t : all = cl \o a /\ t = s \o es
          OBVIOUS
        <5>2. LinksFirst(f, all, t) /\ ParentsFirst(f, t)
          BY <1>14, <5>1
        <5>3. LinksFirst(f, all, t)' /\ ParentsFirst(f, t)'
          BY <1>1, <5>2, FitStays
        <5>4. NodesOf(s \o es) = NodesOf(FlPlayed[f]) \cup T.nodes[f]
          BY <1>5, <1>8, <1>9, <1>14
        <5> QED BY <1>19, <5>1, <5>3, <5>4 DEF NodesOf
      <4>2. cl \o a = changelog' \o added' /\ s \o es = filelog'[f]
        BY <1>1, <1>10, <1>11, <1>16
      <4> QED BY <1>4, <3>1, <4>1, <4>2 DEF Received
    <3>2. CASE g # f
      <4>1. filelog'[g] = filelog[g] /\ (g \in Range(queue) <=> g \in Range(queue'))
        BY <1>4, <1>16, <3>2
      <4>2. CASE g \in Range(queue)
        BY <1>5, <1>19, <4>1, <4>2
      <4>3. CASE g \notin Range(queue)
        <5>1. Received(g)
          BY <1>5, <4>3
        <5>2. PICK all, t : all = changelog \o added /\ t = filelog[g]
          OBVIOUS
        <5>3. LinksFirst(g, all, t)' /\ ParentsFirst(g, t)'
          BY <1>1, <5>1, <5>2, FitStays DEF Received
        <5>4. NodesOf(filelog[g])' = NodesOf(FlPlayed[g])' \cup T'.nodes[g]
          BY <1>19, <4>1, <5>1 DEF NodesOf, Received
        <5>5. Received(g)'
          BY <1>1, <4>1, <5>2, <5>3, <5>4 DEF Received
        <5> QED BY <4>1, <4>3, <5>5
      <4> QED BY <4>2, <4>3
    <3> QED BY <3>1, <3>2
  <2> QED BY <1>1, <1>4, <2>1, <2>2, <2>3 DEF ReceivedInv
<1>26. RepositoryInv'
  BY <1>1, <1>19, PlayedStays DEF RepositoryInv
<1>27. KeptInv'
  BY <1>1, <1>19, PlayedStays DEF KeptInv
<1> QED BY <1>20, <1>21, <1>22, <1>23, <1>24, <1>25, <1>26, <1>27 DEF IInv

\* The changelog grows, and is then a repository with the files received.
LEMMA ApplyChangelogStep ==
    ASSUME IInv, ApplyChangelog
    PROVE  IInv'
<1> USE DEF ApplyChangelog
<1>1. /\ pc = "files" /\ pc' = "close" /\ journal # Absent /\ journal \in Seq(Entries)
      /\ journal' = journal /\ queue = <<>> /\ queue' = <<>> /\ added' = <<>> /\ temp # Absent
      /\ UNCHANGED <<graph, filelog, journal, bundles, goal, queue, bounds>>
      /\ filelog' = filelog /\ before' = before /\ strip' = strip
      /\ temp' = temp /\ backup' = backup /\ unbundle' = unbundle
      /\ Plan = journal /\ Plan' = journal
  BY DEF IInv, Shape, TypeOK, goal, bundles, Plan
<1>2. IsJournal(journal)
  BY <1>1, PlanIs
<1>3. /\ changelog = ClPlayed /\ added \in InOrderOf(T.csets, Saved(T) \ Range(changelog))
      /\ \A f \in Files : Received(f)
      /\ Fit(ClPlayed, FlPlayed, T) /\ Kept(ClPlayed, FlPlayed, T, B)
  BY <1>1 DEF IInv, ReceivedInv, RepositoryInv, KeptInv, Range
<1>4. PICK j : j = journal
  OBVIOUS
<1>5. PICK b \in Bundles : b = T
  BY Typed
<1>6. PICK cl \in Seq(Changesets) : cl = changelog
  BY Typed
<1>7. PICK a : a = added
  OBVIOUS
<1>8. PICK fl, fl2, bk : fl = FlPlayed /\ fl2 = filelog /\ bk = B
  OBVIOUS
<1>9. PICK all : all = cl \o a
  OBVIOUS
<1>10. Fit(cl, fl, b) /\ Kept(cl, fl, b, bk) /\ a \in InOrderOf(b.csets, Saved(b) \ Range(cl))
  BY <1>3, <1>5, <1>6, <1>7, <1>8
<1>11. a \in Seq(Changesets) /\ all \in Seq(Changesets)
  BY <1>9, <1>10, Typed, Joined DEF Fit
<1>12. \A f \in Files : /\ LinksFirst(f, all, fl2[f]) /\ ParentsFirst(f, fl2[f])
                        /\ NodesOf(fl2[f]) = NodesOf(fl[f]) \cup b.nodes[f]
  BY <1>3, <1>5, <1>6, <1>7, <1>8, <1>9 DEF Received
<1>13. /\ IsRepository(all, fl2) /\ Fit(all, fl2, b)
       /\ Range(all) = Range(cl) \cup Saved(b)
  <2>1. IsOrder
    BY Typed
  <2>2. IsReceived(cl, fl, b, a, fl2)
    BY <1>9, <1>10, <1>12, <2>1 DEF IsReceived
  <2> QED BY ONLY <1>9, <2>2, AllReceived
<1>14. changelog' = all
  BY <1>6, <1>7, <1>9
<1>15. ClPlayed' = ClPlayed /\ FlPlayed' = FlPlayed /\ T' = T /\ B' = B
  <2>1. \A k, log, x : PlayedBy(k, log, x)' = PlayedBy(k, log, x)
    BY DEF PlayedBy, CutTo
  <2>2. T' = T /\ B' = B
    BY <1>1 DEF T, B, Contents, Nothing
  <2>3. \E e \in Range(j) : e.log = Changelog /\ e.len <= Len(cl)
    BY <1>1, <1>4, <1>6 DEF IInv, JournalInv, LogOf
  <2>4. PlayedBy(j, Changelog, cl \o a) = PlayedBy(j, Changelog, cl)
    BY <1>2, <1>4, <1>11, <2>3, PlayedByCuts
  <2>5. ClPlayed = PlayedBy(j, Changelog, cl)
    BY <1>1, <1>4, <1>6 DEF ClPlayed
  <2>6. ClPlayed' = PlayedBy(j, Changelog, cl \o a)
    BY <1>1, <1>4, <1>9, <1>14, <2>1 DEF ClPlayed
  <2>7. FlPlayed' = FlPlayed
    BY <1>1, <2>1 DEF FlPlayed
  <2> QED BY <2>2, <2>4, <2>5, <2>6, <2>7
<1>16. TypeOK'
  BY <1>1, <1>11, <1>14, Typed DEF TypeOK, graph, goal, bounds, Working
<1>17. GraphInv'
  BY <1>1, Typed, GraphStays
<1>18. Shape' /\ BundlesInv'
  BY <1>1 DEF Shape, BundlesInv
<1>19. StripInv'
  BY <1>1 DEF IInv, StripInv, graph
<1>20. JournalInv'
  <2>1. \A l \in Files \cup {Changelog} : \E e \in Range(journal) : e.log = l /\ e.len <= Len(LogOf(l)')
    <3> SUFFICES ASSUME NEW l \in Files \cup {Changelog}
                 PROVE  \E e \in Range(journal) : e.log = l /\ e.len <= Len(LogOf(l)')
      OBVIOUS
    <3>1. PICK e \in Range(journal) : e.log = l /\ e.len <= Len(LogOf(l))
      BY <1>1 DEF IInv, JournalInv
    <3>2. CASE l = Changelog
      <4>1. LogOf(l) = cl /\ LogOf(l)' = cl \o a
        BY <1>6, <1>9, <1>14, <3>2 DEF LogOf
      <4>2. Len(cl \o a) = Len(cl) + Len(a) /\ Len(cl) \in Nat /\ Len(a) \in Nat
        BY <1>11, ConcatProperties, LenProperties
      <4>3. e.len \in Nat
        BY <1>2, <3>1, PlayedByIs
      <4> QED BY <3>1, <4>1, <4>2, <4>3
    <3>3. CASE l # Changelog
      BY <1>1, <3>1, <3>3 DEF LogOf
    <3> QED BY <3>2, <3>3
  <2>2. \A l \in Files \cup {Changelog} : \E e \in Range(journal') : e.log = l /\ e.len <= Len(LogOf(l))'
    BY <1>1, <2>1
  <2>3. \A d, e \in Range(Plan') : d.log = e.log => d = e
    BY <1>1, <1>2 DEF IsJournal
  <2> QED BY <1>1, <2>2, <2>3 DEF JournalInv
<1>21. ReceivedInv'
  <2>1. Range(changelog') = Range(ClPlayed') \cup Saved(b)
    BY <1>3, <1>6, <1>13, <1>14, <1>15
  <2>2. \A f \in Files : b.nodes[f] \subseteq NodesOf(fl2[f])
    BY <1>12
  <2>3. T' = b /\ filelog' = fl2
    BY <1>1, <1>5, <1>8, <1>15
  <2>4. Saved(T)' = Saved(b) /\ \A f \in Files : NodesOf(filelog[f])' = NodesOf(fl2[f])
    BY <2>3 DEF Saved, NodesOf
  <2>5. Saved(T)' \subseteq Range(changelog') /\ Range(changelog') = Range(ClPlayed') \cup Saved(T)'
    BY <2>1, <2>4
  <2>6. \A f \in Files : T'.nodes[f] \subseteq NodesOf(filelog[f])'
    BY <2>2, <2>3, <2>4
  <2> QED BY <1>1, <2>5, <2>6 DEF ReceivedInv
<1>22. RepositoryInv'
  <2>1. IsRepository(all, fl2)' /\ Fit(all, fl2, b)'
    BY <1>1, <1>13, FitStays
  <2>2. all = changelog' /\ fl2 = filelog' /\ b = T'
    BY <1>1, <1>5, <1>8, <1>14, <1>15
  <2>3. IsRepository(changelog, filelog)' /\ Fit(changelog, filelog, T)'
    BY <2>1, <2>2
  <2>4. Fit(ClPlayed, FlPlayed, T)'
    BY <1>1, <1>15, PlayedStays
  <2> QED BY <1>1, <2>3, <2>4 DEF RepositoryInv
<1>23. KeptInv'
  BY <1>1, <1>15, PlayedStays DEF KeptInv
<1> QED BY <1>16, <1>17, <1>18, <1>19, <1>20, <1>21, <1>22, <1>23 DEF IInv

\* The bundle is in the repository.
LEMMA CloseApplyStep ==
    ASSUME IInv, CloseApply
    PROVE  IInv'
<1> USE DEF CloseApply
<1>1. /\ pc = "close" /\ pc' = "done" /\ journal # Absent
      /\ journal' = Absent /\ queue = <<>> /\ queue' = <<>> /\ added = <<>> /\ temp # Absent
      /\ UNCHANGED <<graph, logs, bundles, goal, queue, added, bounds>>
      /\ changelog' = changelog /\ filelog' = filelog /\ before' = before /\ strip' = strip
      /\ temp' = temp /\ backup' = backup /\ unbundle' = unbundle
  BY DEF IInv, Shape, TypeOK, goal, bundles, logs
<1>2. ClPlayed' = changelog /\ FlPlayed' = filelog /\ T' = T /\ B' = B
  BY <1>1 DEF ClPlayed, FlPlayed, T, B, Contents, Nothing
<1>3. TypeOK'
  BY <1>1, Typed DEF TypeOK, graph, goal, bounds, Working
<1>4. GraphInv'
  BY <1>1, Typed, GraphStays
<1>5. Shape' /\ BundlesInv' /\ JournalInv'
  BY <1>1 DEF Shape, BundlesInv, JournalInv
<1>6. StripInv'
  BY <1>1 DEF IInv, StripInv, graph
<1>7. /\ IsRepository(changelog, filelog) /\ Fit(changelog, filelog, T)
      /\ Kept(ClPlayed, FlPlayed, T, B) /\ Range(changelog) = Range(ClPlayed) \cup Saved(T)
      /\ Saved(T) \subseteq Range(changelog)
      /\ \A f \in Files : T.nodes[f] \subseteq NodesOf(filelog[f])
  BY <1>1 DEF IInv, RepositoryInv, KeptInv, ReceivedInv
<1>8. ReceivedInv'
  <2>1. PICK t : t = T
    OBVIOUS
  <2>2. Saved(t)' = Saved(t) /\ \A s : NodesOf(s)' = NodesOf(s)
    BY DEF Saved, NodesOf
  <2> QED BY <1>1, <1>2, <1>7, <2>1, <2>2 DEF ReceivedInv
<1>9. RepositoryInv'
  <2>1. IsRepository(changelog, filelog)' /\ Fit(changelog, filelog, T)'
    BY <1>1, <1>2, <1>7, LogsStay
  <2>2. Fit(ClPlayed, FlPlayed, T)'
    BY <1>1, <1>2, <2>1
  <2> QED BY <1>1, <2>1, <2>2 DEF RepositoryInv
<1>10. KeptInv'
  <2>1. PICK cl, fl, b, bk : cl = changelog /\ fl = filelog /\ b = T /\ bk = B
    OBVIOUS
  <2>2. Kept(cl, fl, b, bk)
    <3>1. \A f \in Files : NodesOf(FlPlayed[f]) \subseteq NodesOf(filelog[f])
      BY PlayedAre
    <3> QED BY <1>7, <2>1, <3>1 DEF Kept
  <2>3. Kept(cl, fl, b, bk)'
    BY <1>1, <2>2, KeptStays DEF goal
  <2>4. Kept(ClPlayed, FlPlayed, T, B)'
    BY <1>1, <1>2, <2>1, <2>3
  <2>5. ~unbundle => Range(changelog) \cup Saved(T) = before \ strip
    BY <1>1, <1>7 DEF IInv, KeptInv
  <2>6. Saved(T)' = Saved(T)
    BY <1>2 DEF Saved
  <2> QED BY <1>1, <1>2, <2>4, <2>5, <2>6 DEF KeptInv
<1> QED BY <1>3, <1>4, <1>5, <1>6, <1>8, <1>9, <1>10 DEF IInv

\* Nothing is kept by the temporary bundle alone, which may go.
LEMMA FinishStep ==
    ASSUME IInv, Finish
    PROVE  IInv'
<1> USE DEF Finish
<1>1. /\ pc = "done" /\ pc' = "idle" /\ journal = Absent
      /\ journal' = Absent /\ queue = <<>> /\ queue' = <<>> /\ added = <<>>
      /\ UNCHANGED <<graph, logs, journal, backup, goal, queue, added, bounds>>
      /\ changelog' = changelog /\ filelog' = filelog /\ before' = before /\ strip' = strip
      /\ temp' = (IF unbundle THEN temp ELSE Absent) /\ backup' = backup
  BY DEF IInv, Shape, TypeOK, goal, logs
<1>2. TypeOK'
  BY <1>1, Typed DEF TypeOK, graph, goal, bounds, Working
<1>3. GraphInv'
  BY <1>1, Typed, GraphStays
<1>4. Shape' /\ BundlesInv' /\ JournalInv' /\ StripInv' /\ ReceivedInv'
  BY <1>1 DEF Shape, BundlesInv, JournalInv, StripInv, ReceivedInv
<1>5. RepositoryInv'
  <2>1. PICK cl, fl : cl = changelog /\ fl = filelog
    OBVIOUS
  <2>2. IsRepository(cl, fl)
    BY <1>1, <2>1 DEF IInv, RepositoryInv
  <2>3. IsRepository(cl, fl)'
    BY <1>1, <2>2, FitStays
  <2> QED BY <1>1, <2>1, <2>3 DEF RepositoryInv
<1>6. KeptInv'
  <2>1. PICK cl, fl, b, bk : cl = changelog /\ fl = filelog /\ b = T /\ bk = B
    OBVIOUS
  <2>2. Kept(cl, fl, b, bk)
    BY <1>1, <2>1 DEF IInv, KeptInv, ClPlayed, FlPlayed
  <2>3. Saved(b) \subseteq Range(cl) /\ \A f \in Files : b.nodes[f] \subseteq NodesOf(fl[f])
    BY <1>1, <2>1 DEF IInv, ReceivedInv
  <2>4. Kept(cl, fl, Nothing, bk)
    BY <2>2, <2>3, Typed DEF Kept
  <2>5. PICK nothing : nothing = Nothing
    OBVIOUS
  <2>6. Kept(cl, fl, nothing, bk)'
    BY <1>1, <2>4, <2>5, KeptStays DEF goal
  <2>7. Nothing' = nothing /\ B' = bk
    BY <1>1, <2>1, <2>5 DEF Nothing, B, Contents
  <2> QED BY <1>1, <2>1, <2>6, <2>7 DEF KeptInv
<1> QED BY <1>2, <1>3, <1>4, <1>5, <1>6 DEF IInv

\* Entries that were queued and not written are lost, with all the others.
LEMMA CrashStep ==
    ASSUME IInv, Crash, ~CrashInGroup
    PROVE  IInv'
<1> USE DEF Crash
<1>1. /\ pc \in Working /\ pc # "idle" /\ pc' = "crashed" /\ queue' = <<>> /\ added' = <<>>
      /\ journal' = journal /\ (journal # Absent => journal \in Seq(Entries))
      /\ UNCHANGED <<graph, logs, journal, bundles, goal, strips>>
      /\ changelog' = changelog /\ filelog' = filelog /\ before' = before /\ strip' = strip
      /\ temp' = temp /\ backup' = backup /\ unbundle' = unbundle
      /\ Plan' = journal
  BY DEF IInv, TypeOK, goal, bundles, logs, Plan, Working
<1>2. T' = T /\ B' = B
  BY <1>1 DEF T, B, Contents, Nothing
<1>3. \A k, log, x : PlayedBy(k, log, x)' = PlayedBy(k, log, x)
  BY DEF PlayedBy, CutTo
<1>4. Fit(ClPlayed, FlPlayed, T)' /\ Kept(ClPlayed, FlPlayed, T, B)'
  <2>1. CASE pc = "group" /\ queue # <<>>
    <3>1. journal = <<>> /\ journal # Absent
      BY <1>1, <2>1 DEF IInv, Shape
    <3>2. Range(journal) = {}
      BY <3>1 DEF Range
    <3>3. \A log, x : PlayedBy(journal, log, x) = x
      BY <3>2 DEF PlayedBy
    <3>4. ClPlayed' = changelog
      BY <1>1, <1>3, <3>1, <3>3 DEF ClPlayed
    <3>5. FlPlayed' = filelog
      <4>1. FlPlayed' = [f \in Files |-> PlayedBy(journal, f, filelog[f])]
        BY <1>1, <1>3, <3>1 DEF FlPlayed
      <4>2. filelog \in [Files -> Seq(Rev)]
        BY Typed DEF LogTyped
      <4> QED BY <3>3, <4>1, <4>2
    <3>6. PICK cl, fl, b, bk : cl = changelog /\ fl = filelog /\ b = T /\ bk = B
      OBVIOUS
    <3>7. Fit(cl, fl, b) /\ before = Range(cl)
      BY <2>1, <3>6 DEF IInv, RepositoryInv, BundlesInv
    <3>8. Kept(cl, fl, b, bk)
      BY <3>7, KeptWhole
    <3>9. Fit(cl, fl, b)' /\ Kept(cl, fl, b, bk)'
      BY <1>1, <3>7, <3>8, FitStays, KeptStays
    <3> QED BY <1>2, <3>4, <3>5, <3>6, <3>9
  <2>2. CASE ~(pc = "group" /\ queue # <<>>)
    <3>1. journal # Absent => Plan = journal
      <4>1. ASSUME NEW j \in Seq(Entries) PROVE j \o <<>> = j
        OBVIOUS
      <4>2. journal # Absent /\ pc = "group" => journal \o queue = journal
        BY <1>1, <2>2, <4>1
      <4> QED BY <4>2 DEF Plan
    <3>2. ClPlayed' = ClPlayed /\ FlPlayed' = FlPlayed
      BY <1>1, <1>3, <3>1 DEF ClPlayed, FlPlayed
    <3> QED BY <1>1, <1>2, <3>2, PlayedStays
  <2> QED BY <2>1, <2>2
<1>5. TypeOK'
  <2>1. <<>> \in Seq(Entries) /\ <<>> \in Seq(Changesets)
    OBVIOUS
  <2> QED BY <1>1, <2>1, Typed DEF TypeOK, graph, Working
<1>6. GraphInv'
  BY <1>1, Typed, GraphStays
<1>7. Shape' /\ BundlesInv' /\ ReceivedInv' /\ RepositoryInv' /\ KeptInv'
  BY <1>1, <1>4 DEF Shape, BundlesInv, ReceivedInv, RepositoryInv, KeptInv
<1>8. StripInv'
  BY <1>1 DEF IInv, StripInv, graph
<1>9. JournalInv'
  <2> SUFFICES ASSUME journal # Absent
               PROVE  \A d, e \in Range(journal) : d.log = e.log => d = e
    BY <1>1 DEF JournalInv
  <2>1. Range(journal) \subseteq Range(Plan)
    <3>1. CASE pc = "group"
      <4>1. PICK j \in Seq(Entries) : j = journal
        BY <1>1
      <4>2. PICK q \in Seq(Entries) : q = queue
        BY <3>1 DEF IInv, Shape
      <4>3. Range(j \o q) = Range(j) \cup Range(q)
        BY ConcatIs
      <4> QED BY <3>1, <4>1, <4>2, <4>3 DEF Plan
    <3>2. CASE pc # "group"
      BY <3>2 DEF Plan
    <3> QED BY <3>1, <3>2
  <2> QED BY <2>1 DEF IInv, JournalInv
<1> QED BY <1>5, <1>6, <1>7, <1>8, <1>9 DEF IInv

\* The logs become what the journal makes of them.
LEMMA RecoverStep ==
    ASSUME IInv, Recover
    PROVE  IInv'
<1> USE DEF Recover
<1>1. /\ pc = "crashed" /\ pc' = "crashed" /\ journal # Absent /\ journal' = Absent
      /\ queue = <<>> /\ queue' = <<>> /\ added' = <<>>
      /\ UNCHANGED <<graph, bundles, pc, goal, queue, added, bounds>>
      /\ before' = before /\ strip' = strip
      /\ temp' = temp /\ backup' = backup /\ unbundle' = unbundle
  BY DEF IInv, Shape, goal, bundles
<1>2. changelog' = ClPlayed /\ filelog' = FlPlayed
  BY <1>1 DEF ClPlayed, FlPlayed, Plan, Played, PlayedBy
<1>3. ClPlayed' = ClPlayed /\ FlPlayed' = FlPlayed /\ T' = T /\ B' = B
  <2>1. ClPlayed' = changelog' /\ FlPlayed' = filelog'
    BY <1>1 DEF ClPlayed, FlPlayed
  <2> QED BY <1>1, <1>2, <2>1 DEF T, B, Contents, Nothing
<1>4. TypeOK'
  BY <1>1, <1>2, PlayedAre, Typed DEF TypeOK, graph, goal, bounds, Working
<1>5. GraphInv'
  BY <1>1, Typed, GraphStays
<1>6. Shape' /\ BundlesInv' /\ ReceivedInv' /\ JournalInv'
  BY <1>1 DEF Shape, BundlesInv, ReceivedInv, JournalInv
<1>7. StripInv'
  BY <1>1 DEF IInv, StripInv, graph
<1>8. RepositoryInv' /\ KeptInv'
  BY <1>1, <1>3, PlayedStays DEF RepositoryInv, KeptInv
<1> QED BY <1>4, <1>5, <1>6, <1>7, <1>8 DEF IInv

\* The temporary bundle still fits the repository.
LEMMA UnbundleStep ==
    ASSUME IInv, Unbundle
    PROVE  IInv'
<1> USE DEF Unbundle
<1>1. /\ pc = "crashed" /\ journal = Absent /\ journal' = Absent
      /\ pc' = (IF temp = Absent THEN "done" ELSE "apply")
      /\ queue = <<>> /\ queue' = <<>> /\ added' = <<>>
      /\ UNCHANGED <<graph, logs, journal, bundles, strip, before, queue, added, bounds>>
      /\ changelog' = changelog /\ filelog' = filelog /\ before' = before /\ strip' = strip
      /\ temp' = temp /\ backup' = backup /\ unbundle' = TRUE
  BY DEF IInv, Shape, bundles, logs
<1>2. /\ ClPlayed = changelog /\ FlPlayed = filelog
      /\ ClPlayed' = ClPlayed /\ FlPlayed' = FlPlayed /\ T' = T /\ B' = B
  BY <1>1 DEF ClPlayed, FlPlayed, T, B, Contents, Nothing
<1>3. TypeOK'
  BY <1>1, Typed DEF TypeOK, graph, bounds, Working
<1>4. GraphInv'
  BY <1>1, Typed, GraphStays
<1>5. Shape' /\ BundlesInv' /\ JournalInv'
  BY <1>1 DEF Shape, BundlesInv, JournalInv
<1>6. StripInv'
  BY <1>1 DEF IInv, StripInv, graph
<1>7. ReceivedInv'
  <2>1. temp = Absent => T' = Nothing
    BY <1>2 DEF T, Contents
  <2>2. Saved(Nothing) = {} /\ \A f \in Files : Nothing.nodes[f] = {}
    BY Typed
  <2>3. pc' = "done" => Saved(T)' = {} /\ \A f \in Files : (T.nodes[f])' = {}
    BY <1>1, <2>1, <2>2 DEF Saved
  <2> QED BY <1>1, <2>3 DEF ReceivedInv
<1>8. RepositoryInv'
  <2>1. Fit(changelog, filelog, T)
    BY <1>1, <1>2 DEF IInv, RepositoryInv
  <2>2. temp = Absent => T = Nothing
    BY DEF T, Contents
  <2>3. Fit(changelog, filelog, T)' /\ (temp = Absent => IsRepository(changelog, filelog)')
    BY <1>1, <1>2, <2>1, <2>2, LogsStay DEF IsRepository
  <2>4. Fit(ClPlayed, FlPlayed, T)'
    BY <1>1, <1>2, PlayedStays
  <2> QED BY <1>1, <2>3, <2>4 DEF RepositoryInv
<1>9. KeptInv'
  BY <1>1, <1>2, PlayedStays DEF KeptInv
<1> QED BY <1>3, <1>4, <1>5, <1>6, <1>7, <1>8, <1>9 DEF IInv

LEMMA StutterStep ==
    ASSUME IInv, UNCHANGED vars
    PROVE  IInv'
<1> USE DEF vars, graph, logs, bundles, goal, bounds
<1>1. TypeOK' /\ GraphInv' /\ StripInv' /\ Shape'
  BY Typed, GraphStays DEF IInv, TypeOK, Working, StripInv, Shape
<1>2. T' = T /\ B' = B /\ Plan' = Plan /\ \A l : LogOf(l)' = LogOf(l)
  BY DEF T, B, Contents, Nothing, Plan, LogOf
<1>3. \A j, log, s : PlayedBy(j, log, s)' = PlayedBy(j, log, s)
  BY DEF PlayedBy, CutTo
<1>4. ClPlayed' = ClPlayed /\ FlPlayed' = FlPlayed
  BY <1>2, <1>3 DEF ClPlayed, FlPlayed
<1>5. JournalInv'
  BY <1>2 DEF IInv, JournalInv
<1>6. BundlesInv'
  BY BundleStays DEF IInv, BundlesInv
<1>7. ReceivedInv'
  <2>1. \A s, S : InOrderOf(s, S)' = InOrderOf(s, S)
    BY DEF InOrderOf, RevOf
  <2>2. ASSUME NEW f \in Files PROVE Received(f)' <=> Received(f)
    <3>1. PICK all, s : all = changelog \o added /\ s = filelog[f]
      OBVIOUS
    <3>2. (LinksFirst(f, all, s) <=> LinksFirst(f, all, s)') /\ (ParentsFirst(f, s) <=> ParentsFirst(f, s)')
      BY FitStays
    <3> QED BY <1>2, <1>4, <3>1, <3>2 DEF Received, NodesOf
  <2>3. Saved(T)' = Saved(T) /\ \A f \in Files : NodesOf(filelog[f])' = NodesOf(filelog[f])
    BY <1>2 DEF Saved, NodesOf
  <2> QED BY <1>2, <1>4, <2>1, <2>2, <2>3 DEF IInv, ReceivedInv
<1>8. RepositoryInv' /\ KeptInv'
  <2>1. PICK cl, fl, pcl, pfl, b, bk, nothing :
           /\ cl = changelog /\ fl = filelog /\ pcl = ClPlayed /\ pfl = FlPlayed
           /\ b = T /\ bk = B /\ nothing = Nothing
    OBVIOUS
  <2>2. /\ Fit(cl, fl, b) => Fit(cl, fl, b)'
        /\ IsRepository(cl, fl) => IsRepository(cl, fl)'
    BY FitStays
  <2>3. Fit(pcl, pfl, b) => Fit(pcl, pfl, b)'
    BY FitStays
  <2>4. Kept(cl, fl, nothing, bk) => Kept(cl, fl, nothing, bk)'
    BY KeptStays
  <2>5. Kept(pcl, pfl, b, bk) => Kept(pcl, pfl, b, bk)'
    BY KeptStays
  <2>6. Nothing' = nothing /\ Saved(T)' = Saved(T)
    BY <1>2, <2>1 DEF Nothing, Saved
  <2>7. RepositoryInv'
    BY <1>2, <1>4, <2>1, <2>2, <2>3 DEF IInv, RepositoryInv
  <2>8. KeptInv'
    BY <1>2, <1>4, <2>1, <2>4, <2>5, <2>6 DEF IInv, KeptInv
  <2> QED BY <2>7, <2>8
<1> QED BY <1>1, <1>5, <1>6, <1>7, <1>8 DEF IInv

LEMMA NextInv ==
    ASSUME ~CrashInGroup
    PROVE  IInv /\ [Next]_vars => IInv'
<1> SUFFICES ASSUME IInv, [Next]_vars PROVE IInv'
  OBVIOUS
<1>1. ASSUME NEW roots \in (SUBSET Range(changelog)) \ {{}}, Start(roots) PROVE IInv'
  BY <1>1, StartStep
<1>2. CASE WriteBackup
  BY <1>2, WriteBackupStep
<1>3. CASE WriteTemp
  BY <1>3, WriteTempStep
<1>4. CASE OpenStrip
  BY <1>4, OpenStripStep
<1>5. CASE WriteEntry \/ EndGroup
  BY <1>5, WriteEntryStep, EndGroupStep
<1>6. CASE CutNext \/ CloseStrip
  BY <1>6, CutNextStep, CloseStripStep
<1>7. CASE OpenApply \/ ApplyFile \/ ApplyChangelog
  BY <1>7, OpenApplyStep, ApplyFileStep, ApplyChangelogStep
<1>8. CASE CloseApply \/ Finish
  BY <1>8, CloseApplyStep, FinishStep
<1>9. CASE Crash
  BY <1>9, CrashStep
<1>10. CASE Recover \/ Unbundle
  BY <1>10, RecoverStep, UnbundleStep
<1>11. CASE UNCHANGED vars
  BY <1>11, StutterStep
<1> QED BY <1>1, <1>2, <1>3, <1>4, <1>5, <1>6, <1>7, <1>8, <1>9, <1>10, <1>11 DEF Next

LEMMA Invariance == ~CrashInGroup => (Spec => []IInv)
<1> SUFFICES ASSUME ~CrashInGroup PROVE Spec => []IInv
  OBVIOUS
<1>1. IInv /\ [Next]_vars => IInv'
  BY NextInv
<1> QED BY <1>1, InitInv, PTL DEF Spec

-----------------------------------------------------------------------------
(* What the invariant gives *)

\* The bundles that there are, as NothingLost takes them.
LEMMA BundlesThere ==
    ASSUME IInv, NEW bs, {temp} \ {Absent} \subseteq bs
    PROVE  /\ Saved(T) \subseteq UNION {Range(b.csets) : b \in bs}
           /\ \A f \in Files : T.nodes[f] \subseteq UNION {b.nodes[f] : b \in bs}
           /\ {backup} \ {Absent} \subseteq bs =>
                 /\ Saved(B) \subseteq UNION {Range(b.csets) : b \in bs}
                 /\ \A f \in Files : B.nodes[f] \subseteq UNION {b.nodes[f] : b \in bs}
<1>1. ASSUME NEW x, {x} \ {Absent} \subseteq bs
      PROVE  /\ Saved(Contents(x)) \subseteq UNION {Range(b.csets) : b \in bs}
             /\ \A f \in Files : Contents(x).nodes[f] \subseteq UNION {b.nodes[f] : b \in bs}
  <2>1. CASE x = Absent
    <3>1. Contents(x) = Nothing
      BY <2>1 DEF Contents
    <3> QED BY <3>1, Typed
  <2>2. CASE x # Absent
    <3>1. Contents(x) = x /\ x \in bs
      BY <1>1, <2>2 DEF Contents
    <3> QED BY <3>1 DEF Saved
  <2> QED BY <2>1, <2>2
<1> QED BY <1>1 DEF T, B

\* What is kept is in the logs or in one of the bundles.
LEMMA KeptIsThere ==
    ASSUME IInv, NEW c \in before, NEW bs, {temp} \ {Absent} \subseteq bs,
           c \in strip => {backup} \ {Absent} \subseteq bs
    PROVE  IsInWith(c, bs)
<1> DEFINE cs == Range(changelog) \cup UNION {Range(b.csets) : b \in bs}
           ns(f) == Nodes(f) \cup {0} \cup UNION {b.nodes[f] : b \in bs}
<1>1. \A f \in Files : Nodes(f) = NodesOf(filelog[f])
  BY DEF Nodes, NodesOf
<1>2. /\ Saved(T) \subseteq cs /\ \A f \in Files : T.nodes[f] \subseteq ns(f)
      /\ Saved(Nothing) = {} /\ \A f \in Files : Nothing.nodes[f] = {}
      /\ c \in strip => Saved(B) \subseteq cs /\ \A f \in Files : B.nodes[f] \subseteq ns(f)
  BY BundlesThere, Typed
<1>3. PICK cl, fl, b : /\ Kept(cl, fl, b, B) /\ Range(cl) \subseteq Range(changelog)
                       /\ \A f \in Files : NodesOf(fl[f]) \subseteq NodesOf(filelog[f])
                       /\ Saved(b) \subseteq cs /\ \A f \in Files : b.nodes[f] \subseteq ns(f)
  <2>1. CASE pc = "idle"
    BY <1>2, <2>1 DEF IInv, KeptInv
  <2>2. CASE pc # "idle"
    BY <1>2, <2>2, PlayedAre DEF IInv, KeptInv
  <2> QED BY <2>1, <2>2
<1>4. c \in cs
  BY <1>2, <1>3 DEF Kept
<1>5. ASSUME NEW f \in Files PROVE manifest[f][c] \in ns(f)
  <2>1. 0 \in ns(f) /\ NodesOf(fl[f]) \subseteq ns(f) /\ b.nodes[f] \subseteq ns(f)
        /\ (c \in strip => B.nodes[f] \subseteq ns(f))
    BY <1>1, <1>2, <1>3
  <2>2. c \notin strip => manifest[f][c] \in {0} \cup NodesOf(fl[f]) \cup b.nodes[f]
    BY <1>3 DEF Kept
  <2>3. manifest[f][c] \in {0} \cup NodesOf(fl[f]) \cup b.nodes[f] \cup B.nodes[f]
    BY <1>3 DEF Kept
  <2> HIDE DEF ns
  <2> QED BY <2>1, <2>2, <2>3
<1> QED BY <1>4, <1>5 DEF IsInWith

LEMMA InvLost ==
    ASSUME IInv
    PROVE  NothingLost
<1> SUFFICES ASSUME NEW c \in before
             PROVE  IsInWith(c, (IF c \in strip THEN {temp, backup} ELSE {temp}) \ {Absent})
  BY DEF NothingLost
<1>1. PICK bs : bs = (IF c \in strip THEN {temp, backup} ELSE {temp}) \ {Absent}
  OBVIOUS
<1>2. {temp} \ {Absent} \subseteq bs /\ (c \in strip => {backup} \ {Absent} \subseteq bs)
  BY <1>1
<1> QED BY <1>1, <1>2, KeptIsThere

LEMMA InvPoint ==
    ASSUME IInv
    PROVE  StripPointIsLeast
<1> SUFFICES ASSUME pc = "open", NEW f \in Files
             PROVE  /\ Point(f) = Min(Large(f, StripRev) \cup {Len(filelog[f]) + 1})
                    /\ StripInfo(f, StripRev).broken =
                          {r \in DOMAIN filelog[f] : r > Point(f)} \ Large(f, StripRev)
  BY DEF StripPointIsLeast, Affected, Large, Point
<1>1. Opening
  BY OpeningIs
<1>2. /\ Point(f) \in Large(f, StripRev) \cup {Len(filelog[f]) + 1}
      /\ Point(f) \in 1..(Len(filelog[f]) + 1)
      /\ \A r \in DOMAIN filelog[f] : r < Point(f) => filelog[f][r].link < StripRev
      /\ StripInfo(f, StripRev).broken =
            {r \in DOMAIN filelog[f] : r > Point(f)} \ Large(f, StripRev)
  BY <1>1, PointIs
<1>3. /\ DOMAIN filelog[f] = 1..Len(filelog[f]) /\ Len(filelog[f]) \in Nat
      /\ \A r \in DOMAIN filelog[f] : filelog[f][r].link \in Int
      /\ StripRev \in Int
  <2>1. PICK s \in Seq(Rev) : s = filelog[f]
    BY Typed
  <2>2. StripRev \in Nat
    BY <1>1, StripRevIs
  <2> QED BY <2>1, <2>2, LogTypes
<1>4. PICK S : S = Large(f, StripRev) \cup {Len(filelog[f]) + 1}
  OBVIOUS
<1>5. S \in SUBSET Nat /\ S # {} /\ Point(f) \in S
  BY <1>2, <1>3, <1>4 DEF Large
<1>6. \A x \in S : Point(f) <= x
  BY <1>2, <1>3, <1>4 DEF Large
<1>7. Min(S) \in S /\ \A x \in S : Min(S) <= x
  BY <1>5, MinIs
<1>8. Point(f) = Min(S)
  <2>1. Point(f) <= Min(S) /\ Min(S) <= Point(f) /\ Point(f) \in Nat /\ Min(S) \in Nat
    BY <1>5, <1>6, <1>7
  <2> QED BY ONLY <2>1
<1> QED BY <1>2, <1>4, <1>8

LEMMA InvExact ==
    ASSUME IInv
    PROVE  StripIsExact
<1> SUFFICES ASSUME pc = "done", ~unbundle
             PROVE  /\ Range(changelog) = before \ strip
                    /\ \A c \in before \ strip : IsIn(c)
                    /\ \A f \in Files : Nodes(f) \subseteq {node[f][c] : c \in before \ strip}
  BY InvPoint DEF StripIsExact
<1>1. Range(changelog) = before \ strip
  BY DEF IInv, Shape, KeptInv, ReceivedInv, ClPlayed
<1>2. \A f \in Files :
         /\ LinksFirst(f, changelog, filelog[f])
         /\ \A c \in Range(changelog) : manifest[f][c] \in {0} \cup NodesOf(filelog[f])
  BY Typed, RepositoryIs DEF IInv, RepositoryInv
<1>3. \A f \in Files : Nodes(f) = NodesOf(filelog[f])
  BY DEF Nodes, NodesOf
<1>4. ASSUME NEW c \in before \ strip PROVE IsIn(c)
  BY <1>1, <1>2, <1>3 DEF IsIn
<1>5. ASSUME NEW f \in Files, NEW n \in Nodes(f)
      PROVE  n \in {node[f][c] : c \in before \ strip}
  <2>1. PICK r \in DOMAIN filelog[f] : filelog[f][r].node = n
    BY DEF Nodes, Range
  <2>2. filelog[f][r].link \in DOMAIN changelog /\ node[f][changelog[filelog[f][r].link]] = n
    BY <1>2, <2>1 DEF LinksFirst
  <2>3. changelog[filelog[f][r].link] \in before \ strip
    BY <1>1, <2>2 DEF Range
  <2> QED BY <2>2, <2>3
<1> QED BY <1>1, <1>4, <1>5

LEMMA InvLinks ==
    ASSUME IInv
    PROVE  LinksAreGood
<1>1. ASSUME journal = Absent, NEW f \in Files, NEW r \in Range(filelog[f])
      PROVE  r.link \in DOMAIN changelog /\ node[f][changelog[r.link]] = r.node
  <2>1. LinksFirst(f, changelog, filelog[f])
    <3>1. CASE pc = "idle"
      BY <3>1, Typed, RepositoryIs DEF IInv, RepositoryInv
    <3>2. CASE pc # "idle"
      BY <1>1, <3>2 DEF IInv, RepositoryInv, Fit, NodesFit, ClPlayed, FlPlayed
    <3> QED BY <3>1, <3>2
  <2> QED BY <1>1, <2>1 DEF LinksFirst, Range
<1>2. ASSUME pc = "idle", NEW f \in Files, NEW r \in DOMAIN filelog[f], NEW q \in ParentRevs(f, r)
      PROVE  filelog[f][q].link < filelog[f][r].link
  <2>1. LinksGoUp(f)
    BY <1>2, Typed, RepositoryGoesUp DEF IInv, RepositoryInv
  <2>2. q \in DOMAIN filelog[f]
    BY DEF ParentRevs
  <2> QED BY <2>1, <2>2 DEF LinksGoUp
<1> QED BY <1>1, <1>2 DEF LinksAreGood, LinksResolve, LinksSorted

-----------------------------------------------------------------------------
(* The theorems.  They take it that the process does not die while endgroup()      *)
(* writes: the journal then has a part of the cuts, and hg recover makes that part. *)

\* The variables hold what they are to hold.
THEOREM TypesAreKept == ~CrashInGroup => (Spec => []TypeOK)
<1> SUFFICES ASSUME ~CrashInGroup PROVE Spec => []TypeOK
  OBVIOUS
<1>1. Spec => []IInv
  BY Invariance
<1>2. IInv => TypeOK
  BY DEF IInv
<1> QED BY <1>1, <1>2, PTL

\* NothingLost: whatever the repository, the files and the changesets to remove, and
\* wherever the strip, hg recover or hg unbundle is interrupted, each changeset that is
\* to stay is in the repository or in the temporary bundle, with all of its files; and
\* those that go are there with the help of the backup.
THEOREM NothingIsLost == ~CrashInGroup => (Spec => []NothingLost)
<1> SUFFICES ASSUME ~CrashInGroup PROVE Spec => []NothingLost
  OBVIOUS
<1>1. Spec => []IInv
  BY Invariance
<1>2. IInv => NothingLost
  BY InvLost
<1> QED BY <1>1, <1>2, PTL

\* StripIsExact: resolvestripinfo() finds the first revision to cut and those lost with
\* it, and repair.strip() takes away the changesets it was to, their file revisions that
\* nothing else introduces, and nothing else.
THEOREM StripsAreExact == ~CrashInGroup => (Spec => []StripIsExact)
<1> SUFFICES ASSUME ~CrashInGroup PROVE Spec => []StripIsExact
  OBVIOUS
<1>1. Spec => []IInv
  BY Invariance
<1>2. IInv => StripIsExact
  BY InvExact
<1> QED BY <1>1, <1>2, PTL

\* LinksAreGood: with no journal left, each file revision is linked to a changeset that
\* introduces it, and between strips a parent is linked to an earlier changeset, which
\* the next resolvestripinfo() relies on.
THEOREM LinksStayGood == ~CrashInGroup => (Spec => []LinksAreGood)
<1> SUFFICES ASSUME ~CrashInGroup PROVE Spec => []LinksAreGood
  OBVIOUS
<1>1. Spec => []IInv
  BY Invariance
<1>2. IInv => LinksAreGood
  BY InvLinks
<1> QED BY <1>1, <1>2, PTL
=============================================================================
