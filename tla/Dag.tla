-------------------------------- MODULE Dag --------------------------------
(***************************************************************************)
(* The graph of changesets and the sets of it the algorithms of Mercurial  *)
(* are written with (revsets, dagop.py, the walks of revlog.py).           *)
(*                                                                         *)
(* A changeset is the number of its revision, so its ancestors have lower  *)
(* numbers.  The graph is given by its ancestry, an order, from which the  *)
(* parents follow: no changeset has a parent that the other one descends   *)
(* from (hg merge refuses to make these).                                  *)
(***************************************************************************)
EXTENDS Integers, FiniteSets

CONSTANTS
    N,              \* bound: changesets
    MaxParents      \* bound: 2, or 1 for a graph without merges

ASSUME DagAssumption == N \in Nat /\ MaxParents \in Nat

VARIABLE ancestors  \* what a changeset descends from, itself included

Changesets == 1..N

\* The parents, and the children.
ParentsOf(c) ==
    {p \in ancestors[c] \ {c} :
        \A a \in ancestors[c] \ {c} : p \in ancestors[a] => a = p}

ChildrenOf(c) == {d \in Changesets : c \in ParentsOf(d)}

AncestorsOf(S) == UNION {ancestors[c] : c \in S}

\* S:: and A::B, as revsets write them.
DescendantsOf(S) == {c \in Changesets : ancestors[c] \cap S # {}}

Between(A, B) == DescendantsOf(A) \cap AncestorsOf(B)

\* "Members of set with no children in set", "no parent changeset in set".
HeadsOf(S) == {c \in S : \A d \in S : c \notin ParentsOf(d)}

RootsOf(S) == {c \in S : ParentsOf(c) \cap S = {}}

\* A repository has the ancestors of what it has.
IsClosed(S) == AncestorsOf(S) \subseteq S

IsOrder ==
    /\ ancestors \in [Changesets -> SUBSET Changesets]
    /\ \A c \in Changesets : c \in ancestors[c] /\ ancestors[c] \subseteq 1..c
    /\ \A c \in Changesets : \A a \in ancestors[c] : ancestors[a] \subseteq ancestors[c]

IsDag == IsOrder /\ \A c \in Changesets : Cardinality(ParentsOf(c)) <= MaxParents
=============================================================================
