------------------------------ MODULE PhaseMap ------------------------------
(***************************************************************************)
(* What phases are to a user (hg help phases): each changeset has a phase, *)
(* "no changeset can be in a lower phase than its ancestors", and a move   *)
(* takes along the ancestors or the descendants and nothing else.          *)
(***************************************************************************)
EXTENDS Dag

CONSTANT MaxPhase       \* 0 is public, 1 draft, 2 secret, above archived

ASSUME PhaseAssumption == MaxPhase \in Nat \ {0}

Phase == 0..MaxPhase

Larger(x, y) == IF x > y THEN x ELSE y
Smaller(x, y) == IF x < y THEN x ELSE y
Greatest(S) == CHOOSE p \in S : \A q \in S : q <= p
Least(S) == CHOOSE p \in S : \A q \in S : p <= q

\* Every changeset of S is in phase t or a lower one, ...
Advanced(phase, t, S) ==
    [c \in DOMAIN phase |-> IF c \in AncestorsOf(S) THEN Smaller(phase[c], t) ELSE phase[c]]

\* ... in t or a higher one, ...
Retracted(phase, t, S) ==
    [c \in DOMAIN phase |-> IF c \in DescendantsOf(S) THEN Larger(phase[c], t) ELSE phase[c]]

\* ... or comes in t, or in that of an ancestor if this is higher.
Added(phase, t, new) ==
    [c \in DOMAIN phase \cup new |->
        IF c \in DOMAIN phase THEN phase[c]
        ELSE Greatest({t} \cup {phase[a] : a \in ancestors[c] \ new})]

\* A received changegroup: what is new is in t, what was known in t or below.
Received(phase, t, new, S) ==
    [c \in DOMAIN phase \cup new |->
        IF c \in new THEN t
        ELSE IF c \in AncestorsOf(S \cup new) THEN Smaller(phase[c], t)
        ELSE phase[c]]
=============================================================================
