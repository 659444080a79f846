------------------------------- MODULE Phases -------------------------------
(***************************************************************************)
(* src/mercurial/phases.py: a phase is kept as the set of its roots, and a *)
(* changeset is in the highest phase that has a root among its ancestors.  *)
(* Moving changesets means to compute new roots; what a transaction moved  *)
(* is noted in tr.changes, from which the hooks for phases are run.        *)
(*                                                                         *)
(* The phases here are 0..MaxPhase: public, draft, secret, and above these *)
(* the archived and internal ones (32 and 96 in the code).                 *)
(***************************************************************************)
EXTENDS PhaseMap

CONSTANTS
    MaxMoves,      \* bound: operations in a transaction
    Absent

Tracked == 1..MaxPhase
Secret == 2

\* Absent is no phase, and nothing that a strip sets aside.
ASSUME PhasesAssumption ==
    /\ MaxMoves \in Nat
    /\ Absent \notin Phase
    /\ Absent \notin [csets : SUBSET Changesets, target : {1, Secret},
                      heads : [{0, 1} -> SUBSET Changesets],
                      was : UNION {[B -> Phase] : B \in SUBSET Changesets}]

VARIABLES
    known,         \* the changesets of the repository
    phaseroots,    \* the roots of each phase but public, in memory
    disk,          \* .hg/store with the file phaseroots, as last committed
    changes,       \* tr.changes["phases"]: for some changesets, a move
    moves,         \* operations of the open transaction; 0: there is none
    bundle         \* what a strip has set aside, with its phases

phasevars == <<ancestors, known, phaseroots, disk, changes, moves, bundle>>

-----------------------------------------------------------------------------
(* Reading *)

PhaseOf(roots, c) ==
    Greatest({0} \cup {p \in Tracked : ancestors[c] \cap roots[p] # {}})

\* Mutant: the roots of changesets that are gone stay.
FilteredNot(roots, csets) == roots

\* filterunknown()
Filtered(roots, csets) == [p \in Tracked |-> roots[p] \cap csets]

\* _trackphasechange(): the old phase of the first move, the new one of the last.
Track(ch, moved, old, new) ==
    [c \in DOMAIN ch \cup DOMAIN moved |->
        IF c \notin DOMAIN moved THEN ch[c]
        ELSE [old |-> IF c \in DOMAIN ch THEN ch[c].old ELSE old[c], new |-> new[c]]]

-----------------------------------------------------------------------------
(* Moving *)

\* Mutant: the roots that were there are not looked at again.
RetractRootsKeepOld(csets, roots, t, S) ==
    LET new == {c \in S : PhaseOf(roots, c) < t}
    IN IF new = {} THEN roots
       ELSE [roots EXCEPT ![t] = roots[t] \cup RootsOf(csets \cap DescendantsOf(new))]

\* _retractboundary(): a root at or above the lowest new one may have become a
\* descendant of a root.
RetractRoots(csets, roots, t, S) ==
    LET new == {c \in S : PhaseOf(roots, c) < t}
        current == roots[t] \cup new
        above == {c \in current : c >= Least(new)}
    IN IF new = {} THEN roots
       ELSE [roots EXCEPT ![t] = (current \ above) \cup
                                     RootsOf(csets \cap DescendantsOf(above))]

\* advanceboundary(): in each higher phase, what is between its roots and the
\* changesets asked for leaves it.  The loop goes up through the phases; those it
\* has been through do not count for the changesets it still looks at.
AdvanceAffected(roots, p, S) == Between(roots[p], {c \in S : PhaseOf(roots, c) >= p})

\* Mutant: a root that leaves a phase is forgotten.
AdvanceRootsForget(csets, roots, t, S) ==
    [p \in Tracked |->
        IF p <= t THEN roots[p]
        ELSE RootsOf((csets \cap DescendantsOf(roots[p])) \ AdvanceAffected(roots, p, S))]

\* The roots that are no longer roots may be such of the target phase.
AdvanceRoots(csets, roots, t, S) ==
    LET left == [p \in Tracked |->
            IF p <= t THEN roots[p]
            ELSE RootsOf((csets \cap DescendantsOf(roots[p])) \ AdvanceAffected(roots, p, S))]
        dropped == UNION {roots[p] \ left[p] : p \in Tracked \ 1..t}
    IN IF t = 0 THEN left ELSE RetractRoots(csets, left, t, dropped)

\* What advanceboundary() tracks, ...
AdvanceChanges(ch, roots, t, S) ==
    LET moved == UNION {AdvanceAffected(roots, p, S) : p \in Tracked \ 1..t}
    IN Track(ch, [c \in moved |-> t], [c \in moved |-> PhaseOf(roots, c)],
             [c \in moved |-> t])

\* ... and retractboundary(): the changesets that came under the roots, with those
\* between an old root of a lower phase and one of them.
RetractChanges(csets, ch, roots, t, S) ==
    LET now == RetractRoots(csets, roots, t, S)
        affected == (csets \cap DescendantsOf(now[t])) \ DescendantsOf(roots[t])
        rest(p) == {a \in affected : \A q \in (p + 1)..t : a \notin DescendantsOf(roots[q])}
        between == [p \in 1..t |-> Between(roots[p], rest(p))]
        moved == affected \cup UNION {between[p] : p \in 1..t}
        old == [c \in moved |-> Greatest({0} \cup {p \in 1..t : c \in between[p]})]
    IN IF t = 0 \/ now = roots THEN ch
       ELSE Track(ch, old, old, [c \in moved |-> t])

\* Mutant: a new changeset is tracked with the lowest phase the roots give.
NewChangesDraft(ch, roots, new) ==
    LET phase == [c \in new |-> IF PhaseOf(roots, c) = 0 THEN 0 ELSE 1]
    IN Track(ch, phase, [c \in new |-> Absent], phase)

\* registernew(): what a new changeset is in, its parents considered.
NewChanges(ch, roots, new) ==
    LET phase == [c \in new |-> PhaseOf(roots, c)]
    IN Track(ch, phase, [c \in new |-> Absent], phase)

-----------------------------------------------------------------------------
(* Transactions *)

Antichain(S) == \A c, d \in S : c \in ancestors[d] => c = d

PhasesInit ==
    /\ IsDag
    /\ known \in {S \in SUBSET Changesets : IsClosed(S)}
    /\ phaseroots \in [Tracked -> {S \in SUBSET known : Antichain(S)}]
    /\ disk = [known |-> known, roots |-> phaseroots]
    /\ changes = <<>> /\ moves = 0 /\ bundle = Absent

Move == moves < MaxMoves /\ moves' = moves + 1 /\ bundle = Absent /\ UNCHANGED <<disk, bundle>>

\* A commit, or a pull: new changesets.
Register(t, new) ==
    /\ Move
    /\ new \cap known = {} /\ IsClosed(known \cup new)
    /\ known' = known \cup new
    /\ phaseroots' = RetractRoots(known', phaseroots, t, new)
    /\ changes' = NewChanges(changes, phaseroots', new)
    /\ UNCHANGED ancestors

\* A changegroup that was pushed here: those known already move with the new.
Receive(t, new, dup) ==
    /\ Move
    /\ t <= 1 /\ new \cap known = {} /\ IsClosed(known \cup new)
    /\ known' = known \cup new
    /\ LET roots == RetractRoots(known', phaseroots, t, new) IN
       /\ phaseroots' = AdvanceRoots(known', roots, t, new \cup dup)
       /\ changes' = AdvanceChanges(NewChanges(changes, roots, new), roots, t, new \cup dup)
    /\ UNCHANGED ancestors

Advance(t, S) ==
    /\ Move /\ UNCHANGED <<ancestors, known>>
    /\ phaseroots' = AdvanceRoots(known, phaseroots, t, S)
    /\ changes' = AdvanceChanges(changes, phaseroots, t, S)

Retract(t, S) ==
    /\ Move /\ UNCHANGED <<ancestors, known>>
    /\ phaseroots' = RetractRoots(known, phaseroots, t, S)
    /\ changes' = RetractChanges(known, changes, phaseroots, t, S)

\* The file is written at the close of the transaction; the bundle of a strip is
\* removed when it has been applied.
Commit ==
    /\ moves > 0
    /\ disk' = [known |-> known, roots |-> phaseroots]
    /\ moves' = 0 /\ changes' = <<>> /\ bundle' = Absent
    /\ UNCHANGED <<ancestors, known, phaseroots>>

\* The store is rolled back and the file read again.
Abort ==
    /\ moves > 0
    /\ known' = disk.known
    /\ phaseroots' = Filtered(disk.roots, disk.known)
    /\ moves' = 0 /\ changes' = <<>>
    /\ UNCHANGED <<ancestors, disk, bundle>>

-----------------------------------------------------------------------------
(* repair.strip(), which drops changesets it has to keep, with their roots, and *)
(* applies them again with phases from the bundle (Strip.tla)                   *)

\* Mutant: the bundle has no target phase.
SavedDraft(later) ==
    [csets |-> later, target |-> 1,
     heads |-> [p \in {0, 1} |-> HeadsOf({c \in later : PhaseOf(phaseroots, c) = p})],
     was |-> [c \in later |-> PhaseOf(phaseroots, c)]]

\* backupbundle(): a target phase, and the heads of the two lower phases.
Saved(later) ==
    [csets |-> later,
     target |-> IF \E c \in HeadsOf(later) : PhaseOf(phaseroots, c) = Secret
                  THEN Secret ELSE 1,
     heads |-> [p \in {0, 1} |-> HeadsOf({c \in later : PhaseOf(phaseroots, c) = p})],
     was |-> [c \in later |-> PhaseOf(phaseroots, c)]]

StripFrom(S) ==
    /\ moves = 0 /\ bundle = Absent /\ MaxMoves > 0
    /\ LET gone == known \cap DescendantsOf(S)
           later == {c \in known \ gone : c >= Least(gone)} IN
       /\ known' = known \ (gone \cup later)
       /\ phaseroots' = Filtered(phaseroots, known')
       /\ bundle' = IF later = {} THEN Absent ELSE Saved(later)
       /\ disk' = [known |-> known',
                   roots |-> IF later = {} THEN phaseroots' ELSE disk.roots]
    /\ UNCHANGED <<ancestors, changes, moves>>

\* registernew(), then updatephases() with the heads of the bundle.
Reapply ==
    /\ moves = 0 /\ bundle # Absent
    /\ known' = known \cup bundle.csets
    /\ LET r0 == RetractRoots(known', phaseroots, bundle.target, bundle.csets)
           pub == {c \in bundle.heads[0] : PhaseOf(r0, c) # 0}
           r1 == AdvanceRoots(known', r0, 0, pub)
           dra == {c \in bundle.heads[1] : PhaseOf(r1, c) # 1}
           new == NewChanges(changes, r0, bundle.csets) IN
       /\ phaseroots' = AdvanceRoots(known', r1, 1, dra)
       /\ changes' = AdvanceChanges(AdvanceChanges(new, r0, 0, pub), r1, 1, dra)
    /\ moves' = 1
    /\ UNCHANGED <<ancestors, disk, bundle>>

PhasesNext ==
    \/ \E t \in Phase, S \in (SUBSET known) \ {{}} : Advance(t, S) \/ Retract(t, S)
    \/ \E t \in Phase, new \in (SUBSET Changesets) \ {{}} : Register(t, new)
    \/ \E t \in {0, 1}, new, dup \in SUBSET Changesets :
          dup \subseteq known /\ Receive(t, new, dup)
    \/ Commit \/ Abort
    \/ \E S \in (SUBSET known) \ {{}} : StripFrom(S)
    \/ Reapply

PhasesSpec == PhasesInit /\ [][PhasesNext]_phasevars

-----------------------------------------------------------------------------
(* Properties *)

\* Type invariant.
Movements == [old : Phase \cup {Absent}, new : Phase]

PhasesTypeOK ==
    /\ IsOrder
    /\ known \subseteq Changesets /\ IsClosed(known)
    /\ phaseroots \in [Tracked -> SUBSET known]
    /\ disk.known \subseteq Changesets /\ IsClosed(disk.known)
    /\ disk.roots \in [Tracked -> SUBSET Changesets]
    /\ DOMAIN changes \subseteq known /\ \A c \in DOMAIN changes : changes[c] \in Movements
    /\ moves \in Nat
    /\ bundle # Absent => bundle.csets \subseteq Changesets

\* "Simplify boundary to contains phase roots only": no root of a phase is the
\* descendant of another, whatever was moved in whatever order.
RootsMinimal == \A p \in Tracked : Antichain(phaseroots[p])

\* The roots stand for a phase of each changeset, and those that an operation
\* computes for the phases that the user is told the operation gives (PhaseMap):
\* no other changeset is moved along, and none is left behind.
PhasesOf(csets, roots) == [c \in csets |-> PhaseOf(roots, c)]

MovesAsAsked ==
    LET now == PhasesOf(known, phaseroots) IN
    \A t \in Phase :
        /\ \A S \in SUBSET known :
              /\ PhasesOf(known, AdvanceRoots(known, phaseroots, t, S)) = Advanced(now, t, S)
              /\ PhasesOf(known, RetractRoots(known, phaseroots, t, S)) = Retracted(now, t, S)
        /\ \A new \in SUBSET (Changesets \ known) : IsClosed(known \cup new) =>
              LET all == known \cup new
                  roots == RetractRoots(all, phaseroots, t, new) IN
              /\ PhasesOf(all, roots) = Added(now, t, new)
              /\ t <= 1 => \A S \in SUBSET known :
                    PhasesOf(all, AdvanceRoots(all, roots, t, new \cup S)) = Received(now, t, new, S)

\* A changeset that a strip had to set aside comes back in the phase it had.
StripKeepsPhases ==
    bundle # Absent /\ moves > 0 =>
        \A c \in bundle.csets : PhaseOf(phaseroots, c) = bundle.was[c]

\* What the hooks are told of a changeset that was there before the transaction.
Old(c) == IF c \in disk.known THEN PhaseOf(disk.roots, c) ELSE Absent
Moved == {c \in known : Old(c) # PhaseOf(phaseroots, c)}
MoveOf(c) == [old |-> Old(c), new |-> PhaseOf(phaseroots, c)]

\* Every changeset that is new or changed its phase is in tr.changes, and it is
\* said to be new if it is, after any sequence of moves.
MovesAreTracked ==
    moves > 0 =>
        \A c \in Moved : /\ c \in DOMAIN changes
                        /\ (changes[c].old = Absent) = (c \notin disk.known)

\* tr.changes is what happened, in whatever order the moves came: no change is
\* missing from it, and pulls, pushes, commits and publishing, which raise no phase,
\* leave in it what happened to each changeset and no other.
Exact ==
    /\ Moved \subseteq DOMAIN changes
    /\ \A c \in DOMAIN changes : changes[c] = MoveOf(c)

Raises == \E c \in known \cap known' : PhaseOf(phaseroots, c) < PhaseOf(phaseroots, c)'

MovesAreRecorded ==
    [][/\ MovesAreTracked'
       /\ Exact /\ moves' > 0 /\ ~Raises => Exact']_phasevars

\* "The hook is called multiple times, once for each revision affected by a phase
\* change": for no other, and with the phases it had and has.
HooksToldTheTruth ==
    \A c \in DOMAIN changes : changes[c].old # changes[c].new => changes[c] = MoveOf(c)
=============================================================================
