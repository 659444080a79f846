------------------------------ MODULE Dirstate ------------------------------
(***************************************************************************)
(* The dirstate as a cache: hg status takes a file for clean, without      *)
(* reading it, if its mtime is the one that was noted when it was clean.   *)
(* Two writes may have the same mtime, so a time is only noted if it is    *)
(* past for sure.  Notes are taken by status itself, which reads files and *)
(* the dirstate without a lock and takes wlock only to write, and by       *)
(* update; other commands change the parent.  An editor writes whenever it *)
(* likes, and the contents all have the same size.                         *)
(*                                                                         *)
(* dirstate.py, context.py (workingctx), merge.py, dirstateutils/timestamp *)
(* .py and pure/parsers.py of src/mercurial.                               *)
(***************************************************************************)
EXTENDS Integers, FiniteSets

CONSTANTS
    Files,
    Contents,
    Statuses,           \* processes that run hg status
    PerSecond,          \* ticks of the clock in a second
    MaxTime,            \* bound: ticks
    EditsDuringUpdate,  \* does the editor write while update writes?
    None

ASSUME DirstateAssumption ==
    /\ PerSecond \in Nat \ {0} /\ MaxTime \in Nat
    /\ EditsDuringUpdate \in BOOLEAN

VARIABLES
    machine,    \* what the file system and the dirstate's format can store
    clock,
    content, mtime,
    parent,     \* the files of the working directory's first parent
    cache,      \* .hg/dirstate: for each file, None or the mtime noted
    status,     \* the processes that run status
    command     \* the command that holds wlock

vars == <<machine, clock, content, mtime, parent, cache, status, command>>

-----------------------------------------------------------------------------
(* Times *)

Timestamps == [s : Nat, ns : Nat, ambiguous : BOOLEAN]

\* mtime_of() a file that is written now; ns is 0 if the file system has none.
Now ==
    [s |-> clock \div PerSecond,
     ns |-> IF machine.fine THEN clock % PerSecond ELSE 0,
     ambiguous |-> FALSE]

\* Mutant: a time is reliable if it is not later than the boundary.
ReliableMtimeEqual(m, boundary) ==
    IF m.s = boundary.s
      THEN IF m.ns # 0 /\ boundary.ns # 0 /\ m.ns <= boundary.ns
             THEN [m EXCEPT !.ambiguous = TRUE] ELSE None
    ELSE IF m.s > boundary.s THEN None ELSE m

\* reliable_mtime_of(); no file is from the far future.
ReliableMtime(m, boundary) ==
    IF m.s = boundary.s
      THEN IF m.ns # 0 /\ boundary.ns # 0 /\ m.ns < boundary.ns
             THEN [m EXCEPT !.ambiguous = TRUE] ELSE None
    ELSE IF m.s > boundary.s THEN None ELSE m

\* mtime_likely_equal_to()
LikelyEqual(noted, m) ==
    /\ noted # None /\ noted.s = m.s
    /\ IF noted.ns = 0 \/ m.ns = 0 THEN ~noted.ambiguous ELSE noted.ns = m.ns

\* v1_mtime(), v2_data(): what is read back of what was written.
Stored(m) ==
    IF m = None \/ machine.v2 THEN m
    ELSE IF m.ambiguous THEN None ELSE [m EXCEPT !.ns = 0]

-----------------------------------------------------------------------------
Idle == [step |-> "idle"]

DirstateInit ==
    /\ machine \in [fine : BOOLEAN, v2 : BOOLEAN]
    /\ clock = 0
    /\ content \in [Files -> Contents] /\ mtime = [f \in Files |-> Now]
    /\ parent \in [Files -> Contents] /\ cache = [f \in Files |-> None]
    /\ status = [p \in Statuses |-> Idle] /\ command = Idle

Tick ==
    /\ clock < MaxTime /\ clock' = clock + 1
    /\ UNCHANGED <<machine, content, mtime, parent, cache, status, command>>

\* "We still assume that no other process raced that 'on disk' part."
Edit(f, v) ==
    /\ command.step # "writing" \/ EditsDuringUpdate
    /\ content' = [content EXCEPT ![f] = v] /\ mtime' = [mtime EXCEPT ![f] = Now]
    /\ UNCHANGED <<machine, clock, parent, cache, status, command>>

-----------------------------------------------------------------------------
(* hg status.  The identity of the dirstate's file is that of its last write,   *)
(* so "fresh" says whether it is still the one that was loaded.                 *)

Written(new) ==
    /\ cache' = new
    /\ status' = [p \in Statuses |->
                    IF status[p] = Idle THEN Idle ELSE [status[p] EXCEPT !.fresh = FALSE]]

\* What is left of a status to do: files to stat, to compare, to stat again; when
\* it was begun, and what it will note.
Load(p) ==
    /\ status[p] = Idle
    /\ status' = [status EXCEPT ![p] =
         [step |-> "loaded", fresh |-> TRUE, parent |-> parent, cache |-> cache,
          boundary |-> None, walk |-> Files, compare |-> {}, lstat |-> {}, fixup |-> <<>>]]
    /\ UNCHANGED <<machine, clock, content, mtime, parent, cache, command>>

\* get_fs_now(), by a file that is made for it.
Boundary(p) ==
    /\ status[p].step = "loaded"
    /\ status' = [status EXCEPT ![p] = [status[p] EXCEPT !.step = "walk", !.boundary = Now]]
    /\ UNCHANGED <<machine, clock, content, mtime, parent, cache, command>>

\* dirstate.status(): a file is clean, or it is to be read.
Walk(p, f) ==
    /\ status[p].step = "walk" /\ f \in status[p].walk
    /\ LET s == status[p]
           read == IF LikelyEqual(s.cache[f], mtime[f]) THEN {} ELSE {f}
       IN status' = [status EXCEPT ![p] =
            [s EXCEPT !.walk = s.walk \ {f}, !.compare = s.compare \cup read]]
    /\ UNCHANGED <<machine, clock, content, mtime, parent, cache, command>>

\* _checklookup(): modified, ...
Compare(p, f) ==
    /\ status[p].step = "walk" /\ status[p].walk = {} /\ f \in status[p].compare
    /\ LET s == status[p]
           clean == IF content[f] = s.parent[f] THEN {f} ELSE {}
       IN status' = [status EXCEPT ![p] =
            [s EXCEPT !.compare = s.compare \ {f}, !.lstat = s.lstat \cup clean]]
    /\ UNCHANGED <<machine, clock, content, mtime, parent, cache, command>>

\* Mutant: the time is noted, reliable or not.
WithFixupAlways(fixup, f, m) ==
    [g \in DOMAIN fixup \cup {f} |-> IF g = f THEN m ELSE fixup[g]]

\* ... or clean, and noted if its mtime is reliable.
WithFixup(fixup, f, m) ==
    IF m = None THEN fixup
    ELSE [g \in DOMAIN fixup \cup {f} |-> IF g = f THEN m ELSE fixup[g]]

Lstat(p, f) ==
    /\ status[p].step = "walk" /\ f \in status[p].lstat
    /\ LET s == status[p] IN
       status' = [status EXCEPT ![p] =
         [s EXCEPT !.lstat = s.lstat \ {f},
                   !.fixup = WithFixup(s.fixup, f, ReliableMtime(mtime[f], s.boundary))]]
    /\ UNCHANGED <<machine, clock, content, mtime, parent, cache, command>>

\* Mutant: the dirstate is not checked again after the lock was taken.
MayFixupStale(p) == status[p].fixup # <<>> /\ command = Idle

\* _poststatusfixup(): "we don't wait on the lock", "skip updating dirstate: identity
\* mismatch".
MayFixup(p) == status[p].fixup # <<>> /\ command = Idle /\ status[p].fresh

PostStatusFixup(p) ==
    /\ status[p].step = "walk"
    /\ status[p].walk \cup status[p].compare \cup status[p].lstat = {}
    /\ LET fixup == status[p].fixup
           ends == [status EXCEPT ![p] = Idle]
       IN IF MayFixup(p)
            THEN /\ cache' = [f \in Files |-> IF f \in DOMAIN fixup THEN Stored(fixup[f]) ELSE cache[f]]
                 /\ status' = [q \in Statuses |->
                                IF ends[q] = Idle THEN Idle ELSE [ends[q] EXCEPT !.fresh = FALSE]]
            ELSE status' = ends /\ UNCHANGED cache
    /\ UNCHANGED <<machine, clock, content, mtime, parent, command>>

-----------------------------------------------------------------------------
(* Commands that hold wlock *)

\* hg update --clean: the files that are not as in the target are written.
BeginUpdate(target) ==
    /\ command = Idle
    /\ command' = [step |-> "writing", target |-> target, data |-> <<>>,
                   left |-> {f \in Files : content[f] # target[f] \/ parent[f] # target[f]}]
    /\ UNCHANGED <<machine, clock, content, mtime, parent, cache, status>>

\* batchget(), with the mtime the file has then.
WriteFile(f) ==
    /\ command.step = "writing" /\ f \in command.left
    /\ content' = [content EXCEPT ![f] = command.target[f]]
    /\ mtime' = [mtime EXCEPT ![f] = Now]
    /\ LET data == command.data
       IN command' = [command EXCEPT
            !.left = command.left \ {f},
            !.data = [g \in DOMAIN data \cup {f} |-> IF g = f THEN Now ELSE data[g]]]
    /\ UNCHANGED <<machine, clock, parent, cache, status>>

\* "only keep the file data for files with mtime that are strictly in the past"
FilteredData(data) ==
    [f \in DOMAIN data |-> IF data[f].s >= Now.s THEN None ELSE data[f]]

FilterData ==
    /\ command.step = "writing" /\ command.left = {}
    /\ command' = [command EXCEPT !.step = "written", !.data = FilteredData(command.data)]
    /\ UNCHANGED <<machine, clock, content, mtime, parent, cache, status>>

\* recordupdates(), and the dirstate is written as wlock is released.
EndUpdate ==
    /\ command.step = "written"
    /\ parent' = command.target
    /\ Written([f \in Files |-> IF f \in DOMAIN command.data
                                  THEN Stored(command.data[f]) ELSE cache[f]])
    /\ command' = Idle
    /\ UNCHANGED <<machine, clock, content, mtime>>

\* hg commit: files that are not as in the parent are read, ...
BeginCommit ==
    /\ command = Idle
    /\ LET modified == {f \in Files : content[f] # parent[f]} IN
       /\ modified # {}
       /\ command' = [step |-> "committing", target |-> content, left |-> modified, data |-> <<>>]
    /\ UNCHANGED <<machine, clock, content, mtime, parent, cache, status>>

\* ... and nothing is noted of them (markcommitted()).
Committed(noted, f) == IF f \in command.left THEN None ELSE noted

EndCommit ==
    /\ command.step = "committing"
    /\ parent' = [f \in Files |-> IF f \in command.left THEN command.target[f] ELSE parent[f]]
    /\ Written([f \in Files |-> Committed(cache[f], f)])
    /\ command' = Idle
    /\ UNCHANGED <<machine, clock, content, mtime>>

\* hg strip --keep, hg uncommit: another parent, nothing is noted of the files that
\* are different there.
Keep(target) ==
    /\ command = Idle /\ target # parent
    /\ parent' = target
    /\ Written([f \in Files |-> IF parent[f] # target[f] THEN None ELSE cache[f]])
    /\ UNCHANGED <<machine, clock, content, mtime, command>>

\* A command that dies leaves the dirstate; its lock is broken by the next one
\* (RepoLock.tla).
Die ==
    /\ command # Idle /\ command' = Idle
    /\ UNCHANGED <<machine, clock, content, mtime, parent, cache, status>>

DirstateNext ==
    \/ Tick \/ FilterData \/ EndUpdate \/ BeginCommit \/ EndCommit \/ Die
    \/ \E f \in Files : WriteFile(f) \/ \E v \in Contents : Edit(f, v)
    \/ \E target \in [Files -> Contents] : BeginUpdate(target) \/ Keep(target)
    \/ \E p \in Statuses :
          \/ Load(p) \/ Boundary(p) \/ PostStatusFixup(p)
          \/ \E f \in Files : Walk(p, f) \/ Compare(p, f) \/ Lstat(p, f)

DirstateSpec == DirstateInit /\ [][DirstateNext]_vars

-----------------------------------------------------------------------------
(* Properties *)

\* Type invariant.
DirstateTypeOK ==
    /\ clock \in 0..MaxTime
    /\ content \in [Files -> Contents] /\ parent \in [Files -> Contents]
    /\ \A f \in Files :
          /\ mtime[f] \in Timestamps
          /\ cache[f] = None \/ cache[f] \in Timestamps
    /\ \A p \in Statuses : status[p] # Idle =>
          \A f \in DOMAIN status[p].fixup : status[p].fixup[f] \in Timestamps

\* The next status, at any time from here on, finds no file clean that is not as in
\* the parent, whatever was written in the same tick or second, and by whom.
CacheIsTrue ==
    \A f \in Files : LikelyEqual(cache[f], mtime[f]) => content[f] = parent[f]

\* A status that is under way, with a dirstate that others may have replaced, finds
\* no file clean that is not as in the parent it knows.
WalkIsTrue ==
    \A p \in Statuses : status[p] # Idle =>
        \A f \in status[p].walk :
            LikelyEqual(status[p].cache[f], mtime[f]) => content[f] = status[p].parent[f]

\* What a status is about to note is true, or it will not be written: a file that
\* has the noted mtime is as the status has seen it.
FixupIsTrue ==
    \A p \in Statuses : status[p] # Idle =>
        \A f \in DOMAIN status[p].fixup :
            LikelyEqual(Stored(status[p].fixup[f]), mtime[f]) => content[f] = status[p].parent[f]

\* Nothing that a status under way says or notes is wrong.
StatusIsTrue == WalkIsTrue /\ FixupIsTrue
=============================================================================
