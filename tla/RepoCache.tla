----------------------------- MODULE RepoCache -----------------------------
(***************************************************************************)
(* What a process keeps in memory of the files other processes write       *)
(* (scmutil.filecache and its users in localrepo.py: changelog, _bookmarks *)
(* and _phasecache).                                                       *)
(*                                                                         *)
(* A property is computed from its files the first time it is used, and    *)
(* kept in the __dict__ of the repository.  repo.invalidate(), which is    *)
(* what taking the lock does, empties __dict__ but keeps the objects in    *)
(* _filecache: an object is used again if stat() says that its files are   *)
(* those it was computed from.  Bookmarks and phase roots that name a      *)
(* changeset missing from the changelog in memory are dropped when they    *)
(* are read, so an outdated object can lose data for good once it is       *)
(* written back.                                                           *)
(*                                                                         *)
(* Readers take no lock, and a transaction replaces its files one by one.  *)
(* Abstracted: stat() sees each time a file is replaced (transactions move *)
(* the mtime of _cachedfiles when it would not), so an entry says which    *)
(* files were not replaced since it noted them.  A process has one         *)
(* bookmark and adds one changeset in a transaction; a crash is not a case *)
(* of its own here, as hg recover does what the roll back does.            *)
(***************************************************************************)
EXTENDS Integers, FiniteSets

CONSTANTS
    Procs,          \* processes
    Readers,        \* those that read without the lock, and go on when they
                    \* have given it back; the others end then
    NoProc,
    MaxCommits      \* bound: transactions

ASSUME RepoCacheAssumption == Readers \subseteq Procs /\ NoProc \notin Procs /\ MaxCommits \in Nat

Changesets == 1..MaxCommits
NoChangeset == 0

Files == {"phaseroots", "00changelog.i", "bookmarks"}

Properties == {"changelog", "_bookmarks", "_phasecache"}

\* What the decorators of the properties name.
Tracked ==
    [changelog |-> {"00changelog.i"},
     _bookmarks |-> {"bookmarks", "00changelog.i"},
     _phasecache |-> {"phaseroots", "00changelog.i"}]

\* The file each property holds the content of.
FileOf ==
    [changelog |-> "00changelog.i", _bookmarks |-> "bookmarks", _phasecache |-> "phaseroots"]

VARIABLES
    disk,           \* the content of the files: known changesets, roots
                    \* (changesets), and the changeset of each bookmark
    lock,           \* who holds the lock of the store
    tr,             \* who is in a transaction
    dict,           \* properties in the __dict__ of each process
    filecache,      \* _filecache: is there an entry of a property, with which
                    \* object, and files whose stat() is still the noted one
    pc,             \* what a process does
    using,          \* the property it computes
    read,           \* roots it has read and not filtered yet
    todo,           \* files the transaction has still to write, or restore
    next,           \* the next changeset
    saved,          \* the files when the transaction began, if there is one
    wanted          \* the files as the transactions that closed meant them

vars == <<disk, lock, tr, dict, filecache, pc, using, read, todo, next, saved, wanted>>
store == <<disk, lock, tr, todo, next, saved, wanted>>
memory == <<dict, filecache, pc, using, read>>

NoMarks == [p \in Procs |-> NoChangeset]
Empty == [f \in Files |-> IF f = "bookmarks" THEN NoMarks ELSE {}]

NoEntry(r) == [there |-> FALSE, obj |-> Empty[FileOf[r]], same |-> {}]

Init ==
    /\ disk = Empty /\ saved = Empty /\ wanted = Empty
    /\ lock = NoProc /\ tr = NoProc /\ todo = {} /\ next = 1
    /\ dict = [p \in Procs |-> {}]
    /\ filecache = [p \in Procs |-> [r \in Properties |-> NoEntry(r)]]
    /\ pc = [p \in Procs |-> "ready"]
    /\ using = [p \in Procs |-> "changelog"]
    /\ read = [p \in Procs |-> {}]

Goto(p, s) == pc' = [pc EXCEPT ![p] = s]

Object(p, r) == filecache[p][r].obj

WithObject(p, r, obj) == [filecache EXCEPT ![p][r].obj = obj]

(***************************************************************************)
(* filecache: what is in memory is used if the files did not change.       *)
(***************************************************************************)
Changed(p, r) == Tracked[r] \ filecache[p][r].same

\* A first entry has the stat of all the files, taken before the object is
\* computed; filecacheentry.changed() takes that of the first that changed.
Noted(p, r) ==
    IF ~filecache[p][r].there THEN Tracked[r]
    ELSE IF FileOf[r] \in Changed(p, r) THEN {FileOf[r]} ELSE Changed(p, r)

WithStat(p, r, F) == [filecache[p][r] EXCEPT !.there = TRUE, !.same = @ \cup F]

\* __get__: to be used as it is, ...
Reuse(p, r) ==
    /\ Changed(p, r) = {}
    /\ dict' = [dict EXCEPT ![p] = @ \cup {r}]
    /\ UNCHANGED filecache

\* ... or to be computed.
Outdated(p, r) ==
    /\ Changed(p, r) # {}
    /\ filecache' = [filecache EXCEPT ![p][r] = WithStat(p, r, Noted(p, r))]
    /\ UNCHANGED dict

\* The changelog, for itself or for what is computed from it.
AfterChangelog(p) ==
    CASE using[p] = "changelog" -> "ready"
      [] using[p] = "_bookmarks" -> "bookmarks"
      [] using[p] = "_phasecache" -> "filterunknown"

ReadChangelog(p) ==
    /\ pc[p] = "changelog"
    /\ filecache' = WithObject(p, "changelog", disk["00changelog.i"])
    /\ dict' = [dict EXCEPT ![p] = @ \cup {"changelog"}]
    /\ Goto(p, AfterChangelog(p))
    /\ UNCHANGED <<store, using, read>>

\* A property is used: repo.changelog, repo._bookmarks, repo._phasecache.
Use(p, r) ==
    /\ pc[p] = "ready" /\ r \notin dict[p] /\ (p \in Readers \/ lock = p)
    /\ using' = [using EXCEPT ![p] = r]
    /\ \/ Reuse(p, r) /\ UNCHANGED pc
       \/ Outdated(p, r) /\ Goto(p, CASE r = "changelog" -> "changelog"
                                      [] r = "_bookmarks" -> "refresh"
                                      [] r = "_phasecache" -> "readroots")
    /\ UNCHANGED <<store, read>>

\* The functions of the others use the changelog.
UseChangelog(p) ==
    /\ pc[p] = "usechangelog"
    /\ \/ "changelog" \in dict[p] /\ Goto(p, AfterChangelog(p)) /\ UNCHANGED <<dict, filecache>>
       \/ "changelog" \notin dict[p] /\ Reuse(p, "changelog") /\ Goto(p, AfterChangelog(p))
       \/ "changelog" \notin dict[p] /\ Outdated(p, "changelog") /\ Goto(p, "changelog")
    /\ UNCHANGED <<store, using, read>>

(***************************************************************************)
(* _bookmarks: _refreshchangelog(), then bmstore().                        *)
(***************************************************************************)
\* Mutant: the bookmarks are matched with the changelog that is there.
RefreshChangelogNot(p) ==
    /\ pc[p] = "refresh"
    /\ Goto(p, "usechangelog")
    /\ UNCHANGED <<store, dict, filecache, using, read>>

RefreshChangelog(p) ==
    /\ pc[p] = "refresh"
    /\ dict' = IF tr = p THEN dict ELSE [dict EXCEPT ![p] = @ \ {"changelog"}]
    /\ Goto(p, "usechangelog")
    /\ UNCHANGED <<store, filecache, using, read>>

\* Mutant: unknown changesets stay.
KnownMarksAll(marks, known) == marks

KnownMarks(marks, known) ==
    [p \in Procs |-> IF marks[p] \in known THEN marks[p] ELSE NoChangeset]

ReadBookmarks(p) ==
    /\ pc[p] = "bookmarks"
    /\ filecache' = WithObject(p, "_bookmarks",
                                KnownMarks(disk["bookmarks"], Object(p, "changelog")))
    /\ dict' = [dict EXCEPT ![p] = @ \cup {"_bookmarks"}]
    /\ Goto(p, "ready")
    /\ UNCHANGED <<store, using, read>>

(***************************************************************************)
(* _phasecache: _readroots(), then filterunknown().                        *)
(***************************************************************************)
ReadRoots(p) ==
    /\ pc[p] = "readroots"
    /\ read' = [read EXCEPT ![p] = disk["phaseroots"]]
    /\ Goto(p, "usechangelog")
    /\ UNCHANGED <<store, dict, filecache, using>>

FilterUnknown(p) ==
    /\ pc[p] = "filterunknown"
    /\ filecache' = WithObject(p, "_phasecache", read[p] \cap Object(p, "changelog"))
    /\ dict' = [dict EXCEPT ![p] = @ \cup {"_phasecache"}]
    /\ read' = [read EXCEPT ![p] = {}]
    /\ Goto(p, "ready")
    /\ UNCHANGED <<store, using>>

(***************************************************************************)
(* Locks and invalidation.                                                 *)
(***************************************************************************)
\* repo.invalidateall(), as the command server does before each command.
Invalidate(p) ==
    /\ p \in Readers /\ pc[p] = "ready" /\ lock # p /\ dict[p] # {}
    /\ dict' = [dict EXCEPT ![p] = {}]
    /\ UNCHANGED <<store, filecache, pc, using, read>>

\* repo.lock(): invalidate() is its acquirefn.
Lock(p) ==
    /\ pc[p] = "ready" /\ lock = NoProc
    /\ lock' = p
    /\ dict' = [dict EXCEPT ![p] = {}]
    /\ UNCHANGED <<disk, tr, todo, next, saved, wanted, filecache, pc, using, read>>

\* Mutant: what is in use stays in use.
ForgetEntries(p) ==
    /\ dict' = dict
    /\ filecache' = [filecache EXCEPT ![p] = [r \in Properties |-> NoEntry(r)]]

\* invalidate(clearfilecache=True), or the end of the process.
Forget(p) ==
    /\ dict' = [dict EXCEPT ![p] = {}]
    /\ filecache' = [filecache EXCEPT ![p] = [r \in Properties |-> NoEntry(r)]]

Unlock(p) ==
    /\ pc[p] = "ready" /\ lock = p /\ tr # p
    /\ lock' = NoProc
    /\ IF p \in Readers THEN UNCHANGED <<dict, filecache>> ELSE Forget(p)
    /\ UNCHANGED <<disk, tr, todo, next, saved, wanted, pc, using, read>>

(***************************************************************************)
(* A transaction that adds a changeset.                                    *)
(***************************************************************************)
\* repo.transaction(), which notes the length of the changelog.
Begin(p) ==
    /\ pc[p] = "ready" /\ lock = p /\ tr = NoProc
    /\ "changelog" \in dict[p] /\ next \in Changesets
    /\ tr' = p /\ saved' = disk
    /\ UNCHANGED <<disk, lock, todo, next, wanted, memory>>

\* Bookmarks, once that of the process has moved to the next changeset.
Marked(p, marks, mark) == IF mark THEN [marks EXCEPT ![p] = next] ELSE marks

\* The content of a file with the next changeset, which may be a root of its
\* phase and may take the bookmark of the process.
Added(p, f, content, root, mark) ==
    CASE f = "00changelog.i" -> content \cup {next}
      [] f = "phaseroots" -> IF root THEN content \cup {next} ELSE content
      [] f = "bookmarks" -> Marked(p, content, mark)

\* A changeset is added: all in memory, and what changed will be written.
Add(p, root, mark) ==
    /\ pc[p] = "ready" /\ tr = p
    /\ "_phasecache" \in dict[p] /\ (mark => "_bookmarks" \in dict[p])
    /\ filecache' =
        [filecache EXCEPT ![p] =
            [r \in Properties |->
                [filecache[p][r] EXCEPT !.obj = Added(p, FileOf[r], Object(p, r), root, mark)]]]
    /\ wanted' = [f \in Files |-> Added(p, f, wanted[f], root, mark)]
    /\ todo' = {"00changelog.i"} \cup (IF root THEN {"phaseroots"} ELSE {})
                                 \cup (IF mark THEN {"bookmarks"} ELSE {})
    /\ next' = next + 1
    /\ Goto(p, "close")
    /\ UNCHANGED <<disk, lock, tr, saved, dict, using, read>>

\* The phase roots are generated first, the changelog is finalized next and
\* the bookmarks are generated last.
Before(f) ==
    CASE f = "phaseroots" -> {}
      [] f = "00changelog.i" -> {"phaseroots"}
      [] f = "bookmarks" -> {"phaseroots", "00changelog.i"}

Replace(f, content) ==
    /\ disk' = [disk EXCEPT ![f] = content]
    /\ filecache' =
        [p \in Procs |-> [r \in Properties |-> [filecache[p][r] EXCEPT !.same = @ \ {f}]]]

Write(p, r) ==
    LET f == FileOf[r] IN
    /\ pc[p] = "close" /\ f \in todo /\ Before(f) \cap todo = {}
    /\ Replace(f, Object(p, r))
    /\ todo' = todo \ {f}
    /\ UNCHANGED <<lock, tr, next, saved, wanted, dict, pc, using, read>>

\* Mutant: objects that were not used since the lock was taken are noted
\* as valid too.
CurrentAll(p) == Properties

\* _refreshfilecachestats(): what is in use is what was written.
Current(p) == dict[p]

Refreshed(p) ==
    [r \in Properties |->
        IF r \in Current(p) THEN WithStat(p, r, Tracked[r]) ELSE filecache[p][r]]

Close(p) ==
    /\ pc[p] = "close" /\ todo = {}
    /\ filecache' = [filecache EXCEPT ![p] = Refreshed(p)]
    /\ tr' = NoProc /\ saved' = Empty
    /\ Goto(p, "ready")
    /\ UNCHANGED <<disk, lock, todo, next, wanted, dict, using, read>>

\* The transaction fails: the files that were written are put back, ...
Abort(p) ==
    /\ pc[p] = "close"
    /\ todo' = {f \in Files : disk[f] # saved[f]}
    /\ wanted' = saved
    /\ Goto(p, "abort")
    /\ UNCHANGED <<disk, lock, tr, next, saved, dict, filecache, using, read>>

Restore(p, f) ==
    /\ pc[p] = "abort" /\ f \in todo
    /\ Replace(f, saved[f])
    /\ todo' = todo \ {f}
    /\ UNCHANGED <<lock, tr, next, saved, wanted, dict, pc, using, read>>

\* ... and invalidate(clearfilecache=True) forgets everything.
Aborted(p) ==
    /\ pc[p] = "abort" /\ todo = {}
    /\ Forget(p)
    /\ tr' = NoProc /\ saved' = Empty
    /\ Goto(p, "ready")
    /\ UNCHANGED <<disk, lock, todo, next, wanted, using, read>>

Next ==
    \E p \in Procs :
        \/ \E r \in Properties : Use(p, r) \/ Write(p, r)
        \/ UseChangelog(p) \/ ReadChangelog(p)
        \/ RefreshChangelog(p) \/ ReadBookmarks(p) \/ ReadRoots(p) \/ FilterUnknown(p)
        \/ Invalidate(p) \/ Lock(p) \/ Unlock(p) \/ Begin(p)
        \/ \E root, mark \in BOOLEAN : Add(p, root, mark)
        \/ Close(p) \/ Abort(p) \/ Aborted(p)
        \/ \E f \in Files : Restore(p, f)

Spec == Init /\ [][Next]_vars

(***************************************************************************)
(* Properties.                                                             *)
(***************************************************************************)
Idle == lock = NoProc

\* Types, and: what a process has in use, it has an entry for, and whoever
\* is in a transaction has the lock and a changelog in use.
RepoCacheTypeOK ==
    /\ disk.phaseroots \subseteq Changesets /\ disk["00changelog.i"] \subseteq Changesets
    /\ disk.bookmarks \in [Procs -> Changesets \cup {NoChangeset}]
    /\ \A p \in Procs : \A r \in Properties :
        /\ r \in dict[p] => filecache[p][r].there
        /\ filecache[p][r].same \subseteq Tracked[r]
    /\ tr # NoProc => lock = tr /\ "changelog" \in dict[tr]
    /\ todo \subseteq Files /\ (todo # {} => tr # NoProc)

\* No transaction loses a bookmark or a changeset of another one, however
\* outdated what its process had read before it took the lock
\* (localrepo._bookmarks: "bookmarks to the 'unknown' nodes will be dropped
\* for good").
NothingOverwritten ==
    Idle => \A f \in {"00changelog.i", "bookmarks"} : disk[f] = wanted[f]

\* With or without a lock, a bookmark in use names a changeset of the
\* changelog in use, unless that changeset was rolled back meanwhile.
RolledBack == 1..next - 1 \ wanted["00changelog.i"]

MarksResolve ==
    \A p \in Procs :
        {"changelog", "_bookmarks"} \subseteq dict[p] /\ pc[p] = "ready" =>
            \A q \in Procs :
                Object(p, "_bookmarks")[q] \in
                    Object(p, "changelog") \cup RolledBack \cup {NoChangeset}

\* A changelog or a bookmarks object that stat() would let a process use again is
\* what it would compute now (that of the phases is not: RootsKept).
ValidIsTrue ==
    Idle => \A p \in Procs : \A r \in {"changelog", "_bookmarks"} :
        pc[p] = "ready" /\ Changed(p, r) = {} => Object(p, r) = disk[FileOf[r]]

\* The same for the phases: no transaction loses a root of another one
\* (phases.py:684, "nothing is lost as unknown nodes only hold data for their
\* descendants").
RootsKept == Idle => disk.phaseroots = wanted.phaseroots
=============================================================================
