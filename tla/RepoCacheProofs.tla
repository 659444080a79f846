--------------------------- MODULE RepoCacheProofs ---------------------------
(***************************************************************************)
(* Theorems about RepoCache.tla, for any number of processes, some of      *)
(* which read without the lock, and any number of transactions:            *)
(*   - TypeCorrect;                                                        *)
(*   - NothingLost: no transaction loses a changeset or a bookmark of      *)
(*     another one;                                                        *)
(*   - MarksAlwaysResolve: a bookmark in use names a changeset of the      *)
(*     changelog in use;                                                   *)
(*   - ValidIsCurrent: what stat() calls valid is what would be computed.  *)
(* Phase roots are lost (the run repocache_roots), so that nothing is said *)
(* of them here but their type.                                            *)
(***************************************************************************)
EXTENDS RepoCache, TLAPS

-----------------------------------------------------------------------------
(* The inductive invariant *)

Cl(files) == files["00changelog.i"]
Bm(files) == files["bookmarks"]

Marks == [Procs -> Changesets \cup {NoChangeset}]
Sets == SUBSET Changesets

\* What a file, or an object, may hold.
Contents == Sets \cup Marks

Stored == {files \in [Files -> Contents] :
              files["phaseroots"] \in Sets /\ Cl(files) \in Sets /\ Bm(files) \in Marks}

\* What a process does.
Labels == {"ready", "changelog", "usechangelog", "refresh", "bookmarks", "readroots",
           "filterunknown", "close", "abort"}

Entries == [there : BOOLEAN, obj : Contents, same : SUBSET Files]

Types ==
    /\ disk \in Stored /\ saved \in Stored /\ wanted \in Stored
    /\ dict \in [Procs -> SUBSET Properties]
    /\ filecache \in [Procs -> [Properties -> Entries]]
    /\ pc \in [Procs -> Labels] /\ using \in [Procs -> Properties]
    /\ read \in [Procs -> Sets]
    /\ \A p \in Procs : Object(p, "_phasecache") \in Sets
    /\ \A p \in Procs : \A r \in Properties :
          r \in dict[p] \/ filecache[p][r].same # {} => filecache[p][r].there
    /\ \A p \in Procs : \A r \in Properties : filecache[p][r].same \subseteq Tracked[r]
    /\ next \in Nat
    /\ \A c \in Cl(disk) \cup Cl(saved) \cup Cl(wanted) : c \in 1..next - 1

\* A process that writes or rolls back.
Ending(p) == pc[p] \in {"close", "abort"}

\* A process that computes _bookmarks.
Computing(p) ==
    using[p] = "_bookmarks" /\ pc[p] \in {"refresh", "usechangelog", "changelog", "bookmarks"}

\* Who is at what.
Steps ==
    /\ tr # NoProc => tr \in Procs /\ lock = tr /\ "changelog" \in dict[tr]
    /\ \A p \in Procs : Ending(p) => tr = p
    /\ tr # NoProc /\ ~Ending(tr) => next \in Changesets
    /\ todo \subseteq Files /\ (todo # {} => tr # NoProc /\ Ending(tr))

StepsOf(p) ==
    /\ pc[p] \in {"refresh", "bookmarks"} => using[p] = "_bookmarks"
    /\ pc[p] \in {"readroots", "filterunknown"} => using[p] = "_phasecache"
    /\ pc[p] = "changelog" => "changelog" \notin dict[p] /\ filecache[p]["changelog"].there
    /\ pc[p] \in {"refresh", "bookmarks", "readroots", "filterunknown", "usechangelog", "changelog"} =>
          filecache[p][using[p]].there
    /\ Computing(p) => "_bookmarks" \notin dict[p]
    /\ pc[p] = "bookmarks" => "changelog" \in dict[p]
    /\ pc[p] = "usechangelog" /\ Computing(p) /\ "changelog" \in dict[p] => tr = p

\* The marks m name changesets of S.
Resolved(m, S) == \A q \in Procs : m[q] \in S \cup {NoChangeset}

\* The files: as they were meant, or partly written, or partly put back; and bookmarks
\* name changesets of the changelog unless they are still to be put back.
Settled == tr = NoProc \/ ~Ending(tr)

Meant == Settled => Cl(disk) = Cl(wanted) /\ Bm(disk) = Bm(wanted)

Begun == tr # NoProc /\ ~Ending(tr) => Cl(disk) = Cl(saved) /\ Bm(disk) = Bm(saved)

Closing ==
    tr # NoProc /\ pc[tr] = "close" =>
        /\ "00changelog.i" \notin todo => Cl(disk) = Cl(wanted)
        /\ "bookmarks" \notin todo => Bm(disk) = Bm(wanted)
        /\ Cl(disk) \subseteq Cl(wanted)
        /\ Object(tr, "changelog") = Cl(wanted)
        /\ "_bookmarks" \in dict[tr] => Object(tr, "_bookmarks") = Bm(wanted)
        /\ "bookmarks" \in todo => "_bookmarks" \in dict[tr]
        /\ "00changelog.i" \notin todo =>
              /\ "00changelog.i" \notin filecache[tr]["changelog"].same
              /\ "00changelog.i" \notin filecache[tr]["_bookmarks"].same

Aborting ==
    tr # NoProc /\ pc[tr] = "abort" =>
        /\ Cl(wanted) = Cl(saved) /\ Bm(wanted) = Bm(saved)
        /\ "00changelog.i" \notin todo => Cl(disk) = Cl(saved)
        /\ "bookmarks" \notin todo => Bm(disk) = Bm(saved)

FilesResolve ==
    /\ tr # NoProc =>
        /\ Cl(saved) \subseteq Cl(disk) /\ Cl(saved) \subseteq Cl(wanted)
        /\ Resolved(Bm(saved), Cl(saved))
    /\ Resolved(Bm(wanted), Cl(wanted))
    /\ ~("bookmarks" \in todo /\ pc[tr] = "abort") => Resolved(Bm(disk), Cl(disk))

\* What a process has in use with the lock is what the files hold.
HeldBy(p) ==
    lock = p /\ ~Ending(p) =>
        /\ "changelog" \in dict[p] => Object(p, "changelog") = Cl(disk)
        /\ "_bookmarks" \in dict[p] => Object(p, "_bookmarks") = Bm(disk)

\* What stat() calls valid is what would be computed; and bookmarks that are valid, or
\* are about to be, go with the changelog that is in use.
ValidFor(p) ==
    ~Ending(p) =>
        /\ pc[p] # "changelog" /\ Changed(p, "changelog") = {} =>
              Object(p, "changelog") = Cl(disk)
        /\ ~Computing(p) /\ Changed(p, "_bookmarks") = {} =>
              Object(p, "_bookmarks") = KnownMarks(Bm(disk), Cl(disk))
        /\ /\ \/ pc[p] = "bookmarks"
              \/ "changelog" \in dict[p] /\ "_bookmarks" \notin dict[p] /\ ~Computing(p)
           /\ "00changelog.i" \in filecache[p]["_bookmarks"].same
           => Object(p, "changelog") = Cl(disk)

\* Bookmarks in use name changesets of the changelog in use, or of the one that would be
\* read.
NamedFor(p) ==
    "_bookmarks" \in dict[p] =>
        IF "changelog" \in dict[p]
          THEN Resolved(Object(p, "_bookmarks"), Object(p, "changelog") \cup RolledBack)
          ELSE Resolved(Object(p, "_bookmarks"), Cl(disk) \cup RolledBack)

OnDisk == Meant /\ Begun /\ Closing /\ Aborting /\ FilesResolve

InMemory(p) == StepsOf(p) /\ HeldBy(p) /\ ValidFor(p) /\ NamedFor(p)

IInv == Types /\ Steps /\ OnDisk /\ \A p \in Procs : InMemory(p)

-----------------------------------------------------------------------------
(* Files and objects *)

\* What the constants of the file cache are, property by property.
LEMMA Names ==
    /\ FileOf["changelog"] = "00changelog.i" /\ FileOf["_bookmarks"] = "bookmarks"
    /\ FileOf["_phasecache"] = "phaseroots"
    /\ Tracked["changelog"] = {"00changelog.i"}
    /\ Tracked["_bookmarks"] = {"bookmarks", "00changelog.i"}
    /\ Tracked["_phasecache"] = {"phaseroots", "00changelog.i"}
    /\ \A r \in Properties : Tracked[r] \subseteq Files /\ FileOf[r] \in Files
BY DEF FileOf, Tracked, Properties, Files

\* The parts of a state of the files.
LEMMA StoredIs ==
    ASSUME NEW d \in Stored
    PROVE  /\ d \in [Files -> Contents]
           /\ d["phaseroots"] \in Sets /\ Cl(d) \in Sets /\ Bm(d) \in Marks
BY DEF Stored

\* bmstore() keeps bookmarks of known changesets, and drops the others.
LEMMA KnownMarksResolve ==
    ASSUME NEW m, NEW S
    PROVE  /\ KnownMarks(m, S) \in [Procs -> S \cup {NoChangeset}]
           /\ Resolved(KnownMarks(m, S), S)
           /\ m \in Marks /\ Resolved(m, S) => KnownMarks(m, S) = m
           /\ m \in Marks => KnownMarks(m, S) \in Marks
BY DEF KnownMarks, Resolved, Marks

\* Setting the object of a property changes nothing else.
LEMMA WithObjectIs ==
    ASSUME Types, NEW p \in Procs, NEW r \in Properties, NEW obj \in Contents
    PROVE  /\ WithObject(p, r, obj) \in [Procs -> [Properties -> Entries]]
           /\ WithObject(p, r, obj)[p][r].obj = obj
           /\ WithObject(p, r, obj)[p][r].same = filecache[p][r].same
           /\ WithObject(p, r, obj)[p][r].there = filecache[p][r].there
           /\ \A q \in Procs : \A s \in Properties : q # p \/ s # r =>
                 WithObject(p, r, obj)[q][s] = filecache[q][s]
<1> DEFINE entry == [filecache[p][r] EXCEPT !.obj = obj]
<1>1. filecache \in [Procs -> [Properties -> Entries]] /\ filecache[p][r] \in Entries
  BY DEF Types
<1>2. /\ entry \in Entries /\ entry.obj = obj
      /\ entry.same = filecache[p][r].same /\ entry.there = filecache[p][r].there
  BY <1>1 DEF Entries
<1>3. WithObject(p, r, obj) = [filecache EXCEPT ![p] = [filecache[p] EXCEPT ![r] = entry]]
  BY DEF WithObject
<1> HIDE DEF entry
<1> QED
  BY <1>1, <1>2, <1>3

\* Noting the stat of files changes nothing else.
LEMMA WithStatIs ==
    ASSUME Types, NEW p \in Procs, NEW r \in Properties, NEW F \in SUBSET Files
    PROVE  /\ WithStat(p, r, F) \in Entries
           /\ WithStat(p, r, F).obj = filecache[p][r].obj
           /\ WithStat(p, r, F).same = filecache[p][r].same \cup F
           /\ WithStat(p, r, F).there
<1>1. filecache[p][r] \in Entries
  BY DEF Types
<1> QED
  BY <1>1 DEF WithStat, Entries

\* A property that is computed again has an entry; its object is still the old one.
LEMMA OutdatedIs ==
    ASSUME Types, NEW p \in Procs, NEW r \in Properties, Outdated(p, r)
    PROVE  /\ filecache' \in [Procs -> [Properties -> Entries]]
           /\ filecache'[p][r].obj = filecache[p][r].obj
           /\ filecache'[p][r].same \subseteq Tracked[r]
           /\ filecache'[p][r].there
           /\ \A q \in Procs : \A s \in Properties : q # p \/ s # r =>
                 filecache'[q][s] = filecache[q][s]
           /\ dict' = dict
<1>1. Noted(p, r) \subseteq Tracked[r] /\ Noted(p, r) \in SUBSET Files
  BY Names DEF Noted, Changed
<1> DEFINE entry == WithStat(p, r, Noted(p, r))
<1>2. entry \in Entries /\ entry.obj = filecache[p][r].obj /\ entry.there
      /\ entry.same = filecache[p][r].same \cup Noted(p, r)
  BY <1>1, WithStatIs
<1>3. entry.same \subseteq Tracked[r]
  BY <1>1, <1>2 DEF Types
<1>4. filecache' = [filecache EXCEPT ![p][r] = entry] /\ dict' = dict
  BY DEF Outdated
<1>5. filecache \in [Procs -> [Properties -> Entries]]
  BY DEF Types
<1> HIDE DEF entry
<1> QED
  BY <1>2, <1>3, <1>4, <1>5

-----------------------------------------------------------------------------
(* Steps in the memory of one process *)

\* A step of p that writes no file and takes no lock leaves the other processes alone.
Elsewhere(p) ==
    \A q \in Procs : q # p =>
        /\ dict'[q] = dict[q] /\ filecache'[q] = filecache[q]
        /\ pc'[q] = pc[q] /\ using'[q] = using[q]

LocalTypes(p) ==
    /\ dict' \in [Procs -> SUBSET Properties]
    /\ filecache' \in [Procs -> [Properties -> Entries]]
    /\ pc' \in [Procs -> Labels] /\ using' \in [Procs -> Properties]
    /\ read' \in [Procs -> Sets]
    /\ filecache'[p]["_phasecache"].obj \in Sets
    /\ \A r \in Properties :
          r \in dict'[p] \/ filecache'[p][r].same # {} => filecache'[p][r].there
    /\ \A r \in Properties : filecache'[p][r].same \subseteq Tracked[r]

\* A step in the memory of p preserves the invariant if it does for p.
LEMMA LocalStep ==
    ASSUME IInv, NEW p \in Procs, UNCHANGED store, Elsewhere(p), LocalTypes(p),
           ~Ending(p), pc'[p] \notin {"close", "abort"},
           tr = p => "changelog" \in dict'[p],
           StepsOf(p)', HeldBy(p)', ValidFor(p)', NamedFor(p)'
    PROVE  IInv'
<1>1. UNCHANGED <<disk, lock, tr, todo, next, saved, wanted>>
  BY DEF store
<1>2. Types'
  <2>1. /\ disk' \in Stored /\ saved' \in Stored /\ wanted' \in Stored /\ next' \in Nat
        /\ \A c \in Cl(disk') \cup Cl(saved') \cup Cl(wanted') : c \in 1..next' - 1
    BY <1>1 DEF IInv, Types
  <2>2. ASSUME NEW q \in Procs
        PROVE  /\ filecache'[q]["_phasecache"].obj \in Sets
               /\ \A r \in Properties :
                     r \in dict'[q] \/ filecache'[q][r].same # {} => filecache'[q][r].there
               /\ \A r \in Properties : filecache'[q][r].same \subseteq Tracked[r]
    <3>1. CASE q = p
      BY <3>1 DEF LocalTypes
    <3>2. CASE q # p
      BY <3>2 DEF Elsewhere, IInv, Types, Object
    <3> QED
      BY <3>1, <3>2
  <2> QED
    BY <2>1, <2>2 DEF LocalTypes, Types, Object, Cl
<1>3. Steps'
  BY <1>1 DEF IInv, Steps, Ending, Elsewhere
<1>4. OnDisk'
  <2>1. Meant' /\ Begun'
    BY <1>1 DEF IInv, OnDisk, Meant, Begun, Settled, Ending, Elsewhere, Steps, Cl, Bm
  <2>2. CASE tr = p
    <3>1. pc[tr] \notin {"close", "abort"} /\ pc'[tr'] \notin {"close", "abort"}
      BY <1>1, <2>2 DEF Ending
    <3>2. Closing' /\ Aborting'
      BY <3>1 DEF Closing, Aborting
    <3>3. FilesResolve'
      BY <1>1, <3>1 DEF IInv, OnDisk, FilesResolve, Resolved, Cl, Bm
    <3> QED
      BY <2>1, <3>2, <3>3 DEF OnDisk
  <2>3. CASE tr # p
    <3>1. tr # NoProc => /\ tr \in Procs /\ pc'[tr] = pc[tr] /\ dict'[tr] = dict[tr]
                         /\ filecache'[tr] = filecache[tr]
      BY <2>3 DEF IInv, Steps, Elsewhere
    <3>2. Closing'
      BY <1>1, <3>1 DEF IInv, OnDisk, Closing, Cl, Bm, Object
    <3>3. Aborting'
      BY <1>1, <3>1 DEF IInv, OnDisk, Aborting, Cl, Bm
    <3>4. FilesResolve'
      BY <1>1, <3>1 DEF IInv, Steps, OnDisk, FilesResolve, Resolved, Cl, Bm
    <3> QED
      BY <2>1, <3>2, <3>3, <3>4 DEF OnDisk
  <2> QED
    BY <2>2, <2>3
<1>5. ASSUME NEW q \in Procs, q # p
      PROVE  InMemory(q)'
  <2>1. /\ dict'[q] = dict[q] /\ filecache'[q] = filecache[q]
        /\ pc'[q] = pc[q] /\ using'[q] = using[q]
    BY <1>5 DEF Elsewhere
  <2>2. StepsOf(q)' /\ HeldBy(q)'
    BY <1>1, <2>1 DEF IInv, InMemory, StepsOf, HeldBy, Computing, Ending, Object, Cl, Bm
  <2>3. ValidFor(q)'
    BY <1>1, <2>1 DEF IInv, InMemory, ValidFor, Computing, Ending, Object, Changed, Cl, Bm
  <2>4. NamedFor(q)'
    BY <1>1, <2>1 DEF IInv, InMemory, NamedFor, Resolved, RolledBack, Object, Cl
  <2> QED
    BY <2>2, <2>3, <2>4 DEF InMemory
<1>6. \A q \in Procs : InMemory(q)'
  BY <1>5 DEF InMemory
<1> QED
  BY <1>2, <1>3, <1>4, <1>6 DEF IInv

\* The files that a process reads while it does not write itself.
LEMMA FilesOf ==
    ASSUME IInv
    PROVE  /\ disk["00changelog.i"] \in Sets /\ disk["bookmarks"] \in Marks
           /\ disk["phaseroots"] \in Sets
           /\ \A p \in Procs : lock = p /\ ~Ending(p) => KnownMarks(Bm(disk), Cl(disk)) = Bm(disk)
<1>1. disk \in Stored
  BY DEF IInv, Types
<1>2. ASSUME NEW p \in Procs, lock = p, ~Ending(p)
      PROVE  KnownMarks(Bm(disk), Cl(disk)) = Bm(disk)
  <2>1. todo = {}
    BY <1>2 DEF IInv, Steps
  <2>2. Resolved(Bm(disk), Cl(disk))
    BY <2>1 DEF IInv, OnDisk, FilesResolve
  <2> QED
    BY <1>1, <2>2, StoredIs, KnownMarksResolve
<1> QED
  BY <1>1, <1>2, StoredIs DEF Cl, Bm

\* What is used again is what the files hold, and what bookmarks were matched with.
LEMMA Reused ==
    ASSUME IInv, NEW p \in Procs, ~Ending(p)
    PROVE  /\ pc[p] # "changelog" /\ Changed(p, "changelog") = {} =>
                 Object(p, "changelog") = Cl(disk)
           /\ ~Computing(p) /\ Changed(p, "_bookmarks") = {} =>
                 /\ Object(p, "_bookmarks") = KnownMarks(Bm(disk), Cl(disk))
                 /\ Resolved(Object(p, "_bookmarks"), Cl(disk))
                 /\ lock = p => Object(p, "_bookmarks") = Bm(disk)
                 /\ "changelog" \in dict[p] /\ "_bookmarks" \notin dict[p] =>
                       Object(p, "changelog") = Cl(disk)
<1>1. InMemory(p)
  BY DEF IInv
<1>2. Changed(p, "_bookmarks") = {} => "00changelog.i" \in filecache[p]["_bookmarks"].same
  BY Names DEF Changed
<1> QED
  BY <1>1, <1>2, KnownMarksResolve, FilesOf DEF InMemory, ValidFor

\* Who is in a transaction has the lock, and a changelog in use.
LEMMA InTransaction ==
    ASSUME IInv, NEW p \in Procs
    PROVE  /\ tr = p => lock = p /\ "changelog" \in dict[p]
           /\ p # NoProc
BY RepoCacheAssumption DEF IInv, Steps

\* repo.changelog, repo._bookmarks, repo._phasecache.
LEMMA UseInv ==
    ASSUME IInv, NEW p \in Procs, NEW r \in Properties, Use(p, r)
    PROVE  IInv'
<1>1. /\ pc[p] = "ready" /\ r \notin dict[p] /\ UNCHANGED store /\ read' = read
      /\ using' = [using EXCEPT ![p] = r]
      /\ ~Ending(p) /\ ~Computing(p)
  BY DEF Use, Ending, Computing
<1>2. Types /\ InMemory(p)
  BY DEF IInv
<1>3. using'[p] = r /\ \A q \in Procs : q # p => using'[q] = using[q]
  BY <1>1, <1>2 DEF Types
<1>4. UNCHANGED <<disk, lock, tr, next, wanted>>
  BY <1>1 DEF store
<1>5. tr = p => "changelog" \in dict[p]
  BY InTransaction
<1>6. CASE Reuse(p, r) /\ UNCHANGED pc
  <2>1. /\ dict'[p] = dict[p] \cup {r} /\ \A q \in Procs : q # p => dict'[q] = dict[q]
        /\ Changed(p, r) = {} /\ filecache' = filecache /\ pc' = pc
        /\ dict' \in [Procs -> SUBSET Properties]
    BY <1>2, <1>6 DEF Reuse, Types
  <2>2. filecache[p][r].there
    BY <1>2, <2>1, Names DEF Types, Changed, Properties
  <2>3. LocalTypes(p) /\ Elsewhere(p)
    BY <1>1, <1>2, <1>3, <2>1, <2>2 DEF LocalTypes, Elsewhere, Types, Object
  <2>4. StepsOf(p)'
    BY <1>1, <2>1 DEF StepsOf, Computing
  <2>5. HeldBy(p)'
    BY <1>1, <1>2, <1>4, <2>1, Reused DEF InMemory, HeldBy, Object, Cl, Bm, Ending
  <2>6. ValidFor(p)'
    BY <1>1, <1>2, <1>4, <2>1, Reused DEF InMemory, ValidFor, Object, Changed, Cl, Bm, Ending, Computing
  <2>7. NamedFor(p)'
    BY <1>1, <1>2, <1>4, <2>1, Reused DEF InMemory, NamedFor, Object, Resolved, RolledBack, Cl
  <2>8. pc'[p] \notin {"close", "abort"}
    BY <1>1, <2>1
  <2>9. tr = p => "changelog" \in dict'[p]
    BY <1>5, <2>1
  <2> QED
    BY <1>1, <2>3, <2>4, <2>5, <2>6, <2>7, <2>8, <2>9, LocalStep
<1>7. CASE /\ Outdated(p, r)
           /\ Goto(p, CASE r = "changelog" -> "changelog"
                        [] r = "_bookmarks" -> "refresh"
                        [] r = "_phasecache" -> "readroots")
  <2>1. /\ filecache' \in [Procs -> [Properties -> Entries]]
        /\ filecache'[p][r].obj = filecache[p][r].obj
        /\ filecache'[p][r].same \subseteq Tracked[r]
        /\ filecache'[p][r].there
        /\ \A q \in Procs : \A s \in Properties : q # p \/ s # r =>
              filecache'[q][s] = filecache[q][s]
        /\ dict' = dict
    BY <1>2, <1>7, OutdatedIs
  <2>2. /\ pc' \in [Procs -> Labels] /\ \A q \in Procs : q # p => pc'[q] = pc[q]
        /\ r = "changelog" => pc'[p] = "changelog"
        /\ r = "_bookmarks" => pc'[p] = "refresh"
        /\ r = "_phasecache" => pc'[p] = "readroots"
    <3> DEFINE label == CASE r = "changelog" -> "changelog"
                          [] r = "_bookmarks" -> "refresh"
                          [] r = "_phasecache" -> "readroots"
    <3>1. pc' = [pc EXCEPT ![p] = label] /\ pc \in [Procs -> Labels]
      BY <1>2, <1>7 DEF Goto, Types
    <3>2. /\ r = "changelog" => label = "changelog"
          /\ r = "_bookmarks" => label = "refresh"
          /\ r = "_phasecache" => label = "readroots"
          /\ r = "changelog" \/ r = "_bookmarks" \/ r = "_phasecache"
      BY DEF Properties
    <3> HIDE DEF label
    <3>3. label \in Labels
      BY <3>2 DEF Labels
    <3> QED
      BY <3>1, <3>2, <3>3
  <2>3. \A q \in Procs : q # p => filecache'[q] = filecache[q]
    BY <1>2, <2>1 DEF Types
  <2>4. Elsewhere(p)
    BY <1>3, <2>1, <2>2, <2>3 DEF Elsewhere
  <2>5. LocalTypes(p)
    <3>1. /\ dict' \in [Procs -> SUBSET Properties] /\ filecache' \in [Procs -> [Properties -> Entries]]
          /\ pc' \in [Procs -> Labels] /\ using' \in [Procs -> Properties] /\ read' \in [Procs -> Sets]
      BY <1>1, <1>2, <2>1, <2>2 DEF Types
    <3>2. filecache'[p]["_phasecache"].obj = filecache[p]["_phasecache"].obj
      BY <2>1 DEF Properties
    <3>3. ASSUME NEW s \in Properties
          PROVE  /\ s \in dict'[p] \/ filecache'[p][s].same # {} => filecache'[p][s].there
                 /\ filecache'[p][s].same \subseteq Tracked[s]
      BY <1>2, <2>1 DEF Types
    <3> QED
      BY <1>2, <3>1, <3>2, <3>3 DEF LocalTypes, Types, Object
  <2>6. r \in {"changelog", "_bookmarks", "_phasecache"}
    BY DEF Properties
  <2>7. StepsOf(p)' /\ Computing(p)' = (r = "_bookmarks")
    BY <1>1, <1>2, <1>3, <2>1, <2>2, <2>6 DEF StepsOf, InMemory, Computing
  <2>8. /\ Object(p, "changelog")' = Object(p, "changelog")
        /\ Object(p, "_bookmarks")' = Object(p, "_bookmarks")
        /\ r # "changelog" => Changed(p, "changelog")' = Changed(p, "changelog")
        /\ r # "_bookmarks" => Changed(p, "_bookmarks")' = Changed(p, "_bookmarks")
        /\ r # "_bookmarks" => filecache'[p]["_bookmarks"] = filecache[p]["_bookmarks"]
    BY <2>1, Names DEF Object, Changed, Properties
  <2>9. HeldBy(p)' /\ NamedFor(p)'
    BY <1>1, <1>2, <1>4, <2>1, <2>8 DEF InMemory, HeldBy, NamedFor, Resolved, RolledBack, Cl, Bm, Ending
  <2>10. ValidFor(p)'
    BY <1>1, <1>2, <1>4, <2>1, <2>2, <2>6, <2>7, <2>8 DEF InMemory, ValidFor, Cl, Bm, Ending
  <2>11. pc'[p] \notin {"close", "abort"}
    BY <2>2, <2>6
  <2>12. tr = p => "changelog" \in dict'[p]
    BY <1>5, <2>1
  <2> QED
    BY <1>1, <2>4, <2>5, <2>7, <2>9, <2>10, <2>11, <2>12, LocalStep
<1> QED
  BY <1>6, <1>7 DEF Use

\* The property r has the object obj and is in use; nothing else changed.
NowHas(p, r, obj) ==
    /\ using'[p] = using[p] /\ dict'[p] = dict[p] \cup {r}
    /\ filecache'[p][r].obj = obj
    /\ \A t \in Properties :
          /\ filecache'[p][t].same = filecache[p][t].same
          /\ filecache'[p][t].there = filecache[p][t].there
    /\ \A t \in Properties : t # r => filecache'[p][t] = filecache[p][t]

\* An object is computed for a property, which is then in use.
LEMMA Computed ==
    ASSUME Types, NEW p \in Procs, NEW r \in Properties, NEW obj \in Contents,
           r = "_phasecache" => obj \in Sets,
           r \in dict[p] \/ filecache[p][r].there,
           filecache' = WithObject(p, r, obj),
           dict' = [dict EXCEPT ![p] = dict[p] \cup {r}],
           using' = using, read' \in [Procs -> Sets],
           NEW s \in Labels, Goto(p, s)
    PROVE  LocalTypes(p) /\ Elsewhere(p) /\ NowHas(p, r, obj) /\ pc'[p] = s
<1>1. /\ filecache' \in [Procs -> [Properties -> Entries]]
      /\ filecache'[p][r].obj = obj
      /\ filecache'[p][r].same = filecache[p][r].same
      /\ filecache'[p][r].there = filecache[p][r].there
      /\ \A q \in Procs : \A t \in Properties : q # p \/ t # r =>
            filecache'[q][t] = filecache[q][t]
  BY WithObjectIs
<1>2. /\ pc \in [Procs -> Labels] /\ dict \in [Procs -> SUBSET Properties]
      /\ using \in [Procs -> Properties] /\ filecache \in [Procs -> [Properties -> Entries]]
  BY DEF Types
<1>3. /\ pc' \in [Procs -> Labels] /\ pc'[p] = s
      /\ dict' \in [Procs -> SUBSET Properties] /\ dict'[p] = dict[p] \cup {r}
      /\ \A q \in Procs : q # p => pc'[q] = pc[q] /\ dict'[q] = dict[q]
  BY <1>2 DEF Goto
<1>4. \A q \in Procs : q # p => filecache'[q] = filecache[q]
  BY <1>1, <1>2
<1>5. Elsewhere(p)
  BY <1>3, <1>4 DEF Elsewhere
<1>6. filecache'[p]["_phasecache"].obj \in Sets
  <2>1. CASE r = "_phasecache"
    BY <1>1, <2>1
  <2>2. CASE r # "_phasecache"
    BY <1>1, <2>2 DEF Types, Object, Properties
  <2> QED
    BY <2>1, <2>2
<1>7. ASSUME NEW t \in Properties
      PROVE  /\ t \in dict'[p] \/ filecache'[p][t].same # {} => filecache'[p][t].there
             /\ filecache'[p][t].same \subseteq Tracked[t]
             /\ filecache'[p][t].same = filecache[p][t].same
             /\ filecache'[p][t].there = filecache[p][t].there
  <2>1. CASE t = r
    BY <1>1, <1>3, <2>1 DEF Types
  <2>2. CASE t # r
    BY <1>1, <1>3, <2>2 DEF Types
  <2> QED
    BY <2>1, <2>2
<1>8. LocalTypes(p)
  BY <1>1, <1>2, <1>3, <1>6, <1>7 DEF LocalTypes
<1> QED
  BY <1>1, <1>3, <1>5, <1>7, <1>8 DEF NowHas

\* The changelog is there: what follows depends on what it is used for.
LEMMA AfterChangelogIs ==
    ASSUME Types, NEW p \in Procs
    PROVE  /\ AfterChangelog(p) \in {"ready", "bookmarks", "filterunknown"}
           /\ AfterChangelog(p) \in Labels
           /\ AfterChangelog(p) = "bookmarks" <=> using[p] = "_bookmarks"
           /\ AfterChangelog(p) = "filterunknown" <=> using[p] = "_phasecache"
<1>1. using[p] = "changelog" \/ using[p] = "_bookmarks" \/ using[p] = "_phasecache"
  BY DEF Types, Properties
<1> QED
  BY <1>1 DEF AfterChangelog, Labels

\* The changelog is read.
LEMMA ReadChangelogInv ==
    ASSUME IInv, NEW p \in Procs, ReadChangelog(p)
    PROVE  IInv'
<1>1. Types /\ InMemory(p)
  BY DEF IInv
<1>2. /\ pc[p] = "changelog" /\ filecache' = WithObject(p, "changelog", Cl(disk))
      /\ dict' = [dict EXCEPT ![p] = dict[p] \cup {"changelog"}]
      /\ Goto(p, AfterChangelog(p)) /\ UNCHANGED store /\ using' = using /\ read' = read
      /\ ~Ending(p)
  BY DEF ReadChangelog, Cl, Ending
<1>3. /\ "changelog" \in Properties /\ Cl(disk) \in Contents /\ read' \in [Procs -> Sets]
      /\ "changelog" # "_phasecache" /\ AfterChangelog(p) \in Labels
  BY <1>1, <1>2, FilesOf, AfterChangelogIs DEF Properties, Contents, Cl, Types
<1>4. filecache[p]["changelog"].there
  BY <1>1, <1>2 DEF InMemory, StepsOf
<1>5. /\ LocalTypes(p) /\ Elsewhere(p) /\ NowHas(p, "changelog", Cl(disk))
      /\ pc'[p] = AfterChangelog(p)
  <2>1. PICK obj, s : obj = Cl(disk) /\ s = AfterChangelog(p)
    OBVIOUS
  <2>2. /\ obj \in Contents /\ s \in Labels
        /\ "changelog" = "_phasecache" => obj \in Sets
        /\ "changelog" \in dict[p] \/ filecache[p]["changelog"].there
    BY <1>3, <1>4, <2>1
  <2>3. filecache' = WithObject(p, "changelog", obj) /\ Goto(p, s)
    BY <1>2, <2>1
  <2>4. LocalTypes(p) /\ Elsewhere(p) /\ NowHas(p, "changelog", obj) /\ pc'[p] = s
    BY <1>1, <1>2, <1>3, <2>2, <2>3, Computed
  <2> QED
    BY <2>1, <2>4
<1>6. /\ Object(p, "changelog")' = Cl(disk) /\ Object(p, "_bookmarks")' = Object(p, "_bookmarks")
      /\ Changed(p, "_bookmarks")' = Changed(p, "_bookmarks")
      /\ filecache'[p]["_bookmarks"] = filecache[p]["_bookmarks"]
  BY <1>5 DEF NowHas, Object, Changed, Properties
<1>7. UNCHANGED <<disk, lock, tr, next, wanted>>
  BY <1>2 DEF store
<1>8. Computing(p)' = Computing(p)
  BY <1>1, <1>2, <1>5, AfterChangelogIs DEF NowHas, Computing
<1>9. StepsOf(p)'
  <2>1. using[p] \in Properties
    BY <1>1 DEF Types
  <2> QED
    BY <1>1, <1>2, <1>5, <1>8, <2>1, AfterChangelogIs DEF NowHas, StepsOf, InMemory
<1>10. HeldBy(p)'
  BY <1>1, <1>2, <1>5, <1>6, <1>7 DEF NowHas, HeldBy, InMemory, Cl, Bm
<1>11. ValidFor(p)'
  BY <1>1, <1>2, <1>5, <1>6, <1>7, <1>8 DEF NowHas, ValidFor, InMemory, Cl, Bm
<1>12. NamedFor(p)'
  BY <1>1, <1>2, <1>5, <1>6, <1>7 DEF NowHas, NamedFor, InMemory, StepsOf, Resolved, RolledBack, Cl
<1>13. pc'[p] \notin {"close", "abort"}
  BY <1>1, <1>5, AfterChangelogIs
<1>14. tr = p => "changelog" \in dict'[p]
  BY <1>5 DEF NowHas
<1> QED
  BY <1>2, <1>5, <1>9, <1>10, <1>11, <1>12, <1>13, <1>14, LocalStep

\* Only what is in use and what p does next changes.
LEMMA Moved ==
    ASSUME Types, NEW p \in Procs, NEW s \in Labels, Goto(p, s), NEW R \in SUBSET Properties,
           dict' = [dict EXCEPT ![p] = R],
           \A r \in R : r \in dict[p] \/ filecache[p][r].there,
           using' = using, filecache' = filecache, read' \in [Procs -> Sets]
    PROVE  LocalTypes(p) /\ Elsewhere(p) /\ pc'[p] = s /\ dict'[p] = R /\ using'[p] = using[p]
<1>1. /\ pc \in [Procs -> Labels] /\ dict \in [Procs -> SUBSET Properties]
      /\ using \in [Procs -> Properties] /\ filecache \in [Procs -> [Properties -> Entries]]
  BY DEF Types
<1>2. /\ pc' \in [Procs -> Labels] /\ pc'[p] = s
      /\ dict' \in [Procs -> SUBSET Properties] /\ dict'[p] = R
      /\ \A q \in Procs : q # p => pc'[q] = pc[q] /\ dict'[q] = dict[q]
  BY <1>1 DEF Goto
<1>3. ASSUME NEW t \in Properties
      PROVE  /\ t \in dict'[p] \/ filecache'[p][t].same # {} => filecache'[p][t].there
             /\ filecache'[p][t].same \subseteq Tracked[t]
  BY <1>2 DEF Types
<1>4. LocalTypes(p)
  BY <1>1, <1>2, <1>3 DEF LocalTypes, Types, Object
<1> QED
  BY <1>2, <1>4 DEF Elsewhere

\* Whether a property is computed again.
LEMMA ReuseIs ==
    ASSUME Types, NEW p \in Procs, Reuse(p, "changelog")
    PROVE  /\ Changed(p, "changelog") = {} /\ filecache' = filecache
           /\ dict' = [dict EXCEPT ![p] = dict[p] \cup {"changelog"}]
           /\ filecache[p]["changelog"].there
BY Names DEF Reuse, Types, Changed, Properties

\* The changelog is used to compute bookmarks or phases.
LEMMA UseChangelogInv ==
    ASSUME IInv, NEW p \in Procs, UseChangelog(p)
    PROVE  IInv'
<1>1. /\ pc[p] = "usechangelog" /\ UNCHANGED store /\ using' = using /\ read' = read
      /\ ~Ending(p)
  BY DEF UseChangelog, Ending
<1>2. Types /\ InMemory(p)
  BY DEF IInv
<1>3. UNCHANGED <<disk, lock, tr, next, wanted>>
  BY <1>1 DEF store
<1>4. tr = p => lock = p /\ "changelog" \in dict[p]
  BY InTransaction
<1>5. /\ read' \in [Procs -> Sets] /\ using[p] \in Properties /\ dict[p] \in SUBSET Properties
      /\ "changelog" \in Properties
  BY <1>1, <1>2 DEF Types, Properties
<1>6. CASE /\ "changelog" \in dict[p] \/ Reuse(p, "changelog")
           /\ Goto(p, AfterChangelog(p))
           /\ dict' = [dict EXCEPT ![p] = dict[p] \cup {"changelog"}] /\ filecache' = filecache
  <2>1. LocalTypes(p) /\ Elsewhere(p) /\ pc'[p] = AfterChangelog(p)
        /\ dict'[p] = dict[p] \cup {"changelog"} /\ using'[p] = using[p]
    <3>1. PICK s, R : s = AfterChangelog(p) /\ R = dict[p] \cup {"changelog"}
      OBVIOUS
    <3>2. s \in Labels /\ R \in SUBSET Properties /\ Goto(p, s) /\ dict' = [dict EXCEPT ![p] = R]
      BY <1>2, <1>5, <1>6, <3>1, AfterChangelogIs
    <3>3. \A r \in R : r \in dict[p] \/ filecache[p][r].there
      BY <1>2, <1>6, <3>1, ReuseIs
    <3>4. LocalTypes(p) /\ Elsewhere(p) /\ pc'[p] = s /\ dict'[p] = R /\ using'[p] = using[p]
      BY <1>1, <1>2, <1>5, <1>6, <3>2, <3>3, Moved
    <3> QED
      BY <3>1, <3>4
  <2>2. "changelog" \in dict[p] \/ Changed(p, "changelog") = {}
    BY <1>2, <1>6, ReuseIs
  <2>3. Computing(p)' = Computing(p)
    BY <1>1, <1>2, <1>5, <2>1, AfterChangelogIs DEF Computing, Properties
  <2>4. "changelog" \notin dict[p] \/ (Computing(p) /\ lock = p) => Object(p, "changelog") = Cl(disk)
    BY <1>1, <1>2, <1>3, <2>2, Reused DEF InMemory, HeldBy
  <2>5. Computing(p) => lock = p \/ "changelog" \notin dict[p]
    BY <1>1, <1>2, <1>4 DEF InMemory, StepsOf
  <2>6. StepsOf(p)'
    BY <1>1, <1>2, <1>5, <1>6, <2>1, <2>3, AfterChangelogIs DEF InMemory, StepsOf
  <2>7. HeldBy(p)'
    BY <1>1, <1>2, <1>3, <1>6, <2>1, <2>4 DEF InMemory, HeldBy, Object, Cl, Bm
  <2>8. ValidFor(p)'
    <3>1. pc'[p] = "bookmarks" => Computing(p)
      BY <1>1, <1>2, <2>1, AfterChangelogIs DEF Computing
    <3>2. /\ Object(p, "changelog")' = Object(p, "changelog") /\ Cl(disk)' = Cl(disk)
          /\ Object(p, "_bookmarks")' = Object(p, "_bookmarks") /\ Bm(disk)' = Bm(disk)
          /\ Changed(p, "changelog")' = Changed(p, "changelog")
          /\ Changed(p, "_bookmarks")' = Changed(p, "_bookmarks")
      BY <1>3, <1>6 DEF Object, Changed, Cl, Bm
    <3>3. ValidFor(p)
      BY <1>2 DEF InMemory
    <3>4. Changed(p, "changelog") = {} => Object(p, "changelog") = Cl(disk)
      BY <1>1, <3>3 DEF ValidFor
    <3>5. ~Computing(p)' /\ Changed(p, "_bookmarks") = {} =>
              Object(p, "_bookmarks") = KnownMarks(Bm(disk), Cl(disk))
      BY <1>1, <2>3, <3>3 DEF ValidFor
    <3>6. "changelog" \notin dict[p] \/ Computing(p) => Object(p, "changelog") = Cl(disk)
      BY <2>4, <2>5
    <3>7. ASSUME "_bookmarks" \notin dict'[p], ~Computing(p)', "changelog" \in dict[p],
                 "00changelog.i" \in filecache[p]["_bookmarks"].same
          PROVE  Object(p, "changelog") = Cl(disk)
      BY <1>1, <2>1, <2>3, <3>3, <3>7 DEF ValidFor
    <3> QED
      BY <1>6, <3>1, <3>2, <3>4, <3>5, <3>6, <3>7 DEF ValidFor
  <2>9. NamedFor(p)'
    <3>1. CASE "changelog" \in dict[p]
      BY <1>2, <1>3, <1>6, <2>1, <3>1 DEF InMemory, NamedFor, Resolved, RolledBack, Object, Cl
    <3>2. CASE "changelog" \notin dict[p]
      <4>1. Object(p, "changelog")' = Cl(disk) /\ Object(p, "_bookmarks")' = Object(p, "_bookmarks")
        BY <1>6, <2>4, <3>2 DEF Object
      <4>2. "_bookmarks" \in dict'[p] =>
               Resolved(Object(p, "_bookmarks"), Cl(disk) \cup RolledBack)
        BY <1>2, <2>1, <3>2 DEF InMemory, NamedFor
      <4> QED
        BY <1>3, <2>1, <4>1, <4>2 DEF NamedFor, Resolved, RolledBack
    <3> QED
      BY <3>1, <3>2
  <2>10. pc'[p] \notin {"close", "abort"} /\ "changelog" \in dict'[p]
    BY <1>2, <2>1, AfterChangelogIs
  <2> QED
    BY <1>1, <2>1, <2>6, <2>7, <2>8, <2>9, <2>10, LocalStep
<1>7. CASE "changelog" \notin dict[p] /\ Outdated(p, "changelog") /\ Goto(p, "changelog")
  <2>1. /\ filecache' \in [Procs -> [Properties -> Entries]]
        /\ filecache'[p]["changelog"].obj = filecache[p]["changelog"].obj
        /\ filecache'[p]["changelog"].same \subseteq Tracked["changelog"]
        /\ filecache'[p]["changelog"].there
        /\ \A q \in Procs : \A s \in Properties : q # p \/ s # "changelog" =>
              filecache'[q][s] = filecache[q][s]
        /\ dict' = dict
    BY <1>2, <1>5, <1>7, OutdatedIs
  <2>2. /\ pc' \in [Procs -> Labels] /\ \A q \in Procs : q # p => pc'[q] = pc[q]
        /\ pc'[p] = "changelog"
    BY <1>2, <1>7 DEF Goto, Types, Labels
  <2>3. \A q \in Procs : q # p => filecache'[q] = filecache[q]
    BY <1>2, <2>1 DEF Types
  <2>4. Elsewhere(p)
    BY <1>1, <2>1, <2>2, <2>3 DEF Elsewhere
  <2>5. LocalTypes(p)
    <3>1. filecache'[p]["_phasecache"].obj = filecache[p]["_phasecache"].obj
      BY <2>1 DEF Properties
    <3>2. ASSUME NEW s \in Properties
          PROVE  /\ s \in dict'[p] \/ filecache'[p][s].same # {} => filecache'[p][s].there
                 /\ filecache'[p][s].same \subseteq Tracked[s]
      BY <1>2, <2>1 DEF Types
    <3> QED
      BY <1>1, <1>2, <1>5, <2>1, <2>2, <3>1, <3>2 DEF LocalTypes, Types, Object
  <2>6. /\ Object(p, "changelog")' = Object(p, "changelog")
        /\ Object(p, "_bookmarks")' = Object(p, "_bookmarks")
        /\ Changed(p, "_bookmarks")' = Changed(p, "_bookmarks")
        /\ filecache'[p]["_bookmarks"] = filecache[p]["_bookmarks"]
    BY <2>1 DEF Object, Changed, Properties
  <2>7. StepsOf(p)' /\ Computing(p)' = Computing(p)
    BY <1>1, <1>2, <1>5, <1>7, <2>1, <2>2 DEF StepsOf, InMemory, Computing
  <2>8. HeldBy(p)' /\ NamedFor(p)'
    BY <1>1, <1>2, <1>3, <2>1, <2>6 DEF InMemory, HeldBy, NamedFor, Resolved, RolledBack, Cl, Bm, Ending
  <2>9. ValidFor(p)'
    BY <1>1, <1>2, <1>3, <1>7, <2>1, <2>2, <2>6, <2>7 DEF InMemory, ValidFor, Cl, Bm, Ending
  <2>10. pc'[p] \notin {"close", "abort"}
    BY <2>2
  <2>11. tr = p => "changelog" \in dict'[p]
    BY <1>4, <2>1
  <2> QED
    BY <1>1, <2>4, <2>5, <2>7, <2>8, <2>9, <2>10, <2>11, LocalStep
<1>8. /\ dict \in [Procs -> SUBSET Properties]
      /\ "changelog" \in dict[p] /\ dict' = dict =>
            dict' = [dict EXCEPT ![p] = dict[p] \cup {"changelog"}]
  BY <1>2 DEF Types
<1> QED
  BY <1>2, <1>6, <1>7, <1>8, ReuseIs DEF UseChangelog

\* _refreshchangelog(), before the bookmarks are read.
LEMMA RefreshChangelogInv ==
    ASSUME IInv, NEW p \in Procs, RefreshChangelog(p)
    PROVE  IInv'
<1>1. /\ pc[p] = "refresh" /\ UNCHANGED store /\ using' = using /\ read' = read
      /\ filecache' = filecache /\ Goto(p, "usechangelog") /\ ~Ending(p)
  BY DEF RefreshChangelog, Ending
<1>2. Types /\ InMemory(p)
  BY DEF IInv
<1>3. UNCHANGED <<disk, lock, tr, next, wanted>>
  BY <1>1 DEF store
<1>4. PICK R \in SUBSET Properties :
         /\ dict' = [dict EXCEPT ![p] = R] /\ R \subseteq dict[p]
         /\ tr = p => "changelog" \in R
         /\ "changelog" \in R => tr = p
         /\ "_bookmarks" \in R => "_bookmarks" \in dict[p]
  <2>1. dict \in [Procs -> SUBSET Properties] /\ (tr = p => "changelog" \in dict[p])
    BY <1>2, InTransaction DEF Types
  <2>2. CASE tr = p
    <3>1. dict' = [dict EXCEPT ![p] = dict[p]]
      BY <2>1, <2>2 DEF RefreshChangelog
    <3> QED
      BY <2>1, <2>2, <3>1
  <2>3. CASE tr # p
    <3>1. dict' = [dict EXCEPT ![p] = dict[p] \ {"changelog"}]
      BY <2>3 DEF RefreshChangelog
    <3>2. dict[p] \ {"changelog"} \in SUBSET Properties
      BY <2>1
    <3> QED
      BY <2>3, <3>1, <3>2
  <2> QED
    BY <2>2, <2>3
<1>5. /\ \A r \in R : r \in dict[p] \/ filecache[p][r].there
      /\ read' \in [Procs -> Sets] /\ "usechangelog" \in Labels
  BY <1>1, <1>2, <1>4 DEF Types, Labels
<1>6. LocalTypes(p) /\ Elsewhere(p) /\ pc'[p] = "usechangelog" /\ dict'[p] = R /\ using'[p] = using[p]
  BY <1>1, <1>2, <1>4, <1>5, Moved
<1>7. /\ using[p] = "_bookmarks" /\ Computing(p) /\ Computing(p)' /\ "_bookmarks" \notin R
      /\ filecache[p][using[p]].there
  BY <1>1, <1>2, <1>4, <1>6 DEF InMemory, StepsOf, Computing
<1>8. StepsOf(p)'
  BY <1>1, <1>3, <1>4, <1>6, <1>7 DEF StepsOf
<1>9. HeldBy(p)' /\ NamedFor(p)'
  BY <1>1, <1>2, <1>3, <1>4, <1>6, <1>7 DEF InMemory, HeldBy, NamedFor, Object, Cl, Bm
<1>10. ValidFor(p)'
  BY <1>1, <1>2, <1>3, <1>6, <1>7 DEF InMemory, ValidFor, Object, Changed, Cl, Bm
<1>11. pc'[p] \notin {"close", "abort"} /\ (tr = p => "changelog" \in dict'[p])
  BY <1>4, <1>6
<1> QED
  BY <1>1, <1>6, <1>8, <1>9, <1>10, <1>11, LocalStep

\* The bookmarks are read: the changelog they are matched with goes with them.
LEMMA ReadBookmarksInv ==
    ASSUME IInv, NEW p \in Procs, ReadBookmarks(p)
    PROVE  IInv'
<1>1. /\ pc[p] = "bookmarks"
      /\ filecache' = WithObject(p, "_bookmarks", KnownMarks(Bm(disk), Object(p, "changelog")))
      /\ dict' = [dict EXCEPT ![p] = dict[p] \cup {"_bookmarks"}]
      /\ Goto(p, "ready") /\ UNCHANGED store /\ using' = using /\ read' = read
      /\ ~Ending(p)
  BY DEF ReadBookmarks, Bm, Ending
<1>2. Types /\ InMemory(p)
  BY DEF IInv
<1>3. UNCHANGED <<disk, lock, tr, next, wanted>>
  BY <1>1 DEF store
<1>4. PICK obj : obj = KnownMarks(Bm(disk), Object(p, "changelog"))
  OBVIOUS
<1>5. /\ "_bookmarks" \in Properties /\ read' \in [Procs -> Sets] /\ "ready" \in Labels
      /\ "_bookmarks" # "_phasecache" /\ obj \in Contents
      /\ filecache' = WithObject(p, "_bookmarks", obj)
  BY <1>1, <1>2, <1>4, FilesOf, KnownMarksResolve DEF Properties, Contents, Labels, Bm, Types
<1>6. /\ using[p] = "_bookmarks" /\ Computing(p) /\ filecache[p]["_bookmarks"].there
      /\ "changelog" \in dict[p]
  BY <1>1, <1>2 DEF InMemory, StepsOf, Computing
<1>7. LocalTypes(p) /\ Elsewhere(p) /\ NowHas(p, "_bookmarks", obj) /\ pc'[p] = "ready"
  BY <1>1, <1>2, <1>5, <1>6, Computed
<1>8. /\ Object(p, "changelog")' = Object(p, "changelog") /\ Object(p, "_bookmarks")' = obj
      /\ Changed(p, "changelog")' = Changed(p, "changelog")
      /\ Changed(p, "_bookmarks")' = Changed(p, "_bookmarks")
      /\ "changelog" \in dict'[p] /\ "_bookmarks" \in dict'[p]
  BY <1>6, <1>7 DEF NowHas, Object, Changed, Properties
<1>9. StepsOf(p)'
  BY <1>7 DEF StepsOf, Computing
<1>10. HeldBy(p)'
  BY <1>1, <1>2, <1>3, <1>4, <1>6, <1>8, FilesOf DEF InMemory, HeldBy, Cl, Bm
<1>11. Changed(p, "_bookmarks") = {} => obj = KnownMarks(Bm(disk), Cl(disk))
  <2>1. Changed(p, "_bookmarks") = {} => "00changelog.i" \in filecache[p]["_bookmarks"].same
    BY Names DEF Changed
  <2> QED
    BY <1>1, <1>2, <1>4, <2>1 DEF InMemory, ValidFor
<1>12. ValidFor(p)'
  BY <1>1, <1>2, <1>3, <1>7, <1>8, <1>11 DEF InMemory, ValidFor, Cl, Bm
<1>13. NamedFor(p)'
  <2>1. Resolved(obj, Object(p, "changelog"))
    BY <1>4, KnownMarksResolve
  <2> QED
    BY <1>8, <2>1 DEF NamedFor, Resolved
<1>14. pc'[p] \notin {"close", "abort"}
  BY <1>7
<1> QED
  BY <1>1, <1>7, <1>8, <1>9, <1>10, <1>12, <1>13, <1>14, LocalStep

\* The phase roots are read.
LEMMA ReadRootsInv ==
    ASSUME IInv, NEW p \in Procs, ReadRoots(p)
    PROVE  IInv'
<1>1. /\ pc[p] = "readroots" /\ UNCHANGED store /\ using' = using /\ dict' = dict
      /\ filecache' = filecache /\ Goto(p, "usechangelog") /\ ~Ending(p)
      /\ read' = [read EXCEPT ![p] = disk["phaseroots"]]
  BY DEF ReadRoots, Ending
<1>2. Types /\ InMemory(p)
  BY DEF IInv
<1>3. UNCHANGED <<disk, lock, tr, next, wanted>>
  BY <1>1 DEF store
<1>4. PICK R : R = dict[p]
  OBVIOUS
<1>5. /\ R \in SUBSET Properties /\ dict' = [dict EXCEPT ![p] = R]
      /\ \A r \in R : r \in dict[p] \/ filecache[p][r].there
  BY <1>1, <1>2, <1>4 DEF Types
<1>6. read' \in [Procs -> Sets] /\ "usechangelog" \in Labels
  BY <1>1, <1>2, FilesOf DEF Types, Labels
<1>7. LocalTypes(p) /\ Elsewhere(p) /\ pc'[p] = "usechangelog" /\ using'[p] = using[p]
  BY <1>1, <1>2, <1>5, <1>6, Moved
<1>8. using[p] = "_phasecache" /\ filecache[p][using[p]].there /\ ~Computing(p) /\ ~Computing(p)'
  BY <1>1, <1>2, <1>7 DEF InMemory, StepsOf, Computing
<1>9. StepsOf(p)'
  BY <1>1, <1>7, <1>8 DEF StepsOf
<1>10. HeldBy(p)' /\ NamedFor(p)'
  BY <1>1, <1>2, <1>3 DEF InMemory, HeldBy, NamedFor, Resolved, RolledBack, Object, Cl, Bm
<1>11. ValidFor(p)'
  BY <1>1, <1>2, <1>3, <1>7, <1>8 DEF InMemory, ValidFor, Object, Changed, Cl, Bm
<1>12. pc'[p] \notin {"close", "abort"} /\ (tr = p => "changelog" \in dict'[p])
  BY <1>1, <1>7, InTransaction
<1> QED
  BY <1>1, <1>7, <1>9, <1>10, <1>11, <1>12, LocalStep

\* Roots that the changelog does not know are dropped.
LEMMA FilterUnknownInv ==
    ASSUME IInv, NEW p \in Procs, FilterUnknown(p)
    PROVE  IInv'
<1>1. /\ pc[p] = "filterunknown"
      /\ filecache' = WithObject(p, "_phasecache", read[p] \cap Object(p, "changelog"))
      /\ dict' = [dict EXCEPT ![p] = dict[p] \cup {"_phasecache"}]
      /\ read' = [read EXCEPT ![p] = {}]
      /\ Goto(p, "ready") /\ UNCHANGED store /\ using' = using
      /\ ~Ending(p)
  BY DEF FilterUnknown, Ending
<1>2. Types /\ InMemory(p)
  BY DEF IInv
<1>3. UNCHANGED <<disk, lock, tr, next, wanted>>
  BY <1>1 DEF store
<1>4. PICK obj : obj = read[p] \cap Object(p, "changelog")
  OBVIOUS
<1>5. /\ obj \in Sets /\ obj \in Contents /\ filecache' = WithObject(p, "_phasecache", obj)
      /\ read' \in [Procs -> Sets]
  BY <1>1, <1>2, <1>4 DEF Contents, Sets, Types
<1>6. "_phasecache" \in Properties /\ "ready" \in Labels
  BY DEF Properties, Labels
<1>7. using[p] = "_phasecache" /\ ~Computing(p) /\ filecache[p]["_phasecache"].there
  BY <1>1, <1>2 DEF InMemory, StepsOf, Computing
<1>8. LocalTypes(p) /\ Elsewhere(p) /\ NowHas(p, "_phasecache", obj) /\ pc'[p] = "ready"
  BY <1>1, <1>2, <1>5, <1>6, <1>7, Computed
<1>9. /\ Object(p, "changelog")' = Object(p, "changelog")
      /\ Object(p, "_bookmarks")' = Object(p, "_bookmarks")
      /\ Changed(p, "changelog")' = Changed(p, "changelog")
      /\ Changed(p, "_bookmarks")' = Changed(p, "_bookmarks")
      /\ filecache'[p]["_bookmarks"] = filecache[p]["_bookmarks"]
      /\ "changelog" \in dict'[p] <=> "changelog" \in dict[p]
      /\ "_bookmarks" \in dict'[p] <=> "_bookmarks" \in dict[p]
  BY <1>8 DEF NowHas, Object, Changed, Properties
<1>10. StepsOf(p)' /\ ~Computing(p)'
  BY <1>8 DEF StepsOf, Computing
<1>11. HeldBy(p)' /\ NamedFor(p)'
  BY <1>1, <1>2, <1>3, <1>9 DEF InMemory, HeldBy, NamedFor, Resolved, RolledBack, Cl, Bm
<1>12. ValidFor(p)'
  BY <1>1, <1>2, <1>3, <1>7, <1>8, <1>9, <1>10 DEF InMemory, ValidFor, Cl, Bm
<1>13. pc'[p] \notin {"close", "abort"} /\ (tr = p => "changelog" \in dict'[p])
  BY <1>8, <1>9, InTransaction
<1> QED
  BY <1>1, <1>8, <1>10, <1>11, <1>12, <1>13, LocalStep

\* repo.invalidateall().
LEMMA InvalidateInv ==
    ASSUME IInv, NEW p \in Procs, Invalidate(p)
    PROVE  IInv'
<1>1. /\ pc[p] = "ready" /\ UNCHANGED store /\ using' = using /\ pc' = pc /\ read' = read
      /\ filecache' = filecache /\ dict' = [dict EXCEPT ![p] = {}] /\ ~Ending(p) /\ lock # p
  BY DEF Invalidate, Ending
<1>2. Types /\ InMemory(p)
  BY DEF IInv
<1>3. UNCHANGED <<disk, lock, tr, next, wanted>> /\ tr # p
  BY <1>1, InTransaction DEF store
<1>4. Goto(p, "ready") /\ "ready" \in Labels /\ read' \in [Procs -> Sets]
  BY <1>1, <1>2 DEF Goto, Types, Labels
<1>5. LocalTypes(p) /\ Elsewhere(p) /\ pc'[p] = "ready" /\ dict'[p] = {} /\ using'[p] = using[p]
  BY <1>1, <1>2, <1>4, Moved
<1>6. StepsOf(p)' /\ HeldBy(p)' /\ NamedFor(p)'
  BY <1>5 DEF StepsOf, Computing, HeldBy, NamedFor
<1>7. ValidFor(p)'
  BY <1>1, <1>2, <1>3, <1>5 DEF InMemory, ValidFor, Object, Changed, Computing, Cl, Bm
<1>8. pc'[p] \notin {"close", "abort"} /\ (tr = p => "changelog" \in dict'[p])
  BY <1>3, <1>5
<1> QED
  BY <1>1, <1>5, <1>6, <1>7, <1>8, LocalStep

-----------------------------------------------------------------------------
(* Steps that take the lock, or write *)

\* A process that a step of another one does not concern.
LEMMA OtherProcess ==
    ASSUME IInv, NEW q \in Procs,
           dict'[q] = dict[q], filecache'[q] = filecache[q],
           pc'[q] = pc[q], using'[q] = using[q],
           Cl(disk)' = Cl(disk), Bm(disk)' = Bm(disk), RolledBack \subseteq RolledBack',
           lock' = q => lock = q, tr = q => tr' = q
    PROVE  InMemory(q)'
<1>1. InMemory(q)
  BY DEF IInv
<1>2. /\ Object(q, "changelog")' = Object(q, "changelog")
      /\ Object(q, "_bookmarks")' = Object(q, "_bookmarks")
      /\ Changed(q, "changelog")' = Changed(q, "changelog")
      /\ Changed(q, "_bookmarks")' = Changed(q, "_bookmarks")
      /\ Computing(q)' = Computing(q) /\ Ending(q)' = Ending(q)
  BY DEF Object, Changed, Computing, Ending
<1>3. StepsOf(q)'
  BY <1>1, <1>2 DEF InMemory, StepsOf
<1>4. HeldBy(q)'
  BY <1>1, <1>2 DEF InMemory, HeldBy
<1>5. ValidFor(q)'
  BY <1>1, <1>2 DEF InMemory, ValidFor
<1>6. NamedFor(q)'
  BY <1>1, <1>2 DEF InMemory, NamedFor, Resolved
<1> QED
  BY <1>3, <1>4, <1>5, <1>6 DEF InMemory

\* What a replaced file does to what is in memory.
LEMMA ReplaceIs ==
    ASSUME Types, NEW f \in Files, NEW content, Replace(f, content)
    PROVE  /\ disk' = [disk EXCEPT ![f] = content]
           /\ filecache' \in [Procs -> [Properties -> Entries]]
           /\ \A q \in Procs : \A r \in Properties :
                 /\ filecache'[q][r].obj = filecache[q][r].obj
                 /\ filecache'[q][r].there = filecache[q][r].there
                 /\ filecache'[q][r].same = filecache[q][r].same \ {f}
<1>1. filecache \in [Procs -> [Properties -> Entries]]
  BY DEF Types
<1>2. ASSUME NEW q \in Procs, NEW r \in Properties
      PROVE  /\ filecache'[q][r] \in Entries
             /\ filecache'[q][r].obj = filecache[q][r].obj
             /\ filecache'[q][r].there = filecache[q][r].there
             /\ filecache'[q][r].same = filecache[q][r].same \ {f}
  <2>1. filecache[q][r] \in Entries
    BY <1>1
  <2>2. filecache'[q][r] = [filecache[q][r] EXCEPT !.same = filecache[q][r].same \ {f}]
    BY DEF Replace
  <2> QED
    BY <2>1, <2>2 DEF Entries
<1>3. filecache' \in [Procs -> [Properties -> Entries]]
  BY <1>2 DEF Replace
<1> QED
  BY <1>2, <1>3 DEF Replace

\* The other processes when a file is replaced.
LEMMA OtherProcessReplaced ==
    ASSUME IInv, NEW q \in Procs, NEW f \in Files, NEW content, Replace(f, content),
           dict' = dict, pc' = pc, using' = using,
           UNCHANGED <<lock, tr, next, wanted>>, tr # NoProc, tr # q,
           f = "00changelog.i" => \A c \in Cl(disk) : c \in content \/ c \in RolledBack
    PROVE  InMemory(q)'
<1>1. InMemory(q) /\ Types
  BY DEF IInv
<1>2. lock # q /\ ~Ending(q)
  BY DEF IInv, Steps
<1>3. /\ filecache'[q]["changelog"].obj = filecache[q]["changelog"].obj
      /\ filecache'[q]["_bookmarks"].obj = filecache[q]["_bookmarks"].obj
      /\ filecache'[q]["changelog"].same = filecache[q]["changelog"].same \ {f}
      /\ filecache'[q]["_bookmarks"].same = filecache[q]["_bookmarks"].same \ {f}
      /\ \A r \in Properties : filecache'[q][r].there = filecache[q][r].there
  BY <1>1, ReplaceIs DEF Properties
<1>4. /\ Object(q, "changelog")' = Object(q, "changelog")
      /\ Object(q, "_bookmarks")' = Object(q, "_bookmarks")
      /\ Computing(q)' = Computing(q) /\ RolledBack' = RolledBack
  BY <1>3 DEF Object, Computing, RolledBack
<1>5. f # "00changelog.i" => Cl(disk)' = Cl(disk)
  <2>1. disk \in [Files -> Contents] /\ disk' = [disk EXCEPT ![f] = content]
    BY <1>1, ReplaceIs DEF Types, Stored
  <2> QED
    BY <2>1 DEF Cl, Files
<1>6. f # "bookmarks" => Bm(disk)' = Bm(disk)
  <2>1. disk \in [Files -> Contents] /\ disk' = [disk EXCEPT ![f] = content]
    BY <1>1, ReplaceIs DEF Types, Stored
  <2> QED
    BY <2>1 DEF Bm, Files
<1>7. StepsOf(q)'
  <2>1. using[q] \in Properties /\ "changelog" \in Properties
    BY <1>1 DEF Types, Properties
  <2> QED
    BY <1>1, <1>3, <1>4, <2>1 DEF InMemory, StepsOf
<1>8. HeldBy(q)'
  BY <1>2 DEF HeldBy
<1>9. ValidFor(q)'
  <2>1. Changed(q, "changelog")' = {} => f # "00changelog.i" /\ Changed(q, "changelog") = {}
    BY <1>3, Names DEF Changed
  <2>2. Changed(q, "_bookmarks")' = {} =>
           f # "00changelog.i" /\ f # "bookmarks" /\ Changed(q, "_bookmarks") = {}
    BY <1>3, Names DEF Changed
  <2>3. "00changelog.i" \in filecache'[q]["_bookmarks"].same =>
           f # "00changelog.i" /\ "00changelog.i" \in filecache[q]["_bookmarks"].same
    BY <1>3
  <2> QED
    BY <1>1, <1>2, <1>4, <1>5, <1>6, <2>1, <2>2, <2>3 DEF InMemory, ValidFor
<1>10. NamedFor(q)'
  <2>1. \A c \in Cl(disk) : c \in Cl(disk)' \/ c \in RolledBack
    <3>1. CASE f = "00changelog.i"
      <4>1. Cl(disk)' = content
        BY <1>1, <3>1, ReplaceIs DEF Types, Stored, Cl
      <4> QED
        BY <3>1, <4>1
    <3>2. CASE f # "00changelog.i"
      BY <1>5, <3>2
    <3> QED
      BY <3>1, <3>2
  <2> QED
    BY <1>1, <1>4, <2>1 DEF InMemory, NamedFor, Resolved
<1> QED
  BY <1>7, <1>8, <1>9, <1>10 DEF InMemory

\* What is forgotten.
LEMMA ForgetIs ==
    ASSUME Types, NEW p \in Procs, Forget(p)
    PROVE  /\ dict' \in [Procs -> SUBSET Properties] /\ dict'[p] = {}
           /\ filecache' \in [Procs -> [Properties -> Entries]]
           /\ \A r \in Properties : filecache'[p][r].same = {}
           /\ filecache'[p]["_phasecache"].obj \in Sets
           /\ \A q \in Procs : q # p => dict'[q] = dict[q] /\ filecache'[q] = filecache[q]
<1>1. dict \in [Procs -> SUBSET Properties] /\ filecache \in [Procs -> [Properties -> Entries]]
  BY DEF Types
<1>2. ASSUME NEW r \in Properties
      PROVE  NoEntry(r) \in Entries /\ NoEntry(r).same = {}
  <2>1. Empty[FileOf[r]] \in Contents
    BY Names DEF Empty, NoMarks, Contents, Marks, Sets, Properties, Files
  <2> QED
    BY <2>1 DEF NoEntry, Entries
<1>3. NoEntry("_phasecache").obj \in Sets
  BY Names DEF NoEntry, Empty, Sets, Files
<1>4. filecache' = [filecache EXCEPT ![p] = [r \in Properties |-> NoEntry(r)]]
  BY DEF Forget
<1>5. \A r \in Properties : filecache'[p][r] = NoEntry(r)
  BY <1>1, <1>4
<1>6. "_phasecache" \in Properties
  BY DEF Properties
<1>7. filecache' \in [Procs -> [Properties -> Entries]]
  BY <1>1, <1>2, <1>4
<1>8. /\ dict' \in [Procs -> SUBSET Properties] /\ dict'[p] = {}
      /\ \A q \in Procs : q # p => dict'[q] = dict[q]
  BY <1>1 DEF Forget
<1> QED
  BY <1>1, <1>2, <1>3, <1>4, <1>5, <1>6, <1>7, <1>8

\* Nothing is in the files, and nothing is wrong with them.
LEMMA EmptyIs == Empty \in Stored /\ Cl(Empty) = {} /\ Bm(Empty) = NoMarks
BY DEF Empty, Stored, Cl, Bm, NoMarks, Marks, Sets, Contents, Files

\* repo.lock(): what was in use is not in use any more.
LEMMA LockInv ==
    ASSUME IInv, NEW p \in Procs, Lock(p)
    PROVE  IInv'
<1>1. /\ pc[p] = "ready" /\ lock = NoProc /\ lock' = p /\ dict' = [dict EXCEPT ![p] = {}]
      /\ UNCHANGED <<disk, tr, todo, next, saved, wanted, filecache, pc, using, read>>
  BY DEF Lock
<1>2. Types
  BY DEF IInv
<1>3. tr = NoProc /\ todo = {} /\ \A q \in Procs : ~Ending(q)
  BY <1>1, RepoCacheAssumption DEF IInv, Steps
<1>4. /\ dict' \in [Procs -> SUBSET Properties] /\ dict'[p] = {}
      /\ \A q \in Procs : q # p => dict'[q] = dict[q]
  BY <1>1, <1>2 DEF Types
<1>5. Types'
  <2>1. \A q \in Procs : dict'[q] \subseteq dict[q]
    BY <1>4
  <2> QED
    BY <1>1, <1>2, <1>4, <2>1 DEF Types, Object
<1>6. Steps'
  BY <1>1, <1>3 DEF Steps, Ending
<1>7. OnDisk'
  <2>1. Meant' /\ Begun' /\ Closing' /\ Aborting'
    BY <1>1, <1>3 DEF IInv, OnDisk, Meant, Settled, Begun, Closing, Aborting, Cl, Bm
  <2>2. FilesResolve'
    BY <1>1, <1>3 DEF IInv, OnDisk, FilesResolve, Resolved, Cl, Bm
  <2> QED
    BY <2>1, <2>2 DEF OnDisk
<1>8. ASSUME NEW q \in Procs
      PROVE  InMemory(q)'
  <2>1. CASE q = p
    <3>1. pc'[p] = "ready" /\ pc[p] = "ready"
      BY <1>1
    <3>2. StepsOf(p)' /\ HeldBy(p)' /\ NamedFor(p)'
      BY <1>4, <3>1 DEF StepsOf, Computing, HeldBy, NamedFor
    <3>3. InMemory(p)
      BY DEF IInv
    <3>4. ValidFor(p)'
      BY <1>1, <1>4, <3>1, <3>3 DEF InMemory, ValidFor, Computing, Ending, Object, Changed, Cl, Bm
    <3> QED
      BY <2>1, <3>2, <3>4 DEF InMemory
  <2>2. CASE q # p
    BY <1>1, <1>4, <2>2, OtherProcess DEF Cl, Bm, RolledBack
  <2> QED
    BY <2>1, <2>2
<1> QED
  BY <1>5, <1>6, <1>7, <1>8 DEF IInv

\* The lock is given back.
LEMMA UnlockInv ==
    ASSUME IInv, NEW p \in Procs, Unlock(p)
    PROVE  IInv'
<1>1. /\ pc[p] = "ready" /\ lock = p /\ tr # p /\ lock' = NoProc
      /\ UNCHANGED <<dict, filecache>> \/ Forget(p)
      /\ UNCHANGED <<disk, tr, todo, next, saved, wanted, pc, using, read>>
  BY DEF Unlock
<1>2. Types
  BY DEF IInv
<1>3. tr = NoProc /\ todo = {} /\ \A q \in Procs : ~Ending(q)
  BY <1>1, RepoCacheAssumption DEF IInv, Steps
<1>4. /\ dict' \in [Procs -> SUBSET Properties]
      /\ filecache' \in [Procs -> [Properties -> Entries]]
      /\ filecache'[p]["_phasecache"].obj \in Sets
      /\ \A q \in Procs : q # p => dict'[q] = dict[q] /\ filecache'[q] = filecache[q]
      /\ \A r \in Properties :
            /\ r \in dict'[p] \/ filecache'[p][r].same # {} => filecache'[p][r].there
            /\ filecache'[p][r].same \subseteq Tracked[r]
  <2>1. CASE UNCHANGED <<dict, filecache>>
    BY <1>2, <2>1 DEF Types, Object
  <2>2. CASE Forget(p)
    BY <1>2, <2>2, ForgetIs
  <2> QED
    BY <1>1, <2>1, <2>2
<1>5. Types'
  <2>1. ASSUME NEW q \in Procs
        PROVE  /\ filecache'[q]["_phasecache"].obj \in Sets
               /\ \A r \in Properties :
                     /\ r \in dict'[q] \/ filecache'[q][r].same # {} => filecache'[q][r].there
                     /\ filecache'[q][r].same \subseteq Tracked[r]
    <3>1. CASE q = p
      BY <1>4, <3>1
    <3>2. CASE q # p
      BY <1>2, <1>4, <3>2 DEF Types, Object
    <3> QED
      BY <3>1, <3>2
  <2> QED
    BY <1>1, <1>2, <1>4, <2>1 DEF Types, Object, Cl
<1>6. Steps'
  BY <1>1, <1>3 DEF Steps, Ending
<1>7. OnDisk'
  <2>1. Meant' /\ Begun' /\ Closing' /\ Aborting'
    BY <1>1, <1>3 DEF IInv, OnDisk, Meant, Settled, Begun, Closing, Aborting, Cl, Bm
  <2>2. FilesResolve'
    BY <1>1, <1>3 DEF IInv, OnDisk, FilesResolve, Resolved, Cl, Bm
  <2> QED
    BY <2>1, <2>2 DEF OnDisk
<1>8. ASSUME NEW q \in Procs
      PROVE  InMemory(q)'
  <2>1. q # NoProc
    BY RepoCacheAssumption
  <2>2. CASE dict'[q] = dict[q] /\ filecache'[q] = filecache[q]
    BY <1>1, <2>1, <2>2, OtherProcess DEF Cl, Bm, RolledBack
  <2>3. CASE q = p /\ Forget(p)
    <3>1. pc'[p] = "ready" /\ dict'[p] = {}
      BY <1>1, <1>2, <2>3, ForgetIs
    <3>2. StepsOf(p)' /\ HeldBy(p)' /\ NamedFor(p)'
      BY <3>1 DEF StepsOf, Computing, HeldBy, NamedFor
    <3>3. filecache'[p]["changelog"].same = {} /\ filecache'[p]["_bookmarks"].same = {}
      BY <1>2, <2>3, ForgetIs DEF Properties
    <3>4. ValidFor(p)'
      BY <3>1, <3>3, Names DEF ValidFor, Changed
    <3> QED
      BY <2>3, <3>2, <3>4 DEF InMemory
  <2> QED
    BY <1>1, <1>4, <2>2, <2>3
<1> QED
  BY <1>5, <1>6, <1>7, <1>8 DEF IInv

\* repo.transaction().
LEMMA BeginInv ==
    ASSUME IInv, NEW p \in Procs, Begin(p)
    PROVE  IInv'
<1>1. /\ pc[p] = "ready" /\ lock = p /\ tr = NoProc /\ "changelog" \in dict[p]
      /\ next \in Changesets /\ tr' = p /\ saved' = disk
      /\ UNCHANGED <<disk, lock, todo, next, wanted, dict, filecache, pc, using, read>>
  BY DEF Begin, memory
<1>2. Types
  BY DEF IInv
<1>3. todo = {} /\ p # NoProc /\ \A q \in Procs : ~Ending(q)
  BY <1>1, RepoCacheAssumption DEF IInv, Steps
<1>4. Types'
  BY <1>1, <1>2 DEF Types, Object, Cl
<1>5. Steps'
  BY <1>1, <1>3 DEF Steps, Ending
<1>6. OnDisk'
  <2>1. Meant' /\ Begun' /\ Closing' /\ Aborting'
    BY <1>1, <1>3 DEF IInv, OnDisk, Meant, Settled, Ending, Begun, Closing, Aborting, Cl, Bm
  <2>2. /\ Resolved(Bm(disk), Cl(disk)) /\ Resolved(Bm(wanted), Cl(wanted))
        /\ Cl(disk) = Cl(wanted)
    BY <1>1, <1>3 DEF IInv, OnDisk, FilesResolve, Meant, Settled
  <2>3. FilesResolve'
    BY <1>1, <1>3, <2>2 DEF FilesResolve, Resolved, Cl, Bm
  <2> QED
    BY <2>1, <2>3 DEF OnDisk
<1>7. ASSUME NEW q \in Procs
      PROVE  InMemory(q)'
  BY <1>1, <1>7, OtherProcess, RepoCacheAssumption DEF Cl, Bm, RolledBack
<1> QED
  BY <1>4, <1>5, <1>6, <1>7 DEF IInv

\* The changeset, root and bookmark of a transaction, in memory.
LEMMA AddIs ==
    ASSUME IInv, NEW p \in Procs, NEW root \in BOOLEAN, NEW mark \in BOOLEAN, Add(p, root, mark)
    PROVE  /\ filecache' \in [Procs -> [Properties -> Entries]]
           /\ \A q \in Procs : q # p => filecache'[q] = filecache[q]
           /\ \A r \in Properties :
                 /\ filecache'[p][r].same = filecache[p][r].same
                 /\ filecache'[p][r].there = filecache[p][r].there
           /\ Object(p, "changelog")' = Object(p, "changelog") \cup {next}
           /\ Object(p, "_phasecache")' \in Sets
           /\ Object(p, "_bookmarks")' =
                 IF mark THEN [Object(p, "_bookmarks") EXCEPT ![p] = next] ELSE Object(p, "_bookmarks")
           /\ wanted' \in Stored
           /\ Cl(wanted)' = Cl(wanted) \cup {next}
           /\ Bm(wanted)' = IF mark THEN [Bm(wanted) EXCEPT ![p] = next] ELSE Bm(wanted)
<1>1. Types /\ next \in Changesets /\ "_phasecache" \in dict[p] /\ lock = p /\ ~Ending(p)
      /\ "changelog" \in dict[p] /\ (mark => "_bookmarks" \in dict[p])
  <2>1. /\ tr = p /\ ~Ending(p) /\ "_phasecache" \in dict[p]
        /\ mark => "_bookmarks" \in dict[p]
    BY DEF Add, Ending
  <2>2. tr # NoProc /\ lock = p /\ "changelog" \in dict[p]
    BY <2>1, InTransaction
  <2> QED
    BY <2>1, <2>2 DEF IInv, Steps
<1>2. /\ filecache \in [Procs -> [Properties -> Entries]] /\ wanted \in [Files -> Contents]
      /\ Cl(wanted) \in Sets /\ Bm(wanted) \in Marks /\ wanted["phaseroots"] \in Sets
  BY <1>1, StoredIs DEF Types
<1>3. /\ Object(p, "changelog") \in Sets /\ Object(p, "_phasecache") \in Sets
      /\ mark => Object(p, "_bookmarks") \in Marks
  BY <1>1, FilesOf DEF IInv, InMemory, HeldBy, Types, Cl, Bm
<1> DEFINE grown(r) == Added(p, FileOf[r], Object(p, r), root, mark)
           entries == [r \in Properties |-> [filecache[p][r] EXCEPT !.obj = grown(r)]]
<1>4. /\ grown("changelog") = Object(p, "changelog") \cup {next}
      /\ grown("_phasecache") =
            IF root THEN Object(p, "_phasecache") \cup {next} ELSE Object(p, "_phasecache")
      /\ grown("_bookmarks") =
            IF mark THEN [Object(p, "_bookmarks") EXCEPT ![p] = next] ELSE Object(p, "_bookmarks")
  BY Names DEF Added, Marked
<1>5. /\ grown("changelog") \in Contents /\ grown("_phasecache") \in Contents
      /\ grown("_phasecache") \in Sets /\ grown("_bookmarks") \in Contents
  <2>1. grown("changelog") \in Sets /\ grown("_phasecache") \in Sets
    BY <1>1, <1>3, <1>4 DEF Sets
  <2>2. CASE mark
    BY <1>1, <1>3, <1>4, <2>1, <2>2 DEF Marks, Contents
  <2>3. CASE ~mark
    <3>1. Object(p, "_bookmarks") \in Contents
      BY <1>2 DEF Object, Properties, Entries
    <3> QED
      BY <1>4, <2>1, <2>3, <3>1 DEF Contents
  <2> QED
    BY <2>2, <2>3
<1>6. filecache' = [filecache EXCEPT ![p] = entries]
  BY DEF Add
<1>7. ASSUME NEW r \in Properties
      PROVE  /\ entries[r] \in Entries /\ entries[r].obj = grown(r)
             /\ entries[r].same = filecache[p][r].same
             /\ entries[r].there = filecache[p][r].there
  <2>1. grown(r) \in Contents
    BY <1>5 DEF Properties
  <2>2. filecache[p][r] \in Entries
    BY <1>2
  <2> HIDE DEF grown
  <2> QED
    BY <2>1, <2>2 DEF Entries
<1> HIDE DEF grown
<1>8. entries \in [Properties -> Entries]
  BY <1>7
<1> HIDE DEF entries
<1>9. /\ filecache' \in [Procs -> [Properties -> Entries]]
      /\ \A q \in Procs : q # p => filecache'[q] = filecache[q]
      /\ \A r \in Properties : filecache'[p][r] = entries[r]
  BY <1>2, <1>6, <1>8
<1>10. /\ Object(p, "changelog")' = grown("changelog")
       /\ Object(p, "_phasecache")' = grown("_phasecache")
       /\ Object(p, "_bookmarks")' = grown("_bookmarks")
  BY <1>7, <1>9 DEF Object, Properties
<1>11. /\ wanted' = [f \in Files |-> Added(p, f, wanted[f], root, mark)]
  BY DEF Add
<1>12. /\ wanted'["phaseroots"] =
             IF root THEN wanted["phaseroots"] \cup {next} ELSE wanted["phaseroots"]
       /\ Cl(wanted)' = Cl(wanted) \cup {next}
       /\ Bm(wanted)' = IF mark THEN [Bm(wanted) EXCEPT ![p] = next] ELSE Bm(wanted)
  BY <1>11 DEF Added, Marked, Files, Cl, Bm
<1>13. wanted' \in Stored
  <2>1. wanted'["phaseroots"] \in Sets /\ Cl(wanted)' \in Sets
    BY <1>1, <1>2, <1>12 DEF Sets
  <2>2. Bm(wanted)' \in Marks
    BY <1>1, <1>2, <1>12 DEF Marks
  <2>3. \A f \in Files : f = "phaseroots" \/ f = "00changelog.i" \/ f = "bookmarks"
    BY DEF Files
  <2>4. \A f \in Files : wanted'[f] \in Contents
    BY <2>1, <2>2, <2>3 DEF Contents, Cl, Bm
  <2>5. wanted' \in [Files -> Contents]
    BY <1>11, <2>4
  <2> QED
    BY <2>1, <2>2, <2>5 DEF Stored, Cl, Bm
<1> QED
  BY <1>4, <1>5, <1>7, <1>9, <1>10, <1>12, <1>13

\* A changeset is added in the transaction, which ends then.
LEMMA AddInv ==
    ASSUME IInv, NEW p \in Procs, NEW root \in BOOLEAN, NEW mark \in BOOLEAN, Add(p, root, mark)
    PROVE  IInv'
<1>1. /\ pc[p] = "ready" /\ tr = p /\ (mark => "_bookmarks" \in dict[p])
      /\ todo' = {"00changelog.i"} \cup (IF root THEN {"phaseroots"} ELSE {})
                                   \cup (IF mark THEN {"bookmarks"} ELSE {})
      /\ next' = next + 1 /\ Goto(p, "close") /\ ~Ending(p)
      /\ UNCHANGED <<disk, lock, tr, saved, dict, using, read>>
  BY DEF Add, Ending
<1>2. /\ filecache' \in [Procs -> [Properties -> Entries]]
      /\ \A q \in Procs : q # p => filecache'[q] = filecache[q]
      /\ \A r \in Properties :
            /\ filecache'[p][r].same = filecache[p][r].same
            /\ filecache'[p][r].there = filecache[p][r].there
      /\ Object(p, "changelog")' = Object(p, "changelog") \cup {next}
      /\ Object(p, "_phasecache")' \in Sets
      /\ Object(p, "_bookmarks")' =
            IF mark THEN [Object(p, "_bookmarks") EXCEPT ![p] = next] ELSE Object(p, "_bookmarks")
      /\ wanted' \in Stored
      /\ Cl(wanted)' = Cl(wanted) \cup {next}
      /\ Bm(wanted)' = IF mark THEN [Bm(wanted) EXCEPT ![p] = next] ELSE Bm(wanted)
  BY AddIs
<1>3. Types
  BY DEF IInv
<1>4. /\ p # NoProc /\ lock = p /\ "changelog" \in dict[p] /\ next \in Changesets /\ next \in Nat
      /\ todo = {} /\ "00changelog.i" \in todo' /\ todo' \subseteq Files
  <2>1. p # NoProc /\ lock = p /\ "changelog" \in dict[p]
    BY <1>1, InTransaction
  <2>2. next \in Changesets /\ todo = {}
    BY <1>1, <2>1 DEF IInv, Steps
  <2>3. next \in Nat
    BY <1>3 DEF Types
  <2> QED
    BY <1>1, <2>1, <2>2, <2>3 DEF Files
<1>5. /\ pc' \in [Procs -> Labels] /\ pc'[p] = "close"
      /\ \A q \in Procs : q # p => pc'[q] = pc[q]
  BY <1>1, <1>3 DEF Goto, Types, Labels
<1>6. Types'
  <2>1. ASSUME NEW q \in Procs
        PROVE  /\ Object(q, "_phasecache")' \in Sets
               /\ \A r \in Properties :
                     /\ r \in dict'[q] \/ filecache'[q][r].same # {} => filecache'[q][r].there
                     /\ filecache'[q][r].same \subseteq Tracked[r]
    <3>1. CASE q = p
      BY <1>1, <1>2, <1>3, <3>1 DEF Types
    <3>2. CASE q # p
      BY <1>1, <1>2, <1>3, <3>2 DEF Types, Object
    <3> QED
      BY <3>1, <3>2
  <2>2. \A c \in Cl(disk') \cup Cl(saved') \cup Cl(wanted') : c \in 1..next' - 1
    <3>1. \A c \in Cl(disk) \cup Cl(saved) \cup Cl(wanted) : c \in 1..next - 1
      BY <1>3 DEF Types
    <3>2. Cl(disk') = Cl(disk) /\ Cl(saved') = Cl(saved) /\ Cl(wanted') = Cl(wanted) \cup {next}
      BY <1>1, <1>2 DEF Cl
    <3>3. next \in 1..next' - 1 /\ \A c \in 1..next - 1 : c \in 1..next' - 1
      BY <1>1, <1>4 DEF Changesets
    <3> QED
      BY <3>1, <3>2, <3>3
  <2>3. next' \in Nat
    BY <1>1, <1>4
  <2> QED
    BY <1>1, <1>2, <1>3, <1>5, <2>1, <2>2, <2>3 DEF Types
<1>7. Steps'
  BY <1>1, <1>4, <1>5 DEF IInv, Steps, Ending
<1>8. /\ Cl(disk) = Cl(wanted) /\ Bm(disk) = Bm(wanted)
      /\ Object(p, "changelog") = Cl(disk)
      /\ "_bookmarks" \in dict[p] => Object(p, "_bookmarks") = Bm(disk)
      /\ Resolved(Bm(wanted), Cl(wanted)) /\ Resolved(Bm(disk), Cl(disk))
      /\ Cl(saved) \subseteq Cl(disk) /\ Resolved(Bm(saved), Cl(saved))
  BY <1>1, <1>4 DEF IInv, InMemory, HeldBy, OnDisk, Meant, Settled, FilesResolve
<1>9. Cl(disk)' = Cl(disk) /\ Bm(disk)' = Bm(disk) /\ Cl(saved)' = Cl(saved) /\ Bm(saved)' = Bm(saved)
  BY <1>1 DEF Cl, Bm
<1>10. Closing'
  <2>1. "bookmarks" \in todo' => mark
    BY <1>1
  <2>2. ~mark => Bm(wanted)' = Bm(wanted) /\ Object(p, "_bookmarks")' = Object(p, "_bookmarks")
    BY <1>2
  <2>3. "bookmarks" \notin todo' => Bm(disk)' = Bm(wanted)'
    <3>1. mark => "bookmarks" \in todo'
      BY <1>1
    <3> QED
      BY <1>8, <1>9, <2>2, <3>1
  <2>4. Cl(disk)' \subseteq Cl(wanted)' /\ Object(p, "changelog")' = Cl(wanted)'
    BY <1>2, <1>8, <1>9
  <2>5. "_bookmarks" \in dict'[p] => Object(p, "_bookmarks")' = Bm(wanted)'
    BY <1>1, <1>2, <1>8
  <2> QED
    BY <1>1, <1>4, <2>1, <2>3, <2>4, <2>5 DEF Closing
<1>11. Meant' /\ Begun' /\ Aborting'
  BY <1>1, <1>4, <1>5 DEF Meant, Settled, Begun, Aborting, Ending
<1>12. FilesResolve'
  <2>1. Resolved(Bm(wanted)', Cl(wanted)')
    <3>1. CASE mark
      BY <1>2, <1>3, <1>8, <3>1 DEF Resolved, Types, Stored, Marks, Bm
    <3>2. CASE ~mark
      BY <1>2, <1>8, <3>2 DEF Resolved
    <3> QED
      BY <3>1, <3>2
  <2> QED
    BY <1>2, <1>8, <1>9, <2>1 DEF FilesResolve, Resolved
<1>13. RolledBack \subseteq RolledBack'
  BY <1>1, <1>2, <1>4 DEF RolledBack, Cl
<1>14. ASSUME NEW q \in Procs
       PROVE  InMemory(q)'
  <2>1. CASE q = p
    <3>1. HeldBy(p)' /\ ValidFor(p)' /\ StepsOf(p)'
      BY <1>5 DEF HeldBy, ValidFor, StepsOf, Ending, Computing
    <3>2. NamedFor(p)'
      <4>1. "_bookmarks" \in dict[p] => Resolved(Bm(wanted)', Cl(wanted)')
        BY <1>12 DEF FilesResolve
      <4>2. "_bookmarks" \in dict[p] => Object(p, "_bookmarks")' = Bm(wanted)'
        BY <1>1, <1>2, <1>8
      <4>3. Object(p, "changelog")' = Cl(wanted)'
        BY <1>2, <1>8
      <4> QED
        BY <1>1, <1>4, <4>1, <4>2, <4>3 DEF NamedFor, Resolved
    <3> QED
      BY <2>1, <3>1, <3>2 DEF InMemory
  <2>2. CASE q # p
    BY <1>1, <1>2, <1>5, <1>9, <1>13, <2>2, OtherProcess
  <2> QED
    BY <2>1, <2>2
<1> QED
  BY <1>6, <1>7, <1>10, <1>11, <1>12, <1>14 DEF IInv, OnDisk

\* The types when a file is replaced by the process in the transaction.
LEMMA ReplacedTypes ==
    ASSUME Types, NEW f \in Files, NEW content, Replace(f, content), disk' \in Stored,
           \A c \in Cl(disk') : c \in 1..next - 1,
           UNCHANGED <<next, saved, wanted, dict, pc, using, read>>
    PROVE  Types'
<1>1. /\ filecache' \in [Procs -> [Properties -> Entries]]
      /\ \A q \in Procs : \A r \in Properties :
            /\ filecache'[q][r].obj = filecache[q][r].obj
            /\ filecache'[q][r].there = filecache[q][r].there
            /\ filecache'[q][r].same = filecache[q][r].same \ {f}
  BY ReplaceIs
<1>2. ASSUME NEW q \in Procs
      PROVE  /\ Object(q, "_phasecache")' \in Sets
             /\ \A r \in Properties :
                   /\ r \in dict'[q] \/ filecache'[q][r].same # {} => filecache'[q][r].there
                   /\ filecache'[q][r].same \subseteq Tracked[r]
  <2>1. Object(q, "_phasecache")' = Object(q, "_phasecache")
    BY <1>1 DEF Object, Properties
  <2>2. ASSUME NEW r \in Properties
        PROVE  /\ r \in dict'[q] \/ filecache'[q][r].same # {} => filecache'[q][r].there
               /\ filecache'[q][r].same \subseteq Tracked[r]
    <3>1. /\ filecache'[q][r].there = filecache[q][r].there
          /\ filecache'[q][r].same \subseteq filecache[q][r].same
          /\ dict'[q] = dict[q]
      BY <1>1
    <3>2. /\ r \in dict[q] \/ filecache[q][r].same # {} => filecache[q][r].there
          /\ filecache[q][r].same \subseteq Tracked[r]
      BY DEF Types
    <3> QED
      BY <3>1, <3>2
  <2> QED
    BY <2>1, <2>2 DEF Types
<1>3. \A c \in Cl(disk') \cup Cl(saved') \cup Cl(wanted') : c \in 1..next' - 1
  BY DEF Types, Cl
<1> QED
  BY <1>1, <1>2, <1>3 DEF Types

\* A file is written as the transaction meant it.
LEMMA WriteInv ==
    ASSUME IInv, NEW p \in Procs, NEW r \in Properties, Write(p, r)
    PROVE  IInv'
<1>1. PICK f, content : f = FileOf[r] /\ content = Object(p, r)
  OBVIOUS
<1>2. /\ pc[p] = "close" /\ f \in todo /\ Before(f) \cap todo = {}
      /\ Replace(f, content) /\ todo' = todo \ {f}
      /\ UNCHANGED <<lock, tr, next, saved, wanted, dict, pc, using, read>>
  BY <1>1 DEF Write
<1>3. Types /\ f \in Files
  BY <1>1, Names DEF IInv
<1>4. tr = p /\ Ending(p) /\ p # NoProc /\ todo \subseteq Files
  BY <1>2, RepoCacheAssumption DEF IInv, Steps, Ending
<1>5. /\ "00changelog.i" \notin todo => Cl(disk) = Cl(wanted)
      /\ "bookmarks" \notin todo => Bm(disk) = Bm(wanted)
      /\ Cl(disk) \subseteq Cl(wanted)
      /\ Object(p, "changelog") = Cl(wanted)
      /\ "_bookmarks" \in dict[p] => Object(p, "_bookmarks") = Bm(wanted)
      /\ "bookmarks" \in todo => "_bookmarks" \in dict[p]
      /\ "00changelog.i" \notin todo =>
            /\ "00changelog.i" \notin filecache[p]["changelog"].same
            /\ "00changelog.i" \notin filecache[p]["_bookmarks"].same
  BY <1>2, <1>4 DEF IInv, OnDisk, Closing
<1>6. /\ disk' = [disk EXCEPT ![f] = content]
      /\ filecache' \in [Procs -> [Properties -> Entries]]
      /\ \A q \in Procs : \A s \in Properties :
            /\ filecache'[q][s].obj = filecache[q][s].obj
            /\ filecache'[q][s].there = filecache[q][s].there
            /\ filecache'[q][s].same = filecache[q][s].same \ {f}
  BY <1>2, <1>3, ReplaceIs
<1>7. disk \in [Files -> Contents] /\ disk["phaseroots"] \in Sets /\ Cl(disk) \in Sets
      /\ Bm(disk) \in Marks /\ Cl(wanted) \in Sets /\ Bm(wanted) \in Marks
  BY <1>3, StoredIs DEF Types
<1>8. \/ r = "changelog" /\ f = "00changelog.i" /\ content = Cl(wanted)
      \/ r = "_bookmarks" /\ f = "bookmarks" /\ content = Bm(wanted)
      \/ r = "_phasecache" /\ f = "phaseroots" /\ content \in Sets
  BY <1>1, <1>2, <1>3, <1>5, Names DEF Properties, Types
<1>9. /\ Cl(disk)' = IF f = "00changelog.i" THEN Cl(wanted) ELSE Cl(disk)
      /\ Bm(disk)' = IF f = "bookmarks" THEN Bm(wanted) ELSE Bm(disk)
      /\ Cl(wanted)' = Cl(wanted) /\ Bm(wanted)' = Bm(wanted)
      /\ Cl(saved)' = Cl(saved) /\ Bm(saved)' = Bm(saved)
  BY <1>2, <1>6, <1>7, <1>8 DEF Cl, Bm, Files
<1>10. Cl(disk)' = Cl(disk) \/ Cl(disk)' = Cl(wanted)
  BY <1>9
<1>11. disk' \in Stored
  <2>1. content \in Contents
    BY <1>7, <1>8 DEF Contents
  <2>2. disk' \in [Files -> Contents]
    BY <1>6, <1>7, <2>1
  <2>3. disk'["phaseroots"] \in Sets
    BY <1>6, <1>7, <1>8 DEF Files
  <2>4. Cl(disk)' \in Sets /\ Bm(disk)' \in Marks
    BY <1>7, <1>9
  <2> QED
    BY <2>2, <2>3, <2>4 DEF Stored, Cl, Bm
<1>12. Types'
  <2>1. \A c \in Cl(disk') : c \in 1..next - 1
    BY <1>3, <1>10 DEF Types, Cl
  <2> QED
    BY <1>2, <1>3, <1>11, <2>1, ReplacedTypes
<1>13. Steps'
  BY <1>2, <1>4 DEF IInv, Steps, Ending
<1>14. Meant' /\ Begun' /\ Aborting'
  BY <1>2, <1>4 DEF Meant, Settled, Begun, Aborting, Ending
<1>15. Closing'
  <2>1. /\ Object(p, "changelog")' = Object(p, "changelog")
        /\ Object(p, "_bookmarks")' = Object(p, "_bookmarks")
        /\ filecache'[p]["changelog"].same = filecache[p]["changelog"].same \ {f}
        /\ filecache'[p]["_bookmarks"].same = filecache[p]["_bookmarks"].same \ {f}
    BY <1>6 DEF Object, Properties
  <2>2. /\ "00changelog.i" \notin todo' => Cl(disk)' = Cl(wanted)
        /\ "bookmarks" \notin todo' => Bm(disk)' = Bm(wanted)
        /\ Cl(disk)' \subseteq Cl(wanted)
    BY <1>2, <1>5, <1>9
  <2>3. "00changelog.i" \notin todo' =>
            /\ "00changelog.i" \notin filecache'[p]["changelog"].same
            /\ "00changelog.i" \notin filecache'[p]["_bookmarks"].same
    BY <1>2, <1>5, <2>1
  <2> QED
    BY <1>2, <1>4, <1>5, <1>9, <2>1, <2>2, <2>3 DEF Closing
<1>16. FilesResolve'
  <2>1. /\ Cl(saved) \subseteq Cl(disk) /\ Cl(saved) \subseteq Cl(wanted)
        /\ Resolved(Bm(saved), Cl(saved)) /\ Resolved(Bm(wanted), Cl(wanted))
        /\ Resolved(Bm(disk), Cl(disk))
    BY <1>2, <1>4 DEF IInv, OnDisk, FilesResolve
  <2>2. Cl(saved) \subseteq Cl(disk)' /\ Cl(disk) \subseteq Cl(disk)'
    BY <1>5, <1>10, <2>1
  <2>3. Resolved(Bm(disk)', Cl(disk)')
    <3>1. CASE f = "bookmarks"
      <4>1. "00changelog.i" \notin todo
        BY <1>2, <3>1 DEF Before
      <4> QED
        BY <1>5, <1>9, <2>1, <3>1, <4>1
    <3>2. CASE f # "bookmarks"
      BY <1>9, <2>1, <2>2, <3>2 DEF Resolved
    <3> QED
      BY <3>1, <3>2
  <2> QED
    BY <1>9, <2>1, <2>2, <2>3 DEF FilesResolve, Resolved
<1>17. ASSUME NEW q \in Procs
       PROVE  InMemory(q)'
  <2>1. CASE q = p
    <3>1. pc'[p] = "close"
      BY <1>2
    <3>2. HeldBy(p)' /\ ValidFor(p)' /\ StepsOf(p)'
      BY <3>1 DEF HeldBy, ValidFor, StepsOf, Ending, Computing
    <3>3. Object(p, "changelog")' = Object(p, "changelog")
          /\ Object(p, "_bookmarks")' = Object(p, "_bookmarks") /\ "changelog" \in dict[p]
      BY <1>4, <1>6, InTransaction DEF Object, Properties
    <3>4. NamedFor(p)'
      BY <1>2, <3>3 DEF IInv, InMemory, NamedFor, Resolved, RolledBack
    <3> QED
      BY <2>1, <3>2, <3>4 DEF InMemory
  <2>2. CASE q # p
    <3>1. f = "00changelog.i" => \A c \in Cl(disk) : c \in content \/ c \in RolledBack
      BY <1>5, <1>8
    <3> QED
      BY <1>2, <1>3, <1>4, <2>2, <3>1, OtherProcessReplaced
  <2> QED
    BY <2>1, <2>2
<1> QED
  BY <1>12, <1>13, <1>14, <1>15, <1>16, <1>17 DEF IInv, OnDisk

\* The transaction ends: what is in use is noted as it was written.
LEMMA CloseInv ==
    ASSUME IInv, NEW p \in Procs, Close(p)
    PROVE  IInv'
<1>1. /\ pc[p] = "close" /\ todo = {} /\ tr' = NoProc /\ saved' = Empty /\ Goto(p, "ready")
      /\ filecache' = [filecache EXCEPT ![p] = Refreshed(p)]
      /\ UNCHANGED <<disk, lock, todo, next, wanted, dict, using, read>>
  BY DEF Close
<1>2. Types
  BY DEF IInv
<1>3. tr = p /\ p # NoProc /\ lock = p /\ "changelog" \in dict[p]
  <2>1. tr = p
    BY <1>1 DEF IInv, Steps, Ending
  <2> QED
    BY <2>1, InTransaction
<1>4. /\ pc' \in [Procs -> Labels] /\ pc'[p] = "ready"
      /\ \A q \in Procs : q # p => pc'[q] = pc[q]
  BY <1>1, <1>2 DEF Goto, Types, Labels
<1>5. /\ filecache \in [Procs -> [Properties -> Entries]]
      /\ dict \in [Procs -> SUBSET Properties]
  BY <1>2 DEF Types
<1>6. ASSUME NEW r \in Properties
      PROVE  /\ Refreshed(p)[r] \in Entries
             /\ Refreshed(p)[r].obj = filecache[p][r].obj
             /\ r \in dict[p] => Refreshed(p)[r].there
             /\ r \notin dict[p] => Refreshed(p)[r] = filecache[p][r]
             /\ Refreshed(p)[r].same \subseteq Tracked[r]
  <2>1. CASE r \in dict[p]
    <3>1. Refreshed(p)[r] = WithStat(p, r, Tracked[r])
      BY <2>1 DEF Refreshed, Current
    <3>2. Tracked[r] \in SUBSET Files
      BY Names
    <3> QED
      BY <1>2, <2>1, <3>1, <3>2, WithStatIs DEF Types
  <2>2. CASE r \notin dict[p]
    <3>1. Refreshed(p)[r] = filecache[p][r]
      BY <2>2 DEF Refreshed, Current
    <3> QED
      BY <1>2, <1>5, <2>2, <3>1 DEF Types
  <2> QED
    BY <2>1, <2>2
<1>7. Refreshed(p) \in [Properties -> Entries]
  BY <1>6 DEF Refreshed
<1>8. /\ filecache' \in [Procs -> [Properties -> Entries]]
      /\ \A q \in Procs : q # p => filecache'[q] = filecache[q]
      /\ filecache'[p] = Refreshed(p)
  BY <1>1, <1>5, <1>7
<1>9. Object(p, "changelog")' = Object(p, "changelog")
      /\ Object(p, "_bookmarks")' = Object(p, "_bookmarks")
      /\ Object(p, "_phasecache")' = Object(p, "_phasecache")
  BY <1>6, <1>8 DEF Object, Properties
<1>10. Types'
  <2>1. ASSUME NEW q \in Procs
        PROVE  /\ Object(q, "_phasecache")' \in Sets
               /\ \A r \in Properties :
                     /\ r \in dict'[q] \/ filecache'[q][r].same # {} => filecache'[q][r].there
                     /\ filecache'[q][r].same \subseteq Tracked[r]
    <3>1. CASE q = p
      <4>1. ASSUME NEW r \in Properties
            PROVE  /\ r \in dict'[p] \/ filecache'[p][r].same # {} => filecache'[p][r].there
                   /\ filecache'[p][r].same \subseteq Tracked[r]
        BY <1>1, <1>2, <1>6, <1>8 DEF Types
      <4> QED
        BY <1>2, <1>9, <3>1, <4>1 DEF Types
    <3>2. CASE q # p
      BY <1>1, <1>2, <1>8, <3>2 DEF Types, Object
    <3> QED
      BY <3>1, <3>2
  <2>2. saved' \in Stored /\ Cl(saved') = {}
    BY <1>1, EmptyIs
  <2>3. \A c \in Cl(disk') \cup Cl(saved') \cup Cl(wanted') : c \in 1..next' - 1
    BY <1>1, <1>2, <2>2 DEF Types, Cl
  <2> QED
    BY <1>1, <1>2, <1>4, <1>8, <2>1, <2>2, <2>3 DEF Types
<1>11. Steps'
  <2>1. \A q \in Procs : ~Ending(q)'
    BY <1>3, <1>4 DEF IInv, Steps, Ending
  <2> QED
    BY <1>1, <2>1 DEF Steps
<1>12. /\ Cl(disk) = Cl(wanted) /\ Bm(disk) = Bm(wanted) /\ Resolved(Bm(disk), Cl(disk))
       /\ Object(p, "changelog") = Cl(disk)
       /\ "_bookmarks" \in dict[p] => Object(p, "_bookmarks") = Bm(disk)
       /\ "00changelog.i" \notin filecache[p]["_bookmarks"].same
       /\ Resolved(Bm(wanted), Cl(wanted))
  BY <1>1, <1>3 DEF IInv, OnDisk, Closing, FilesResolve
<1>13. OnDisk'
  <2>1. Meant' /\ Begun' /\ Closing' /\ Aborting'
    BY <1>1, <1>12 DEF Meant, Settled, Begun, Closing, Aborting, Cl, Bm
  <2>2. FilesResolve'
    BY <1>1, <1>12 DEF FilesResolve, Resolved, Cl, Bm
  <2> QED
    BY <2>1, <2>2 DEF OnDisk
<1>14. ASSUME NEW q \in Procs
       PROVE  InMemory(q)'
  <2>1. CASE q = p
    <3>1. StepsOf(p)' /\ ~Computing(p)' /\ ~Ending(p)'
      BY <1>4 DEF StepsOf, Computing, Ending
    <3>2. HeldBy(p)'
      BY <1>1, <1>9, <1>12 DEF HeldBy, Cl, Bm
    <3>3. Changed(p, "_bookmarks")' = {} =>
             Object(p, "_bookmarks") = KnownMarks(Bm(disk), Cl(disk))
      <4>1. CASE "_bookmarks" \in dict[p]
        <5>1. Bm(disk) \in Marks
          BY <1>2, StoredIs DEF Types
        <5> QED
          BY <1>12, <4>1, <5>1, KnownMarksResolve
      <4>2. CASE "_bookmarks" \notin dict[p]
        <5>1. filecache'[p]["_bookmarks"] = filecache[p]["_bookmarks"]
          BY <1>6, <1>8, <4>2 DEF Properties
        <5> QED
          BY <1>12, <5>1, Names DEF Changed
      <4> QED
        BY <4>1, <4>2
    <3>4. ValidFor(p)'
      BY <1>1, <1>9, <1>12, <3>1, <3>3 DEF ValidFor, Cl, Bm
    <3>5. NamedFor(p)'
      BY <1>1, <1>3, <1>9, <1>12 DEF NamedFor, Resolved
    <3> QED
      BY <2>1, <3>1, <3>2, <3>4, <3>5 DEF InMemory
  <2>2. CASE q # p
    <3>1. tr # q
      BY <1>3, <2>2
    <3> QED
      BY <1>1, <1>4, <1>8, <2>2, <3>1, OtherProcess DEF Cl, Bm, RolledBack
  <2> QED
    BY <2>1, <2>2
<1> QED
  BY <1>10, <1>11, <1>13, <1>14 DEF IInv

\* The transaction fails.
LEMMA AbortInv ==
    ASSUME IInv, NEW p \in Procs, Abort(p)
    PROVE  IInv'
<1>1. /\ pc[p] = "close" /\ todo' = {f \in Files : disk[f] # saved[f]} /\ wanted' = saved
      /\ Goto(p, "abort")
      /\ UNCHANGED <<disk, lock, tr, next, saved, dict, filecache, using, read>>
  BY DEF Abort
<1>2. Types
  BY DEF IInv
<1>3. tr = p /\ p # NoProc
  BY <1>1, RepoCacheAssumption DEF IInv, Steps, Ending
<1>4. /\ pc' \in [Procs -> Labels] /\ pc'[p] = "abort"
      /\ \A q \in Procs : q # p => pc'[q] = pc[q]
  BY <1>1, <1>2 DEF Goto, Types, Labels
<1>5. Types'
  BY <1>1, <1>2, <1>4 DEF Types, Object, Cl
<1>6. Steps'
  BY <1>1, <1>3, <1>4 DEF IInv, Steps, Ending
<1>7. /\ Cl(saved) \subseteq Cl(disk) /\ Cl(saved) \subseteq Cl(wanted)
      /\ Resolved(Bm(saved), Cl(saved))
  BY <1>3 DEF IInv, OnDisk, FilesResolve
<1>8. /\ "00changelog.i" \notin todo' => Cl(disk) = Cl(saved)
      /\ "bookmarks" \notin todo' => Bm(disk) = Bm(saved)
  BY <1>1 DEF Files, Cl, Bm
<1>9. /\ Cl(disk)' = Cl(disk) /\ Bm(disk)' = Bm(disk) /\ Cl(wanted)' = Cl(saved)
      /\ Bm(wanted)' = Bm(saved) /\ Cl(saved)' = Cl(saved) /\ Bm(saved)' = Bm(saved)
  BY <1>1 DEF Cl, Bm
<1>10. OnDisk'
  <2>1. Meant' /\ Begun' /\ Closing'
    BY <1>1, <1>3, <1>4 DEF Meant, Settled, Begun, Closing, Ending
  <2>2. Aborting'
    BY <1>8, <1>9 DEF Aborting
  <2>3. FilesResolve'
    BY <1>1, <1>3, <1>4, <1>7, <1>8, <1>9 DEF FilesResolve, Resolved
  <2> QED
    BY <2>1, <2>2, <2>3 DEF OnDisk
<1>11. RolledBack \subseteq RolledBack'
  BY <1>1, <1>7, <1>9 DEF RolledBack, Cl
<1>12. ASSUME NEW q \in Procs
       PROVE  InMemory(q)'
  <2>1. CASE q = p
    <3>1. HeldBy(p)' /\ ValidFor(p)' /\ StepsOf(p)'
      BY <1>4 DEF HeldBy, ValidFor, StepsOf, Ending, Computing
    <3>2. NamedFor(p)'
      BY <1>1, <1>9, <1>11 DEF IInv, InMemory, NamedFor, Resolved, Object
    <3> QED
      BY <2>1, <3>1, <3>2 DEF InMemory
  <2>2. CASE q # p
    BY <1>1, <1>4, <1>9, <1>11, <2>2, OtherProcess
  <2> QED
    BY <2>1, <2>2
<1> QED
  BY <1>5, <1>6, <1>10, <1>12 DEF IInv

\* A file is put back.
LEMMA RestoreInv ==
    ASSUME IInv, NEW p \in Procs, NEW f \in Files, Restore(p, f)
    PROVE  IInv'
<1>1. PICK content : content = saved[f]
  OBVIOUS
<1>2. /\ pc[p] = "abort" /\ f \in todo /\ Replace(f, content) /\ todo' = todo \ {f}
      /\ UNCHANGED <<lock, tr, next, saved, wanted, dict, pc, using, read>>
  BY <1>1 DEF Restore
<1>3. Types
  BY DEF IInv
<1>4. tr = p /\ Ending(p) /\ p # NoProc /\ todo \subseteq Files
  BY <1>2, RepoCacheAssumption DEF IInv, Steps, Ending
<1>5. /\ Cl(wanted) = Cl(saved) /\ Bm(wanted) = Bm(saved)
      /\ "00changelog.i" \notin todo => Cl(disk) = Cl(saved)
      /\ "bookmarks" \notin todo => Bm(disk) = Bm(saved)
      /\ Cl(saved) \subseteq Cl(disk) /\ Resolved(Bm(saved), Cl(saved))
      /\ Resolved(Bm(wanted), Cl(wanted))
  BY <1>2, <1>4 DEF IInv, OnDisk, Aborting, FilesResolve
<1>6. /\ disk' = [disk EXCEPT ![f] = content]
      /\ \A q \in Procs : \A s \in Properties : filecache'[q][s].obj = filecache[q][s].obj
  BY <1>2, <1>3, ReplaceIs
<1>7. disk \in Stored /\ saved \in Stored
  BY <1>3 DEF Types
<1>8. /\ Cl(disk)' = IF f = "00changelog.i" THEN Cl(saved) ELSE Cl(disk)
      /\ Bm(disk)' = IF f = "bookmarks" THEN Bm(saved) ELSE Bm(disk)
      /\ Cl(wanted)' = Cl(wanted) /\ Bm(wanted)' = Bm(wanted)
      /\ Cl(saved)' = Cl(saved) /\ Bm(saved)' = Bm(saved)
  <2>1. disk \in [Files -> Contents]
    BY <1>7, StoredIs
  <2> QED
    BY <1>1, <1>2, <1>6, <2>1 DEF Cl, Bm, Files
<1>9. Cl(disk)' = Cl(disk) \/ Cl(disk)' = Cl(saved)
  BY <1>8
<1>10. disk' \in Stored
  <2>1. disk \in [Files -> Contents] /\ saved \in [Files -> Contents]
        /\ disk["phaseroots"] \in Sets /\ saved["phaseroots"] \in Sets
        /\ Cl(disk) \in Sets /\ Cl(saved) \in Sets /\ Bm(disk) \in Marks /\ Bm(saved) \in Marks
    BY <1>7, StoredIs
  <2>2. disk' \in [Files -> Contents]
    BY <1>1, <1>6, <2>1
  <2>3. disk'["phaseroots"] \in Sets
    BY <1>1, <1>6, <2>1 DEF Files
  <2>4. Cl(disk)' \in Sets /\ Bm(disk)' \in Marks
    BY <1>8, <2>1
  <2> QED
    BY <2>2, <2>3, <2>4 DEF Stored, Cl, Bm
<1>11. Types'
  <2>1. \A c \in Cl(disk') : c \in 1..next - 1
    BY <1>3, <1>9 DEF Types, Cl
  <2> QED
    BY <1>2, <1>3, <1>10, <2>1, ReplacedTypes
<1>12. Steps'
  BY <1>2, <1>4 DEF IInv, Steps, Ending
<1>13. Meant' /\ Begun' /\ Closing'
  BY <1>2, <1>4 DEF Meant, Settled, Begun, Closing, Ending
<1>14. Aborting'
  BY <1>2, <1>5, <1>8 DEF Aborting
<1>15. FilesResolve'
  <2>1. Cl(saved) \subseteq Cl(disk)'
    BY <1>5, <1>9
  <2>2. "bookmarks" \notin todo' => Bm(disk)' = Bm(saved)
    BY <1>2, <1>5, <1>8
  <2> QED
    BY <1>2, <1>4, <1>5, <1>8, <2>1, <2>2 DEF FilesResolve, Resolved
<1>16. ASSUME NEW q \in Procs
       PROVE  InMemory(q)'
  <2>1. CASE q = p
    <3>1. pc'[p] = "abort"
      BY <1>2
    <3>2. HeldBy(p)' /\ ValidFor(p)' /\ StepsOf(p)'
      BY <3>1 DEF HeldBy, ValidFor, StepsOf, Ending, Computing
    <3>3. Object(p, "changelog")' = Object(p, "changelog")
          /\ Object(p, "_bookmarks")' = Object(p, "_bookmarks") /\ "changelog" \in dict[p]
      BY <1>4, <1>6, InTransaction DEF Object, Properties
    <3>4. NamedFor(p)'
      BY <1>2, <3>3 DEF IInv, InMemory, NamedFor, Resolved, RolledBack
    <3> QED
      BY <2>1, <3>2, <3>4 DEF InMemory
  <2>2. CASE q # p
    <3>1. f = "00changelog.i" => \A c \in Cl(disk) : c \in content \/ c \in RolledBack
      <4>1. \A c \in Cl(disk) : c \in 1..next - 1
        BY <1>3 DEF Types
      <4> QED
        BY <1>1, <1>5, <4>1 DEF RolledBack, Cl
    <3> QED
      BY <1>2, <1>3, <1>4, <2>2, <3>1, OtherProcessReplaced
  <2> QED
    BY <2>1, <2>2
<1> QED
  BY <1>11, <1>12, <1>13, <1>14, <1>15, <1>16 DEF IInv, OnDisk

\* The files are put back: everything is forgotten.
LEMMA AbortedInv ==
    ASSUME IInv, NEW p \in Procs, Aborted(p)
    PROVE  IInv'
<1>1. /\ pc[p] = "abort" /\ todo = {} /\ Forget(p) /\ tr' = NoProc /\ saved' = Empty
      /\ Goto(p, "ready")
      /\ UNCHANGED <<disk, lock, todo, next, wanted, using, read>>
  BY DEF Aborted
<1>2. Types
  BY DEF IInv
<1>3. tr = p /\ p # NoProc
  BY <1>1, RepoCacheAssumption DEF IInv, Steps, Ending
<1>4. /\ pc' \in [Procs -> Labels] /\ pc'[p] = "ready"
      /\ \A q \in Procs : q # p => pc'[q] = pc[q]
  BY <1>1, <1>2 DEF Goto, Types, Labels
<1>5. /\ dict' \in [Procs -> SUBSET Properties] /\ dict'[p] = {}
      /\ filecache' \in [Procs -> [Properties -> Entries]]
      /\ \A r \in Properties : filecache'[p][r].same = {}
      /\ filecache'[p]["_phasecache"].obj \in Sets
      /\ \A q \in Procs : q # p => dict'[q] = dict[q] /\ filecache'[q] = filecache[q]
  BY <1>1, <1>2, ForgetIs
<1>6. Types'
  <2>1. ASSUME NEW q \in Procs
        PROVE  /\ Object(q, "_phasecache")' \in Sets
               /\ \A r \in Properties :
                     /\ r \in dict'[q] \/ filecache'[q][r].same # {} => filecache'[q][r].there
                     /\ filecache'[q][r].same \subseteq Tracked[r]
    <3>1. CASE q = p
      BY <1>5, <3>1 DEF Object
    <3>2. CASE q # p
      BY <1>2, <1>5, <3>2 DEF Types, Object
    <3> QED
      BY <3>1, <3>2
  <2>2. saved' \in Stored /\ Cl(saved') = {}
    BY <1>1, EmptyIs
  <2>3. \A c \in Cl(disk') \cup Cl(saved') \cup Cl(wanted') : c \in 1..next' - 1
    BY <1>1, <1>2, <2>2 DEF Types, Cl
  <2> QED
    BY <1>1, <1>2, <1>4, <1>5, <2>1, <2>2, <2>3 DEF Types
<1>7. Steps'
  <2>1. \A q \in Procs : ~Ending(q)'
    BY <1>3, <1>4 DEF IInv, Steps, Ending
  <2> QED
    BY <1>1, <2>1 DEF Steps
<1>8. /\ Cl(disk) = Cl(wanted) /\ Bm(disk) = Bm(wanted)
      /\ Resolved(Bm(wanted), Cl(wanted))
  BY <1>1, <1>3 DEF IInv, OnDisk, Aborting, FilesResolve
<1>9. OnDisk'
  <2>1. Meant' /\ Begun' /\ Closing' /\ Aborting'
    BY <1>1, <1>8 DEF Meant, Settled, Begun, Closing, Aborting, Cl, Bm
  <2>2. FilesResolve'
    BY <1>1, <1>8 DEF FilesResolve, Resolved, Cl, Bm
  <2> QED
    BY <2>1, <2>2 DEF OnDisk
<1>10. ASSUME NEW q \in Procs
       PROVE  InMemory(q)'
  <2>1. CASE q = p
    <3>1. StepsOf(p)' /\ HeldBy(p)' /\ NamedFor(p)'
      BY <1>4, <1>5 DEF StepsOf, Computing, HeldBy, NamedFor
    <3>2. filecache'[p]["changelog"].same = {} /\ filecache'[p]["_bookmarks"].same = {}
      BY <1>5 DEF Properties
    <3>3. ValidFor(p)'
      BY <1>4, <1>5, <3>2, Names DEF ValidFor, Changed
    <3> QED
      BY <2>1, <3>1, <3>3 DEF InMemory
  <2>2. CASE q # p
    <3>1. tr # q
      BY <1>3, <2>2
    <3> QED
      BY <1>1, <1>4, <1>5, <2>2, <3>1, OtherProcess DEF Cl, Bm, RolledBack
  <2> QED
    BY <2>1, <2>2
<1> QED
  BY <1>6, <1>7, <1>9, <1>10 DEF IInv

-----------------------------------------------------------------------------
(* The invariant *)

\* At the start there are no files and no process has read any.
LEMMA InitInv == Init => IInv
<1> SUFFICES ASSUME Init
             PROVE  IInv
  OBVIOUS
<1>1. /\ disk = Empty /\ saved = Empty /\ wanted = Empty
      /\ lock = NoProc /\ tr = NoProc /\ todo = {} /\ next = 1
      /\ dict = [p \in Procs |-> {}]
      /\ filecache = [p \in Procs |-> [r \in Properties |-> NoEntry(r)]]
      /\ pc = [p \in Procs |-> "ready"]
      /\ using = [p \in Procs |-> "changelog"]
      /\ read = [p \in Procs |-> {}]
  BY DEF Init
<1>2. ASSUME NEW r \in Properties
      PROVE  NoEntry(r) \in Entries /\ NoEntry(r).same = {}
  <2>1. Empty[FileOf[r]] \in Contents
    BY Names DEF Empty, NoMarks, Contents, Marks, Sets, Properties, Files
  <2> QED
    BY <2>1 DEF NoEntry, Entries
<1>3. NoEntry("_phasecache").obj \in Sets /\ "_phasecache" \in Properties
  BY Names DEF NoEntry, Empty, Sets, Files, Properties
<1>4. Types
  <2>1. filecache \in [Procs -> [Properties -> Entries]]
    BY <1>1, <1>2
  <2>2. /\ pc \in [Procs -> Labels] /\ using \in [Procs -> Properties]
        /\ dict \in [Procs -> SUBSET Properties] /\ read \in [Procs -> Sets]
    BY <1>1 DEF Labels, Properties, Sets
  <2>3. ASSUME NEW p \in Procs
        PROVE  /\ Object(p, "_phasecache") \in Sets
               /\ \A r \in Properties :
                     dict[p] = {} /\ filecache[p][r].same = {}
    BY <1>1, <1>2, <1>3 DEF Object
  <2> QED
    BY <1>1, <2>1, <2>2, <2>3, EmptyIs DEF Types
<1>5. Steps
  BY <1>1 DEF Steps, Ending
<1>6. OnDisk
  <2>1. Resolved(Bm(Empty), Cl(Empty))
    BY EmptyIs DEF Resolved, NoMarks
  <2> QED
    BY <1>1, <2>1 DEF OnDisk, Meant, Begun, Closing, Aborting, FilesResolve
<1>7. ASSUME NEW p \in Procs
      PROVE  InMemory(p)
  <2>1. pc[p] = "ready" /\ dict[p] = {}
    BY <1>1
  <2>2. filecache[p]["changelog"].same = {} /\ filecache[p]["_bookmarks"].same = {}
    BY <1>1, <1>2 DEF Properties
  <2>3. StepsOf(p) /\ HeldBy(p) /\ NamedFor(p)
    BY <2>1 DEF StepsOf, Computing, HeldBy, NamedFor
  <2>4. ValidFor(p)
    BY <2>1, <2>2, Names DEF ValidFor, Changed
  <2> QED
    BY <2>3, <2>4 DEF InMemory
<1> QED
  BY <1>4, <1>5, <1>6, <1>7 DEF IInv

\* Every step preserves the invariant.
LEMMA NextInv == IInv /\ [Next]_vars => IInv'
<1> SUFFICES ASSUME IInv, [Next]_vars
             PROVE  IInv'
  OBVIOUS
<1>1. CASE Next
  <2>1. ASSUME NEW p \in Procs, NEW r \in Properties, Use(p, r) PROVE IInv'
    BY <2>1, UseInv
  <2>2. ASSUME NEW p \in Procs, NEW r \in Properties, Write(p, r) PROVE IInv'
    BY <2>2, WriteInv
  <2>3. ASSUME NEW p \in Procs, UseChangelog(p) PROVE IInv'
    BY <2>3, UseChangelogInv
  <2>4. ASSUME NEW p \in Procs, ReadChangelog(p) PROVE IInv'
    BY <2>4, ReadChangelogInv
  <2>5. ASSUME NEW p \in Procs, RefreshChangelog(p) PROVE IInv'
    BY <2>5, RefreshChangelogInv
  <2>6. ASSUME NEW p \in Procs, ReadBookmarks(p) PROVE IInv'
    BY <2>6, ReadBookmarksInv
  <2>7. ASSUME NEW p \in Procs, ReadRoots(p) PROVE IInv'
    BY <2>7, ReadRootsInv
  <2>8. ASSUME NEW p \in Procs, FilterUnknown(p) PROVE IInv'
    BY <2>8, FilterUnknownInv
  <2>9. ASSUME NEW p \in Procs, Invalidate(p) PROVE IInv'
    BY <2>9, InvalidateInv
  <2>10. ASSUME NEW p \in Procs, Lock(p) PROVE IInv'
    BY <2>10, LockInv
  <2>11. ASSUME NEW p \in Procs, Unlock(p) PROVE IInv'
    BY <2>11, UnlockInv
  <2>12. ASSUME NEW p \in Procs, Begin(p) PROVE IInv'
    BY <2>12, BeginInv
  <2>13. ASSUME NEW p \in Procs, NEW root \in BOOLEAN, NEW mark \in BOOLEAN, Add(p, root, mark)
         PROVE  IInv'
    BY <2>13, AddInv
  <2>14. ASSUME NEW p \in Procs, Close(p) PROVE IInv'
    BY <2>14, CloseInv
  <2>15. ASSUME NEW p \in Procs, Abort(p) PROVE IInv'
    BY <2>15, AbortInv
  <2>16. ASSUME NEW p \in Procs, Aborted(p) PROVE IInv'
    BY <2>16, AbortedInv
  <2>17. ASSUME NEW p \in Procs, NEW f \in Files, Restore(p, f) PROVE IInv'
    BY <2>17, RestoreInv
  <2> QED
    BY <1>1, <2>1, <2>2, <2>3, <2>4, <2>5, <2>6, <2>7, <2>8, <2>9, <2>10, <2>11, <2>12,
       <2>13, <2>14, <2>15, <2>16, <2>17, Zenon DEF Next
<1>2. CASE UNCHANGED vars
  <2>1. UNCHANGED <<disk, lock, tr, dict, filecache, pc, using, read, todo, next, saved, wanted>>
    BY <1>2 DEF vars
  <2>2. Types' /\ Steps'
    BY <2>1 DEF IInv, Types, Steps, Ending, Object, Cl
  <2>3. OnDisk'
    BY <2>1 DEF IInv, OnDisk, Meant, Settled, Begun, Closing, Aborting, FilesResolve, Resolved,
                Ending, Object, Cl, Bm
  <2>4. \A q \in Procs : InMemory(q)'
    BY <2>1, OtherProcess DEF RolledBack, Cl, Bm
  <2> QED
    BY <2>2, <2>3, <2>4 DEF IInv
<1> QED
  BY <1>1, <1>2

\* The inductive invariant holds in every behaviour.
LEMMA Inductive == Spec => []IInv
<1> QED
  BY InitInv, NextInv, PTL DEF Spec

-----------------------------------------------------------------------------
(* The theorems *)

\* RepoCacheTypeOK: types, and what is in use has an entry in _filecache.
THEOREM TypeCorrect == Spec => []RepoCacheTypeOK
<1>1. IInv => RepoCacheTypeOK
  <2> SUFFICES ASSUME IInv
               PROVE  RepoCacheTypeOK
    OBVIOUS
  <2>1. /\ disk["phaseroots"] \in Sets /\ disk["00changelog.i"] \in Sets
        /\ disk["bookmarks"] \in Marks
    BY FilesOf
  <2>2. \A p \in Procs : \A r \in Properties :
          /\ r \in dict[p] => filecache[p][r].there
          /\ filecache[p][r].same \subseteq Tracked[r]
    BY DEF IInv, Types
  <2>3. /\ tr # NoProc => lock = tr /\ "changelog" \in dict[tr]
        /\ todo \subseteq Files /\ (todo # {} => tr # NoProc)
    BY DEF IInv, Steps
  <2> QED
    BY <2>1, <2>2, <2>3 DEF RepoCacheTypeOK, Sets, Marks
<1> QED
  BY <1>1, Inductive, PTL

\* NothingOverwritten: whenever nobody has the lock, the changelog and the bookmarks are
\* what the transactions that closed meant them to be.
THEOREM NothingLost == Spec => []NothingOverwritten
<1>1. IInv => NothingOverwritten
  <2> SUFFICES ASSUME IInv, Idle
               PROVE  disk["00changelog.i"] = wanted["00changelog.i"]
                      /\ disk["bookmarks"] = wanted["bookmarks"]
    BY DEF NothingOverwritten
  <2>1. tr = NoProc
    BY RepoCacheAssumption DEF IInv, Steps, Idle
  <2> QED
    BY <2>1 DEF IInv, OnDisk, Meant, Settled, Cl, Bm
<1> QED
  BY <1>1, Inductive, PTL

\* MarksResolve: with or without the lock, bookmarks in use name changesets of the
\* changelog in use, or changesets that were rolled back.
THEOREM MarksAlwaysResolve == Spec => []MarksResolve
<1>1. IInv => MarksResolve
  BY DEF IInv, InMemory, NamedFor, Resolved, MarksResolve
<1> QED
  BY <1>1, Inductive, PTL

\* ValidIsTrue: an object that stat() would let a process use again is what the process
\* would compute.
THEOREM ValidIsCurrent == Spec => []ValidIsTrue
<1>1. IInv => ValidIsTrue
  <2> SUFFICES ASSUME IInv, Idle, NEW p \in Procs, pc[p] = "ready"
               PROVE  /\ Changed(p, "changelog") = {} =>
                            Object(p, "changelog") = disk["00changelog.i"]
                      /\ Changed(p, "_bookmarks") = {} =>
                            Object(p, "_bookmarks") = disk["bookmarks"]
    BY Names DEF ValidIsTrue
  <2>1. todo = {} /\ ~Ending(p) /\ ~Computing(p)
    BY RepoCacheAssumption DEF IInv, Steps, Idle, Ending, Computing
  <2>2. Resolved(Bm(disk), Cl(disk)) /\ Bm(disk) \in Marks
    BY <2>1, FilesOf DEF IInv, OnDisk, FilesResolve, Bm
  <2>3. KnownMarks(Bm(disk), Cl(disk)) = Bm(disk)
    BY <2>2, KnownMarksResolve
  <2> QED
    BY <2>1, <2>3 DEF IInv, InMemory, ValidFor, Cl, Bm
<1> QED
  BY <1>1, Inductive, PTL
=============================================================================
