------------------------------- MODULE Strip -------------------------------
(***************************************************************************)
(* hg strip (src/mercurial/repair.py): removing changesets from files that *)
(* can only be truncated.  The files are cut at the first revision to go,  *)
(* which takes away later changesets that are to stay, and file revisions  *)
(* of earlier ones where a file has its revisions in another order; all of *)
(* these are saved in a temporary bundle first and applied again after.    *)
(*                                                                         *)
(* The strip puts into the journal where it is going to cut, not where the *)
(* files end: hg recover completes an interrupted cut.                     *)
(*                                                                         *)
(* A changeset is a number, and the file revision (node) it introduces has *)
(* the number of the first changeset that does.  Lengths count revisions.  *)
(***************************************************************************)
EXTENDS Dag, Sequences, FiniteSetsExt, SequencesExt

CONSTANTS
    Files,             \* the logs besides the changelog
    Changelog,         \* 00changelog.i
    Absent,            \* no such file
    MaxStrip,          \* bound: strips begun
    MaxCrash,          \* bound: times the process dies or fails
    CrashInGroup       \* may it die while endgroup() writes?

Rev == [node : Changesets, link : Changesets]

ASSUME StripAssumption ==
    /\ MaxStrip \in Nat /\ MaxCrash \in Nat /\ CrashInGroup \in BOOLEAN
    /\ Changelog \notin Files /\ IsFiniteSet(Files)

\* What the variables hold.
Entries == [log : Files \cup {Changelog}, len : Nat]
Bundles == [csets : Seq(Changesets), nodes : [Files -> SUBSET (1..N)]]

ASSUME AbsentAssumption == Absent \notin Seq(Entries) /\ Absent \notin Bundles

VARIABLES
    (* what changesets are, which no step changes *)
    manifest,          \* the node each file has in a changeset; 0 for no such file
    node,              \* the node the changeset introduces in it; 0 for none
    (* the repository *)
    changelog,         \* the changesets, in their order
    filelog,           \* for each file its nodes, with the changelog revision
                       \* each is linked to
    journal,           \* where the files are to be truncated, or Absent
    backup, temp,      \* the bundles in .hg/strip-backup
    (* the process *)
    pc,
    strip,             \* the changesets to remove
    queue,             \* journal entries not written, cuts not made, or files
                       \* not received
    added,             \* the changesets received, not in the changelog yet
    unbundle,          \* is it hg unbundle that runs?
    (* history *)
    before,            \* the changesets at the start of the strip
    strips, crashes

graph == <<ancestors, manifest, node>>
logs == <<changelog, filelog>>
bundles == <<backup, temp>>
goal == <<strip, unbundle, before>>
bounds == <<strips, crashes>>
vars == <<graph, logs, journal, bundles, pc, goal, queue, added, bounds>>

-----------------------------------------------------------------------------
(* The graph *)

\* The nodes a changeset finds in a file when it changes it.
NodeParents(f, c) == {manifest[f][p] : p \in ParentsOf(c)} \ {0}

Nodes(f) == {r.node : r \in Range(filelog[f])}
RevOf(s, c) == CHOOSE i \in DOMAIN s : s[i] = c

\* The members of a set in the order that they have in s.
InOrderOf(s, S) ==
    {t \in SetToSeqs(S) :
        \A i, j \in DOMAIN t : i < j => RevOf(s, t[i]) < RevOf(s, t[j])}

\* Parents come first in a file.
Sorted(f, s) ==
    \A i \in DOMAIN s : \A n \in NodeParents(f, s[i]) :
        \E j \in 1..(i - 1) : s[j] = n

-----------------------------------------------------------------------------
(* Where to cut: storageutil.resolvestripinfo() *)

ParentRevs(f, r) ==
    {i \in DOMAIN filelog[f] : filelog[f][i].node \in
                                   NodeParents(f, filelog[f][r].node)}

HeadRevs(f) == DOMAIN filelog[f] \ UNION {ParentRevs(f, r) : r \in DOMAIN filelog[f]}

\* Those of a set of revisions linked to minlink or later, by their links.
LargeLinks(f, revs, minlink) ==
    {filelog[f][r].link : r \in {q \in revs : filelog[f][q].link >= minlink}}

\* One round of the walk down from the heads.
WalkDown(f, minlink, s) ==
    LET r == s.point - 1
        link == filelog[f][r].link
    IN [point |-> r,
        large |-> (s.large \ {link}) \cup LargeLinks(f, ParentRevs(f, r), minlink),
        broken |-> IF link < minlink THEN s.broken \cup {r} ELSE s.broken]

\* The walk stops once no revision linked to minlink or later is ahead.
Walk(f, minlink) ==
    LET walk[k \in 0..Len(filelog[f])] ==
            IF k = 0 THEN [point |-> Len(filelog[f]) + 1, broken |-> {},
                           large |-> LargeLinks(f, HeadRevs(f), minlink)]
            ELSE IF walk[k - 1].large = {} THEN walk[k - 1]
            ELSE WalkDown(f, minlink, walk[k - 1])
    IN walk

\* Where to truncate, and the revisions lost that should not be.
StripInfo(f, minlink) == Walk(f, minlink)[Len(filelog[f])]

-----------------------------------------------------------------------------
(* What to save *)

StripRev == Min({RevOf(changelog, c) : c \in strip})
Later == {changelog[i] : i \in StripRev..Len(changelog)}

\* Mutant: the files of the first changeset to go are left out.
AffectedAbove == {f \in Files : \E c \in Later : RevOf(changelog, c) > StripRev /\ node[f][c] # 0}

\* _collectfiles()
Affected == {f \in Files : \E c \in Later : node[f][c] # 0}

\* _collectbrokencsets()
Broken ==
    UNION {{changelog[filelog[f][r].link] : r \in StripInfo(f, StripRev).broken} :
              f \in Affected}

Save == Broken \cup (Later \ strip)

SaveHeads == {c \in Save : \A d \in Later \ strip : c \notin ParentsOf(d)}
SaveBases == {c \in Save : ancestors[c] \cap Save = {c}}

\* discovery.outgoing(missingroots, ancestorsof): the changesets between are
\* missing, the parents of the roots are common.
CommonHeads(roots, heads) ==
    (UNION {ParentsOf(c) : c \in roots}) \ Between(roots, heads)

\* backupbundle(): a file revision goes into the bundle when a changeset of the
\* bundle introduces it, unless it is linked to a common one.
Bundle(roots, allheads) ==
    LET heads == allheads \cap DescendantsOf(roots)
        common == AncestorsOf(CommonHeads(roots, heads))
        missing == AncestorsOf(heads) \ common
        outgoing(f, r) == /\ changelog[r.link] \notin common
                          /\ \E c \in missing : node[f][c] = r.node
    IN [csets : InOrderOf(changelog, missing),
        nodes : {[f \in Files |->
                     {r.node : r \in {q \in Range(filelog[f]) : outgoing(f, q)}}]}]

Heads == HeadsOf(Range(changelog))

-----------------------------------------------------------------------------
\* A repository as pulls leave it: the file revisions in any order that has the
\* parents first, each linked to the first changeset that introduces it.  Two
\* changesets have a node in common when they change a file in the same way.
IsManifest(f) ==
    \A c \in Changesets :
        IF node[f][c] # 0 THEN manifest[f][c] = node[f][c]
        ELSE manifest[f][c] \in {0} \cup {manifest[f][p] : p \in ParentsOf(c)}

IsIntroduction(f) ==
    \A c \in Changesets : LET n == node[f][c] IN
        n # 0 => n <= c /\ node[f][n] = n /\ NodeParents(f, n) = NodeParents(f, c)

Init ==
    /\ ancestors \in [Changesets -> SUBSET Changesets] /\ IsDag
    /\ node \in [Files -> [Changesets -> 0..N]]
    /\ manifest \in [Files -> [Changesets -> 0..N]]
    /\ \A f \in Files : IsManifest(f) /\ IsIntroduction(f)
    /\ changelog = [i \in 1..N |-> i]
    /\ \E order \in [Files -> UNION {SetToSeqs(S) : S \in SUBSET Changesets}] :
          /\ \A f \in Files : /\ Range(order[f]) = Range(node[f]) \ {0}
                              /\ Sorted(f, order[f])
          /\ filelog = [f \in Files |->
                [i \in DOMAIN order[f] |->
                    [node |-> order[f][i], link |-> order[f][i]]]]
    /\ journal = Absent /\ backup = Absent /\ temp = Absent
    /\ pc = "idle" /\ strip = {} /\ queue = <<>> /\ unbundle = FALSE
    /\ added = <<>> /\ before = {} /\ strips = 0 /\ crashes = 0

-----------------------------------------------------------------------------
(* repair.strip() *)

\* The changesets asked for go, with all that descends from them.
Start(roots) ==
    /\ pc = "idle" /\ strips < MaxStrip
    /\ strip' = Range(changelog) \cap DescendantsOf(roots)
    /\ before' = Range(changelog)
    /\ backup' = Absent /\ temp' = Absent
    /\ pc' = "backup" /\ unbundle' = FALSE
    /\ strips' = strips + 1
    /\ UNCHANGED <<graph, logs, journal, queue, added, crashes>>

WriteBackup ==
    /\ pc = "backup"
    /\ backup' \in Bundle(strip, Heads)
    /\ pc' = "temp"
    /\ UNCHANGED <<graph, logs, journal, temp, goal, queue, added, bounds>>

\* Mutant: only the changesets above the first to go are saved.
WriteTempLater ==
    /\ pc = "temp"
    /\ LET save == Later \ strip IN
       temp' \in IF save = {} THEN {Absent} ELSE Bundle(RootsOf(save), HeadsOf(save))
    /\ pc' = "open"
    /\ UNCHANGED <<graph, logs, journal, backup, goal, queue, added, bounds>>

WriteTemp ==
    /\ pc = "temp"
    /\ temp' \in IF SaveHeads = {} THEN {Absent} ELSE Bundle(SaveBases, SaveHeads)
    /\ pc' = "open"
    /\ UNCHANGED <<graph, logs, journal, backup, goal, queue, added, bounds>>

\* Where revlog.strip() cuts: the changelog, then the manifest and the files;
\* a log that loses nothing is left alone.
FileCuts ==
    LET cut(f) == [log |-> f, len |-> StripInfo(f, StripRev).point - 1]
    IN {cut(f) : f \in {g \in Affected : StripInfo(g, StripRev).point <= Len(filelog[g])}}

\* tr.startgroup(): the cuts are queued.
OpenStrip ==
    /\ pc = "open"
    /\ journal' = <<>>
    /\ \E cuts \in SetToSeqs(FileCuts) :
          queue' = <<[log |-> Changelog, len |-> StripRev - 1]>> \o cuts
    /\ pc' = "group"
    /\ UNCHANGED <<graph, logs, bundles, goal, added, bounds>>

\* tr.endgroup(): they are written to the journal, a line at a time.
WriteEntry ==
    /\ pc = "group" /\ queue # <<>>
    /\ journal' = Append(journal, Head(queue))
    /\ queue' = Tail(queue)
    /\ UNCHANGED <<graph, logs, bundles, pc, goal, added, bounds>>

EndGroup ==
    /\ pc = "group" /\ queue = <<>>
    /\ queue' = journal
    /\ pc' = "cut"
    /\ UNCHANGED <<graph, logs, journal, bundles, goal, added, bounds>>

CutTo(s, len) == SubSeq(s, 1, Min({len, Len(s)}))

CutLog(e) ==
    IF e.log = Changelog
      THEN changelog' = CutTo(changelog, e.len) /\ filelog' = filelog
      ELSE /\ changelog' = changelog
           /\ filelog' = [filelog EXCEPT ![e.log] = CutTo(@, e.len)]

CutNext ==
    /\ pc = "cut" /\ queue # <<>>
    /\ CutLog(Head(queue))
    /\ queue' = Tail(queue)
    /\ UNCHANGED <<graph, journal, bundles, pc, goal, added, bounds>>

\* The transaction closes (Transaction.tla takes this apart).
CloseStrip ==
    /\ pc = "cut" /\ queue = <<>>
    /\ journal' = Absent
    /\ pc' = IF temp = Absent THEN "done" ELSE "apply"
    /\ UNCHANGED <<graph, logs, bundles, goal, queue, added, bounds>>

-----------------------------------------------------------------------------
(* Applying the temporary bundle, by the strip or by hg unbundle *)

\* A new transaction, whose journal has the present ends of the logs.  The
\* changelog comes first, but what is added to it stays in memory (delayupdate).
OpenApply ==
    /\ pc = "apply"
    /\ added' \in InOrderOf(temp.csets, Range(temp.csets) \ Range(changelog))
    /\ \E files \in SetToSeqs(Files) :
          /\ queue' = files
          /\ journal' = <<[log |-> Changelog, len |-> Len(changelog)]>> \o
                [i \in DOMAIN files |->
                    [log |-> files[i], len |-> Len(filelog[files[i]])]]
    /\ pc' = "files"
    /\ UNCHANGED <<graph, logs, bundles, goal, bounds>>

\* Mutant: the link is that of the last changeset that introduces the node.
LinkOfLast(f, n) ==
    LET last == Max({i \in DOMAIN temp.csets : node[f][temp.csets[i]] = n})
    IN RevOf(changelog \o added, temp.csets[last])

\* addgroup(): nodes that are there already are passed over; each new one is
\* linked to the first changeset of the bundle that introduces it.
LinkOf(f, n) ==
    LET first == Min({i \in DOMAIN temp.csets : node[f][temp.csets[i]] = n})
    IN RevOf(changelog \o added, temp.csets[first])

ApplyFile ==
    /\ pc = "files" /\ queue # <<>>
    /\ LET f == Head(queue)
           have == [i \in DOMAIN filelog[f] |-> filelog[f][i].node]
       IN \E new \in SetToSeqs(temp.nodes[f] \ Nodes(f)) :
             /\ Sorted(f, have \o new)
             /\ filelog' = [filelog EXCEPT ![f] = @ \o
                   [i \in DOMAIN new |-> [node |-> new[i], link |-> LinkOf(f, new[i])]]]
    /\ queue' = Tail(queue)
    /\ UNCHANGED <<graph, changelog, journal, bundles, pc, goal, added, bounds>>

\* The changelog is written last, ...
ApplyChangelog ==
    /\ pc = "files" /\ queue = <<>>
    /\ changelog' = changelog \o added
    /\ added' = <<>>
    /\ pc' = "close"
    /\ UNCHANGED <<graph, filelog, journal, bundles, goal, queue, bounds>>

CloseApply ==
    /\ pc = "close"
    /\ journal' = Absent
    /\ pc' = "done"
    /\ UNCHANGED <<graph, logs, bundles, goal, queue, added, bounds>>

\* ... and the temporary bundle goes only when all this went well.  hg unbundle
\* leaves it.
Finish ==
    /\ pc = "done"
    /\ temp' = IF unbundle THEN temp ELSE Absent
    /\ pc' = "idle"
    /\ UNCHANGED <<graph, logs, journal, backup, goal, queue, added, bounds>>

-----------------------------------------------------------------------------
(* Failure *)

Working == {"backup", "temp", "open", "group", "cut", "apply", "files", "close", "done"}

\* The process dies; or it meets an error, which leaves the store as a crash and
\* hg recover do, because an abort plays the same journal.
Crash ==
    /\ pc \in Working /\ crashes < MaxCrash
    /\ pc = "group" /\ journal # <<>> /\ queue # <<>> => CrashInGroup
    /\ pc' = "crashed" /\ queue' = <<>> /\ added' = <<>>
    /\ crashes' = crashes + 1
    /\ UNCHANGED <<graph, logs, journal, bundles, goal, strips>>

\* hg recover truncates each log of the journal to the length it has there.
Played(log, s) ==
    LET entry == {e \in Range(journal) : e.log = log}
    IN IF entry = {} THEN s ELSE CutTo(s, (CHOOSE e \in entry : TRUE).len)

Recover ==
    /\ pc = "crashed" /\ journal # Absent
    /\ changelog' = Played(Changelog, changelog)
    /\ filelog' = [f \in Files |-> Played(f, filelog[f])]
    /\ journal' = Absent
    /\ UNCHANGED <<graph, bundles, pc, goal, queue, added, bounds>>

\* "(fix the problem, then recover the changesets with hg unbundle ...)"
Unbundle ==
    /\ pc = "crashed" /\ journal = Absent
    /\ pc' = IF temp = Absent THEN "done" ELSE "apply"
    /\ unbundle' = TRUE
    /\ UNCHANGED <<graph, logs, journal, bundles, strip, before, queue, added, bounds>>

Next ==
    \/ \E roots \in (SUBSET Range(changelog)) \ {{}} : Start(roots)
    \/ WriteBackup \/ WriteTemp \/ OpenStrip \/ WriteEntry \/ EndGroup
    \/ CutNext \/ CloseStrip
    \/ OpenApply \/ ApplyFile \/ ApplyChangelog \/ CloseApply \/ Finish
    \/ Crash \/ Recover \/ Unbundle

Spec == Init /\ [][Next]_vars

-----------------------------------------------------------------------------
(* Properties *)

TypeOK ==
    /\ node \in [Files -> [Changesets -> 0..N]]
    /\ manifest \in [Files -> [Changesets -> 0..N]]
    /\ changelog \in Seq(Changesets) /\ filelog \in [Files -> Seq(Rev)]
    /\ journal # Absent => journal \in Seq(Entries)
    /\ \A b \in {backup, temp} : b # Absent => b \in Bundles
    /\ pc \in Working \cup {"idle", "crashed"}
    /\ queue \in Seq(Entries) \cup Seq(Files) /\ added \in Seq(Changesets)
    /\ strip \subseteq Changesets /\ before \subseteq Changesets
    /\ unbundle \in BOOLEAN /\ strips \in Nat /\ crashes \in Nat

\* A changeset with its files: in the repository, or with the help of a bundle.
IsIn(c) == c \in Range(changelog) /\ \A f \in Files : manifest[f][c] \in Nodes(f) \cup {0}

IsInWith(c, bs) ==
    /\ c \in Range(changelog) \cup UNION {Range(b.csets) : b \in bs}
    /\ \A f \in Files : manifest[f][c] \in Nodes(f) \cup {0} \cup UNION {b.nodes[f] : b \in bs}

\* Wherever the strip is interrupted, each changeset that is to stay is in the
\* repository or can be had back from the temporary bundle (and those that go,
\* from the backup).
NothingLost ==
    \A c \in before :
        IsInWith(c, (IF c \in strip THEN {temp, backup} ELSE {temp}) \ {Absent})

\* The walk finds the first revision linked to minlink or later, and all those
\* after it that are linked to an earlier one.
StripPointIsLeast ==
    pc = "open" =>
        \A f \in Affected :
            LET revs == {r \in DOMAIN filelog[f] : filelog[f][r].link >= StripRev}
                info == StripInfo(f, StripRev)
                point == Min(revs \cup {Len(filelog[f]) + 1})
            IN /\ info.point = point
               /\ info.broken = {r \in DOMAIN filelog[f] : r > point} \ revs

\* A strip cuts each file at the right place, and one that is through has taken
\* away what it was to, and nothing else.
StripIsExact ==
    /\ StripPointIsLeast
    /\ pc = "done" /\ ~unbundle =>
        /\ Range(changelog) = before \ strip
        /\ \A c \in before \ strip : IsIn(c)
        /\ \A f \in Files : Nodes(f) \subseteq {node[f][c] : c \in before \ strip}

\* With no transaction open or left over, every file revision is linked to a
\* changeset that introduces it (what hg verify checks).
LinksResolve ==
    journal = Absent =>
        \A f \in Files : \A r \in Range(filelog[f]) :
            /\ r.link \in DOMAIN changelog
            /\ node[f][changelog[r.link]] = r.node

\* "the revs are topologically sorted according to linkrev": what
\* resolvestripinfo() relies on holds again after a strip.
LinksSorted ==
    pc = "idle" =>
        \A f \in Files : \A r \in DOMAIN filelog[f] : \A q \in ParentRevs(f, r) :
            filelog[f][q].link < filelog[f][r].link

\* After a strip, a crash or a recovery, the links of the files to the changelog
\* are those that verify and the next strip need.
LinksAreGood == LinksResolve /\ LinksSorted
=============================================================================
