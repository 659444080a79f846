---------------------------- MODULE Transaction ----------------------------
(***************************************************************************)
(* src/mercurial/transaction.py and its use by localrepo.py: a transaction *)
(* on .hg/store, one system call per action, with the process dying        *)
(* between any two of them and hg recover repairing the store afterwards.  *)
(*                                                                         *)
(* The store has two sorts of files:                                       *)
(*   - Logs, append-only (revlogs): the journal holds the length to        *)
(*     truncate to.  What a transaction appends to the changelog is kept   *)
(*     in memory and written when it closes;                               *)
(*   - Gens, replaced as a whole through an atomic rename (phaseroots,     *)
(*     bookmarks, fncache): a copy is kept, and journal.backupfiles says   *)
(*     which copy belongs to which file.                                   *)
(* A log is the sequence of the transactions that wrote its revisions; a   *)
(* generated file is the transaction that wrote it last.                   *)
(*                                                                         *)
(* The store lock (RepoLock.tla) gives the store one writer at a time, so  *)
(* the processes that come one after another are one sequence of steps.    *)
(***************************************************************************)
EXTENDS Integers, Sequences, FiniteSets

CONSTANTS
    Logs,              \* append-only files
    Changelog,         \* the one whose data is delayed
    PreGens,           \* generated files written before the finalizers
    PostGens,          \* generated files written after the finalizers
    DirectGens,        \* files the callers replace themselves (fncache)
    Absent,            \* no such file
    MaxTxn,            \* bound: transactions begun
    MaxLen,            \* bound: revisions of a log
    MaxNest,           \* bound: scopes open at a time, or left unclosed
    MaxCrash,          \* bound: times the process dies
    MaxFault,          \* bound: input/output errors while rolling back
    Faults,            \* where such an error may strike
    CrashReopening     \* may the process die in OpenBackupfiles' window
                       \* while an old journal.backupfiles is still there

Gens == PreGens \cup PostGens \cup DirectGens

\* An entry of journal.backupfiles: none, with a copy, or for a file that did
\* not exist ('backuppath' is empty).
EntryKinds == {"none", "copy", "nofile"}

\* An entry of the journal is the length of the file before the transaction.
NoEntry == -1
Offsets == Nat \cup {NoEntry}

Journals == [Logs -> Offsets]
BackupJournals == [gen : [Gens -> EntryKinds], tmp : SUBSET Gens]
EmptyJournal == [f \in Logs |-> NoEntry]
EmptyBackups == [gen |-> [g \in Gens |-> "none"], tmp |-> {}]

ASSUME FilesAssumption ==
    /\ Changelog \in Logs
    /\ IsFiniteSet(Logs) /\ IsFiniteSet(Gens)
    /\ PreGens \cap PostGens = {} /\ DirectGens \cap (PreGens \cup PostGens) = {}

ASSUME AbsentAssumption ==
    /\ Absent \notin Nat
    /\ Absent \notin Journals
    /\ Absent \notin BackupJournals

ASSUME BoundsAssumption ==
    /\ MaxTxn \in Nat /\ MaxLen \in Nat /\ MaxNest \in Nat
    /\ MaxCrash \in Nat /\ MaxFault \in Nat
    /\ Faults \subseteq {"truncate", "restore"}
    /\ CrashReopening \in BOOLEAN

VARIABLES
    (* .hg/store *)
    log,               \* the append-only files
    gen,               \* the generated files
    (* the files of the transaction *)
    journal,           \* 'journal': an offset for each log, or Absent
    backupfiles,       \* 'journal.backupfiles', or Absent
    backup,            \* the 'journal.backup.*' copies
    pending,           \* the generated files that have a '.pending' version
    undo,              \* 'undo', what the last commit made of its journal
    undobackupfiles,   \* 'undo.backupfiles'
    undobackup,        \* the 'undo.backup.*' copies
    (* the memory of the process that runs *)
    pc,                \* what it is doing
    cur,               \* the file operation in progress, if any
    todo,              \* what is left of the loop in progress
    count, usages,     \* _count and _usages of the transaction
    closed,            \* has the innermost scope called close()?
    buf,               \* delayed revisions of the changelog
    want,              \* what closing has yet to generate (_filegenerators,
                       \* and the finalizers that replace a file)
    (* history, for the properties and the bounds *)
    txn,               \* the number of the last transaction begun
    base,              \* the store when it began
    prev,              \* the store before the last one that committed
    left,              \* was a scope of it left without close()?
    crashes, faults

(* groups of variables, for UNCHANGED *)
store == <<log, gen>>
tfiles == <<journal, backupfiles, backup, pending>>
ufiles == <<undo, undobackupfiles, undobackup>>
ownfiles == <<tfiles, ufiles>>
files == <<store, ownfiles>>
scopes == <<count, usages, closed, left>>
ids == <<txn, base, prev>>
past == <<ids, crashes, faults>>
run == <<scopes, buf, want, past>>
vars == <<files, pc, cur, todo, run>>

Store == [log |-> log, gen |-> gen]
Files == Logs \cup Gens
Idle == [op |-> "none", f |-> Absent]
Doing(op, f) == cur = [op |-> op, f |-> f]

-----------------------------------------------------------------------------
(* What playing a journal back would make of the files (_playback) *)

Cut(c, o) == IF o = NoEntry THEN c ELSE SubSeq(c, 1, o)

PlayedLog(j) == [f \in Logs |-> Cut(log[f], j[f])]

PlayedGen(b, copies) ==
    [g \in Gens |-> IF b = Absent \/ b.gen[g] = "none" THEN gen[g]
                    ELSE IF b.gen[g] = "copy" THEN copies[g] ELSE Absent]

Played == [log |-> PlayedLog(journal), gen |-> PlayedGen(backupfiles, backup)]

Journaled == {f \in Logs : journal[f] # NoEntry}
BackedUp == {g \in Gens : backupfiles.gen[g] # "none"}
Copied == {g \in Gens : backupfiles.gen[g] = "copy"}
Temporary == IF backupfiles = Absent THEN {} ELSE pending \cap backupfiles.tmp

-----------------------------------------------------------------------------
Init ==
    /\ log = [f \in Logs |-> <<>>]
    /\ gen = [g \in Gens |-> Absent]
    /\ journal = Absent /\ backupfiles = Absent
    /\ backup = [g \in Gens |-> Absent]
    /\ pending = {}
    /\ undo = Absent /\ undobackupfiles = Absent
    /\ undobackup = [g \in Gens |-> Absent]
    /\ pc = "idle" /\ cur = Idle /\ todo = {}
    /\ count = 0 /\ usages = 0 /\ closed = FALSE /\ left = FALSE
    /\ buf = 0 /\ want = {}
    /\ txn = 0
    /\ base = Store /\ prev = Store
    /\ crashes = 0 /\ faults = 0

-----------------------------------------------------------------------------
(* Opening *)

\* localrepo.transaction() refuses to start over a journal that is there; then
\* transaction.__init__ opens the journal, which creates it.
OpenJournal ==
    /\ pc = "idle" /\ journal = Absent /\ txn < MaxTxn
    /\ journal' = EmptyJournal
    /\ pc' = "opening"
    /\ count' = 1 /\ usages' = 1 /\ closed' = FALSE /\ left' = FALSE
    /\ txn' = txn + 1 /\ base' = Store
    /\ UNCHANGED <<store, backupfiles, backup, pending, ufiles, cur, todo, buf,
                   want, prev, crashes, faults>>

\* ... and, in a second system call, truncates journal.backupfiles.
OpenBackupfiles ==
    /\ pc = "opening"
    /\ backupfiles' = EmptyBackups
    /\ pc' = "active"
    /\ UNCHANGED <<store, journal, backup, pending, ufiles, cur, todo, run>>

-----------------------------------------------------------------------------
(* Writing *)

Active == pc = "active" /\ cur = Idle /\ ~closed

\* A revlog that appends calls tr.add() first: one line in the journal, unless
\* the file has one.
AddEntry(f) ==
    /\ Active
    /\ Len(log[f]) + (IF f = Changelog THEN buf ELSE 0) < MaxLen
    /\ journal' = IF journal[f] = NoEntry
                    THEN [journal EXCEPT ![f] = Len(log[f])]
                    ELSE journal
    /\ cur' = [op |-> "append", f |-> f]
    /\ UNCHANGED <<store, backupfiles, backup, pending, ufiles, pc, todo, run>>

\* ... and then appends the revision, to memory for the changelog.
Append1(f) ==
    /\ Doing("append", f)
    /\ IF f = Changelog
         THEN buf' = buf + 1 /\ log' = log
         ELSE buf' = buf /\ log' = [log EXCEPT ![f] = Append(@, txn)]
    /\ cur' = Idle
    /\ UNCHANGED <<gen, ownfiles, pc, todo, scopes, want, past>>

\* tr.addfilegenerator(), or tr.addfinalize() for a file of DirectGens
AddFileGenerator(g) ==
    /\ Active /\ g \notin want
    /\ want' = want \cup {g}
    /\ UNCHANGED <<files, pc, cur, todo, scopes, buf, past>>

RemoveFileGenerator(g) ==
    /\ Active /\ g \in want \ DirectGens
    /\ want' = want \ {g}
    /\ UNCHANGED <<files, pc, cur, todo, scopes, buf, past>>

\* tr.writepending(): what hooks read.  The file is registered as temporary
\* first, and written afterwards.
RegisterTmp(g) ==
    /\ Active /\ g \in want \ DirectGens
    /\ backupfiles' = [backupfiles EXCEPT !.tmp = @ \cup {g}]
    /\ cur' = [op |-> "pending", f |-> g]
    /\ UNCHANGED <<store, journal, backup, pending, ufiles, pc, todo, run>>

WritePending(g) ==
    /\ Doing("pending", g)
    /\ pending' = pending \cup {g}
    /\ cur' = Idle
    /\ UNCHANGED <<store, journal, backupfiles, backup, ufiles, pc, todo, run>>

\* When file g may be replaced: by a caller of addbackup(), such as
\* fncache.write, or by what was registered, as the transaction closes.
MayReplace(g) ==
    \/ g \in DirectGens /\ Active
    \/ g \in want \cap DirectGens /\ pc = "final" /\ buf = 0
    \/ g \in want \cap PreGens /\ pc = "pregen"
    \/ g \in want \cap PostGens /\ pc = "postgen"

\* Mutant: a file is copied whenever it exists, and gets no entry if it does not.
CopyBackupIfThere(g) ==
    /\ MayReplace(g) /\ cur = Idle
    /\ IF gen[g] = Absent
         THEN backup' = backup /\ cur' = [op |-> "replace", f |-> g]
         ELSE /\ backup' = [backup EXCEPT ![g] = gen[g]]
              /\ cur' = [op |-> "entry", f |-> g]
    /\ UNCHANGED <<store, journal, backupfiles, pending, ufiles, pc, todo, run>>

\* addbackup(), first half: the copy.  Nothing is done for a file that has an
\* entry already.
CopyBackup(g) ==
    /\ MayReplace(g) /\ cur = Idle
    /\ IF backupfiles.gen[g] # "none"
         THEN backup' = backup /\ cur' = [op |-> "replace", f |-> g]
         ELSE /\ backup' = IF gen[g] = Absent
                             THEN backup
                             ELSE [backup EXCEPT ![g] = gen[g]]
              /\ cur' = [op |-> "entry", f |-> g]
    /\ UNCHANGED <<store, journal, backupfiles, pending, ufiles, pc, todo, run>>

\* addbackup(), second half (_addbackupentry): the line in journal.backupfiles.
AddBackupEntry(g) ==
    /\ Doing("entry", g)
    /\ backupfiles' = [backupfiles EXCEPT !.gen =
             [backupfiles.gen EXCEPT ![g] =
                 IF gen[g] = Absent THEN "nofile" ELSE "copy"]]
    /\ cur' = [op |-> "replace", f |-> g]
    /\ UNCHANGED <<store, journal, backup, pending, ufiles, pc, todo, run>>

\* The new content is renamed over the file (atomictemp).
Replace(g) ==
    /\ Doing("replace", g)
    /\ gen' = [gen EXCEPT ![g] = txn]
    /\ want' = IF pc = "active" THEN want ELSE want \ {g}
    /\ cur' = Idle
    /\ UNCHANGED <<log, ownfiles, pc, todo, scopes, buf, past>>

-----------------------------------------------------------------------------
(* Scopes: repo.transaction() inside a transaction nests *)

Nest ==
    /\ Active /\ usages < MaxNest /\ count < MaxNest
    /\ count' = count + 1 /\ usages' = usages + 1
    /\ UNCHANGED <<files, pc, cur, todo, closed, left, buf, want, past>>

\* close() of a scope while another scope is still to be closed.
CloseNested ==
    /\ Active /\ count > 1
    /\ count' = count - 1 /\ closed' = TRUE
    /\ UNCHANGED <<files, pc, cur, todo, usages, left, buf, want, past>>

\* Memory is lost, or the transaction object is done.
ForgetScopes == count' = 0 /\ usages' = 0 /\ closed' = FALSE
Forget == ForgetScopes /\ cur' = Idle /\ buf' = 0 /\ want' = {}

\* What both _abort() and rollback() do first: read the journal.
StartPlayback ==
    /\ Forget
    /\ pc' = "playlog" /\ todo' = Journaled
    /\ UNCHANGED <<files, past>>

\* Mutant: a scope that is left gives its count back, closed or not.
ReleaseCounts ==
    /\ pc = "active" /\ cur = Idle
    /\ left' = (left \/ ~closed)
    /\ IF usages = 1
         THEN StartPlayback
         ELSE /\ usages' = usages - 1 /\ closed' = FALSE
              /\ count' = IF closed THEN count ELSE count - 1
              /\ UNCHANGED <<files, pc, cur, todo, buf, want, past>>

\* The end of a scope, closed or not.  The last one out aborts the transaction
\* when it is still running, which is the case when some scope was not closed.
Release ==
    /\ pc = "active" /\ cur = Idle
    /\ left' = (left \/ ~closed)
    /\ IF usages = 1
         THEN StartPlayback
         ELSE /\ usages' = usages - 1 /\ closed' = FALSE
              /\ UNCHANGED <<files, pc, cur, todo, count, buf, want, past>>

\* An exception (a hook that refuses, a full disk, an interrupt) before close()
\* has brought _count to 0 leaves every scope, so the transaction aborts.
Raise ==
    /\ pc \in {"active", "pregen", "final", "postgen"}
    /\ left' = TRUE
    /\ StartPlayback

-----------------------------------------------------------------------------
(* close() of the last scope *)

Step(from, to) ==
    /\ pc = from /\ cur = Idle
    /\ pc' = to

\* Mutant: _count is brought down on the way in.
CloseCountsEarly ==
    /\ Active /\ Step("active", "pregen") /\ count = 1
    /\ \A f \in Logs : Len(log[f]) = Len(log[Changelog]) +
                                     (IF f = Changelog THEN 0 ELSE buf)
    /\ count' = count - 1
    /\ UNCHANGED <<files, cur, todo, usages, closed, left, buf, want, past>>

\* The callers have written every file a revision needs, and the validators
\* accept the transaction (Raise is the step of one that refuses).
Close ==
    /\ Active /\ Step("active", "pregen") /\ count = 1
    /\ \A f \in Logs : Len(log[f]) = Len(log[Changelog]) +
                                     (IF f = Changelog THEN 0 ELSE buf)
    /\ UNCHANGED <<files, cur, todo, run>>

Generated ==
    /\ Step("pregen", "final") /\ want \cap PreGens = {}
    /\ UNCHANGED <<files, cur, todo, run>>

\* The finalizer of the changelog: the delayed revisions reach the file, in as
\* many writes as the buffer takes.
Finalize ==
    /\ pc = "final" /\ cur = Idle /\ buf > 0
    /\ log' = [log EXCEPT ![Changelog] = Append(@, txn)]
    /\ buf' = buf - 1
    /\ UNCHANGED <<gen, ownfiles, pc, cur, todo, scopes, want, past>>

Finalized ==
    /\ Step("final", "postgen") /\ buf = 0 /\ want \cap DirectGens = {}
    /\ UNCHANGED <<files, cur, todo, run>>

\* All is written: _count reaches 0, and from here on no exception aborts.
Written ==
    /\ Step("postgen", "cleanup") /\ want = {}
    /\ count' = count - 1
    /\ UNCHANGED <<files, cur, todo, usages, closed, left, buf, want, past>>

\* The temporary files go, before the commit or in the course of a playback.
UnlinkPending(g) ==
    /\ pc \in {"cleanup", "playgen"} /\ cur = Idle /\ g \in Temporary
    /\ pending' = pending \ {g}
    /\ UNCHANGED <<store, journal, backupfiles, backup, ufiles, pc, cur, todo,
                   run>>

\* Mutant: the temporary files are not looked for.
OpenUndoAtOnce ==
    /\ Step("cleanup", "writeundo")
    /\ undobackupfiles' = EmptyBackups
    /\ todo' = Copied
    /\ UNCHANGED <<store, tfiles, undo, undobackup, cur, run>>

\* _writeundo(): undo.backupfiles is truncated, ...
OpenUndo ==
    /\ Step("cleanup", "writeundo") /\ Temporary = {}
    /\ undobackupfiles' = EmptyBackups
    /\ todo' = Copied
    /\ UNCHANGED <<store, tfiles, undo, undobackup, cur, run>>

\* Mutant: the file is linked instead of its backup.
LinkUndoToFile(g) ==
    /\ pc = "writeundo" /\ g \in todo
    /\ undobackup' = [undobackup EXCEPT ![g] = gen[g]]
    /\ todo' = todo \ {g}
    /\ UNCHANGED <<store, tfiles, undo, undobackupfiles, pc, cur, run>>

\* ... each copy gets a second name, ...
LinkUndo(g) ==
    /\ pc = "writeundo" /\ g \in todo
    /\ undobackup' = [undobackup EXCEPT ![g] = backup[g]]
    /\ todo' = todo \ {g}
    /\ UNCHANGED <<store, tfiles, undo, undobackupfiles, pc, cur, run>>

\* ... and the lines are written when the file is closed.
CloseUndo ==
    /\ Step("writeundo", "after") /\ todo = {}
    /\ undobackupfiles' = [backupfiles EXCEPT !.tmp = {}]
    /\ UNCHANGED <<store, tfiles, undo, undobackup, cur, todo, run>>

\* aftertrans(): the old undo goes first, ...
UnlinkUndo ==
    /\ Step("after", "rename")
    /\ undo' = Absent
    /\ UNCHANGED <<store, tfiles, undobackupfiles, undobackup, cur, todo, run>>

\* ... and the journal becomes the undo.  This step is the commit.
RenameJournal ==
    /\ Step("rename", "rmbackupfiles")
    /\ undo' = journal /\ journal' = Absent
    /\ prev' = base
    /\ UNCHANGED <<store, backupfiles, backup, pending, undobackupfiles,
                   undobackup, cur, todo, scopes, buf, want, txn, base, crashes,
                   faults>>

\* journal.backupfiles goes, after the journal: the order playback follows is
\* the opposite one.
UnlinkBackupfiles ==
    /\ Step("rmbackupfiles", "rmcopies")
    /\ backupfiles' = Absent
    /\ todo' = Copied
    /\ UNCHANGED <<store, journal, backup, pending, ufiles, cur, run>>

UnlinkCopy(g) ==
    /\ pc = "rmcopies" /\ g \in todo
    /\ backup' = [backup EXCEPT ![g] = Absent]
    /\ todo' = todo \ {g}
    /\ UNCHANGED <<store, journal, backupfiles, pending, ufiles, pc, cur, run>>

Done ==
    /\ Step("rmcopies", "idle") /\ todo = {}
    /\ ForgetScopes /\ left' = FALSE
    /\ UNCHANGED <<files, cur, todo, buf, want, past>>

-----------------------------------------------------------------------------
(* Rolling back: _playback(), for an abort or for hg recover *)

\* Mutant: hg recover wants both files.
RecoverBoth ==
    /\ pc = "idle" /\ journal # Absent /\ backupfiles # Absent
    /\ left' = FALSE
    /\ StartPlayback

\* hg recover asks for the journal only.
Recover ==
    /\ pc = "idle" /\ journal # Absent
    /\ left' = FALSE
    /\ StartPlayback

\* Mutant: in the order of the journal.
TruncateAny(f) ==
    /\ pc = "playlog" /\ f \in todo
    /\ Len(log[f]) >= journal[f]
    /\ log' = [log EXCEPT ![f] = SubSeq(@, 1, journal[f])]
    /\ todo' = todo \ {f}
    /\ UNCHANGED <<gen, ownfiles, pc, cur, run>>

\* The logs are truncated in the order of their names, and 00changelog.i comes
\* first.  A log shorter than its offset would stop the playback here.
Truncate(f) ==
    /\ pc = "playlog" /\ f \in todo
    /\ Changelog \in todo => f = Changelog
    /\ Len(log[f]) >= journal[f]
    /\ log' = [log EXCEPT ![f] = SubSeq(@, 1, journal[f])]
    /\ todo' = todo \ {f}
    /\ UNCHANGED <<gen, ownfiles, pc, cur, run>>

Truncated ==
    /\ Step("playlog", "playgen") /\ todo = {}
    /\ todo' = IF backupfiles = Absent THEN {} ELSE BackedUp
    /\ UNCHANGED <<files, cur, run>>

\* util.copyfile() unlinks the file, then copies the backup to it; a file that
\* did not exist is unlinked.
UnlinkGen(g) ==
    /\ pc = "playgen" /\ cur = Idle /\ g \in todo
    /\ gen' = [gen EXCEPT ![g] = Absent]
    /\ IF backupfiles.gen[g] = "copy"
         THEN cur' = [op |-> "restore", f |-> g] /\ todo' = todo
         ELSE cur' = cur /\ todo' = todo \ {g}
    /\ UNCHANGED <<log, ownfiles, pc, run>>

RestoreGen(g) ==
    /\ Doing("restore", g)
    /\ gen' = [gen EXCEPT ![g] = backup[g]]
    /\ cur' = Idle /\ todo' = todo \ {g}
    /\ UNCHANGED <<log, ownfiles, pc, run>>

\* Mutants: not every file has been restored; journal.backupfiles is unlinked
\* without a look whether it is there.
RestoredSome ==
    /\ Step("playgen", "rmjournal")
    /\ todo' = IF backupfiles = Absent THEN {} ELSE Copied
    /\ backupfiles' = Absent
    /\ UNCHANGED <<store, journal, backup, pending, ufiles, cur, run>>

RestoredFromBoth ==
    /\ Step("playgen", "rmjournal") /\ todo = {} /\ backupfiles # Absent
    /\ Temporary = {} /\ todo' = Copied
    /\ backupfiles' = Absent
    /\ UNCHANGED <<store, journal, backup, pending, ufiles, cur, run>>

\* journal.backupfiles goes before the journal, so that a second playback never
\* looks for copies that are gone.  The copies that were restored go last.
Restored ==
    /\ Step("playgen", "rmjournal") /\ todo = {}
    /\ IF backupfiles = Absent
         THEN todo' = {}
         ELSE Temporary = {} /\ todo' = {g \in Copied : gen[g] = backup[g]}
    /\ backupfiles' = Absent
    /\ UNCHANGED <<store, journal, backup, pending, ufiles, cur, run>>

UnlinkJournal ==
    /\ Step("rmjournal", "rmcopies")
    /\ journal' = Absent
    /\ UNCHANGED <<store, backupfiles, backup, pending, ufiles, cur, todo, run>>

\* A log cannot be truncated: the error is raised, the journal stays.
TruncateFails ==
    /\ "truncate" \in Faults /\ faults < MaxFault
    /\ pc = "playlog" /\ todo # {}
    /\ Forget /\ pc' = "idle" /\ todo' = {} /\ left' = FALSE
    /\ faults' = faults + 1
    /\ UNCHANGED <<files, ids, crashes>>

\* A backup cannot be copied back: the error is printed, and the playback goes
\* on to the next file.
RestoreFails(g) ==
    /\ "restore" \in Faults /\ faults < MaxFault
    /\ Doing("restore", g)
    /\ cur' = Idle /\ todo' = todo \ {g}
    /\ faults' = faults + 1
    /\ UNCHANGED <<files, pc, scopes, buf, want, ids, crashes>>

-----------------------------------------------------------------------------
\* The process is killed; or an exception strikes once _count is 0, which
\* release() ignores.
Crash ==
    /\ pc # "idle" /\ crashes < MaxCrash
    /\ pc = "opening" => CrashReopening \/ backupfiles = Absent
    /\ Forget /\ pc' = "idle" /\ todo' = {} /\ left' = FALSE
    /\ crashes' = crashes + 1
    /\ UNCHANGED <<files, ids, faults>>

WriteNext ==
    \/ OpenBackupfiles
    \/ \E f \in Logs : AddEntry(f) \/ Append1(f)
    \/ \E g \in Gens : \/ AddFileGenerator(g) \/ RemoveFileGenerator(g)
                       \/ RegisterTmp(g) \/ WritePending(g)
                       \/ CopyBackup(g) \/ AddBackupEntry(g) \/ Replace(g)

ScopeNext == Nest \/ CloseNested \/ Release \/ Raise

CloseNext ==
    \/ Close \/ Generated \/ Finalize \/ Finalized \/ Written
    \/ OpenUndo \/ CloseUndo \/ UnlinkUndo \/ RenameJournal
    \/ UnlinkBackupfiles \/ Done
    \/ \E g \in Gens : UnlinkPending(g) \/ LinkUndo(g) \/ UnlinkCopy(g)

PlaybackNext ==
    \/ \E f \in Logs : Truncate(f)
    \/ Truncated \/ Restored \/ UnlinkJournal
    \/ \E g \in Gens : UnlinkGen(g) \/ RestoreGen(g)

FailNext == TruncateFails \/ Crash \/ \E g \in Gens : RestoreFails(g)

Next ==
    OpenJournal \/ WriteNext \/ ScopeNext \/ CloseNext \/ Recover
    \/ PlaybackNext \/ FailNext

Spec == Init /\ [][Next]_vars

\* A process that is scheduled gets on with the commit or the playback it is
\* in, and somebody runs hg recover when told to.  Nothing obliges a caller to
\* close its transaction.
Fairness ==
    /\ WF_vars(CloseNext \/ OpenBackupfiles)
    /\ WF_vars(\E g \in Gens : AddBackupEntry(g) \/ Replace(g))
    /\ WF_vars(\E g \in Gens : pc # "active" /\ CopyBackup(g))
    /\ WF_vars(PlaybackNext)
    /\ WF_vars(Recover)

FairSpec == Spec /\ Fairness

-----------------------------------------------------------------------------
(* Properties *)

Numbers == 0..MaxTxn
MaybeTxn == Numbers \cup {Absent}
Stores == [log : [Logs -> Seq(Numbers)], gen : [Gens -> MaybeTxn]]

\* Type invariant.
TypeOK ==
    /\ Store \in Stores /\ base \in Stores /\ prev \in Stores
    /\ journal \in Journals \cup {Absent}
    /\ undo \in Journals \cup {Absent}
    /\ backupfiles \in BackupJournals \cup {Absent}
    /\ undobackupfiles \in BackupJournals \cup {Absent}
    /\ backup \in [Gens -> MaybeTxn] /\ undobackup \in [Gens -> MaybeTxn]
    /\ pending \subseteq Gens /\ want \subseteq Gens
    /\ pc \in {"idle", "opening", "active", "pregen", "final", "postgen",
               "cleanup", "writeundo", "after", "rename", "rmbackupfiles",
               "rmcopies", "playlog", "playgen", "rmjournal"}
    /\ cur \in [op : {"none", "append", "pending", "entry", "replace",
                      "restore"}, f : Files \cup {Absent}]
    /\ todo \subseteq Files
    /\ count \in Nat /\ usages \in Nat /\ buf \in Nat
    /\ closed \in BOOLEAN /\ left \in BOOLEAN
    /\ txn \in Numbers /\ crashes \in Nat /\ faults \in Nat

\* As long as there is a journal, playing it back gives the store of before the
\* transaction: whatever the transaction did, and wherever it, its abort or a
\* previous hg recover was interrupted (transaction._playback).
RecoverableStore ==
    journal # Absent /\ pc # "opening" => Played = base

\* No log is shorter than the offset the journal has for it, so that a playback
\* never stops on "attempted to truncate ... but it was already ...".
OffsetsWithinFiles ==
    journal # Absent => \A f \in Journaled : journal[f] <= Len(log[f])

\* A reader takes no lock: whenever it looks, each changeset it finds in the
\* changelog has its revisions in the other logs (delayed changelog writes,
\* and 00changelog.i truncated before the others).
ChangelogResolves ==
    \A f \in Logs : /\ Len(log[Changelog]) <= Len(log[f])
                    /\ log[Changelog] = SubSeq(log[f], 1, Len(log[Changelog]))

\* Files generated after the finalizers (bookmarks) may refer to any changeset
\* of the transaction: at the time one names the transaction, the changelog has
\* received all it will.
PostGensLast ==
    pc # "playgen" =>
        \A g \in PostGens :
            gen[g] = txn /\ journal # Absent /\ pc # "idle" =>
                buf = 0 /\ pc \notin {"active", "pregen", "final"}

\* What a reader without a lock finds refers to what is there: a changeset to its
\* revisions, a bookmark to its changeset.
ReadersResolve == ChangelogResolves /\ PostGensLast

\* A transaction commits only when each of its scopes was closed: one that is
\* left through an exception dooms the whole (count and usages).
CommitOnlyIfAllClosed ==
    pc \in {"pregen", "final", "postgen", "cleanup", "writeundo", "after",
            "rename"} => ~left

\* Nothing generated for hooks outlives the transaction and its roll back.
NoPendingLeft == pc = "idle" /\ journal = Absent => pending = {}

\* No process has died, and every copy that was to be put back was.
Untroubled == crashes = 0 /\ ("restore" \in Faults => faults = 0)

\* As long as that is so, what the last commit left for hg rollback (undo and
\* undo.backupfiles, localrepo._rollback) leads back to the store it replaced,
\* unless a roll back failed and hg recover has to come first.
UndoTakesBack ==
    Untroubled /\ pc = "idle" /\ journal = Absent /\ undo # Absent =>
        [log |-> PlayedLog(undo), gen |-> PlayedGen(undobackupfiles, undobackup)]
            = prev

\* The store changes hands atomically: AtomicStore, with the committed store
\* being what is on the disk or, under a journal, what playing it back gives.
Committed == IF journal # Absent /\ pc # "opening" THEN Played ELSE Store
Status ==
    CASE journal = Absent -> "none"
      [] journal # Absent /\ pc \in {"idle", "playlog", "playgen", "rmjournal"}
            -> "broken"
      [] OTHER -> "open"

Abstract == INSTANCE AtomicStore WITH Contents <- Stores,
                committed <- Committed, working <- Store, status <- Status

ImplementsAtomicStore == Abstract!ASpec

\* What the process reports as "rollback completed" (_abort) has brought every
\* file back, those with a backup too: addbackup() makes one "to recover the
\* file in the event of the transaction aborting".
RollbackCompletes == pc = "rmjournal" => Store = base

\* A transaction that was abandoned does not block the repository for ever.
AbandonedIsRecovered == (journal # Absent /\ pc = "idle") ~> (journal = Absent)

\* A close or a roll back that has begun comes to an end.
EndsItsWork == (pc \notin {"idle", "active"}) ~> (pc \in {"idle", "active"})
=============================================================================
