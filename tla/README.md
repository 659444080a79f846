# Mercurial, verified

TLA+ models of the parts of Mercurial (`src/mercurial/`) on which the integrity of a
repository rests:

- on the disk: the transaction on `.hg/store` with its journal, abort and `hg recover`;
  the lock file that gives the store one writer at a time; `hg strip`, which removes
  changesets from files that can only be truncated;
- in memory: the cached changelog, bookmarks and phases of a process, while other
  processes write their files; the dirstate, a cache of what `hg status` found clean;
- over the graph of changesets: phases, kept as sets of roots;
- between repositories: discovery and pull from a server that changes meanwhile, and
  clients that push at the same time.

The models are checked with TLC on small instances; what matters most about them is
proved with TLAPS for every instance.

Contents

1. [The system](#1-the-system)
2. [Modules](#2-modules)
3. [From the code to the models](#3-from-the-code-to-the-models)
4. [Runs](#4-runs)
5. [Bounds and fairness](#5-bounds-and-fairness)
6. [Proofs](#6-proofs)
7. [Where the code and its documentation disagree](#7-where-the-code-and-its-documentation-disagree)
8. [What is not modelled](#8-what-is-not-modelled)
9. [Plan](#9-plan)

Run a check with `tlc -config <run>.cfg <module>` and a proof with
`tlapm <module>.tla`; `PROJECT.json` lists the runs, the theorems, for each
definition the lines of code it translates, and for each property a mutant of
the model that violates it.

## 1. The system

A Mercurial repository is a directory of files that many processes (commands, a
server, hooks) read without any lock, and that one process at a time writes
under two advisory locks: `.hg/store/lock` for history, `.hg/wlock` for the
working directory. There are no threads that share state; all the concurrency is
between processes, through files, and any of these processes can be killed at
any system call.

| Component | State it keeps | Operations | Talks to | What is hard | What makes it correct |
|---|---|---|---|---|---|
| Transaction journal (`transaction.py`) | `journal` (file, offset), `journal.backupfiles` and the copies it names, `undo*`; in memory `_count`, `_usages`, `_offsetmap`, `_backupmap`, file generators, callbacks | `__init__`, `add`, `addbackup`, `registertmp`, `addfilegenerator`, `writepending`, `nest`, `close`, `release`, `_abort`, `rollback`; `startgroup`/`endgroup` and `replace` for strip and revlog splitting | revlogs and file writers (calls), `localrepo` (callbacks `after`, `releasefn`), hooks (files) | death between any two system calls, also in a playback; errors in the course of closing or rolling back; nesting | whatever happens, the old store can be had back until the commit, and the new one is there after it |
| Repository lock (`lock.py`, `util.makelock`) | the lock file and its `.break` locks; `held`, pid | `trylock`, `lock`, `_trylock`, `_readlock`, `_testlock`, `release` | other processes through the file system, `kill(pid, 0)` | removing the lock of a dead process while others do the same; process numbers used again; hosts that share a disk | one holder at a time; the lock of a dead process does not stay |
| Repository object (`localrepo.py`, `scmutil.filecache`) | the files `journal.*`/`undo.*` for dirstate, branch, bookmarks; cached properties with the stat of their files | `transaction`, `lock`, `wlock`, `recover`, `rollback`, `invalidate`, `invalidateall`, `_refreshfilecachestats` | all of these | caches filled while another process commits, and written back later; lock order; `hg rollback` undoes a commit without a journal of its own | what is written back loses nothing another process wrote; no lock-order deadlock |
| Strip (`repair.py`) | a backup bundle and a temporary bundle | `strip` | transaction (entry groups), bundle2, bookmarks, phases | truncation in a transaction, with revisions re-applied after it | only the stripped revisions are gone |
| Revlog (`revlog.py`) | index, data, docket, node map | `addrevision`, `addgroup`, `strip`, `_enforceinlinesize` | transaction (`add`, `replace`) | an inline revlog is split while readers have it open | each revision reads back as added |
| Changelog visibility (`changelog.py`) | `_delaybuf`, `00changelog.i.a` | `delayupdate`, `_writepending`, `_finalize` | transaction (pending and finalize callbacks), hooks through `HG_PENDING` | readers without a lock | a reader never sees a changeset before its data |
| Phases (`phases.py`) | phase roots per phase; `tr.changes['phases']` | `advanceboundary`, `retractboundary`, `registernew`, `filterunknown` | transaction (file generator, hooks), changegroup, strip, exchange | a move of one set of roots changes the roots of other phases; sequences of moves; strip drops roots | each changeset is in the phase asked for, and hooks hear of every change |
| Bookmarks (`bookmarks.py`) | name to node, active bookmark | `applychanges`, `validdest`, `comparebookmarks` | transaction (file generator), the changelog that filters them, push | bookmarks on changesets the changelog in memory lacks; two clients move one | none is lost; a push moves one forward only |
| Dirstate (`dirstate.py`, `context.py`, `timestamp.py`) | parents, per-file entries with size and mtime, backups | `status`, `_checklookup`, `_poststatusfixup`, `write`, `rebuild`, backups | wlock, update, commit, editors (through the file system) | a file changed within the resolution of its timestamp; status runs without a lock and writes later | a modified file is never reported clean |
| Set discovery (`setdiscovery.py`, `discovery.py`) | common, missing, undecided | `heads`, `known`; rounds of samples and answers | wire protocol; pull and push use the result | each answer comes from another state of the server; early exits | what is called common is common, all of it is found, and it ends |
| Wire protocol framing (`wireprotoframing.py`) | per-request and per-stream states of the reactors | `onframerecv`, `oncommandresponse...` | sockets | interleaved frames, errors | requests get one response each |
| Exchange, bundle2 (`exchange.py`, `bundle2.py`, `discovery.checkheads`) | the pull and push operations, parts | `push`, `pull`, `unbundle`, the `check:*` parts | lock, transaction, discovery, phases, bookmarks | a push asks five questions, and another push may be applied between any two of them; the reply is lost | what the push was allowed for holds when it is applied; phases agree afterwards |
| Branch map (`branchmap.py`) | heads of each branch, closed heads, per filter level | `update`, `iterheads` | checkheads, commands | updated from a state that lacks changesets | the heads are those of the branch |
| Merge state (`mergestate.py`, `state.py`) | per-file resolution records | `add`, `resolve`, `commit` | dirstate | interrupted merges | nothing unresolved is committed |
| Obsolescence (`obsolete.py`, `obsutil.py`) | markers | `create`, closest successors, divergence | phases, repoview | cycles and splits | unstable changesets are found |
| Bisection (`hbisect.py`) | good, bad, skip | `bisect` | - | pure | it converges on the first bad changeset |
| Command server and workers | pipes, child processes | serve, fork | the system | signals, partial failure | - |
| Native code (`cext`, `rust`) | - | the same as the Python | - | memory | agrees with the Python |
| Commands, templates, diff, hgweb | - | presentation | - | - | - |

How they meet in the core: a command takes `lock()`, calls `repo.transaction()`,
which refuses to start if `journal` exists; revlogs call `tr.add()` before each
append; phases, bookmarks and fncache register file generators or finalizers;
`tr.close()` runs them in an order that keeps readers safe and renames `journal`
to `undo`; `tr.release()` without a complete set of closes aborts, which plays the
journal back. A process that dies leaves both its journal and its lock; the next
one breaks the lock, finds "abandoned transaction", and `hg recover` plays the
journal back.

A push or a pull is a dialogue without a lock on the other side: `heads` and `known`,
then `listkeys` or `branchmap`, then a bundle. Only the server's `unbundle` takes its
lock and opens a transaction, and then checks whether what the client relied on is
still so. A process that lives long (a server, a command server, an extension) keeps the
changelog, the bookmarks and the phases in memory; taking the lock makes it look, with
`stat()`, whether they are still those of the disk.

## 2. Modules

| Module | What it is |
|---|---|
| `AtomicStore` | what a transaction promises: a committed value, the bytes on the disk, a status, and one step at which the one becomes the other |
| `Transaction` | `transaction.py` with its use by `localrepo.py`, one system call per action; `ImplementsAtomicStore` maps it to `AtomicStore` |
| `MCTransaction` | the files of the instances TLC checks |
| `TransactionProofs` | theorems about `Transaction` |
| `RepoLock` | `lock.py` with `makelock`, `readlock`, `testpid`, one system call per action, for any number of processes and levels of `.break` |
| `MCRepoLock` | the hosts and timeouts of the instances TLC checks |
| `RepoLockProofs` | theorems about `RepoLock` |
| `Strip` | `repair.strip()` with `resolvestripinfo()`, `backupbundle()` and what `cg1unpacker.apply()` does with the bundle; `hg recover` and `hg unbundle` after a failure |
| `MCStrip` | the files of the instances TLC checks |
| `StripProofs` | theorems about `Strip` |
| `Dag` | the graph of changesets as an order, with the sets that revsets and `dagop.py` compute: ancestors, descendants, ranges, heads, roots |
| `DagProofs` | lemmas about `Dag`: closed sets, and that heads, roots and parents stand for the sets they are taken of |
| `PhaseMap` | what phases are to a user: a phase of each changeset, and what a move does to them; the reference `Phases` is compared with |
| `Phases` | `phases.py`: phases as roots, with transactions, received changegroups, strips and what is tracked for hooks |
| `PhasesProofs` | theorems about `Phases` |
| `RepoCache` | the file cache: `changelog`, `_bookmarks`, `_phasecache` in several processes, with locks and transactions |
| `RepoCacheProofs` | theorems about `RepoCache` |
| `MCRepoCache` | the names of its processes |
| `Dirstate` | `hg status`, update, commit and a change of parents on the cache of mtimes, with a clock and an editor |
| `DirstateProofs` | theorems about `Dirstate` |
| `SetDiscovery` | `findcommonheads` and the pull that uses it, with a server that grows |
| `Push` | `exchange.push` of several clients to one server, question by question, and what the server checks |
| `ExchangeProofs` | theorems about `SetDiscovery` and `Push` |
| `MCPush` | the initial repositories of the instances TLC checks |

`Transaction` has one sequence of steps because of what `RepoLock` shows: the store
has one writer at a time, but for a race that section 7 describes, which `Transaction` and
the modules below leave out. Readers take no lock, so properties about readers
(`ReadersResolve`: `ChangelogResolves` and `PostGensLast`) are invariants: they hold
whenever a reader looks.

`Strip` stands on what `Transaction` shows and takes its transactions as open, some
steps on the logs, and close; what it adds is the content of the logs, and a journal
that does not say where the files ended but where they are going to end.

`Strip`, `Phases`, `SetDiscovery` and `Push` stand on `Dag`. Changesets are numbers there,
and ancestry is the variable `ancestors`, any order on them that the initial state chooses.
`RepoCache` takes from `Transaction` that a transaction replaces its files one by one in a
certain order and puts them back if it fails, and from `RepoLock` that the lock has one
holder (without that race); it adds what the readers and later writers have in memory. `Phases` has the
phase part of a strip, whose files and bundles are in `Strip`. `Push` takes discovery as one
step with the result that `SetDiscovery` shows it has, and the application of a bundle as
one step, as `Transaction` and `RepoLock` show it to be.

## 3. From the code to the models

### Transaction

The store is a set of append-only `Logs` (revlogs) and of `Gens`, files replaced as
a whole through a rename. `Gens` come in three groups, which the code writes at
three points of `close()`: `PreGens` (phaseroots), `PostGens` (bookmarks, because they
name changesets) and `DirectGens` (fncache, which its owner replaces itself, from a
finalizer or before, after `tr.addbackup`). A log is the sequence of the numbers of
the transactions that wrote its revisions, a generated file the number of the one
that wrote it last: enough to tell whether a file is as it was, and nothing more.

| Model | Code |
|---|---|
| `journal`, `backupfiles`, `undo`, `undobackupfiles` | the files; `Absent` when there is none. `_offsetmap`, `_backupmap` and `_backupentries` say in memory what these say on disk (each entry is flushed as it is made), so they are no variables of their own |
| `backup`, `undobackup`, `pending` | the copies, and the `.pending` files |
| `count`, `usages`, `closed` | `_count`, `_usages`, and whether the innermost scope has called `close()` |
| `buf` | `changelog._delaybuf` |
| `want` | `_filegenerators` and the finalizers of fncache |
| `pc`, `cur`, `todo` | where the process is: the phase, the file operation, what is left of a loop |
| `OpenJournal`, `OpenBackupfiles` | `localrepo.transaction`, `transaction.__init__` |
| `AddEntry`, `Append1` | `add`/`_addentry`, then the append of the revlog |
| `CopyBackup`, `AddBackupEntry`, `Replace` | `addbackup`, `_addbackupentry`, then the rename of the new content |
| `AddFileGenerator`, `RemoveFileGenerator`, `RegisterTmp`, `WritePending` | the methods, and `writepending` |
| `Nest`, `CloseNested`, `Release`, `Raise` | `nest`, `close` of an inner scope, `release`; `Raise` is an exception that leaves all scopes |
| `Close` ... `Done` | `close()` of the outermost scope, in the order of the code: `GEN_GROUP_PRE_FINALIZE`, finalizers, `GEN_GROUP_POST_FINALIZE`, `_count` to 0, temporary files, `_writeundo`, `aftertrans`, the two unlinks, the copies |
| `Recover`, `Truncate` ... `UnlinkJournal` | `hg recover` and `_abort`, both through `_playback` |
| `TruncateFails`, `RestoreFails` | its two error paths: raised, and printed |
| `Crash` | the process dies, or an exception strikes in `close()` after `_count` is 0: `release()` then does nothing, and the `_abort()` of `__del__` stops at `readjournal`, which is `@active` |

What is history only: `txn`, `base`, `prev`, `left` and the two counters of faults.

Abstractions: the loops over backup entries take their files in any order; a file
is appended to one revision at a time; `util.copyfile` is an unlink and a copy, the
copy being one step (a half-made copy is replaced by the next playback as an absent
one is); `vfs.rename` and a line of the journal are atomic. The order of truncation
is kept where a reader could see it: `sorted()` puts `00changelog.i` before
`00manifest.i` and `data/`, so the changelog goes first.

### RepoLock

`file[l]` is the content of the lock (level 0), of `lock.break` (level 1), of
`lock.break.break`...; a process works at one `level` at a time and returns to the
level below, with the number of tries it had left there, as the recursion of
`_trylock` through `_testlock` does. `held` is `pc = "hold"` with `depth`. `makelock`
creates a symbolic link with its content, or (for a process that is not
in `Symlinks`) a file that is empty until the next step. A process may die at any step, its number may be reused,
and a lock may name a process of another host. `Waits` and `Timeout` say for each
process which of the two loops it waits in, and how long. `LockHeld` of a `.break` lock
becomes `LockHeld` of the one below, down to level 0 (`GiveUp`).

Each system call is a step. Under the `.break` lock these are the `readlink` of
`_readlock()` (`Reread`), the `kill(pid, 0)` of `testpid()` (`Retest`) and the `unlink`
(`UnlinkStale`), and other processes may do anything in between. A lock that is gone
by the time of the `unlink` raises `FileNotFoundError`, which is no `LockError`
(`UnlinkNothing`): the command fails, and releases `.break` on its way out. To a process in
`MayFail` the system may refuse a lock file (`CannotMake`, `LockUnavailable`). What is written into
an empty lock file goes to the file that was created, which may have been unlinked
(`writer`).

`raced` is a history variable, no state of the code: the levels at which a process gave a
lock back and ended while another had read its name and was about to test it.
`Sound(l)` says that this never happened at level l or above, where the locks are that
guard it.

### Strip

Any graph of `N` changesets (`ancestors`, of `Dag`) is an initial state, with the node that
each file has in each changeset (`manifest`) and the one that a changeset introduces
(`node`): a node may be introduced by several changesets, as long as it has the same
parents there, and a file may have its revisions in any order that puts parents first, as
pulls from several repositories make them. `filelog` is a sequence of nodes with their
links (linkrevs).

| Model | Code |
|---|---|
| `StripInfo`, `Walk`, `WalkDown` | `resolvestripinfo()`, `revlog.getstrippoint()`; a recursive function, one round for each revision passed, with the set of heads left implicit, since each revision below the point is reached from one |
| `Affected`, `Broken`, `Save`, `SaveHeads`, `SaveBases` | `_collectfiles`, `_collectbrokencsets`, and the sets `strip()` computes from them |
| `Bundle` | `backupbundle()`: `outgoing(missingroots=...)`, and the file revisions whose link is not common; the set of the bundles there may be, one for each order the changelog allows |
| `WriteBackup`, `WriteTemp` | the two bundles in `.hg/strip-backup` |
| `OpenStrip`, `WriteEntry`, `EndGroup` | the transaction with `startgroup()`, the `revlog.strip()` calls that queue offsets, and `endgroup()`, which writes them one at a time |
| `CutNext`, `CloseStrip` | `fp.truncate()` on each file of the journal, and the end of the transaction |
| `OpenApply`, `ApplyFile`, `ApplyChangelog`, `CloseApply` | the second transaction, in which the bundle is applied; the changesets received stay in memory (`added`) until the changelog is written, last (`delayupdate`) |
| `Finish` | the temporary bundle is unlinked, in the `else` of the `try` |
| `Crash`, `Recover`, `Unbundle` | a death or an error at any step; `hg recover` on what journal there is; and the `hg unbundle` that the message asks for |

After the strip has written its group, `hg recover` truncates to the new lengths: it
completes the cut instead of undoing it, and what was to be put back is only in the
temporary bundle (`tests/test-repair-strip.t` shows such stores).

Abstractions: a log of `Files` stands for the manifest or a filelog, both of which are
cut and filled by the same code; file nodes are chosen for a bundle as the slow path
of `changegroup.py` does, through the manifests (the fast path, through linkrevs, is
not modelled); the order of the files cut is any, and so is the
order of the new nodes in a log, parents first. `hg recover` on a strip is one step,
since a second one plays the same journal.

### Phases

`phaseroots[p]` are the roots of phase p, `known` the changesets of the repository, `disk`
both as last committed, `changes` is `tr.changes['phases']`. Phases are numbers from 0
(public); secret is 2, and any higher one stands for archived and internal.

| Model | Code |
|---|---|
| `PhaseOf` | `_computephaserevspure`, `phase()` |
| `RetractRoots`, `AdvanceRoots` | `_retractboundary`, `advanceboundary`, as functions from roots to roots |
| `Track`, `NewChanges`, `AdvanceChanges`, `RetractChanges` | `_trackphasechange` and its callers |
| `Register`, `Receive`, `Advance`, `Retract` | `registernew` by a commit or a pull; `cg1unpacker.apply` for a push; the two moves |
| `Commit`, `Abort` | `_write` at the close; `releasefn`, after which the file is read again |
| `StripFrom`, `Saved`, `Reapply` | `repair.strip`: `filterunknown` after the cut, the phases in the temporary bundle, and its application with `handlephases` |

`PhaseMap` says with one equation per operation what it has to do to the phase of each
changeset; `MovesAsAsked` compares, in every reachable state and for every argument.

### RepoCache

Each process has `dict` (properties in `__dict__`) and `filecache`, an entry for each
property: the object, and the tracked files whose stat is still the one noted (`same`). A
transaction writes its files one at a time; `Replace` takes the file out of `same` everywhere.
`wanted` is history: the files as the transactions meant them, had each of them read
under the lock what was there.

| Model | Code |
|---|---|
| `Use`, `Reuse`, `Outdated`, `UseChangelog` | `filecache.__get__`, with `filecacheentry.changed()`, which stops at the first file that changed (`Noted`) |
| `ReadChangelog`, `RefreshChangelog`, `ReadBookmarks`, `ReadRoots`, `FilterUnknown` | the functions of the properties, one file read per step |
| `Lock`, `Invalidate`, `Forget` | `invalidate()` as acquirefn, `invalidateall()`, `clearfilecache=True` |
| `Begin`, `Add`, `Write`, `Close` | a transaction that adds a changeset, perhaps as a phase root, perhaps with a bookmark; `_refreshfilecachestats` |
| `Abort`, `Restore`, `Aborted` | a transaction that fails |

Abstracted: that stat() sees every replacement (`checkambig` and the mtime advance see to it),
the second files a property tracks, the dirstate property.

### Dirstate

A clock ticks `PerSecond` times in a second; a file system stamps files with ticks or with
seconds (`machine.fine`), and the format keeps ticks or seconds (`machine.v2`). The
contents of a file all have the same size, so that the mtime decides.

| Model | Code |
|---|---|
| `Now`, `ReliableMtime`, `LikelyEqual`, `Stored` | `mtime_of`, `reliable_mtime_of`, `mtime_likely_equal_to`, `v1_mtime`/`v2_data` with what is read back |
| `Load`, `Boundary`, `Walk`, `Compare`, `Lstat`, `PostStatusFixup` | `hg status`: the dirstate is loaded, the time of the file system taken, each file looked up, read if unsure, stat'ed again if clean; what was found is written if wlock is free and the dirstate is the one that was loaded |
| `BeginUpdate`, `WriteFile`, `FilterData`, `EndUpdate` | `merge._update`, `batchget`, the filter of ambiguous times, `recordupdates` |
| `BeginCommit`, `EndCommit`, `Keep` | `markcommitted`; `strip --keep` and `movedirstate` |
| `Edit`, `Tick`, `Die` | an editor, the clock, a command that is killed |

### SetDiscovery

| Model | Code |
|---|---|
| `AllKnown`, `AskHeads`, `AskFirst` | `findcommonincoming`'s early exit, `heads` and `known` of the first round with its three early exits |
| `common`, `undecided`, `missing`, `decided`; `Learn` | `partialdiscovery`, with `_undecided` being computed late; `addcommons`, `addmissings`, `addinfo` |
| `AskSample`, `QuickSamples`, `FullSamples`, `Answer` | the rounds; any sample of the size the code would take |
| `Conclude`, `Fetch` | the result; `_pullbundle2` |
| `RemoteGrows` | another client pushes, between any two requests |

### Push

`server` and `client[cl]` are repositories: changesets, the public ones, a bookmark.
`push[cl]` is the `pushoperation`, with `step` the question to ask next.

| Model | Code |
|---|---|
| `Discover` | `_pushdiscoverychangeset`; changesets missing on the server (`findcommonoutgoing`) |
| `ListPhases`, `OutdatedPhases` | `_pushdiscoveryphase`, with `analyzeremotephases` |
| `ListBookmarks`, `OutMark` | `_pushdiscoverybookmarks`, `comparebookmarks`, `_processcompared` |
| `BranchMap`, `HeadsSummary`; `NoWarn`, `AddsHeads` | `checkheads` in its two halves, since it asks for the branch map and then for the bookmarks |
| `Unbundle`, `CheckHeads`, `CheckPhases`, `CheckBookmarks` | the bundle at the server: `check:heads` or `check:updated-heads`, `check:phases`, `check:bookmarks`, then changegroup, phase heads and bookmark in one transaction |
| `SyncPhases`, `LocalMoves` | `_pushsyncphase` |
| `GiveUp` | the bundle or its reply is lost |

## 4. Runs

| Run | Checks | Shows |
|---|---|---|
| `txn_crash` | `TypeOK`, `RecoverableStore`, `ReadersResolve`, `NoPendingLeft`, `ImplementsAtomicStore` | two transactions, two crashes anywhere (the second one possibly inside a playback) and a failing truncation: the old store can be had back as long as there is a journal; commit is atomic; readers never find a dangling changeset or bookmark; nothing written for hooks stays |
| `txn_scopes` | `CommitOnlyIfAllClosed`, `UndoTakesBack`, `AbandonedIsRecovered`, `EndsItsWork` | up to three nested scopes, fncache replaced several times, two crashes, a truncation and a copy that fail: no commit with an unclosed scope; `undo` with `undo.backupfiles` leads to the store before the commit; every close and playback ends; `hg recover` eventually unblocks the repository |
| `txn_stale_backups` | `RecoverableStore` | violated, see section 7 |
| `lock_safety` | `TypeOK`, `ExclusiveUnlessRaced`, `BreaksWhatItTested`, `NoLockLeftBehind`, `NoLockStolen`, `StaleLockIsBroken` (and deadlock) | three processes of one host and one of another, which makes its lock file in two steps, two deaths, a reused number, nested holds: `.break` is contended, a stale `.break` is broken under `.break.break`, and tests are overtaken at levels 0 and 1. Above such races every lock has one holder, whose file no other process touches, and what is broken is what was found stale; the living leave no lock behind, and the lock of a dead process is broken as long as one that may write waits |
| `lock_race` | `MutualExclusion` | violated, see section 7 |
| `strip` | `NothingLost`, `StripIsExact`, `LinksAreGood` | any changesets stripped, twice, from any repository of four changesets and one file, with one death or error anywhere: a changeset that stays can always be had back, a strip takes away exactly what it should, and the links on which the next strip relies are right again |
| `phases` | `PhasesTypeOK`, `RootsMinimal`, `MovesAsAsked`, `StripKeepsPhases`, `MovesAreRecorded` (and deadlock) | every graph of three changesets in any phases: any two operations in a transaction, committed or aborted, and strips; in each state every move gives the phases asked for, and hooks are told of every change |
| `push` | `PushTypeOK`, `PhasesAgree`, `RacedOnlyIfChanged`, `PushesAreAllowed`, `MarkGoesForward`, `PublicAsServer` | two clients with any changesets of the graph push at the same time: what `checkheads` allowed holds at the server, a bookmark moves forward from where it is, phases agree afterwards, and nobody is told of a race that was none |
| `dirstate` | `DirstateTypeOK`, `CacheIsTrue`, `StatusIsTrue` (and deadlock) | no order of edits, ticks, statuses, updates, commits and deaths makes a file clean that differs from the parent, on any of four combinations of file system and format |
| `discovery` | `DiscoveryTypeOK`, `CommonIsExact`, `PullCompletes`, `DiscoveryEnds` | any two repositories, a server that grows twice, all the configurations: the common set is what both had at the start or more that both have, the pull brings what the server had, and discovery ends |
| `repocache` | `RepoCacheTypeOK`, `NothingOverwritten`, `MarksResolve`, `ValidIsTrue` | a reader without a lock and a writer, both of which may commit: no bookmark and no changeset is lost through an outdated object; what would be used again is right |
| `repocache_roots` | `RootsKept` | violated, see section 7 |

Every property of a passing run is violated by a mutant of the model (a dropped guard, a
forgotten reset, a swapped order), listed in `PROJECT.json`; the mutants stand next to the
definitions they change, marked as such.

## 5. Bounds and fairness

`MaxTxn = 2`: a transaction and the one after it, which meets what the first left
(stale files, `undo`, an abandoned journal). `MaxLen = 2` lets a log be non-empty
before the transaction and be appended to twice in one. `MaxCrash = 2`: a crash and
one during the recovery from it, or during the transaction that follows.
`MaxNest = 3`: an inner scope with a sibling or a parent that does otherwise.
`MaxFault = 1`: one input/output error. The proofs do without any of these bounds
being small. In `RepoLock`, a race takes two holders one
after the other, the process that breaks and the one that loses its lock: `lock_race` has
four of a host, and `lock_safety` three and the reuse of a number, or the other host's as the
one that loses. The three are also what a stale `.break` takes: a dead holder, a dead
holder of `.break`, and one that breaks both; and two of them meet over `.break` when the
third is dead. (The run was checked to reach: `.break` wanted by two, `.break.break` taken and a stale
`.break` unlinked, a race at level 0, two holders after it, an empty file left
by a death, a lock under a reused number, and an `unlink` of a file that is gone.)
`MaxLevel` is the deepest `.break` of the instance (a process that would go deeper gives
up, as one does that finds the deeper lock held); with two deaths, one of them at level 0, no
dead process is found deeper than level 1, and breaking that takes level 2. `Retries` is
5 in the code and 1 here, which makes giving up and waiting frequent; with 2 the invariants
were checked, too (4.2 million states). `restarts = 0` in `StaleIsAwaited` and
`NoLockLeftBehind` is a restriction: when the number of a process that died with a lock
is in use again, the lock looks held for as long as that process lives, and nobody
breaks it; if that is `.break`, nobody breaks the repository lock.

In `Strip`, four changesets are a root, a fork and the merge of its sides, cut at any of
them, with the file revisions in every order that puts parents first;
`MaxStrip = 2` is for `LinksSorted`, the precondition of the second strip that the
first one has to restore; `MaxCrash = 1` because the second strip is meant to start from
a repository that was put in order. One file is enough for TLC, as files do not meet but in
`Save`; the proofs have any number. Deaths within `endgroup()` are left out
(`CrashInGroup = FALSE`, see section 7).

In `Phases`, three changesets are a fork, a merge, a chain and all that lies between; two
moves are the least in which the second one meets roots that the first one made. With
the initial states being all sets of roots, the states between transactions are not
only those that two moves reach. In `RepoCache`, the loss of a bookmark takes one commit
of another process and one of one's own: `MaxCommits = 2`. One process is a reader,
since a second one would only do what the first does; the instance in which both are
was checked as well, and takes three minutes. In `Dirstate`, one file is enough,
because entries of different files do not meet; 3 ticks in a second make a first, a
middle and a last one, and 8 ticks three seconds, so that there is an earlier, the
same and a later second. One status meets all commands; two of them meet only through
the identity of the file, which any command changes too. In `SetDiscovery`, samples of
one changeset out of three make up to three rounds; the server grows twice, between the
heads and the first answer, and between two answers. In `Push`, two clients with one push each
or one with two; `MCPush` varies branches, phases and bookmarks one at a time over every
graph, because all of them together are too many initial states.

Deadlock is not checked for `Transaction`, which rightly stops when `MaxTxn`
transactions have been run; `EndsItsWork` says what matters instead. It is
checked for `RepoLock`, where only a system without processes may stop, and for
`Phases` and `Dirstate`. `RepoCache`, `SetDiscovery` and `Push` end when the bounded commits,
the pull or the pushes are over.

Fairness is weak and asks only that a process which is scheduled carries on with the
operation it is in: with closing (`CloseNext`), with a file operation begun, with a
playback, and with a try for the lock. Nobody is obliged to close a transaction,
to ask for a lock or to give one back. `WF(Recover)` stands for the user who
follows "run 'hg recover'"; without it an abandoned journal stays. Crashes and faults
have no fairness, and are bounded. `SetDiscovery` asks
weak fairness of the client as a whole: it sends its next request and gets an answer.
The server's growth has none.

## 6. Proofs

Constants are arbitrary: any finite set of files in three disjoint groups, any number
of processes, hosts, levels and tries, any graph of changesets, any number of phases,
any size of samples, and any value of the bounds.

`TransactionProofs`:

- `TypeCorrect`: `TypeOK`, through `Shape`, which says which files exist at each `pc`.
- `ClosedByAll`: `CommitOnlyIfAllClosed`. The invariant `ScopesCounted` relates the
  counters: with no scope left unclosed, `_count` is `_usages` less the closed
  innermost one; with one left, `_count` exceeds what the remaining scopes can close,
  so it never reaches 0 by `close()`.
- `OffsetsAreGood`, `ChangelogAlwaysResolves`: `OffsetsWithinFiles` and
  `ChangelogResolves` (half of `ReadersResolve`), from `LogsInv`. A transaction only appends, to logs that have an
  offset, so a log is that of `base` and some revisions of its own (`Grown`); the logs are
  level where a transaction begins and where one ends, and in between what the changelog
  lacks is in the buffer (`LogsDelayed`) or the playback has truncated it first.
- `PostGensAlwaysLast` (the other half, so `ReadersAlwaysResolve`), `NoPendingIsLeft`:
  `PostGensLast` and `NoPendingLeft`, each from an
  invariant of its own: no generated file names a transaction that has not begun, and one of
  `PostGens` none that is before `postgen`; a file for hooks was registered first, and
  what registers it is removed after it (`PendingInv`).
- `Recoverable`: `RecoverableStore`. It is not
  inductive: a replaced file needs to be known to have an entry, and an entry its
  copy, at the step before (`BackupsFirst`); an append needs its offset
  (`AppendsJournaled`); the playback needs to know which files it has done
  (`PlaybackProgress`). `Inductive` proves `IInv == TypeOK /\ Shape /\ (Undamaged => Good)`.
- `UndoAlwaysTakesBack`: `UndoTakesBack`, from `UndoInv`: what undo makes of the store that
  a roll back would leave is the store before the last commit, except while undo is replaced,
  when its files are known to be those of the journal, one by one.
- `Refines`: `ImplementsAtomicStore`. `IInv` gives that what a playback would make is
  `base` as long as there is a journal (`CommittedIsBase`); so only `RenameJournal`
  changes `Committed`, and makes it the store on the disk.

`Recoverable` and `Refines` assume `~CrashReopening` and `"restore" \notin Faults`.
Both are necessary: `txn_stale_backups` is the counterexample for the first, and TLC
finds one for the second (section 7). The others hold with any fault and any crash, where
`UndoTakesBack` says itself that nobody died and every copy was put back (`Untroubled`).

`RepoLockProofs`, for `MutuallyExclusive`, `BreaksOnlyStale`, `LocksAreKept`
(`ExclusiveUnlessRaced`, `BreaksWhatItTested`, `NoLockStolen`), all without any assumption but
those on the types of the constants. For each level that is `Sound`, the invariant says that a
held lock names its holder (`HolderIsNamed`), that a lock being written is empty and
its writer's (`WriterIsAlone`), that a process whose test is under way is alive or the lock
still names it (`TestsHolderOf`), and that what is about to be unlinked names a
process that holds nothing (`BreaksStaleOf`); the dead are idle.
The argument goes from a level to the one above it: a process about to unlink level l
holds level l + 1, which is sound when l is, so there is one such process,
and no other breaker can have unlinked and retaken level l since it was read. What can have is
the holder, and if it has ended since, the level is in `raced` (`GoneStep`); if it has not,
the test finds it alive. `lock_race` shows that the exception is needed.
`TypeCorrect` and `NothingLeft` (`NoLockLeftBehind`) hold with races, too.

`DagProofs` has lemmas and no theorem: a set of changesets that is not empty has a
changeset with the highest number and one with the lowest, so every changeset of a set is
below a head of it and above a root, and every other ancestor of a changeset is one of a
parent (`HeadsSpan`, `RootsSpan`, `ParentsCover`). The least number comes from the
library's theorem that `<` is well founded, the only induction there is.

`ExchangeProofs` has the theorems about discovery and those about a push. For discovery,
`DiscoveryTypeCorrect`, `CommonExact` and `PullComplete`
(`DiscoveryTypeOK`, `CommonIsExact`, `PullCompletes`): the server only grows, so what it
knew once it has for good, and what is above a changeset it did not know it did not have
when the command started. Hence `Books`: what is common is shared and closed, nothing
missing is in `before`, and the rest is undecided. When nothing is undecided, all that was
shared is common. `Asked` keeps that the heads the server named stand for all it had, and
`NothingIncoming` that a pull which fetches nothing needs nothing; with `common` being
local, the ancestors of what is wanted less what is common complete the repository.
Samples matter only in that they are local: no size and no choice can make the result wrong.

`PhasesProofs`, for `TypeCorrect`, `RootsAreMinimal`, `MovesAreAsAsked`, `StripsKeepPhases`
and `MovesAlwaysRecorded` (`PhasesTypeOK`, `RootsMinimal`, `MovesAsAsked`,
`StripKeepsPhases`, `MovesAreRecorded`). `RetractedRoots` and `LeftRoots` say what
the roots that are computed span; the phase of each changeset then follows from
`PhaseIsHighest`. `_retractboundary()` leaves alone the roots below the lowest new one, and
`RetractedMinimal` shows why it may: what such a root is an ancestor of has the phase
already. `StayingIs` shows why `advanceboundary()` may leave out, phase by phase, the
changesets that are in a lower one. `PhasesIInv` adds what the roots in the file and the
changesets that a strip has set aside must be for a roll back and the second half of the
strip to give roots again. `PhasesHistory` adds what was committed: `Told`, that tr.changes
has whatever is no longer in the phase it was committed with, and, for a bundle that was
set aside, that the file of roots still gives its changesets the phases they had
(`SetAsideAsItWas`), which is what the bundle is compared with when it is applied
(`ReapplyKeeps`: the target phase first, then what is public and what is draft moves
forward by its heads). `ToldExactly` is no invariant, as raising phases breaks it; each
other operation keeps it. `StripsKeepPhases` assumes `MaxPhase <= Secret` (section 7).
That a bundle is told from its absence is the last part of `PhasesAssumption`.

`RepoCacheProofs`, for `TypeCorrect`, `NothingLost`, `MarksAlwaysResolve` and `ValidIsCurrent`
(`RepoCacheTypeOK`, `NothingOverwritten`, `MarksResolve`, `ValidIsTrue`), with any number of
processes, any of which may read without the lock. Steps that concern the memory of one
process go through `LocalStep`, and `OtherProcess` and `OtherProcessReplaced` say what a
step of one leaves of what holds for another. What carries the argument is the last clause
of `ValidFor`: bookmarks are matched with a changelog that another read of the file made, so
a stat of `00changelog.i` that is still that of the entry of `_bookmarks` has to vouch for
the changelog in memory as well. It does because `_refreshchangelog()` drops the changelog after
that stat was taken, and a transaction, in which the changelog stays, starts with one that was
valid under the lock (`HeldBy`). `Closing` and `Aborting` follow the files while they are
written or put back, one by one; the bookmarks, written last, name changesets that are
there, except while they wait to be put back, when nobody but the transaction has the lock
and a reader drops what it does not know (`KnownMarksResolve`). Phase roots have no such
argument, and are lost (`repocache_roots`).

`DirstateProofs`, for `TypeCorrect`, `CacheAlwaysTrue` and `StatusAlwaysTrue`
(`DirstateTypeOK`, `CacheIsTrue`, `StatusIsTrue`), for any number of files, of contents, of
processes that run status and of ticks in a second; the last two assume, as the comment of
`merge.py` does, that nobody writes while update writes (`EditsDuringUpdate` is false). A note
is `Safe` if no file that is written from now on can match it. Time only goes forward
(`TickForward`, also where a second begins), so that a safe note stays safe, and a note that
is safe and true stays true, as the files which change get a time it does not match
(`NotePasses`). `ReliableIsSafe` says that `reliable_mtime_of()` gives safe notes only, and none
for a file that changed after it was read, since it is not before the boundary; storing
a note in either format keeps it safe (`SafeIsUnlike`). `FilterData` makes the notes of an
update safe at the time at which they are stored, and not before: while it writes, they
are known to be the current times of the files instead (`WritingOK`). The notes of a status are
about the parent it loaded, which is the one of the repository as long as the dirstate is
fresh (`WalkOK`). No bound of the run remains.

For a push, `PushTypeCorrect`, `PhasesAlwaysAgree`, `MarksGoForward`, `PublicIsAsServer`,
`RacedOnlyIfItChanged` and `PushesAlwaysAllowed` (`PushTypeOK`, `PhasesAgree`,
`MarkGoesForward`, `PublicAsServer`, `RacedOnlyIfChanged`, `PushesAreAllowed`), for any
number of clients and pushes. What a client has asked for is stale as soon as another
push is applied, but the server only grows, so the invariant says of each answer what
stays true of it (`ServerGrows`): that what was found is still there (`Found`); that what has to be
public there is, or is an ancestor of what the bundle publishes (`Published`, by
`OutdatedCovers`); that the summary of heads is that of some set of changesets between what was
found and what is there now (`Summed`), and that `checkheads()` accepted it (`Warned`). For
the heads, `NoMoreHeads` counts: a head that is new on the server is a new one of the
summary, and one that the summary replaces is still a head by `check:updated-heads` and is
replaced there, so the difference between the counts of the server is at most that between
those the client compared. `MarkGoes` keeps that the bookmark to push is on a changeset that is
sent or is there.

`StripProofs`, for `TypesAreKept`, `NothingIsLost`, `StripsAreExact` and `LinksStayGood`
(`TypeOK`, `NothingLost`, `StripIsExact`, `LinksAreGood`), for any graph of changesets, any
number of files with any shared nodes, and any number of strips, deaths and errors. All
four assume `~CrashInGroup`, that the process does not die while `endgroup()` writes; TLC
finds a counterexample to `LinksAreGood` without (section 7). Nothing is lost by such a death
as long as its strip is the last one (TLC, `N = 3`, `MaxStrip = 1`), but the next strip of that
repository looks up links past the end of the changelog, which has no defined outcome.

The logs on the disk satisfy nothing useful while they are cut or filled, so the invariant
speaks of the logs as the journal makes them when it is played (`ClPlayed`, `FlPlayed`). A
strip writes where it is going to cut before it cuts, so that from the first entry to the
end of the transaction the logs played are those that are to be left, however many cuts have
been made (`CutAgain`, `PlayedStays`); when the bundle is applied they are those from before
it, whatever was appended. Two things are kept of them. They and the temporary bundle
fit together (`Fit`): a revision is linked to the first changeset that introduces its node,
parents come before it, changelog and bundle have what they share in one order,
and what a changeset has in a file and the log lacks is in the bundle. And the two
have all that is to stay, and with the backup all that was (`Kept`). Neither changes until a
journal goes: at `CloseStrip` the logs are the ones played, and at `CloseApply` they are
those with the bundle added. The steps that have something to show are

- `OpenStrip` (`CutFits`): what is left by the cut, and the bundle, fit. For this the walk of
  `resolvestripinfo()` has to find the first revision linked to a changeset from the
  first to go on, and every later one linked below (`WalkInv`, `WalkEnds`); the revisions
  that a walk can still reach from the heads it has seen are `Ahead`. It rests on links
  going up from parent to child (`LinksGoUp`), which is what `Fit` gives before each
  strip, and the strip restores.
- `WriteTemp` (`TempIs`): the bundle has the changesets that the cut takes away and
  that stay and those whose file revisions it breaks (`saveheads` and `savebases` span
  `Save`, `SaveIs`), perhaps more, but nothing that is stripped, and with the file
  revisions lost (`BundleIs`).
- `ApplyFile`, `ApplyChangelog` (`FileReceived`, `LinkIs`, `Joined`): a node that is new
  is linked to the first changeset of the bundle that introduces it; that one is the first of
  the whole changelog too, as the bundle has what it shares with the changelog
  in the same order and from the first one on (`CsetsFit`), so that a node which is there
  keeps its link (`LinksStay`).

Only model-checked: the liveness properties (`AbandonedIsRecovered`, `EndsItsWork`,
`StaleLockIsBroken`, `DiscoveryEnds`), which the prover does not treat, and the three runs
that end in a counterexample.

## 7. Where the code and its documentation disagree

Three runs show this, with a counterexample to what the code or its documentation says:

- `txn_stale_backups`: a crash in the clean-up of a committed transaction leaves
  its `journal.backupfiles`; a second crash, between the two `open()` calls of the
  next transaction, puts a journal beside it. `hg recover` then restores the
  bookmarks and phases of before the first transaction, although it committed.
- `repocache_roots`: a process that has loaded the changelog computes `_phasecache` after
  another one's commit. `filterunknown()` drops the root of the new changeset, which the
  changelog in memory lacks; the stat that is noted is the new one, so the object is
  used again under the lock, with the new changelog, and written back: the other's
  secret or draft changeset is draft or public. `_bookmarks` reloads the changelog
  for this reason (`localrepo.py:1660-1708`), `_phasecache` does not.

- `lock_race`: a process that breaks a lock holds `.break`, which keeps other breakers off but
  not the holder of the lock. If the live holder that `_readlock()` returned (`lock.py:341`)
  gives the lock back and exits before `testpid()` looks (`:342`, `:329`), its number tests as
  dead; a process that takes the free lock in the meantime has it unlinked (`:344`), and
  another takes it, too. No process is killed. The comment says "must do this with
  another lock held, or can race and break valid lock" (`lock.py:336-337`). If nobody
  takes the lock in the meantime, the `unlink` raises `FileNotFoundError`, and the command
  ends with it instead of with the lock. `lock_safety` has these behaviours, too: what
  its properties say is that nothing else goes wrong, and nothing above the race.

TLC finds the following with other constants or properties than those of the runs:

| Constants | Property violated | What it shows |
|---|---|---|
| `Transaction`, `Faults` with `"restore"` | `RollbackCompletes` | a backup that cannot be copied back is reported and passed over, the file is already unlinked, the journal goes, and "rollback completed" is printed (`transaction.py:88-104`, `:696`; the docstring at `:279-281` says the backup is used to recover the file) |
| `Transaction`, `Faults` with `"restore"`, three transactions | `UndoTakesBack` with `crashes = 0` in the place of `Untroubled` | a bookmarks file that could not be copied back is gone when the next transaction commits; `hg rollback` of that one leaves it so, as undo has no entry for a file that the transaction did not write. Found by its proof: two transactions are too few for it |
| `RepoLock`, `lock_safety` | `StaleLockIsBroken` without `restarts = 0` | a process dies with `.break`, and its number is given to another: `.break` looks held, and no waiting process breaks the lock (section 5) |
| `RepoLock`, a negative timeout | `NegativeTimeoutWaits` | a negative `ui.timeout` is documented to wait for ever (`helptext/config.txt:2854`), and `trylock()` gives up at the first attempt (`lock.py:157`) |
| `Strip`, `CrashInGroup = TRUE` | `LinksAreGood` | `startgroup()` and `endgroup()` promise that the transaction sees all of the actions of a strip or none (`transaction.py:230`, `:238`). A process that dies while `endgroup()` writes leaves a journal with some of them, and `hg recover` truncates the changelog and leaves file revisions linked to changesets that no longer exist |
| `Phases` | `HooksToldTheTruth` | the txnclose-phase hook is "called [...] once for each revision affected by a phase change", with its old phase (`helptext/config.txt`). When a boundary is retracted, a descendant that is in a higher phase already is said to have moved (public to draft, and it is secret), and so is a changeset between an old root and one that moved (`roots::affected`, `phases.py:628-637`), which stays where it was. Forward moves are exact (`MovesAreRecorded`) |
| `Push`, two clients with `--new-branch` | `NoNewHeads` | both push the first head of the same new branch; neither replaces a head, so `check:updated-heads` has nothing to check, and the branch gets two heads (`exchange.py:831`; `hg help push`: "By default, push will not allow creation of new heads at the destination") |
| `SetDiscovery`, `N = 4`, `MaxGrowths = 0` | `LimitedSamplesFit` | "if the server has a limit to its arguments size, we can't grow the sample" (`setdiscovery.py:434`), but `hard_limit_sample` is false for such servers (`:440`), so a full sample has as many changesets as there are undecided heads |

With `MaxPhase = 3`, `StripKeepsPhases` fails: archived and internal changesets that a strip
has to set aside come back as draft, because the bundle has a target phase only for secret
heads (`bundle2.py:1726-1731`).

Three more came up in modelling and are no properties of the modules. A bookmark that is created
on the server between the two listings of a push lets a head through that the client has
no bookmark on (`NoWarn` asks again, `ListBookmarks` has decided what is pushed). With
`devel.discovery.exchange-heads` off, a pull into an empty repository is refused as
unrelated, since the early exit for it is in the other branch (`setdiscovery.py:396-401`);
`PullCompletes` allows for an abort. And `branchmap.update()` has a shortcut for a
branch with one head and one candidate (`branchmap.py:558`) that takes the heads it starts
from for complete; `_headssummary()` (`discovery.py:260-268`) starts from heads without those
that a changeset unknown here has superseded. With changesets 1 to 4, 3 on another branch and
a child of 1, 4 a merge of 2 and 3 on the branch of 1 and 2, the server's head of it being an
unknown child of 2: a push of 4 is refused for two new heads, 1 and 4, although it adds one. `Push`
takes the heads by their definition (`HeadsOn`).

## 8. What is not modelled

Of the transaction: contents of files, formats and encodings; `replace` (revlog splits);
caches among the backup entries; `00changelog.i.a`, which the changelog writes for hooks when it
was empty, and which no backup entry has (`changelog.py:446-450`, `:471-476`); `journal.dirstate` and the other files `localrepo` copies
aside; errors other than a failing truncation and a failing copy; reordering of writes by
the file system (the code calls no `fsync` here, and a machine that loses power may show
any of them). Of locks: `fork()` in a process that holds one; the order of `wlock` and `lock`.
Of strip: bookmarks and obsolescence markers, the `repair` transaction, `softstrip`.

Of phases: the checks that keep archived and internal changesets where they are, the sets
of revisions kept in memory, the binary format. The instance has three phases; see section 7 for a fourth. Of the file cache: properties
other than the three, `HG_PENDING`. Of the dirstate: entries that are added, removed, merged
or copied; sizes and modes; ignored and unknown files; the append of dirstate-v2; and
an editor that writes into a file while `hg update` writes it: with
`EditsDuringUpdate = TRUE`, `CacheIsTrue` is violated, and the code says that it assumes
otherwise (`merge.py:2149`).

Of discovery: hidden changesets, a server that strips changesets or answers at random, the growth of samples,
the older protocol without `known`. Of push: more than one bookmark, secret
changesets, obsolescence, a local repository that cannot be locked, servers without
bundle2, subrepositories, hooks; discovery of changesets is one step, with the whole common set as
its result.

Components without a module are listed with the reason in `PROJECT.json`. Most of the
program's lines are commands, extensions, diff, templates and the web interface, which keep no state that outlives
a call; the native code repeats functions of the Python in C and Rust.

## 9. Plan

In this order, each with its runs and, where stated, its proof:

1. `BranchMap`: the incremental update of the heads of a branch, with closed heads, against
   `HeadsOn`, for full caches and for the one `_headssummary` builds.
2. In `Transaction`, as further actions: `replace` and the revlog split, with readers
   that have the old index open, and `hg rollback` (`localrepo._rollback`) over `undo*`,
   with crashes in it (abstractly a second step back of `AtomicStore`).
3. `WlockLock`: two `RepoLock` abstractions (one-holder locks) taken in the documented
   order, with dirstate backups and `journal.dirstate`; no process waits for one that
   waits for it. Proof: the order excludes a cycle.
4. Strips with bookmarks and obsolescence markers, `softstrip` (which cuts nothing), and the
   composition of `Strip` with the transactions of `Transaction`, so that a death in a
   playback is a step of both.
5. Obsolescence markers in `Push` and their own module; then framing reactors and merge
   state.
