------------------------- MODULE TransactionProofs -------------------------
(***************************************************************************)
(* Proofs about Transaction.tla, for every set of files and every bound:   *)
(*   - TypeCorrect: the type invariant;                                    *)
(*   - ClosedByAll: a scope left without close() dooms the transaction;    *)
(*   - OffsetsAreGood: no log is shorter than its offset in the journal;   *)
(*   - ChangelogAlwaysResolves: a changeset that a reader finds has its    *)
(*     revisions;                                                          *)
(*   - PostGensAlwaysLast: bookmarks name no changeset that is to come,    *)
(*     so with that ReadersAlwaysResolve;                                  *)
(*   - NoPendingIsLeft: what was written for hooks is removed;             *)
(*   - Recoverable: playing the journal back gives the store of before the *)
(*     transaction, wherever the process died;                             *)
(*   - UndoAlwaysTakesBack: hg rollback leads to the store before the last *)
(*     commit;                                                             *)
(*   - Refines: the transaction implements AtomicStore.                    *)
(* Recoverable and Refines assume that no backup fails to be copied back,  *)
(* and that no process dies between the two files a transaction opens      *)
(* while an old journal.backupfiles lies there: otherwise they would not   *)
(* hold (README, section 7, and the run txn_stale_backups).                *)
(***************************************************************************)
EXTENDS Transaction, SequenceTheorems, TLAPS

(* While a transaction is open it has both its files; a playback has the    *)
(* journal until its last step.                                            *)
Generating == {"active", "pregen", "final", "postgen"}
Open == Generating \cup {"cleanup", "writeundo", "after", "rename"}
Playing == {"playlog", "playgen", "rmjournal"}

\* Which files there are, and what is in memory, at each stage.
Shape ==
    /\ pc \in Open \cup Playing \cup {"opening"} => journal # Absent
    /\ pc \in Open \cup {"rmbackupfiles"} => backupfiles # Absent
    /\ pc \in {"rmbackupfiles", "rmcopies"} => journal = Absent
    /\ pc = "rmjournal" => backupfiles = Absent
    /\ pc \in {"opening", "active"} => usages > 0
    /\ pc \in {"pregen", "final", "postgen"} => count = 1
    /\ cur.op \in {"append", "pending"} => pc = "active"
    /\ cur.op \in {"entry", "replace"} => pc \in Generating
    /\ cur.op = "restore" => pc = "playgen" /\ backupfiles # Absent
    /\ pc = "playlog" => todo \subseteq Journaled
    /\ pc = "playgen" => todo \subseteq Gens
    /\ pc = "playgen" /\ backupfiles = Absent => todo = {}

\* The two halves of RecoverableStore, by file.
GenPlayed(g) ==
    IF backupfiles = Absent \/ backupfiles.gen[g] = "none" THEN gen[g]
    ELSE IF backupfiles.gen[g] = "copy" THEN backup[g] ELSE Absent

LogsRecoverable ==
    journal # Absent /\ pc # "opening" =>
        \A f \in Logs : Cut(log[f], journal[f]) = base.log[f]

GensRecoverable ==
    journal # Absent /\ pc # "opening" =>
        \A g \in Gens : GenPlayed(g) = base.gen[g]

\* Nothing is written between the two files a transaction opens.
OpeningQuiet ==
    pc = "opening" => journal = EmptyJournal /\ log = base.log /\ gen = base.gen

\* What is appended, now or when the transaction closes, has an offset.
AppendsJournaled ==
    /\ cur.op = "append" => cur.f \in Logs /\ journal[cur.f] # NoEntry
    /\ buf > 0 => /\ pc \in {"active", "pregen", "final"}
                  /\ journal[Changelog] # NoEntry

\* A file is replaced only with its entry written, and the entry only with its
\* copy made.
BackupsFirst ==
    /\ cur.op = "entry" => /\ cur.f \in Gens
                           /\ backupfiles.gen[cur.f] = "none"
                           /\ gen[cur.f] # Absent => backup[cur.f] = gen[cur.f]
    /\ cur.op = "replace" => cur.f \in Gens /\ backupfiles.gen[cur.f] # "none"

\* How far a playback has come.
PlaybackProgress ==
    /\ pc = "playlog" => \A f \in Logs \ todo : log[f] = base.log[f]
    /\ pc \in {"playgen", "rmjournal"} => log = base.log
    /\ pc = "playgen" => /\ \A g \in Gens \ todo : gen[g] = base.gen[g]
                         /\ \A g \in todo : backupfiles.gen[g] # "none"
    /\ cur.op = "restore" =>
          cur.f \in todo /\ backupfiles.gen[cur.f] = "copy"
    /\ pc = "rmjournal" => gen = base.gen

Good ==
    /\ OffsetsWithinFiles
    /\ LogsRecoverable /\ GensRecoverable
    /\ OpeningQuiet /\ AppendsJournaled /\ BackupsFirst /\ PlaybackProgress

\* Nothing has happened yet that a roll back does not survive.
Undamaged ==
    /\ CrashReopening => crashes = 0
    /\ "restore" \in Faults => faults = 0

IInv == TypeOK /\ Shape /\ (Undamaged => Good)

\* A file of the transaction that is empty is not one that is absent.
LEMMA EmptyFiles ==
    /\ EmptyJournal \in Journals /\ EmptyJournal # Absent
    /\ EmptyBackups \in BackupJournals /\ EmptyBackups # Absent
<1>1. EmptyJournal \in Journals
  BY DEF EmptyJournal, Journals, Offsets, NoEntry
<1>2. EmptyBackups \in BackupJournals
  BY DEF EmptyBackups, BackupJournals, EntryKinds
<1>3. QED
  BY <1>1, <1>2, AbsentAssumption

-----------------------------------------------------------------------------
(* The type invariant, with the shape of a transaction *)

\* TypeOK and Shape hold at first, ...
LEMMA TypeInit == Init => TypeOK /\ Shape
<1>1. SUFFICES ASSUME Init PROVE TypeOK /\ Shape
  OBVIOUS
<1>2. log \in [Logs -> Seq(Numbers)] /\ gen \in [Gens -> MaybeTxn]
  BY <1>1, BoundsAssumption DEF Init, Numbers, MaybeTxn
<1>3. Store \in Stores
  BY <1>2 DEF Store, Stores
<1>4. TypeOK
  <2>1. /\ Store \in Stores /\ base \in Stores /\ prev \in Stores
        /\ backup \in [Gens -> MaybeTxn] /\ undobackup \in [Gens -> MaybeTxn]
    BY <1>1, <1>3 DEF Init, MaybeTxn
  <2>2. txn \in Numbers
    BY <1>1, BoundsAssumption DEF Init, Numbers
  <2>3. cur \in [op : {"none"}, f : {Absent}]
    BY <1>1 DEF Init, Idle
  <2>4. QED
    BY <1>1, <2>1, <2>2, <2>3 DEF Init, TypeOK
<1>5. Shape
  BY <1>1 DEF Init, Shape, Open, Playing, Generating, Idle
<1>6. QED
  BY <1>4, <1>5

\* ... and every step keeps them.
LEMMA TypeStep ==
    TypeOK /\ Shape /\ [Next]_vars => TypeOK' /\ Shape'
<1>1. SUFFICES ASSUME TypeOK, Shape, [Next]_vars PROVE TypeOK' /\ Shape'
  OBVIOUS
<1> USE <1>1, FilesAssumption, AbsentAssumption, BoundsAssumption
    DEF TypeOK, Shape, store, tfiles, ufiles, ownfiles, files, scopes, ids,
        past, run, Store, Stores, Numbers, MaybeTxn, Files, Idle, Doing,
        Active, Step, Generating, Open, Playing, Journaled, BackedUp, Copied,
        Forget, ForgetScopes, StartPlayback, Journals, BackupJournals,
        Offsets, EmptyJournal, EmptyBackups, EntryKinds, NoEntry, MayReplace
<1>2. TypeOK' /\ Shape'
  <2>1. CASE OpenJournal
    <3>1. journal' \in Journals /\ journal' # Absent
      BY <2>1, EmptyFiles DEF OpenJournal
    <3>2. txn' \in Numbers
      <4>1. txn \in 0..MaxTxn /\ txn < MaxTxn /\ txn' = txn + 1
        BY <2>1 DEF OpenJournal
      <4> HIDE DEF TypeOK, Shape
      <4>2. QED
        BY <4>1
    <3>3. base' \in Stores
      BY <2>1 DEF OpenJournal
    <3> HIDE DEF EmptyJournal, Journals, BackupJournals, Numbers, Stores,
                 MaybeTxn
    <3>4. TypeOK'
      BY <2>1, <3>1, <3>2, <3>3 DEF OpenJournal
    <3>5. Shape'
      BY <2>1, <3>1 DEF OpenJournal
    <3>6. QED
      BY <3>4, <3>5
  <2>2. CASE OpenBackupfiles
    <3>1. backupfiles' \in BackupJournals /\ backupfiles' # Absent
      BY <2>2, EmptyFiles DEF OpenBackupfiles
    <3> HIDE DEF EmptyBackups, BackupJournals, Stores, Journals, MaybeTxn
    <3>2. TypeOK'
      BY <2>2, <3>1 DEF OpenBackupfiles
    <3>3. Shape'
      BY <2>2, <3>1 DEF OpenBackupfiles
    <3>4. QED
      BY <3>2, <3>3
  <2>3. CASE Nest
    BY <2>3 DEF Nest
  <2>4. CASE CloseNested
    BY <2>4 DEF CloseNested
  <2>5. CASE Release
    <3>1. CASE usages = 1
      <4> HIDE DEF Stores, Journals, BackupJournals, MaybeTxn
      <4>0. left' \in BOOLEAN
        BY <2>5 DEF Release
      <4>1. UNCHANGED <<files, past>> /\ Forget /\ pc' = "playlog"
            /\ todo' = Journaled
        BY <2>5, <3>1 DEF Release
      <4>2. TypeOK'
        BY <4>0, <4>1
      <4>3. Shape'
        BY <2>5, <4>1 DEF Release
      <4>4. QED
        BY <4>2, <4>3
    <3>2. CASE usages # 1
      <4>1. usages' \in Nat /\ usages' > 0
        BY <2>5, <3>2 DEF Release
      <4> HIDE DEF Stores, Journals, BackupJournals
      <4>2. QED
        BY <2>5, <3>2, <4>1 DEF Release
    <3>3. QED
      BY <3>1, <3>2
  <2>6. CASE Raise
    BY <2>6 DEF Raise
  <2>7. CASE Close
    BY <2>7 DEF Close
  <2>8. CASE Generated
    BY <2>8 DEF Generated
  <2>9. CASE Finalize
    BY <2>9 DEF Finalize
  <2>10. CASE Finalized
    BY <2>10 DEF Finalized
  <2>11. CASE Written
    BY <2>11 DEF Written
  <2>12. CASE OpenUndo
    BY <2>12 DEF OpenUndo
  <2>13. CASE CloseUndo
    BY <2>13 DEF CloseUndo
  <2>14. CASE UnlinkUndo
    BY <2>14 DEF UnlinkUndo
  <2>15. CASE RenameJournal
    BY <2>15 DEF RenameJournal
  <2>16. CASE UnlinkBackupfiles
    BY <2>16 DEF UnlinkBackupfiles
  <2>17. CASE Done
    BY <2>17 DEF Done
  <2>18. CASE Recover
    BY <2>18 DEF Recover
  <2>19. CASE Truncated
    BY <2>19 DEF Truncated
  <2>20. CASE Restored
    BY <2>20 DEF Restored
  <2>21. CASE UnlinkJournal
    BY <2>21 DEF UnlinkJournal
  <2>22. CASE TruncateFails
    <3>1. faults' \in Nat
      BY <2>22 DEF TruncateFails
    <3> HIDE DEF Stores, Journals, BackupJournals
    <3>2. QED
      BY <2>22, <3>1 DEF TruncateFails
  <2>23. CASE Crash
    <3>1. crashes' \in Nat
      BY <2>23 DEF Crash
    <3> HIDE DEF Stores, Journals, BackupJournals
    <3>2. QED
      BY <2>23, <3>1 DEF Crash
  <2>24. ASSUME NEW f \in Logs, AddEntry(f) PROVE TypeOK' /\ Shape'
    <3>1. Len(log[f]) \in Nat
      OBVIOUS
    <3>2. journal \in Journals /\ journal # Absent
      BY <2>24 DEF AddEntry
    <3>3. journal' \in Journals
      BY <2>24, <3>1, <3>2 DEF AddEntry
    <3>4. journal' # Absent
      BY <3>3
    <3> HIDE DEF Stores, Journals, BackupJournals, MaybeTxn
    <3>5. QED
      BY <2>24, <3>3, <3>4 DEF AddEntry
  <2>25. ASSUME NEW f \in Logs, Append1(f) PROVE TypeOK' /\ Shape'
    <3>1. log' \in [Logs -> Seq(Numbers)]
      <4>1. Append(log[f], txn) \in Seq(Numbers)
        OBVIOUS
      <4>2. QED
        BY <2>25, <4>1 DEF Append1
    <3>2. buf' \in Nat
      BY <2>25 DEF Append1
    <3>3. Store' \in Stores
      BY <2>25, <3>1 DEF Append1
    <3> HIDE DEF Stores, Journals, BackupJournals, MaybeTxn
    <3>4. QED
      BY <2>25, <3>2, <3>3 DEF Append1
  <2>26. ASSUME NEW f \in Logs, Truncate(f) PROVE TypeOK' /\ Shape'
    <3>1. journal[f] \in 0..Len(log[f])
      BY <2>26 DEF Truncate
    <3>2. SubSeq(log[f], 1, journal[f]) \in Seq(Numbers)
      <4>1. log[f] \in Seq(Numbers) /\ 1 \in 1..Len(log[f]) + 1
            /\ journal[f] \in 1 - 1..Len(log[f])
        BY <3>1
      <4> HIDE DEF TypeOK, Shape, Numbers
      <4>2. QED
        BY <4>1, SubSeqProperties
    <3>3. Store' \in Stores
      BY <2>26, <3>2 DEF Truncate
    <3>4. todo' \subseteq Journaled'
      BY <2>26 DEF Truncate
    <3> HIDE DEF Stores, Journals, BackupJournals, MaybeTxn
    <3>5. QED
      BY <2>26, <3>3, <3>4 DEF Truncate
  <2>27. ASSUME NEW g \in Gens, AddFileGenerator(g) PROVE TypeOK' /\ Shape'
    BY <2>27 DEF AddFileGenerator
  <2>28. ASSUME NEW g \in Gens, RemoveFileGenerator(g) PROVE TypeOK' /\ Shape'
    BY <2>28 DEF RemoveFileGenerator
  <2>29. ASSUME NEW g \in Gens, RegisterTmp(g) PROVE TypeOK' /\ Shape'
    <3>1. backupfiles' \in BackupJournals
      <4>1. backupfiles \in BackupJournals
        BY <2>29 DEF RegisterTmp
      <4>2. QED
        BY <2>29, <4>1 DEF RegisterTmp
    <3>2. backupfiles' # Absent
      BY <3>1
    <3> HIDE DEF Stores, Journals, BackupJournals, MaybeTxn
    <3>3. QED
      BY <2>29, <3>1, <3>2 DEF RegisterTmp
  <2>30. ASSUME NEW g \in Gens, WritePending(g) PROVE TypeOK' /\ Shape'
    BY <2>30 DEF WritePending
  <2>31. ASSUME NEW g \in Gens, CopyBackup(g) PROVE TypeOK' /\ Shape'
    <3>1. backup' \in [Gens -> MaybeTxn]
      BY <2>31 DEF CopyBackup
    <3>2. pc \in Generating
      BY <2>31 DEF CopyBackup
    <3>3. cur' \in [op : {"entry", "replace"}, f : Gens]
      BY <2>31 DEF CopyBackup
    <3> HIDE DEF Stores, Journals, BackupJournals, MaybeTxn, MayReplace
    <3>4. QED
      BY <2>31, <3>1, <3>2, <3>3 DEF CopyBackup
  <2>32. ASSUME NEW g \in Gens, AddBackupEntry(g) PROVE TypeOK' /\ Shape'
    <3>1. backupfiles' \in BackupJournals
      <4>1. backupfiles \in BackupJournals
        BY <2>32 DEF AddBackupEntry
      <4>2. /\ backupfiles'.gen \in [Gens -> EntryKinds]
            /\ backupfiles'.tmp = backupfiles.tmp
        BY <2>32, <4>1 DEF AddBackupEntry
      <4>3. QED
        BY <2>32, <4>1, <4>2 DEF AddBackupEntry
    <3>2. backupfiles' # Absent
      BY <3>1
    <3> HIDE DEF Stores, Journals, BackupJournals, MaybeTxn
    <3>3. QED
      BY <2>32, <3>1, <3>2 DEF AddBackupEntry
  <2>33. ASSUME NEW g \in Gens, Replace(g) PROVE TypeOK' /\ Shape'
    BY <2>33 DEF Replace
  <2>34. ASSUME NEW g \in Gens, UnlinkPending(g) PROVE TypeOK' /\ Shape'
    BY <2>34 DEF UnlinkPending
  <2>35. ASSUME NEW g \in Gens, LinkUndo(g) PROVE TypeOK' /\ Shape'
    BY <2>35 DEF LinkUndo
  <2>36. ASSUME NEW g \in Gens, UnlinkCopy(g) PROVE TypeOK' /\ Shape'
    BY <2>36 DEF UnlinkCopy
  <2>37. ASSUME NEW g \in Gens, UnlinkGen(g) PROVE TypeOK' /\ Shape'
    BY <2>37 DEF UnlinkGen
  <2>38. ASSUME NEW g \in Gens, RestoreGen(g) PROVE TypeOK' /\ Shape'
    BY <2>38 DEF RestoreGen
  <2>39. ASSUME NEW g \in Gens, RestoreFails(g) PROVE TypeOK' /\ Shape'
    BY <2>39 DEF RestoreFails
  <2>40. CASE UNCHANGED vars
    <3> HIDE DEF Stores, Journals, BackupJournals, MaybeTxn, Numbers, Files
    <3>1. TypeOK'
      BY <2>40 DEF vars
    <3>2. Shape'
      BY <2>40 DEF vars
    <3>3. QED
      BY <3>1, <3>2
  <2>41. QED
    BY <2>1, <2>2, <2>3, <2>4, <2>5, <2>6, <2>7, <2>8, <2>9, <2>10, <2>11,
       <2>12, <2>13, <2>14, <2>15, <2>16, <2>17, <2>18, <2>19, <2>20, <2>21,
       <2>22, <2>23, <2>24, <2>25, <2>26, <2>27, <2>28, <2>29, <2>30, <2>31,
       <2>32, <2>33, <2>34, <2>35, <2>36, <2>37, <2>38, <2>39, <2>40
    DEF Next, WriteNext, ScopeNext, CloseNext, PlaybackNext, FailNext
<1>3. QED
  BY <1>2

\* Every reachable state is well typed (TypeOK), with any fault and crash.
THEOREM TypeCorrect == Spec => []TypeOK
<1>1. Spec => [](TypeOK /\ Shape)
  BY TypeInit, TypeStep, PTL DEF Spec
<1>2. QED
  BY <1>1, PTL

-----------------------------------------------------------------------------
(* A transaction that some scope left unclosed does not commit *)

\* _count counts the scopes that are open or were left without close(), and
\* _usages those that are open.
ScopesCounted ==
    /\ pc \in {"opening", "active"} =>
          count >= usages - (IF closed THEN 1 ELSE 0) + (IF left THEN 1 ELSE 0)
    /\ pc = "opening" => ~left
    /\ CommitOnlyIfAllClosed

\* Every step keeps the count of scopes right.
LEMMA ScopesStep ==
    ASSUME TypeOK, Shape, ScopesCounted, [Next]_vars
    PROVE  ScopesCounted'
<1> USE DEF ScopesCounted, CommitOnlyIfAllClosed, Shape,
        store, tfiles, ufiles, ownfiles, files, scopes, ids, past, run, Active,
        Step, Doing, Forget, ForgetScopes, StartPlayback
<1>1. count \in Nat /\ usages \in Nat
  BY DEF TypeOK
<1>2. CASE OpenJournal
  BY <1>2 DEF OpenJournal
<1>3. CASE OpenBackupfiles
  BY <1>3 DEF OpenBackupfiles
<1>4. CASE Nest
  BY <1>1, <1>4 DEF Nest
<1>5. CASE CloseNested
  BY <1>1, <1>5 DEF CloseNested
<1>6. CASE Release
  <2>1. CASE usages = 1
    BY <1>6, <2>1 DEF Release
  <2>2. CASE usages # 1 /\ closed
    <3>1. /\ usages' = usages - 1 /\ count' = count
          /\ ~closed' /\ (left' => left)
          /\ pc = "active" /\ pc' = "active"
      BY <1>6, <2>2 DEF Release
    <3>2. QED
      BY <1>1, <2>2, <3>1
  <2>3. CASE usages # 1 /\ ~closed
    <3>1. /\ usages' = usages - 1 /\ count' = count /\ ~closed' /\ left'
          /\ pc = "active" /\ pc' = "active"
      BY <1>6, <2>3 DEF Release
    <3>2. QED
      BY <1>1, <2>3, <3>1
  <2>4. QED
    BY <2>1, <2>2, <2>3
<1>7. CASE Raise
  BY <1>7 DEF Raise
<1>8. CASE Close
  BY <1>1, <1>8 DEF Close
<1>9. CASE Generated
  BY <1>9 DEF Generated
<1>10. CASE Finalize
  BY <1>10 DEF Finalize
<1>11. CASE Finalized
  BY <1>11 DEF Finalized
<1>12. CASE Written
  BY <1>12 DEF Written
<1>13. CASE OpenUndo
  BY <1>13 DEF OpenUndo
<1>14. CASE CloseUndo
  BY <1>14 DEF CloseUndo
<1>15. CASE UnlinkUndo
  BY <1>15 DEF UnlinkUndo
<1>16. CASE RenameJournal
  BY <1>16 DEF RenameJournal
<1>17. CASE UnlinkBackupfiles
  BY <1>17 DEF UnlinkBackupfiles
<1>18. CASE Done
  BY <1>18 DEF Done
<1>19. CASE Recover
  BY <1>19 DEF Recover
<1>20. CASE Truncated
  BY <1>20 DEF Truncated
<1>21. CASE Restored
  BY <1>21 DEF Restored
<1>22. CASE UnlinkJournal
  BY <1>22 DEF UnlinkJournal
<1>23. CASE TruncateFails
  BY <1>23 DEF TruncateFails
<1>24. CASE Crash
  BY <1>24 DEF Crash
<1>25. ASSUME NEW f \in Logs, AddEntry(f) PROVE ScopesCounted'
  BY <1>25 DEF AddEntry
<1>26. ASSUME NEW f \in Logs, Append1(f) PROVE ScopesCounted'
  BY <1>26 DEF Append1
<1>27. ASSUME NEW f \in Logs, Truncate(f) PROVE ScopesCounted'
  BY <1>27 DEF Truncate
<1>28. ASSUME NEW g \in Gens, AddFileGenerator(g) PROVE ScopesCounted'
  BY <1>28 DEF AddFileGenerator
<1>29. ASSUME NEW g \in Gens, RemoveFileGenerator(g) PROVE ScopesCounted'
  BY <1>29 DEF RemoveFileGenerator
<1>30. ASSUME NEW g \in Gens, RegisterTmp(g) PROVE ScopesCounted'
  BY <1>30 DEF RegisterTmp
<1>31. ASSUME NEW g \in Gens, WritePending(g) PROVE ScopesCounted'
  BY <1>31 DEF WritePending
<1>32. ASSUME NEW g \in Gens, CopyBackup(g) PROVE ScopesCounted'
  BY <1>32 DEF CopyBackup, MayReplace
<1>33. ASSUME NEW g \in Gens, AddBackupEntry(g) PROVE ScopesCounted'
  BY <1>33 DEF AddBackupEntry
<1>34. ASSUME NEW g \in Gens, Replace(g) PROVE ScopesCounted'
  BY <1>34 DEF Replace
<1>35. ASSUME NEW g \in Gens, UnlinkPending(g) PROVE ScopesCounted'
  BY <1>35 DEF UnlinkPending
<1>36. ASSUME NEW g \in Gens, LinkUndo(g) PROVE ScopesCounted'
  BY <1>36 DEF LinkUndo
<1>37. ASSUME NEW g \in Gens, UnlinkCopy(g) PROVE ScopesCounted'
  BY <1>37 DEF UnlinkCopy
<1>38. ASSUME NEW g \in Gens, UnlinkGen(g) PROVE ScopesCounted'
  BY <1>38 DEF UnlinkGen
<1>39. ASSUME NEW g \in Gens, RestoreGen(g) PROVE ScopesCounted'
  BY <1>39 DEF RestoreGen
<1>40. ASSUME NEW g \in Gens, RestoreFails(g) PROVE ScopesCounted'
  BY <1>40 DEF RestoreFails
<1>41. CASE UNCHANGED vars
  BY <1>41 DEF vars
<1>42. QED
  BY <1>2, <1>3, <1>4, <1>5, <1>6, <1>7, <1>8, <1>9, <1>10, <1>11, <1>12,
     <1>13, <1>14, <1>15, <1>16, <1>17, <1>18, <1>19, <1>20, <1>21, <1>22,
     <1>23, <1>24, <1>25, <1>26, <1>27, <1>28, <1>29, <1>30, <1>31, <1>32,
     <1>33, <1>34, <1>35, <1>36, <1>37, <1>38, <1>39, <1>40, <1>41
     DEF Next, WriteNext, ScopeNext, CloseNext, PlaybackNext, FailNext

\* A transaction commits only when each of its scopes was closed
\* (CommitOnlyIfAllClosed): transaction.release() aborts it otherwise.
THEOREM ClosedByAll == Spec => []CommitOnlyIfAllClosed
<1>1. Init => ScopesCounted
  BY DEF Init, ScopesCounted, CommitOnlyIfAllClosed
<1>2. ScopesCounted => CommitOnlyIfAllClosed
  BY DEF ScopesCounted
<1>3. Spec => [](TypeOK /\ Shape)
  BY TypeInit, TypeStep, PTL DEF Spec
<1>4. QED
  BY <1>1, <1>2, <1>3, ScopesStep, PTL DEF Spec

-----------------------------------------------------------------------------
(* The changelog and the other logs *)

\* c is b and what transaction t appended to it.
Grown(c, b, t) ==
    /\ Len(b) <= Len(c)
    /\ \A i \in 1..Len(c) : c[i] = IF i <= Len(b) THEN b[i] ELSE t

BaseLen(f) == Len(base.log[f])

\* A transaction only appends, to logs that have an offset, and to the changelog last.
LogsOfTransaction ==
    journal # Absent =>
        \A f \in Logs :
            /\ journal[f] \in {NoEntry, BaseLen(f)}
            /\ Grown(log[f], base.log[f], txn)
            /\ journal[f] = NoEntry => Len(log[f]) = BaseLen(f)
            /\ Len(log[Changelog]) <= Len(log[f])

\* Where a transaction begins and ends every log has a revision for each changeset.
LogsLevel ==
    /\ \A f \in Logs : base.log[f] = base.log[Changelog]
    /\ journal = Absent => \A f \in Logs : log[f] = log[Changelog]
    /\ pc \in {"postgen", "cleanup", "writeundo", "after", "rename"} =>
          \A f \in Logs : Len(log[f]) = Len(log[Changelog])
    /\ pc = "playlog" => \A f \in Logs \ todo : Len(log[f]) = BaseLen(f)
    /\ pc \in {"playgen", "rmjournal"} => \A f \in Logs : Len(log[f]) = BaseLen(f)

\* What the changelog still lacks is in the buffer.
LogsDelayed ==
    /\ pc \in {"opening", "active"} => Len(log[Changelog]) = BaseLen(Changelog)
    /\ pc \in {"pregen", "final"} =>
          \A f \in Logs \ {Changelog} : Len(log[f]) = Len(log[Changelog]) + buf
    /\ cur.op = "append" => cur.f \in Logs /\ journal[cur.f] # NoEntry
    /\ buf > 0 => /\ pc \in {"active", "pregen", "final"}
                  /\ journal[Changelog] # NoEntry

LogsInv == LogsOfTransaction /\ LogsLevel /\ LogsDelayed

\* A log as the transaction found it, and with one more revision, ...
LEMMA GrownAppend ==
    ASSUME NEW S, NEW c \in Seq(S), NEW t \in S
    PROVE  /\ Grown(c, c, t)
           /\ \A b \in Seq(S) : Grown(c, b, t) => Grown(Append(c, t), b, t)
           /\ Append(c, t) \in Seq(S) /\ Len(Append(c, t)) = Len(c) + 1
<1>1. Grown(c, c, t)
  BY DEF Grown
<1>2. /\ Append(c, t) \in Seq(S) /\ Len(Append(c, t)) = Len(c) + 1
      /\ \A i \in 1..Len(c) : Append(c, t)[i] = c[i]
      /\ Append(c, t)[Len(c) + 1] = t
  OBVIOUS
<1>3. ASSUME NEW b \in Seq(S), Grown(c, b, t)
      PROVE  Grown(Append(c, t), b, t)
  <2>1. Len(c) \in Nat /\ Len(b) \in Nat
    OBVIOUS
  <2>2. ASSUME NEW i \in 1..(Len(c) + 1)
        PROVE  Append(c, t)[i] = IF i <= Len(b) THEN b[i] ELSE t
    BY <1>2, <1>3, <2>1 DEF Grown
  <2> QED
    BY <1>2, <1>3, <2>1, <2>2 DEF Grown
<1> QED
  BY <1>1, <1>2, <1>3

\* ... and cut to where it was.
LEMMA GrownCut ==
    ASSUME NEW S, NEW c \in Seq(S), NEW b \in Seq(S), NEW t, Grown(c, b, t)
    PROVE  /\ SubSeq(c, 1, Len(b)) \in Seq(S)
           /\ Len(SubSeq(c, 1, Len(b))) = Len(b)
           /\ Grown(SubSeq(c, 1, Len(b)), b, t)
<1>1. Len(c) \in Nat /\ Len(b) \in 0..Len(c)
  BY DEF Grown
<1>2. /\ SubSeq(c, 1, Len(b)) \in Seq(S) /\ Len(SubSeq(c, 1, Len(b))) = Len(b)
      /\ \A i \in 1..Len(b) : SubSeq(c, 1, Len(b))[i] = c[i]
  BY <1>1
<1> QED
  BY <1>1, <1>2 DEF Grown

\* Two logs that grew from the same one differ in their lengths only.
LEMMA GrownSame ==
    ASSUME NEW S, NEW c \in Seq(S), NEW d \in Seq(S), NEW b \in Seq(S), NEW t,
           Grown(c, b, t), Grown(d, b, t), Len(c) <= Len(d)
    PROVE  c = SubSeq(d, 1, Len(c)) /\ (Len(c) = Len(d) => c = d)
<1>1. Len(c) \in Nat /\ Len(d) \in Nat /\ Len(c) \in 0..Len(d)
  OBVIOUS
<1>2. \A i \in 1..Len(c) : c[i] = d[i]
  BY <1>1 DEF Grown
<1>3. /\ SubSeq(d, 1, Len(c)) \in Seq(S) /\ Len(SubSeq(d, 1, Len(c))) = Len(c)
      /\ \A i \in 1..Len(c) : SubSeq(d, 1, Len(c))[i] = d[i]
  BY <1>1
<1>4. c = SubSeq(d, 1, Len(c))
  BY <1>2, <1>3, SeqEqual
<1>5. ASSUME Len(c) = Len(d) PROVE c = d
  BY <1>2, <1>5, SeqEqual
<1> QED
  BY <1>4, <1>5

\* Every step keeps what the logs hold in relation to each other.
LEMMA LogsStep ==
    ASSUME TypeOK, Shape, LogsInv, [Next]_vars
    PROVE  LogsInv'
<1> USE FilesAssumption, AbsentAssumption
    DEF store, tfiles, ufiles, ownfiles, files, scopes, ids, past, run, Idle,
        Doing, Active, Step, Generating, Open, Playing, Journaled,
        Forget, ForgetScopes, StartPlayback, LogsInv, LogsOfTransaction,
        LogsLevel, LogsDelayed, BaseLen, Shape
<1>1. /\ log \in [Logs -> Seq(Numbers)] /\ base.log \in [Logs -> Seq(Numbers)]
      /\ journal \in Journals \cup {Absent}
      /\ todo \subseteq Files /\ buf \in Nat /\ txn \in Numbers
      /\ \A f \in Logs : /\ Len(log[f]) \in Nat /\ BaseLen(f) \in Nat
                         /\ BaseLen(f) # NoEntry
  BY DEF TypeOK, Store, Stores, NoEntry
<1>2. ASSUME journal # Absent, StartPlayback, UNCHANGED <<log, journal, base, txn>> PROVE LogsInv'
  BY <1>1, <1>2
<1>3. ASSUME OpenJournal PROVE LogsInv'
  <2>1. /\ journal = Absent /\ pc' = "opening" /\ log' = log /\ buf' = buf /\ cur' = cur
        /\ base' = Store /\ journal' = EmptyJournal /\ pc = "idle" /\ txn' \in Numbers
    BY <1>3, TypeStep DEF OpenJournal, TypeOK
  <2>2. base'.log = log
    BY <2>1 DEF Store
  <2>3. \A f \in Logs : log[f] = log[Changelog] /\ journal'[f] = NoEntry
    BY <2>1 DEF EmptyJournal
  <2>4. \A f \in Logs : Grown(log[f], log[f], txn')
    BY <1>1, <2>1, GrownAppend
  <2>5. cur.op # "append" /\ buf = 0
    BY <1>1, <2>1
  <2> QED BY <1>1, <2>1, <2>2, <2>3, <2>4, <2>5
<1>4. ASSUME OpenBackupfiles PROVE LogsInv'
  BY <1>4 DEF OpenBackupfiles
<1>5. ASSUME Nest PROVE LogsInv'
  BY <1>5 DEF Nest
<1>6. ASSUME CloseNested PROVE LogsInv'
  BY <1>6 DEF CloseNested
<1>7. ASSUME Release PROVE LogsInv'
  <2>1. CASE usages = 1
    BY <1>7, <1>2, <2>1 DEF Release
  <2>2. CASE usages # 1
    BY <1>7, <2>2 DEF Release
  <2> QED BY <2>1, <2>2
<1>8. ASSUME Raise PROVE LogsInv'
  BY <1>8, <1>2 DEF Raise
<1>9. ASSUME Close PROVE LogsInv'
  <2>1. /\ pc = "active" /\ pc' = "pregen" /\ cur = Idle
        /\ UNCHANGED <<log, journal, base, txn, buf, cur>>
        /\ \A f \in Logs : Len(log[f]) = Len(log[Changelog]) +
                                         (IF f = Changelog THEN 0 ELSE buf)
    BY <1>9 DEF Close
  <2> QED BY <1>1, <2>1
<1>10. ASSUME Generated PROVE LogsInv'
  BY <1>10 DEF Generated
<1>11. ASSUME Finalize PROVE LogsInv'
  <2>1. /\ pc = "final" /\ pc' = "final" /\ buf > 0 /\ buf' = buf - 1 /\ cur = Idle
        /\ log' = [log EXCEPT ![Changelog] = Append(log[Changelog], txn)]
        /\ UNCHANGED <<journal, base, txn, cur>> /\ journal # Absent
        /\ journal[Changelog] # NoEntry
    BY <1>11 DEF Finalize
  <2>2. log'[Changelog] = Append(log[Changelog], txn)
        /\ \A f \in Logs \ {Changelog} : log'[f] = log[f]
    BY <1>1, <2>1
  <2>3. /\ Grown(log'[Changelog], base.log[Changelog], txn)
        /\ Len(log'[Changelog]) = Len(log[Changelog]) + 1
    BY <1>1, <2>1, <2>2, GrownAppend
  <2>4. \A f \in Logs \ {Changelog} : Len(log[f]) = Len(log[Changelog]) + buf
    BY <2>1
  <2>5. \A f \in Logs \ {Changelog} : /\ Len(log'[f]) = Len(log'[Changelog]) + buf'
                                      /\ Len(log'[Changelog]) <= Len(log'[f])
    BY <1>1, <2>1, <2>2, <2>3, <2>4
  <2>6. LogsOfTransaction'
    BY <1>1, <2>1, <2>2, <2>3, <2>5
  <2> QED BY <1>1, <2>1, <2>5, <2>6
<1>12. ASSUME Finalized PROVE LogsInv'
  <2>1. /\ pc = "final" /\ pc' = "postgen" /\ buf = 0
        /\ UNCHANGED <<log, journal, base, txn, cur, buf>> /\ cur = Idle
    BY <1>12 DEF Finalized
  <2>2. \A f \in Logs : Len(log[f]) = Len(log[Changelog])
    BY <1>1, <2>1
  <2> QED BY <2>1, <2>2
<1>13. ASSUME Written PROVE LogsInv'
  BY <1>13 DEF Written
<1>14. ASSUME OpenUndo PROVE LogsInv'
  BY <1>14 DEF OpenUndo
<1>15. ASSUME CloseUndo PROVE LogsInv'
  BY <1>15 DEF CloseUndo
<1>16. ASSUME UnlinkUndo PROVE LogsInv'
  BY <1>16 DEF UnlinkUndo
<1>17. ASSUME RenameJournal PROVE LogsInv'
  <2>1. /\ pc = "rename" /\ pc' = "rmbackupfiles" /\ journal # Absent /\ journal' = Absent
        /\ UNCHANGED <<log, base, txn, cur, buf>> /\ cur = Idle
    BY <1>17 DEF RenameJournal
  <2>2. ASSUME NEW f \in Logs PROVE log[f] = log[Changelog]
    <3>1. Len(log[f]) = Len(log[Changelog])
      BY <2>1
    <3>2. /\ Grown(log[f], base.log[Changelog], txn)
          /\ Grown(log[Changelog], base.log[Changelog], txn)
      BY <2>1
    <3> QED BY <1>1, <3>1, <3>2, GrownSame
  <2> QED BY <2>1, <2>2
<1>18. ASSUME UnlinkBackupfiles PROVE LogsInv'
  BY <1>18 DEF UnlinkBackupfiles
<1>19. ASSUME Done PROVE LogsInv'
  BY <1>19 DEF Done
<1>20. ASSUME Recover PROVE LogsInv'
  BY <1>20, <1>2 DEF Recover
<1>21. ASSUME Truncated PROVE LogsInv'
  <2>1. /\ pc = "playlog" /\ pc' = "playgen" /\ todo = {}
        /\ UNCHANGED <<log, journal, base, txn, cur, buf>> /\ cur = Idle
    BY <1>21 DEF Truncated
  <2> QED BY <2>1
<1>22. ASSUME Restored PROVE LogsInv'
  BY <1>22 DEF Restored
<1>23. ASSUME UnlinkJournal PROVE LogsInv'
  <2>1. /\ pc = "rmjournal" /\ pc' = "rmcopies" /\ journal # Absent /\ journal' = Absent
        /\ UNCHANGED <<log, base, txn, cur, buf>> /\ cur = Idle
    BY <1>23 DEF UnlinkJournal
  <2>2. ASSUME NEW f \in Logs PROVE log[f] = log[Changelog]
    <3>1. Len(log[f]) = Len(log[Changelog])
      BY <2>1
    <3>2. /\ Grown(log[f], base.log[Changelog], txn)
          /\ Grown(log[Changelog], base.log[Changelog], txn)
      BY <2>1
    <3> QED BY <1>1, <3>1, <3>2, GrownSame
  <2> QED BY <2>1, <2>2
<1>24. ASSUME TruncateFails PROVE LogsInv'
  BY <1>24 DEF TruncateFails
<1>25. ASSUME Crash PROVE LogsInv'
  BY <1>25 DEF Crash
<1>26. ASSUME NEW f \in Logs, AddEntry(f) PROVE LogsInv'
  <2>1. /\ journal # Absent /\ pc = "active" /\ cur'.op = "append" /\ cur'.f = f
        /\ UNCHANGED <<log, base, txn, pc, buf>>
    BY <1>26 DEF AddEntry
  <2>2. CASE journal[f] # NoEntry
    BY <1>26, <2>1, <2>2 DEF AddEntry
  <2>3. CASE journal[f] = NoEntry
    <3>1. journal' = [journal EXCEPT ![f] = Len(log[f])] /\ journal \in Journals
      BY <1>26, <1>1, <2>1, <2>3 DEF AddEntry
    <3>2. /\ journal'[f] = BaseLen(f)
          /\ \A h \in Logs \ {f} : journal'[h] = journal[h]
      BY <1>1, <2>1, <2>3, <3>1 DEF Journals
    <3>3. journal[Changelog] # NoEntry => journal'[Changelog] # NoEntry
      BY <1>1, <3>2
    <3>4. journal' # Absent /\ \A h \in Logs : BaseLen(h)' = BaseLen(h)
      BY <1>26, <2>1, <2>3, TypeStep DEF AddEntry, TypeOK
    <3>5. LogsOfTransaction'
      BY <1>1, <2>1, <2>3, <3>2
    <3>6. LogsLevel'
      BY <2>1, <3>4
    <3>7. LogsDelayed'
      <4>1. journal'[f] # NoEntry
        BY <1>1, <3>2
      <4> QED BY <2>1, <3>3, <3>4, <4>1
    <3> QED BY <3>5, <3>6, <3>7
  <2> QED BY <2>2, <2>3
<1>27. ASSUME NEW f \in Logs, Append1(f) PROVE LogsInv'
  <2>1. /\ journal # Absent /\ journal[f] # NoEntry /\ pc = "active" /\ cur' = Idle
        /\ UNCHANGED <<journal, base, txn, pc>>
    BY <1>27 DEF Append1
  <2>2. CASE f = Changelog
    BY <1>27, <1>1, <2>1, <2>2 DEF Append1
  <2>3. CASE f # Changelog
    <3>1. log' = [log EXCEPT ![f] = Append(log[f], txn)] /\ buf' = buf
      BY <1>27, <2>3 DEF Append1
    <3>2. log'[f] = Append(log[f], txn) /\ \A h \in Logs \ {f} : log'[h] = log[h]
      BY <1>1, <3>1
    <3>3. Grown(log'[f], base.log[f], txn) /\ Len(log'[f]) = Len(log[f]) + 1
      BY <1>1, <2>1, <3>2, GrownAppend
    <3> QED BY <1>1, <2>1, <2>3, <3>1, <3>2, <3>3
  <2> QED BY <2>2, <2>3
<1>28. ASSUME NEW f \in Logs, Truncate(f) PROVE LogsInv'
  <2>1. /\ pc = "playlog" /\ journal # Absent /\ f \in todo /\ todo' = todo \ {f}
        /\ Changelog \in todo => f = Changelog
        /\ log' = [log EXCEPT ![f] = SubSeq(log[f], 1, journal[f])]
        /\ UNCHANGED <<journal, base, txn, pc, cur, buf>>
    BY <1>28 DEF Truncate
  <2>2. journal[f] = BaseLen(f)
    BY <2>1, <1>28
  <2>3. log'[f] = SubSeq(log[f], 1, BaseLen(f)) /\ \A h \in Logs \ {f} : log'[h] = log[h]
    BY <1>1, <2>1, <2>2
  <2>4. Grown(log'[f], base.log[f], txn) /\ Len(log'[f]) = BaseLen(f)
    BY <1>1, <2>1, <2>3, GrownCut
  <2>5. ASSUME NEW h \in Logs PROVE Len(log'[Changelog]) <= Len(log'[h])
    <3>1. Len(log'[Changelog]) = BaseLen(Changelog)
      BY <2>1, <2>3, <2>4
    <3>2. BaseLen(h) = BaseLen(Changelog) /\ BaseLen(h) <= Len(log'[h])
      <4>1. BaseLen(h) = BaseLen(Changelog)
        OBVIOUS
      <4>2. BaseLen(h) <= Len(log[h])
        BY <2>1 DEF Grown
      <4> QED BY <1>1, <2>3, <2>4, <4>1, <4>2
    <3> QED BY <3>1, <3>2
  <2>6. LogsOfTransaction'
    BY <1>1, <2>1, <2>2, <2>3, <2>4, <2>5
  <2> QED BY <2>1, <2>3, <2>4, <2>6
<1>29. ASSUME NEW g \in Gens, AddFileGenerator(g) PROVE LogsInv'
  BY <1>29 DEF AddFileGenerator
<1>30. ASSUME NEW g \in Gens, RemoveFileGenerator(g) PROVE LogsInv'
  BY <1>30 DEF RemoveFileGenerator
<1>31. ASSUME NEW g \in Gens, RegisterTmp(g) PROVE LogsInv'
  BY <1>31 DEF RegisterTmp
<1>32. ASSUME NEW g \in Gens, WritePending(g) PROVE LogsInv'
  BY <1>32 DEF WritePending
<1>33. ASSUME NEW g \in Gens, CopyBackup(g) PROVE LogsInv'
  BY <1>33 DEF CopyBackup, MayReplace
<1>34. ASSUME NEW g \in Gens, AddBackupEntry(g) PROVE LogsInv'
  BY <1>34 DEF AddBackupEntry
<1>35. ASSUME NEW g \in Gens, Replace(g) PROVE LogsInv'
  BY <1>35 DEF Replace
<1>36. ASSUME NEW g \in Gens, UnlinkPending(g) PROVE LogsInv'
  BY <1>36 DEF UnlinkPending
<1>37. ASSUME NEW g \in Gens, LinkUndo(g) PROVE LogsInv'
  BY <1>37 DEF LinkUndo
<1>38. ASSUME NEW g \in Gens, UnlinkCopy(g) PROVE LogsInv'
  BY <1>38 DEF UnlinkCopy
<1>39. ASSUME NEW g \in Gens, UnlinkGen(g) PROVE LogsInv'
  BY <1>39 DEF UnlinkGen
<1>40. ASSUME NEW g \in Gens, RestoreGen(g) PROVE LogsInv'
  BY <1>40 DEF RestoreGen
<1>41. ASSUME NEW g \in Gens, RestoreFails(g) PROVE LogsInv'
  BY <1>41 DEF RestoreFails
<1>42. ASSUME UNCHANGED vars PROVE LogsInv'
  BY <1>42 DEF vars
<1>43. QED
  BY <1>3, <1>4, <1>5, <1>6, <1>7, <1>8, <1>9, <1>10, <1>11, <1>12,
     <1>13, <1>14, <1>15, <1>16, <1>17, <1>18, <1>19, <1>20, <1>21,
     <1>22, <1>23, <1>24, <1>25, <1>26, <1>27, <1>28, <1>29, <1>30,
     <1>31, <1>32, <1>33, <1>34, <1>35, <1>36, <1>37, <1>38, <1>39,
     <1>40, <1>41, <1>42
  DEF Next, WriteNext, ScopeNext, CloseNext, PlaybackNext, FailNext

\* It says of the offsets, and of the revisions of a changeset, what it should.
LEMMA LogsResolve == TypeOK /\ LogsInv => OffsetsWithinFiles /\ ChangelogResolves
<1> SUFFICES ASSUME TypeOK, LogsInv PROVE OffsetsWithinFiles /\ ChangelogResolves
  OBVIOUS
<1>1. /\ log \in [Logs -> Seq(Numbers)] /\ base.log \in [Logs -> Seq(Numbers)]
      /\ \A f \in Logs : Len(log[f]) \in Nat /\ Changelog \in Logs
  BY FilesAssumption DEF TypeOK, Store, Stores
<1>2. OffsetsWithinFiles
  BY DEF OffsetsWithinFiles, Journaled, LogsInv, LogsOfTransaction, Grown, BaseLen
<1>3. ASSUME NEW f \in Logs
      PROVE  /\ Len(log[Changelog]) <= Len(log[f])
             /\ log[Changelog] = SubSeq(log[f], 1, Len(log[Changelog]))
  <2>1. CASE journal = Absent
    BY <1>1, <2>1 DEF LogsInv, LogsLevel
  <2>2. CASE journal # Absent
    <3>1. /\ Len(log[Changelog]) <= Len(log[f])
          /\ Grown(log[f], base.log[Changelog], txn)
          /\ Grown(log[Changelog], base.log[Changelog], txn)
      BY <1>1, <2>2 DEF LogsInv, LogsOfTransaction, LogsLevel
    <3> QED BY <1>1, <3>1, GrownSame
  <2> QED BY <2>1, <2>2
<1> QED BY <1>2, <1>3 DEF ChangelogResolves

\* LogsInv is an invariant, with any crash and any fault.
LEMMA LogsInvariant == Spec => [](TypeOK /\ LogsInv)
<1>1. Init => LogsInv
  BY FilesAssumption DEF Init, LogsInv, LogsOfTransaction, LogsLevel, LogsDelayed, Store, Idle
<1>2. Spec => [](TypeOK /\ Shape)
  BY TypeInit, TypeStep, PTL DEF Spec
<1> QED BY <1>1, <1>2, LogsStep, PTL DEF Spec

\* No log is shorter than its offset in the journal (OffsetsWithinFiles): a playback
\* never stops on one, whatever crashes and faults came before it.
THEOREM OffsetsAreGood == Spec => []OffsetsWithinFiles
BY LogsInvariant, LogsResolve, PTL

\* A reader, which takes no lock, never finds a changeset without its revisions
\* (ChangelogResolves): the changelog is written last and truncated first.
THEOREM ChangelogAlwaysResolves == Spec => []ChangelogResolves
BY LogsInvariant, LogsResolve, PTL

-----------------------------------------------------------------------------
(* The generated files *)

\* A file names no transaction that has not begun; one of PostGens does not name
\* the one that runs before the finalizers are through, because until then only
\* files of the other groups are replaced.
PostGensInv ==
    /\ \A g \in Gens : /\ gen[g] = Absent \/ gen[g] <= txn
                       /\ backup[g] = Absent \/ backup[g] <= txn
    /\ pc \in {"opening", "active", "pregen", "final"} =>
          \A g \in PostGens : gen[g] # txn
    /\ cur.op \in {"entry", "replace"} =>
          /\ cur.f \in Gens
          /\ pc \in {"active", "final"} => cur.f \in DirectGens
          /\ pc = "pregen" => cur.f \in PreGens
    /\ buf > 0 => pc \in {"active", "pregen", "final"}

\* Every step keeps it.
LEMMA PostGensStep ==
    ASSUME TypeOK, Shape, PostGensInv, [Next]_vars
    PROVE  PostGensInv'
<1> USE FilesAssumption, AbsentAssumption
    DEF store, tfiles, ufiles, ownfiles, files, scopes, ids, past, run, Idle,
        Doing, Active, Step, Generating, Open, Playing,
        Forget, ForgetScopes, StartPlayback, PostGensInv, Shape
<1>1. /\ gen \in [Gens -> MaybeTxn] /\ backup \in [Gens -> MaybeTxn]
      /\ txn \in Nat /\ buf \in Nat /\ \A g \in PostGens : g \in Gens
      /\ \A g \in Gens : gen[g] # Absent => gen[g] \in Nat
      /\ \A g \in Gens : backup[g] # Absent => backup[g] \in Nat
  BY BoundsAssumption DEF TypeOK, Store, Stores, Numbers, MaybeTxn, Gens
<1>2. ASSUME OpenJournal PROVE PostGensInv'
  <2>1. /\ pc = "idle" /\ pc' = "opening" /\ txn' = txn + 1
        /\ UNCHANGED <<gen, backup, cur, buf>>
    BY <1>2 DEF OpenJournal
  <2>2. \A g \in Gens : /\ gen[g] = Absent \/ gen[g] <= txn'
                        /\ backup[g] = Absent \/ backup[g] <= txn'
    BY <1>1, <2>1
  <2>3. \A g \in PostGens : gen[g] # txn'
    BY <1>1, <2>1
  <2>4. cur.op \notin {"entry", "replace"} /\ buf = 0
    BY <1>1, <2>1
  <2> QED BY <2>1, <2>2, <2>3, <2>4
<1>3. ASSUME OpenBackupfiles PROVE PostGensInv'
  BY <1>3 DEF OpenBackupfiles
<1>4. ASSUME Nest PROVE PostGensInv'
  BY <1>4 DEF Nest
<1>5. ASSUME CloseNested PROVE PostGensInv'
  BY <1>5 DEF CloseNested
<1>6. ASSUME Release PROVE PostGensInv'
  BY <1>6 DEF Release
<1>7. ASSUME Raise PROVE PostGensInv'
  BY <1>7 DEF Raise
<1>8. ASSUME Close PROVE PostGensInv'
  BY <1>8 DEF Close
<1>9. ASSUME Generated PROVE PostGensInv'
  BY <1>9 DEF Generated
<1>10. ASSUME Finalize PROVE PostGensInv'
  <2>1. pc = "final" /\ UNCHANGED <<gen, backup, cur, txn, pc>>
    BY <1>10 DEF Finalize
  <2> QED BY <2>1
<1>11. ASSUME Finalized PROVE PostGensInv'
  BY <1>11 DEF Finalized
<1>12. ASSUME Written PROVE PostGensInv'
  BY <1>12 DEF Written
<1>13. ASSUME OpenUndo PROVE PostGensInv'
  BY <1>13 DEF OpenUndo
<1>14. ASSUME CloseUndo PROVE PostGensInv'
  BY <1>14 DEF CloseUndo
<1>15. ASSUME UnlinkUndo PROVE PostGensInv'
  BY <1>15 DEF UnlinkUndo
<1>16. ASSUME RenameJournal PROVE PostGensInv'
  BY <1>16 DEF RenameJournal
<1>17. ASSUME UnlinkBackupfiles PROVE PostGensInv'
  BY <1>17 DEF UnlinkBackupfiles
<1>18. ASSUME Done PROVE PostGensInv'
  BY <1>18 DEF Done
<1>19. ASSUME Recover PROVE PostGensInv'
  BY <1>19 DEF Recover
<1>20. ASSUME Truncated PROVE PostGensInv'
  BY <1>20 DEF Truncated
<1>21. ASSUME Restored PROVE PostGensInv'
  BY <1>21 DEF Restored
<1>22. ASSUME UnlinkJournal PROVE PostGensInv'
  BY <1>22 DEF UnlinkJournal
<1>23. ASSUME TruncateFails PROVE PostGensInv'
  BY <1>23 DEF TruncateFails
<1>24. ASSUME Crash PROVE PostGensInv'
  BY <1>24 DEF Crash
<1>25. ASSUME NEW f \in Logs, AddEntry(f) PROVE PostGensInv'
  BY <1>25 DEF AddEntry
<1>26. ASSUME NEW f \in Logs, Append1(f) PROVE PostGensInv'
  BY <1>26 DEF Append1
<1>27. ASSUME NEW f \in Logs, Truncate(f) PROVE PostGensInv'
  BY <1>27 DEF Truncate
<1>28. ASSUME NEW g \in Gens, AddFileGenerator(g) PROVE PostGensInv'
  BY <1>28 DEF AddFileGenerator
<1>29. ASSUME NEW g \in Gens, RemoveFileGenerator(g) PROVE PostGensInv'
  BY <1>29 DEF RemoveFileGenerator
<1>30. ASSUME NEW g \in Gens, RegisterTmp(g) PROVE PostGensInv'
  BY <1>30 DEF RegisterTmp
<1>31. ASSUME NEW g \in Gens, WritePending(g) PROVE PostGensInv'
  BY <1>31 DEF WritePending
<1>32. ASSUME NEW g \in Gens, CopyBackup(g) PROVE PostGensInv'
  <2>1. /\ cur'.f = g /\ cur'.op \in {"entry", "replace"} /\ pc \in Generating
        /\ pc \in {"active", "final"} => g \in DirectGens
        /\ pc = "pregen" => g \in PreGens
        /\ UNCHANGED <<gen, txn, pc, buf>>
    BY <1>32 DEF CopyBackup, MayReplace
  <2>2. backup' = backup \/ backup' = [backup EXCEPT ![g] = gen[g]]
    BY <1>32 DEF CopyBackup
  <2>3. \A h \in Gens : backup'[h] = Absent \/ backup'[h] <= txn
    BY <1>1, <2>2
  <2> QED BY <2>1, <2>3
<1>33. ASSUME NEW g \in Gens, AddBackupEntry(g) PROVE PostGensInv'
  BY <1>33 DEF AddBackupEntry
<1>34. ASSUME NEW g \in Gens, Replace(g) PROVE PostGensInv'
  <2>1. /\ cur = [op |-> "replace", f |-> g] /\ cur' = Idle
        /\ gen' = [gen EXCEPT ![g] = txn] /\ UNCHANGED <<backup, txn, pc, buf>>
    BY <1>34 DEF Replace
  <2>2. gen'[g] = txn /\ \A h \in Gens \ {g} : gen'[h] = gen[h]
    BY <1>1, <2>1
  <2>3. \A h \in Gens : gen'[h] = Absent \/ gen'[h] <= txn
    BY <1>1, <2>2
  <2>4. pc \in {"opening", "active", "pregen", "final"} => g \notin PostGens
    BY <2>1
  <2>5. pc \in {"opening", "active", "pregen", "final"} => \A h \in PostGens : gen'[h] # txn
    BY <1>1, <2>2, <2>4
  <2> QED BY <2>1, <2>3, <2>5
<1>35. ASSUME NEW g \in Gens, UnlinkPending(g) PROVE PostGensInv'
  BY <1>35 DEF UnlinkPending
<1>36. ASSUME NEW g \in Gens, LinkUndo(g) PROVE PostGensInv'
  BY <1>36 DEF LinkUndo
<1>37. ASSUME NEW g \in Gens, UnlinkCopy(g) PROVE PostGensInv'
  <2>1. /\ pc = "rmcopies" /\ backup' = [backup EXCEPT ![g] = Absent]
        /\ UNCHANGED <<gen, txn, pc, cur, buf>>
    BY <1>37 DEF UnlinkCopy
  <2>2. \A h \in Gens : backup'[h] = Absent \/ backup'[h] <= txn
    BY <1>1, <2>1
  <2> QED BY <2>1, <2>2
<1>38. ASSUME NEW g \in Gens, UnlinkGen(g) PROVE PostGensInv'
  <2>1. /\ pc = "playgen" /\ gen' = [gen EXCEPT ![g] = Absent] /\ cur = Idle
        /\ UNCHANGED <<backup, txn, pc, buf>> /\ cur'.op \in {"none", "restore"}
    BY <1>38 DEF UnlinkGen
  <2>2. \A h \in Gens : gen'[h] = Absent \/ gen'[h] <= txn
    BY <1>1, <2>1
  <2> QED BY <2>1, <2>2
<1>39. ASSUME NEW g \in Gens, RestoreGen(g) PROVE PostGensInv'
  <2>1. /\ pc = "playgen" /\ gen' = [gen EXCEPT ![g] = backup[g]] /\ cur' = Idle
        /\ UNCHANGED <<backup, txn, pc, buf>>
    BY <1>39 DEF RestoreGen
  <2>2. \A h \in Gens : gen'[h] = Absent \/ gen'[h] <= txn
    BY <1>1, <2>1
  <2> QED BY <2>1, <2>2
<1>40. ASSUME NEW g \in Gens, RestoreFails(g) PROVE PostGensInv'
  BY <1>40 DEF RestoreFails
<1>41. ASSUME UNCHANGED vars PROVE PostGensInv'
  BY <1>41 DEF vars
<1>42. QED
  BY <1>2, <1>3, <1>4, <1>5, <1>6, <1>7, <1>8, <1>9, <1>10, <1>11,
     <1>12, <1>13, <1>14, <1>15, <1>16, <1>17, <1>18, <1>19, <1>20,
     <1>21, <1>22, <1>23, <1>24, <1>25, <1>26, <1>27, <1>28, <1>29,
     <1>30, <1>31, <1>32, <1>33, <1>34, <1>35, <1>36, <1>37, <1>38,
     <1>39, <1>40, <1>41
  DEF Next, WriteNext, ScopeNext, CloseNext, PlaybackNext, FailNext

\* Files generated after the finalizers (bookmarks) name the transaction only when
\* the changelog has received all it will (PostGensLast).
THEOREM PostGensAlwaysLast == Spec => []PostGensLast
<1>1. Init => PostGensInv
  BY DEF Init, PostGensInv, Idle
<1>2. PostGensInv /\ TypeOK => PostGensLast
  BY DEF PostGensInv, PostGensLast, TypeOK
<1>3. Spec => [](TypeOK /\ Shape)
  BY TypeInit, TypeStep, PTL DEF Spec
<1> QED BY <1>1, <1>2, <1>3, PostGensStep, PTL DEF Spec

\* What a reader finds refers to what is there (ReadersResolve).
THEOREM ReadersAlwaysResolve == Spec => []ReadersResolve
BY ChangelogAlwaysResolves, PostGensAlwaysLast, PTL DEF ReadersResolve

-----------------------------------------------------------------------------
(* What was written for hooks *)

\* What journal.backupfiles has as temporary.
Registered == IF backupfiles = Absent THEN {} ELSE backupfiles.tmp

\* What was written for hooks was registered first, and is gone before the files
\* that say so.
PendingInv ==
    /\ pending \subseteq Registered
    /\ journal = Absent => pending = {}
    /\ pc \in {"opening", "writeundo", "after", "rename", "rmjournal"} => pending = {}
    /\ cur.op = "pending" => cur.f \in Registered

\* Every step keeps it.
LEMMA PendingStep ==
    ASSUME TypeOK, Shape, PendingInv, [Next]_vars
    PROVE  PendingInv'
<1> USE FilesAssumption, AbsentAssumption
    DEF store, tfiles, ufiles, ownfiles, files, scopes, ids, past, run, Idle,
        Doing, Active, Step, Generating, Open, Playing, Temporary,
        Forget, ForgetScopes, StartPlayback, PendingInv, Shape
<1>1. backupfiles # Absent => backupfiles \in BackupJournals
  BY DEF TypeOK
<1>2. ASSUME OpenJournal PROVE PendingInv'
  BY <1>2 DEF OpenJournal, Registered
<1>3. ASSUME OpenBackupfiles PROVE PendingInv'
  <2>1. /\ pending' = {} /\ pc' = "active" /\ cur' = cur /\ journal' # Absent
    BY <1>3 DEF OpenBackupfiles
  <2>2. cur.op # "pending"
    BY <1>3 DEF OpenBackupfiles
  <2> QED BY <2>1, <2>2
<1>4. ASSUME Nest PROVE PendingInv'
  BY <1>4 DEF Nest, Registered
<1>5. ASSUME CloseNested PROVE PendingInv'
  BY <1>5 DEF CloseNested, Registered
<1>6. ASSUME Release PROVE PendingInv'
  <2>1. /\ UNCHANGED <<pending, journal, backupfiles>> /\ pc = "active"
        /\ pc' \in {"active", "playlog"} /\ cur'.op = "none"
    BY <1>6 DEF Release
  <2>2. Registered' = Registered
    BY <2>1 DEF Registered
  <2> QED BY <2>1, <2>2
<1>7. ASSUME Raise PROVE PendingInv'
  BY <1>7 DEF Raise, Registered
<1>8. ASSUME Close PROVE PendingInv'
  BY <1>8 DEF Close, Registered
<1>9. ASSUME Generated PROVE PendingInv'
  BY <1>9 DEF Generated, Registered
<1>10. ASSUME Finalize PROVE PendingInv'
  BY <1>10 DEF Finalize, Registered
<1>11. ASSUME Finalized PROVE PendingInv'
  BY <1>11 DEF Finalized, Registered
<1>12. ASSUME Written PROVE PendingInv'
  BY <1>12 DEF Written, Registered
<1>13. ASSUME OpenUndo PROVE PendingInv'
  <2>1. /\ pending \cap backupfiles.tmp = {} /\ pc = "cleanup" /\ cur = Idle /\ cur' = cur
        /\ UNCHANGED <<pending, backupfiles, journal>> /\ pc' = "writeundo"
    BY <1>13 DEF OpenUndo
  <2>2. pending = {}
    BY <2>1 DEF Registered
  <2>3. Registered' = Registered
    BY <2>1 DEF Registered
  <2> QED BY <2>1, <2>2, <2>3
<1>14. ASSUME CloseUndo PROVE PendingInv'
  BY <1>14 DEF CloseUndo, Registered
<1>15. ASSUME UnlinkUndo PROVE PendingInv'
  BY <1>15 DEF UnlinkUndo, Registered
<1>16. ASSUME RenameJournal PROVE PendingInv'
  BY <1>16 DEF RenameJournal, Registered
<1>17. ASSUME UnlinkBackupfiles PROVE PendingInv'
  <2>1. pending = {} /\ UNCHANGED <<pending, journal, cur>> /\ cur = Idle
    BY <1>17 DEF UnlinkBackupfiles
  <2> QED BY <2>1
<1>18. ASSUME Done PROVE PendingInv'
  BY <1>18 DEF Done, Registered
<1>19. ASSUME Recover PROVE PendingInv'
  BY <1>19 DEF Recover, Registered
<1>20. ASSUME Truncated PROVE PendingInv'
  BY <1>20 DEF Truncated, Registered
<1>21. ASSUME Restored PROVE PendingInv'
  <2>1. /\ pc = "playgen" /\ pc' = "rmjournal" /\ cur = Idle /\ cur' = cur
        /\ UNCHANGED <<pending, journal>>
        /\ backupfiles # Absent => pending \cap backupfiles.tmp = {}
    BY <1>21 DEF Restored
  <2>2. pending = {}
    BY <2>1 DEF Registered
  <2> QED BY <2>1, <2>2
<1>22. ASSUME UnlinkJournal PROVE PendingInv'
  BY <1>22 DEF UnlinkJournal, Registered
<1>23. ASSUME TruncateFails PROVE PendingInv'
  BY <1>23 DEF TruncateFails, Registered
<1>24. ASSUME Crash PROVE PendingInv'
  BY <1>24 DEF Crash, Registered
<1>25. ASSUME NEW f \in Logs, AddEntry(f) PROVE PendingInv'
  <2>1. journal' # Absent /\ cur'.op = "append" /\ UNCHANGED <<pending, backupfiles, pc>>
    BY <1>25, TypeStep DEF AddEntry
  <2>2. Registered' = Registered
    BY <2>1 DEF Registered
  <2> QED BY <2>1, <2>2
<1>26. ASSUME NEW f \in Logs, Append1(f) PROVE PendingInv'
  BY <1>26 DEF Append1, Registered
<1>27. ASSUME NEW f \in Logs, Truncate(f) PROVE PendingInv'
  BY <1>27 DEF Truncate, Registered
<1>28. ASSUME NEW g \in Gens, AddFileGenerator(g) PROVE PendingInv'
  BY <1>28 DEF AddFileGenerator, Registered
<1>29. ASSUME NEW g \in Gens, RemoveFileGenerator(g) PROVE PendingInv'
  BY <1>29 DEF RemoveFileGenerator, Registered
<1>30. ASSUME NEW g \in Gens, RegisterTmp(g) PROVE PendingInv'
  <2>1. /\ pc = "active" /\ backupfiles # Absent /\ journal' = journal /\ pending' = pending
        /\ journal # Absent /\ pc' = pc
        /\ backupfiles' = [backupfiles EXCEPT !.tmp = backupfiles.tmp \cup {g}]
        /\ cur' = [op |-> "pending", f |-> g]
    BY <1>30 DEF RegisterTmp
  <2>2. backupfiles' # Absent
    BY <2>1, TypeStep
  <2>3. Registered' = Registered \cup {g}
    BY <1>1, <2>1, <2>2 DEF Registered, BackupJournals
  <2> QED BY <2>1, <2>3
<1>31. ASSUME NEW g \in Gens, WritePending(g) PROVE PendingInv'
  <2>1. /\ pc = "active" /\ journal # Absent /\ g \in Registered /\ pending' = pending \cup {g}
        /\ UNCHANGED <<journal, backupfiles, pc>> /\ cur' = Idle
    BY <1>31 DEF WritePending
  <2>2. Registered' = Registered
    BY <2>1 DEF Registered
  <2> QED BY <2>1, <2>2
<1>32. ASSUME NEW g \in Gens, CopyBackup(g) PROVE PendingInv'
  BY <1>32 DEF CopyBackup, Registered, MayReplace
<1>33. ASSUME NEW g \in Gens, AddBackupEntry(g) PROVE PendingInv'
  <2>1. /\ backupfiles # Absent /\ backupfiles' # Absent /\ cur'.op = "replace"
        /\ UNCHANGED <<pending, journal, pc>>
    BY <1>33, TypeStep DEF AddBackupEntry
  <2>2. backupfiles'.tmp = backupfiles.tmp
    BY <1>33, <1>1, <2>1 DEF AddBackupEntry, BackupJournals
  <2>3. Registered' = Registered
    BY <2>1, <2>2 DEF Registered
  <2> QED BY <2>1, <2>3
<1>34. ASSUME NEW g \in Gens, Replace(g) PROVE PendingInv'
  BY <1>34 DEF Replace, Registered
<1>35. ASSUME NEW g \in Gens, UnlinkPending(g) PROVE PendingInv'
  BY <1>35 DEF UnlinkPending, Registered
<1>36. ASSUME NEW g \in Gens, LinkUndo(g) PROVE PendingInv'
  BY <1>36 DEF LinkUndo, Registered
<1>37. ASSUME NEW g \in Gens, UnlinkCopy(g) PROVE PendingInv'
  BY <1>37 DEF UnlinkCopy, Registered
<1>38. ASSUME NEW g \in Gens, UnlinkGen(g) PROVE PendingInv'
  BY <1>38 DEF UnlinkGen, Registered
<1>39. ASSUME NEW g \in Gens, RestoreGen(g) PROVE PendingInv'
  BY <1>39 DEF RestoreGen, Registered
<1>40. ASSUME NEW g \in Gens, RestoreFails(g) PROVE PendingInv'
  BY <1>40 DEF RestoreFails, Registered
<1>41. ASSUME UNCHANGED vars PROVE PendingInv'
  BY <1>41 DEF vars, Registered
<1>42. QED
  BY <1>2, <1>3, <1>4, <1>5, <1>6, <1>7, <1>8, <1>9, <1>10, <1>11,
     <1>12, <1>13, <1>14, <1>15, <1>16, <1>17, <1>18, <1>19, <1>20,
     <1>21, <1>22, <1>23, <1>24, <1>25, <1>26, <1>27, <1>28, <1>29,
     <1>30, <1>31, <1>32, <1>33, <1>34, <1>35, <1>36, <1>37, <1>38,
     <1>39, <1>40, <1>41
  DEF Next, WriteNext, ScopeNext, CloseNext, PlaybackNext, FailNext

\* Nothing generated for hooks outlives the transaction and its roll back
\* (NoPendingLeft).
THEOREM NoPendingIsLeft == Spec => []NoPendingLeft
<1>1. Init => PendingInv
  BY DEF Init, PendingInv, Registered, Idle
<1>2. PendingInv => NoPendingLeft
  BY DEF PendingInv, NoPendingLeft
<1>3. Spec => [](TypeOK /\ Shape)
  BY TypeInit, TypeStep, PTL DEF Spec
<1> QED BY <1>1, <1>2, <1>3, PendingStep, PTL DEF Spec

-----------------------------------------------------------------------------
(* The inductive invariant *)

\* Sequences, cut at an offset.
LEMMA CutAppend ==
    ASSUME NEW S, NEW c \in Seq(S), NEW e \in S, NEW o \in 0..Len(c)
    PROVE  /\ Cut(Append(c, e), o) = Cut(c, o)
           /\ Append(c, e) \in Seq(S) /\ Len(Append(c, e)) = Len(c) + 1
<1>1. Append(c, e) \in Seq(S) /\ Len(Append(c, e)) = Len(c) + 1
  OBVIOUS
<1>2. SubSeq(Append(c, e), 1, o) = SubSeq(c, 1, o)
  OBVIOUS
<1>3. o # NoEntry
  BY DEF NoEntry
<1>4. QED
  BY <1>1, <1>2, <1>3 DEF Cut

\* Truncating to an offset gives that length, and is idempotent: a playback may
\* be played again.
LEMMA CutCut ==
    ASSUME NEW S, NEW c \in Seq(S), NEW o \in 0..Len(c)
    PROVE  /\ Cut(c, o) = SubSeq(c, 1, o) /\ Len(SubSeq(c, 1, o)) = o
           /\ Cut(SubSeq(c, 1, o), o) = SubSeq(c, 1, o)
  BY DEF Cut, NoEntry

\* A log has not changed when its entry has just been written.
LEMMA CutWhole ==
    ASSUME NEW S, NEW c \in Seq(S)
    PROVE  Cut(c, Len(c)) = c
  BY DEF Cut, NoEntry

\* Every step keeps the store recoverable.
LEMMA GoodStep ==
    ASSUME TypeOK, Shape, Good, TypeOK', Shape', [Next]_vars, Undamaged'
    PROVE  Good'
<1> USE FilesAssumption, AbsentAssumption
    DEF store, tfiles, ufiles, ownfiles, files, scopes, ids, past, run, Idle,
        Doing, Active, Step, Generating, Open, Playing, Journaled, BackedUp,
        Copied, Forget, ForgetScopes, StartPlayback, OffsetsWithinFiles,
        LogsRecoverable, GensRecoverable, OpeningQuiet, AppendsJournaled,
        BackupsFirst, PlaybackProgress, GenPlayed, Good, Shape
<1>0. crashes \in Nat /\ faults \in Nat
  BY DEF TypeOK
<1>1. /\ log \in [Logs -> Seq(Numbers)] /\ gen \in [Gens -> MaybeTxn]
      /\ journal \in Journals \cup {Absent}
      /\ backupfiles \in BackupJournals \cup {Absent}
      /\ backup \in [Gens -> MaybeTxn]
      /\ todo \subseteq Files /\ buf \in Nat /\ txn \in Numbers
  BY DEF TypeOK, Store, Stores
<1>2. base.log \in [Logs -> Seq(Numbers)] /\ base.gen \in [Gens -> MaybeTxn]
  BY DEF TypeOK, Stores
<1>3. ASSUME journal # Absent, pc # "opening", StartPlayback PROVE Good'
  <2>1. /\ pc' = "playlog" /\ todo' = Journaled /\ cur' = Idle /\ buf' = 0
        /\ UNCHANGED <<log, gen, journal, base, backupfiles, backup>>
    BY <1>3
  <2>2. \A f \in Logs \ Journaled : log[f] = base.log[f]
    BY <1>3 DEF Cut
  <2>3. QED
    BY <1>3, <2>1, <2>2
<1>4. ASSUME OpenJournal PROVE Good'
  <2>1. /\ pc = "idle" /\ pc' = "opening"
        /\ journal' = EmptyJournal /\ base' = Store
        /\ UNCHANGED <<store, buf, cur, backup, backupfiles>>
    BY <1>4 DEF OpenJournal
  <2>2. cur.op \notin {"append", "entry", "replace", "restore"} /\ buf = 0
    BY <1>1, <2>1
  <2>3. QED
    BY <2>1, <2>2 DEF Store, EmptyJournal
<1>5. ASSUME OpenBackupfiles PROVE Good'
  <2>1. /\ pc = "opening" /\ pc' = "active" /\ backupfiles' = EmptyBackups
        /\ UNCHANGED <<log, gen, journal, base, buf, cur>>
    BY <1>5 DEF OpenBackupfiles
  <2>2. cur.op \notin {"append", "entry", "replace", "restore"} /\ buf = 0
    BY <1>1, <2>1
  <2>3. \A f \in Logs : /\ journal'[f] = NoEntry
                        /\ Cut(log[f], NoEntry) = base.log[f]
    BY <2>1 DEF EmptyJournal, Cut
  <2>4. \A g \in Gens : GenPlayed(g)' = base.gen[g]
    <3>1. EmptyBackups # Absent /\ \A g \in Gens : EmptyBackups.gen[g] = "none"
      BY EmptyFiles DEF EmptyBackups
    <3>2. QED
      BY <2>1, <3>1
  <2>5. QED
    BY <2>1, <2>2, <2>3, <2>4
<1>6. ASSUME Nest PROVE Good'
  BY <1>6 DEF Nest
<1>7. ASSUME CloseNested PROVE Good'
  BY <1>7 DEF CloseNested
<1>8. ASSUME Release PROVE Good'
  <2>1. CASE usages = 1
    BY <1>8, <1>3, <2>1 DEF Release
  <2>2. CASE usages # 1
    BY <1>8, <2>2 DEF Release
  <2>3. QED
    BY <2>1, <2>2
<1>9. ASSUME Raise PROVE Good'
  BY <1>9, <1>3 DEF Raise
<1>10. ASSUME Close PROVE Good'
  BY <1>10 DEF Close
<1>11. ASSUME Generated PROVE Good'
  BY <1>11 DEF Generated
<1>12. ASSUME Finalize PROVE Good'
  <2> DEFINE c == Changelog
  <2>1. /\ journal # Absent /\ journal[c] # NoEntry /\ pc = "final"
        /\ log' = [log EXCEPT ![c] = Append(log[c], txn)] /\ buf' = buf - 1
        /\ UNCHANGED <<gen, journal, base, backupfiles, backup, pc, cur>>
        /\ cur = Idle
    BY <1>12 DEF Finalize
  <2>2. journal[c] \in 0..Len(log[c])
    BY <1>1, <2>1 DEF Journals, Offsets, NoEntry
  <2>3. /\ Cut(Append(log[c], txn), journal[c]) = Cut(log[c], journal[c])
        /\ Len(Append(log[c], txn)) = Len(log[c]) + 1
    BY <1>1, <2>2, CutAppend
  <2>4. OffsetsWithinFiles' /\ LogsRecoverable'
    <3>1. ASSUME NEW f \in Logs, f # c PROVE log'[f] = log[f]
      BY <1>1, <2>1, <3>1
    <3>2. log'[c] = Append(log[c], txn)
      BY <1>1, <2>1
    <3>3. QED
      BY <2>1, <2>2, <2>3, <3>1, <3>2
  <2>5. QED
    BY <1>1, <2>1, <2>4
<1>13. ASSUME Finalized PROVE Good'
  BY <1>13 DEF Finalized
<1>14. ASSUME Written PROVE Good'
  BY <1>14 DEF Written
<1>15. ASSUME OpenUndo PROVE Good'
  BY <1>15 DEF OpenUndo
<1>16. ASSUME CloseUndo PROVE Good'
  BY <1>16 DEF CloseUndo
<1>17. ASSUME UnlinkUndo PROVE Good'
  BY <1>17 DEF UnlinkUndo
<1>18. ASSUME RenameJournal PROVE Good'
  BY <1>18 DEF RenameJournal
<1>19. ASSUME UnlinkBackupfiles PROVE Good'
  BY <1>19 DEF UnlinkBackupfiles
<1>20. ASSUME Done PROVE Good'
  BY <1>20 DEF Done
<1>21. ASSUME Recover PROVE Good'
  BY <1>21, <1>3 DEF Recover
<1>22. ASSUME Truncated PROVE Good'
  <2>1. /\ pc = "playlog" /\ pc' = "playgen" /\ todo = {}
        /\ UNCHANGED <<log, gen, journal, base, backupfiles, backup, cur, buf>>
        /\ cur = Idle
        /\ todo' = IF backupfiles = Absent THEN {} ELSE BackedUp
    BY <1>22 DEF Truncated
  <2>2. log = base.log
    BY <1>1, <1>2, <2>1
  <2>3. \A g \in Gens \ todo' : gen[g] = base.gen[g]
    BY <2>1
  <2>4. QED
    BY <2>1, <2>2, <2>3
<1>23. ASSUME Restored PROVE Good'
  <2>1. /\ pc = "playgen" /\ pc' = "rmjournal" /\ todo = {}
        /\ UNCHANGED <<log, gen, journal, base, backup, cur, buf>>
        /\ cur = Idle /\ backupfiles' = Absent
    BY <1>23 DEF Restored
  <2>2. gen = base.gen
    BY <1>1, <1>2, <2>1
  <2>3. QED
    BY <2>1, <2>2
<1>24. ASSUME UnlinkJournal PROVE Good'
  BY <1>24 DEF UnlinkJournal
<1>25. ASSUME TruncateFails PROVE Good'
  BY <1>25 DEF TruncateFails
<1>26. ASSUME Crash PROVE Good'
  <2>1. /\ UNCHANGED <<log, gen, journal, base, backupfiles, backup>>
        /\ pc' = "idle" /\ cur' = Idle /\ buf' = 0
    BY <1>26 DEF Crash
  <2>2. CASE pc = "opening"
    <3>1. backupfiles = Absent
      BY <1>26, <2>2, <1>0 DEF Crash, Undamaged
    <3>2. \A f \in Logs : Cut(log[f], journal[f]) = base.log[f]
      BY <2>2 DEF EmptyJournal, Cut
    <3>3. QED
      BY <2>1, <2>2, <3>1, <3>2 DEF EmptyJournal
  <2>3. CASE pc # "opening"
    BY <2>1, <2>3
  <2>4. QED
    BY <2>2, <2>3
<1>27. ASSUME NEW f \in Logs, AddEntry(f) PROVE Good'
  <2>1. /\ journal # Absent /\ pc = "active" /\ cur'.op = "append" /\ cur'.f = f
        /\ UNCHANGED <<log, gen, base, backupfiles, backup, pc, buf>>
    BY <1>27 DEF AddEntry
  <2>2. CASE journal[f] # NoEntry
    BY <1>27, <2>1, <2>2 DEF AddEntry
  <2>3. CASE journal[f] = NoEntry
    <3>1. journal' = [journal EXCEPT ![f] = Len(log[f])] /\ journal \in Journals
      BY <1>27, <1>1, <2>1, <2>3 DEF AddEntry
    <3>2. /\ journal'[f] = Len(log[f]) /\ Len(log[f]) \in Nat
          /\ \A h \in Logs \ {f} : journal'[h] = journal[h]
      BY <1>1, <3>1 DEF Journals
    <3>3. Cut(log[f], Len(log[f])) = log[f] /\ Cut(log[f], NoEntry) = log[f]
      BY <1>1, CutWhole DEF Cut
    <3>4. OffsetsWithinFiles' /\ LogsRecoverable'
      BY <2>1, <2>3, <3>2, <3>3
    <3>5. AppendsJournaled'
      BY <2>1, <3>2, FilesAssumption DEF NoEntry
    <3>6. QED
      BY <2>1, <3>4, <3>5
  <2>4. QED
    BY <2>2, <2>3
<1>28. ASSUME NEW f \in Logs, Append1(f) PROVE Good'
  <2>1. CASE f = Changelog
    BY <1>28, <2>1 DEF Append1
  <2>2. CASE f # Changelog
    <3>1. /\ journal # Absent /\ journal[f] # NoEntry /\ pc = "active"
          /\ log' = [log EXCEPT ![f] = Append(log[f], txn)] /\ cur' = Idle
          /\ UNCHANGED <<gen, journal, base, backupfiles, backup, pc, buf>>
      BY <1>28, <2>2 DEF Append1
    <3>2. journal[f] \in 0..Len(log[f])
      BY <1>1, <3>1 DEF Journals, Offsets, NoEntry
    <3>3. /\ Cut(Append(log[f], txn), journal[f]) = Cut(log[f], journal[f])
          /\ Len(Append(log[f], txn)) = Len(log[f]) + 1
      BY <1>1, <3>2, CutAppend
    <3>4. OffsetsWithinFiles' /\ LogsRecoverable'
      <4>1. ASSUME NEW h \in Logs, h # f PROVE log'[h] = log[h]
        BY <1>1, <3>1, <4>1
      <4>2. log'[f] = Append(log[f], txn)
        BY <1>1, <3>1
      <4>3. QED
        BY <3>1, <3>2, <3>3, <4>1, <4>2
    <3>5. QED
      BY <3>1, <3>4
  <2>3. QED
    BY <2>1, <2>2
<1>29. ASSUME NEW f \in Logs, Truncate(f) PROVE Good'
  <2>1. /\ pc = "playlog" /\ journal # Absent
        /\ f \in todo /\ todo' = todo \ {f}
        /\ log' = [log EXCEPT ![f] = SubSeq(log[f], 1, journal[f])]
        /\ UNCHANGED <<gen, journal, base, backupfiles, backup, pc, cur, buf>>
    BY <1>29 DEF Truncate
  <2>2. /\ log[f] \in Seq(Numbers) /\ journal[f] \in 0..Len(log[f])
        /\ journal[f] # NoEntry
    BY <1>1, <2>1, <1>29 DEF Truncate, Journals, Offsets, NoEntry
  <2>3. /\ Cut(log[f], journal[f]) = SubSeq(log[f], 1, journal[f])
        /\ Len(SubSeq(log[f], 1, journal[f])) = journal[f]
        /\ Cut(SubSeq(log[f], 1, journal[f]), journal[f])
              = SubSeq(log[f], 1, journal[f])
    <3>1. \A c \in Seq(Numbers) : \A o \in 0..Len(c) :
             /\ Cut(c, o) = SubSeq(c, 1, o) /\ Len(SubSeq(c, 1, o)) = o
             /\ Cut(SubSeq(c, 1, o), o) = SubSeq(c, 1, o)
      BY CutCut
    <3>2. QED
      BY <2>2, <3>1
  <2>4. log'[f] = base.log[f]
    BY <1>1, <2>1, <2>3
  <2>5. \A h \in Logs \ {f} : log'[h] = log[h]
    BY <1>1, <2>1
  <2>6. OffsetsWithinFiles' /\ LogsRecoverable'
    <3>1. log'[f] = SubSeq(log[f], 1, journal[f])
      BY <1>1, <2>1
    <3>2. Len(log'[f]) = journal[f] /\ Cut(log'[f], journal[f]) = base.log[f]
      BY <2>3, <2>4, <3>1
    <3>3. OffsetsWithinFiles'
      BY <2>1, <2>2, <2>5, <3>2
    <3>4. LogsRecoverable'
      BY <2>1, <2>5, <3>2
    <3>5. QED
      BY <3>3, <3>4
  <2>7. PlaybackProgress'
    BY <2>1, <2>4, <2>5
  <2>8. QED
    BY <2>1, <2>6, <2>7
<1>30. ASSUME NEW g \in Gens, AddFileGenerator(g) PROVE Good'
  BY <1>30 DEF AddFileGenerator
<1>31. ASSUME NEW g \in Gens, RemoveFileGenerator(g) PROVE Good'
  BY <1>31 DEF RemoveFileGenerator
<1>32. ASSUME NEW g \in Gens, RegisterTmp(g) PROVE Good'
  BY <1>32 DEF RegisterTmp
<1>33. ASSUME NEW g \in Gens, WritePending(g) PROVE Good'
  BY <1>33 DEF WritePending
<1>34. ASSUME NEW g \in Gens, CopyBackup(g) PROVE Good'
  <2>1. /\ pc \in Generating /\ backupfiles # Absent
        /\ UNCHANGED <<log, gen, journal, base, backupfiles, pc, buf>>
    BY <1>34 DEF CopyBackup, MayReplace
  <2>2. CASE backupfiles.gen[g] # "none"
    BY <1>34, <2>1, <2>2 DEF CopyBackup
  <2>3. CASE backupfiles.gen[g] = "none"
    <3>1. \A h \in Gens \ {g} : backup'[h] = backup[h]
      BY <1>34, <1>1, <2>3 DEF CopyBackup
    <3>2. gen[g] # Absent => backup'[g] = gen[g]
      BY <1>34, <1>1, <2>3 DEF CopyBackup
    <3>3. cur' = [op |-> "entry", f |-> g]
      BY <1>34, <2>3 DEF CopyBackup
    <3>4. GensRecoverable'
      BY <2>1, <2>3, <3>1
    <3>5. QED
      BY <2>1, <2>3, <3>2, <3>3, <3>4
  <2>4. QED
    BY <2>2, <2>3
<1>35. ASSUME NEW g \in Gens, AddBackupEntry(g) PROVE Good'
  <2>1. /\ pc \in Generating /\ backupfiles # Absent /\ journal # Absent
        /\ backupfiles.gen[g] = "none"
        /\ gen[g] # Absent => backup[g] = gen[g]
        /\ UNCHANGED <<log, gen, journal, base, backup, pc, buf>>
        /\ cur' = [op |-> "replace", f |-> g]
    BY <1>35 DEF AddBackupEntry
  <2>2. backupfiles \in BackupJournals
    BY <1>1, <2>1
  <2>3. /\ backupfiles'.gen[g] = IF gen[g] = Absent THEN "nofile" ELSE "copy"
        /\ \A h \in Gens \ {g} : backupfiles'.gen[h] = backupfiles.gen[h]
    BY <1>35, <2>2 DEF AddBackupEntry, BackupJournals
  <2>4. backupfiles' # Absent
    BY <2>1
  <2>5. GensRecoverable'
    <3>1. GenPlayed(g) = gen[g] /\ GenPlayed(g)' = gen[g]
      BY <2>1, <2>3, <2>4
    <3>2. \A h \in Gens \ {g} : GenPlayed(h)' = GenPlayed(h)
      BY <2>1, <2>3, <2>4
    <3> HIDE DEF GenPlayed
    <3>3. QED
      BY <2>1, <3>1, <3>2
  <2>6. QED
    BY <2>1, <2>3, <2>5
<1>36. ASSUME NEW g \in Gens, Replace(g) PROVE Good'
  BY <1>36 DEF Replace
<1>37. ASSUME NEW g \in Gens, UnlinkPending(g) PROVE Good'
  BY <1>37 DEF UnlinkPending
<1>38. ASSUME NEW g \in Gens, LinkUndo(g) PROVE Good'
  BY <1>38 DEF LinkUndo
<1>39. ASSUME NEW g \in Gens, UnlinkCopy(g) PROVE Good'
  BY <1>39 DEF UnlinkCopy
<1>40. ASSUME NEW g \in Gens, UnlinkGen(g) PROVE Good'
  <2>1. /\ pc = "playgen" /\ cur = Idle /\ g \in todo /\ backupfiles # Absent
        /\ gen' = [gen EXCEPT ![g] = Absent] /\ journal # Absent
        /\ UNCHANGED <<log, journal, base, backupfiles, backup, pc, buf>>
    BY <1>40 DEF UnlinkGen
  <2>2. gen'[g] = Absent /\ \A h \in Gens \ {g} : gen'[h] = gen[h]
    BY <1>1, <2>1
  <2>3. GensRecoverable'
    BY <2>1, <2>2
  <2>4. CASE backupfiles.gen[g] = "copy"
    BY <1>40, <2>1, <2>2, <2>3, <2>4 DEF UnlinkGen
  <2>5. CASE backupfiles.gen[g] # "copy"
    BY <1>40, <2>1, <2>2, <2>3, <2>5 DEF UnlinkGen
  <2>6. QED
    BY <2>4, <2>5
<1>41. ASSUME NEW g \in Gens, RestoreGen(g) PROVE Good'
  <2>1. /\ pc = "playgen" /\ g \in todo
        /\ backupfiles # Absent /\ journal # Absent
        /\ gen' = [gen EXCEPT ![g] = backup[g]]
        /\ todo' = todo \ {g} /\ cur' = Idle
        /\ backupfiles.gen[g] = "copy"
        /\ UNCHANGED <<log, journal, base, backupfiles, backup, pc, buf>>
    BY <1>41 DEF RestoreGen
  <2>2. gen'[g] = backup[g] /\ \A h \in Gens \ {g} : gen'[h] = gen[h]
    BY <1>1, <2>1
  <2>3. backup[g] = base.gen[g]
    BY <2>1
  <2>4. QED
    BY <2>1, <2>2, <2>3
<1>42. ASSUME NEW g \in Gens, RestoreFails(g) PROVE Good'
  BY <1>0, <1>42 DEF RestoreFails, Undamaged
<1>43. CASE UNCHANGED vars
  BY <1>43 DEF vars
<1>44. QED
  BY <1>4, <1>5, <1>6, <1>7, <1>8, <1>9, <1>10, <1>11, <1>12, <1>13, <1>14,
     <1>15, <1>16, <1>17, <1>18, <1>19, <1>20, <1>21, <1>22, <1>23, <1>24,
     <1>25, <1>26, <1>27, <1>28, <1>29, <1>30, <1>31, <1>32, <1>33, <1>34,
     <1>35, <1>36, <1>37, <1>38, <1>39, <1>40, <1>41, <1>42, <1>43
  DEF Next, WriteNext, ScopeNext, CloseNext, PlaybackNext, FailNext

\* Without a journal there is nothing to show.
LEMMA GoodInit == Init => Good
  BY DEF Init, Good, OffsetsWithinFiles, LogsRecoverable, GensRecoverable,
         OpeningQuiet, AppendsJournaled, BackupsFirst, PlaybackProgress, Idle

\* Crashes and faults are counted.
LEMMA TroubleStays ==
    ASSUME TypeOK, [Next]_vars
    PROVE  /\ Undamaged' => Undamaged
           /\ Untroubled' => Untroubled
<1>1. crashes \in Nat /\ faults \in Nat
  BY DEF TypeOK
<1>2. /\ crashes' \in {crashes, crashes + 1}
      /\ faults' \in {faults, faults + 1}
  <2> USE DEF past, run, scopes, StartPlayback
  <2>1. CASE OpenJournal
    BY <2>1 DEF OpenJournal
  <2>2. CASE WriteNext
    BY <2>2 DEF WriteNext, OpenBackupfiles, AddEntry, Append1, AddFileGenerator,
       RemoveFileGenerator, RegisterTmp, WritePending, CopyBackup, AddBackupEntry,
       Replace
  <2>3. CASE ScopeNext
    BY <2>3 DEF ScopeNext, Nest, CloseNested, Release, Raise
  <2>4. CASE CloseNext
    BY <2>4 DEF CloseNext, Close, Generated, Finalize, Finalized, Written, OpenUndo,
       CloseUndo, UnlinkUndo, RenameJournal, UnlinkBackupfiles, Done, UnlinkPending,
       LinkUndo, UnlinkCopy
  <2>5. CASE Recover \/ PlaybackNext
    BY <2>5 DEF Recover, PlaybackNext, Truncate, Truncated, Restored, UnlinkJournal,
       UnlinkGen, RestoreGen
  <2>6. CASE FailNext
    BY <2>6 DEF FailNext, TruncateFails, Crash, RestoreFails, ids
  <2>7. CASE UNCHANGED vars
    BY <2>7 DEF vars
  <2> QED
    BY <2>1, <2>2, <2>3, <2>4, <2>5, <2>6, <2>7 DEF Next
<1> QED
  BY <1>1, <1>2 DEF Undamaged, Untroubled

\* IInv is an invariant.
THEOREM Inductive == Spec => []IInv
<1>1. Init => IInv
  BY TypeInit, GoodInit DEF IInv
<1>2. IInv /\ [Next]_vars => IInv'
  BY TypeStep, GoodStep, TroubleStays DEF IInv
<1>3. QED
  BY <1>1, <1>2, PTL DEF Spec

\* RecoverableStore, from its two halves.
LEMMA PlayedIsBase == IInv /\ Undamaged => RecoverableStore
<1>1. SUFFICES ASSUME IInv, Undamaged, journal # Absent, pc # "opening" PROVE Played = base
  BY DEF RecoverableStore
<1>2. base.log \in [Logs -> Seq(Numbers)] /\ base.gen \in [Gens -> MaybeTxn]
      /\ base = [log |-> base.log, gen |-> base.gen]
  BY <1>1 DEF IInv, TypeOK, Stores
<1>3. PlayedLog(journal) = base.log
  BY <1>1, <1>2 DEF IInv, Good, LogsRecoverable, PlayedLog
<1>4. PlayedGen(backupfiles, backup) = base.gen
  BY <1>1, <1>2 DEF IInv, Good, GensRecoverable, GenPlayed, PlayedGen
<1>5. QED
  BY <1>2, <1>3, <1>4 DEF Played

\* As long as there is a journal, playing it back gives the store of before
\* the transaction (RecoverableStore), wherever the process died.
THEOREM Recoverable ==
    ASSUME ~CrashReopening, "restore" \notin Faults
    PROVE  Spec => []RecoverableStore
<1>1. Undamaged
  BY DEF Undamaged
<1>2. QED
  BY <1>1, Inductive, PlayedIsBase, PTL

-----------------------------------------------------------------------------
(* hg rollback *)

\* The store that a roll back of the transaction would leave.
Last == IF journal # Absent THEN base ELSE Store

\* What undo makes of it is the store before the last commit.
UndoGood ==
    /\ undobackupfiles # Absent
    /\ \A f \in Logs : Cut(Last.log[f], undo[f]) = prev.log[f]
    /\ \A g \in Gens :
          LET entry == undobackupfiles.gen[g] IN
          prev.gen[g] = IF entry = "none" THEN Last.gen[g]
                        ELSE IF entry = "copy" THEN undobackup[g] ELSE Absent

\* undo is good but for the time in which it is replaced.
UndoInv ==
    /\ undo # Absent /\ pc \notin {"writeundo", "after"} => UndoGood
    /\ pc = "writeundo" => \A g \in Copied \ todo : undobackup[g] = backup[g]
    /\ pc \in {"after", "rename"} =>
          /\ undobackupfiles # Absent /\ undobackupfiles.gen = backupfiles.gen
          /\ \A g \in Copied : undobackup[g] = backup[g]
    /\ pc = "rename" => undo = Absent

\* A step that touches neither undo nor what it is applied to.
LEMMA UndoStays ==
    ASSUME UNCHANGED <<ufiles, prev, Last>>, UndoGood
    PROVE  UndoGood'
<1>1. UNCHANGED <<undo, undobackupfiles, undobackup, prev, Last>>
  BY DEF ufiles
<1>2. UndoGood' = UndoGood
  BY <1>1 DEF UndoGood
<1> QED
  BY <1>2

\* Every step keeps it, until a process dies or a copy is not put back.
LEMMA UndoStep ==
    ASSUME TypeOK, Shape, Good, UndoInv, TypeOK', [Next]_vars, Untroubled'
    PROVE  UndoInv'
<1> USE FilesAssumption, AbsentAssumption
    DEF store, tfiles, ufiles, ownfiles, files, scopes, ids, past, run, Idle,
        Doing, Active, Step, Generating, Open, Playing,
        Forget, ForgetScopes, StartPlayback, UndoInv, Shape
<1>1. /\ gen \in [Gens -> MaybeTxn] /\ log \in [Logs -> Seq(Numbers)]
      /\ base.log \in [Logs -> Seq(Numbers)] /\ base.gen \in [Gens -> MaybeTxn]
      /\ undobackup \in [Gens -> MaybeTxn]
      /\ backupfiles # Absent => backupfiles \in BackupJournals
      /\ crashes \in Nat
  BY DEF TypeOK, Store, Stores
<1>2. ASSUME UNCHANGED <<ufiles, prev>>, Last' = Last,
             pc \notin {"writeundo", "after"},
             pc' \notin {"writeundo", "after", "rename"}
      PROVE  UndoInv'
  BY <1>2, UndoStays
<1>3. ASSUME OpenJournal PROVE UndoInv'
  <2>1. /\ journal = Absent /\ base' = Store /\ journal' # Absent
        /\ UNCHANGED <<ufiles, prev>> /\ pc = "idle" /\ pc' = "opening"
    BY <1>3, EmptyFiles DEF OpenJournal
  <2>2. Last' = Last
    BY <2>1 DEF Last
  <2> QED BY <1>2, <2>1, <2>2
<1>4. ASSUME OpenBackupfiles PROVE UndoInv'
  <2>1. UNCHANGED <<ufiles, prev, base, journal>> /\ journal # Absent
        /\ pc \notin {"writeundo", "after"} /\ pc' \notin {"writeundo", "after", "rename"}
    BY <1>4 DEF OpenBackupfiles
  <2>2. Last' = Last
    BY <2>1 DEF Last
  <2> QED BY <1>2, <2>1, <2>2
<1>5. ASSUME Nest PROVE UndoInv'
  <2>1. UNCHANGED <<ufiles, prev, base, journal>> /\ journal # Absent
        /\ pc \notin {"writeundo", "after"} /\ pc' \notin {"writeundo", "after", "rename"}
    BY <1>5 DEF Nest
  <2>2. Last' = Last
    BY <2>1 DEF Last
  <2> QED BY <1>2, <2>1, <2>2
<1>6. ASSUME CloseNested PROVE UndoInv'
  <2>1. UNCHANGED <<ufiles, prev, base, journal>> /\ journal # Absent
        /\ pc \notin {"writeundo", "after"} /\ pc' \notin {"writeundo", "after", "rename"}
    BY <1>6 DEF CloseNested
  <2>2. Last' = Last
    BY <2>1 DEF Last
  <2> QED BY <1>2, <2>1, <2>2
<1>7. ASSUME Release PROVE UndoInv'
  <2>1. UNCHANGED <<ufiles, prev, base, journal>> /\ journal # Absent
        /\ pc \notin {"writeundo", "after"} /\ pc' \notin {"writeundo", "after", "rename"}
    BY <1>7 DEF Release
  <2>2. Last' = Last
    BY <2>1 DEF Last
  <2> QED BY <1>2, <2>1, <2>2
<1>8. ASSUME Raise PROVE UndoInv'
  <2>1. UNCHANGED <<ufiles, prev, base, journal>> /\ journal # Absent
        /\ pc \notin {"writeundo", "after"} /\ pc' \notin {"writeundo", "after", "rename"}
    BY <1>8 DEF Raise
  <2>2. Last' = Last
    BY <2>1 DEF Last
  <2> QED BY <1>2, <2>1, <2>2
<1>9. ASSUME Close PROVE UndoInv'
  <2>1. UNCHANGED <<ufiles, prev, base, journal>> /\ journal # Absent
        /\ pc \notin {"writeundo", "after"} /\ pc' \notin {"writeundo", "after", "rename"}
    BY <1>9 DEF Close
  <2>2. Last' = Last
    BY <2>1 DEF Last
  <2> QED BY <1>2, <2>1, <2>2
<1>10. ASSUME Generated PROVE UndoInv'
  <2>1. UNCHANGED <<ufiles, prev, base, journal>> /\ journal # Absent
        /\ pc \notin {"writeundo", "after"} /\ pc' \notin {"writeundo", "after", "rename"}
    BY <1>10 DEF Generated
  <2>2. Last' = Last
    BY <2>1 DEF Last
  <2> QED BY <1>2, <2>1, <2>2
<1>11. ASSUME Finalize PROVE UndoInv'
  <2>1. UNCHANGED <<ufiles, prev, base, journal>> /\ journal # Absent
        /\ pc \notin {"writeundo", "after"} /\ pc' \notin {"writeundo", "after", "rename"}
    BY <1>11 DEF Finalize
  <2>2. Last' = Last
    BY <2>1 DEF Last
  <2> QED BY <1>2, <2>1, <2>2
<1>12. ASSUME Finalized PROVE UndoInv'
  <2>1. UNCHANGED <<ufiles, prev, base, journal>> /\ journal # Absent
        /\ pc \notin {"writeundo", "after"} /\ pc' \notin {"writeundo", "after", "rename"}
    BY <1>12 DEF Finalized
  <2>2. Last' = Last
    BY <2>1 DEF Last
  <2> QED BY <1>2, <2>1, <2>2
<1>13. ASSUME Written PROVE UndoInv'
  <2>1. UNCHANGED <<ufiles, prev, base, journal>> /\ journal # Absent
        /\ pc \notin {"writeundo", "after"} /\ pc' \notin {"writeundo", "after", "rename"}
    BY <1>13 DEF Written
  <2>2. Last' = Last
    BY <2>1 DEF Last
  <2> QED BY <1>2, <2>1, <2>2
<1>14. ASSUME OpenUndo PROVE UndoInv'
  <2>1. pc' = "writeundo" /\ todo' = Copied /\ backupfiles' = backupfiles
    BY <1>14 DEF OpenUndo
  <2>2. Copied' = Copied
    BY <2>1 DEF Copied
  <2> QED BY <2>1, <2>2
<1>15. ASSUME CloseUndo PROVE UndoInv'
  <2>1. /\ pc = "writeundo" /\ pc' = "after" /\ todo = {} /\ backupfiles # Absent
        /\ undobackupfiles' = [backupfiles EXCEPT !.tmp = {}]
        /\ UNCHANGED <<backupfiles, backup, undobackup>>
    BY <1>15 DEF CloseUndo
  <2>2. undobackupfiles' \in BackupJournals /\ undobackupfiles'.gen = backupfiles.gen
    BY <1>1, <2>1 DEF BackupJournals
  <2>3. undobackupfiles' # Absent
    BY <2>2
  <2>4. Copied' = Copied
    BY <2>1 DEF Copied
  <2> QED BY <2>1, <2>2, <2>3, <2>4
<1>16. ASSUME UnlinkUndo PROVE UndoInv'
  <2>1. /\ pc = "after" /\ pc' = "rename" /\ undo' = Absent
        /\ UNCHANGED <<backupfiles, backup, undobackup, undobackupfiles>>
    BY <1>16 DEF UnlinkUndo
  <2>2. Copied' = Copied
    BY <2>1 DEF Copied
  <2> QED BY <2>1, <2>2
<1>17. ASSUME RenameJournal PROVE UndoInv'
  <2>1. /\ pc = "rename" /\ pc' = "rmbackupfiles" /\ undo' = journal /\ journal' = Absent
        /\ prev' = base /\ UNCHANGED <<log, gen, undobackupfiles, undobackup>>
        /\ journal # Absent /\ backupfiles # Absent /\ undobackupfiles # Absent
        /\ undobackupfiles.gen = backupfiles.gen
        /\ \A g \in Copied : undobackup[g] = backup[g]
    BY <1>17 DEF RenameJournal
  <2>2. Last'.log = log /\ Last'.gen = gen
    BY <2>1 DEF Last, Store
  <2>3. \A f \in Logs : Cut(log[f], journal[f]) = base.log[f]
    BY <2>1 DEF Good, LogsRecoverable
  <2>4. \A g \in Gens : GenPlayed(g) = base.gen[g]
    BY <2>1 DEF Good, GensRecoverable
  <2>5. ASSUME NEW g \in Gens
        PROVE  base.gen[g] = IF backupfiles.gen[g] = "none" THEN gen[g]
                  ELSE IF backupfiles.gen[g] = "copy" THEN undobackup[g] ELSE Absent
    BY <2>1, <2>4 DEF GenPlayed, Copied
  <2>6. UndoGood'
    BY <2>1, <2>2, <2>3, <2>5 DEF UndoGood
  <2> QED BY <2>1, <2>6
<1>18. ASSUME UnlinkBackupfiles PROVE UndoInv'
  <2>1. UNCHANGED <<ufiles, prev, base, journal, log, gen>>
        /\ pc \notin {"writeundo", "after"} /\ pc' \notin {"writeundo", "after", "rename"}
    BY <1>18 DEF UnlinkBackupfiles
  <2>2. Last' = Last
    BY <2>1 DEF Last, Store
  <2> QED BY <1>2, <2>1, <2>2
<1>19. ASSUME Done PROVE UndoInv'
  <2>1. UNCHANGED <<ufiles, prev, base, journal, log, gen>>
        /\ pc \notin {"writeundo", "after"} /\ pc' \notin {"writeundo", "after", "rename"}
    BY <1>19 DEF Done
  <2>2. Last' = Last
    BY <2>1 DEF Last, Store
  <2> QED BY <1>2, <2>1, <2>2
<1>20. ASSUME Recover PROVE UndoInv'
  <2>1. UNCHANGED <<ufiles, prev, base, journal>> /\ journal # Absent
        /\ pc \notin {"writeundo", "after"} /\ pc' \notin {"writeundo", "after", "rename"}
    BY <1>20 DEF Recover
  <2>2. Last' = Last
    BY <2>1 DEF Last
  <2> QED BY <1>2, <2>1, <2>2
<1>21. ASSUME Truncated PROVE UndoInv'
  <2>1. UNCHANGED <<ufiles, prev, base, journal>> /\ journal # Absent
        /\ pc \notin {"writeundo", "after"} /\ pc' \notin {"writeundo", "after", "rename"}
    BY <1>21 DEF Truncated
  <2>2. Last' = Last
    BY <2>1 DEF Last
  <2> QED BY <1>2, <2>1, <2>2
<1>22. ASSUME Restored PROVE UndoInv'
  <2>1. UNCHANGED <<ufiles, prev, base, journal>> /\ journal # Absent
        /\ pc \notin {"writeundo", "after"} /\ pc' \notin {"writeundo", "after", "rename"}
    BY <1>22 DEF Restored
  <2>2. Last' = Last
    BY <2>1 DEF Last
  <2> QED BY <1>2, <2>1, <2>2
<1>23. ASSUME UnlinkJournal PROVE UndoInv'
  <2>1. /\ pc = "rmjournal" /\ pc' = "rmcopies" /\ journal' = Absent
        /\ UNCHANGED <<ufiles, prev, log, gen>> /\ journal # Absent
    BY <1>23 DEF UnlinkJournal
  <2>2. base = Store
    BY <2>1 DEF Good, PlaybackProgress, TypeOK, Stores, Store
  <2>3. Last' = Last
    BY <2>1, <2>2 DEF Last, Store
  <2> QED BY <1>2, <2>1, <2>3
<1>24. ASSUME TruncateFails PROVE UndoInv'
  <2>1. UNCHANGED <<ufiles, prev, base, journal>> /\ journal # Absent
        /\ pc \notin {"writeundo", "after"} /\ pc' \notin {"writeundo", "after", "rename"}
    BY <1>24 DEF TruncateFails
  <2>2. Last' = Last
    BY <2>1 DEF Last
  <2> QED BY <1>2, <2>1, <2>2
<1>25. ASSUME Crash PROVE UndoInv'
  <2>1. crashes' = crashes + 1
    BY <1>25 DEF Crash
  <2>2. FALSE
    BY <1>1, <2>1 DEF Untroubled
  <2> QED BY <2>2
<1>26. ASSUME NEW f \in Logs, AddEntry(f) PROVE UndoInv'
  <2>1. /\ journal # Absent /\ journal' # Absent /\ base' = base
        /\ UNCHANGED <<ufiles, prev>> /\ pc = "active" /\ pc' = "active"
    BY <1>26, TypeStep DEF AddEntry
  <2>2. Last' = Last
    BY <2>1 DEF Last
  <2> QED BY <1>2, <2>1, <2>2
<1>27. ASSUME NEW f \in Logs, Append1(f) PROVE UndoInv'
  <2>1. UNCHANGED <<ufiles, prev, base, journal>> /\ journal # Absent
        /\ pc \notin {"writeundo", "after"} /\ pc' \notin {"writeundo", "after", "rename"}
    BY <1>27 DEF Append1
  <2>2. Last' = Last
    BY <2>1 DEF Last
  <2> QED BY <1>2, <2>1, <2>2
<1>28. ASSUME NEW f \in Logs, Truncate(f) PROVE UndoInv'
  <2>1. UNCHANGED <<ufiles, prev, base, journal>> /\ journal # Absent
        /\ pc \notin {"writeundo", "after"} /\ pc' \notin {"writeundo", "after", "rename"}
    BY <1>28 DEF Truncate
  <2>2. Last' = Last
    BY <2>1 DEF Last
  <2> QED BY <1>2, <2>1, <2>2
<1>29. ASSUME NEW g \in Gens, AddFileGenerator(g) PROVE UndoInv'
  <2>1. UNCHANGED <<ufiles, prev, base, journal>> /\ journal # Absent
        /\ pc \notin {"writeundo", "after"} /\ pc' \notin {"writeundo", "after", "rename"}
    BY <1>29 DEF AddFileGenerator
  <2>2. Last' = Last
    BY <2>1 DEF Last
  <2> QED BY <1>2, <2>1, <2>2
<1>30. ASSUME NEW g \in Gens, RemoveFileGenerator(g) PROVE UndoInv'
  <2>1. UNCHANGED <<ufiles, prev, base, journal>> /\ journal # Absent
        /\ pc \notin {"writeundo", "after"} /\ pc' \notin {"writeundo", "after", "rename"}
    BY <1>30 DEF RemoveFileGenerator
  <2>2. Last' = Last
    BY <2>1 DEF Last
  <2> QED BY <1>2, <2>1, <2>2
<1>31. ASSUME NEW g \in Gens, RegisterTmp(g) PROVE UndoInv'
  <2>1. UNCHANGED <<ufiles, prev, base, journal>> /\ journal # Absent
        /\ pc \notin {"writeundo", "after"} /\ pc' \notin {"writeundo", "after", "rename"}
    BY <1>31 DEF RegisterTmp
  <2>2. Last' = Last
    BY <2>1 DEF Last
  <2> QED BY <1>2, <2>1, <2>2
<1>32. ASSUME NEW g \in Gens, WritePending(g) PROVE UndoInv'
  <2>1. UNCHANGED <<ufiles, prev, base, journal>> /\ journal # Absent
        /\ pc \notin {"writeundo", "after"} /\ pc' \notin {"writeundo", "after", "rename"}
    BY <1>32 DEF WritePending
  <2>2. Last' = Last
    BY <2>1 DEF Last
  <2> QED BY <1>2, <2>1, <2>2
<1>33. ASSUME NEW g \in Gens, CopyBackup(g) PROVE UndoInv'
  <2>1. UNCHANGED <<ufiles, prev, base, journal>> /\ journal # Absent
        /\ pc \notin {"writeundo", "after"} /\ pc' \notin {"writeundo", "after", "rename"}
    BY <1>33 DEF CopyBackup, MayReplace
  <2>2. Last' = Last
    BY <2>1 DEF Last
  <2> QED BY <1>2, <2>1, <2>2
<1>34. ASSUME NEW g \in Gens, AddBackupEntry(g) PROVE UndoInv'
  <2>1. UNCHANGED <<ufiles, prev, base, journal>> /\ journal # Absent
        /\ pc \notin {"writeundo", "after"} /\ pc' \notin {"writeundo", "after", "rename"}
    BY <1>34 DEF AddBackupEntry
  <2>2. Last' = Last
    BY <2>1 DEF Last
  <2> QED BY <1>2, <2>1, <2>2
<1>35. ASSUME NEW g \in Gens, Replace(g) PROVE UndoInv'
  <2>1. UNCHANGED <<ufiles, prev, base, journal>> /\ journal # Absent
        /\ pc \notin {"writeundo", "after"} /\ pc' \notin {"writeundo", "after", "rename"}
    BY <1>35 DEF Replace
  <2>2. Last' = Last
    BY <2>1 DEF Last
  <2> QED BY <1>2, <2>1, <2>2
<1>36. ASSUME NEW g \in Gens, UnlinkPending(g) PROVE UndoInv'
  <2>1. UNCHANGED <<ufiles, prev, base, journal>> /\ journal # Absent
        /\ pc \notin {"writeundo", "after"} /\ pc' \notin {"writeundo", "after", "rename"}
    BY <1>36 DEF UnlinkPending
  <2>2. Last' = Last
    BY <2>1 DEF Last
  <2> QED BY <1>2, <2>1, <2>2
<1>37. ASSUME NEW g \in Gens, LinkUndo(g) PROVE UndoInv'
  <2>1. /\ pc = "writeundo" /\ pc' = pc /\ todo' = todo \ {g}
        /\ undobackup' = [undobackup EXCEPT ![g] = backup[g]]
        /\ UNCHANGED <<backupfiles, backup>>
    BY <1>37 DEF LinkUndo
  <2>2. Copied' = Copied /\ \A h \in Copied : h \in Gens
    BY <2>1 DEF Copied
  <2>3. \A h \in Copied \ todo' : undobackup'[h] = backup'[h]
    BY <1>1, <2>1, <2>2
  <2> QED BY <2>1, <2>2, <2>3
<1>38. ASSUME NEW g \in Gens, UnlinkCopy(g) PROVE UndoInv'
  <2>1. UNCHANGED <<ufiles, prev, base, journal, log, gen>>
        /\ pc \notin {"writeundo", "after"} /\ pc' \notin {"writeundo", "after", "rename"}
    BY <1>38 DEF UnlinkCopy
  <2>2. Last' = Last
    BY <2>1 DEF Last, Store
  <2> QED BY <1>2, <2>1, <2>2
<1>39. ASSUME NEW g \in Gens, UnlinkGen(g) PROVE UndoInv'
  <2>1. UNCHANGED <<ufiles, prev, base, journal>> /\ journal # Absent
        /\ pc \notin {"writeundo", "after"} /\ pc' \notin {"writeundo", "after", "rename"}
    BY <1>39 DEF UnlinkGen
  <2>2. Last' = Last
    BY <2>1 DEF Last
  <2> QED BY <1>2, <2>1, <2>2
<1>40. ASSUME NEW g \in Gens, RestoreGen(g) PROVE UndoInv'
  <2>1. UNCHANGED <<ufiles, prev, base, journal>> /\ journal # Absent
        /\ pc \notin {"writeundo", "after"} /\ pc' \notin {"writeundo", "after", "rename"}
    BY <1>40 DEF RestoreGen
  <2>2. Last' = Last
    BY <2>1 DEF Last
  <2> QED BY <1>2, <2>1, <2>2
<1>41. ASSUME NEW g \in Gens, RestoreFails(g) PROVE UndoInv'
  <2>1. UNCHANGED <<ufiles, prev, base, journal>> /\ journal # Absent
        /\ pc \notin {"writeundo", "after"} /\ pc' \notin {"writeundo", "after", "rename"}
    BY <1>41 DEF RestoreFails
  <2>2. Last' = Last
    BY <2>1 DEF Last
  <2> QED BY <1>2, <2>1, <2>2
<1>42. ASSUME UNCHANGED vars PROVE UndoInv'
  <2>1. UNCHANGED <<undo, undobackupfiles, undobackup, prev, journal, base, log, gen, pc, todo,
                     backup, backupfiles>>
    BY <1>42 DEF vars
  <2>2. Last' = Last /\ Copied' = Copied
    BY <2>1 DEF Last, Store, Copied
  <2> QED BY <2>1, <2>2, UndoStays
<1>43. QED
  BY <1>3, <1>4, <1>5, <1>6, <1>7, <1>8, <1>9, <1>10, <1>11, <1>12,
     <1>13, <1>14, <1>15, <1>16, <1>17, <1>18, <1>19, <1>20, <1>21,
     <1>22, <1>23, <1>24, <1>25, <1>26, <1>27, <1>28, <1>29, <1>30,
     <1>31, <1>32, <1>33, <1>34, <1>35, <1>36, <1>37, <1>38, <1>39,
     <1>40, <1>41, <1>42
  DEF Next, WriteNext, ScopeNext, CloseNext, PlaybackNext, FailNext

\* hg rollback leads back to the store before the last commit (UndoTakesBack), unless
\* a process died or a copy could not be put back.
THEOREM UndoAlwaysTakesBack == Spec => []UndoTakesBack
<1>1. Init => UndoInv
  BY DEF Init, UndoInv
<1>2. /\ IInv /\ IInv' /\ (Untroubled => UndoInv) /\ [Next]_vars
      => (Untroubled => UndoInv)'
  BY UndoStep, TroubleStays DEF IInv, Untroubled, Undamaged
<1>3. IInv /\ (Untroubled => UndoInv) => UndoTakesBack
  <2> SUFFICES ASSUME IInv, UndoInv, pc = "idle", journal = Absent, undo # Absent
               PROVE  [log |-> PlayedLog(undo), gen |-> PlayedGen(undobackupfiles, undobackup)]
                         = prev
    BY DEF UndoTakesBack
  <2>1. prev \in Stores /\ UndoGood /\ Last = Store
    BY DEF IInv, TypeOK, UndoInv, Last
  <2>2. /\ prev.log \in [Logs -> Seq(Numbers)] /\ prev.gen \in [Gens -> MaybeTxn]
        /\ prev = [log |-> prev.log, gen |-> prev.gen]
    BY <2>1 DEF Stores
  <2>3. PlayedLog(undo) = prev.log
    BY <2>1, <2>2 DEF UndoGood, PlayedLog, Store
  <2>4. PlayedGen(undobackupfiles, undobackup) = prev.gen
    BY <2>1, <2>2 DEF UndoGood, PlayedGen, Store
  <2> QED BY <2>2, <2>3, <2>4
<1> QED BY <1>1, <1>2, <1>3, Inductive, PTL DEF Spec

-----------------------------------------------------------------------------
(* Transaction implements AtomicStore *)

\* What a step does to the abstract store: it writes to it, or lets it be.
Stays(s) ==
    /\ journal # Absent /\ journal' # Absent /\ base' = base
    /\ Status = s /\ Status' = s

Fails ==
    /\ journal # Absent /\ journal' # Absent /\ base' = base
    /\ Status = "open" /\ Status' = "broken" /\ UNCHANGED store

Outside == journal = Absent /\ journal' = Absent /\ UNCHANGED store

\* The committed store, once RecoverableStore is known.
CommittedIsBase == Committed = IF journal # Absent THEN base ELSE Store

\* What the abstract store holds is known in every reachable state.
LEMMA CommittedKnown == IInv /\ Undamaged => CommittedIsBase
<1>1. SUFFICES ASSUME IInv, Undamaged PROVE CommittedIsBase
  OBVIOUS
<1>2. CASE pc = "opening"
  <2>1. base = Store
    BY <1>1, <1>2 DEF IInv, TypeOK, Stores, Good, OpeningQuiet, Store
  <2>2. QED
    BY <1>2, <2>1 DEF CommittedIsBase, Committed
<1>3. CASE pc # "opening"
  BY <1>1, <1>3, PlayedIsBase DEF RecoverableStore, CommittedIsBase, Committed
<1>4. QED
  BY <1>2, <1>3

\* Every step is a step of AtomicStore, or leaves its variables alone.
LEMMA StepImplements ==
    ASSUME "restore" \notin Faults, TypeOK, TypeOK', Shape, Shape', Good,
           CommittedIsBase, CommittedIsBase', [Next]_vars
    PROVE  [Abstract!ANext]_Abstract!avars
<1> USE AbsentAssumption
    DEF Stays, Fails, Outside, Status, CommittedIsBase, Shape, Open, Playing,
        Generating,
        store, tfiles, ufiles, ownfiles, files, scopes, ids, past, run, Doing,
        Active, Step, Forget, StartPlayback, Idle
<1>1. pc = "rmjournal" => base = Store
  BY DEF TypeOK, Stores, Store, Good, PlaybackProgress
<1>2. ASSUME OpenJournal PROVE Abstract!Begin
  BY <1>2, EmptyFiles DEF OpenJournal, Abstract!Begin, Store
<1>3. ASSUME OpenBackupfiles PROVE Stays("open")
  BY <1>3 DEF OpenBackupfiles
<1>4. ASSUME Nest PROVE Stays("open")
  BY <1>4 DEF Nest
<1>5. ASSUME CloseNested PROVE Stays("open")
  BY <1>5 DEF CloseNested
<1>6. ASSUME Release PROVE Stays("open") \/ Fails
  BY <1>6 DEF Release
<1>7. ASSUME Raise PROVE Fails
  BY <1>7 DEF Raise
<1>8. ASSUME Close PROVE Stays("open")
  BY <1>8 DEF Close
<1>9. ASSUME Generated PROVE Stays("open")
  BY <1>9 DEF Generated
<1>10. ASSUME Finalize PROVE Stays("open")
  BY <1>10 DEF Finalize
<1>11. ASSUME Finalized PROVE Stays("open")
  BY <1>11 DEF Finalized
<1>12. ASSUME Written PROVE Stays("open")
  BY <1>12 DEF Written
<1>13. ASSUME OpenUndo PROVE Stays("open")
  BY <1>13 DEF OpenUndo
<1>14. ASSUME CloseUndo PROVE Stays("open")
  BY <1>14 DEF CloseUndo
<1>15. ASSUME UnlinkUndo PROVE Stays("open")
  BY <1>15 DEF UnlinkUndo
<1>16. ASSUME RenameJournal PROVE Abstract!Commit
  BY <1>16 DEF RenameJournal, Abstract!Commit, Store
<1>17. ASSUME UnlinkBackupfiles PROVE Outside
  BY <1>17 DEF UnlinkBackupfiles
<1>18. ASSUME Done PROVE Outside
  BY <1>18 DEF Done
<1>19. ASSUME Recover PROVE Stays("broken")
  BY <1>19 DEF Recover
<1>20. ASSUME Truncated PROVE Stays("broken")
  BY <1>20 DEF Truncated
<1>21. ASSUME Restored PROVE Stays("broken")
  BY <1>21 DEF Restored
<1>22. ASSUME UnlinkJournal PROVE Abstract!Recovered
  BY <1>22, <1>1 DEF UnlinkJournal, Abstract!Recovered, Good, PlaybackProgress,
     Store
<1>23. ASSUME TruncateFails PROVE Stays("broken")
  BY <1>23 DEF TruncateFails
<1>24. ASSUME Crash PROVE Fails \/ Stays("broken") \/ Outside
  BY <1>24 DEF Crash
<1>25. ASSUME NEW f \in Logs, AddEntry(f) PROVE Stays("open")
  BY <1>25 DEF AddEntry
<1>26. ASSUME NEW f \in Logs, Append1(f) PROVE Stays("open")
  BY <1>26 DEF Append1
<1>27. ASSUME NEW f \in Logs, Truncate(f) PROVE Stays("broken")
  BY <1>27 DEF Truncate
<1>28. ASSUME NEW g \in Gens, AddFileGenerator(g) PROVE Stays("open")
  BY <1>28 DEF AddFileGenerator
<1>29. ASSUME NEW g \in Gens, RemoveFileGenerator(g) PROVE Stays("open")
  BY <1>29 DEF RemoveFileGenerator
<1>30. ASSUME NEW g \in Gens, RegisterTmp(g) PROVE Stays("open")
  BY <1>30 DEF RegisterTmp
<1>31. ASSUME NEW g \in Gens, WritePending(g) PROVE Stays("open")
  BY <1>31 DEF WritePending
<1>32. ASSUME NEW g \in Gens, CopyBackup(g) PROVE Stays("open")
  BY <1>32 DEF CopyBackup, MayReplace
<1>33. ASSUME NEW g \in Gens, AddBackupEntry(g) PROVE Stays("open")
  BY <1>33 DEF AddBackupEntry
<1>34. ASSUME NEW g \in Gens, Replace(g) PROVE Stays("open")
  BY <1>34 DEF Replace
<1>35. ASSUME NEW g \in Gens, UnlinkPending(g) PROVE Stays("open") \/ Stays("broken")
  BY <1>35 DEF UnlinkPending
<1>36. ASSUME NEW g \in Gens, LinkUndo(g) PROVE Stays("open")
  BY <1>36 DEF LinkUndo
<1>37. ASSUME NEW g \in Gens, UnlinkCopy(g) PROVE Outside
  BY <1>37 DEF UnlinkCopy
<1>38. ASSUME NEW g \in Gens, UnlinkGen(g) PROVE Stays("broken")
  BY <1>38 DEF UnlinkGen
<1>39. ASSUME NEW g \in Gens, RestoreGen(g) PROVE Stays("broken")
  BY <1>39 DEF RestoreGen
<1>40. ASSUME NEW g \in Gens, RestoreFails(g) PROVE Stays("broken")
  BY <1>40 DEF RestoreFails
<1>41. CASE UNCHANGED vars
  <2>1. UNCHANGED <<log, gen, base, journal, pc>>
    BY <1>41 DEF vars
  <2>2. QED
    BY <2>1 DEF Abstract!avars, Store
<1>42. Stays("open") => [Abstract!ANext]_Abstract!avars
  BY DEF Abstract!ANext, Abstract!Write, Abstract!avars, TypeOK
<1>43. Stays("broken") => [Abstract!ANext]_Abstract!avars
  BY DEF Abstract!ANext, Abstract!Repair, Abstract!avars, TypeOK
<1>44. Outside => UNCHANGED Abstract!avars
  BY DEF Abstract!avars, Store
<1>45. Fails => Abstract!Fail
  BY DEF Abstract!Fail, Store
<1> HIDE DEF Stays, Fails, Outside, Status, Shape, store
<1>46. QED
  BY <1>2, <1>3, <1>4, <1>5, <1>6, <1>7, <1>8, <1>9, <1>10, <1>11, <1>12,
     <1>13, <1>14, <1>15, <1>16, <1>17, <1>18, <1>19, <1>20, <1>21, <1>22,
     <1>23, <1>24, <1>25, <1>26, <1>27, <1>28, <1>29, <1>30, <1>31, <1>32,
     <1>33, <1>34, <1>35, <1>36, <1>37, <1>38, <1>39, <1>40, <1>41, <1>42,
     <1>43, <1>44, <1>45
  DEF Next, WriteNext, ScopeNext, CloseNext, PlaybackNext, FailNext, Abstract!ANext

\* A transaction is atomic: Transaction implements AtomicStore
\* (ImplementsAtomicStore) under the mapping Committed, Store, Status.
THEOREM Refines ==
    ASSUME ~CrashReopening, "restore" \notin Faults
    PROVE  Spec => ImplementsAtomicStore
<1>1. Init => Abstract!AInit
  BY TypeInit DEF Init, TypeOK, Abstract!AInit, Committed, Status
<1>2. Undamaged
  BY DEF Undamaged
<1>3. /\ IInv /\ IInv' /\ CommittedIsBase /\ CommittedIsBase' /\ [Next]_vars
      => [Abstract!ANext]_Abstract!avars
  BY <1>2, StepImplements DEF IInv
<1>4. QED
  BY <1>1, <1>2, <1>3, Inductive, CommittedKnown, PTL
     DEF Spec, ImplementsAtomicStore, Abstract!ASpec
=============================================================================
