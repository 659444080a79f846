--------------------------- MODULE RepoLockProofs ---------------------------
(***************************************************************************)
(* Theorems about RepoLock.tla, for any number of processes and machines,  *)
(* any depth of '.break' locks, and without any bound on crashes, restarts *)
(* or tries.  Reading a lock and testing its process are two steps, so a   *)
(* lock may be unlinked under its holder.  What is proved is that this has *)
(* one cause (raced), and that below the level where it happened nothing   *)
(* else goes wrong: what is known of a level rests on the levels above it. *)
(***************************************************************************)
EXTENDS RepoLock, TLAPS

-----------------------------------------------------------------------------
(* The inductive invariant *)

\* A lock file names the process that holds the lock.
HolderIsNamed(l) == \A p \in Procs : Holds(p, l) => file[l] = p

\* Between the creation of a lock file and the writing of its content, the file
\* is empty and that of one process.
WriterIsAlone(l) ==
    \A p \in Procs :
        pc[p] = "write" /\ level[p] = l => file[l] = Empty /\ writer[l] = p

Guarded == \A l \in Levels : Sound(l) => HolderIsNamed(l) /\ WriterIsAlone(l)

\* The process that is about to be tested is alive, or the lock is still its.
TestsHolderOf(p) ==
    pc[p] = "retest" /\ Sound(level[p] - 1) /\ seen[p] \in Procs /\ Host[seen[p]] = Host[p]
        => alive[seen[p]] \/ file[level[p] - 1] = seen[p]

\* What a process is about to break names a process, and nobody holds it.
BreaksStaleOf(p) ==
    pc[p] = "unlink" /\ Sound(level[p] - 1) =>
        /\ seen[p] \in Procs
        /\ file[level[p] - 1] = seen[p]
        /\ \A q \in Procs : ~Holds(q, level[p] - 1)

TestsHolder == \A p \in Procs : TestsHolderOf(p)
BreaksStale == \A p \in Procs : BreaksStaleOf(p)

\* A lock is broken under another one, and the dead do nothing.
BreaksUnder == \A p \in Procs : pc[p] \in {"retest", "unlink"} => level[p] > 0
DeadAreIdle == \A p \in Procs : ~alive[p] => pc[p] = "idle"

TInv == TypeOK /\ BreaksUnder
Safe == Guarded /\ TestsHolder /\ BreaksStale /\ DeadAreIdle
IInv == TInv /\ Safe

-----------------------------------------------------------------------------
\* What giving up, forgetting and beginning an attempt leave of the types
LEMMA ForgetType ==
    ASSUME TypeOK, NEW p \in Procs, Forget(p)
    PROVE  /\ level' \in [Procs -> Levels] /\ retry' \in [Procs -> [Levels -> 0..Retries]]
           /\ seen' \in [Procs -> Contents] /\ delay' \in [Procs -> Nat]
<1>1. 0 \in Levels /\ 0 \in 0..Retries /\ NoFile \in Contents
  BY LockAssumption DEF Levels, Contents
<1>2. NoRetry \in [Levels -> 0..Retries]
  BY <1>1 DEF NoRetry
<1>3. level' \in [Procs -> Levels] /\ seen' \in [Procs -> Contents]
  BY <1>1 DEF TypeOK, Forget
<1>4. retry' \in [Procs -> [Levels -> 0..Retries]]
  BY <1>2 DEF TypeOK, Forget
<1>5. delay' \in [Procs -> Nat]
  BY DEF TypeOK, Forget
<1>6. QED
  BY <1>3, <1>4, <1>5

LEMMA GiveUpType ==
    ASSUME TypeOK, NEW p \in Procs, GiveUp(p)
    PROVE  /\ level' \in [Procs -> Levels] /\ retry' \in [Procs -> [Levels -> 0..Retries]]
           /\ seen' \in [Procs -> Contents] /\ pc' \in [Procs -> Stages]
<1>1. 0 \in Levels /\ 0 \in 0..Retries /\ NoFile \in Contents
  BY LockAssumption DEF Levels, Contents
<1>2. NoRetry \in [Levels -> 0..Retries]
  BY <1>1 DEF NoRetry
<1>3. level' \in [Procs -> Levels] /\ seen' \in [Procs -> Contents]
  BY <1>1 DEF TypeOK, GiveUp
<1>4. retry' \in [Procs -> [Levels -> 0..Retries]]
  BY <1>2 DEF TypeOK, GiveUp
<1>5. pc' \in [Procs -> Stages]
  BY DEF TypeOK, GiveUp, Goto, Stages
<1>6. QED
  BY <1>3, <1>4, <1>5

LEMMA AttemptType ==
    ASSUME TypeOK, NEW p \in Procs, NEW l \in Levels, Attempt(p, l)
    PROVE  /\ level' \in [Procs -> Levels] /\ retry' \in [Procs -> [Levels -> 0..Retries]]
           /\ pc' \in [Procs -> Stages]
<1>1. Retries \in 0..Retries
  BY LockAssumption
<1>2. retry[p] \in [Levels -> 0..Retries]
  BY DEF TypeOK
<1>3. [retry[p] EXCEPT ![l] = Retries] \in [Levels -> 0..Retries]
  BY <1>1, <1>2
<1>4. level' \in [Procs -> Levels]
  BY DEF TypeOK, Attempt
<1>5. retry' \in [Procs -> [Levels -> 0..Retries]]
  BY <1>3 DEF TypeOK, Attempt
<1>6. pc' \in [Procs -> Stages]
  BY DEF TypeOK, Attempt, Goto, Stages
<1>7. QED
  BY <1>4, <1>5, <1>6

\* The variables keep their types: a race happens at a level that a '.break' lock
\* guards.
THEOREM TypeInv == Spec => []TInv
<1>1. Init => TInv
  BY LockAssumption DEF Init, TInv, TypeOK, BreaksUnder, Levels, Contents, Stages
<1>2. TInv /\ [Next]_vars => TypeOK'
  <2> SUFFICES ASSUME TypeOK, BreaksUnder, [Next]_vars PROVE TypeOK'
    BY DEF TInv
  <2>a. /\ 0 \in Levels /\ NoFile \in Contents /\ Empty \in Contents
        /\ Procs \subseteq Contents
        /\ \A n \in Levels : n \in Nat /\ (n < MaxLevel => n + 1 \in Levels)
                            /\ (n > 0 => n - 1 \in Levels)
    BY LockAssumption DEF Levels, Contents
  <2>b. /\ file \in [Levels -> Contents] /\ writer \in [Levels -> Procs \cup {NoFile}]
        /\ alive \in [Procs -> BOOLEAN] /\ pc \in [Procs -> Stages]
        /\ level \in [Procs -> Levels] /\ retry \in [Procs -> [Levels -> 0..Retries]]
        /\ seen \in [Procs -> Contents] /\ depth \in [Procs -> Nat]
        /\ delay \in [Procs -> Nat] /\ crashes \in Nat /\ restarts \in Nat
        /\ raced \subseteq Levels
    BY DEF TypeOK
  <2> USE DEF Stages
  <2>1. ASSUME NEW p \in Procs, Acquire(p) PROVE TypeOK'
    <3>1. Attempt(p, 0) /\ UNCHANGED <<file, writer, alive, seen, depth, delay>>
          /\ UNCHANGED <<crashes, restarts, raced>>
      BY <2>1 DEF Acquire, counters
    <3>2. QED
      BY <2>a, <2>b, <3>1, AttemptType DEF TypeOK
  <2>2. ASSUME NEW p \in Procs, Reacquire(p) PROVE TypeOK'
    <3>1. depth' \in [Procs -> Nat]
      BY <2>2, <2>b DEF Reacquire
    <3>2. /\ UNCHANGED <<file, writer, alive, pc, level, retry, seen, delay>>
          /\ UNCHANGED <<crashes, restarts, raced>>
      BY <2>2 DEF Reacquire, counters
    <3>3. QED
      BY <2>b, <3>1, <3>2 DEF TypeOK
  <2>3. ASSUME NEW p \in Procs, MakeLock(p) PROVE TypeOK'
    <3> DEFINE l == level[p]
    <3>1. l \in Levels /\ retry[p] \in [Levels -> 0..Retries]
      BY <2>b
    <3>2. retry[p][l] \in 0..Retries /\ retry[p][l] > 0
      BY <2>3, <3>1 DEF MakeLock, TriesLeft
    <3>3. retry[p][l] - 1 \in 0..Retries
      BY <3>2, LockAssumption
    <3>4. [retry[p] EXCEPT ![l] = retry[p][l] - 1] \in [Levels -> 0..Retries]
      BY <3>1, <3>3
    <3>5. retry' = [retry EXCEPT ![p] = [retry[p] EXCEPT ![l] = retry[p][l] - 1]]
      BY <2>3 DEF MakeLock
    <3>6. retry' \in [Procs -> [Levels -> 0..Retries]]
      BY <2>b, <3>4, <3>5
    <3>7. file' = [file EXCEPT ![l] = p] \/ file' = [file EXCEPT ![l] = Empty]
          \/ file' = file
      BY <2>3 DEF MakeLock
    <3>8. file' \in [Levels -> Contents]
      BY <2>a, <2>b, <3>1, <3>7
    <3>9. writer' = [writer EXCEPT ![l] = p] \/ writer' = writer
      BY <2>3 DEF MakeLock
    <3>10. writer' \in [Levels -> Procs \cup {NoFile}]
      BY <2>b, <3>1, <3>9
    <3>11. \E s \in Stages : pc' = [pc EXCEPT ![p] = s]
      BY <2>3 DEF MakeLock, Held, Goto
    <3>12. pc' \in [Procs -> Stages]
      BY <2>b, <3>11
    <3>13. depth' = depth \/ depth' = [depth EXCEPT ![p] = 1]
               \/ depth' = [depth EXCEPT ![p] = depth[p]]
      BY <2>3 DEF MakeLock, Held
    <3>14. depth' \in [Procs -> Nat]
      <4>1. depth \in [Procs -> Nat] /\ depth[p] \in Nat /\ 1 \in Nat
        BY <2>b
      <4>2. QED
        BY <3>13, <4>1
    <3>15. UNCHANGED <<alive, level, seen, delay, crashes, restarts, raced>>
      BY <2>3 DEF MakeLock, counters
    <3>16. QED
      BY <2>b, <3>6, <3>8, <3>10, <3>12, <3>14, <3>15 DEF TypeOK
  <2>4. ASSUME NEW p \in Procs, CannotMake(p) PROVE TypeOK'
    <3>1. UNCHANGED <<file, writer, alive, depth, crashes, restarts, raced>>
      BY <2>4 DEF CannotMake, counters
    <3>2. CASE pc' = [pc EXCEPT ![p] = "idle"] /\ Forget(p)
      <4>1. pc' \in [Procs -> Stages]
        BY <2>b, <3>2
      <4>2. QED
        BY <2>b, <3>1, <3>2, <4>1, ForgetType DEF TypeOK
    <3>3. CASE GiveUp(p) /\ delay' = delay
      BY <2>b, <3>1, <3>3, GiveUpType DEF TypeOK
    <3>4. QED
      BY <2>4, <3>2, <3>3 DEF CannotMake, Goto
  <2>5. ASSUME NEW p \in Procs, WriteLock(p) PROVE TypeOK'
    <3>1. level[p] \in Levels
      BY <2>b
    <3>2. file' = [file EXCEPT ![level[p]] = p] \/ file' = [file EXCEPT ![level[p]] = @]
      BY <2>5 DEF WriteLock
    <3>3. file' \in [Levels -> Contents]
      BY <2>a, <2>b, <3>1, <3>2
    <3>4. depth' \in [Procs -> Nat] /\ pc' \in [Procs -> Stages]
      BY <2>5, <2>b DEF WriteLock, Held, Goto
    <3>5. UNCHANGED <<writer, alive, level, retry, seen, delay, crashes, restarts, raced>>
      BY <2>5 DEF WriteLock, counters
    <3>6. QED
      BY <2>b, <3>3, <3>4, <3>5 DEF TypeOK
  <2>6. ASSUME NEW p \in Procs, ReadLock(p) PROVE TypeOK'
    <3>1. seen' \in [Procs -> Contents]
      BY <2>6, <2>b DEF ReadLock
    <3>2. pc' \in [Procs -> Stages]
      BY <2>6, <2>b DEF ReadLock, Goto
    <3>3. /\ UNCHANGED <<file, writer, alive, level, retry, depth, delay>>
          /\ UNCHANGED <<crashes, restarts, raced>>
      BY <2>6 DEF ReadLock, counters
    <3>4. QED
      BY <2>b, <3>1, <3>2, <3>3 DEF TypeOK
  <2>7. ASSUME NEW p \in Procs, TestLock(p) PROVE TypeOK'
    <3>1. UNCHANGED <<file, writer, alive, depth, delay, crashes, restarts, raced>>
      BY <2>7 DEF TestLock, counters
    <3>2. CASE ShouldBreak(p, seen[p]) /\ level[p] < MaxLevel
      <4>1. level[p] + 1 \in Levels
        BY <2>a, <2>b, <3>2
      <4>2. Attempt(p, level[p] + 1) /\ seen' = seen
        BY <2>7, <3>2 DEF TestLock
      <4>3. QED
        BY <2>b, <3>1, <4>1, <4>2, AttemptType DEF TypeOK
    <3>3. CASE ~(ShouldBreak(p, seen[p]) /\ level[p] < MaxLevel)
      <4>1. GiveUp(p)
        BY <2>7, <3>3 DEF TestLock
      <4>2. QED
        BY <2>b, <3>1, <4>1, GiveUpType DEF TypeOK
    <3>4. QED
      BY <3>2, <3>3
  <2>8. ASSUME NEW p \in Procs, GiveUpRetrying(p) PROVE TypeOK'
    <3>1. GiveUp(p) /\ UNCHANGED <<file, writer, alive, depth, delay>>
          /\ UNCHANGED <<crashes, restarts, raced>>
      BY <2>8 DEF GiveUpRetrying, counters
    <3>2. QED
      BY <2>b, <3>1, GiveUpType DEF TypeOK
  <2>9. ASSUME NEW p \in Procs, Wait(p) PROVE TypeOK'
    <3>1. delay' \in [Procs -> Nat]
      BY <2>9, <2>b DEF Wait
    <3>2. seen' \in [Procs -> Contents]
      BY <2>9, <2>a, <2>b DEF Wait
    <3>3. Attempt(p, 0) /\ UNCHANGED <<file, writer, alive, depth, crashes, restarts, raced>>
      BY <2>9 DEF Wait, counters
    <3>4. QED
      BY <2>a, <2>b, <3>1, <3>2, <3>3, AttemptType DEF TypeOK
  <2>10. ASSUME NEW p \in Procs, TimeOut(p) PROVE TypeOK'
    <3>1. Forget(p) /\ UNCHANGED <<file, writer, alive, depth, crashes, restarts, raced>>
      BY <2>10 DEF TimeOut, counters
    <3>2. pc' \in [Procs -> Stages]
      BY <2>10, <2>b DEF TimeOut, Goto
    <3>3. QED
      BY <2>b, <3>1, <3>2, ForgetType DEF TypeOK
  <2>11. ASSUME NEW p \in Procs, Reread(p) PROVE TypeOK'
    <3>1. level[p] - 1 \in Levels
      BY <2>11, <2>a, <2>b DEF Reread
    <3>2. seen' \in [Procs -> Contents]
      BY <2>11, <2>b, <3>1 DEF Reread
    <3>3. pc' \in [Procs -> Stages]
      BY <2>11, <2>b DEF Reread, Goto
    <3>4. /\ UNCHANGED <<file, writer, alive, level, retry, depth, delay>>
          /\ UNCHANGED <<crashes, restarts, raced>>
      BY <2>11 DEF Reread, counters
    <3>5. QED
      BY <2>b, <3>2, <3>3, <3>4 DEF TypeOK
  <2>12. ASSUME NEW p \in Procs, Retest(p) \/ UnlinkNothing(p) PROVE TypeOK'
    <3>1. pc' \in [Procs -> Stages]
      BY <2>12, <2>b DEF Retest, UnlinkNothing, Goto
    <3>2. /\ UNCHANGED <<file, writer, alive, level, retry, seen, depth, delay>>
          /\ UNCHANGED <<crashes, restarts, raced>>
      BY <2>12 DEF Retest, UnlinkNothing, locals, counters
    <3>3. QED
      BY <2>b, <3>1, <3>2 DEF TypeOK
  <2>13. ASSUME NEW p \in Procs, UnlinkStale(p) PROVE TypeOK'
    <3>1. file' \in [Levels -> Contents] /\ seen' \in [Procs -> Contents]
      BY <2>13, <2>a, <2>b DEF UnlinkStale
    <3>2. pc' \in [Procs -> Stages]
      BY <2>13, <2>b DEF UnlinkStale, Goto
    <3>3. UNCHANGED <<writer, alive, level, retry, depth, delay, crashes, restarts, raced>>
      BY <2>13 DEF UnlinkStale, counters
    <3>4. QED
      BY <2>b, <3>1, <3>2, <3>3 DEF TypeOK
  <2>14. ASSUME NEW p \in Procs, ReleaseNested(p) \/ Release(p) PROVE TypeOK'
    <3>1. depth[p] \in Nat
      BY <2>b
    <3>2. depth' \in [Procs -> Nat]
      BY <2>14, <2>b, <3>1 DEF ReleaseNested, Release
    <3>3. pc' \in [Procs -> Stages]
      BY <2>14, <2>b DEF ReleaseNested, Release, Goto
    <3>4. /\ UNCHANGED <<file, writer, alive, level, retry, seen, delay>>
          /\ UNCHANGED <<crashes, restarts, raced>>
      BY <2>14 DEF ReleaseNested, Release, counters
    <3>5. QED
      BY <2>b, <3>2, <3>3, <3>4 DEF TypeOK
  <2>15. ASSUME NEW p \in Procs, Unlink(p) PROVE TypeOK'
    <3>1. file' \in [Levels -> Contents]
      BY <2>15, <2>a, <2>b DEF Unlink
    <3>2. UNCHANGED <<writer, alive, depth, crashes, restarts, raced>>
      BY <2>15 DEF Unlink, counters
    <3>3. CASE level[p] = 0 \/ pc[p] = "fail"
      <4>1. pc' = [pc EXCEPT ![p] = "idle"] /\ Forget(p)
        BY <2>15, <3>3 DEF Unlink, Goto
      <4>2. pc' \in [Procs -> Stages]
        BY <2>b, <4>1
      <4>3. QED
        BY <2>b, <3>1, <3>2, <4>1, <4>2, ForgetType DEF TypeOK
    <3>4. CASE level[p] # 0 /\ pc[p] # "fail" /\ seen[p] = NoFile
      <4>1. level[p] - 1 \in Levels /\ level[p] \in Levels
        BY <2>a, <2>b, <3>4
      <4>2. 0 \in 0..Retries /\ retry[p] \in [Levels -> 0..Retries]
        BY <2>b, LockAssumption
      <4>3. [retry[p] EXCEPT ![level[p]] = 0] \in [Levels -> 0..Retries]
        BY <4>1, <4>2
      <4>4. /\ level' = [level EXCEPT ![p] = level[p] - 1]
            /\ retry' = [retry EXCEPT ![p] = [retry[p] EXCEPT ![level[p]] = 0]]
            /\ pc' = [pc EXCEPT ![p] = "make"]
            /\ UNCHANGED <<seen, delay>>
        BY <2>15, <3>4 DEF Unlink, Goto
      <4>5. level' \in [Procs -> Levels] /\ pc' \in [Procs -> Stages]
        BY <2>b, <4>1, <4>4
      <4>6. retry' \in [Procs -> [Levels -> 0..Retries]]
        BY <2>b, <4>3, <4>4
      <4>7. QED
        BY <2>b, <3>1, <3>2, <4>4, <4>5, <4>6 DEF TypeOK
    <3>5. CASE level[p] # 0 /\ pc[p] # "fail" /\ seen[p] # NoFile
      <4>1. GiveUp(p) /\ delay' = delay
        BY <2>15, <3>5 DEF Unlink
      <4>2. QED
        BY <2>b, <3>1, <3>2, <4>1, GiveUpType DEF TypeOK
    <3>6. QED
      BY <3>3, <3>4, <3>5
  <2>16. ASSUME NEW p \in Procs, Exit(p) \/ Crash(p) PROVE TypeOK'
    <3>1. \A q \in Procs : pc[q] = "retest" => level[q] - 1 \in Levels
      BY <2>a, <2>b DEF BreaksUnder
    <3>2. GivenBack(p) \subseteq Levels
      BY <3>1 DEF GivenBack
    <3>3. raced' = raced \cup GivenBack(p) /\ UNCHANGED <<file, writer>> /\ Forget(p)
      BY <2>16 DEF Exit, Crash, Gone
    <3>4. raced' \subseteq Levels
      BY <2>b, <3>2, <3>3
    <3>5. crashes' \in Nat /\ restarts' \in Nat
      BY <2>16, <2>b DEF Exit, Crash
    <3>6. alive' \in [Procs -> BOOLEAN] /\ pc' \in [Procs -> Stages]
      BY <2>16, <2>b DEF Exit, Crash, Gone, Goto
    <3>7. depth' \in [Procs -> Nat]
      BY <2>16, <2>b DEF Exit, Crash, Gone
    <3>8. QED
      BY <2>b, <3>3, <3>4, <3>5, <3>6, <3>7, ForgetType DEF TypeOK
  <2>17. ASSUME NEW p \in Procs, Restart(p) PROVE TypeOK'
    <3>1. restarts' \in Nat /\ alive' \in [Procs -> BOOLEAN]
      BY <2>17, <2>b DEF Restart
    <3>2. UNCHANGED <<file, writer, pc, level, retry, seen, depth, delay, crashes, raced>>
      BY <2>17 DEF Restart, locals
    <3>3. QED
      BY <2>b, <3>1, <3>2 DEF TypeOK
  <2>18. CASE UNCHANGED vars
    BY <2>b, <2>18 DEF vars, TypeOK
  <2>19. ASSUME NEW p \in Procs, Try(p) PROVE TypeOK'
    BY <2>19, <2>3, <2>4, <2>5, <2>6, <2>7, <2>8, <2>9, <2>10, <2>11, <2>12, <2>13, <2>15
       DEF Try
  <2>20. QED
    BY <2>1, <2>2, <2>14, <2>16, <2>17, <2>18, <2>19 DEF Next, AllGone
<1>3. TInv /\ [Next]_vars => BreaksUnder'
  <2> SUFFICES ASSUME TypeOK, BreaksUnder, [Next]_vars,
                      NEW q \in Procs, pc'[q] \in {"retest", "unlink"}
               PROVE  level'[q] > 0
    BY DEF TInv, BreaksUnder
  <2> USE DEF TypeOK, Goto
  <2>1. ASSUME NEW p \in Procs, Reread(p) \/ Retest(p) PROVE level'[q] > 0
    BY <2>1 DEF BreaksUnder, Reread, Retest, locals
  <2>2. ASSUME NEW p \in Procs, p # q, pc'[q] = pc[q], level'[q] = level[q]
        PROVE  level'[q] > 0
    BY <2>2 DEF BreaksUnder
  <2>a. ASSUME NEW p \in Procs,
               \E s \in {"idle", "make", "held"} : pc' = [pc EXCEPT ![p] = s],
               \E n : level' = [level EXCEPT ![p] = n]
        PROVE  level'[q] > 0
    <3>1. p # q
      BY <2>a
    <3>2. pc'[q] = pc[q] /\ level'[q] = level[q]
      BY <2>a, <3>1
    <3>3. QED
      BY <2>2, <3>1, <3>2
  <2>3. ASSUME NEW p \in Procs, Acquire(p) \/ Reacquire(p) PROVE level'[q] > 0
    BY <2>2, <2>3 DEF Acquire, Reacquire, Attempt, BreaksUnder
  <2>4. ASSUME NEW p \in Procs, MakeLock(p) \/ CannotMake(p) PROVE level'[q] > 0
    <3>1. CASE MakeLock(p)
      BY <2>2, <3>1 DEF MakeLock, Held
    <3>2. CASE CannotMake(p)
      <4>1. \E s \in {"idle", "make", "held"} : pc' = [pc EXCEPT ![p] = s]
        BY <3>2 DEF CannotMake, GiveUp
      <4>2. \E n : level' = [level EXCEPT ![p] = n]
        BY <3>2 DEF CannotMake, Forget, GiveUp
      <4>3. QED
        BY <2>a, <4>1, <4>2
    <3>3. QED
      BY <2>4, <3>1, <3>2
  <2>5. ASSUME NEW p \in Procs, WriteLock(p) \/ ReadLock(p) PROVE level'[q] > 0
    BY <2>2, <2>5 DEF WriteLock, ReadLock, Held
  <2>6. ASSUME NEW p \in Procs, TestLock(p) \/ GiveUpRetrying(p) PROVE level'[q] > 0
    <3>1. \E s \in {"idle", "make", "held"} : pc' = [pc EXCEPT ![p] = s]
      BY <2>6 DEF TestLock, GiveUpRetrying, GiveUp, Attempt
    <3>2. \E n : level' = [level EXCEPT ![p] = n]
      BY <2>6 DEF TestLock, GiveUpRetrying, GiveUp, Attempt
    <3>3. QED
      BY <2>a, <3>1, <3>2
  <2>7. ASSUME NEW p \in Procs, Wait(p) \/ TimeOut(p) PROVE level'[q] > 0
    BY <2>2, <2>7 DEF Wait, TimeOut, Attempt, Forget
  <2>8. ASSUME NEW p \in Procs, UnlinkStale(p) \/ UnlinkNothing(p) PROVE level'[q] > 0
    BY <2>2, <2>8 DEF UnlinkStale, UnlinkNothing, locals
  <2>9. ASSUME NEW p \in Procs, ReleaseNested(p) \/ Release(p) PROVE level'[q] > 0
    BY <2>2, <2>9 DEF ReleaseNested, Release, BreaksUnder
  <2>10. ASSUME NEW p \in Procs, Unlink(p) PROVE level'[q] > 0
    <3>1. \E s \in {"idle", "make", "held"} : pc' = [pc EXCEPT ![p] = s]
      BY <2>10 DEF Unlink, GiveUp
    <3>2. \E n : level' = [level EXCEPT ![p] = n]
      BY <2>10 DEF Unlink, Forget, GiveUp
    <3>3. QED
      BY <2>a, <3>1, <3>2
  <2>11. ASSUME NEW p \in Procs, Exit(p) \/ Crash(p) PROVE level'[q] > 0
    <3>1. pc' = [pc EXCEPT ![p] = "idle"]
      BY <2>11 DEF Exit, Crash, Gone
    <3>2. \E n : level' = [level EXCEPT ![p] = n]
      BY <2>11 DEF Exit, Crash, Gone, Forget
    <3>3. QED
      BY <2>a, <3>1, <3>2
  <2>12. ASSUME NEW p \in Procs, Restart(p) PROVE level'[q] > 0
    BY <2>12 DEF Restart, locals, BreaksUnder
  <2>13. CASE UNCHANGED vars
    BY <2>13 DEF vars, BreaksUnder
  <2>14. QED
    BY <2>1, <2>3, <2>4, <2>5, <2>6, <2>7, <2>8, <2>9, <2>10, <2>11, <2>12, <2>13
       DEF Next, Try, AllGone
<1>4. QED
  BY <1>1, <1>2, <1>3, PTL DEF Spec, TInv

\* The variables keep their types.
THEOREM TypeCorrect == Spec => []TypeOK
BY TypeInv, PTL DEF TInv

-----------------------------------------------------------------------------
(* Facts about levels *)

\* Nothing but the control state of p changes.
OnlyOf(p) ==
    \A q \in Procs : q # p => /\ pc'[q] = pc[q]
                              /\ level'[q] = level[q]
                              /\ seen'[q] = seen[q]

\* The other processes hold what they held.
LEMMA OthersHold ==
    ASSUME NEW p \in Procs, OnlyOf(p)
    PROVE  \A q \in Procs : \A l \in Levels :
               q # p => (Holds(q, l)' <=> Holds(q, l))
BY DEF OnlyOf, Holds

\* A race is never forgotten.
LEMMA SoundBefore ==
    ASSUME raced \subseteq raced'
    PROVE  \A l : Sound(l)' => Sound(l)
BY DEF Sound

\* The lock that is tested or broken is at a level, and what guards it is sound
\* when it is itself.
LEMMA BrokenLevel ==
    ASSUME TInv, NEW p \in Procs, pc[p] \in {"retest", "unlink"}
    PROVE  /\ level[p] - 1 \in Levels /\ level[p] \in Levels
           /\ level[p] - 1 # level[p]
           /\ Sound(level[p] - 1) => Sound(level[p])
<1>1. level[p] > 0
  BY DEF TInv, BreaksUnder
<1>2. level[p] \in Levels /\ raced \subseteq Levels
  BY DEF TInv, TypeOK
<1>3. /\ level[p] - 1 \in Levels /\ level[p] - 1 # level[p]
      /\ level[p] \in Int /\ \A m \in Levels : m \in Int
  BY <1>1, <1>2, LockAssumption DEF Levels
<1>4. ASSUME Sound(level[p] - 1), NEW m \in raced PROVE m < level[p]
  <2>1. m < level[p] - 1
    BY <1>4 DEF Sound
  <2>2. m \in Int
    BY <1>2, <1>3
  <2>3. QED
    BY <1>3, <2>1, <2>2
<1>5. QED
  BY <1>2, <1>3, <1>4 DEF Sound

\* What is not broken by anybody below stays guarded, when no lock file changes
\* and nobody takes a lock.
LEMMA StillGuarded ==
    ASSUME Guarded, raced \subseteq raced', UNCHANGED <<file, writer>>,
           \A q \in Procs : \A l \in Levels : Holds(q, l)' => Holds(q, l),
           \A q \in Procs : pc'[q] = "write" => pc[q] = "write" /\ level'[q] = level[q]
    PROVE  Guarded'
<1> SUFFICES ASSUME NEW l \in Levels, Sound(l)'
             PROVE  HolderIsNamed(l)' /\ WriterIsAlone(l)'
  BY DEF Guarded
<1>1. HolderIsNamed(l) /\ WriterIsAlone(l)
  BY SoundBefore DEF Guarded
<1>2. QED
  BY <1>1 DEF HolderIsNamed, WriterIsAlone

-----------------------------------------------------------------------------
(* Steps that leave the lock files alone *)

\* A step of p that takes no lock and leaves the files and the living alone is
\* safe, when p itself tests or breaks what it may.
LEMMA QuietStep ==
    ASSUME IInv, NEW p \in Procs, OnlyOf(p),
           UNCHANGED <<file, writer, alive, raced>>,
           alive[p] \/ pc'[p] = "idle", pc'[p] # "write",
           \A l \in Levels : Holds(p, l)' => Holds(p, l),
           TestsHolderOf(p)', BreaksStaleOf(p)'
    PROVE  Safe'
<1> USE DEF IInv, Safe
<1>1. \A q \in Procs : \A l \in Levels : Holds(q, l)' => Holds(q, l)
  BY DEF OnlyOf, Holds
<1>2. Guarded'
  BY <1>1, StillGuarded DEF OnlyOf
<1>3. ASSUME NEW q \in Procs, q # p PROVE TestsHolderOf(q)' /\ BreaksStaleOf(q)'
  <2>1. /\ pc'[q] = pc[q] /\ level'[q] = level[q] /\ seen'[q] = seen[q]
        /\ TestsHolderOf(q) /\ BreaksStaleOf(q)
    BY <1>3 DEF OnlyOf, TestsHolder, BreaksStale
  <2>2. TestsHolderOf(q)'
    BY <2>1 DEF TestsHolderOf, Sound
  <2>3. BreaksStaleOf(q)'
    <3> SUFFICES ASSUME pc[q] = "unlink", Sound(level[q] - 1) PROVE BreaksStaleOf(q)'
      BY <2>1 DEF BreaksStaleOf, Sound
    <3>1. level[q] - 1 \in Levels
      BY BrokenLevel
    <3>2. \A r \in Procs : ~Holds(r, level[q] - 1)'
      BY <1>1, <2>1, <3>1 DEF BreaksStaleOf
    <3>3. QED
      BY <2>1, <3>2 DEF BreaksStaleOf, Holds
  <2>4. QED
    BY <2>2, <2>3
<1>4. TestsHolder' /\ BreaksStale'
  BY <1>3 DEF TestsHolder, BreaksStale
<1>5. DeadAreIdle'
  BY DEF DeadAreIdle, OnlyOf
<1>6. QED
  BY <1>2, <1>4, <1>5

\* A process that ends: a test under way of the lock it gave back is a race.
LEMMA GoneStep ==
    ASSUME IInv, NEW p \in Procs, OnlyOf(p),
           UNCHANGED <<file, writer>>, alive' = [alive EXCEPT ![p] = FALSE],
           raced' = raced \cup GivenBack(p), pc'[p] = "idle"
    PROVE  Safe'
<1> USE DEF IInv, Safe
<1>1. \A q \in Procs : \A l \in Levels : Holds(q, l)' => Holds(q, l)
  BY OthersHold DEF Holds
<1>2. Guarded'
  BY <1>1, StillGuarded DEF OnlyOf
<1>3. alive \in [Procs -> BOOLEAN]
  BY DEF TInv, TypeOK
<1>4. TestsHolder'
  <2> SUFFICES ASSUME NEW q \in Procs, (pc[q] = "retest")', Sound(level[q] - 1)',
                      seen'[q] \in Procs, Host[seen'[q]] = Host[q]
               PROVE  alive'[seen'[q]] \/ file'[level'[q] - 1] = seen'[q]
    BY DEF TestsHolder, TestsHolderOf
  <2>1. /\ pc[q] = "retest" /\ level'[q] = level[q] /\ seen'[q] = seen[q]
        /\ TestsHolderOf(q)
    BY DEF OnlyOf, TestsHolder
  <2>2. level[q] - 1 \in Levels
    BY <2>1, BrokenLevel
  <2>3. alive[seen[q]] \/ file[level[q] - 1] = seen[q]
    BY <2>1, SoundBefore DEF TestsHolderOf, Sound
  <2>4. CASE seen[q] # p
    BY <1>3, <2>1, <2>3, <2>4
  <2>5. CASE seen[q] = p /\ file[level[q] - 1] # p
    <3>1. level[q] - 1 \in raced'
      BY <2>1, <2>5 DEF GivenBack
    <3>2. level[q] - 1 < level[q] - 1
      BY <2>1, <3>1 DEF Sound
    <3>3. QED
      BY <2>2, <3>2, LockAssumption DEF Levels
  <2>6. QED
    BY <2>1, <2>4, <2>5
<1>5. BreaksStale'
  <2> SUFFICES ASSUME NEW q \in Procs, (pc[q] = "unlink")', Sound(level[q] - 1)'
               PROVE  BreaksStaleOf(q)'
    BY DEF BreaksStale, BreaksStaleOf
  <2>1. /\ pc[q] = "unlink" /\ level'[q] = level[q] /\ seen'[q] = seen[q]
        /\ BreaksStaleOf(q)
    BY DEF OnlyOf, BreaksStale
  <2>2. level[q] - 1 \in Levels /\ Sound(level[q] - 1)
    BY <2>1, BrokenLevel DEF Sound
  <2>3. \A r \in Procs : ~Holds(r, level[q] - 1)'
    BY <1>1, <2>1, <2>2 DEF BreaksStaleOf
  <2>4. QED
    BY <2>1, <2>2, <2>3 DEF BreaksStaleOf, Holds
<1>6. DeadAreIdle'
  BY <1>3 DEF DeadAreIdle, OnlyOf
<1>7. QED
  BY <1>2, <1>4, <1>5, <1>6

\* A number that is used again tests as alive.
LEMMA RestartStep ==
    ASSUME IInv, NEW p \in Procs, ~alive[p],
           UNCHANGED <<file, writer, pc, level, seen, raced>>,
           alive' = [alive EXCEPT ![p] = TRUE]
    PROVE  Safe'
<1> USE DEF IInv, Safe
<1>1. alive \in [Procs -> BOOLEAN]
  BY DEF TInv, TypeOK
<1>2. Guarded'
  BY DEF Guarded, Sound, HolderIsNamed, WriterIsAlone, Holds
<1>3. TestsHolder'
  BY <1>1 DEF TestsHolder, TestsHolderOf, Sound
<1>4. BreaksStale'
  BY DEF BreaksStale, BreaksStaleOf, Sound, Holds
<1>5. DeadAreIdle'
  BY <1>1 DEF DeadAreIdle
<1>6. QED
  BY <1>2, <1>3, <1>4, <1>5

-----------------------------------------------------------------------------
(* Steps that create or remove a lock file *)

\* A process that creates the lock file, with its content or without it.
LEMMA CreateStep ==
    ASSUME IInv, NEW p \in Procs, NEW l \in Levels, OnlyOf(p),
           alive' = alive, raced' = raced, alive[p], level[p] = l, level'[p] = l,
           \A m \in Levels : m # l => file'[m] = file[m] /\ writer'[m] = writer[m],
           Sound(l) => /\ \/ pc'[p] = "hold" /\ file'[l] = p
                          \/ pc'[p] = "write" /\ file'[l] = Empty /\ writer'[l] = p
                       /\ \/ file[l] = NoFile
                          \/ file[l] = Empty /\ pc[p] = "write",
           pc'[p] \in {"hold", "write"}
    PROVE  Safe'
<1> USE LockAssumption DEF IInv, Safe
<1>1. ASSUME Sound(l) PROVE /\ \A q \in Procs : ~Holds(q, l)
                            /\ \A q \in Procs : q # p => ~(pc[q] = "write" /\ level[q] = l)
                            /\ file[l] \notin Procs
  BY <1>1 DEF Guarded, HolderIsNamed, WriterIsAlone
<1>2. \A q \in Procs : \A m \in Levels : Holds(q, m)' => Holds(q, m) \/ (q = p /\ m = l)
  BY OthersHold DEF Holds
<1>3. Guarded'
  <2> SUFFICES ASSUME NEW m \in Levels, Sound(m)
               PROVE  HolderIsNamed(m)' /\ WriterIsAlone(m)'
    BY DEF Guarded, Sound
  <2>1. HolderIsNamed(m) /\ WriterIsAlone(m)
    BY DEF Guarded
  <2>2. CASE m # l
    <3>1. HolderIsNamed(m)'
      BY <1>2, <2>1, <2>2 DEF HolderIsNamed
    <3>2. WriterIsAlone(m)'
      BY <2>1, <2>2 DEF WriterIsAlone, OnlyOf
    <3>3. QED
      BY <3>1, <3>2
  <2>3. CASE m = l
    <3>1. \A q \in Procs : Holds(q, l)' => q = p
      BY <1>1, <1>2, <2>3
    <3>2. \A q \in Procs : (pc[q] = "write" /\ level[q] = l)' => q = p
      BY <1>1, <2>3 DEF OnlyOf
    <3>3. HolderIsNamed(l)'
      BY <2>3, <3>1 DEF HolderIsNamed, Holds
    <3>4. WriterIsAlone(l)'
      BY <2>3, <3>2 DEF WriterIsAlone
    <3>5. QED
      BY <2>3, <3>3, <3>4
  <2>4. QED
    BY <2>2, <2>3
<1>4. ASSUME NEW q \in Procs PROVE TestsHolderOf(q)' /\ BreaksStaleOf(q)'
  <2> DEFINE m == level[q] - 1
  <2> SUFFICES ASSUME pc'[q] \in {"retest", "unlink"}, Sound(m)
               PROVE  TestsHolderOf(q)' /\ BreaksStaleOf(q)'
    BY DEF TestsHolderOf, BreaksStaleOf, Sound, OnlyOf
  <2>1. /\ q # p /\ pc'[q] = pc[q] /\ level'[q] = level[q] /\ seen'[q] = seen[q]
        /\ TestsHolderOf(q) /\ BreaksStaleOf(q)
    BY DEF OnlyOf, TestsHolder, BreaksStale
  <2>2. m \in Levels
    BY <2>1, BrokenLevel
  <2>3. file[m] \in Procs => m # l
    BY <1>1
  <2>4. TestsHolderOf(q)'
    BY <2>1, <2>2, <2>3 DEF TestsHolderOf
  <2>5. BreaksStaleOf(q)'
    <3> SUFFICES ASSUME pc[q] = "unlink" PROVE BreaksStaleOf(q)'
      BY <2>1 DEF BreaksStaleOf
    <3>1. m # l
      BY <2>1, <2>3 DEF BreaksStaleOf
    <3>2. \A r \in Procs : ~Holds(r, m)'
      BY <1>2, <2>1, <2>2, <3>1 DEF BreaksStaleOf
    <3>3. QED
      BY <2>1, <2>2, <3>1, <3>2 DEF BreaksStaleOf, Holds
  <2>6. QED
    BY <2>4, <2>5
<1>5. TestsHolder' /\ BreaksStale'
  BY <1>4 DEF TestsHolder, BreaksStale
<1>6. DeadAreIdle'
  BY DEF DeadAreIdle, OnlyOf
<1>7. QED
  BY <1>3, <1>5, <1>6

\* A process that removes a lock file, of a lock it held and holds no more, or
\* of a lock it breaks.
LEMMA RemoveStep ==
    ASSUME IInv, NEW p \in Procs, NEW l \in Levels, OnlyOf(p),
           UNCHANGED <<writer, alive, raced>>, file' = [file EXCEPT ![l] = NoFile],
           alive[p], pc'[p] \in {"idle", "make", "held", "release"},
           \/ Holds(p, l) /\ \A m \in Levels : ~Holds(p, m)'
           \/ /\ pc[p] = "unlink" /\ level[p] - 1 = l
              /\ level'[p] = level[p]
    PROVE  Safe'
<1> USE LockAssumption DEF IInv, Safe
<1>0. file \in [Levels -> Contents]
  BY DEF TInv, TypeOK
<1>1. ASSUME Sound(l)
      PROVE  file[l] \in Procs /\ \A q \in Procs : q # p => ~Holds(q, l)
  <2>1. CASE Holds(p, l)
    BY <1>1, <2>1 DEF Guarded, HolderIsNamed
  <2>2. CASE pc[p] = "unlink" /\ level[p] - 1 = l
    BY <1>1, <2>2 DEF BreaksStale, BreaksStaleOf
  <2>3. QED
    BY <2>1, <2>2
<1>2. \A m \in Levels : Holds(p, m)' => Holds(p, m) /\ m # l
  BY BrokenLevel DEF Holds
<1>3. \A q \in Procs : \A m \in Levels : Holds(q, m)' => Holds(q, m)
  BY <1>2, OthersHold
<1>4. Guarded'
  <2> SUFFICES ASSUME NEW m \in Levels, Sound(m)
               PROVE  HolderIsNamed(m)' /\ WriterIsAlone(m)'
    BY DEF Guarded, Sound
  <2>1. HolderIsNamed(m) /\ WriterIsAlone(m)
    BY DEF Guarded
  <2>2. \A q \in Procs : pc'[q] = "write" => pc[q] = "write" /\ level'[q] = level[q]
    BY DEF OnlyOf
  <2>3. CASE m # l
    BY <1>0, <1>3, <2>1, <2>2, <2>3 DEF HolderIsNamed, WriterIsAlone
  <2>4. CASE m = l
    <3>1. \A q \in Procs : ~Holds(q, l)'
      BY <1>1, <1>2, <1>3, <2>4
    <3>2. \A q \in Procs : ~(pc[q] = "write" /\ level[q] = l)'
      BY <1>1, <2>1, <2>2, <2>4 DEF WriterIsAlone
    <3>3. QED
      BY <2>4, <3>1, <3>2 DEF HolderIsNamed, WriterIsAlone
  <2>5. QED
    BY <2>3, <2>4
<1>5. ASSUME NEW q \in Procs PROVE TestsHolderOf(q)' /\ BreaksStaleOf(q)'
  <2> DEFINE m == level[q] - 1
  <2> SUFFICES ASSUME pc'[q] \in {"retest", "unlink"}, Sound(m)
               PROVE  TestsHolderOf(q)' /\ BreaksStaleOf(q)'
    BY DEF TestsHolderOf, BreaksStaleOf, Sound, OnlyOf
  <2>1. /\ q # p /\ pc'[q] = pc[q] /\ level'[q] = level[q] /\ seen'[q] = seen[q]
        /\ TestsHolderOf(q) /\ BreaksStaleOf(q)
    BY DEF OnlyOf, TestsHolder, BreaksStale
  <2>2. /\ m \in Levels /\ level[q] \in Levels /\ Sound(level[q])
        /\ Holds(q, level[q])
    BY <2>1, BrokenLevel DEF Holds
  <2>3. CASE m = l /\ Holds(p, l)
    <3>1. file[l] = p
      BY <2>3 DEF Guarded, HolderIsNamed
    <3>2. TestsHolderOf(q)'
      BY <2>1, <2>3, <3>1 DEF TestsHolderOf
    <3>3. pc[q] # "unlink"
      BY <2>1, <2>3 DEF BreaksStaleOf
    <3>4. QED
      BY <2>1, <3>2, <3>3 DEF BreaksStaleOf
  <2>4. CASE m = l /\ pc[p] = "unlink" /\ level[p] - 1 = l
    <3>1. level[p] = level[q]
      <4>1. level[p] \in Int /\ level[q] \in Int
        BY <2>2, <2>4, BrokenLevel DEF Levels
      <4>2. QED
        BY <2>4, <4>1
    <3>2. Holds(p, level[q])
      BY <2>4, <3>1 DEF Holds
    <3>3. QED
      BY <2>1, <2>2, <3>2 DEF Guarded, HolderIsNamed
  <2>5. CASE m # l
    <3>1. file'[m] = file[m]
      BY <1>0, <2>2, <2>5
    <3>2. TestsHolderOf(q)'
      BY <2>1, <3>1 DEF TestsHolderOf
    <3>3. BreaksStaleOf(q)'
      BY <1>3, <2>1, <2>2, <3>1 DEF BreaksStaleOf, Holds
    <3>4. QED
      BY <3>2, <3>3
  <2>6. QED
    BY <2>3, <2>4, <2>5
<1>6. TestsHolder' /\ BreaksStale'
  BY <1>5 DEF TestsHolder, BreaksStale
<1>7. DeadAreIdle'
  BY DEF DeadAreIdle, OnlyOf
<1>8. QED
  BY <1>4, <1>6, <1>7

-----------------------------------------------------------------------------
\* What the safety of the lock rests on, level by level: a lock file names its
\* holder, and whoever removes a lock that is not its own found it stale and
\* alone may do so (_testlock, under the '.break' lock).
THEOREM Inductive == Spec => []IInv
<1> USE LockAssumption
<1>1. Init => Safe
  BY DEF Init, Safe, Guarded, HolderIsNamed, WriterIsAlone, TestsHolder,
         TestsHolderOf, BreaksStale, BreaksStaleOf, DeadAreIdle, Holds
<1>2. IInv /\ [Next]_vars => Safe'
  <2> SUFFICES ASSUME IInv, [Next]_vars PROVE Safe'
    OBVIOUS
  <2>0. ASSUME NEW p \in Procs, pc[p] # "idle" PROVE alive[p]
    BY <2>0 DEF IInv, Safe, DeadAreIdle
  <2>a. /\ pc \in [Procs -> Stages]
        /\ level \in [Procs -> Levels] /\ seen \in [Procs -> Contents]
        /\ file \in [Levels -> Contents] /\ writer \in [Levels -> Procs \cup {NoFile}]
    BY DEF IInv, TInv, TypeOK
  <2>b. ASSUME NEW p \in Procs, OnlyOf(p), UNCHANGED <<file, writer, alive, raced>>,
               alive[p] \/ pc'[p] = "idle",
               pc'[p] \notin {"write", "unlink", "retest"},
               \A l \in Levels : Holds(p, l)' => Holds(p, l)
        PROVE  Safe'
    BY <2>b, QuietStep DEF TestsHolderOf, BreaksStaleOf
  <2> USE DEF Goto, locals, counters
  <2>1. ASSUME NEW p \in Procs, Acquire(p) PROVE Safe'
    <3>1. OnlyOf(p) /\ UNCHANGED <<file, writer, alive, raced>> /\ alive[p]
      BY <2>a, <2>1 DEF Acquire, Attempt, OnlyOf
    <3>2. pc'[p] = "make"
      BY <2>a, <2>1 DEF Acquire, Attempt
    <3>3. QED
      BY <2>b, <3>1, <3>2 DEF Holds
  <2>2. ASSUME NEW p \in Procs, Reacquire(p) \/ ReleaseNested(p) \/ Release(p)
        PROVE  Safe'
    <3>1. OnlyOf(p) /\ UNCHANGED <<file, writer, alive, level, raced>> /\ alive[p]
      BY <2>0, <2>a, <2>2 DEF Reacquire, ReleaseNested, Release, OnlyOf
    <3>2. pc[p] = "hold" /\ pc'[p] \in {"hold", "release"}
      BY <2>a, <2>2 DEF Reacquire, ReleaseNested, Release
    <3>3. QED
      BY <2>b, <3>1, <3>2 DEF Holds
  <2>3. ASSUME NEW p \in Procs,
               ReadLock(p) \/ TestLock(p) \/ GiveUpRetrying(p) \/ CannotMake(p)
        PROVE  Safe'
    <3>1. OnlyOf(p) /\ UNCHANGED <<file, writer, alive, raced>> /\ alive[p]
      BY <2>0, <2>a, <2>3 DEF ReadLock, TestLock, GiveUpRetrying, CannotMake,
                              GiveUp, Attempt, Forget, OnlyOf
    <3>2. pc'[p] \in {"idle", "make", "test", "held"}
      BY <2>a, <2>3 DEF ReadLock, TestLock, GiveUpRetrying, CannotMake, GiveUp, Attempt
    <3>3. QED
      BY <2>b, <3>1, <3>2 DEF Holds
  <2>4. ASSUME NEW p \in Procs, Wait(p) \/ TimeOut(p) PROVE Safe'
    <3>1. OnlyOf(p) /\ UNCHANGED <<file, writer, alive, raced>> /\ alive[p]
      BY <2>0, <2>a, <2>4 DEF Wait, TimeOut, Attempt, Forget, OnlyOf
    <3>2. pc'[p] \in {"idle", "make"}
      BY <2>a, <2>4 DEF Wait, TimeOut, Attempt
    <3>3. QED
      BY <2>b, <3>1, <3>2 DEF Holds
  <2>5. ASSUME NEW p \in Procs, MakeLock(p) PROVE Safe'
    <3> DEFINE l == level[p]
    <3>1. /\ OnlyOf(p) /\ UNCHANGED <<alive, raced>> /\ alive[p]
          /\ l \in Levels /\ level'[p] = l
      BY <2>0, <2>a, <2>5 DEF MakeLock, Held, OnlyOf
    <3>2. CASE file[l] = NoFile /\ p \in Symlinks
      <4>1. pc'[p] = "hold" /\ file' = [file EXCEPT ![l] = p] /\ writer' = writer
        BY <2>a, <2>5, <3>2 DEF MakeLock, Held
      <4>2. QED
        BY <2>a, <3>1, <3>2, <4>1, CreateStep
    <3>3. CASE file[l] = NoFile /\ p \notin Symlinks
      <4>1. /\ pc'[p] = "write" /\ file' = [file EXCEPT ![l] = Empty]
            /\ writer' = [writer EXCEPT ![l] = p]
        BY <2>a, <2>5, <3>3 DEF MakeLock
      <4>2. QED
        BY <2>a, <3>1, <3>3, <4>1, CreateStep
    <3>4. CASE file[l] # NoFile
      <4>1. file' = file /\ writer' = writer /\ pc'[p] = "read"
        BY <2>a, <2>5, <3>4 DEF MakeLock
      <4>2. QED
        BY <2>b, <3>1, <4>1 DEF Holds
    <3>5. QED
      BY <2>5, <3>2, <3>3, <3>4 DEF MakeLock
  <2>6. ASSUME NEW p \in Procs, WriteLock(p) PROVE Safe'
    <3> DEFINE l == level[p]
    <3>1. /\ OnlyOf(p) /\ UNCHANGED <<alive, raced>> /\ alive[p]
          /\ l \in Levels /\ level'[p] = l /\ pc[p] = "write"
      BY <2>0, <2>a, <2>6 DEF WriteLock, Held, OnlyOf
    <3>2. /\ pc'[p] = "hold" /\ writer' = writer
          /\ file' = [file EXCEPT ![l] = IF @ = Empty /\ writer[l] = p THEN p ELSE @]
      BY <2>a, <2>6 DEF WriteLock, Held
    <3>3. Sound(l) => file[l] = Empty /\ writer[l] = p
      BY <3>1 DEF IInv, Safe, Guarded, WriterIsAlone
    <3>4. QED
      BY <2>a, <3>1, <3>2, <3>3, CreateStep
  <2>7. ASSUME NEW p \in Procs, Reread(p) PROVE Safe'
    <3>1. /\ OnlyOf(p) /\ UNCHANGED <<file, writer, alive, level, raced>> /\ alive[p]
          /\ pc[p] = "hold"
      BY <2>0, <2>a, <2>7 DEF Reread, OnlyOf
    <3>2. pc'[p] = "retest" /\ seen'[p] = file[level[p] - 1]
      BY <2>a, <2>7 DEF Reread
    <3>3. TestsHolderOf(p)' /\ BreaksStaleOf(p)'
      BY <3>1, <3>2 DEF TestsHolderOf, BreaksStaleOf
    <3>4. \A l \in Levels : Holds(p, l)' => Holds(p, l)
      BY <3>1 DEF Holds
    <3>5. QED
      BY <3>1, <3>2, <3>3, <3>4, QuietStep
  <2>8. ASSUME NEW p \in Procs, Retest(p) PROVE Safe'
    <3> DEFINE l == level[p] - 1
    <3>1. /\ OnlyOf(p) /\ UNCHANGED <<file, writer, alive, level, seen, raced>>
          /\ alive[p] /\ pc[p] = "retest" /\ l \in Levels
      BY <2>0, <2>a, <2>8, BrokenLevel DEF Retest, OnlyOf, IInv
    <3>2. pc' = [pc EXCEPT ![p] = IF ShouldBreak(p, seen[p]) THEN "unlink" ELSE "release"]
      BY <2>8 DEF Retest
    <3>3. pc'[p] = IF ShouldBreak(p, seen[p]) THEN "unlink" ELSE "release"
      BY <2>a, <3>2
    <3>4. TestsHolderOf(p)'
      BY <3>3 DEF TestsHolderOf
    <3>5. \A q \in Procs : \A m \in Levels : Holds(q, m)' => Holds(q, m)
      BY <3>1, <3>3, OthersHold DEF Holds
    <3>6. BreaksStaleOf(p)'
      <4> SUFFICES ASSUME ShouldBreak(p, seen[p]), Sound(l) PROVE BreaksStaleOf(p)'
        BY <3>1, <3>3 DEF BreaksStaleOf, Sound
      <4>1. seen[p] \in Procs /\ ~alive[seen[p]] /\ file[l] = seen[p]
        BY <3>1 DEF ShouldBreak, IInv, Safe, TestsHolder, TestsHolderOf
      <4>2. \A q \in Procs : ~Holds(q, l)
        BY <2>0, <3>1, <4>1 DEF IInv, Safe, Guarded, HolderIsNamed, Holds
      <4>3. \A q \in Procs : ~Holds(q, l)'
        BY <3>1, <3>5, <4>2
      <4>4. QED
        BY <3>1, <4>1, <4>3 DEF BreaksStaleOf, Holds
    <3>7. QED
      BY <3>1, <3>3, <3>4, <3>5, <3>6, QuietStep
  <2>9. ASSUME NEW p \in Procs, UnlinkStale(p) PROVE Safe'
    <3> DEFINE l == level[p] - 1
    <3>1. OnlyOf(p) /\ UNCHANGED <<writer, alive, level, raced>> /\ alive[p]
      BY <2>0, <2>a, <2>9 DEF UnlinkStale, OnlyOf
    <3>2. /\ pc[p] = "unlink" /\ pc'[p] = "release"
          /\ file' = [file EXCEPT ![l] = NoFile]
      BY <2>a, <2>9 DEF UnlinkStale
    <3>3. l \in Levels
      BY <3>2, BrokenLevel DEF IInv
    <3>4. QED
      BY <3>1, <3>2, <3>3, RemoveStep
  <2>10. ASSUME NEW p \in Procs, UnlinkNothing(p) PROVE Safe'
    <3>1. OnlyOf(p) /\ UNCHANGED <<file, writer, alive, level, raced>> /\ alive[p]
      BY <2>0, <2>a, <2>10 DEF UnlinkNothing, OnlyOf
    <3>2. pc[p] = "unlink" /\ pc'[p] = "fail"
      BY <2>a, <2>10 DEF UnlinkNothing
    <3>3. QED
      BY <2>b, <3>1, <3>2 DEF Holds
  <2>11. ASSUME NEW p \in Procs, Unlink(p) PROVE Safe'
    <3> DEFINE l == level[p]
    <3>1. OnlyOf(p) /\ UNCHANGED <<writer, alive, raced>> /\ alive[p] /\ l \in Levels
      BY <2>0, <2>a, <2>11 DEF Unlink, Forget, GiveUp, OnlyOf
    <3>2. /\ Holds(p, l) /\ file' = [file EXCEPT ![l] = NoFile]
          /\ pc'[p] \in {"idle", "make", "held"}
      BY <2>a, <2>11 DEF Unlink, GiveUp, Holds
    <3>3. \A m \in Levels : ~Holds(p, m)'
      BY <3>2 DEF Holds
    <3>4. QED
      BY <3>1, <3>2, <3>3, RemoveStep
  <2>12. ASSUME NEW p \in Procs, Exit(p) \/ Crash(p) PROVE Safe'
    <3>1. Gone(p)
      BY <2>12 DEF Exit, Crash
    <3>2. OnlyOf(p) /\ pc'[p] = "idle"
      BY <2>a, <3>1 DEF Gone, Forget, OnlyOf
    <3>3. QED
      BY <3>1, <3>2, GoneStep DEF Gone
  <2>13. ASSUME NEW p \in Procs, Restart(p) PROVE Safe'
    BY <2>13, RestartStep DEF Restart
  <2>14. CASE UNCHANGED vars
    BY <2>14 DEF vars, IInv, Safe, Guarded, HolderIsNamed, WriterIsAlone, TestsHolder,
                 TestsHolderOf, BreaksStale, BreaksStaleOf, DeadAreIdle, Sound, Holds
  <2>15. ASSUME NEW p \in Procs, Try(p) PROVE Safe'
    BY <2>15, <2>3, <2>4, <2>5, <2>6, <2>7, <2>8, <2>9, <2>10, <2>11 DEF Try
  <2>16. QED
    BY <2>1, <2>2, <2>12, <2>13, <2>14, <2>15 DEF Next, AllGone
<1>3. QED
  BY <1>1, <1>2, TypeInv, PTL DEF Spec, IInv

\* A lock has one holder, unless a process gave it (or a '.break' lock above it)
\* back and ended between the two system calls of a test.
THEOREM MutuallyExclusive == Spec => []ExclusiveUnlessRaced
<1>1. IInv => ExclusiveUnlessRaced
  BY DEF IInv, Safe, Guarded, HolderIsNamed, ExclusiveUnlessRaced
<1>2. QED
  BY <1>1, Inductive, PTL

\* Without such a race only a lock that nobody holds is broken, and it still names
\* the process that was found dead.
THEOREM BreaksOnlyStale == Spec => []BreaksWhatItTested
<1>1. IInv => BreaksWhatItTested
  BY DEF IInv, TInv, BreaksUnder, Safe, BreaksStale, BreaksStaleOf, BreaksWhatItTested
<1>2. QED
  BY <1>1, Inductive, PTL

\* Nor does any step then take a lock away from the process that holds it.
THEOREM LocksAreKept == Spec => NoLockStolen
<1> USE LockAssumption
<1>1. ASSUME IInv, [Next]_vars, NEW p \in Procs, NEW l \in Levels,
             Sound(l), Holds(p, l), file'[l] # file[l]
      PROVE  ~Holds(p, l)'
  <2> USE DEF IInv, Safe, Goto, locals, counters
  <2>1. HolderIsNamed(l) /\ WriterIsAlone(l) /\ file[l] = p
    BY <1>1 DEF Guarded, HolderIsNamed
  <2>2. /\ file \in [Levels -> Contents] /\ level \in [Procs -> Levels]
        /\ pc \in [Procs -> Stages]
    BY <1>1 DEF TInv, TypeOK
  <2>3. PICK q \in Procs : MakeLock(q) \/ WriteLock(q) \/ UnlinkStale(q) \/ Unlink(q)
    BY <1>1 DEF Next, Try, AllGone, vars, Acquire, Reacquire, CannotMake, ReadLock,
                TestLock, Attempt, GiveUp, GiveUpRetrying, Wait, TimeOut, Reread, Retest,
                UnlinkNothing, ReleaseNested, Release, Exit, Crash, Restart, Gone
  <2>4. CASE MakeLock(q)
    BY <1>1, <2>1, <2>2, <2>4 DEF MakeLock
  <2>5. CASE WriteLock(q)
    BY <1>1, <2>1, <2>2, <2>5 DEF WriteLock, WriterIsAlone
  <2>6. CASE UnlinkStale(q)
    <3>1. level[q] - 1 \in Levels /\ BreaksStaleOf(q) /\ pc[q] = "unlink"
      BY <1>1, <2>6, BrokenLevel DEF UnlinkStale, BreaksStale
    <3>2. l # level[q] - 1
      BY <1>1, <3>1 DEF BreaksStaleOf
    <3>3. QED
      BY <1>1, <2>2, <2>6, <3>1, <3>2 DEF UnlinkStale
  <2>7. CASE Unlink(q)
    <3> DEFINE m == level[q]
    <3>1. /\ pc[q] \in {"release", "fail"} /\ m \in Levels
          /\ file' = [file EXCEPT ![m] = NoFile]
      BY <2>2, <2>7 DEF Unlink
    <3>2. l = m
      BY <1>1, <2>2, <3>1
    <3>3. p = q
      BY <2>1, <3>1, <3>2 DEF HolderIsNamed, Holds
    <3>4. pc'[q] \in {"idle", "make", "held"}
      BY <2>2, <2>7 DEF Unlink, GiveUp
    <3>5. QED
      BY <3>3, <3>4 DEF Holds
  <2>8. QED
    BY <2>3, <2>4, <2>5, <2>6, <2>7
<1>2. IInv /\ [Next]_vars => [\A p \in Procs : \A l \in Levels :
          Sound(l) /\ Holds(p, l) /\ file'[l] # file[l] => ~Holds(p, l)']_vars
  BY <1>1
<1>3. QED
  BY <1>2, Inductive, PTL DEF Spec, NoLockStolen

\* A living process leaves no lock behind, whatever happened before: neither where
\* it gives up, nor where the lock it was to break is gone.
THEOREM NothingLeft == Spec => []NoLockLeftBehind
<1> USE LockAssumption
<1>1. Init => NoLockLeftBehind
  BY DEF Init, NoLockLeftBehind
<1>2. TInv /\ NoLockLeftBehind /\ [Next]_vars => NoLockLeftBehind'
  <2> SUFFICES ASSUME TInv, NoLockLeftBehind, [Next]_vars, restarts' = 0,
                      NEW p \in Procs, NEW l \in Levels, alive'[p], file'[l] = p
               PROVE  Holds(p, l)'
    BY DEF NoLockLeftBehind
  <2>1. /\ pc \in [Procs -> Stages]
        /\ level \in [Procs -> Levels] /\ file \in [Levels -> Contents]
        /\ alive \in [Procs -> BOOLEAN] /\ restarts \in Nat
    BY DEF TInv, TypeOK
  <2> USE DEF Goto, locals, counters
  <2>2. restarts = 0 /\ alive[p] /\ \A q \in Procs : ~Restart(q)
    BY <2>1 DEF Next, Try, AllGone, vars, Acquire, Reacquire, MakeLock, CannotMake,
                WriteLock, ReadLock, TestLock, GiveUpRetrying, Wait, TimeOut, Reread,
                Retest, UnlinkStale, UnlinkNothing, Unlink, ReleaseNested, Release,
                Exit, Crash, Restart, Gone
  <2>3. file[l] = p => Holds(p, l)
    BY <2>2 DEF NoLockLeftBehind
  <2>4. ASSUME NEW q \in Procs, MakeLock(q) PROVE Holds(p, l)'
    BY <2>1, <2>3, <2>4 DEF MakeLock, Held, Holds
  <2>5. ASSUME NEW q \in Procs, WriteLock(q) PROVE Holds(p, l)'
    BY <2>1, <2>3, <2>5 DEF WriteLock, Held, Holds
  <2>6. ASSUME NEW q \in Procs, Reread(q) \/ Retest(q) \/ UnlinkNothing(q)
        PROVE  Holds(p, l)'
    BY <2>1, <2>3, <2>6 DEF Reread, Retest, UnlinkNothing, Holds
  <2>7. ASSUME NEW q \in Procs, UnlinkStale(q) PROVE Holds(p, l)'
    BY <2>1, <2>3, <2>7 DEF UnlinkStale, Holds
  <2>8. ASSUME NEW q \in Procs, Unlink(q) PROVE Holds(p, l)'
    <3>1. file' = [file EXCEPT ![level[q]] = NoFile] /\ pc[q] \in {"release", "fail"}
      BY <2>8 DEF Unlink
    <3>2. file[l] = p /\ l # level[q]
      BY <2>1, <3>1
    <3>3. q # p
      BY <2>3, <3>2 DEF Holds
    <3>4. pc'[p] = pc[p] /\ level'[p] = level[p]
      BY <2>1, <2>8, <3>3 DEF Unlink, Forget, GiveUp
    <3>5. QED
      BY <2>3, <3>2, <3>4 DEF Holds
  <2>9. ASSUME NEW q \in Procs, ReleaseNested(q) \/ Release(q) \/ Reacquire(q)
        PROVE  Holds(p, l)'
    BY <2>1, <2>3, <2>9 DEF ReleaseNested, Release, Reacquire, Holds
  <2>10. ASSUME NEW q \in Procs,
                \/ Acquire(q) \/ CannotMake(q) \/ ReadLock(q) \/ TestLock(q)
                \/ GiveUpRetrying(q) \/ Wait(q) \/ TimeOut(q)
         PROVE  Holds(p, l)'
    <3>1. file' = file /\ (q # p => pc'[p] = pc[p] /\ level'[p] = level[p])
      BY <2>1, <2>10 DEF Acquire, CannotMake, ReadLock, TestLock, GiveUpRetrying,
                         Wait, TimeOut, GiveUp, Attempt, Forget
    <3>2. pc[q] \in {"idle", "make", "read", "test", "held"}
      BY <2>10 DEF Acquire, CannotMake, ReadLock, TestLock, GiveUpRetrying, Wait, TimeOut
    <3>3. QED
      BY <2>3, <3>1, <3>2 DEF Holds
  <2>11. ASSUME NEW q \in Procs, Exit(q) \/ Crash(q) PROVE Holds(p, l)'
    BY <2>1, <2>3, <2>11 DEF Exit, Crash, Gone, Forget, Holds
  <2>12. CASE UNCHANGED vars
    BY <2>3, <2>12 DEF vars, Holds
  <2>13. QED
    BY <2>2, <2>4, <2>5, <2>6, <2>7, <2>8, <2>9, <2>10, <2>11, <2>12
       DEF Next, Try, AllGone
<1>3. QED
  BY <1>1, <1>2, TypeInv, PTL DEF Spec

=============================================================================
