------------------------------ MODULE RepoLock ------------------------------
(***************************************************************************)
(* src/mercurial/lock.py: the advisory lock of a repository (.hg/store/lock*)
(* or .hg/wlock), a file that names the host and the process that holds it.*)
(* A process that finds the lock of a dead process of its own host removes *)
(* it, under a second lock '<lock>.break' that is taken the same way, and  *)
(* may be found stale in turn: '<lock>.break.break', and so on.  The files *)
(* are levels 0, 1, 2...                                                   *)
(*                                                                         *)
(* Every system call (symlink, readlink, kill(pid, 0), unlink) is a step.  *)
(***************************************************************************)
EXTENDS Integers, FiniteSets

CONSTANTS
    Procs,             \* process identifiers: what a lock file names
    Host,              \* Host[p]: the machine (and pid namespace) of p
    NoFile,            \* the lock file does not exist
    Empty,             \* it exists, and nothing is written in it yet
    Symlinks,          \* processes whose system makes symbolic links
    MaxLevel,          \* bound: depth of '.break' locks
    Retries,           \* how often _trylock() tries (5 in the code)
    Waits,             \* "trylock" (trylock()) or "lock" (lock.lock()): in which
                       \* of the two loops p waits for the repository lock
    Timeout,           \* the seconds it waits, 0 for none
    MaxDepth,          \* bound: how often a process takes its lock again
    MaxCrash,          \* bound: processes that are killed
    MaxRestart,        \* bound: how often the system uses a number again,
    Reused,            \* bound: and those of which processes
    MayFail            \* processes for which the system may refuse to make a file

Levels == 0..MaxLevel
Contents == Procs \cup {NoFile, Empty}

ASSUME LockAssumption ==
    /\ NoFile \notin Procs /\ Empty \notin Procs /\ NoFile # Empty
    /\ Symlinks \subseteq Procs /\ MayFail \subseteq Procs /\ Reused \subseteq Procs
    /\ MaxLevel \in Nat /\ Retries \in Nat \ {0}
    /\ Waits \in [Procs -> {"trylock", "lock"}] /\ Timeout \in [Procs -> Int]
    /\ MaxDepth \in Nat /\ MaxCrash \in Nat /\ MaxRestart \in Nat

VARIABLES
    file,              \* the content of each lock file
    writer,            \* the process whose an empty lock file is
    alive,             \* is there a process of that number?
    pc,                \* what it is doing
    level,             \* at which lock: 0, or a '.break' lock
    retry,             \* tries left at each level
    seen,              \* the lock content it read last
    depth,             \* how often it holds the lock of level 0 (held)
    delay,             \* seconds waited for it
    crashes, restarts,
    raced              \* history: the levels at which a process gave the lock
                       \* back and ended while another was about to test it

vars == <<file, writer, alive, pc, level, retry, seen, depth, delay, crashes, restarts,
          raced>>
locals == <<level, retry, seen, depth, delay>>
counters == <<crashes, restarts, raced>>

Init ==
    /\ file = [l \in Levels |-> NoFile] /\ writer = [l \in Levels |-> NoFile]
    /\ alive = [p \in Procs |-> TRUE]
    /\ pc = [p \in Procs |-> "idle"]
    /\ level = [p \in Procs |-> 0]
    /\ retry = [p \in Procs |-> [l \in Levels |-> 0]]
    /\ seen = [p \in Procs |-> NoFile]
    /\ depth = [p \in Procs |-> 0]
    /\ delay = [p \in Procs |-> 0]
    /\ crashes = 0 /\ restarts = 0 /\ raced = {}

Goto(p, s) == pc' = [pc EXCEPT ![p] = s]

NoRetry == [l \in Levels |-> 0]

\* The attempt is over: what it kept in local variables is gone.
Forget(p) ==
    /\ level' = [level EXCEPT ![p] = 0]
    /\ retry' = [retry EXCEPT ![p] = NoRetry]
    /\ seen' = [seen EXCEPT ![p] = NoFile]
    /\ delay' = [delay EXCEPT ![p] = 0]

\* LockHeld.  One raised for a '.break' lock becomes one for the lock that was
\* to be broken, and so on down to the repository lock.
GiveUp(p) ==
    /\ Goto(p, "held")
    /\ level' = [level EXCEPT ![p] = 0]
    /\ retry' = [retry EXCEPT ![p] = NoRetry]
    /\ seen' = [seen EXCEPT ![p] = NoFile]

\* The first of Retries tries at a level
Attempt(p, l) ==
    /\ Goto(p, "make")
    /\ level' = [level EXCEPT ![p] = l]
    /\ retry' = [retry EXCEPT ![p] = [retry[p] EXCEPT ![l] = Retries]]

\* _lockshouldbebroken(): only what names a process of this host, and one that
\* testpid() does not find.
ShouldBreak(p, locker) ==
    /\ locker \in Procs
    /\ Host[locker] = Host[p]
    /\ ~alive[locker]

-----------------------------------------------------------------------------
(* Taking a lock *)

\* repo.lock() when this process does not hold it.
Acquire(p) ==
    /\ alive[p] /\ pc[p] = "idle"
    /\ Attempt(p, 0)
    /\ UNCHANGED <<file, writer, alive, seen, depth, delay, counters>>

\* repo.lock() when it does: _trylock() only counts.
Reacquire(p) ==
    /\ pc[p] = "hold" /\ level[p] = 0 /\ depth[p] < MaxDepth
    /\ depth' = [depth EXCEPT ![p] = @ + 1]
    /\ UNCHANGED <<file, writer, alive, pc, level, retry, seen, delay, counters>>

Held(p) ==
    /\ Goto(p, "hold")
    /\ depth' = [depth EXCEPT ![p] = IF level[p] = 0 THEN 1 ELSE @]

\* Mutant: one more than the retries.
TriesLeftOver(p) == retry[p][level[p]] >= 0

\* while not self.held and retry
TriesLeft(p) == retry[p][level[p]] > 0

\* makelock(): a symbolic link is created with its content; without symbolic
\* links the file is created first and written next.
MakeLock(p) ==
    LET l == level[p] IN
    /\ pc[p] = "make" /\ TriesLeft(p)
    /\ retry' = [retry EXCEPT ![p] = [retry[p] EXCEPT ![l] = retry[p][l] - 1]]
    /\ \/ /\ file[l] = NoFile /\ p \in Symlinks
          /\ file' = [file EXCEPT ![l] = p]
          /\ Held(p) /\ UNCHANGED writer
       \/ /\ file[l] = NoFile /\ p \notin Symlinks
          /\ file' = [file EXCEPT ![l] = Empty]
          /\ writer' = [writer EXCEPT ![l] = p]
          /\ Goto(p, "write") /\ depth' = depth
       \/ /\ file[l] # NoFile
          /\ Goto(p, "read")
          /\ UNCHANGED <<file, writer, depth>>
    /\ UNCHANGED <<alive, level, seen, delay, counters>>

\* LockUnavailable, for any error but EEXIST (permissions, no space, ...): of the
\* repository lock, it ends the command; of a '.break' lock, it leaves the lock
\* that was to be broken held.
CannotMake(p) ==
    /\ pc[p] = "make" /\ TriesLeft(p)
    /\ file[level[p]] = NoFile /\ p \in MayFail
    /\ IF level[p] = 0 THEN Goto(p, "idle") /\ Forget(p)
                      ELSE GiveUp(p) /\ delay' = delay
    /\ UNCHANGED <<file, writer, alive, depth, counters>>

\* What is written goes to the file that was created, which may have been
\* unlinked.
WriteLock(p) ==
    LET l == level[p] IN
    /\ pc[p] = "write"
    /\ file' = [file EXCEPT ![l] = IF @ = Empty /\ writer[l] = p THEN p ELSE @]
    /\ Held(p)
    /\ UNCHANGED <<writer, alive, level, retry, seen, delay, counters>>

\* _readlock() after EEXIST; a lock that has gone is tried again.
ReadLock(p) ==
    /\ pc[p] = "read"
    /\ seen' = [seen EXCEPT ![p] = file[level[p]]]
    /\ Goto(p, IF file[level[p]] = NoFile THEN "make" ELSE "test")
    /\ UNCHANGED <<file, writer, alive, level, retry, depth, delay, counters>>

\* Mutant: a '.break' lock is not broken.
TestLockOnce(p) ==
    /\ pc[p] = "test"
    /\ IF ShouldBreak(p, seen[p]) /\ level[p] = 0
         THEN Attempt(p, 1) /\ seen' = seen
         ELSE GiveUp(p)
    /\ UNCHANGED <<file, writer, alive, depth, delay, counters>>

\* Mutant: the lock is broken without another one held.
TestLockBare(p) ==
    /\ pc[p] = "test"
    /\ IF ShouldBreak(p, seen[p])
         THEN /\ Goto(p, "make") /\ UNCHANGED <<level, retry, seen>>
              /\ file' = [file EXCEPT ![level[p]] = NoFile]
         ELSE GiveUp(p) /\ file' = file
    /\ UNCHANGED <<writer, alive, depth, delay, counters>>

\* _testlock(): a lock that should be broken is broken under '.break', which is
\* not waited for; any other is held.
TestLock(p) ==
    LET l == level[p] IN
    /\ pc[p] = "test"
    /\ IF ShouldBreak(p, seen[p]) /\ l < MaxLevel
         THEN Attempt(p, l + 1) /\ seen' = seen
         ELSE GiveUp(p)
    /\ UNCHANGED <<file, writer, alive, depth, delay, counters>>

\* Busy "for frequent lock/unlock by many processes".
GiveUpRetrying(p) ==
    /\ pc[p] = "make" /\ retry[p][level[p]] = 0
    /\ GiveUp(p)
    /\ UNCHANGED <<file, writer, alive, depth, delay, counters>>

\* When the repository lock is held the caller waits a second, or reports the
\* timeout.
OutOfTime(p) ==
    Timeout[p] <= delay[p] /\ (Waits[p] = "lock" => Timeout[p] >= 0)

Wait(p) ==
    /\ pc[p] = "held" /\ ~OutOfTime(p)
    /\ Attempt(p, 0)
    /\ delay' = [delay EXCEPT ![p] = IF Timeout[p] < 0 THEN @ ELSE @ + 1]
    /\ seen' = [seen EXCEPT ![p] = NoFile]
    /\ UNCHANGED <<file, writer, alive, depth, counters>>

TimeOut(p) ==
    /\ pc[p] = "held" /\ OutOfTime(p)
    /\ Goto(p, "idle") /\ Forget(p)
    /\ UNCHANGED <<file, writer, alive, depth, counters>>

-----------------------------------------------------------------------------
(* Breaking the lock of the level below, with the '.break' lock held *)

\* Mutant: what was read and tested before the '.break' lock was taken is believed.
RereadNothing(p) ==
    /\ pc[p] = "hold" /\ level[p] > 0
    /\ Goto(p, "unlink")
    /\ UNCHANGED <<file, writer, alive, level, retry, seen, depth, delay, counters>>

\* The lock is read again ...
Reread(p) ==
    /\ pc[p] = "hold" /\ level[p] > 0
    /\ seen' = [seen EXCEPT ![p] = file[level[p] - 1]]
    /\ Goto(p, "retest")
    /\ UNCHANGED <<file, writer, alive, level, retry, depth, delay, counters>>

\* ... and its process tested again, in another system call: what was read may
\* be out of date.
Retest(p) ==
    /\ pc[p] = "retest"
    /\ Goto(p, IF ShouldBreak(p, seen[p]) THEN "unlink" ELSE "release")
    /\ UNCHANGED <<file, writer, alive, locals, counters>>

UnlinkStale(p) ==
    /\ pc[p] = "unlink" /\ file[level[p] - 1] # NoFile
    /\ file' = [file EXCEPT ![level[p] - 1] = NoFile]
    /\ seen' = [seen EXCEPT ![p] = NoFile]
    /\ Goto(p, "release")
    /\ UNCHANGED <<writer, alive, level, retry, depth, delay, counters>>

\* FileNotFoundError, which is no LockError: the command fails.
UnlinkNothing(p) ==
    /\ pc[p] = "unlink" /\ file[level[p] - 1] = NoFile
    /\ Goto(p, "fail")
    /\ UNCHANGED <<file, writer, alive, locals, counters>>

-----------------------------------------------------------------------------
(* Giving a lock back *)

\* Mutant: the first release() removes the file.
ReleaseAtOnce(p) ==
    /\ pc[p] = "hold" /\ level[p] = 0 /\ depth[p] > 1
    /\ depth' = [depth EXCEPT ![p] = @ - 1]
    /\ file' = [file EXCEPT ![0] = NoFile]
    /\ UNCHANGED <<writer, alive, pc, level, retry, seen, delay, counters>>

\* release() of a lock that was taken more than once
ReleaseNested(p) ==
    /\ pc[p] = "hold" /\ level[p] = 0 /\ depth[p] > 1
    /\ depth' = [depth EXCEPT ![p] = @ - 1]
    /\ UNCHANGED <<file, writer, alive, pc, level, retry, seen, delay, counters>>

\* release(): held becomes 0, releasefn runs with the file still there, ...
Release(p) ==
    /\ pc[p] = "hold" /\ level[p] = 0 /\ depth[p] = 1
    /\ depth' = [depth EXCEPT ![p] = 0]
    /\ Goto(p, "release")
    /\ UNCHANGED <<file, writer, alive, level, retry, seen, delay, counters>>

\* Mutant: an exception leaves the '.break' lock behind.
UnlinkUnlessFailed(p) ==
    LET l == level[p] IN
    /\ pc[p] \in {"release", "fail"}
    /\ file' = [file EXCEPT ![l] = IF pc[p] = "fail" THEN @ ELSE NoFile]
    /\ IF l = 0 \/ pc[p] = "fail"
         THEN Goto(p, "idle") /\ Forget(p)
         ELSE IF seen[p] = NoFile
                THEN /\ Goto(p, "make") /\ UNCHANGED <<seen, delay>>
                     /\ level' = [level EXCEPT ![p] = l - 1]
                     /\ retry' = [retry EXCEPT ![p] = [retry[p] EXCEPT ![l] = 0]]
                ELSE GiveUp(p) /\ delay' = delay
    /\ UNCHANGED <<writer, alive, depth, counters>>

\* ... and the file is unlinked.  The process that held a '.break' lock goes on
\* with the lock below: again if it is free now, else it is held; unless it fails.
Unlink(p) ==
    LET l == level[p] IN
    /\ pc[p] \in {"release", "fail"}
    /\ file' = [file EXCEPT ![l] = NoFile]
    /\ IF l = 0 \/ pc[p] = "fail"
         THEN Goto(p, "idle") /\ Forget(p)
         ELSE IF seen[p] = NoFile
                THEN /\ Goto(p, "make") /\ UNCHANGED <<seen, delay>>
                     /\ level' = [level EXCEPT ![p] = l - 1]
                     /\ retry' = [retry EXCEPT ![p] = [retry[p] EXCEPT ![l] = 0]]
                ELSE GiveUp(p) /\ delay' = delay
    /\ UNCHANGED <<writer, alive, depth, counters>>

-----------------------------------------------------------------------------
(* Processes come and go *)

\* The locks that the process gave back while a test of it was under way.
GivenBack(p) ==
    {level[q] - 1 : q \in {r \in Procs : /\ pc[r] = "retest" /\ seen[r] = p
                                        /\ Host[r] = Host[p]
                                        /\ file[level[r] - 1] # p}}

Gone(p) ==
    /\ alive' = [alive EXCEPT ![p] = FALSE]
    /\ Goto(p, "idle") /\ Forget(p)
    /\ depth' = [depth EXCEPT ![p] = 0]
    /\ raced' = raced \cup GivenBack(p)
    /\ UNCHANGED <<file, writer>>

\* A command ends.
Exit(p) ==
    /\ alive[p] /\ pc[p] = "idle"
    /\ Gone(p) /\ UNCHANGED <<crashes, restarts>>

Crash(p) ==
    /\ alive[p] /\ pc[p] # "idle" /\ crashes < MaxCrash
    /\ Gone(p)
    /\ crashes' = crashes + 1 /\ UNCHANGED restarts

\* The system gives the number of a dead process to a new one.
Restart(p) ==
    /\ ~alive[p] /\ p \in Reused /\ restarts < MaxRestart
    /\ alive' = [alive EXCEPT ![p] = TRUE]
    /\ restarts' = restarts + 1
    /\ UNCHANGED <<file, writer, pc, locals, crashes, raced>>

Try(p) ==
    \/ MakeLock(p) \/ CannotMake(p) \/ WriteLock(p) \/ ReadLock(p) \/ TestLock(p)
    \/ GiveUpRetrying(p) \/ Wait(p) \/ TimeOut(p)
    \/ Reread(p) \/ Retest(p) \/ UnlinkStale(p) \/ UnlinkNothing(p) \/ Unlink(p)

\* Nobody is left; only here may the system stop.
AllGone == (\A p \in Procs : ~alive[p]) /\ UNCHANGED vars

Next ==
    \/ \E p \in Procs :
          \/ Acquire(p) \/ Reacquire(p) \/ Try(p) \/ ReleaseNested(p)
          \/ Release(p) \/ Exit(p) \/ Crash(p) \/ Restart(p)
    \/ AllGone

Spec == Init /\ [][Next]_vars

\* A process that is scheduled gets on with what it does.  Nothing obliges it
\* to ask for the lock, nor to give it back.
FairSpec == Spec /\ \A p \in Procs : WF_vars(Try(p))

-----------------------------------------------------------------------------
(* Properties *)

Stages == {"idle", "make", "write", "read", "test", "held", "hold", "retest",
           "unlink", "release", "fail"}

\* Type invariant.
TypeOK ==
    /\ file \in [Levels -> Contents] /\ writer \in [Levels -> Procs \cup {NoFile}]
    /\ alive \in [Procs -> BOOLEAN]
    /\ pc \in [Procs -> Stages]
    /\ level \in [Procs -> Levels]
    /\ retry \in [Procs -> [Levels -> 0..Retries]]
    /\ seen \in [Procs -> Contents]
    /\ depth \in [Procs -> Nat] /\ delay \in [Procs -> Nat]
    /\ crashes \in Nat /\ restarts \in Nat /\ raced \subseteq Levels

\* p is between the creation and the removal of the lock file of level l:
\* releasefn still runs under the lock.
Holds(p, l) ==
    level[p] = l /\ pc[p] \in {"hold", "retest", "unlink", "release", "fail"}

\* No two processes hold a lock at a time ("held by one process").
MutualExclusion ==
    \A p, q \in Procs : \A l \in Levels :
        Holds(p, l) /\ Holds(q, l) => p = q

\* Nothing was overtaken at a level or at those above, whose locks guard it.
Sound(l) == \A m \in raced : m < l

\* There is one way to lose mutual exclusion: between the two system calls of a
\* test under a '.break' lock, the process that was read gives the lock back and
\* ends.  However many processes died with which locks and whoever breaks them, a
\* lock for which this never happened has one holder.
ExclusiveUnlessRaced ==
    \A l \in Levels : Sound(l) =>
        \A p, q \in Procs : Holds(p, l) /\ Holds(q, l) => p = q

\* Nor does any step of another process touch the file of a lock that is held.
NoLockStolen ==
    [][\A p \in Procs : \A l \in Levels :
          Sound(l) /\ Holds(p, l) /\ file'[l] # file[l] => ~Holds(p, l)']_vars

\* Without such a race, a process that breaks a lock breaks the one it found
\* stale: the file still names the process that was tested, and nobody holds it.
BreaksWhatItTested ==
    \A p \in Procs :
        pc[p] = "unlink" /\ Sound(level[p] - 1) =>
            /\ level[p] > 0
            /\ file[level[p] - 1] = seen[p]
            /\ \A q \in Procs : ~Holds(q, level[p] - 1)

\* A living process leaves no lock behind, on whatever path it gives up, fails or
\* goes on: a lock that names it is one it holds.  (The lock of a dead process
\* whose number is in use again cannot be told from one.)  Nobody could break
\* such a lock.
NoLockLeftBehind ==
    restarts = 0 =>
        \A p \in Procs : \A l \in Levels :
            alive[p] /\ file[l] = p => Holds(p, l)

\* A lock left by a dead process is broken, once a process of the same host
\* waits for it without a limit (lock.lock() with a negative timeout): unless
\* all that wait die or fail, or a number is used again first.  (Between two locks
\* of dead processes there is a moment without a file, so it need not say which.)
Waiting(p) ==
    /\ alive[p] /\ pc[p] \notin {"idle", "fail"} /\ ~Holds(p, 0)
    /\ p \notin MayFail /\ Waits[p] = "lock" /\ Timeout[p] < 0

StaleIsAwaited ==
    /\ restarts = 0
    /\ \E d, p \in Procs :
          file[0] = d /\ ~alive[d] /\ Waiting(p) /\ Host[p] = Host[d]

StaleLockIsBroken == StaleIsAwaited ~> ~StaleIsAwaited

\* ui.timeout (helptext/config.txt): "a negative value means no timeout", so
\* whoever waits with one does not report a timeout.
NegativeTimeoutWaits ==
    [][\A p \in Procs : TimeOut(p) => Timeout[p] >= 0]_vars
=============================================================================
