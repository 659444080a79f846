---------------------------- MODULE DirstateProofs ----------------------------
(***************************************************************************)
(* Theorems about Dirstate.tla, for any files, contents and processes that *)
(* run status, any number of ticks in a second and any length of a run:    *)
(*   - TypeCorrect;                                                        *)
(*   - CacheAlwaysTrue: no later status takes a file for clean that is not *)
(*     as in the parent;                                                   *)
(*   - StatusAlwaysTrue: nor does one that is under way, or notes it.      *)
(* The last two are under the assumption that merge.py states: nobody else *)
(* writes files while update does.                                         *)
(***************************************************************************)
EXTENDS Dirstate, TLAPS

-----------------------------------------------------------------------------
(* The inductive invariant *)

Notes == Timestamps \cup {None}

NotesOf(T) == UNION {[D -> T] : D \in SUBSET Files}

Walking ==
    [step : {"loaded", "walk"}, fresh : BOOLEAN, parent : [Files -> Contents],
     cache : [Files -> Notes], boundary : Notes, walk : SUBSET Files,
     compare : SUBSET Files, lstat : SUBSET Files, fixup : NotesOf(Timestamps)]

Commands ==
    [step : {"writing", "written", "committing"}, target : [Files -> Contents],
     data : NotesOf(Notes), left : SUBSET Files]

Types ==
    /\ clock \in 0..MaxTime /\ machine \in [fine : BOOLEAN, v2 : BOOLEAN]
    /\ content \in [Files -> Contents] /\ parent \in [Files -> Contents]
    /\ mtime \in [Files -> Timestamps] /\ cache \in [Files -> Notes]
    /\ status \in [Statuses -> Walking \cup {Idle}]
    /\ command \in Commands \cup {Idle}
    /\ \A p \in Statuses : status[p].step = "walk" => status[p].boundary \in Timestamps

Later(t, u) == t.s < u.s \/ (t.s = u.s /\ t.ns <= u.ns)

\* A note that no file which is written from now on can match.
Safe(m) ==
    \/ m = None
    \/ m.s < Now.s
    \/ m.s = Now.s /\ m.ambiguous /\ m.ns # 0 /\ m.ns < Now.ns

\* A note m of f says the truth, as long as f is as in v.
Tells(m, f, v) == LikelyEqual(m, mtime[f]) => content[f] = v

CacheOK == \A f \in Files : Safe(cache[f]) /\ Tells(cache[f], f, parent[f])

\* What a status has loaded and found, while the files change under it.
WalkOK(s) ==
    /\ s.fresh => s.parent = parent
    /\ \A f \in Files :
          Safe(s.cache[f]) /\ Tells(s.cache[f], f, s.parent[f])
    /\ s.step = "loaded" => s.lstat = {}
    /\ s.step = "walk" => Later(s.boundary, Now)
    /\ \A f \in s.lstat :
          content[f] = s.parent[f] \/ Later(s.boundary, mtime[f])
    /\ \A f \in DOMAIN s.fixup :
          /\ Safe(s.fixup[f])
          /\ Tells(Stored(s.fixup[f]), f, s.parent[f])

StatusOK == \A p \in Statuses : status[p] # Idle => WalkOK(status[p])

\* What update has written, and what it is going to note.
WritingOK ==
    command.step = "writing" =>
        \A f \in Files :
            IF f \in DOMAIN command.data
              THEN command.data[f] = mtime[f] /\ content[f] = command.target[f]
              ELSE f \in command.left \/ (/\ content[f] = command.target[f]
                                          /\ parent[f] = command.target[f])

WrittenOK ==
    command.step = "written" =>
        \A f \in Files :
            IF f \in DOMAIN command.data
              THEN /\ Safe(command.data[f])
                   /\ Tells(Stored(command.data[f]), f, command.target[f])
              ELSE parent[f] = command.target[f]

Truth == CacheOK /\ StatusOK /\ WritingOK /\ WrittenOK

IInv == Types /\ Truth

-----------------------------------------------------------------------------
(* Times *)

\* A tick later, the time is later, even where a second begins.
LEMMA TickForward ==
    ASSUME NEW c \in Nat, NEW P \in Nat \ {0}
    PROVE  /\ (c + 1) \div P >= c \div P
           /\ (c + 1) \div P = c \div P => (c + 1) % P >= c % P
<1>1. (c + 1) \div P >= c \div P
  OBVIOUS
<1>2. ASSUME (c + 1) \div P = c \div P PROVE (c + 1) % P >= c % P
  <2>1. (c + 1) % P = (c % P) + 1
    BY <1>2
  <2>2. c % P \in Int
    OBVIOUS
  <2> QED BY <2>1, <2>2
<1> QED BY <1>1, <1>2

LEMMA TicksAreNat ==
    ASSUME NEW c \in Nat, NEW P \in Nat \ {0} PROVE c \div P \in Nat /\ c % P \in Nat
OBVIOUS

LEMMA NowIsATime ==
    /\ clock \in Nat => Now \in Timestamps
    /\ clock' \in Nat => Now' \in Timestamps
<1>1. ASSUME clock \in Nat PROVE Now \in Timestamps
  <2>1. clock \div PerSecond \in Nat /\ clock % PerSecond \in Nat
    BY <1>1, TicksAreNat, DirstateAssumption
  <2> QED BY <2>1 DEF Now, Timestamps
<1>2. ASSUME clock' \in Nat PROVE Now' \in Timestamps
  <2>1. clock' \div PerSecond \in Nat /\ clock' % PerSecond \in Nat
    BY <1>2, TicksAreNat, DirstateAssumption
  <2> QED BY <2>1 DEF Now, Timestamps
<1> QED BY <1>1, <1>2

\* What is safe is not like a time from now on, and what is stored of it is safe.
LEMMA SafeIsUnlike ==
    ASSUME Types, NEW m \in Notes, Safe(m)
    PROVE  ~LikelyEqual(m, Now) /\ Safe(Stored(m)) /\ Stored(m) \in Notes
<1>1. Now \in Timestamps
  BY NowIsATime DEF Types
<1>2. CASE m = None
  BY <1>2 DEF LikelyEqual, Safe, Stored, Notes
<1>3. CASE m # None
  <2>1. m \in Timestamps
    BY <1>3 DEF Notes
  <2>2. ~LikelyEqual(m, Now)
    BY <1>1, <1>3, <2>1 DEF LikelyEqual, Safe, Timestamps
  <2>3. Stored(m) \in Notes
    BY <2>1 DEF Stored, Notes, Timestamps
  <2>4. Safe(Stored(m))
    BY <1>1, <1>3, <2>1 DEF Stored, Safe, Timestamps
  <2> QED BY <2>2, <2>3, <2>4
<1> QED BY <1>2, <1>3

\* A reliable time is safe; one that is not before the boundary is not reliable.
LEMMA ReliableIsSafe ==
    ASSUME Types, NEW m \in Timestamps, NEW b \in Timestamps, Later(b, Now)
    PROVE  /\ ReliableMtime(m, b) \in Notes /\ Safe(ReliableMtime(m, b))
           /\ Later(b, m) => ReliableMtime(m, b) = None
<1>1. Now \in Timestamps
  BY NowIsATime DEF Types
<1>2. ReliableMtime(m, b) \in Notes
  BY DEF ReliableMtime, Notes, Timestamps
<1>3. Safe(ReliableMtime(m, b))
  BY <1>1 DEF ReliableMtime, Safe, Later, Timestamps
<1>4. Later(b, m) => ReliableMtime(m, b) = None
  BY DEF ReliableMtime, Later, Timestamps
<1> QED BY <1>2, <1>3, <1>4

-----------------------------------------------------------------------------
(* Types *)

LEMMA Fresh == ASSUME NEW T PROVE <<>> \in NotesOf(T)
<1>1. <<>> \in [{} -> T]
  OBVIOUS
<1> QED BY <1>1 DEF NotesOf

With(d, f, m) == [g \in DOMAIN d \cup {f} |-> IF g = f THEN m ELSE d[g]]

LEMMA Extended ==
    ASSUME NEW T, NEW d \in NotesOf(T), NEW f \in Files, NEW m \in T
    PROVE  With(d, f, m) \in NotesOf(T)
<1>1. PICK D \in SUBSET Files : d \in [D -> T]
  BY DEF NotesOf
<1>2. With(d, f, m) \in [D \cup {f} -> T]
  BY <1>1 DEF With
<1> QED BY <1>2 DEF NotesOf

LEMMA DomainOfNotes ==
    ASSUME NEW T, NEW d \in NotesOf(T)
    PROVE  DOMAIN d \subseteq Files /\ \A f \in DOMAIN d : d[f] \in T
BY DEF NotesOf

LEMMA StoredIsANote == ASSUME NEW m \in Notes PROVE Stored(m) \in Notes
BY DEF Stored, Notes, Timestamps

LEMMA IdleIsIdle ==
    /\ \A s \in Walking \cup {Idle} : s # Idle <=> s \in Walking
    /\ \A s \in Walking \cup {Idle} : s.step # "idle" <=> s \in Walking
    /\ \A c \in Commands \cup {Idle} : c # Idle <=> c \in Commands
    /\ \A c \in Commands \cup {Idle} : c.step # "idle" <=> c \in Commands
BY DEF Walking, Commands, Idle

THEOREM TypesInv == DirstateSpec => []Types
<1>1. DirstateInit => Types
  <2> SUFFICES ASSUME DirstateInit PROVE Types
    OBVIOUS
  <2>1. Now \in Timestamps
    BY NowIsATime DEF DirstateInit
  <2> QED BY <2>1, DirstateAssumption DEF DirstateInit, Types, Notes, Idle
<1>2. Types /\ [DirstateNext]_vars => Types'
  <2> SUFFICES ASSUME Types, [DirstateNext]_vars PROVE Types'
    OBVIOUS
  <2> USE DEF Types
  <2>0. Now \in Timestamps
    BY NowIsATime DEF Types
  <2>1. CASE Tick
    BY <2>1, DirstateAssumption DEF Tick
  <2>2. ASSUME NEW f \in Files, NEW v \in Contents, Edit(f, v) PROVE Types'
    BY <2>0, <2>2 DEF Edit
  <2>3. ASSUME NEW p \in Statuses, Load(p) PROVE Types'
    <3>1. [step |-> "loaded", fresh |-> TRUE, parent |-> parent, cache |-> cache,
           boundary |-> None, walk |-> Files, compare |-> {}, lstat |-> {}, fixup |-> <<>>]
          \in Walking
      BY Fresh DEF Walking, Notes
    <3> QED BY <2>3, <3>1 DEF Load
  <2>4. ASSUME NEW p \in Statuses, Boundary(p) PROVE Types'
    <3>1. status[p] \in Walking
      BY <2>4, IdleIsIdle DEF Boundary
    <3>2. [status[p] EXCEPT !.step = "walk", !.boundary = Now] \in Walking
      BY <2>0, <3>1 DEF Walking, Notes
    <3>3. [status[p] EXCEPT !.step = "walk", !.boundary = Now].boundary = Now
      BY <3>1 DEF Walking
    <3> QED BY <2>0, <2>4, <3>2, <3>3 DEF Boundary
  <2>5. ASSUME NEW p \in Statuses, NEW f \in Files, Walk(p, f) PROVE Types'
    <3>1. status[p] \in Walking
      BY <2>5, IdleIsIdle DEF Walk
    <3>2. PICK c \in SUBSET Files :
            status' = [status EXCEPT ![p] =
                        [status[p] EXCEPT !.walk = status[p].walk \ {f}, !.compare = c]]
      <4>1. status[p].compare \cup
              (IF LikelyEqual(status[p].cache[f], mtime[f]) THEN {} ELSE {f}) \in SUBSET Files
        BY <3>1 DEF Walking
      <4> QED BY <2>5, <4>1 DEF Walk
    <3>3. [status[p] EXCEPT !.walk = status[p].walk \ {f}, !.compare = c] \in Walking
      BY <3>1 DEF Walking
    <3>4. [status[p] EXCEPT !.walk = status[p].walk \ {f}, !.compare = c].boundary
            = status[p].boundary
      BY <3>1 DEF Walking
    <3> QED BY <2>5, <3>2, <3>3, <3>4 DEF Walk
  <2>6. ASSUME NEW p \in Statuses, NEW f \in Files, Compare(p, f) PROVE Types'
    <3>1. status[p] \in Walking
      BY <2>6, IdleIsIdle DEF Compare
    <3>2. PICK c \in SUBSET Files :
            status' = [status EXCEPT ![p] =
                        [status[p] EXCEPT !.compare = status[p].compare \ {f}, !.lstat = c]]
      <4>1. status[p].lstat \cup
              (IF content[f] = status[p].parent[f] THEN {f} ELSE {}) \in SUBSET Files
        BY <3>1 DEF Walking
      <4> QED BY <2>6, <4>1 DEF Compare
    <3>3. [status[p] EXCEPT !.compare = status[p].compare \ {f}, !.lstat = c] \in Walking
      BY <3>1 DEF Walking
    <3>4. [status[p] EXCEPT !.compare = status[p].compare \ {f}, !.lstat = c].boundary
            = status[p].boundary
      BY <3>1 DEF Walking
    <3> QED BY <2>6, <3>2, <3>3, <3>4 DEF Compare
  <2>7. ASSUME NEW p \in Statuses, NEW f \in Files, Lstat(p, f) PROVE Types'
    <3>1. status[p] \in Walking /\ status[p].boundary \in Timestamps
      BY <2>7, IdleIsIdle DEF Lstat
    <3>2. PICK c : c = WithFixup(status[p].fixup, f, ReliableMtime(mtime[f], status[p].boundary))
      OBVIOUS
    <3>3. c \in NotesOf(Timestamps)
      <4>1. status[p].fixup \in NotesOf(Timestamps)
        BY <3>1 DEF Walking
      <4>2. ReliableMtime(mtime[f], status[p].boundary) \in Timestamps \cup {None}
        BY <3>1 DEF ReliableMtime, Timestamps
      <4>3. PICK d \in NotesOf(Timestamps), m \in Timestamps \cup {None} :
              d = status[p].fixup /\ m = ReliableMtime(mtime[f], status[p].boundary)
        BY <4>1, <4>2
      <4>4. CASE m = None
        BY <3>2, <4>3, <4>4 DEF WithFixup
      <4>5. CASE m # None
        <5>1. With(d, f, m) \in NotesOf(Timestamps)
          BY <4>5, Extended
        <5> QED BY <3>2, <4>3, <4>5, <5>1 DEF WithFixup, With
      <4> QED BY <4>4, <4>5
    <3>4. status' = [status EXCEPT ![p] =
                        [status[p] EXCEPT !.lstat = status[p].lstat \ {f}, !.fixup = c]]
      BY <2>7, <3>2 DEF Lstat
    <3>5. [status[p] EXCEPT !.lstat = status[p].lstat \ {f}, !.fixup = c] \in Walking
      BY <3>1, <3>3 DEF Walking
    <3>6. [status[p] EXCEPT !.lstat = status[p].lstat \ {f}, !.fixup = c].boundary
            = status[p].boundary
      BY <3>1 DEF Walking
    <3> QED BY <2>7, <3>4, <3>5, <3>6 DEF Lstat
  <2> DEFINE Stale(st) ==
        [q \in Statuses |-> IF st[q] = Idle THEN Idle ELSE [st[q] EXCEPT !.fresh = FALSE]]
  <2>8. ASSUME NEW st \in [Statuses -> Walking \cup {Idle}],
               \A q \in Statuses : st[q].step = "walk" => st[q].boundary \in Timestamps
        PROVE  /\ Stale(st) \in [Statuses -> Walking \cup {Idle}]
               /\ \A q \in Statuses : Stale(st)[q].step = "walk" =>
                                         Stale(st)[q].boundary \in Timestamps
    <3>1. ASSUME NEW q \in Statuses, st[q] # Idle
          PROVE  /\ [st[q] EXCEPT !.fresh = FALSE] \in Walking
                 /\ [st[q] EXCEPT !.fresh = FALSE].step = st[q].step
                 /\ [st[q] EXCEPT !.fresh = FALSE].boundary = st[q].boundary
      <4>1. st[q] \in Walking
        BY <3>1
      <4> QED BY <4>1 DEF Walking
    <3> QED BY <2>8, <3>1
  <2>9. ASSUME NEW new, Written(new)
        PROVE  /\ cache' = new /\ status' \in [Statuses -> Walking \cup {Idle}]
               /\ \A q \in Statuses : status'[q].step = "walk" =>
                                         status'[q].boundary \in Timestamps
    BY <2>8, <2>9 DEF Written
  <2>10. ASSUME NEW p \in Statuses, PostStatusFixup(p) PROVE Types'
    <3> DEFINE ends == [status EXCEPT ![p] = Idle]
    <3>1. /\ ends \in [Statuses -> Walking \cup {Idle}]
          /\ \A q \in Statuses : ends[q].step = "walk" => ends[q].boundary \in Timestamps
      BY DEF Idle
    <3>2. CASE MayFixup(p)
      <4>1. status[p] \in Walking
        BY <2>10, IdleIsIdle DEF PostStatusFixup
      <4>2. ASSUME NEW f \in Files
            PROVE  (IF f \in DOMAIN status[p].fixup THEN Stored(status[p].fixup[f]) ELSE cache[f])
                     \in Notes
        <5>1. status[p].fixup \in NotesOf(Timestamps)
          BY <4>1 DEF Walking
        <5>2. f \in DOMAIN status[p].fixup => status[p].fixup[f] \in Notes
          BY <5>1, DomainOfNotes DEF Notes
        <5> QED BY <5>2, StoredIsANote
      <4>3. cache' \in [Files -> Notes]
        BY <2>10, <3>2, <4>2 DEF PostStatusFixup
      <4>4. status' = Stale(ends)
        BY <2>10, <3>2 DEF PostStatusFixup
      <4>5. /\ status' \in [Statuses -> Walking \cup {Idle}]
            /\ \A q \in Statuses : status'[q].step = "walk" => status'[q].boundary \in Timestamps
        BY <2>8, <3>1, <4>4
      <4> QED BY <2>10, <4>3, <4>5 DEF PostStatusFixup
    <3>3. CASE ~MayFixup(p)
      BY <2>10, <3>1, <3>3 DEF PostStatusFixup
    <3> QED BY <3>2, <3>3
  <2>11. ASSUME NEW target \in [Files -> Contents], BeginUpdate(target) PROVE Types'
    <3>1. [step |-> "writing", target |-> target, data |-> <<>>,
           left |-> {f \in Files : content[f] # target[f] \/ parent[f] # target[f]}] \in Commands
      BY Fresh DEF Commands
    <3> QED BY <2>11, <3>1 DEF BeginUpdate
  <2>12. ASSUME NEW f \in Files, WriteFile(f) PROVE Types'
    <3>1. command \in Commands
      BY <2>12, IdleIsIdle DEF WriteFile
    <3>2. command.target[f] \in Contents
      BY <3>1 DEF Commands
    <3>3. PICK d : d = [g \in DOMAIN command.data \cup {f} |->
                           IF g = f THEN Now ELSE command.data[g]]
      OBVIOUS
    <3>4. d \in NotesOf(Notes)
      <4>1. PICK e \in NotesOf(Notes), m \in Notes : e = command.data /\ m = Now
        BY <2>0, <3>1 DEF Commands, Notes
      <4>2. With(e, f, m) \in NotesOf(Notes)
        BY Extended
      <4> QED BY <3>3, <4>1, <4>2 DEF With
    <3>5. [command EXCEPT !.left = command.left \ {f}, !.data = d] \in Commands
      BY <3>1, <3>4 DEF Commands
    <3> QED BY <2>0, <2>12, <3>2, <3>3, <3>5 DEF WriteFile
  <2>13. CASE FilterData
    <3>1. command \in Commands
      BY <2>13, IdleIsIdle DEF FilterData
    <3>2. FilteredData(command.data) \in NotesOf(Notes)
      <4>1. PICK D \in SUBSET Files : command.data \in [D -> Notes]
        BY <3>1 DEF Commands, NotesOf
      <4>2. FilteredData(command.data) \in [D -> Notes]
        BY <4>1 DEF FilteredData, Notes
      <4> QED BY <4>2 DEF NotesOf
    <3>3. [command EXCEPT !.step = "written", !.data = FilteredData(command.data)] \in Commands
      BY <3>1, <3>2 DEF Commands
    <3> QED BY <2>13, <3>3 DEF FilterData
  <2>14. CASE EndUpdate
    <3>1. command \in Commands
      BY <2>14, IdleIsIdle DEF EndUpdate
    <3>2. ASSUME NEW f \in Files
          PROVE  (IF f \in DOMAIN command.data THEN Stored(command.data[f]) ELSE cache[f]) \in Notes
      <4>1. command.data \in NotesOf(Notes)
        BY <3>1 DEF Commands
      <4> QED BY <4>1, DomainOfNotes, StoredIsANote
    <3>3. command.target \in [Files -> Contents]
      BY <3>1 DEF Commands
    <3>4. PICK new : new = [f \in Files |-> IF f \in DOMAIN command.data
                                  THEN Stored(command.data[f]) ELSE cache[f]]
      OBVIOUS
    <3>5. new \in [Files -> Notes]
      BY <3>2, <3>4
    <3>6. Written(new)
      BY <2>14, <3>4 DEF EndUpdate
    <3> QED BY <2>9, <2>14, <3>3, <3>5, <3>6 DEF EndUpdate
  <2>15. CASE BeginCommit
    <3>1. PICK m \in SUBSET Files :
            command' = [step |-> "committing", target |-> content, left |-> m, data |-> <<>>]
      BY <2>15 DEF BeginCommit
    <3>2. [step |-> "committing", target |-> content, left |-> m, data |-> <<>>] \in Commands
      BY Fresh DEF Commands
    <3> QED BY <2>15, <3>1, <3>2 DEF BeginCommit
  <2>16. CASE EndCommit
    <3>1. command \in Commands
      BY <2>16, IdleIsIdle DEF EndCommit
    <3>2. parent' \in [Files -> Contents]
      BY <2>16, <3>1 DEF EndCommit, Commands
    <3>3. PICK new : new = [f \in Files |-> Committed(cache[f], f)]
      OBVIOUS
    <3>4. new \in [Files -> Notes]
      BY <3>3 DEF Committed, Notes
    <3>5. Written(new)
      BY <2>16, <3>3 DEF EndCommit
    <3> QED BY <2>9, <2>16, <3>2, <3>4, <3>5 DEF EndCommit
  <2>17. ASSUME NEW target \in [Files -> Contents], Keep(target) PROVE Types'
    <3>1. PICK new : new = [f \in Files |-> IF parent[f] # target[f] THEN None ELSE cache[f]]
      OBVIOUS
    <3>2. new \in [Files -> Notes]
      BY <3>1 DEF Notes
    <3>3. Written(new)
      BY <2>17, <3>1 DEF Keep
    <3> QED BY <2>9, <2>17, <3>2, <3>3 DEF Keep
  <2>18. CASE Die
    BY <2>18 DEF Die
  <2>19. CASE UNCHANGED vars
    BY <2>19 DEF vars
  <2> QED
    BY <2>1, <2>2, <2>3, <2>4, <2>5, <2>6, <2>7, <2>10, <2>11, <2>12, <2>13, <2>14, <2>15,
       <2>16, <2>17, <2>18, <2>19, Zenon DEF DirstateNext
<1> QED BY <1>1, <1>2, PTL DEF DirstateSpec

\* The type invariant that the run checks, for every instance.
THEOREM TypeCorrect == DirstateSpec => []DirstateTypeOK
<1>1. Types => DirstateTypeOK
  <2> SUFFICES ASSUME Types PROVE DirstateTypeOK
    OBVIOUS
  <2>1. ASSUME NEW p \in Statuses, status[p] # Idle
        PROVE  \A f \in DOMAIN status[p].fixup : status[p].fixup[f] \in Timestamps
    <3>1. status[p] \in Walking
      BY <2>1 DEF Types
    <3>2. status[p].fixup \in NotesOf(Timestamps)
      BY <3>1 DEF Walking
    <3> QED BY <3>2, DomainOfNotes
  <2> QED BY <2>1 DEF Types, DirstateTypeOK, Notes
<1> QED BY <1>1, TypesInv, PTL

-----------------------------------------------------------------------------
(* Notes stay true *)

\* What every step leaves as it was: time goes on, and a file that changes has the
\* time at which it does.
Passes ==
    /\ machine' = machine /\ Later(Now, Now')
    /\ \A f \in Files :
          \/ mtime'[f] = mtime[f] /\ content'[f] = content[f]
          \/ mtime'[f] = Now

LEMMA Steady ==
    ASSUME Types, machine' = machine, clock' = clock PROVE Later(Now, Now')
<1>1. Now \in Timestamps
  BY NowIsATime DEF Types
<1>2. Now' = Now
  BY DEF Now
<1> QED BY <1>1, <1>2 DEF Later, Timestamps

LEMMA StepPasses ==
    ASSUME Types, [DirstateNext]_vars PROVE Passes
<1>1. CASE Tick
  <2>1. clock \in Nat /\ clock' = clock + 1 /\ machine' = machine
    BY <1>1 DEF Tick, Types
  <2>2. Later(Now, Now')
    <3>1. /\ clock' \div PerSecond >= clock \div PerSecond
          /\ clock' \div PerSecond = clock \div PerSecond =>
                clock' % PerSecond >= clock % PerSecond
      BY <2>1, TickForward, DirstateAssumption
    <3>2. /\ clock \div PerSecond \in Nat /\ clock % PerSecond \in Nat
          /\ clock' \div PerSecond \in Nat /\ clock' % PerSecond \in Nat
      BY <2>1, DirstateAssumption
    <3> QED BY <2>1, <3>1, <3>2 DEF Later, Now
  <2> QED BY <1>1, <2>1, <2>2 DEF Tick, Passes
<1>2. ASSUME NEW f \in Files, NEW v \in Contents, Edit(f, v) PROVE Passes
  BY <1>2, Steady DEF Edit, Passes, Types
<1>3. ASSUME NEW f \in Files, WriteFile(f) PROVE Passes
  BY <1>3, Steady DEF WriteFile, Passes, Types
<1>4. ASSUME UNCHANGED <<machine, clock, content, mtime>> PROVE Passes
  BY <1>4, Steady DEF Passes
<1>5. ASSUME NEW p \in Statuses,
             Load(p) \/ Boundary(p) \/ PostStatusFixup(p) \/
             \E f \in Files : Walk(p, f) \/ Compare(p, f) \/ Lstat(p, f)
      PROVE  Passes
  BY <1>4, <1>5 DEF Load, Boundary, PostStatusFixup, Walk, Compare, Lstat
<1>6. ASSUME NEW target \in [Files -> Contents], BeginUpdate(target) \/ Keep(target)
      PROVE  Passes
  BY <1>4, <1>6 DEF BeginUpdate, Keep
<1>7. CASE FilterData \/ EndUpdate \/ BeginCommit \/ EndCommit \/ Die
  BY <1>4, <1>7 DEF FilterData, EndUpdate, BeginCommit, EndCommit, Die
<1>8. CASE UNCHANGED vars
  BY <1>4, <1>8 DEF vars
<1> QED BY <1>1, <1>2, <1>3, <1>5, <1>6, <1>7, <1>8, Zenon DEF DirstateNext

\* A note that is safe stays so, and stays true: a file that changes no longer matches.
LEMMA NotePasses ==
    ASSUME Types, Types', Passes, NEW m \in Notes, NEW f \in Files, NEW v, Safe(m)
    PROVE  /\ Safe(m)'
           /\ Tells(m, f, v) => Tells(m, f, v)'
           /\ Tells(Stored(m), f, v) => Tells(Stored(m), f, v)'
<1>1. Now \in Timestamps /\ Now' \in Timestamps
  BY NowIsATime DEF Types
<1>2. Safe(m)'
  <2>1. CASE m = None
    BY <2>1 DEF Safe
  <2>2. CASE m # None
    BY <1>1, <2>2 DEF Safe, Passes, Later, Notes, Timestamps
  <2> QED BY <2>1, <2>2
<1>3. ~LikelyEqual(m, Now) /\ ~LikelyEqual(Stored(m), Now)
  BY SafeIsUnlike
<1>4. Tells(m, f, v) => Tells(m, f, v)'
  BY <1>3 DEF Tells, Passes
<1>5. PICK n : n = Stored(m) /\ n = Stored(m)'
  BY DEF Stored, Passes
<1>6. Tells(Stored(m), f, v) => Tells(Stored(m), f, v)'
  BY <1>3, <1>5 DEF Tells, Passes
<1> QED BY <1>2, <1>4, <1>6

LEMMA CacheKept ==
    ASSUME Types, Types', Passes, CacheOK, cache' = cache, parent' = parent
    PROVE  CacheOK'
<1> SUFFICES ASSUME NEW f \in Files
             PROVE  (Safe(cache[f]) /\ Tells(cache[f], f, parent[f]))'
  BY DEF CacheOK
<1>1. PICK m \in Notes, v \in Contents : m = cache[f] /\ v = parent[f]
  BY DEF Types
<1>2. Safe(m) /\ Tells(m, f, v)
  BY <1>1 DEF CacheOK
<1>3. Safe(m)' /\ Tells(m, f, v)'
  BY <1>2, NotePasses
<1>4. m = cache'[f] /\ v = parent'[f]
  BY <1>1
<1> QED BY <1>3, <1>4 DEF Safe, Tells

\* The status goes on with what it has, or with an older dirstate than others.
Follows(s, t) == (t = s /\ parent' = parent) \/ t = [s EXCEPT !.fresh = FALSE]

LEMMA WalkKept ==
    ASSUME Types, Types', Passes, NEW s \in Walking, WalkOK(s), NEW t, Follows(s, t),
           s.step = "walk" => s.boundary \in Timestamps
    PROVE  WalkOK(t)'
<1>1. /\ t.cache = s.cache /\ t.parent = s.parent /\ t.step = s.step
      /\ t.boundary = s.boundary /\ t.lstat = s.lstat /\ t.fixup = s.fixup
      /\ t.fresh => s.fresh /\ parent' = parent
  BY DEF Follows, Walking
<1>2. t.fresh => t.parent = parent'
  BY <1>1 DEF WalkOK
<1>3. ASSUME NEW f \in Files PROVE Safe(t.cache[f])' /\ Tells(t.cache[f], f, t.parent[f])'
  <2>1. PICK m \in Notes, v \in Contents : m = s.cache[f] /\ v = s.parent[f]
    BY DEF Walking
  <2>2. Safe(m) /\ Tells(m, f, v)
    BY <2>1 DEF WalkOK
  <2>3. Safe(m)' /\ Tells(m, f, v)'
    BY <2>2, NotePasses
  <2> QED BY <1>1, <2>1, <2>3
<1>4. t.step = "loaded" => t.lstat = {}
  BY <1>1 DEF WalkOK
<1>5. Now \in Timestamps
  BY NowIsATime DEF Types
<1>6. t.step = "walk" => Later(t.boundary, Now) /\ Later(t.boundary, Now')
  <2> SUFFICES ASSUME t.step = "walk"
               PROVE  Later(t.boundary, Now) /\ Later(t.boundary, Now')
    OBVIOUS
  <2>1. Later(t.boundary, Now)
    BY <1>1 DEF WalkOK
  <2>2. t.boundary \in Timestamps
    BY <1>1
  <2>3. Now' \in Timestamps
    BY NowIsATime DEF Types
  <2>4. Later(Now, Now')
    BY DEF Passes
  <2>5. Later(t.boundary, Now')
    BY <1>5, <2>1, <2>2, <2>3, <2>4 DEF Later, Timestamps
  <2> QED BY <2>1, <2>5
<1>7. ASSUME NEW f \in t.lstat
      PROVE  content'[f] = t.parent[f] \/ Later(t.boundary, mtime'[f])
  <2>1. f \in Files /\ t.step = "walk"
    BY <1>1, <1>4, <1>7 DEF Walking
  <2>2. content[f] = t.parent[f] \/ Later(t.boundary, mtime[f])
    BY <1>1, <1>7 DEF WalkOK
  <2> QED BY <1>6, <2>1, <2>2 DEF Passes
<1>8. ASSUME NEW f \in DOMAIN t.fixup
      PROVE  Safe(t.fixup[f])' /\ Tells(Stored(t.fixup[f]), f, t.parent[f])'
  <2>1. s.fixup \in NotesOf(Timestamps)
    BY DEF Walking
  <2>2. f \in Files
    BY <1>1, <1>8, <2>1, DomainOfNotes
  <2>3. PICK m \in Notes, v \in Contents : m = s.fixup[f] /\ v = s.parent[f]
    BY <1>1, <1>8, <2>1, <2>2, DomainOfNotes DEF Notes, Walking
  <2>4. Safe(m) /\ Tells(Stored(m), f, v)
    BY <1>1, <1>8, <2>3 DEF WalkOK
  <2>5. Safe(m)' /\ Tells(Stored(m), f, v)'
    BY <2>2, <2>4, NotePasses
  <2> QED BY <1>1, <2>3, <2>5
<1> QED BY <1>2, <1>3, <1>4, <1>6, <1>7, <1>8 DEF WalkOK, Safe, Tells

\* The same, where nothing but the status itself changes.
LEMMA WalkSteady ==
    ASSUME UNCHANGED <<machine, clock, content, mtime, parent>>, NEW t, WalkOK(t)
    PROVE  WalkOK(t)'
BY DEF WalkOK, Safe, Tells, Stored, Now

LEMMA StatusIs ==
    ASSUME NEW p \in Statuses, NEW t, t = status'[p], WalkOK(t)'
    PROVE  WalkOK(status[p])'
BY DEF WalkOK, Safe, Tells

LEMMA StatusFollows ==
    ASSUME Types, Types', Passes, StatusOK, NEW p \in Statuses,
           \/ status'[p] = Idle
           \/ status[p] # Idle /\ Follows(status[p], status'[p])
    PROVE  (status[p] # Idle => WalkOK(status[p]))'
<1> SUFFICES ASSUME status'[p] # Idle PROVE WalkOK(status[p])'
  OBVIOUS
<1>1. PICK s \in Walking : s = status[p]
  BY DEF Types
<1>2. PICK t : t = status'[p]
  OBVIOUS
<1>3. WalkOK(s)
  BY <1>1 DEF StatusOK, WalkOK
<1>4. s.step = "walk" => s.boundary \in Timestamps
  BY <1>1 DEF Types
<1>5. Follows(s, t)
  BY <1>1, <1>2 DEF Follows
<1>6. WalkOK(t)'
  BY <1>3, <1>4, <1>5, WalkKept
<1> QED BY <1>2, <1>6, StatusIs

LEMMA CommandKept ==
    ASSUME Types, Types', Passes, WritingOK, WrittenOK, command' = command, parent' = parent,
           command.step = "writing" => content' = content /\ mtime' = mtime
    PROVE  WritingOK' /\ WrittenOK'
<1>1. WritingOK'
  BY DEF WritingOK
<1>2. WrittenOK'
  <2> SUFFICES ASSUME command.step = "written", NEW f \in Files
               PROVE  (IF f \in DOMAIN command.data
                         THEN /\ Safe(command.data[f])
                              /\ Tells(Stored(command.data[f]), f, command.target[f])
                         ELSE parent[f] = command.target[f])'
    BY DEF WrittenOK
  <2>1. CASE f \in DOMAIN command.data
    <3>1. command \in Commands
      BY DEF Types, Idle
    <3>2. command.data \in NotesOf(Notes)
      BY <3>1 DEF Commands
    <3>3. PICK m \in Notes, v \in Contents : m = command.data[f] /\ v = command.target[f]
      BY <2>1, <3>1, <3>2, DomainOfNotes DEF Commands
    <3>4. Safe(m) /\ Tells(Stored(m), f, v)
      BY <2>1, <3>3 DEF WrittenOK
    <3>5. Safe(m)' /\ Tells(Stored(m), f, v)'
      BY <3>4, NotePasses
    <3>6. m = command'.data[f] /\ v = command'.target[f] /\ f \in DOMAIN command'.data
      BY <2>1, <3>3
    <3> QED BY <3>5, <3>6 DEF Safe, Tells, Stored
  <2>2. CASE f \notin DOMAIN command.data
    BY <2>2 DEF WrittenOK
  <2> QED BY <2>1, <2>2
<1> QED BY <1>1, <1>2

-----------------------------------------------------------------------------
(* One lemma per step *)

\* A step of a status that writes nothing: only what it has found is different.
LEMMA StatusStep ==
    ASSUME Types, Types', Truth, Passes, NEW p \in Statuses, NEW t \in Walking, WalkOK(t),
           status' = [status EXCEPT ![p] = t],
           UNCHANGED <<machine, clock, content, mtime, parent, cache, command>>
    PROVE  Truth'
<1>1. CacheOK' /\ WritingOK' /\ WrittenOK'
  BY CacheKept, CommandKept DEF Truth
<1>2. ASSUME NEW q \in Statuses PROVE (status[q] # Idle => WalkOK(status[q]))'
  <2>1. CASE q = p
    <3>1. t = status'[q]
      BY <2>1 DEF Types
    <3>2. WalkOK(t)'
      BY WalkSteady
    <3> QED BY <3>1, <3>2, StatusIs
  <2>2. CASE q # p
    <3>1. status'[q] = status[q]
      BY <2>2 DEF Types
    <3> QED BY <3>1, StatusFollows DEF Truth, Follows
  <2> QED BY <2>1, <2>2
<1>3. StatusOK'
  BY <1>2 DEF StatusOK
<1> QED BY <1>1, <1>3 DEF Truth

LEMMA LoadIsTrue ==
    ASSUME Types, Types', Truth, Passes, NEW p \in Statuses, Load(p) PROVE Truth'
<1>1. PICK t : t = [step |-> "loaded", fresh |-> TRUE, parent |-> parent, cache |-> cache,
                    boundary |-> None, walk |-> Files, compare |-> {}, lstat |-> {},
                    fixup |-> <<>>]
  OBVIOUS
<1>2. t \in Walking
  BY <1>1, Fresh DEF Walking, Notes, Types
<1>3. WalkOK(t)
  <2>1. /\ t.fresh => t.parent = parent
        /\ t.cache = cache /\ t.parent = parent /\ t.step = "loaded" /\ t.lstat = {}
        /\ DOMAIN t.fixup = {}
    BY <1>1
  <2> QED BY <2>1 DEF WalkOK, Truth, CacheOK
<1> QED BY <1>1, <1>2, <1>3, StatusStep DEF Load

LEMMA BoundaryIsTrue ==
    ASSUME Types, Types', Truth, Passes, NEW p \in Statuses, Boundary(p) PROVE Truth'
<1>1. PICK s \in Walking : s = status[p]
  BY IdleIsIdle DEF Boundary, Types
<1>2. PICK t : t = [s EXCEPT !.step = "walk", !.boundary = Now]
  OBVIOUS
<1>3. Now \in Timestamps
  BY NowIsATime DEF Types
<1>4. t \in Walking
  BY <1>2, <1>3 DEF Walking, Notes
<1>5. WalkOK(t)
  <2>1. WalkOK(s) /\ s.step = "loaded"
    BY <1>1, IdleIsIdle DEF Boundary, Truth, StatusOK, WalkOK
  <2>2. /\ t.fresh = s.fresh /\ t.cache = s.cache /\ t.parent = s.parent /\ t.step = "walk"
        /\ t.lstat = s.lstat /\ t.fixup = s.fixup /\ t.boundary = Now
    BY <1>2 DEF Walking
  <2>3. Later(Now, Now)
    BY <1>3 DEF Later, Timestamps
  <2> QED BY <2>1, <2>2, <2>3 DEF WalkOK
<1>6. status' = [status EXCEPT ![p] = t]
  BY <1>1, <1>2 DEF Boundary
<1> QED BY <1>4, <1>5, <1>6, StatusStep DEF Boundary

LEMMA WalkStepIsTrue ==
    ASSUME Types, Types', Truth, Passes, NEW p \in Statuses, NEW f \in Files, Walk(p, f)
    PROVE  Truth'
<1>1. PICK s \in Walking : s = status[p]
  BY IdleIsIdle DEF Walk, Types
<1>2. PICK c \in SUBSET Files : c = s.compare \cup
                                      (IF LikelyEqual(s.cache[f], mtime[f]) THEN {} ELSE {f})
  BY DEF Walking
<1>3. PICK t : t = [s EXCEPT !.walk = s.walk \ {f}, !.compare = c]
  OBVIOUS
<1>4. t \in Walking
  BY <1>3 DEF Walking
<1>5. WalkOK(t)
  <2>1. WalkOK(s)
    BY <1>1, IdleIsIdle DEF Truth, StatusOK, WalkOK
  <2>2. /\ t.fresh = s.fresh /\ t.cache = s.cache /\ t.parent = s.parent /\ t.step = s.step
        /\ t.lstat = s.lstat /\ t.fixup = s.fixup /\ t.boundary = s.boundary
    BY <1>3 DEF Walking
  <2> QED BY <2>1, <2>2 DEF WalkOK
<1>6. status' = [status EXCEPT ![p] = t]
  BY <1>1, <1>2, <1>3 DEF Walk
<1> QED BY <1>4, <1>5, <1>6, StatusStep DEF Walk

LEMMA CompareIsTrue ==
    ASSUME Types, Types', Truth, Passes, NEW p \in Statuses, NEW f \in Files, Compare(p, f)
    PROVE  Truth'
<1>1. PICK s \in Walking : s = status[p]
  BY IdleIsIdle DEF Compare, Types
<1>2. PICK c \in SUBSET Files : c = s.lstat \cup
                                      (IF content[f] = s.parent[f] THEN {f} ELSE {})
  BY DEF Walking
<1>3. PICK t : t = [s EXCEPT !.compare = s.compare \ {f}, !.lstat = c]
  OBVIOUS
<1>4. t \in Walking
  BY <1>3 DEF Walking
<1>5. WalkOK(t)
  <2>1. WalkOK(s) /\ s.step = "walk"
    BY <1>1, IdleIsIdle DEF Truth, StatusOK, WalkOK, Compare
  <2>2. /\ t.fresh = s.fresh /\ t.cache = s.cache /\ t.parent = s.parent /\ t.step = s.step
        /\ t.lstat = c /\ t.fixup = s.fixup /\ t.boundary = s.boundary
    BY <1>3 DEF Walking
  <2>3. \A g \in c : content[g] = s.parent[g] \/ Later(s.boundary, mtime[g])
    BY <1>2, <2>1 DEF WalkOK
  <2> QED BY <2>1, <2>2, <2>3 DEF WalkOK
<1>6. status' = [status EXCEPT ![p] = t]
  BY <1>1, <1>2, <1>3 DEF Compare
<1> QED BY <1>4, <1>5, <1>6, StatusStep DEF Compare

LEMMA LstatIsTrue ==
    ASSUME Types, Types', Truth, Passes, NEW p \in Statuses, NEW f \in Files, Lstat(p, f)
    PROVE  Truth'
<1>1. PICK s \in Walking : s = status[p]
  BY IdleIsIdle DEF Lstat, Types
<1>2. PICK m : m = ReliableMtime(mtime[f], s.boundary)
  OBVIOUS
<1>3. PICK d : d = WithFixup(s.fixup, f, m)
  OBVIOUS
<1>4. PICK t : t = [s EXCEPT !.lstat = s.lstat \ {f}, !.fixup = d]
  OBVIOUS
<1>5. WalkOK(s) /\ s.step = "walk" /\ s.boundary \in Timestamps /\ f \in s.lstat
  BY <1>1, IdleIsIdle DEF Truth, StatusOK, WalkOK, Lstat, Types
<1>6. /\ m \in Timestamps \cup {None} /\ Safe(m)
      /\ m # None => content[f] = s.parent[f]
  <2>1. PICK n \in Timestamps, b \in Timestamps : n = mtime[f] /\ b = s.boundary
    BY <1>5 DEF Types
  <2>2. Later(b, Now)
    BY <1>5, <2>1 DEF WalkOK
  <2>3. /\ ReliableMtime(n, b) \in Notes /\ Safe(ReliableMtime(n, b))
        /\ Later(b, n) => ReliableMtime(n, b) = None
    BY <2>2, ReliableIsSafe
  <2>4. m = ReliableMtime(n, b)
    BY <1>2, <2>1
  <2>5. content[f] = s.parent[f] \/ Later(b, n)
    BY <1>5, <2>1 DEF WalkOK
  <2> QED BY <2>3, <2>4, <2>5 DEF Notes
<1>7. /\ d \in NotesOf(Timestamps)
      /\ \A g \in DOMAIN d : IF m # None /\ g = f THEN d[g] = m
                             ELSE g \in DOMAIN s.fixup /\ d[g] = s.fixup[g]
  <2>1. PICK e \in NotesOf(Timestamps) : e = s.fixup
    BY DEF Walking
  <2>2. CASE m = None
    BY <1>3, <2>1, <2>2 DEF WithFixup
  <2>3. CASE m # None
    <3>1. With(e, f, m) \in NotesOf(Timestamps)
      BY <1>6, <2>3, Extended
    <3>2. d = With(e, f, m)
      BY <1>3, <2>1, <2>3 DEF WithFixup, With
    <3>3. \A g \in DOMAIN d : IF g = f THEN d[g] = m ELSE g \in DOMAIN e /\ d[g] = e[g]
      BY <3>2 DEF With
    <3> QED BY <2>1, <2>3, <3>1, <3>2, <3>3
  <2> QED BY <2>2, <2>3
<1>8. t \in Walking
  BY <1>4, <1>7 DEF Walking
<1>9. /\ t.fresh = s.fresh /\ t.cache = s.cache /\ t.parent = s.parent /\ t.step = s.step
      /\ t.lstat = s.lstat \ {f} /\ t.fixup = d /\ t.boundary = s.boundary
  BY <1>4 DEF Walking
<1>10. \A g \in DOMAIN d : Safe(d[g]) /\ Tells(Stored(d[g]), g, s.parent[g])
  <2>1. ASSUME NEW g \in DOMAIN d, m # None, g = f
        PROVE  Safe(d[g]) /\ Tells(Stored(d[g]), g, s.parent[g])
    BY <1>6, <1>7, <2>1 DEF Tells
  <2>2. ASSUME NEW g \in DOMAIN d, ~(m # None /\ g = f)
        PROVE  Safe(d[g]) /\ Tells(Stored(d[g]), g, s.parent[g])
    BY <1>5, <1>7, <2>2 DEF WalkOK
  <2> QED BY <2>1, <2>2
<1>11. WalkOK(t)
  BY <1>5, <1>9, <1>10 DEF WalkOK
<1>12. status' = [status EXCEPT ![p] = t]
  BY <1>1, <1>2, <1>3, <1>4 DEF Lstat
<1> QED BY <1>8, <1>11, <1>12, StatusStep DEF Lstat

\* A step that replaces the dirstate leaves every other status with an older one.
LEMMA OthersFollow ==
    ASSUME Types, Types', Truth, Passes,
           \A p \in Statuses :
              \/ status'[p] = Idle
              \/ status[p] # Idle /\ Follows(status[p], status'[p])
    PROVE  StatusOK'
BY StatusFollows DEF Truth, StatusOK

LEMMA WrittenFollows ==
    ASSUME Types, Types', Truth, Passes, NEW new, Written(new) PROVE StatusOK'
<1>1. ASSUME NEW p \in Statuses
      PROVE  \/ status'[p] = Idle
             \/ status[p] # Idle /\ Follows(status[p], status'[p])
  BY <1>1 DEF Written, Follows
<1> QED BY <1>1, OthersFollow

\* The new dirstate is true if each of its notes is.
LEMMA NewCache ==
    ASSUME Types, UNCHANGED <<machine, clock, content, mtime>>,
           NEW new, NEW old, cache' = new, parent' = old,
           \A f \in Files : Safe(new[f]) /\ Tells(new[f], f, old[f])
    PROVE  CacheOK'
BY DEF CacheOK, Safe, Tells, Now

LEMMA PostStatusFixupIsTrue ==
    ASSUME Types, Types', Truth, Passes, NEW p \in Statuses, PostStatusFixup(p) PROVE Truth'
<1>1. WritingOK' /\ WrittenOK'
  BY CommandKept DEF PostStatusFixup, Truth
<1>2. CASE MayFixup(p)
  <2>1. PICK s \in Walking : s = status[p]
    BY IdleIsIdle DEF PostStatusFixup, Types
  <2>2. WalkOK(s) /\ s.parent = parent /\ s.fixup \in NotesOf(Timestamps)
    BY <1>2, <2>1, IdleIsIdle DEF Truth, StatusOK, WalkOK, MayFixup, Walking
  <2>3. PICK new : new = [f \in Files |-> IF f \in DOMAIN s.fixup THEN Stored(s.fixup[f])
                                                                   ELSE cache[f]]
    OBVIOUS
  <2>4. ASSUME NEW f \in Files PROVE Safe(new[f]) /\ Tells(new[f], f, parent[f])
    <3>1. CASE f \in DOMAIN s.fixup
      <4>1. PICK m \in Notes : m = s.fixup[f]
        BY <2>2, <3>1, DomainOfNotes DEF Notes
      <4>2. Safe(m) /\ Tells(Stored(m), f, parent[f])
        BY <2>2, <3>1, <4>1 DEF WalkOK
      <4> QED BY <2>3, <3>1, <4>1, <4>2, SafeIsUnlike
    <3>2. CASE f \notin DOMAIN s.fixup
      BY <2>3, <3>2 DEF Truth, CacheOK
    <3> QED BY <3>1, <3>2
  <2>5. cache' = new
    BY <1>2, <2>1, <2>3 DEF PostStatusFixup
  <2>6. CacheOK'
    <3>1. PICK old : old = parent
      OBVIOUS
    <3> QED BY <2>4, <2>5, <3>1, NewCache DEF PostStatusFixup
  <2>7. ASSUME NEW q \in Statuses
        PROVE  \/ status'[q] = Idle
               \/ status[q] # Idle /\ Follows(status[q], status'[q])
    BY <1>2, <2>7 DEF PostStatusFixup, Follows, Types
  <2>8. StatusOK'
    BY <2>7, OthersFollow
  <2> QED BY <1>1, <2>6, <2>8 DEF Truth
<1>3. CASE ~MayFixup(p)
  <2>1. CacheOK'
    BY <1>3, CacheKept DEF PostStatusFixup, Truth
  <2>2. ASSUME NEW q \in Statuses
        PROVE  \/ status'[q] = Idle
               \/ status[q] # Idle /\ Follows(status[q], status'[q])
    BY <1>3, <2>2 DEF PostStatusFixup, Follows, Types
  <2>3. StatusOK'
    BY <2>2, OthersFollow
  <2> QED BY <1>1, <2>1, <2>3 DEF Truth
<1> QED BY <1>2, <1>3

\* Steps that touch neither the dirstate nor a status.
LEMMA FilesOrCommand ==
    ASSUME Types, Types', Truth, Passes, UNCHANGED <<parent, cache, status>>
    PROVE  CacheOK' /\ StatusOK'
<1>1. CacheOK'
  BY CacheKept DEF Truth
<1>2. StatusOK'
  BY OthersFollow DEF Follows
<1> QED BY <1>1, <1>2

LEMMA WriteFileIsTrue ==
    ASSUME Types, Types', Truth, Passes, NEW f \in Files, WriteFile(f) PROVE Truth'
<1>1. CacheOK' /\ StatusOK'
  BY FilesOrCommand DEF WriteFile
<1>2. PICK c \in Commands : c = command
  BY IdleIsIdle DEF WriteFile, Types
<1>3. PICK d : d = With(c.data, f, Now)
  OBVIOUS
<1>4. PICK e : e = [c EXCEPT !.left = c.left \ {f}, !.data = d]
  OBVIOUS
<1>5. /\ e.step = "writing" /\ e.data = d /\ e.target = c.target /\ e.left = c.left \ {f}
  BY <1>2, <1>4 DEF Commands, WriteFile
<1>6. command' = e
  BY <1>2, <1>3, <1>4 DEF WriteFile, With
<1>7. WritingOK'
  <2> SUFFICES ASSUME NEW g \in Files
               PROVE  IF g \in DOMAIN d
                        THEN d[g] = mtime'[g] /\ content'[g] = c.target[g]
                        ELSE g \in c.left \ {f} \/ (/\ content'[g] = c.target[g]
                                                    /\ parent'[g] = c.target[g])
    BY <1>5, <1>6 DEF WritingOK
  <2>1. CASE g = f
    BY <1>2, <1>3, <2>1 DEF WriteFile, With, Types
  <2>2. CASE g # f
    <3>1. /\ g \in DOMAIN d <=> g \in DOMAIN c.data
          /\ g \in DOMAIN d => d[g] = c.data[g]
      BY <1>3, <2>2 DEF With
    <3>2. /\ IF g \in DOMAIN c.data
               THEN c.data[g] = mtime[g] /\ content[g] = c.target[g]
               ELSE g \in c.left \/ (content[g] = c.target[g] /\ parent[g] = c.target[g])
          /\ content'[g] = content[g] /\ mtime'[g] = mtime[g] /\ parent'[g] = parent[g]
      BY <1>2, <2>2 DEF WriteFile, Truth, WritingOK, Types
    <3> QED BY <2>2, <3>1, <3>2
  <2> QED BY <2>1, <2>2
<1>8. WrittenOK'
  BY <1>5, <1>6 DEF WrittenOK
<1> QED BY <1>1, <1>7, <1>8 DEF Truth

LEMMA FilterDataIsTrue ==
    ASSUME Types, Types', Truth, Passes, FilterData PROVE Truth'
<1>1. CacheOK' /\ StatusOK'
  BY FilesOrCommand DEF FilterData
<1>2. PICK c \in Commands : c = command
  BY IdleIsIdle DEF FilterData, Types
<1>3. PICK d : d = FilteredData(c.data)
  OBVIOUS
<1>4. PICK e : e = [c EXCEPT !.step = "written", !.data = d]
  OBVIOUS
<1>5. e.step = "written" /\ e.data = d /\ e.target = c.target
  BY <1>4 DEF Commands
<1>6. command' = e
  BY <1>2, <1>3, <1>4 DEF FilterData
<1>7. WritingOK'
  BY <1>5, <1>6 DEF WritingOK
<1>8. ASSUME NEW g \in Files
      PROVE  IF g \in DOMAIN d
               THEN Safe(d[g]) /\ Tells(Stored(d[g]), g, c.target[g])
               ELSE parent[g] = c.target[g]
  <2>1. IF g \in DOMAIN c.data
          THEN c.data[g] = mtime[g] /\ content[g] = c.target[g]
          ELSE content[g] = c.target[g] /\ parent[g] = c.target[g]
    BY <1>2 DEF FilterData, Truth, WritingOK
  <2>2. g \in DOMAIN d <=> g \in DOMAIN c.data
    BY <1>3 DEF FilteredData
  <2>3. g \in DOMAIN d => d[g] = IF mtime[g].s >= Now.s THEN None ELSE mtime[g]
    BY <1>3, <2>1, <2>2 DEF FilteredData
  <2>4. Now \in Timestamps /\ mtime[g] \in Timestamps
    BY NowIsATime DEF Types
  <2>5. g \in DOMAIN d => Safe(d[g])
    BY <2>3, <2>4 DEF Safe, Timestamps
  <2> QED BY <2>1, <2>2, <2>5 DEF Tells
<1>9. WrittenOK'
  <2>1. UNCHANGED <<machine, clock, content, mtime, parent>>
    BY DEF FilterData
  <2> QED BY <1>5, <1>6, <1>8, <2>1 DEF WrittenOK, Safe, Tells, Stored, Now
<1> QED BY <1>1, <1>7, <1>9 DEF Truth

LEMMA EndUpdateIsTrue ==
    ASSUME Types, Types', Truth, Passes, EndUpdate PROVE Truth'
<1>1. PICK c \in Commands : c = command
  BY IdleIsIdle DEF EndUpdate, Types
<1>2. PICK new : new = [f \in Files |-> IF f \in DOMAIN c.data THEN Stored(c.data[f])
                                                                ELSE cache[f]]
  OBVIOUS
<1>3. Written(new) /\ parent' = c.target /\ command' = Idle
  BY <1>1, <1>2 DEF EndUpdate
<1>4. ASSUME NEW f \in Files PROVE Safe(new[f]) /\ Tells(new[f], f, c.target[f])
  <2>1. CASE f \in DOMAIN c.data
    <3>1. c.data \in NotesOf(Notes)
      BY DEF Commands
    <3>2. PICK m \in Notes : m = c.data[f]
      BY <2>1, <3>1, DomainOfNotes
    <3>3. Safe(m) /\ Tells(Stored(m), f, c.target[f])
      BY <1>1, <2>1, <3>2 DEF EndUpdate, Truth, WrittenOK
    <3> QED BY <1>2, <2>1, <3>2, <3>3, SafeIsUnlike
  <2>2. CASE f \notin DOMAIN c.data
    <3>1. parent[f] = c.target[f]
      BY <1>1, <2>2 DEF EndUpdate, Truth, WrittenOK
    <3> QED BY <1>2, <2>2, <3>1 DEF Truth, CacheOK
  <2> QED BY <2>1, <2>2
<1>5. CacheOK'
  <2>1. PICK old : old = c.target
    OBVIOUS
  <2> QED BY <1>3, <1>4, <2>1, NewCache DEF EndUpdate, Written
<1>6. StatusOK'
  BY <1>3, WrittenFollows
<1>7. WritingOK' /\ WrittenOK'
  BY <1>3 DEF WritingOK, WrittenOK, Idle
<1> QED BY <1>5, <1>6, <1>7 DEF Truth

LEMMA EndCommitIsTrue ==
    ASSUME Types, Types', Truth, Passes, EndCommit PROVE Truth'
<1>1. PICK c \in Commands : c = command
  BY IdleIsIdle DEF EndCommit, Types
<1>2. PICK new : new = [f \in Files |-> Committed(cache[f], f)]
  OBVIOUS
<1>3. PICK old : old = [f \in Files |-> IF f \in c.left THEN c.target[f] ELSE parent[f]]
  OBVIOUS
<1>4. Written(new) /\ parent' = old /\ command' = Idle
  BY <1>1, <1>2, <1>3 DEF EndCommit
<1>5. ASSUME NEW f \in Files PROVE Safe(new[f]) /\ Tells(new[f], f, old[f])
  <2>1. CASE f \in c.left
    BY <1>1, <1>2, <2>1 DEF Committed, Safe, Tells, LikelyEqual
  <2>2. CASE f \notin c.left
    BY <1>1, <1>2, <1>3, <2>2 DEF Committed, Truth, CacheOK
  <2> QED BY <2>1, <2>2
<1>6. CacheOK'
  BY <1>4, <1>5, NewCache DEF EndCommit, Written
<1>7. StatusOK'
  BY <1>4, WrittenFollows
<1>8. WritingOK' /\ WrittenOK'
  BY <1>4 DEF WritingOK, WrittenOK, Idle
<1> QED BY <1>6, <1>7, <1>8 DEF Truth

LEMMA KeepIsTrue ==
    ASSUME Types, Types', Truth, Passes, NEW target \in [Files -> Contents], Keep(target)
    PROVE  Truth'
<1>1. PICK new : new = [f \in Files |-> IF parent[f] # target[f] THEN None ELSE cache[f]]
  OBVIOUS
<1>2. Written(new) /\ parent' = target /\ command' = command /\ command = Idle
  BY <1>1 DEF Keep
<1>3. ASSUME NEW f \in Files PROVE Safe(new[f]) /\ Tells(new[f], f, target[f])
  <2>1. CASE parent[f] # target[f]
    BY <1>1, <2>1 DEF Safe, Tells, LikelyEqual
  <2>2. CASE parent[f] = target[f]
    BY <1>1, <2>2 DEF Truth, CacheOK
  <2> QED BY <2>1, <2>2
<1>4. CacheOK'
  BY <1>2, <1>3, NewCache DEF Keep, Written
<1>5. StatusOK'
  BY <1>2, WrittenFollows
<1>6. WritingOK' /\ WrittenOK'
  BY <1>2 DEF WritingOK, WrittenOK, Idle
<1> QED BY <1>4, <1>5, <1>6 DEF Truth

-----------------------------------------------------------------------------
(* The theorems *)

THEOREM TruthInv ==
    ASSUME ~EditsDuringUpdate PROVE DirstateSpec => [](Types /\ Truth)
<1>1. DirstateInit => Truth
  BY DEF DirstateInit, Truth, CacheOK, StatusOK, WritingOK, WrittenOK, Safe, Tells,
         LikelyEqual, Idle
<1>2. Types /\ Types' /\ Truth /\ [DirstateNext]_vars => Truth'
  <2> SUFFICES ASSUME Types, Types', Truth, [DirstateNext]_vars PROVE Truth'
    OBVIOUS
  <2>0. Passes
    BY StepPasses
  <2>1. CASE Tick
    <3>1. CacheOK' /\ StatusOK'
      BY <2>0, <2>1, FilesOrCommand DEF Tick
    <3>2. WritingOK' /\ WrittenOK'
      BY <2>0, <2>1, CommandKept DEF Tick, Truth
    <3> QED BY <3>1, <3>2 DEF Truth
  <2>2. ASSUME NEW f \in Files, NEW v \in Contents, Edit(f, v) PROVE Truth'
    <3>1. CacheOK' /\ StatusOK'
      BY <2>0, <2>2, FilesOrCommand DEF Edit
    <3>2. WritingOK' /\ WrittenOK'
      BY <2>0, <2>2, CommandKept DEF Edit, Truth
    <3> QED BY <3>1, <3>2 DEF Truth
  <2>3. ASSUME NEW p \in Statuses, Load(p) \/ Boundary(p) \/ PostStatusFixup(p) PROVE Truth'
    BY <2>0, <2>3, LoadIsTrue, BoundaryIsTrue, PostStatusFixupIsTrue
  <2>4. ASSUME NEW p \in Statuses, NEW f \in Files, Walk(p, f) \/ Compare(p, f) \/ Lstat(p, f)
        PROVE  Truth'
    BY <2>0, <2>4, WalkStepIsTrue, CompareIsTrue, LstatIsTrue
  <2>5. ASSUME NEW target \in [Files -> Contents], BeginUpdate(target) PROVE Truth'
    <3>1. CacheOK' /\ StatusOK'
      BY <2>0, <2>5, FilesOrCommand DEF BeginUpdate
    <3>2. WritingOK' /\ WrittenOK'
      BY <2>5 DEF BeginUpdate, WritingOK, WrittenOK
    <3> QED BY <3>1, <3>2 DEF Truth
  <2>6. ASSUME NEW target \in [Files -> Contents], Keep(target) PROVE Truth'
    BY <2>0, <2>6, KeepIsTrue
  <2>7. ASSUME NEW f \in Files, WriteFile(f) PROVE Truth'
    BY <2>0, <2>7, WriteFileIsTrue
  <2>8. CASE FilterData \/ EndUpdate \/ EndCommit
    BY <2>0, <2>8, FilterDataIsTrue, EndUpdateIsTrue, EndCommitIsTrue
  <2>9. CASE BeginCommit
    <3>1. CacheOK' /\ StatusOK'
      BY <2>0, <2>9, FilesOrCommand DEF BeginCommit
    <3>2. command'.step = "committing"
      BY <2>9 DEF BeginCommit
    <3> QED BY <3>1, <3>2 DEF Truth, WritingOK, WrittenOK
  <2>10. CASE Die
    <3>1. CacheOK' /\ StatusOK'
      BY <2>0, <2>10, FilesOrCommand DEF Die
    <3> QED BY <2>10, <3>1 DEF Die, Truth, WritingOK, WrittenOK, Idle
  <2>11. CASE UNCHANGED vars
    <3>1. CacheOK' /\ StatusOK'
      BY <2>0, <2>11, FilesOrCommand DEF vars
    <3>2. WritingOK' /\ WrittenOK'
      BY <2>0, <2>11, CommandKept DEF vars, Truth
    <3> QED BY <3>1, <3>2 DEF Truth
  <2> QED
    BY <2>1, <2>2, <2>3, <2>4, <2>5, <2>6, <2>7, <2>8, <2>9, <2>10, <2>11, Zenon
    DEF DirstateNext
<1> QED BY <1>1, <1>2, TypesInv, PTL DEF DirstateSpec

\* The next status finds no file clean that is not as in the parent: whatever was
\* written in the tick or the second in which a time was noted, by an editor, by
\* update, or by nobody, after any crash of a command.
THEOREM CacheAlwaysTrue ==
    ASSUME ~EditsDuringUpdate PROVE DirstateSpec => []CacheIsTrue
<1>1. Truth => CacheIsTrue
  BY DEF Truth, CacheOK, Tells, CacheIsTrue
<1> QED BY <1>1, TruthInv, PTL

\* A status that is under way, with a dirstate that others have replaced since, finds
\* none either, and is not about to note one.
THEOREM StatusAlwaysTrue ==
    ASSUME ~EditsDuringUpdate PROVE DirstateSpec => []StatusIsTrue
<1>1. Types /\ Truth => StatusIsTrue
  <2> SUFFICES ASSUME Types, Truth, NEW p \in Statuses, status[p] # Idle
               PROVE  /\ \A f \in status[p].walk : LikelyEqual(status[p].cache[f], mtime[f]) =>
                                                      content[f] = status[p].parent[f]
                      /\ \A f \in DOMAIN status[p].fixup :
                            LikelyEqual(Stored(status[p].fixup[f]), mtime[f]) =>
                               content[f] = status[p].parent[f]
    BY DEF StatusIsTrue, WalkIsTrue, FixupIsTrue
  <2>1. PICK s \in Walking : s = status[p]
    BY DEF Types
  <2>2. WalkOK(s) /\ s.walk \subseteq Files
    BY <2>1 DEF Truth, StatusOK, WalkOK, Walking
  <2>3. \A f \in s.walk : Tells(s.cache[f], f, s.parent[f])
    BY <2>2 DEF WalkOK
  <2>4. \A f \in DOMAIN s.fixup : Tells(Stored(s.fixup[f]), f, s.parent[f])
    BY <2>2 DEF WalkOK
  <2> QED BY <2>1, <2>3, <2>4 DEF Tells
<1> QED BY <1>1, TruthInv, PTL
=============================================================================
