---------------------------- MODULE AtomicStore ----------------------------
(***************************************************************************)
(* What a Mercurial transaction promises about the files of .hg/store      *)
(* (src/mercurial/transaction.py, class transaction): either everything a  *)
(* transaction wrote becomes the store, or the store goes back to what it  *)
(* was when the transaction began.  There is no file, journal or backup    *)
(* here, only two values of the store:                                     *)
(*   - committed: what the store is, or can still be brought back to;      *)
(*   - working: what a process that opens the files now would read.        *)
(* Transaction.tla is shown to implement this specification.               *)
(***************************************************************************)

CONSTANT Contents      \* every value the files of the store can have

VARIABLES
    committed,         \* the store after the last committed transaction
    working,           \* the bytes that are on the disk
    status             \* "none", "open" (running) or "broken" (to roll back)

avars == <<committed, working, status>>

ATypeOK ==
    /\ committed \in Contents
    /\ working \in Contents
    /\ status \in {"none", "open", "broken"}

AInit ==
    /\ committed \in Contents
    /\ working = committed
    /\ status = "none"

\* repo.transaction(): only when no transaction is open or left over.
Begin ==
    /\ status = "none"
    /\ status' = "open"
    /\ UNCHANGED <<committed, working>>

\* Any write of the running transaction.
Write ==
    /\ status = "open"
    /\ working' \in Contents
    /\ UNCHANGED <<committed, status>>

\* transaction.close(): the one step at which the new content is the store.
Commit ==
    /\ status = "open"
    /\ committed' = working
    /\ status' = "none"
    /\ UNCHANGED working

\* The process dies, or starts to abort.
Fail ==
    /\ status = "open"
    /\ status' = "broken"
    /\ UNCHANGED <<committed, working>>

\* One step of the roll back, by the process that aborts or by hg recover.
Repair ==
    /\ status = "broken"
    /\ working' \in Contents
    /\ UNCHANGED <<committed, status>>

\* The roll back is over, which it may be only if it undid everything.
Recovered ==
    /\ status = "broken"
    /\ working = committed
    /\ status' = "none"
    /\ UNCHANGED <<committed, working>>

ANext == Begin \/ Write \/ Commit \/ Fail \/ Repair \/ Recovered

ASpec == AInit /\ [][ANext]_avars
=============================================================================
