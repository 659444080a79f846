----------------------------- MODULE MCRepoLock -----------------------------
(* RepoLock.tla on small instances: who runs where *)
EXTENDS RepoLock, TLC

CONSTANTS a, b, c, d

\* All on one machine, or b on another one.
OneHost == [p \in Procs |-> "here"]
TwoHosts == [p \in Procs |-> IF p = b THEN "there" ELSE "here"]

\* All give up after a second; or those on the machine of a wait for ever, and b
\* does not wait.
NotLong == [p \in Procs |-> 1]
HereForEver == [p \in Procs |-> IF p = b THEN 0 ELSE -1]

ByTrylock == [p \in Procs |-> "trylock"]
HereByLock == [p \in Procs |-> IF p = b THEN "trylock" ELSE "lock"]
=============================================================================
