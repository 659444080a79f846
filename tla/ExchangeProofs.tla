---------------------------- MODULE ExchangeProofs ----------------------------
(***************************************************************************)
(* Theorems about what two repositories exchange.                          *)
(*                                                                         *)
(* About SetDiscovery.tla, for every graph, any two repositories, every    *)
(* size of samples and a server that grows however often:                  *)
(*   - DiscoveryTypeCorrect: the books of partialdiscovery;                *)
(*   - CommonExact: what discovery calls common is shared, and all that    *)
(*     was shared is found;                                                *)
(*   - PullComplete: a pull brings in all it was asked for.                *)
(* The argument: the server only grows, so what it once knew it knows, and *)
(* what it was once found not to know it did not have at the start.        *)
(*                                                                         *)
(* About Push.tla, for any number of clients and pushes and every graph    *)
(* with any named branches:                                                *)
(*   - PushTypeCorrect: repositories have the ancestors of what they have; *)
(*   - PhasesAlwaysAgree: after a push, on what was to be pushed;          *)
(*   - MarksGoForward: a bookmark that is pushed goes to a descendant;     *)
(*   - PublicIsAsServer: clients make public what the server has public;   *)
(*   - RacedOnlyIfItChanged: a push is not refused for a race without one; *)
(*   - PushesAlwaysAllowed: the heads checked for are those that are added.*)
(***************************************************************************)
EXTENDS SetDiscovery, Push, DagProofs, FiniteSetTheorems

-----------------------------------------------------------------------------
(* The inductive invariant *)

\* Both repositories have the ancestors of what they have, and the server has what
\* it had.
TwoRepositories ==
    /\ IsOrder
    /\ local \subseteq Changesets /\ IsClosed(local)
    /\ remote \subseteq Changesets /\ IsClosed(remote)
    /\ before \subseteq remote
    /\ command \in Commands
    /\ command.own \subseteq local
    /\ command.heads \subseteq remote
    /\ step \in {"start", "ask", "search", "answer", "done", "pulled", "aborted"}

\* What was asked: heads that stand for all the server had, and samples of what is
\* local.
Asked ==
    /\ sample \subseteq local
    /\ srvheads \subseteq remote
    /\ \/ step \in {"ask", "search", "answer", "aborted"}
       \/ step = "done" /\ ~NothingToDiscover
       => before \subseteq AncestorsOf(srvheads)

\* The books.
Books ==
    /\ decided \in BOOLEAN /\ full \in BOOLEAN /\ anyincoming \in BOOLEAN
    /\ common \subseteq local \cap remote /\ IsClosed(common)
    /\ missing \cap before = {}
    /\ undecided \cap (common \cup missing) = {}
    /\ undecided \subseteq AncestorsOf(command.own)
    /\ ~decided => missing = {} /\ undecided = {}
    /\ step \in {"start", "ask"} => ~decided
    /\ step = "answer" => decided
    /\ step \in {"search", "answer"} /\ decided =>
        AncestorsOf(command.own) \subseteq common \cup missing \cup undecided

\* What nothing is fetched for, is there.
NothingIncoming == step = "done" /\ ~anyincoming => Wanted \subseteq local

IInv == TwoRepositories /\ Asked /\ Books /\ SharedIsFound /\ NothingIncoming /\ PullCompletes

-----------------------------------------------------------------------------
(* What the actions are made of *)

\* The ancestors of what both sides have, both sides have.
LEMMA SharedAncestors ==
    ASSUME TwoRepositories, NEW S, S \subseteq local \cap remote
    PROVE  /\ AncestorsOf(S) \subseteq local \cap remote
           /\ S \subseteq AncestorsOf(S)
           /\ IsClosed(AncestorsOf(S))
<1>1. S \in SUBSET Changesets
  BY DEF TwoRepositories
<1>2. AncestorsOf(S) \subseteq local /\ AncestorsOf(S) \subseteq remote
  BY ClosedHasAncestors DEF TwoRepositories
<1> QED
  BY <1>1, <1>2, AncestorsAreClosed DEF TwoRepositories

\* What is asked about is local.
LEMMA SamplesAreLocal ==
    ASSUME TwoRepositories, Books
    PROVE  /\ \A S \in FirstSamples : S \subseteq ownheads
           /\ \A S \in Samples : S \subseteq AncestorsOf(ownheads)
           /\ Undecided \subseteq AncestorsOf(ownheads)
<1>1. Undecided \subseteq AncestorsOf(ownheads)
  BY DEF Books, Undecided, ownheads
<1>2. \A S \in FirstSamples : S \subseteq ownheads
  BY DEF FirstSamples
<1>3. \A S \in FullSamples : S \subseteq Undecided
  BY Zenon DEF FullSamples, Sized
<1>4. \A size : \A S \in QuickSamples(size) :
        S \subseteq Undecided \cup AncestorsOf(ownheads)
  BY Zenon DEF QuickSamples, Sized, HeadsOf
<1> QED
  BY <1>1, <1>2, <1>3, <1>4, Zenon DEF Samples

\* What partialdiscovery makes of an answer: commons that both sides have and
\* changesets the server did not have when the command started.
LEMMA Learning ==
    ASSUME TwoRepositories, Books,
           NEW commons, commons \subseteq local \cap remote,
           NEW missings, missings \cap remote = {},
           decided => AncestorsOf(command.own) \subseteq common \cup missing \cup undecided,
           Learn(commons, missings)
    PROVE  /\ decided' \in BOOLEAN
           /\ common' \subseteq local \cap remote /\ AncestorsOf(common') \subseteq common'
           /\ missing' \cap before = {}
           /\ undecided' \cap (common' \cup missing') = {}
           /\ undecided' \subseteq AncestorsOf(command.own)
           /\ ~decided' => missing' = {} /\ undecided' = {}
           /\ decided' => AncestorsOf(command.own) \subseteq common' \cup missing' \cup undecided'
<1> DEFINE left == IF decided THEN undecided \ common'
                   ELSE AncestorsOf(ownheads) \ common'
           gone == NewMissings(missings, left)
<1>1. /\ common' = common \cup AncestorsOf(commons)
      /\ decided' = (decided \/ missings # {})
      /\ undecided' = IF decided' THEN left \ gone ELSE {}
      /\ missing' = missing \cup gone
  BY DEF Learn, NewCommons
<1>2. common' \subseteq local \cap remote /\ IsClosed(common')
  BY <1>1, SharedAncestors, ClosedUnion DEF Books
<1>3. gone \cap remote = {}
  <2>1. \A c \in gone : \E m \in missings : m \in ancestors[c]
    BY DEF NewMissings, Between, DescendantsOf
  <2>2. \A c \in remote : ancestors[c] \subseteq remote
    BY DEF TwoRepositories, IsClosed, AncestorsOf
  <2> QED
    BY <2>1, <2>2
<1>4. missings = {} => gone = {}
  BY DEF NewMissings, Between, DescendantsOf
<1>5. left \cap (common' \cup missing) = {} /\ left \subseteq AncestorsOf(command.own)
  BY <1>1 DEF Books, ownheads
<1>6. decided' => AncestorsOf(command.own) \subseteq common' \cup missing \cup left
  BY <1>1 DEF ownheads
<1>7. IsClosed(common') = (AncestorsOf(common') \subseteq common')
  BY DEF IsClosed
<1>8. decided \in BOOLEAN /\ missing \cap before = {} /\ (~decided => missing = {})
      /\ before \subseteq remote
  BY DEF Books, TwoRepositories
<1> HIDE DEF left, gone
<1>9. missing' \cap before = {} /\ (~decided' => missing' = {} /\ undecided' = {}) /\ decided' \in BOOLEAN
  BY <1>1, <1>3, <1>4, <1>8
<1>10. /\ undecided' \cap (common' \cup missing') = {}
       /\ undecided' \subseteq AncestorsOf(command.own)
       /\ decided' => AncestorsOf(command.own) \subseteq common' \cup missing' \cup undecided'
  BY <1>1, <1>5, <1>6
<1> QED
  BY <1>2, <1>7, <1>9, <1>10

-----------------------------------------------------------------------------
(* The invariant is inductive *)

\* It holds when the command starts.
LEMMA DiscoveryInitInv == Init => IInv
<1> SUFFICES ASSUME Init PROVE IInv
  OBVIOUS
<1>1. IsOrder /\ IsClosed(local) /\ IsClosed(remote) /\ before = remote /\ step = "start"
      /\ local \subseteq Changesets /\ remote \subseteq Changesets
  BY DEF Init, IsDag
<1>2. command \in Commands /\ SomeCommand(command)
  BY DEF Init
<1>3. command.own \subseteq local /\ command.heads \subseteq remote
  BY <1>2 DEF SomeCommand, HeadsOf
<1>4. TwoRepositories
  BY <1>1, <1>2, <1>3 DEF TwoRepositories
<1>5. Asked
  BY <1>1 DEF Init, Asked
<1>6. Books
  BY <1>1 DEF Init, Books, IsClosed, AncestorsOf
<1>7. SharedIsFound /\ NothingIncoming /\ PullCompletes
  BY <1>1 DEF SharedIsFound, NothingIncoming, PullCompletes
<1> QED
  BY <1>4, <1>5, <1>6, <1>7 DEF IInv

\* The graph, and so all that is said of it, does not change.
LEMMA GraphStays ==
    ASSUME ancestors' = ancestors
    PROVE  /\ IsOrder' <=> IsOrder
           /\ AncestorsOf(command.own)' = AncestorsOf(command'.own)
           /\ AncestorsOf(srvheads)' = AncestorsOf(srvheads')
           /\ IsClosed(local)' <=> AncestorsOf(local') \subseteq local'
           /\ IsClosed(remote)' <=> AncestorsOf(remote') \subseteq remote'
           /\ IsClosed(common)' <=> AncestorsOf(common') \subseteq common'
BY DEF IsOrder, AncestorsOf, IsClosed

\* The server grows.
LEMMA RemoteGrowsInv == IInv /\ RemoteGrows => IInv'
<1> SUFFICES ASSUME IInv, RemoteGrows PROVE IInv'
  OBVIOUS
<1>1. /\ remote' \in SUBSET Changesets /\ remote \subseteq remote'
      /\ AncestorsOf(remote') \subseteq remote'
      /\ UNCHANGED <<ancestors, local, before, command, step, srvheads, disco, anyincoming>>
  BY DEF RemoteGrows, Grown, IsClosed
<1>2. TwoRepositories'
  BY <1>1, GraphStays DEF IInv, TwoRepositories, IsClosed
<1>3. Asked'
  BY <1>1, GraphStays DEF IInv, Asked, NothingToDiscover, disco
<1>4. Books'
  BY <1>1, GraphStays DEF IInv, Books, disco, IsClosed
<1>5. SharedIsFound'
  BY <1>1, GraphStays DEF IInv, SharedIsFound, NothingToDiscover, disco, ownheads
<1>6. NothingIncoming' /\ PullCompletes'
  BY <1>1, GraphStays DEF IInv, NothingIncoming, PullCompletes, Wanted, IsClosed
<1> QED
  BY <1>2, <1>3, <1>4, <1>5, <1>6 DEF IInv

\* What a step of discovery, as long as it does not fetch, leaves alone.
LEMMA RepositoriesStay ==
    ASSUME IInv, UNCHANGED <<repositories, command>>,
           step' \in {"ask", "search", "answer", "done", "aborted"}
    PROVE  /\ TwoRepositories' /\ PullCompletes'
           /\ NothingToDiscover' <=> NothingToDiscover
<1>1. UNCHANGED <<ancestors, local, remote, before, command>>
  BY DEF repositories
<1> QED
  BY <1>1, GraphStays DEF IInv, TwoRepositories, PullCompletes, NothingToDiscover, IsClosed

\* All that is asked for is here already.
LEMMA AllKnownInv == IInv /\ AllKnown => IInv'
<1> SUFFICES ASSUME IInv, AllKnown PROVE IInv'
  OBVIOUS
<1>1. /\ UNCHANGED <<ancestors, local, remote, before, command>>
      /\ UNCHANGED <<sample, decided, undecided, missing, full>>
      /\ step = "start" /\ step' = "done" /\ NothingToDiscover
      /\ srvheads' = command.heads
      /\ common' = AncestorsOf(command.heads)
      /\ anyincoming' = FALSE
  BY DEF AllKnown, Finish, repositories
<1>2. TwoRepositories' /\ PullCompletes' /\ NothingToDiscover'
  BY <1>1, RepositoriesStay DEF AllKnown
<1>3. command.heads \subseteq local \cap remote
  BY <1>1 DEF IInv, TwoRepositories, NothingToDiscover
<1>4. common' \subseteq local \cap remote /\ AncestorsOf(common') \subseteq common'
  BY <1>1, <1>3, SharedAncestors DEF IInv, IsClosed
<1>5. Asked'
  BY <1>1, <1>2, <1>3 DEF IInv, Asked
<1>6. ~decided /\ undecided = {} /\ missing = {}
  BY <1>1 DEF IInv, Books
<1>7. Books'
  BY <1>1, <1>4, <1>6, GraphStays DEF IInv, Books
<1>8. SharedIsFound' /\ NothingIncoming'
  BY <1>1, <1>2, <1>3 DEF SharedIsFound, NothingIncoming, Wanted
<1> QED
  BY <1>2, <1>5, <1>7, <1>8 DEF IInv

\* The heads of the server stand for all it has.
LEMMA AskHeadsInv == IInv /\ AskHeads => IInv'
<1> SUFFICES ASSUME IInv, AskHeads PROVE IInv'
  OBVIOUS
<1>1. /\ UNCHANGED <<ancestors, local, remote, before, command>>
      /\ UNCHANGED <<sample, common, decided, undecided, missing, anyincoming>>
      /\ step = "start" /\ step' \in {"ask", "search"} /\ ~NothingToDiscover
      /\ srvheads' = HeadsOf(remote) /\ full' \in BOOLEAN
  BY DEF AskHeads, repositories
<1>2. TwoRepositories' /\ PullCompletes'
  BY <1>1, RepositoriesStay DEF AskHeads
<1>3. before \subseteq AncestorsOf(srvheads') /\ srvheads' \subseteq remote
  <2>1. AncestorsOf(HeadsOf(remote)) = AncestorsOf(remote)
    BY HeadsSpan DEF IInv, TwoRepositories
  <2>2. remote \subseteq AncestorsOf(remote) /\ before \subseteq remote
    BY AncestorsAreClosed DEF IInv, TwoRepositories
  <2> QED
    BY <1>1, <2>1, <2>2 DEF HeadsOf
<1>4. Asked'
  BY <1>1, <1>3, GraphStays DEF IInv, Asked
<1>5. Books'
  <2>1. AncestorsOf(common') \subseteq common'
    BY <1>1 DEF IInv, Books, IsClosed
  <2>2. ~decided /\ undecided = {} /\ missing = {}
    BY <1>1 DEF IInv, Books
  <2> QED
    BY <1>1, <2>1, <2>2, GraphStays DEF IInv, Books
<1>6. SharedIsFound' /\ NothingIncoming'
  BY <1>1 DEF SharedIsFound, NothingIncoming
<1> QED
  BY <1>2, <1>4, <1>5, <1>6 DEF IInv

\* The first sample and its early exits.
LEMMA AskFirstInv == IInv /\ AskFirst => IInv'
<1> SUFFICES ASSUME IInv, AskFirst PROVE IInv'
  OBVIOUS
<1> DEFINE known == sample' \cap remote
<1>1. /\ UNCHANGED <<repositories, command, srvheads, full>>
      /\ UNCHANGED <<ancestors, local, remote, before>>
      /\ step = "ask" /\ sample' \in FirstSamples /\ ~decided
      /\ missing = {} /\ undecided = {}
  BY DEF AskFirst, repositories, IInv, Books
<1>2. sample' \subseteq ownheads /\ sample' \subseteq local
  BY <1>1, SamplesAreLocal DEF IInv, TwoRepositories, ownheads
<1>3. before \subseteq AncestorsOf(srvheads) /\ srvheads \subseteq remote
  BY <1>1 DEF IInv, Asked
<1>4. ASSUME step' \in {"done", "search"},
             common' \subseteq local \cap remote,
             AncestorsOf(common') \subseteq common',
             UNCHANGED <<decided, undecided, missing>>,
             anyincoming' \in BOOLEAN,
             step' = "done",
             AncestorsOf(ownheads) \cap before \subseteq common',
             ~anyincoming' => Wanted \subseteq local
      PROVE  IInv'
  <2>1. TwoRepositories' /\ PullCompletes'
    BY <1>1, <1>4, RepositoriesStay
  <2>2. Asked'
    BY <1>1, <1>2, <1>3, <1>4, GraphStays DEF Asked
  <2>3. Books'
    BY <1>1, <1>4, GraphStays DEF IInv, Books
  <2>4. SharedIsFound'
    BY <1>1, <1>4, GraphStays DEF SharedIsFound, ownheads
  <2>5. NothingIncoming'
    BY <1>1, <1>4 DEF NothingIncoming, Wanted
  <2> QED
    BY <2>1, <2>2, <2>3, <2>4, <2>5 DEF IInv
<1>5. CASE /\ local = {}
           /\ step' = "done"
           /\ anyincoming' = Incoming(srvheads # {})
           /\ UNCHANGED <<common, decided, undecided, missing>>
  <2>1. common' \subseteq local \cap remote /\ AncestorsOf(common') \subseteq common'
    BY <1>5 DEF IInv, Books, IsClosed
  <2>2. AncestorsOf(ownheads) = {}
    BY <1>5 DEF IInv, TwoRepositories, ownheads, AncestorsOf
  <2>3. anyincoming' \in BOOLEAN /\ (~anyincoming' => Wanted \subseteq local)
    BY <1>5 DEF Incoming, Wanted
  <2> QED
    BY <1>4, <1>5, <2>1, <2>2, <2>3
<1>6. CASE /\ AllServerHeadsKnown
           /\ step' = "done"
           /\ common' = AncestorsOf(srvheads)
           /\ anyincoming' = Incoming(FALSE)
           /\ UNCHANGED <<decided, undecided, missing>>
  <2>1. srvheads \subseteq local \cap remote
    BY <1>3, <1>6 DEF AllServerHeadsKnown
  <2>2. common' \subseteq local \cap remote /\ AncestorsOf(common') \subseteq common'
    BY <1>6, <2>1, SharedAncestors DEF IInv, IsClosed
  <2>3. anyincoming' \in BOOLEAN /\ (~anyincoming' => Wanted \subseteq local)
    BY <1>6, <2>1 DEF Incoming, Wanted
  <2> QED
    BY <1>3, <1>4, <1>6, <2>2, <2>3
<1>7. CASE /\ AllOwnHeadsKnown(known)
           /\ step' = "done"
           /\ common' = AncestorsOf(ownheads)
           /\ anyincoming' = TRUE
           /\ UNCHANGED <<decided, undecided, missing>>
  <2>1. ownheads \subseteq local \cap remote
    BY <1>2, <1>7 DEF AllOwnHeadsKnown
  <2>2. common' \subseteq local \cap remote /\ AncestorsOf(common') \subseteq common'
    BY <1>7, <2>1, SharedAncestors DEF IInv, IsClosed
  <2> QED
    BY <1>4, <1>7, <2>2
<1>8. CASE /\ step' = "search"
           /\ Learn(known \cup (srvheads \cap local), sample' \ known)
           /\ UNCHANGED anyincoming
  <2>1. /\ known \cup (srvheads \cap local) \subseteq local \cap remote
        /\ (sample' \ known) \cap remote = {}
    BY <1>2, <1>3
  <2>2. Books'
    BY <1>1, <1>8, <2>1, Learning, GraphStays DEF IInv, Books
  <2>3. TwoRepositories' /\ PullCompletes'
    BY <1>1, <1>8, RepositoriesStay
  <2>4. Asked'
    BY <1>1, <1>2, <1>3, <1>8, GraphStays DEF Asked
  <2>5. SharedIsFound' /\ NothingIncoming'
    BY <1>8 DEF SharedIsFound, NothingIncoming
  <2> QED
    BY <2>2, <2>3, <2>4, <2>5 DEF IInv
<1> QED
  BY <1>5, <1>6, <1>7, <1>8 DEF AskFirst

\* A sample of what is undecided.
LEMMA AskSampleInv == IInv /\ AskSample => IInv'
<1> SUFFICES ASSUME IInv, AskSample PROVE IInv'
  OBVIOUS
<1>1. /\ UNCHANGED <<ancestors, local, remote, before, command>>
      /\ UNCHANGED <<srvheads, common, missing, anyincoming>>
      /\ step = "search" /\ step' = "answer" /\ sample' \in Samples
      /\ decided' = TRUE /\ full' = TRUE /\ undecided' = Undecided
  BY DEF AskSample, repositories
<1>2. TwoRepositories' /\ PullCompletes'
  BY <1>1, RepositoriesStay DEF AskSample
<1>3. sample' \subseteq local
  <2>1. AncestorsOf(ownheads) \subseteq local
    BY ClosedHasAncestors DEF IInv, TwoRepositories, ownheads
  <2> QED
    BY <1>1, <2>1, SamplesAreLocal DEF IInv
<1>4. Asked'
  BY <1>1, <1>3, GraphStays DEF IInv, Asked
<1>5. /\ Undecided \cap (common \cup missing) = {}
      /\ Undecided \subseteq AncestorsOf(command.own)
      /\ AncestorsOf(command.own) \subseteq common \cup missing \cup Undecided
  BY <1>1 DEF IInv, Books, Undecided, ownheads
<1>6. AncestorsOf(common') \subseteq common' /\ common \subseteq local \cap remote
      /\ missing \cap before = {} /\ anyincoming \in BOOLEAN
  BY <1>1 DEF IInv, Books, IsClosed
<1>7. Books'
  BY <1>1, <1>5, <1>6, GraphStays DEF Books
<1>8. SharedIsFound' /\ NothingIncoming'
  BY <1>1 DEF SharedIsFound, NothingIncoming
<1> QED
  BY <1>2, <1>4, <1>7, <1>8 DEF IInv

\* The answer of a server that may have grown since.
LEMMA AnswerInv == IInv /\ Answer => IInv'
<1> SUFFICES ASSUME IInv, Answer PROVE IInv'
  OBVIOUS
<1>1. /\ UNCHANGED <<ancestors, local, remote, before, command>>
      /\ UNCHANGED <<srvheads, sample, full, anyincoming>>
      /\ step = "answer" /\ step' = "search"
      /\ Learn(sample \cap remote, sample \ remote)
  BY DEF Answer, repositories
<1>2. TwoRepositories' /\ PullCompletes'
  BY <1>1, RepositoriesStay DEF Answer
<1>3. sample \subseteq local
  BY DEF IInv, Asked
<1>4. Asked'
  BY <1>1, GraphStays DEF IInv, Asked
<1>5. decided => AncestorsOf(command.own) \subseteq common \cup missing \cup undecided
  BY <1>1 DEF IInv, Books
<1>6. full \in BOOLEAN /\ anyincoming \in BOOLEAN
  BY DEF IInv, Books
<1>7. Books'
  BY <1>1, <1>3, <1>5, <1>6, Learning, GraphStays DEF IInv, Books
<1>8. SharedIsFound' /\ NothingIncoming'
  BY <1>1 DEF SharedIsFound, NothingIncoming
<1> QED
  BY <1>2, <1>4, <1>7, <1>8 DEF IInv

\* Nothing is undecided: what was shared is not missing, and so it is common.
LEMMA ConcludeInv == IInv /\ Conclude => IInv'
<1> SUFFICES ASSUME IInv, Conclude PROVE IInv'
  OBVIOUS
<1>1. /\ UNCHANGED <<ancestors, local, remote, before, command>>
      /\ UNCHANGED <<srvheads, sample, common, decided, undecided, missing, full>>
      /\ step = "search" /\ decided /\ undecided = {}
      /\ step' \in {"done", "aborted"} /\ (step' = "aborted" => common = {})
      /\ anyincoming' = Incoming(srvheads # {})
  BY DEF Conclude, iscomplete, Unrelated, repositories, disco
<1>2. TwoRepositories' /\ PullCompletes'
  BY <1>1, RepositoriesStay DEF Conclude
<1>3. Asked'
  BY <1>1, GraphStays DEF IInv, Asked
<1>4. anyincoming' \in BOOLEAN /\ (~anyincoming' => Wanted \subseteq local)
  BY <1>1 DEF Incoming, Wanted
<1>5. AncestorsOf(common') \subseteq common'
  BY <1>1 DEF IInv, Books, IsClosed
<1>6. Books'
  BY <1>1, <1>4, <1>5, GraphStays DEF IInv, Books
<1>7. AncestorsOf(ownheads) \cap before \subseteq common
  BY <1>1 DEF IInv, Books, ownheads
<1>8. SharedIsFound'
  BY <1>1, <1>7, GraphStays DEF SharedIsFound, ownheads
<1>9. NothingIncoming'
  BY <1>1, <1>4 DEF NothingIncoming, Wanted
<1> QED
  BY <1>2, <1>3, <1>6, <1>8, <1>9 DEF IInv

\* The bundle and what was common make all the ancestors of what is wanted.
LEMMA FetchInv == IInv /\ Fetch => IInv'
<1> SUFFICES ASSUME IInv, Fetch PROVE IInv'
  OBVIOUS
<1>1. /\ UNCHANGED <<ancestors, remote, before, command, srvheads, anyincoming>>
      /\ UNCHANGED <<sample, common, decided, undecided, missing, full>>
      /\ step = "done" /\ step' = "pulled"
      /\ local' = IF anyincoming THEN local \cup Bundle ELSE local
  BY DEF Fetch, disco
<1>2. Wanted \subseteq remote /\ remote \subseteq Changesets /\ IsClosed(remote)
  BY DEF IInv, TwoRepositories, Asked, Wanted
<1>3. /\ Wanted \subseteq AncestorsOf(Wanted) /\ AncestorsOf(Wanted) \subseteq Changesets
      /\ IsClosed(AncestorsOf(Wanted))
  BY <1>2, AncestorsAreClosed DEF IInv, TwoRepositories
<1>4. common \subseteq local /\ local \subseteq Changesets /\ IsClosed(local)
  BY DEF IInv, TwoRepositories, Books
<1>5. local' = local \cup AncestorsOf(Wanted)
  <2>1. CASE anyincoming
    BY <1>1, <1>4, <2>1 DEF Bundle
  <2>2. CASE ~anyincoming
    <3>1. Wanted \subseteq local
      BY <1>1, <2>2 DEF IInv, NothingIncoming
    <3> QED
      BY <1>1, <1>4, <2>2, <3>1, ClosedHasAncestors
  <2> QED
    BY <2>1, <2>2
<1>6. AncestorsOf(local') \subseteq local' /\ local' \subseteq Changesets
  BY <1>3, <1>4, <1>5, ClosedUnion DEF IsClosed
<1>7. IF command.heads = {} THEN before \subseteq local' ELSE command.heads \subseteq local'
  <2>1. CASE command.heads = {}
    BY <1>1, <1>5, <2>1 DEF IInv, Asked, NothingToDiscover, Wanted
  <2>2. CASE command.heads # {}
    BY <1>3, <1>5, <2>2 DEF Wanted
  <2> QED
    BY <2>1, <2>2
<1>8. TwoRepositories'
  BY <1>1, <1>5, <1>6, GraphStays DEF IInv, TwoRepositories, IsClosed
<1>9. Asked'
  BY <1>1, <1>5, GraphStays DEF IInv, Asked
<1>10. AncestorsOf(common') \subseteq common'
  BY <1>1 DEF IInv, Books, IsClosed
<1>11. Books'
  BY <1>1, <1>5, <1>10, GraphStays DEF IInv, Books
<1>12. PullCompletes'
  BY <1>1, <1>6, <1>7, GraphStays DEF PullCompletes
<1>13. SharedIsFound' /\ NothingIncoming'
  BY <1>1 DEF SharedIsFound, NothingIncoming
<1> QED
  BY <1>8, <1>9, <1>11, <1>12, <1>13 DEF IInv

\* So it is inductive.
LEMMA DiscoveryNextInv == IInv /\ [Next]_vars => IInv'
<1> SUFFICES ASSUME IInv, [Next]_vars PROVE IInv'
  OBVIOUS
<1>1. CASE Next
  BY <1>1, RemoteGrowsInv, AllKnownInv, AskHeadsInv, AskFirstInv, AskSampleInv, AnswerInv,
     ConcludeInv, FetchInv DEF Next, Client
<1>2. CASE UNCHANGED vars
  <2>1. /\ UNCHANGED <<ancestors, local, remote, before, command, step, srvheads>>
        /\ UNCHANGED <<sample, common, decided, undecided, missing, full, anyincoming>>
    BY <1>2 DEF vars, repositories, disco
  <2>2. TwoRepositories' /\ PullCompletes'
    BY <2>1, GraphStays DEF IInv, TwoRepositories, PullCompletes, IsClosed
  <2>3. Asked'
    BY <2>1, GraphStays DEF IInv, Asked, NothingToDiscover
  <2>4. Books'
    BY <2>1, GraphStays DEF IInv, Books, IsClosed
  <2>5. SharedIsFound'
    BY <2>1, GraphStays DEF IInv, SharedIsFound, NothingToDiscover, ownheads
  <2>6. NothingIncoming'
    BY <2>1 DEF IInv, NothingIncoming, Wanted
  <2> QED
    BY <2>2, <2>3, <2>4, <2>5, <2>6 DEF IInv
<1> QED
  BY <1>1, <1>2

-----------------------------------------------------------------------------
(* Theorems *)

\* The invariant of the whole command.
THEOREM DiscoveryInvariance == Spec => []IInv
BY DiscoveryInitInv, DiscoveryNextInv, PTL DEF Spec

\* partialdiscovery keeps its books: what is common has its ancestors with it, and
\* every changeset looked at is common, missing or undecided.
THEOREM DiscoveryTypeCorrect == Spec => []DiscoveryTypeOK
<1>1. IInv => DiscoveryTypeOK
  BY DEF IInv, TwoRepositories, Books, DiscoveryTypeOK, ownheads
<1> QED
  BY <1>1, DiscoveryInvariance, PTL

\* findcommonheads ends with what the two sides share, however the samples are taken
\* and whatever is pushed to the server between two questions.
THEOREM CommonExact == Spec => []CommonIsExact
<1>1. IInv => CommonIsExact
  BY DEF IInv, Books, CommonIsExact, CommonIsShared
<1> QED
  BY <1>1, DiscoveryInvariance, PTL

\* hg pull brings in what it was asked for and never a changeset without its parents.
THEOREM PullComplete == Spec => []PullCompletes
<1>1. IInv => PullCompletes
  BY DEF IInv
<1> QED
  BY <1>1, DiscoveryInvariance, PTL


-----------------------------------------------------------------------------
(* The inductive invariant, of a server s, a client's repository l and its push p *)

Summaries ==
    UNION {[B -> [exists : BOOLEAN, old : SUBSET Changesets, unsynced : SUBSET Changesets,
                  new : SUBSET Changesets]] : B \in SUBSET Branches}

Steps == {"phases", "bookmarks", "branchmap", "nowarn", "send", "sync", "done", "refused", "raced"}

Pushops ==
    [step : Steps, force : BOOLEAN, newbranch : BOOLEAN, explicit : BOOLEAN,
     revs : (SUBSET Changesets) \cup {None}, has : SUBSET Changesets, seen : Repositories,
     common : SUBSET Changesets, heads : SUBSET Changesets, missing : SUBSET Changesets,
     droots : SUBSET Changesets, outdated : SUBSET Changesets, outmark : BOOLEAN,
     oldmark : Changesets \cup {None}, summary : Summaries]

\* What is asked for, of what the client has and found to be missing there.
Asks(p, l) ==
    /\ p.has = l.known /\ IsClosed(p.seen.known)
    /\ p.common \subseteq p.has /\ IsClosed(p.common)
    /\ p.heads \subseteq p.has /\ p.missing = AncestorsOf(p.heads) \ p.common
    /\ p.revs = None => p.has \subseteq AncestorsOf(p.heads)
    /\ p.revs # None => p.heads = p.revs
    /\ p.explicit => l.mark = None \/ l.mark \in AncestorsOf(p.heads)

\* The server still has what was found there.
Found(p, s) ==
    p.common \subseteq s.known /\ p.seen.known \subseteq s.known /\ p.seen.public \subseteq s.public

Pushed(p) == AncestorsOf(CommonHeads(p))

\* What is public here is public there, or is going to be with the bundle.
Published(p, l, s) ==
    /\ config.publishing => Pushed(p) \subseteq s.public \cup AncestorsOf(p.outdated)
    /\ Pushed(p) \cap l.public \subseteq s.public \cup AncestorsOf(p.outdated)
    /\ PublicPart(FallbackHeads(p), p.droots) \subseteq s.public
    /\ p.droots \cap p.seen.public = {}

\* The bookmark to push goes forward, and to a changeset that is pushed.
MarkGoes(p, l) ==
    p.outmark =>
        /\ l.mark = None \/ l.mark \in AncestorsOf(p.heads)
        /\ ~p.explicit => /\ p.oldmark \in p.has /\ l.mark \in Changesets
                          /\ p.oldmark \in ancestors[l.mark]

\* The heads the push was checked with were those of the server at some time since.
Summed(p, s) ==
    \/ p.summary = <<>>
    \/ \E there \in SUBSET Changesets :
          /\ p.seen.known \cup p.common \subseteq there /\ there \subseteq s.known
          /\ p.summary = HeadsSummary(p, there)

Warned(p, l) == \E nowarn \in SUBSET {l.mark} : ~AddsHeads(p, nowarn)

\* The server has got what was pushed.
Sent(p, l, s) ==
    /\ Pushed(p) \subseteq s.known
    /\ config.publishing => Pushed(p) \subseteq s.public
    /\ Pushed(p) \cap l.public \subseteq s.public

Sound(p, l, s) ==
    /\ Asks(p, l) /\ Found(p, s) /\ Summed(p, s)
    /\ p.outdated \subseteq p.missing \cup p.common
    /\ p.step \in {"phases", "bookmarks", "branchmap"} => p.summary = <<>>
    /\ p.step \in {"bookmarks", "branchmap", "nowarn", "send"} => Published(p, l, s)
    /\ p.step \in {"branchmap", "nowarn", "send"} => MarkGoes(p, l)
    /\ p.step = "send" => Warned(p, l)
    /\ p.step \in {"sync", "done"} => Sent(p, l, s)
    /\ p.step = "done" /\ config.publishing => Pushed(p) \subseteq l.public

Inv(s, loc, ps) ==
    /\ IsRepository(s)
    /\ \A cl \in Clients :
          /\ IsRepository(loc[cl])
          /\ ps[cl] # Idle => ps[cl] \in Pushops /\ Sound(ps[cl], loc[cl], s)

Typed ==
    /\ branch \in [Changesets -> Branches]
    /\ config \in [publishing : BOOLEAN, strict : BOOLEAN]
    /\ client \in [Clients -> Repositories]
    /\ push \in [Clients -> Pushops \cup {Idle}]

PushIInv == IsDag /\ Typed /\ Inv(server, client, push)

-----------------------------------------------------------------------------
(* The graph, the branches and the configuration stay *)

LEMMA Steady ==
    ASSUME UNCHANGED <<ancestors, branch, config>>, IsDag, Typed,
           client' \in [Clients -> Repositories],
           push' \in [Clients -> Pushops \cup {Idle}],
           Inv(server', client', push')
    PROVE  PushIInv'
<1>1. ancestors' = ancestors /\ branch' = branch /\ config' = config
  OBVIOUS
<1>2. IsDag' /\ Typed'
  BY <1>1 DEF IsDag, IsOrder, ParentsOf, Typed
<1>3. PICK s, loc, ps : s = server' /\ loc = client' /\ ps = push'
  OBVIOUS
<1>4. IsRepository(s)' /\ \A cl \in Clients : IsRepository(loc[cl])'
  BY <1>1, <1>3 DEF Inv, IsRepository, IsClosed, AncestorsOf
<1>5. ASSUME NEW p, NEW l, Sound(p, l, s) PROVE Sound(p, l, s)'
  <2>1. Asks(p, l)' /\ Found(p, s)' /\ MarkGoes(p, l)' = MarkGoes(p, l)
    BY <1>1, <1>5 DEF Sound, Asks, Found, MarkGoes, IsClosed, AncestorsOf
  <2>2. Pushed(p)' = Pushed(p) /\ FallbackHeads(p)' = FallbackHeads(p)
    BY <1>1 DEF Pushed, AncestorsOf, CommonHeads, FallbackHeads, HeadsOf, RootsOf, ParentsOf
  <2>3. AncestorsOf(p.outdated)' = AncestorsOf(p.outdated)
    BY <1>1 DEF AncestorsOf
  <2>4. PublicPart(FallbackHeads(p), p.droots)' = PublicPart(FallbackHeads(p), p.droots)
    BY <1>1, <2>2 DEF PublicPart, AncestorsOf, DescendantsOf
  <2>5. Published(p, l, s)' = Published(p, l, s) /\ Sent(p, l, s)' = Sent(p, l, s)
    BY <1>1, <2>2, <2>3, <2>4 DEF Published, Sent
  <2>6. ASSUME NEW there PROVE HeadsSummary(p, there)' = HeadsSummary(p, there)
    BY <1>1 DEF HeadsSummary, HeadsOn
  <2>7. Summed(p, s)'
    BY <1>5, <2>6 DEF Sound, Summed
  <2>8. Warned(p, l)' = Warned(p, l)
    BY DEF Warned, AddsHeads
  <2> QED BY <1>1, <1>5, <2>1, <2>2, <2>5, <2>7, <2>8 DEF Sound
<1>6. Inv(s, loc, ps)'
  BY <1>3, <1>4, <1>5 DEF Inv
<1>7. Inv(server, client, push)'
  BY <1>3, <1>6 DEF Inv
<1> QED BY <1>2, <1>7 DEF PushIInv

-----------------------------------------------------------------------------
(* What is pushed *)

\* All that is missing there and all that is common has its ancestors.
LEMMA PushedIsClosed ==
    ASSUME IsOrder, NEW p \in Pushops, NEW l, IsRepository(l), Asks(p, l)
    PROVE  /\ IsClosed(p.missing \cup p.common) /\ p.missing \cup p.common \subseteq p.has
           /\ p.missing \cup p.common \in SUBSET Changesets
           /\ AncestorsOf(p.heads) \subseteq p.missing \cup p.common
<1>1. p.has \in SUBSET Changesets /\ IsClosed(p.has) /\ p.heads \in SUBSET Changesets
  BY DEF Pushops, Asks, IsRepository
<1>2. IsClosed(AncestorsOf(p.heads)) /\ AncestorsOf(p.heads) \subseteq p.has
  BY <1>1, AncestorsAreClosed, ClosedHasAncestors DEF Asks
<1>3. p.missing \cup p.common = AncestorsOf(p.heads) \cup p.common
  BY DEF Asks
<1>4. IsClosed(p.missing \cup p.common)
  BY <1>2, <1>3, ClosedUnion DEF Asks
<1> QED BY <1>1, <1>2, <1>3, <1>4 DEF Asks

LEMMA CommonHeadsAre ==
    ASSUME IsOrder, NEW p \in Pushops, NEW l, IsRepository(l), Asks(p, l)
    PROVE  /\ FallbackHeads(p) \subseteq p.common
           /\ AncestorsOf(FallbackHeads(p)) \subseteq p.common
           /\ CommonHeads(p) \subseteq p.has /\ CommonHeads(p) \in SUBSET Changesets
           /\ Pushed(p) \subseteq p.missing \cup p.common
           /\ p.missing = {} => Pushed(p) \subseteq p.common
<1>1. FallbackHeads(p) \subseteq p.common
  BY DEF FallbackHeads, HeadsOf
<1>2. AncestorsOf(FallbackHeads(p)) \subseteq p.common
  BY <1>1, ClosedHasAncestors DEF Asks
<1>3. p.has \in SUBSET Changesets
  BY DEF Pushops
<1>4. CommonHeads(p) \subseteq p.has
  BY <1>1 DEF CommonHeads, Asks
<1>5. CASE p.missing = {}
  BY <1>1, <1>2, <1>3, <1>4, <1>5 DEF Pushed, CommonHeads
<1>6. CASE p.missing # {}
  <2>1. Pushed(p) = AncestorsOf(p.heads)
    BY <1>6 DEF Pushed, CommonHeads
  <2> QED BY <1>1, <1>2, <1>3, <1>4, <1>6, <2>1, PushedIsClosed
<1> QED BY <1>5, <1>6

\* A draft changeset of the server that the client has descends from one of the draft
\* roots it is told.
LEMMA DraftHasRoot ==
    ASSUME IsOrder, IsRepository(server), NEW has \in SUBSET Changesets, IsClosed(has),
           NEW c \in has, c \in server.known, c \notin server.public
    PROVE  c \in DescendantsOf(DraftRoots(has))
<1>1. server.known \ server.public \in SUBSET Changesets
  BY DEF IsRepository, Repositories
<1>2. PICK r \in RootsOf(server.known \ server.public) : r \in ancestors[c]
  BY <1>1, RootsCover
<1>3. r \in has
  BY <1>2 DEF IsClosed, AncestorsOf
<1> QED BY <1>1, <1>2, <1>3 DEF DescendantsOf, DraftRoots

\* What the client takes for public before the push is public.
LEMMA PublicPartIsPublic ==
    ASSUME IsOrder, IsRepository(server), NEW has \in SUBSET Changesets, IsClosed(has),
           NEW S \in SUBSET has, S \subseteq server.known
    PROVE  PublicPart(S, DraftRoots(has)) \subseteq server.public
<1> SUFFICES ASSUME NEW c \in AncestorsOf(S), c \notin DescendantsOf(DraftRoots(has)),
                    c \notin server.public
             PROVE  FALSE
  BY DEF PublicPart
<1>1. c \in has
  BY ClosedHasAncestors
<1>2. c \in server.known
  BY ClosedHasAncestors DEF IsRepository
<1> QED BY <1>1, <1>2, DraftHasRoot

\* What is to be public, and is not there, is an ancestor of what is made public.
LEMMA OutdatedCovers ==
    ASSUME IsOrder, IsRepository(server), NEW p \in Pushops, NEW l, IsRepository(l),
           Asks(p, l), p.common \subseteq server.known,
           NEW c \in Pushed(p), c \notin server.public,
           c \in (IF config.publishing THEN Changesets ELSE l.public)
    PROVE  c \in AncestorsOf(OutdatedPhases(p, DraftRoots(p.has), l.public))
<1> DEFINE cond == IF config.publishing THEN Changesets ELSE l.public
           droots == DraftRoots(p.has)
<1>1. p.has \in SUBSET Changesets /\ IsClosed(p.has) /\ c \in Changesets
  BY CommonHeadsAre, PushedIsClosed DEF Pushops, Asks, IsRepository
<1>2. c \in p.common => c \in DescendantsOf(droots)
  BY <1>1, DraftHasRoot DEF Asks
<1>3. ASSUME NEW Y \in SUBSET Changesets, c \in Y PROVE c \in AncestorsOf(HeadsOf(Y))
  BY <1>3, HeadsSpan, AncestorsAreClosed
<1>4. CASE p.missing = {}
  <2>1. c \in p.common /\ c \in AncestorsOf(FallbackHeads(p))
    BY <1>4, CommonHeadsAre DEF Pushed, CommonHeads
  <2>2. c \in Between(droots, FallbackHeads(p)) \cap cond
    BY <1>2, <2>1 DEF Between
  <2>3. Between(droots, FallbackHeads(p)) \cap cond \in SUBSET Changesets
    BY DEF Between, DescendantsOf
  <2>4. c \in AncestorsOf(HeadsOf(Between(droots, FallbackHeads(p)) \cap cond))
    <3> HIDE DEF cond, droots
    <3> QED BY <1>3, <2>2, <2>3
  <2> QED BY <1>4, <2>4 DEF OutdatedPhases
<1>5. CASE p.missing # {}
  <2> DEFINE sent == p.missing \cup (DescendantsOf(droots) \cap p.has)
             fdroots == RootsOf(sent)
  <2>1. c \in AncestorsOf(p.heads)
    BY <1>5 DEF Pushed, CommonHeads
  <2>2. c \in sent
    BY <1>2, <2>1 DEF Asks
  <2>3. sent \in SUBSET Changesets
    BY <1>1, PushedIsClosed
  <2>4. c \in DescendantsOf(fdroots)
    <3>1. c \in DescendantsOf(sent)
      BY <1>1, <2>2, Ancestry DEF DescendantsOf, IsOrder
    <3>2. DescendantsOf(fdroots) = DescendantsOf(sent)
      BY <2>3, RootsSpan
    <3> QED BY <3>1, <3>2
  <2>5. c \in Between(fdroots, p.heads) \cap cond
    BY <2>1, <2>4 DEF Between
  <2>6. Between(fdroots, p.heads) \cap cond \in SUBSET Changesets
    BY DEF Between, DescendantsOf
  <2>7. c \in AncestorsOf(HeadsOf(Between(fdroots, p.heads) \cap cond))
    <3> HIDE DEF cond, fdroots
    <3> QED BY <1>3, <2>5, <2>6
  <2> QED BY <1>5, <2>7 DEF OutdatedPhases
<1> QED BY <1>4, <1>5

LEMMA OutdatedIsPushed ==
    ASSUME IsOrder, NEW p \in Pushops, NEW l, IsRepository(l), Asks(p, l),
           NEW droots, NEW public
    PROVE  OutdatedPhases(p, droots, public) \subseteq p.missing \cup p.common
<1>1. CASE p.missing = {}
  BY <1>1, CommonHeadsAre DEF OutdatedPhases, Between, HeadsOf
<1>2. CASE p.missing # {}
  <2>1. AncestorsOf(p.heads) \subseteq p.missing \cup p.common
    BY PushedIsClosed
  <2> QED BY <1>2, <2>1 DEF OutdatedPhases, Between, HeadsOf
<1> QED BY <1>1, <1>2

-----------------------------------------------------------------------------
(* The server of others' pushes *)

LEMMA ServerGrows ==
    ASSUME NEW p, NEW l, NEW s, NEW s2, Sound(p, l, s),
           s.known \subseteq s2.known, s.public \subseteq s2.public
    PROVE  Sound(p, l, s2)
<1>1. Found(p, s2) /\ Summed(p, s2)
  BY DEF Sound, Found, Summed
<1>2. Published(p, l, s) => Published(p, l, s2)
  BY DEF Published
<1>3. Sent(p, l, s) => Sent(p, l, s2)
  BY DEF Sent
<1> QED BY <1>1, <1>2, <1>3 DEF Sound

\* A step of the push of cl: what it is then is sound, with what its repository and
\* the server are then.
LEMMA StepOf ==
    ASSUME PushIInv, NEW cl \in Clients, NEW q, NEW l, NEW s,
           UNCHANGED <<ancestors, branch, config>>,
           push' = [push EXCEPT ![cl] = q], client' = [client EXCEPT ![cl] = l], server' = s,
           IsRepository(s), IsRepository(l),
           server.known \subseteq s.known, server.public \subseteq s.public,
           q # Idle => q \in Pushops /\ Sound(q, l, s)
    PROVE  PushIInv'
<1>1. Inv(server, client, push) /\ Typed /\ IsDag
  BY DEF PushIInv
<1>2. client' \in [Clients -> Repositories] /\ push' \in [Clients -> Pushops \cup {Idle}]
  BY <1>1 DEF Typed, IsRepository
<1>3. ASSUME NEW c \in Clients
      PROVE  /\ IsRepository(client'[c])
             /\ push'[c] # Idle => push'[c] \in Pushops /\ Sound(push'[c], client'[c], s)
  <2>1. CASE c = cl
    <3>1. PICK p, m : p = push'[c] /\ m = client'[c]
      OBVIOUS
    <3>2. p = q /\ m = l
      BY <1>1, <2>1, <3>1 DEF Typed
    <3> QED BY <3>1, <3>2
  <2>2. CASE c # cl
    <3>1. PICK p, m : p = push[c] /\ m = client[c]
      OBVIOUS
    <3>2. p = push'[c] /\ m = client'[c]
      BY <1>1, <2>2, <3>1 DEF Typed
    <3>3. IsRepository(m) /\ (p # Idle => p \in Pushops /\ Sound(p, m, server))
      BY <1>1, <3>1 DEF Inv
    <3>4. p # Idle => Sound(p, m, s)
      BY <3>3, ServerGrows
    <3> QED BY <3>2, <3>3, <3>4
  <2> QED BY <2>1, <2>2
<1>4. Inv(server', client', push')
  BY <1>3 DEF Inv
<1> QED BY <1>1, <1>2, <1>4, Steady

LEMMA AtWork ==
    ASSUME PushIInv, NEW cl \in Clients, push[cl].step # "idle"
    PROVE  /\ push[cl] \in Pushops /\ Sound(push[cl], client[cl], server)
           /\ IsRepository(client[cl]) /\ IsRepository(server) /\ IsOrder
           /\ client \in [Clients -> Repositories] /\ push \in [Clients -> Pushops \cup {Idle}]
<1>1. push[cl] # Idle
  BY DEF Idle
<1>2. Inv(server, client, push) /\ Typed /\ IsDag
  BY DEF PushIInv
<1> QED BY <1>1, <1>2 DEF Inv, Typed, IsDag

\* What does not change after the discovery.
Keeps(p, q) ==
    /\ q.has = p.has /\ q.seen = p.seen /\ q.common = p.common /\ q.heads = p.heads
    /\ q.missing = p.missing /\ q.revs = p.revs /\ q.explicit = p.explicit /\ q.force = p.force

LEMMA Kept ==
    ASSUME NEW p, NEW q, Keeps(p, q)
    PROVE  /\ \A l : Asks(p, l) => Asks(q, l)
           /\ \A s : Found(p, s) => Found(q, s)
           /\ Pushed(q) = Pushed(p) /\ FallbackHeads(q) = FallbackHeads(p)
           /\ \A there : HeadsSummary(q, there) = HeadsSummary(p, there)
<1>1. \A l : Asks(p, l) => Asks(q, l)
  BY DEF Keeps, Asks
<1>2. \A s : Found(p, s) => Found(q, s)
  BY DEF Keeps, Found
<1>3. FallbackHeads(q) = FallbackHeads(p)
  BY DEF Keeps, FallbackHeads
<1>4. Pushed(q) = Pushed(p)
  BY <1>3 DEF Keeps, Pushed, CommonHeads
<1>5. \A there : HeadsSummary(q, there) = HeadsSummary(p, there)
  BY DEF Keeps, HeadsSummary
<1> QED BY <1>1, <1>2, <1>3, <1>4, <1>5

LEMMA OnlyStep ==
    ASSUME NEW p \in Pushops, NEW x \in Steps, NEW q, q = [p EXCEPT !.step = x]
    PROVE  /\ q \in Pushops /\ q.step = x /\ Keeps(p, q) /\ q.outdated = p.outdated
           /\ \A l : MarkGoes(p, l) => MarkGoes(q, l)
           /\ \A l, s : Published(p, l, s) => Published(q, l, s)
           /\ \A l, s : Sent(p, l, s) => Sent(q, l, s)
           /\ \A s : Summed(p, s) => Summed(q, s)
           /\ \A nowarn : AddsHeads(q, nowarn) = AddsHeads(p, nowarn)
           /\ q.summary = p.summary
<1>1. q \in Pushops
  BY DEF Pushops
<1>2. /\ q.step = x /\ Keeps(p, q) /\ q.outdated = p.outdated /\ q.droots = p.droots
      /\ q.outmark = p.outmark /\ q.oldmark = p.oldmark /\ q.summary = p.summary
  BY DEF Pushops, Keeps
<1>3. \A l : MarkGoes(p, l) => MarkGoes(q, l)
  BY <1>2 DEF MarkGoes, Keeps
<1>4. \A l, s : Published(p, l, s) => Published(q, l, s)
  BY <1>2, Kept DEF Published, Keeps
<1>5. \A l, s : Sent(p, l, s) => Sent(q, l, s)
  BY <1>2, Kept DEF Sent
<1>6. ASSUME NEW s, Summed(p, s) PROVE Summed(q, s)
  <2>1. CASE p.summary = <<>>
    BY <1>2, <2>1 DEF Summed
  <2>2. CASE p.summary # <<>>
    <3>1. PICK there \in SUBSET Changesets :
            /\ p.seen.known \cup p.common \subseteq there /\ there \subseteq s.known
            /\ p.summary = HeadsSummary(p, there)
      BY <1>6, <2>2 DEF Summed
    <3>2. HeadsSummary(q, there) = HeadsSummary(p, there)
      BY <1>2, Kept
    <3> QED BY <1>2, <3>1, <3>2 DEF Summed, Keeps
  <2> QED BY <2>1, <2>2
<1>7. \A nowarn : AddsHeads(q, nowarn) = AddsHeads(p, nowarn)
  BY <1>2 DEF AddsHeads
<1> QED BY <1>1, <1>2, <1>3, <1>4, <1>5, <1>6, <1>7

-----------------------------------------------------------------------------
(* One lemma per step *)

LEMMA NoSummary == <<>> \in Summaries
<1>1. <<>> \in [{} -> [exists : BOOLEAN, old : SUBSET Changesets, unsynced : SUBSET Changesets,
                       new : SUBSET Changesets]]
  OBVIOUS
<1> QED BY <1>1 DEF Summaries

LEMMA DiscoverInv ==
    ASSUME PushIInv, NEW cl \in Clients, NEW o \in Options,
           NEW revs \in {None} \cup {{h} : h \in HeadsOf(client[cl].known)}, Discover(cl, o, revs)
    PROVE  PushIInv'
<1>1. /\ IsRepository(client[cl]) /\ IsRepository(server) /\ IsOrder
      /\ client \in [Clients -> Repositories] /\ push \in [Clients -> Pushops \cup {Idle}]
  BY DEF PushIInv, Inv, Typed, IsDag
<1>2. PICK l, s, has, both, r : l = client[cl] /\ s = server /\ has = client[cl].known
                                  /\ both = has \cap server.known /\ r = Revs(cl, o, revs)
  OBVIOUS
<1>3. PICK heads : heads = IF r = None THEN HeadsOf(has) ELSE r
  OBVIOUS
<1>4. PICK x \in {"refused", "phases"} :
        x = IF ~o.force /\ both = {} /\ has # {} /\ server.known # {}
              THEN "refused" ELSE "phases"
  OBVIOUS
<1>5. PICK q : q = [step |-> x, force |-> o.force, newbranch |-> o.newbranch,
                    explicit |-> o.explicit, revs |-> r, has |-> has, seen |-> s,
                    common |-> both, heads |-> heads,
                    missing |-> AncestorsOf(heads) \ both,
                    droots |-> {}, outdated |-> {}, outmark |-> FALSE, oldmark |-> None,
                    summary |-> <<>>]
  OBVIOUS
<1>6. /\ has \in SUBSET Changesets /\ IsClosed(has)
      /\ both \in SUBSET Changesets /\ IsClosed(both)
  BY <1>1, <1>2 DEF IsRepository, Repositories, IsClosed, AncestorsOf
<1>7. r \in (SUBSET has) \cup {None}
  BY <1>1, <1>2 DEF Revs, HeadsOf, IsRepository
<1>8. heads \in SUBSET has
  BY <1>3, <1>7 DEF HeadsOf
<1>9. AncestorsOf(heads) \in SUBSET has
  BY <1>6, <1>8, ClosedHasAncestors
<1>10. r = None => has \subseteq AncestorsOf(heads)
  BY <1>1, <1>3, <1>6, HeadsSpan, AncestorsAreClosed
<1>11. o.explicit => l.mark = None \/ l.mark \in AncestorsOf(heads)
  <2> SUFFICES ASSUME o.explicit, l.mark # None PROVE l.mark \in AncestorsOf(heads)
    OBVIOUS
  <2>1. l.mark \in has
    BY <1>1, <1>2 DEF IsRepository
  <2>2. l.mark \in r
    BY <1>2 DEF Revs
  <2>3. r # None => l.mark \in AncestorsOf(heads)
    BY <1>1, <1>3, <1>6, <1>8, <2>2, AncestorsAreClosed
  <2> QED BY <1>10, <2>1, <2>3
<1>12. q \in Pushops
  <2>1. o.force \in BOOLEAN /\ o.newbranch \in BOOLEAN /\ o.explicit \in BOOLEAN
    BY PushAssumption
  <2>2. s \in Repositories /\ s \in Repositories
    BY <1>1, <1>2 DEF IsRepository
  <2> QED BY <1>5, <1>6, <1>7, <1>8, <1>9, <2>1, <2>2, NoSummary DEF Pushops, Steps
<1>13. Sound(q, l, s)
  <2>1. Asks(q, l)
    BY <1>1, <1>2, <1>3, <1>5, <1>6, <1>8, <1>10, <1>11 DEF Asks, IsRepository
  <2>2. Found(q, s)
    BY <1>2, <1>5 DEF Found
  <2>3. Summed(q, s)
    BY <1>5 DEF Summed
  <2>4. q.outdated = {} /\ q.step \in {"refused", "phases"} /\ q.summary = <<>>
    BY <1>5
  <2> QED BY <2>1, <2>2, <2>3, <2>4 DEF Sound
<1>14. client' = [client EXCEPT ![cl] = l] /\ server' = s /\ UNCHANGED <<ancestors, branch, config>>
  BY <1>1, <1>2 DEF Discover
<1>15. /\ IsRepository(s) /\ IsRepository(l)
       /\ server.known \subseteq s.known /\ server.public \subseteq s.public
  BY <1>1, <1>2
<1>16. push' = [push EXCEPT ![cl] = q]
  BY <1>2, <1>3, <1>4, <1>5 DEF Discover
<1> QED BY <1>12, <1>13, <1>14, <1>15, <1>16, StepOf

\* Steps of a push that change neither repository.
LEMMA AskingInv ==
    ASSUME PushIInv, NEW cl \in Clients, UNCHANGED <<ancestors, branch, config, server, client>>,
           push[cl].step # "idle", NEW q, push' = [push EXCEPT ![cl] = q],
           q # Idle => q \in Pushops /\ Sound(q, client[cl], server)
    PROVE  PushIInv'
<1>1. PICK l, s : l = client[cl] /\ s = server
  OBVIOUS
<1>2. client' = [client EXCEPT ![cl] = l] /\ server' = s
  BY <1>1, AtWork
<1>3. IsRepository(s) /\ IsRepository(l) /\ server.known \subseteq s.known /\ server.public \subseteq s.public
  BY <1>1, AtWork
<1> QED BY <1>1, <1>2, <1>3, StepOf

LEMMA ListPhasesInv ==
    ASSUME PushIInv, NEW cl \in Clients, ListPhases(cl) PROVE PushIInv'
<1>1. /\ push[cl] \in Pushops /\ Sound(push[cl], client[cl], server)
      /\ IsRepository(client[cl]) /\ IsRepository(server) /\ IsOrder
  BY AtWork DEF ListPhases, AtStep
<1>2. PICK p \in Pushops, l \in Repositories : p = push[cl] /\ l = client[cl]
  BY <1>1 DEF IsRepository
<1>3. PICK droots, outdated : /\ droots = DraftRoots(p.has)
                              /\ outdated = OutdatedPhases(p, droots, l.public)
  OBVIOUS
<1>4. PICK q : q = [p EXCEPT !.step = "bookmarks", !.droots = droots, !.outdated = outdated]
  OBVIOUS
<1>5. Asks(p, l) /\ Found(p, server) /\ p.summary = <<>> /\ IsRepository(l)
  BY <1>1, <1>2 DEF Sound, ListPhases, AtStep
<1>6. outdated \subseteq p.missing \cup p.common
  BY <1>1, <1>3, <1>5, OutdatedIsPushed
<1>7. droots \in SUBSET Changesets /\ outdated \in SUBSET Changesets
  BY <1>3, <1>6 DEF DraftRoots, Pushops
<1>8. q \in Pushops
  BY <1>4, <1>7 DEF Pushops, Steps
<1>9. /\ Keeps(p, q) /\ q.step = "bookmarks" /\ q.droots = droots /\ q.outdated = outdated
      /\ q.summary = p.summary
  BY <1>4 DEF Keeps, Pushops
<1>10. Asks(q, l) /\ Found(q, server) /\ Summed(q, server)
  BY <1>5, <1>9, Kept DEF Summed, Keeps
<1>11. Published(q, l, server)
  <2>1. ASSUME NEW c \in Pushed(p), c \notin server.public,
               c \in (IF config.publishing THEN Changesets ELSE l.public)
        PROVE  c \in AncestorsOf(outdated)
    BY <1>1, <1>3, <1>5, <2>1, OutdatedCovers DEF Found
  <2>2. Pushed(p) \subseteq Changesets
    BY <1>1, <1>5, CommonHeadsAre, PushedIsClosed
  <2>3. config.publishing => Pushed(p) \subseteq server.public \cup AncestorsOf(outdated)
    BY <2>1, <2>2
  <2>4. Pushed(p) \cap l.public \subseteq server.public \cup AncestorsOf(outdated)
    BY <2>1, <2>2
  <2>5. PublicPart(FallbackHeads(p), droots) \subseteq server.public
    <3>1. p.has \in SUBSET Changesets /\ IsClosed(p.has)
      BY <1>5 DEF Pushops, Asks, IsRepository
    <3>2. FallbackHeads(p) \in SUBSET p.has /\ FallbackHeads(p) \subseteq server.known
      BY <1>1, <1>5, CommonHeadsAre DEF Asks, Found
    <3> QED BY <1>1, <1>3, <3>1, <3>2, PublicPartIsPublic
  <2>6. droots \cap p.seen.public = {}
    BY <1>3, <1>5 DEF DraftRoots, RootsOf, Found
  <2> QED BY <1>9, <2>3, <2>4, <2>5, <2>6, Kept DEF Published, Keeps
<1>12. Sound(q, l, server)
  BY <1>5, <1>6, <1>9, <1>10, <1>11 DEF Sound, Keeps
<1>13. /\ push' = [push EXCEPT ![cl] = q] /\ push[cl].step # "idle"
       /\ UNCHANGED <<ancestors, branch, config, server, client>>
  BY <1>2, <1>3, <1>4 DEF ListPhases, AtStep
<1> QED BY <1>2, <1>8, <1>12, <1>13, AskingInv

LEMMA ListBookmarksInv ==
    ASSUME PushIInv, NEW cl \in Clients, ListBookmarks(cl) PROVE PushIInv'
<1>1. /\ push[cl] \in Pushops /\ Sound(push[cl], client[cl], server)
      /\ IsRepository(client[cl]) /\ IsRepository(server) /\ IsOrder
  BY AtWork DEF ListBookmarks, AtStep
<1>2. PICK p \in Pushops, l \in Repositories : p = push[cl] /\ l = client[cl]
  BY <1>1 DEF IsRepository
<1>3. PICK theirs \in Changesets \cup {None}, goes \in BOOLEAN :
        theirs = server.mark /\ goes = OutMark(p, l.mark, server.mark)
  BY <1>1 DEF IsRepository, Repositories, OutMark, Pushops
<1>4. PICK q0 : q0 = [p EXCEPT !.oldmark = theirs, !.outmark = goes]
  OBVIOUS
<1>5. PICK x \in {"sync", "send", "branchmap"} :
        x = IF ~Pushing(q0) THEN "sync"
            ELSE IF q0.missing = {} \/ q0.force \/ q0.seen.known = {} THEN "send"
            ELSE "branchmap"
  OBVIOUS
<1>6. PICK q : q = [q0 EXCEPT !.step = x]
  OBVIOUS
<1>7. q0 \in Pushops /\ q \in Pushops
  BY <1>4, <1>6 DEF Pushops, Steps
<1>8. /\ Keeps(p, q) /\ q.step = x /\ q.droots = p.droots /\ q.outdated = p.outdated
      /\ q.summary = p.summary /\ q.oldmark = theirs /\ q.outmark = goes
      /\ q0.missing = p.missing /\ q0.outdated = p.outdated
  BY <1>4, <1>6 DEF Keeps, Pushops
<1>9. /\ Asks(p, l) /\ Found(p, server) /\ Published(p, l, server) /\ p.summary = <<>>
      /\ p.outdated \subseteq p.missing \cup p.common /\ IsRepository(l)
  BY <1>1, <1>2 DEF Sound, ListBookmarks, AtStep
<1>10. Asks(q, l) /\ Found(q, server) /\ Summed(q, server) /\ Published(q, l, server)
  BY <1>8, <1>9, Kept DEF Summed, Published, Keeps
<1>11. MarkGoes(q, l)
  <2> SUFFICES ASSUME goes
               PROVE  /\ l.mark = None \/ l.mark \in AncestorsOf(p.heads)
                      /\ ~p.explicit => /\ theirs \in p.has /\ l.mark \in Changesets
                                        /\ theirs \in ancestors[l.mark]
    BY <1>8 DEF MarkGoes, Keeps
  <2>1. ~p.explicit => theirs \in p.has /\ l.mark \in p.has /\ theirs \in ancestors[l.mark]
    BY <1>3 DEF OutMark
  <2>2. CASE p.explicit
    BY <1>9, <2>2 DEF Asks
  <2>3. CASE ~p.explicit
    <3>1. p.revs = None \/ l.mark \in AncestorsOf(p.revs)
      BY <1>3, <2>3 DEF OutMark
    <3>2. l.mark \in AncestorsOf(p.heads)
      BY <1>9, <2>1, <2>3, <3>1 DEF Asks
    <3>3. l.mark \in Changesets
      BY <2>1, <2>3 DEF Pushops
    <3> QED BY <2>1, <2>3, <3>2, <3>3
  <2> QED BY <2>2, <2>3
<1>12. Warned(q, l)
  BY <1>8, <1>9 DEF Warned, AddsHeads
<1>13. q.step = "sync" => Sent(q, l, server)
  <2> SUFFICES ASSUME q.step = "sync" PROVE Sent(q, l, server)
    OBVIOUS
  <2>1. p.missing = {} /\ p.outdated = {}
    BY <1>5, <1>8 DEF Pushing
  <2>2. Pushed(q) = Pushed(p) /\ AncestorsOf(p.outdated) = {}
    BY <1>8, <2>1, Kept DEF AncestorsOf
  <2>3. Pushed(p) \subseteq server.known
    BY <1>1, <1>9, <2>1, CommonHeadsAre DEF Found
  <2> QED BY <1>9, <2>2, <2>3 DEF Sent, Published
<1>14. Sound(q, l, server)
  BY <1>5, <1>8, <1>9, <1>10, <1>11, <1>12, <1>13 DEF Sound, Keeps
<1>15. /\ push' = [push EXCEPT ![cl] = q] /\ push[cl].step # "idle"
       /\ UNCHANGED <<ancestors, branch, config, server, client>>
  BY <1>2, <1>3, <1>4, <1>5, <1>6 DEF ListBookmarks, AtStep
<1> QED BY <1>2, <1>7, <1>14, <1>15, AskingInv

LEMMA BranchMapInv ==
    ASSUME PushIInv, NEW cl \in Clients, BranchMap(cl) PROVE PushIInv'
<1>1. /\ push[cl] \in Pushops /\ Sound(push[cl], client[cl], server)
      /\ IsRepository(client[cl]) /\ IsRepository(server) /\ IsOrder
  BY AtWork DEF BranchMap, AtStep
<1>2. PICK p \in Pushops, l \in Repositories : p = push[cl] /\ l = client[cl]
  BY <1>1 DEF IsRepository
<1>3. PICK sum : sum = HeadsSummary(p, server.known)
  OBVIOUS
<1>4. PICK x \in {"refused", "nowarn"} :
        x = IF {b \in DOMAIN sum : ~sum[b].exists} # {} /\ ~p.newbranch THEN "refused" ELSE "nowarn"
  OBVIOUS
<1>5. PICK q : q = [p EXCEPT !.summary = sum, !.step = x]
  OBVIOUS
<1>6. sum \in Summaries
  <2> DEFINE B == {branch[c] : c \in p.missing}
             Summary == [exists : BOOLEAN, old : SUBSET Changesets,
                         unsynced : SUBSET Changesets, new : SUBSET Changesets]
  <2>1. B \in SUBSET Branches
    BY DEF PushIInv, Typed, Pushops
  <2>2. ASSUME NEW S \in SUBSET Changesets, NEW b PROVE HeadsOn(S, b) \in SUBSET Changesets
    BY DEF HeadsOn
  <2>3. server.known \in SUBSET Changesets
    BY <1>1 DEF IsRepository, Repositories
  <2>4. ASSUME NEW b \in B PROVE sum[b] \in Summary
    <3>1. PICK heads \in SUBSET Changesets : heads = HeadsOn(server.known, b)
      BY <2>2, <2>3
    <3>2. (heads \cap p.has) \cup p.missing \in SUBSET Changesets
      BY DEF Pushops
    <3>3. HeadsOn((heads \cap p.has) \cup p.missing, b) \in SUBSET Changesets
      BY <2>2, <3>2
    <3> QED BY <1>3, <3>1, <3>3 DEF HeadsSummary
  <2>5. sum \in [B -> Summary]
    BY <1>3, <2>4 DEF HeadsSummary
  <2> HIDE DEF B
  <2> QED BY <2>1, <2>5 DEF Summaries
<1>7. q \in Pushops
  BY <1>5, <1>6 DEF Pushops, Steps
<1>8. /\ Keeps(p, q) /\ q.step = x /\ q.droots = p.droots /\ q.outdated = p.outdated
      /\ q.summary = sum /\ q.oldmark = p.oldmark /\ q.outmark = p.outmark
  BY <1>5 DEF Keeps, Pushops
<1>9. /\ Asks(p, l) /\ Found(p, server) /\ Published(p, l, server) /\ MarkGoes(p, l)
      /\ p.outdated \subseteq p.missing \cup p.common
  BY <1>1, <1>2 DEF Sound, BranchMap, AtStep
<1>10. Asks(q, l) /\ Found(q, server) /\ Published(q, l, server) /\ MarkGoes(q, l)
  BY <1>8, <1>9, Kept DEF Published, Keeps, MarkGoes
<1>11. Summed(q, server)
  <2>1. server.known \in SUBSET Changesets
    BY <1>1 DEF IsRepository, Repositories
  <2>2. q.summary = HeadsSummary(q, server.known)
    BY <1>3, <1>8, Kept
  <2>3. q.seen.known \cup q.common \subseteq server.known
    BY <1>10 DEF Found
  <2> QED BY <2>1, <2>2, <2>3 DEF Summed
<1>12. Sound(q, l, server)
  BY <1>4, <1>8, <1>9, <1>10, <1>11 DEF Sound, Keeps
<1>13. /\ push' = [push EXCEPT ![cl] = q] /\ push[cl].step # "idle"
       /\ UNCHANGED <<ancestors, branch, config, server, client>>
  BY <1>2, <1>3, <1>4, <1>5 DEF BranchMap, AtStep
<1> QED BY <1>2, <1>7, <1>12, <1>13, AskingInv

LEMMA NoWarnInv ==
    ASSUME PushIInv, NEW cl \in Clients, NoWarn(cl) PROVE PushIInv'
<1>1. /\ push[cl] \in Pushops /\ Sound(push[cl], client[cl], server)
      /\ IsRepository(client[cl]) /\ IsRepository(server) /\ IsOrder
  BY AtWork DEF NoWarn, AtStep
<1>2. PICK p \in Pushops, l \in Repositories : p = push[cl] /\ l = client[cl]
  BY <1>1 DEF IsRepository
<1>3. PICK nowarn \in SUBSET {l.mark} : nowarn = NoWarnHeads(p, l.mark, server.mark)
  BY DEF NoWarnHeads
<1>4. PICK x \in {"refused", "send"} : x = IF AddsHeads(p, nowarn) THEN "refused" ELSE "send"
  OBVIOUS
<1>5. PICK q : q = [p EXCEPT !.step = x]
  OBVIOUS
<1>6. /\ q \in Pushops /\ q.step = x /\ Keeps(p, q) /\ q.outdated = p.outdated
      /\ MarkGoes(p, l) => MarkGoes(q, l)
      /\ Published(p, l, server) => Published(q, l, server)
      /\ Summed(p, server) => Summed(q, server)
      /\ AddsHeads(q, nowarn) = AddsHeads(p, nowarn)
  <2>1. x \in Steps
    BY DEF Steps
  <2> QED BY <1>5, <2>1, OnlyStep
<1>7. /\ Asks(p, l) /\ Found(p, server) /\ Published(p, l, server) /\ MarkGoes(p, l)
      /\ p.outdated \subseteq p.missing \cup p.common /\ Summed(p, server)
  BY <1>1, <1>2 DEF Sound, NoWarn, AtStep
<1>8. Asks(q, l) /\ Found(q, server)
  BY <1>6, <1>7, Kept
<1>9. q.step = "send" => Warned(q, l)
  BY <1>4, <1>6 DEF Warned
<1>10. Sound(q, l, server)
  BY <1>4, <1>6, <1>7, <1>8, <1>9 DEF Sound, Keeps
<1>11. /\ push' = [push EXCEPT ![cl] = q] /\ push[cl].step # "idle"
       /\ UNCHANGED <<ancestors, branch, config, server, client>>
  BY <1>2, <1>3, <1>4, <1>5 DEF NoWarn, AtStep
<1> QED BY <1>2, <1>6, <1>10, <1>11, AskingInv

LEMMA UnbundleInv ==
    ASSUME PushIInv, NEW cl \in Clients, Unbundle(cl) PROVE PushIInv'
<1>1. /\ push[cl] \in Pushops /\ Sound(push[cl], client[cl], server)
      /\ IsRepository(client[cl]) /\ IsRepository(server) /\ IsOrder
      /\ client \in [Clients -> Repositories]
  BY AtWork DEF Unbundle, AtStep
<1>2. PICK p \in Pushops, l \in Repositories : p = push[cl] /\ l = client[cl]
  BY <1>1 DEF IsRepository
<1>3. PICK x \in {"sync", "raced"} :
        x = IF CheckBookmarks(p) /\ CheckPhases(p) /\ CheckHeads(p) THEN "sync" ELSE "raced"
  OBVIOUS
<1>4. PICK q : q = [p EXCEPT !.step = x]
  OBVIOUS
<1>5. /\ q \in Pushops /\ q.step = x /\ Keeps(p, q) /\ q.outdated = p.outdated
      /\ \A s : Sent(p, l, s) => Sent(q, l, s)
      /\ \A s : Summed(p, s) => Summed(q, s)
  <2>1. x \in Steps
    BY DEF Steps
  <2> QED BY <1>4, <2>1, OnlyStep
<1>6. /\ Asks(p, l) /\ Found(p, server) /\ Published(p, l, server) /\ MarkGoes(p, l)
      /\ p.outdated \subseteq p.missing \cup p.common /\ Summed(p, server) /\ IsRepository(l)
  BY <1>1, <1>2 DEF Sound, Unbundle, AtStep
<1>7. Asks(q, l) /\ Found(q, server)
  BY <1>5, <1>6, Kept
<1>8. push' = [push EXCEPT ![cl] = q] /\ push[cl].step # "idle"
      /\ UNCHANGED <<ancestors, branch, config, client>>
  BY <1>2, <1>3, <1>4 DEF Unbundle, AtStep
<1>9. CASE x = "raced"
  <2>1. UNCHANGED server
    BY <1>2, <1>3, <1>9 DEF Unbundle
  <2>2. Sound(q, l, server)
    BY <1>5, <1>6, <1>7, <1>9 DEF Sound, Keeps
  <2> QED BY <1>2, <1>5, <1>8, <2>1, <2>2, AskingInv
<1>10. CASE x = "sync"
  <2>1. PICK received, published, mark :
          /\ received = IF config.publishing THEN AncestorsOf(p.missing) ELSE {}
          /\ published = AncestorsOf(p.outdated)
          /\ mark = IF p.outmark THEN l.mark ELSE server.mark
    OBVIOUS
  <2>2. PICK s : s = [known |-> server.known \cup p.missing,
                      public |-> server.public \cup received \cup published, mark |-> mark]
    OBVIOUS
  <2>3. server' = s
    BY <1>2, <1>3, <1>10, <2>1, <2>2 DEF Unbundle
  <2> DEFINE sent == p.missing \cup p.common
  <2>4. IsClosed(sent) /\ sent \in SUBSET Changesets /\ sent \subseteq server.known \cup p.missing
    BY <1>1, <1>6, PushedIsClosed DEF Found
  <2>5. IsClosed(received) /\ received \subseteq sent
    <3>1. AncestorsOf(p.missing) \subseteq sent
      BY <2>4, ClosedHasAncestors
    <3>2. IsClosed(AncestorsOf(p.missing)) /\ IsClosed({})
      <4>1. p.missing \in SUBSET Changesets
        BY DEF Pushops
      <4> QED BY <1>1, <4>1, AncestorsAreClosed DEF IsClosed, AncestorsOf
    <3> QED BY <2>1, <3>1, <3>2
  <2>6. IsClosed(published) /\ published \subseteq sent
    <3>1. p.outdated \in SUBSET Changesets
      BY DEF Pushops
    <3> QED BY <1>1, <1>6, <2>1, <2>4, <3>1, ClosedHasAncestors, AncestorsAreClosed
  <2>7. IsClosed(server.known \cup p.missing)
    <3>1. server.known \cup p.missing = server.known \cup sent
      BY <1>6 DEF Found
    <3> QED BY <1>1, <2>4, <3>1, ClosedUnion DEF IsRepository
  <2>8. IsClosed(server.public \cup received \cup published)
    BY <1>1, <2>5, <2>6, ClosedUnion DEF IsRepository
  <2>9. mark \in server.known \cup p.missing \cup {None}
    <3>1. p.outmark => l.mark \in sent \cup {None}
      BY <1>1, <1>6, PushedIsClosed DEF MarkGoes
    <3> QED BY <1>1, <2>1, <2>4, <3>1 DEF IsRepository
  <2>10. IsRepository(s)
    <3>1. /\ server.known \in SUBSET Changesets /\ p.missing \in SUBSET Changesets
          /\ server.public \subseteq server.known
      BY <1>1 DEF IsRepository, Repositories, Pushops
    <3>2. s \in Repositories
      BY <2>2, <2>4, <2>5, <2>6, <2>9, <3>1 DEF Repositories
    <3> QED BY <2>2, <2>4, <2>5, <2>6, <2>7, <2>8, <2>9, <3>1, <3>2 DEF IsRepository
  <2>11. server.known \subseteq s.known /\ server.public \subseteq s.public
    BY <2>2
  <2>12. Sent(q, l, s)
    <3>1. Pushed(p) \subseteq s.known
      BY <1>1, <1>6, <2>2, <2>4, CommonHeadsAre
    <3>2. server.public \cup AncestorsOf(p.outdated) \subseteq s.public
      BY <2>1, <2>2
    <3>3. Sent(p, l, s)
      BY <1>6, <3>1, <3>2 DEF Sent, Published
    <3> QED BY <1>5, <3>3
  <2>13. Found(q, s) /\ Summed(q, s)
    BY <1>5, <1>6, <1>7, <2>11 DEF Found, Summed
  <2>14. Sound(q, l, s)
    BY <1>5, <1>6, <1>7, <1>10, <2>12, <2>13 DEF Sound, Keeps
  <2>15. client' = [client EXCEPT ![cl] = l]
    BY <1>1, <1>2, <1>8
  <2> HIDE DEF sent
  <2> QED BY <1>5, <1>6, <1>8, <2>3, <2>10, <2>11, <2>14, <2>15, StepOf
<1> QED BY <1>3, <1>9, <1>10

\* What a client takes for public after its push is what it has and the server's.
LEMMA LocalMovesArePublic ==
    ASSUME IsOrder, IsRepository(server), NEW p \in Pushops, NEW l, IsRepository(l),
           Asks(p, l), Sent(p, l, server)
    PROVE  /\ LocalMoves(p) \subseteq server.public /\ LocalMoves(p) \subseteq p.has
           /\ IsClosed(LocalMoves(p))
<1>1. p.has \in SUBSET Changesets /\ IsClosed(p.has)
  BY DEF Pushops, Asks, IsRepository
<1>2. CommonHeads(p) \in SUBSET p.has /\ CommonHeads(p) \in SUBSET Changesets
  BY CommonHeadsAre
<1>3. AncestorsOf(CommonHeads(p)) \subseteq p.has /\ IsClosed(AncestorsOf(CommonHeads(p)))
  BY <1>1, <1>2, ClosedHasAncestors, AncestorsAreClosed
<1>4. AncestorsOf(CommonHeads(p)) \subseteq server.known
  BY DEF Sent, Pushed
<1>5. CASE config.publishing
  BY <1>3, <1>5 DEF LocalMoves, Sent, Pushed
<1>6. CASE ~config.publishing
  <2>1. LocalMoves(p) = AncestorsOf(CommonHeads(p)) \ DescendantsOf(DraftRoots(p.has))
    BY <1>6 DEF LocalMoves, PublicPart
  <2>2. CommonHeads(p) \subseteq server.known
    BY <1>2, <1>4, AncestorsAreClosed
  <2>3. LocalMoves(p) \subseteq server.public
    BY <1>1, <1>2, <1>6, <2>2, PublicPartIsPublic DEF LocalMoves
  <2>4. IsClosed(LocalMoves(p))
    <3> DEFINE R == DraftRoots(p.has)
    <3> HIDE DEF R
    <3>1. SUFFICES ASSUME NEW c \in LocalMoves(p), NEW a \in ancestors[c]
                   PROVE  a \in LocalMoves(p)
      BY DEF IsClosed, AncestorsOf
    <3>2. c \in AncestorsOf(CommonHeads(p)) /\ c \in Changesets
      BY <1>1, <1>3, <2>1
    <3>3. a \in AncestorsOf(CommonHeads(p))
      BY <1>3, <3>2 DEF IsClosed, AncestorsOf
    <3>4. ancestors[a] \subseteq ancestors[c]
      BY <1>1, <3>2, Ancestry
    <3>5. c \notin DescendantsOf(R)
      BY <2>1 DEF R
    <3>6. a \notin DescendantsOf(R)
      BY <3>2, <3>4, <3>5 DEF DescendantsOf
    <3> QED BY <2>1, <3>3, <3>6 DEF R
  <2> QED BY <1>3, <2>1, <2>3, <2>4
<1> QED BY <1>5, <1>6

LEMMA SyncPhasesInv ==
    ASSUME PushIInv, NEW cl \in Clients, SyncPhases(cl) PROVE PushIInv'
<1>1. /\ push[cl] \in Pushops /\ Sound(push[cl], client[cl], server)
      /\ IsRepository(client[cl]) /\ IsRepository(server) /\ IsOrder
      /\ client \in [Clients -> Repositories]
  BY AtWork DEF SyncPhases, AtStep
<1>2. PICK p \in Pushops, l \in Repositories : p = push[cl] /\ l = client[cl]
  BY <1>1 DEF IsRepository
<1>3. PICK moves : moves = LocalMoves(p)
  OBVIOUS
<1>4. PICK l2 : l2 = [l EXCEPT !.public = l.public \cup moves]
  OBVIOUS
<1>5. PICK q : q = [p EXCEPT !.step = "done"]
  OBVIOUS
<1>6. /\ q \in Pushops /\ q.step = "done" /\ Keeps(p, q) /\ q.outdated = p.outdated
      /\ \A m, s : Sent(p, m, s) => Sent(q, m, s)
      /\ \A s : Summed(p, s) => Summed(q, s)
  <2>1. "done" \in Steps
    BY DEF Steps
  <2> QED BY <1>5, <2>1, OnlyStep
<1>7. /\ Asks(p, l) /\ Found(p, server) /\ Sent(p, l, server) /\ Summed(p, server)
      /\ p.outdated \subseteq p.missing \cup p.common /\ IsRepository(l)
  BY <1>1, <1>2 DEF Sound, SyncPhases, AtStep
<1>8. moves \subseteq server.public /\ moves \subseteq p.has /\ IsClosed(moves)
  BY <1>1, <1>3, <1>7, LocalMovesArePublic
<1>9. /\ l2.known = l.known /\ l2.public = l.public \cup moves /\ l2.mark = l.mark
      /\ l2 \in Repositories
  <2>1. moves \in SUBSET Changesets
    BY <1>8 DEF Pushops
  <2> QED BY <1>4, <2>1 DEF Repositories
<1>10. IsRepository(l2)
  BY <1>7, <1>8, <1>9, ClosedUnion DEF IsRepository, Asks
<1>11. Asks(p, l2)
  BY <1>7, <1>9 DEF Asks
<1>12. Sent(p, l2, server)
  BY <1>7, <1>8, <1>9 DEF Sent
<1>13. config.publishing => Pushed(p) \subseteq l2.public
  BY <1>3, <1>9 DEF LocalMoves, Pushed
<1>14. Pushed(q) = Pushed(p) /\ Asks(q, l2) /\ Found(q, server)
  BY <1>6, <1>7, <1>11, Kept
<1>15. Sound(q, l2, server)
  BY <1>6, <1>7, <1>12, <1>13, <1>14 DEF Sound, Keeps
<1>16. /\ push' = [push EXCEPT ![cl] = q] /\ client' = [client EXCEPT ![cl] = l2]
       /\ UNCHANGED <<ancestors, branch, config, server>>
  BY <1>2, <1>3, <1>4, <1>5 DEF SyncPhases, AtStep
<1>17. PICK s : s = server
  OBVIOUS
<1> QED BY <1>1, <1>6, <1>10, <1>15, <1>16, <1>17, StepOf

LEMMA GiveUpInv ==
    ASSUME PushIInv, NEW cl \in Clients, GiveUp(cl) PROVE PushIInv'
<1>1. /\ push' = [push EXCEPT ![cl] = Idle] /\ push[cl].step # "idle"
      /\ UNCHANGED <<ancestors, branch, config, server, client>>
  BY DEF GiveUp
<1> QED BY <1>1, AskingInv

LEMMA PushInitInv == PushInit => PushIInv
<1> SUFFICES ASSUME PushInit PROVE PushIInv
  OBVIOUS
<1>1. IsDag /\ Typed
  BY DEF PushInit, Typed
<1>2. IsRepository(server) /\ \A cl \in Clients : IsRepository(client[cl])
  BY DEF PushInit, IsRepository
<1>3. \A cl \in Clients : push[cl] = Idle
  BY DEF PushInit
<1> QED BY <1>1, <1>2, <1>3 DEF PushIInv, Inv

LEMMA StutterInv == PushIInv /\ UNCHANGED pushvars => PushIInv'
<1> SUFFICES ASSUME PushIInv, UNCHANGED pushvars PROVE PushIInv'
  OBVIOUS
<1>1. UNCHANGED <<ancestors, branch, config>> /\ client' = client /\ push' = push /\ server' = server
  BY DEF pushvars
<1>2. PICK s, loc, ps : s = server /\ loc = client /\ ps = push
  OBVIOUS
<1>3. Inv(s, loc, ps)
  BY <1>2 DEF PushIInv
<1>4. Inv(server', client', push')
  BY <1>1, <1>2, <1>3
<1> QED BY <1>1, <1>4, Steady DEF PushIInv, Typed

LEMMA PushNextInv == PushIInv /\ [PushNext]_pushvars => PushIInv'
<1> SUFFICES ASSUME PushIInv, [PushNext]_pushvars PROVE PushIInv'
  OBVIOUS
<1>1. CASE UNCHANGED pushvars
  BY <1>1, StutterInv
<1>2. ASSUME NEW cl \in Clients, NEW o \in Options,
             NEW revs \in {None} \cup {{h} : h \in HeadsOf(client[cl].known)}, Discover(cl, o, revs)
      PROVE  PushIInv'
  BY <1>2, DiscoverInv
<1>3. ASSUME NEW cl \in Clients,
             \/ ListPhases(cl) \/ ListBookmarks(cl) \/ BranchMap(cl) \/ NoWarn(cl)
             \/ Unbundle(cl) \/ SyncPhases(cl) \/ GiveUp(cl)
      PROVE  PushIInv'
  BY <1>3, ListPhasesInv, ListBookmarksInv, BranchMapInv, NoWarnInv, UnbundleInv,
     SyncPhasesInv, GiveUpInv, Zenon
<1> QED BY <1>1, <1>2, <1>3, Zenon DEF PushNext

\* The state of the server, the clients and their pushes is always a sound one.
THEOREM PushInvariance == PushSpec => []PushIInv
BY PushInitInv, PushNextInv, PTL DEF PushSpec

-----------------------------------------------------------------------------
(* The invariants *)

\* PushTypeOK: repositories have the ancestors of what they have, and what is to be
\* sent is there.
THEOREM PushTypeCorrect == PushSpec => []PushTypeOK
<1>1. PushIInv => PushTypeOK
  <2> SUFFICES ASSUME PushIInv PROVE PushTypeOK
    OBVIOUS
  <2>1. IsDag /\ branch \in [Changesets -> Branches]
    BY DEF PushIInv, Typed
  <2>2. IsRepository(server) /\ \A cl \in Clients : IsRepository(client[cl])
    BY DEF PushIInv, Inv
  <2>3. ASSUME NEW cl \in Clients, push[cl] # Idle PROVE push[cl].missing \subseteq client[cl].known
    <3>1. PICK p, l : p = push[cl] /\ l = client[cl]
      OBVIOUS
    <3>2. p \in Pushops /\ Asks(p, l) /\ IsRepository(l) /\ IsOrder
      BY <2>3, <3>1 DEF PushIInv, Inv, Sound, IsDag
    <3>3. p.missing \subseteq p.has
      BY <3>2, PushedIsClosed
    <3> QED BY <3>1, <3>2, <3>3 DEF Asks
  <2> QED BY <2>1, <2>2, <2>3 DEF PushTypeOK
<1> QED BY <1>1, PushInvariance, PTL

\* PhasesAgree: what a push that is done had to send is on the server, public there
\* if it is here, and public here if the server publishes.
THEOREM PhasesAlwaysAgree == PushSpec => []PhasesAgree
<1>1. PushIInv => PhasesAgree
  <2> SUFFICES ASSUME PushIInv, NEW cl \in Clients, push[cl].step = "done"
               PROVE  /\ Pushed(push[cl]) \subseteq server.known
                      /\ Pushed(push[cl]) \cap client[cl].public \subseteq server.public
                      /\ config.publishing => Pushed(push[cl]) \subseteq client[cl].public
    BY DEF PhasesAgree, Pushed
  <2>1. Sound(push[cl], client[cl], server)
    BY AtWork
  <2> QED BY <2>1 DEF Sound, Sent
<1> QED BY <1>1, PushInvariance, PTL

-----------------------------------------------------------------------------
(* Steps *)

\* Only its own steps change what a client does.
LEMMA OthersKeep ==
    ASSUME PushIInv, NEW cl \in Clients, NEW c \in Clients, c # cl,
           \/ \E o \in Options, revs \in {None} \cup {{h} : h \in HeadsOf(client[cl].known)} :
                 Discover(cl, o, revs)
           \/ ListPhases(cl) \/ ListBookmarks(cl) \/ BranchMap(cl) \/ NoWarn(cl)
           \/ Unbundle(cl) \/ SyncPhases(cl) \/ GiveUp(cl)
    PROVE  push'[c] = push[c]
<1>1. push \in [Clients -> Pushops \cup {Idle}]
  BY DEF PushIInv, Typed
<1>2. ASSUME NEW q, push' = [push EXCEPT ![cl] = q] PROVE push'[c] = push[c]
  BY <1>1, <1>2
<1>3. \E q : push' = [push EXCEPT ![cl] = q]
  BY DEF Discover, ListPhases, ListBookmarks, BranchMap, NoWarn, Unbundle, SyncPhases, GiveUp
<1> QED BY <1>2, <1>3

\* A bundle is answered by the server, which applies it or says that it was raced.
LEMMA Answers ==
    ASSUME PushIInv, [PushNext]_pushvars, NEW cl \in Clients,
           push[cl].step = "send", push'[cl].step \in {"sync", "raced"}
    PROVE  Unbundle(cl)
<1>1. push' # push
  OBVIOUS
<1>2. PICK c \in Clients :
        \/ \E o \in Options, revs \in {None} \cup {{h} : h \in HeadsOf(client[c].known)} :
              Discover(c, o, revs)
        \/ ListPhases(c) \/ ListBookmarks(c) \/ BranchMap(c) \/ NoWarn(c)
        \/ Unbundle(c) \/ SyncPhases(c) \/ GiveUp(c)
  BY <1>1 DEF PushNext, pushvars
<1>3. c = cl
  BY <1>2, OthersKeep
<1>4. ~GiveUp(cl)
  <2> SUFFICES ASSUME GiveUp(cl) PROVE FALSE
    OBVIOUS
  <2>1. push'[cl] = Idle
    BY AtWork DEF GiveUp
  <2> QED BY <2>1 DEF Idle
<1> QED BY <1>2, <1>3, <1>4 DEF Discover, Running, ListPhases, ListBookmarks, BranchMap,
             NoWarn, SyncPhases, AtStep

\* What is known of a push whose bundle the server has got, and of the answer.
LEMMA AtTheServer ==
    ASSUME PushIInv, [PushNext]_pushvars, NEW cl \in Clients,
           push[cl].step = "send", push'[cl].step \in {"sync", "raced"},
           NEW p, p = push[cl], NEW l, l = client[cl]
    PROVE  /\ p \in Pushops /\ Asks(p, l) /\ Found(p, server) /\ Published(p, l, server)
           /\ MarkGoes(p, l) /\ Summed(p, server) /\ Warned(p, l)
           /\ IsRepository(l) /\ IsRepository(server) /\ IsOrder
           /\ push'[cl].step = "sync" =>
                /\ CheckBookmarks(p) /\ CheckPhases(p) /\ CheckHeads(p)
                /\ server'.known = server.known \cup p.missing
                /\ server'.mark = IF p.outmark THEN l.mark ELSE server.mark
           /\ push'[cl].step = "raced" => ~(CheckBookmarks(p) /\ CheckPhases(p) /\ CheckHeads(p))
<1>1. Unbundle(cl)
  BY Answers
<1>2. /\ p \in Pushops /\ Sound(p, l, server) /\ p.step = "send" /\ IsRepository(l)
      /\ IsRepository(server) /\ IsOrder /\ push \in [Clients -> Pushops \cup {Idle}]
  BY AtWork
<1>3. CASE CheckBookmarks(p) /\ CheckPhases(p) /\ CheckHeads(p)
  <2>1. /\ server'.known = server.known \cup p.missing
        /\ server'.mark = IF p.outmark THEN l.mark ELSE server.mark
    BY <1>1, <1>3 DEF Unbundle
  <2>2. push' = [push EXCEPT ![cl] = [p EXCEPT !.step = "sync"]]
    BY <1>1, <1>3 DEF Unbundle
  <2>3. push'[cl].step = "sync"
    BY <1>2, <2>2 DEF Pushops
  <2> QED BY <1>2, <1>3, <2>1, <2>3 DEF Sound
<1>4. CASE ~(CheckBookmarks(p) /\ CheckPhases(p) /\ CheckHeads(p))
  <2>1. push' = [push EXCEPT ![cl] = [p EXCEPT !.step = "raced"]]
    BY <1>1, <1>4 DEF Unbundle
  <2>2. push'[cl].step = "raced"
    BY <1>2, <2>1 DEF Pushops
  <2> QED BY <1>2, <1>4, <2>2 DEF Sound
<1> QED BY <1>3, <1>4

\* MarkGoesForward: a bookmark that is pushed without -B and --force goes to a
\* descendant of where it is then.
THEOREM MarksGoForward == PushSpec => MarkGoesForward
<1>1. ASSUME PushIInv, [PushNext]_pushvars, NEW cl \in Clients, Applied(cl),
             ~push[cl].force, ~push[cl].explicit, server'.mark # server.mark
      PROVE  server.mark # None /\ server.mark \in ancestors[server'.mark]
  <2>1. PICK p, l : p = push[cl] /\ l = client[cl]
    OBVIOUS
  <2>2. /\ p \in Pushops /\ MarkGoes(p, l) /\ CheckBookmarks(p)
        /\ server'.mark = IF p.outmark THEN l.mark ELSE server.mark
    BY <1>1, <2>1, AtTheServer DEF Applied
  <2>3. p.outmark /\ server'.mark = l.mark /\ server.mark = p.oldmark
    BY <1>1, <2>1, <2>2 DEF CheckBookmarks
  <2>4. p.oldmark \in p.has /\ p.oldmark \in ancestors[l.mark]
    BY <1>1, <2>1, <2>2, <2>3 DEF MarkGoes
  <2>5. p.oldmark # None
    BY <2>2, <2>4, PushAssumption DEF Pushops
  <2> QED BY <2>3, <2>4, <2>5
<1>2. PushIInv /\ [PushNext]_pushvars =>
        [\A cl \in Clients :
           /\ Applied(cl) /\ ~push[cl].force /\ ~push[cl].explicit
           /\ server'.mark # server.mark
           => server.mark # None /\ server.mark \in ancestors[server'.mark]]_pushvars
  BY <1>1
<1> QED BY <1>2, PushInvariance, PTL DEF PushSpec, MarkGoesForward

LEMMA SummedIsServer ==
    ASSUME NEW p, NEW s, Summed(p, s), p.summary # <<>>, s.known = p.seen.known
    PROVE  p.summary = HeadsSummary(p, s.known)
<1>1. PICK there \in SUBSET Changesets :
        /\ p.seen.known \cup p.common \subseteq there /\ there \subseteq s.known
        /\ p.summary = HeadsSummary(p, there)
  BY DEF Summed
<1>2. there = s.known
  BY <1>1
<1> QED BY <1>1, <1>2

\* PublicAsServer: a client makes public only what the server has as public.
THEOREM PublicIsAsServer == PushSpec => PublicAsServer
<1>1. ASSUME PushIInv, PushNext, NEW cl \in Clients
      PROVE  client'[cl].public \ client[cl].public \subseteq server'.public
  <2>1. client \in [Clients -> Repositories]
    BY <1>1 DEF PushIInv, Typed
  <2>2. CASE client' = client
    BY <2>2
  <2>3. ASSUME NEW c \in Clients, SyncPhases(c)
        PROVE  client'[cl].public \ client[cl].public \subseteq server'.public
    <3>1. PICK p, l : p = push[c] /\ l = client[c]
      OBVIOUS
    <3>2. /\ p \in Pushops /\ Asks(p, l) /\ Sent(p, l, server) /\ IsRepository(l)
          /\ IsRepository(server) /\ IsOrder
      BY <1>1, <2>3, <3>1, AtWork DEF SyncPhases, AtStep, Sound
    <3>3. LocalMoves(p) \subseteq server.public
      BY <3>2, LocalMovesArePublic
    <3>4. server' = server /\ client' = [client EXCEPT ![c].public = l.public \cup LocalMoves(p)]
      BY <2>3, <3>1 DEF SyncPhases
    <3>5. CASE c = cl
      <4>1. client'[cl].public = l.public \cup LocalMoves(p)
        <5>1. PICK moves : moves = LocalMoves(p)
          OBVIOUS
        <5>2. client' = [client EXCEPT ![c].public = l.public \cup moves]
          BY <3>4, <5>1
        <5> QED BY <2>1, <3>1, <3>5, <5>1, <5>2 DEF Repositories
      <4> QED BY <3>1, <3>3, <3>4, <3>5, <4>1
    <3>6. CASE c # cl
      BY <2>1, <3>4, <3>6
    <3> QED BY <3>5, <3>6
  <2>4. client' = client \/ \E c \in Clients : SyncPhases(c)
    BY <1>1 DEF PushNext, Discover, ListPhases, ListBookmarks, BranchMap, NoWarn, Unbundle, GiveUp
  <2> QED BY <2>2, <2>3, <2>4
<1>2. PushIInv /\ [PushNext]_pushvars =>
        [\A cl \in Clients : client'[cl].public \ client[cl].public \subseteq server'.public]_pushvars
  BY <1>1
<1> QED BY <1>2, PushInvariance, PTL DEF PushSpec, PublicAsServer

\* RacedOnlyIfChanged: if the server is as it was found, with its bookmark where it
\* was all along, it applies the bundle.
THEOREM RacedOnlyIfItChanged == PushSpec => RacedOnlyIfChanged
<1>1. ASSUME PushIInv, [PushNext]_pushvars, NEW cl \in Clients,
             push[cl].step = "send", push'[cl].step = "raced",
             server = push[cl].seen, push[cl].oldmark = push[cl].seen.mark
      PROVE  FALSE
  <2>1. PICK p, l : p = push[cl] /\ l = client[cl]
    OBVIOUS
  <2>2. /\ p \in Pushops /\ Found(p, server) /\ Published(p, l, server) /\ Summed(p, server)
        /\ IsRepository(server)
        /\ ~(CheckBookmarks(p) /\ CheckPhases(p) /\ CheckHeads(p))
    BY <1>1, <2>1, AtTheServer
  <2>3. CheckBookmarks(p)
    BY <1>1, <2>1 DEF CheckBookmarks
  <2>4. CheckPhases(p)
    <3>1. HeadsOf(PublicPart(FallbackHeads(p), p.droots)) \subseteq server.public
      BY <2>2 DEF HeadsOf, Published
    <3> QED BY <1>1, <2>1, <2>2, <3>1 DEF CheckPhases, Published
  <2>5. Affected(p) \subseteq UNION {HeadsOn(server.known, b) : b \in Branches}
    <3>1. CASE p.summary = <<>>
      BY <3>1 DEF Affected
    <3>2. CASE p.summary # <<>>
      <4>1. p.summary = HeadsSummary(p, server.known)
        BY <1>1, <2>1, <2>2, <3>2, SummedIsServer
      <4>2. DOMAIN p.summary = {branch[c] : c \in p.missing}
        BY <4>1 DEF HeadsSummary
      <4>3. DOMAIN p.summary \subseteq Branches
        BY <1>1, <2>2, <4>2 DEF PushIInv, Typed, Pushops
      <4>4. ASSUME NEW b \in DOMAIN p.summary
            PROVE  p.summary[b].old \subseteq HeadsOn(server.known, b)
        BY <4>1, <4>2 DEF HeadsSummary
      <4> QED BY <4>3, <4>4 DEF Affected
    <3> QED BY <3>1, <3>2
  <2>6. CheckHeads(p)
    BY <1>1, <2>1, <2>5 DEF CheckHeads
  <2> QED BY <2>2, <2>3, <2>4, <2>6
<1>2. PushIInv /\ [PushNext]_pushvars =>
        [\A cl \in Clients : push[cl].step = "send" /\ push'[cl].step = "raced" =>
           server # push[cl].seen \/ push[cl].oldmark # push[cl].seen.mark]_pushvars
  BY <1>1
<1> QED BY <1>2, PushInvariance, PTL DEF PushSpec, RacedOnlyIfChanged

-----------------------------------------------------------------------------
(* Heads *)

LEMMA Sizes ==
    ASSUME NEW A \in SUBSET Changesets, NEW B \in SUBSET Changesets
    PROVE  /\ Cardinality(A) \in Nat /\ Cardinality(B) \in Nat
           /\ Cardinality(A \ B) \in Nat /\ Cardinality(B \ A) \in Nat
           /\ Cardinality(A) - Cardinality(A \ B) = Cardinality(B) - Cardinality(B \ A)
           /\ A \subseteq B => Cardinality(A) <= Cardinality(B)
           /\ A \cap B = {} => Cardinality(A \cup B) = Cardinality(A) + Cardinality(B)
<1>1. IsFiniteSet(Changesets)
  BY FS_Interval, DagAssumption DEF Changesets
<1>2. IsFiniteSet(A) /\ IsFiniteSet(B)
  BY <1>1, FS_Subset
<1>3. A \cap B = B \cap A /\ IsFiniteSet(A \cap B) /\ IsFiniteSet(A \ B) /\ IsFiniteSet(B \ A)
  BY <1>2, FS_Intersection, FS_Difference
<1>4. /\ Cardinality(A) \in Nat /\ Cardinality(B) \in Nat /\ Cardinality(A \cap B) \in Nat
      /\ Cardinality(A \ B) \in Nat /\ Cardinality(B \ A) \in Nat
  BY <1>2, <1>3, FS_CardinalityType
<1>5. /\ Cardinality(A \ B) = Cardinality(A) - Cardinality(A \cap B)
      /\ Cardinality(B \ A) = Cardinality(B) - Cardinality(A \cap B)
  BY <1>2, <1>3, FS_Difference
<1>6. A \subseteq B => Cardinality(A) <= Cardinality(B)
  BY <1>2, FS_Subset
<1>7. ASSUME A \cap B = {} PROVE Cardinality(A \cup B) = Cardinality(A) + Cardinality(B)
  <2>1. Cardinality(A \cap B) = 0
    BY <1>7, FS_EmptySet
  <2>2. Cardinality(A \cup B) = Cardinality(A) + Cardinality(B) - Cardinality(A \cap B)
    BY <1>2, FS_Union
  <2> QED BY <1>4, <2>1, <2>2
<1>8. Cardinality(A) - Cardinality(A \ B) = Cardinality(B) - Cardinality(B \ A)
  BY <1>4, <1>5
<1> QED BY <1>4, <1>6, <1>7, <1>8

\* The counts that the client compares bound what the server gets: its heads are in
\* H before and in G after, of which the client took old and new for its part.
LEMMA NoMoreHeads ==
    ASSUME NEW G \in SUBSET Changesets, NEW H \in SUBSET Changesets,
           NEW old \in SUBSET Changesets, NEW new \in SUBSET Changesets,
           NEW unsynced \in SUBSET Changesets,
           (old \cup new) \cap unsynced = {},
           Cardinality(new \cup unsynced) <= Cardinality(old \cup unsynced),
           G \ H \subseteq new \ old, old \ new \subseteq H \ G
    PROVE  Cardinality(G) <= Cardinality(H)
<1>1. /\ Cardinality(new \cup unsynced) = Cardinality(new) + Cardinality(unsynced)
      /\ Cardinality(old \cup unsynced) = Cardinality(old) + Cardinality(unsynced)
      /\ Cardinality(new) \in Nat /\ Cardinality(old) \in Nat /\ Cardinality(unsynced) \in Nat
  <2>1. new \cap unsynced = {} /\ old \cap unsynced = {}
    OBVIOUS
  <2> QED BY <2>1, Sizes
<1>2. Cardinality(new) <= Cardinality(old)
  BY <1>1
<1>3. /\ Cardinality(new) - Cardinality(new \ old) = Cardinality(old) - Cardinality(old \ new)
      /\ Cardinality(new \ old) \in Nat /\ Cardinality(old \ new) \in Nat
  BY Sizes
<1>4. Cardinality(new \ old) <= Cardinality(old \ new)
  BY <1>1, <1>2, <1>3
<1>5. /\ Cardinality(G \ H) <= Cardinality(new \ old)
      /\ Cardinality(old \ new) <= Cardinality(H \ G)
      /\ Cardinality(G \ H) \in Nat /\ Cardinality(H \ G) \in Nat
  <2>1. /\ G \ H \in SUBSET Changesets /\ new \ old \in SUBSET Changesets
        /\ old \ new \in SUBSET Changesets /\ H \ G \in SUBSET Changesets
    OBVIOUS
  <2> QED BY <2>1, Sizes
<1>6. /\ Cardinality(G) - Cardinality(G \ H) = Cardinality(H) - Cardinality(H \ G)
      /\ Cardinality(G) \in Nat /\ Cardinality(H) \in Nat
  BY Sizes
<1> QED BY <1>3, <1>4, <1>5, <1>6

\* What the check of the heads says of the server.
LEMMA StrictSees ==
    ASSUME IsOrder, NEW p \in Pushops, NEW l, Asks(p, l), IsRepository(server), CheckHeads(p),
           ~p.force, p.missing # {}, config.strict \/ p.seen.known = {}
    PROVE  server.known = p.seen.known
<1>1. HeadsOf(p.seen.known) = HeadsOf(server.known)
  BY DEF CheckHeads
<1>2. p.seen.known \in SUBSET Changesets /\ server.known \in SUBSET Changesets
  BY DEF Pushops, Repositories, IsRepository
<1>3. AncestorsOf(p.seen.known) = AncestorsOf(server.known)
  BY <1>1, <1>2, HeadsSpan
<1> QED BY <1>2, <1>3, AncestorsAreClosed DEF Asks, IsRepository, IsClosed

\* The heads that a push adds to a branch there.
LEMMA HeadsAreAllowed ==
    ASSUME IsOrder, NEW p \in Pushops, NEW l, IsRepository(l), Asks(p, l),
           IsRepository(server), Summed(p, server), Warned(p, l), CheckHeads(p), ~p.force,
           NEW b \in DOMAIN p.summary, p.summary[b].exists, NEW G,
           G = HeadsOn(server.known \cup p.missing, b), NEW H, H = HeadsOn(server.known, b),
           Cardinality(G) > Cardinality(H)
    PROVE  G \ H \subseteq {l.mark}
<1>1. p.summary # <<>>
  OBVIOUS
<1>2. PICK there \in SUBSET Changesets :
        /\ p.seen.known \cup p.common \subseteq there /\ there \subseteq server.known
        /\ p.summary = HeadsSummary(p, there)
  BY <1>1 DEF Summed
<1>3. p.missing # {}
  BY <1>2 DEF HeadsSummary
<1>4. PICK heads, old, unsynced, new :
        /\ heads = HeadsOn(there, b) /\ old = heads \cap p.has /\ unsynced = heads \ p.has
        /\ new = HeadsOn(old \cup p.missing, b)
  OBVIOUS
<1>5. p.summary[b].old = old /\ p.summary[b].unsynced = unsynced /\ p.summary[b].new = new
  BY <1>2, <1>4 DEF HeadsSummary
<1>6. p.missing \subseteq p.has /\ p.has \in SUBSET Changesets /\ server.known \in SUBSET Changesets
  BY PushedIsClosed DEF Pushops, IsRepository, Repositories
<1>7. /\ old \subseteq there /\ \A x \in heads : branch[x] = b
      /\ new \subseteq old \cup p.missing
  BY <1>4 DEF HeadsOn
<1>8. G \ H \subseteq new \ old
  <2> SUFFICES ASSUME NEW h \in G, h \notin H PROVE h \in new /\ h \notin old
    OBVIOUS
  <2>1. /\ h \in server.known \cup p.missing /\ branch[h] = b
        /\ \A d \in server.known \cup p.missing : branch[d] = b /\ h \in ancestors[d] => d = h
    BY DEF HeadsOn
  <2>2. h \notin server.known
    BY <2>1 DEF HeadsOn
  <2>3. h \notin old /\ h \in p.missing
    BY <1>2, <1>7, <2>1, <2>2
  <2>4. old \cup p.missing \subseteq server.known \cup p.missing
    BY <1>2, <1>7
  <2> QED BY <1>4, <2>1, <2>3, <2>4 DEF HeadsOn
<1>9. old \ new \subseteq H
  <2>1. CASE config.strict \/ p.seen.known = {}
    <3>1. there = server.known
      BY <1>2, <1>3, <2>1, StrictSees
    <3> QED BY <1>4, <3>1
  <2>2. CASE ~(config.strict \/ p.seen.known = {})
    <3> SUFFICES ASSUME NEW x \in old \ new PROVE x \in H
      OBVIOUS
    <3>1. x \in Affected(p)
      BY <1>5 DEF Affected
    <3>2. PICK c : x \in HeadsOn(server.known, c)
      BY <1>3, <2>2, <3>1 DEF CheckHeads
    <3>3. c = b
      BY <1>4, <1>7, <3>2 DEF HeadsOn
    <3> QED BY <3>2, <3>3
  <2> QED BY <2>1, <2>2
<1>10. old \ new \subseteq H \ G
  <2> SUFFICES ASSUME NEW x \in old \ new PROVE x \notin G
    BY <1>9
  <2>1. branch[x] = b
    BY <1>4, <1>7
  <2>2. PICK d \in old \cup p.missing : branch[d] = b /\ x \in ancestors[d] /\ d # x
    BY <1>4, <2>1 DEF HeadsOn
  <2>3. d \in server.known \cup p.missing
    BY <1>2, <1>7
  <2> QED BY <2>2, <2>3 DEF HeadsOn
<1>11. PICK nowarn \in SUBSET {l.mark} : ~AddsHeads(p, nowarn)
  BY DEF Warned
<1>12. \/ Cardinality(new \cup unsynced) <= Cardinality(old \cup unsynced)
       \/ new \ (nowarn \cup old) = {}
  <2>1. ~ /\ Cardinality(new \cup unsynced) > Cardinality(old \cup unsynced)
          /\ new \ (nowarn \cup old) # {}
    BY <1>5, <1>11 DEF AddsHeads
  <2>2. /\ Cardinality(new \cup unsynced) \in Nat /\ Cardinality(old \cup unsynced) \in Nat
    <3>1. new \cup unsynced \in SUBSET Changesets /\ old \cup unsynced \in SUBSET Changesets
      BY <1>4, <1>6, <1>7 DEF HeadsOn
    <3> QED BY <3>1, Sizes
  <2> QED BY <2>1, <2>2
<1>13. ~(Cardinality(new \cup unsynced) <= Cardinality(old \cup unsynced))
  <2>1. /\ G \in SUBSET Changesets /\ H \in SUBSET Changesets /\ old \in SUBSET Changesets
        /\ new \in SUBSET Changesets /\ unsynced \in SUBSET Changesets
    BY <1>4, <1>6, <1>7 DEF HeadsOn
  <2>2. (old \cup new) \cap unsynced = {}
    BY <1>4, <1>6, <1>7
  <2>3. Cardinality(G) \in Nat /\ Cardinality(H) \in Nat
    BY <2>1, Sizes
  <2> SUFFICES ASSUME Cardinality(new \cup unsynced) <= Cardinality(old \cup unsynced)
               PROVE  FALSE
    OBVIOUS
  <2>4. Cardinality(G) <= Cardinality(H)
    BY <1>8, <1>10, <2>1, <2>2, NoMoreHeads
  <2> QED BY <2>3, <2>4
<1> QED BY <1>8, <1>12, <1>13

\* PushesAreAllowed: a push that is not forced adds no head to a branch it found but
\* one with its bookmark, and a strict server is as it was found.
THEOREM PushesAlwaysAllowed == PushSpec => PushesAreAllowed
<1>1. ASSUME PushIInv, [PushNext]_pushvars, NEW cl \in Clients, Applied(cl), ~push[cl].force
      PROVE  HeadsAllowed(cl) /\ StrictIsStrict(cl)
  <2>1. PICK p, l : p = push[cl] /\ l = client[cl]
    OBVIOUS
  <2>2. /\ p \in Pushops /\ Asks(p, l) /\ Summed(p, server) /\ Warned(p, l) /\ CheckHeads(p)
        /\ IsRepository(l) /\ IsRepository(server) /\ IsOrder
        /\ server'.known = server.known \cup p.missing
    BY <1>1, <2>1, AtTheServer DEF Applied
  <2>3. StrictIsStrict(cl)
    BY <1>1, <2>1, <2>2, StrictSees DEF StrictIsStrict
  <2>4. ASSUME NEW b \in DOMAIN p.summary, p.summary[b].exists, MoreHeads(b)
        PROVE  NewHeads(b) \subseteq {l.mark}
    <3>1. PICK G, H : G = HeadsOn(server.known \cup p.missing, b) /\ H = HeadsOn(server.known, b)
      OBVIOUS
    <3>2. HeadsOn(server'.known, b) = G
      BY <2>2, <3>1
    <3>3. Cardinality(G) > Cardinality(H) /\ NewHeads(b) = G \ H
      BY <2>4, <3>1, <3>2 DEF MoreHeads, NewHeads
    <3>4. G \ H \subseteq {l.mark}
      BY <1>1, <2>1, <2>2, <2>4, <3>1, <3>3, HeadsAreAllowed
    <3> QED BY <3>3, <3>4
  <2>5. HeadsAllowed(cl)
    BY <2>1, <2>4 DEF HeadsAllowed
  <2> QED BY <2>3, <2>5
<1>2. PushIInv /\ [PushNext]_pushvars =>
        [\A cl \in Clients : Applied(cl) /\ ~push[cl].force =>
           HeadsAllowed(cl) /\ StrictIsStrict(cl)]_pushvars
  BY <1>1
<1> QED BY <1>2, PushInvariance, PTL DEF PushSpec, PushesAreAllowed

=============================================================================
