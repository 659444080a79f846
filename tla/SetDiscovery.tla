---------------------------- MODULE SetDiscovery ----------------------------
(***************************************************************************)
(* hg pull and the discovery it starts with (mercurial/setdiscovery.py,    *)
(* discovery.py, the changegroup part of exchange.pull).                   *)
(*                                                                         *)
(* The client wants to know which of its changesets the server has.  It    *)
(* asks for the heads of the server, then whether the server knows a       *)
(* sample of its own changesets, until each is common or missing; then it  *)
(* fetches what it lacks.  Each question is a request of its own and takes *)
(* no lock on the server, where other clients keep adding changesets.      *)
(*                                                                         *)
(* Every changeset of the graph may end up on the server; a closed set of  *)
(* them is local.  Abstracted: which members of a set a sample prefers     *)
(* (any sample of the right size may be taken), the growth of the sample,  *)
(* node ids, hidden changesets.                                            *)
(***************************************************************************)
EXTENDS Dag

CONSTANTS
    InitialSize,    \* devel.discovery.sample-size.initial
    FullSize,       \* devel.discovery.sample-size
    MaxGrowths      \* bound: how many times the server grows

ASSUME SetDiscoveryAssumption ==
    /\ InitialSize \in Nat \ {0}
    /\ FullSize \in Nat \ {0}
    /\ MaxGrowths \in Nat

VARIABLES
    \* the repositories
    local, remote,
    growths,
    \* the command: what is pulled ({} for everything), which local
    \* changesets are looked at, the peer and the configuration
    command,
    \* findcommonheads
    step,
    srvheads,       \* what the server answered to "heads"; {} for [nullid]
    sample,
    common,         \* the ancestors of _common.bases
    decided,        \* _undecided is no longer None
    undecided,
    missing,
    full,
    anyincoming,
    \* what the server had when the command started
    before

repositories == <<ancestors, local, remote, growths, before>>
disco == <<sample, common, decided, undecided, missing, full>>
vars == <<repositories, command, step, srvheads, disco, anyincoming>>

(***************************************************************************)
(* The command.                                                            *)
(***************************************************************************)
Commands ==
    [heads: SUBSET Changesets,      \* pull -r, looked up on the server
     own: SUBSET Changesets,        \* ownheads: local heads or ancestorsof
     limitedarguments: BOOLEAN,     \* the peer cannot take long requests
     respectsize: BOOLEAN,          \* hard_limit_sample
     exchangeheads: BOOLEAN,        \* devel.discovery.exchange-heads
     force: BOOLEAN]

ownheads == command.own

\* hg pull looks at all the local heads; others name what to look at.
SomeCommand(c) ==
    /\ c.heads \subseteq remote /\ c.heads = HeadsOf(c.heads)
    /\ c.own = HeadsOf(local) \/ (c.heads = {} /\ c.own # {} /\ c.own \subseteq local)
    /\ c.limitedarguments => ~c.respectsize
    /\ c.force => c.heads = {}

Init ==
    /\ IsDag
    /\ local \in SUBSET Changesets /\ IsClosed(local)
    /\ remote \in SUBSET Changesets /\ IsClosed(remote)
    /\ before = remote
    /\ growths = 0
    /\ command \in Commands /\ SomeCommand(command)
    /\ step = "start"
    /\ srvheads = {} /\ sample = {} /\ anyincoming = FALSE
    /\ common = {} /\ undecided = {} /\ decided = FALSE
    /\ missing = {} /\ full = FALSE

Grown == {S \in SUBSET Changesets : remote \subseteq S /\ remote # S /\ IsClosed(S)}

\* Another client pushes.
RemoteGrows ==
    /\ growths < MaxGrowths
    /\ remote' \in Grown
    /\ growths' = growths + 1
    /\ UNCHANGED <<ancestors, local, before, command, step, srvheads, disco, anyincoming>>

(***************************************************************************)
(* partialdiscovery.                                                       *)
(***************************************************************************)
\* undecided, computed when it is first looked at.
Undecided == IF decided THEN undecided ELSE AncestorsOf(ownheads) \ common

hasinfo == common # {}

iscomplete == decided /\ undecided = {}

\* Mutant: a missing changeset is not itself taken for missing.
NewMissingsAbove(missings, candidates) == Between(missings, candidates) \ missings

\* addmissings: what descends from them, among the undecided.
NewMissings(missings, candidates) == Between(missings, candidates)

\* Mutant: only the changesets that were asked about are common.
NewCommonsAlone(commons) == commons

\* addcommons: their ancestors are common too.
NewCommons(commons) == AncestorsOf(commons)

\* addinfo, after the commons the heads of the server gave.
Learn(commons, missings) ==
    LET newcommon == common \cup NewCommons(commons)
        left      == IF decided THEN undecided \ newcommon
                     ELSE AncestorsOf(ownheads) \ newcommon
        gone      == NewMissings(missings, left)
    IN  /\ common' = newcommon
        /\ decided' = (decided \/ missings # {})
        /\ undecided' = IF decided' THEN left \ gone ELSE {}
        /\ missing' = missing \cup gone

(***************************************************************************)
(* findcommonheads: the heads, and a first sample.                         *)
(***************************************************************************)
Finish(result, incoming) ==
    /\ step' = "done"
    /\ common' = result
    /\ anyincoming' = incoming
    /\ UNCHANGED <<sample, decided, undecided, missing, full>>

\* discovery.findcommonincoming: all that is asked for is here already.
NothingToDiscover == command.heads # {} /\ command.heads \subseteq local

AllKnown ==
    /\ step = "start" /\ NothingToDiscover
    /\ srvheads' = command.heads
    /\ Finish(AncestorsOf(command.heads), FALSE)
    /\ UNCHANGED <<repositories, command>>

AskHeads ==
    /\ step = "start" /\ ~NothingToDiscover
    /\ srvheads' = HeadsOf(remote)
    /\ step' = IF command.exchangeheads THEN "ask" ELSE "search"
    /\ full' = ~command.exchangeheads
    /\ UNCHANGED <<repositories, command, sample, common, decided, undecided, missing,
                   anyincoming>>

\* A peer that takes any request is asked about all the heads.
FirstSamples ==
    IF command.limitedarguments /\ Cardinality(ownheads) > InitialSize
    THEN {S \in SUBSET ownheads : Cardinality(S) = InitialSize}
    ELSE {ownheads}

\* Mutant: the part of the heads that was asked about is enough.
AllAskedKnown(known) == known = sample'

AllOwnHeadsKnown(known) == sample' = ownheads /\ known = sample'

\* Mutant: one head of the server that is known is enough.
AServerHeadKnown == srvheads \cap local # {}

AllServerHeadsKnown == srvheads # {} /\ srvheads \subseteq local

\* What findcommonincoming and pull make of the result for -r.
Incoming(incoming) == incoming \/ \E h \in command.heads : h \notin local

\* The answer to the first sample, and the early exits.
AskFirst ==
    /\ step = "ask"
    /\ sample' \in FirstSamples
    /\ LET known == sample' \cap remote IN
        \/ /\ local = {}
           /\ step' = "done"
           /\ anyincoming' = Incoming(srvheads # {})
           /\ UNCHANGED <<common, decided, undecided, missing>>
        \/ /\ local # {} /\ AllServerHeadsKnown
           /\ step' = "done"
           /\ common' = AncestorsOf(srvheads)
           /\ anyincoming' = Incoming(FALSE)
           /\ UNCHANGED <<decided, undecided, missing>>
        \/ /\ local # {} /\ ~AllServerHeadsKnown /\ AllOwnHeadsKnown(known)
           /\ step' = "done"
           /\ common' = AncestorsOf(ownheads)
           /\ anyincoming' = TRUE
           /\ UNCHANGED <<decided, undecided, missing>>
        \/ /\ local # {} /\ ~AllServerHeadsKnown /\ ~AllOwnHeadsKnown(known)
           /\ step' = "search"
           /\ Learn(known \cup (srvheads \cap local), sample' \ known)
           /\ UNCHANGED anyincoming
    /\ UNCHANGED <<repositories, command, srvheads, full>>

(***************************************************************************)
(* The full discovery: samples until nothing is undecided.                 *)
(***************************************************************************)
Sized(S, size) == {T \in SUBSET S : Cardinality(T) = size}

\* takequicksample: the heads, and then other ancestors of the own heads,
\* decided or not.
QuickSamples(size) ==
    LET heads == HeadsOf(Undecided) IN
    IF Cardinality(Undecided) <= size THEN {Undecided}
    ELSE IF Cardinality(heads) >= size THEN Sized(heads, size)
    ELSE {heads \cup more : more \in
            {T \in SUBSET AncestorsOf(ownheads) : Cardinality(heads \cup T) <= size}}

\* takefullsample: heads, roots and some between, as many as the size says
\* or, when it may, as there are heads or roots.
FullSamples ==
    LET heads == Cardinality(HeadsOf(Undecided))
        roots == Cardinality(RootsOf(Undecided))
        least == IF heads < roots THEN heads ELSE roots
        size  == IF command.respectsize \/ least < FullSize THEN FullSize ELSE least
    IN  IF Cardinality(Undecided) <= size THEN {Undecided} ELSE Sized(Undecided, size)

Samples == IF full \/ hasinfo THEN FullSamples ELSE QuickSamples(InitialSize)

AskSample ==
    /\ step = "search" /\ ~iscomplete
    /\ sample' \in Samples
    /\ step' = "answer"
    /\ decided' = TRUE
    /\ undecided' = Undecided
    /\ full' = TRUE
    /\ UNCHANGED <<repositories, command, srvheads, common, missing, anyincoming>>

\* known() looks at one state of the server, possibly later than the one
\* the heads came from.
Answer ==
    /\ step = "answer"
    /\ Learn(sample \cap remote, sample \ remote)
    /\ step' = "search"
    /\ UNCHANGED <<repositories, command, srvheads, sample, full, anyincoming>>

Unrelated == common = {} /\ srvheads # {}

Conclude ==
    /\ step = "search" /\ iscomplete
    /\ step' = IF Unrelated /\ ~command.force THEN "aborted" ELSE "done"
    /\ anyincoming' = Incoming(srvheads # {})
    /\ UNCHANGED <<repositories, command, srvheads, disco>>

(***************************************************************************)
(* The rest of hg pull.                                                    *)
(***************************************************************************)
\* pullop.heads or pullop.rheads.
Wanted == IF command.heads # {} THEN command.heads ELSE srvheads

Bundle == AncestorsOf(Wanted) \ common

\* _pullbundle2: the changesets between the common heads and the wanted.
Fetch ==
    /\ step = "done"
    /\ local' = IF anyincoming THEN local \cup Bundle ELSE local
    /\ step' = "pulled"
    /\ UNCHANGED <<ancestors, remote, growths, before, command, srvheads, disco, anyincoming>>

Client == AllKnown \/ AskHeads \/ AskFirst \/ AskSample \/ Answer \/ Conclude \/ Fetch

Next == RemoteGrows \/ Client

Spec == Init /\ [][Next]_vars /\ WF_vars(Client)

(***************************************************************************)
(* Properties.                                                             *)
(***************************************************************************)
ended == step \in {"pulled", "aborted"}

\* Types, and the books partialdiscovery keeps: what is common is closed,
\* and each changeset looked at is common, missing or undecided, the
\* undecided being neither of the others.
DiscoveryTypeOK ==
    /\ local \subseteq Changesets /\ before \subseteq remote /\ remote \subseteq Changesets
    /\ step \in {"start", "ask", "search", "answer", "done", "pulled", "aborted"}
    /\ command \in Commands
    /\ decided \in BOOLEAN /\ full \in BOOLEAN /\ anyincoming \in BOOLEAN
    /\ IsClosed(common)
    /\ undecided \cap (common \cup missing) = {}
    /\ step \in {"search", "answer"} /\ decided =>
        AncestorsOf(ownheads) \subseteq common \cup missing \cup undecided

\* What discovery calls common, both sides have, whatever was pushed to the
\* server between two questions (a changeset wrongly taken for common is
\* left out of the bundle, and its children cannot be added).
CommonIsShared == common \subseteq local \cap remote

\* Discovery finds all that the two sides shared when it started among the
\* changesets it looked at, and gives up on the server as unrelated only
\* when there was no such changeset.  (Not when -r names what is here.)
SharedIsFound ==
    /\ step = "done" /\ ~NothingToDiscover =>
        AncestorsOf(ownheads) \cap before \subseteq common
    /\ step = "aborted" => AncestorsOf(ownheads) \cap before = {}

\* What discovery ends with is what the two sides share.
CommonIsExact == CommonIsShared /\ SharedIsFound

\* A pull brings in what it was asked for, or all the server had when it
\* started, and leaves no changeset without its parents.
PullCompletes ==
    /\ IsClosed(local)
    /\ step = "pulled" =>
        IF command.heads = {} THEN before \subseteq local ELSE command.heads \subseteq local

\* Discovery ends although the server keeps growing under it.
DiscoveryEnds == <>ended

\* "If the server has a limit to its arguments size, we can't grow the
\* sample" (setdiscovery.py:434): no request of a discovery that starts with
\* the heads names more changesets than the configuration says.
LimitedSamplesFit ==
    command.limitedarguments /\ command.exchangeheads =>
        Cardinality(sample) <= InitialSize \/ Cardinality(sample) <= FullSize
=============================================================================
