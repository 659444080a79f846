-------------------------------- MODULE Push --------------------------------
(***************************************************************************)
(* src/mercurial/exchange.py: push.  A client asks the server what it has, *)
(* which phases, bookmarks and branch heads, decides from the answers what *)
(* to send, and sends it in one bundle2 with parts that say what it relied *)
(* on.  Between any two questions, and before the bundle arrives, another  *)
(* client's push may be applied.  The server applies a bundle atomically,  *)
(* under its lock and in one transaction (Transaction.tla, RepoLock.tla).  *)
(*                                                                         *)
(* Phases are public and draft here, there is one bookmark, and the server *)
(* has the capabilities of this release.                                   *)
(***************************************************************************)
EXTENDS Dag

CONSTANTS
    Clients,
    Branches,
    Options,        \* what hg push is called with: [force, newbranch, explicit]
    MaxPushes,      \* bound: pushes
    None

ASSUME PushAssumption ==
    /\ MaxPushes \in Nat /\ None \notin Changesets
    /\ Options \subseteq [force : BOOLEAN, newbranch : BOOLEAN, explicit : BOOLEAN]

VARIABLES
    branch,         \* the named branch of each changeset
    config,         \* of the server: phases.publish, server.concurrent-push-mode
    server,         \* its changesets, the public ones, and where its bookmark is
    client,          \* the same of each client
    push,           \* the pushoperation of each client
    pushes

pushvars == <<ancestors, branch, config, server, client, push, pushes>>

Repositories == [known : SUBSET Changesets, public : SUBSET Changesets,
                 mark : Changesets \cup {None}]

-----------------------------------------------------------------------------
(* What is asked, and what is made of the answers *)

\* branchmap(): "a revision such that no descendant is on the same branch".
HeadsOn(S, b) ==
    {c \in S : branch[c] = b /\ \A d \in S : branch[d] = b /\ c \in ancestors[d] => d = c}

\* listphases(), as far as the client knows the changesets.
DraftRoots(has) == RootsOf(server.known \ server.public) \cap has

\* analyzeremotephases(), newheads()
PublicPart(heads, droots) == AncestorsOf(heads) \ DescendantsOf(droots)

\* fallbackheads, futureheads, and commonheads, which is one of them.
FallbackHeads(p) ==
    IF p.revs = None THEN HeadsOf(p.common)
    ELSE (p.revs \cap p.common)
            \cup (HeadsOf(p.common) \cap UNION {ParentsOf(r) : r \in RootsOf(p.missing)})

CommonHeads(p) == IF p.missing # {} THEN p.heads ELSE FallbackHeads(p)

\* Mutant: the changesets that are sent are not taken for draft on the server.
OutdatedPhasesFallback(p, droots, public) ==
    LET cond == IF config.publishing THEN Changesets ELSE public
    IN HeadsOf(Between(droots, FallbackHeads(p)) \cap cond)

\* _pushdiscoveryphase(): what the push has to make public there.
OutdatedPhases(p, droots, public) ==
    LET cond == IF config.publishing THEN Changesets ELSE public
        fdroots == RootsOf(p.missing \cup (DescendantsOf(droots) \cap p.has))
    IN IF p.missing = {}
         THEN HeadsOf(Between(droots, FallbackHeads(p)) \cap cond)
         ELSE HeadsOf(Between(fdroots, p.heads) \cap cond)

\* Mutant: a bookmark is pushed whatever changesets -r asks for.
OutMarkAlways(p, mine, theirs) ==
    LET advances == theirs \in p.has /\ mine \in p.has /\ theirs \in ancestors[mine]
    IN mine # theirs /\ (advances \/ p.explicit)

\* comparebookmarks(), _processcompared(): pushed if it advances the one there, or
\* if asked for with -B.
OutMark(p, mine, theirs) ==
    LET advances == theirs \in p.has /\ mine \in p.has /\ theirs \in ancestors[mine]
        pushed == p.revs = None \/ mine \in AncestorsOf(p.revs)
    IN IF mine = theirs THEN FALSE ELSE IF advances THEN pushed ELSE p.explicit

\* _headssummary(), for the branches of the changesets to send.
HeadsSummary(p, remote) ==
    [b \in {branch[c] : c \in p.missing} |->
        LET heads == HeadsOn(remote, b)
            known == heads \cap p.has
        IN [exists |-> heads # {}, old |-> known, unsynced |-> heads \ p.has,
            new |-> HeadsOn(known \cup p.missing, b)]]

\* _nowarnheads(): heads with a bookmark that the push moves there.
NoWarnHeads(p, mine, theirs) ==
    IF mine = None THEN {}
    ELSE IF theirs \in p.has
      THEN IF mine # theirs /\ theirs \in ancestors[mine] THEN {mine} ELSE {}
    ELSE IF p.explicit /\ theirs = None THEN {mine} ELSE {}

\* Mutant: heads the client does not have are not counted before the push.
AddsHeadsUnsynced(p, nowarn) ==
    \E b \in DOMAIN p.summary :
        LET s == p.summary[b] IN
        IF s.exists
          THEN /\ Cardinality(s.new) > Cardinality(s.old \cup s.unsynced)
               /\ s.new \ (nowarn \cup s.old) # {}
          ELSE Cardinality(s.new) > 1

\* checkheads(): "push creates new remote head".
AddsHeads(p, nowarn) ==
    \E b \in DOMAIN p.summary :
        LET s == p.summary[b] IN
        IF s.exists
          THEN /\ Cardinality(s.new \cup s.unsynced) > Cardinality(s.old \cup s.unsynced)
               /\ s.new \ (nowarn \cup s.old) # {}
          ELSE Cardinality(s.new) > 1

\* _pushing(): is there anything to send?
Pushing(p) == p.missing # {} \/ p.outdated # {} \/ p.outmark

-----------------------------------------------------------------------------
(* The parts a bundle starts with, and what the server makes of them *)

\* Mutant: a bookmark that has moved is not looked at.
CheckBookmarksNot(p) == TRUE

\* check:bookmarks
CheckBookmarks(p) == ~p.force /\ p.outmark => server.mark = p.oldmark

\* check:phases
CheckPhases(p) ==
    ~p.force /\ Pushing(p) =>
        /\ HeadsOf(PublicPart(FallbackHeads(p), p.droots)) \subseteq server.public
        /\ p.droots \cap server.public = {}

\* The heads that the push replaces.
Affected(p) ==
    UNION {p.summary[b].old \ p.summary[b].new :
               b \in {x \in DOMAIN p.summary : p.summary[x].exists}}

\* Mutant: the heads that the client does not have are left out.
CheckHeadsCommon(p) ==
    ~p.force /\ p.missing # {} => HeadsOf(p.common) = HeadsOf(server.known)

\* check:heads, when the server is strict or was found empty, or check:updated-heads.
CheckHeads(p) ==
    ~p.force /\ p.missing # {} =>
        IF config.strict \/ p.seen.known = {}
          THEN HeadsOf(p.seen.known) = HeadsOf(server.known)
          ELSE Affected(p) \subseteq UNION {HeadsOn(server.known, b) : b \in Branches}

-----------------------------------------------------------------------------
(* A push *)

Idle == [step |-> "idle"]

PushInit ==
    /\ IsDag
    /\ branch \in [Changesets -> Branches]
    /\ config \in [publishing : BOOLEAN, strict : BOOLEAN]
    /\ server \in {r \in Repositories : /\ IsClosed(r.known) /\ IsClosed(r.public)
                                        /\ r.public \subseteq r.known
                                        /\ r.mark \in r.known \cup {None}}
    /\ client \in [Clients -> {r \in Repositories :
                                  /\ IsClosed(r.known) /\ IsClosed(r.public)
                                  /\ r.public \subseteq r.known
                                  /\ r.mark \in r.known \cup {None}}]
    /\ push = [cl \in Clients |-> Idle] /\ pushes = 0

Running(cl) == push[cl].step \in {"phases", "bookmarks", "branchmap", "nowarn", "send", "sync"}

AtStep(cl, s) == push[cl].step = s /\ UNCHANGED <<ancestors, branch, config, pushes>>

\* -B names the bookmark's changeset as one to push, or none if it is deleted.
Revs(cl, o, revs) ==
    IF ~o.explicit THEN revs
    ELSE (IF revs = None THEN {} ELSE revs) \cup ({client[cl].mark} \ {None})

\* findcommonincoming(), findcommonoutgoing(), then the questions that follow.
Discover(cl, o, revs) ==
    /\ ~Running(cl) /\ pushes < MaxPushes /\ pushes' = pushes + 1
    /\ o.explicit => client[cl].mark # None \/ server.mark # None
    /\ LET has == client[cl].known
           common == has \cap server.known
           heads == IF Revs(cl, o, revs) = None THEN HeadsOf(has) ELSE Revs(cl, o, revs)
           unrelated == ~o.force /\ common = {} /\ has # {} /\ server.known # {}
       IN push' = [push EXCEPT ![cl] =
            [step |-> IF unrelated THEN "refused" ELSE "phases",
             force |-> o.force, newbranch |-> o.newbranch, explicit |-> o.explicit,
             revs |-> Revs(cl, o, revs), has |-> has, seen |-> server,
             common |-> common, heads |-> heads,
             missing |-> AncestorsOf(heads) \ common,
             droots |-> {}, outdated |-> {}, outmark |-> FALSE, oldmark |-> None,
             summary |-> <<>>]]
    /\ UNCHANGED <<ancestors, branch, config, server, client>>

ListPhases(cl) ==
    /\ AtStep(cl, "phases")
    /\ LET p == push[cl]
           droots == DraftRoots(p.has)
       IN push' = [push EXCEPT ![cl] =
                    [p EXCEPT !.step = "bookmarks", !.droots = droots,
                              !.outdated = OutdatedPhases(p, droots, client[cl].public)]]
    /\ UNCHANGED <<server, client>>

\* The parts are made next: heads are checked if there is a changeset to send, the
\* server is not empty and the push is not forced; nothing to send, no bundle.
ListBookmarks(cl) ==
    /\ AtStep(cl, "bookmarks")
    /\ LET p == push[cl]
           q == [p EXCEPT !.oldmark = server.mark,
                          !.outmark = OutMark(p, client[cl].mark, server.mark)]
       IN push' = [push EXCEPT ![cl] =
                    [q EXCEPT !.step =
                        IF ~Pushing(q) THEN "sync"
                        ELSE IF q.missing = {} \/ q.force \/ q.seen.known = {} THEN "send"
                        ELSE "branchmap"]]
    /\ UNCHANGED <<server, client>>

\* "push creates new remote branches"
BranchMap(cl) ==
    /\ AtStep(cl, "branchmap")
    /\ LET s == HeadsSummary(push[cl], server.known)
           newbranches == {b \in DOMAIN s : ~s[b].exists}
       IN push' = [push EXCEPT
                    ![cl].summary = s,
                    ![cl].step = IF newbranches # {} /\ ~push[cl].newbranch
                                   THEN "refused" ELSE "nowarn"]
    /\ UNCHANGED <<server, client>>

\* The bookmarks are asked for again.
NoWarn(cl) ==
    /\ AtStep(cl, "nowarn")
    /\ LET nowarn == NoWarnHeads(push[cl], client[cl].mark, server.mark)
       IN push' = [push EXCEPT ![cl].step =
                    IF AddsHeads(push[cl], nowarn) THEN "refused" ELSE "send"]
    /\ UNCHANGED <<server, client>>

\* The server, with its lock: "remote repository changed while pushing", or the
\* changegroup with the phases it is received in, phase-heads, and bookmarks.
Unbundle(cl) ==
    /\ AtStep(cl, "send")
    /\ LET p == push[cl]
           received == IF config.publishing THEN AncestorsOf(p.missing) ELSE {}
       IN IF CheckBookmarks(p) /\ CheckPhases(p) /\ CheckHeads(p)
            THEN /\ server' = [known |-> server.known \cup p.missing,
                               public |-> server.public \cup received \cup AncestorsOf(p.outdated),
                               mark |-> IF p.outmark THEN client[cl].mark ELSE server.mark]
                 /\ push' = [push EXCEPT ![cl].step = "sync"]
            ELSE /\ push' = [push EXCEPT ![cl].step = "raced"]
                 /\ UNCHANGED server
    /\ UNCHANGED client

\* Mutant: what was sent has the phase it has on a publishing server.
LocalMovesPublish(p) == AncestorsOf(CommonHeads(p))

\* What the client takes for public: all the server has if it is publishing.
LocalMoves(p) ==
    IF config.publishing THEN AncestorsOf(CommonHeads(p))
    ELSE PublicPart(CommonHeads(p), DraftRoots(p.has))

\* _pushsyncphase(), with phases asked for again.  (What it publishes on the server
\* by pushkey, when no changeset was sent, the bundle has published already.)
SyncPhases(cl) ==
    /\ AtStep(cl, "sync")
    /\ client' = [client EXCEPT ![cl].public = client[cl].public \cup LocalMoves(push[cl])]
    /\ push' = [push EXCEPT ![cl].step = "done"]
    /\ UNCHANGED server

\* The bundle or the reply to it does not arrive.  (A client that dies before it has
\* sent the bundle has done nothing that others see.)
GiveUp(cl) ==
    /\ push[cl].step \in {"send", "sync"}
    /\ push' = [push EXCEPT ![cl] = Idle]
    /\ UNCHANGED <<ancestors, branch, config, server, client, pushes>>

PushNext ==
    \E cl \in Clients :
        \/ \E o \in Options, revs \in {None} \cup {{h} : h \in HeadsOf(client[cl].known)} :
              Discover(cl, o, revs)
        \/ ListPhases(cl) \/ ListBookmarks(cl) \/ BranchMap(cl) \/ NoWarn(cl)
        \/ Unbundle(cl) \/ SyncPhases(cl) \/ GiveUp(cl)

PushSpec == PushInit /\ [][PushNext]_pushvars

-----------------------------------------------------------------------------
(* Properties *)

IsRepository(r) ==
    /\ r \in Repositories
    /\ IsClosed(r.known) /\ IsClosed(r.public) /\ r.public \subseteq r.known
    /\ r.mark \in r.known \cup {None}

\* Type invariant: repositories have the ancestors of what they have, nothing has a
\* public descendant but what is public, and bookmarks are on changesets there.
PushTypeOK ==
    /\ IsDag /\ branch \in [Changesets -> Branches]
    /\ IsRepository(server) /\ \A cl \in Clients : IsRepository(client[cl])
    /\ \A cl \in Clients : push[cl] # Idle => push[cl].missing \subseteq client[cl].known

Applied(cl) == push[cl].step = "send" /\ push'[cl].step = "sync"

NewHeads(b) == HeadsOn(server'.known, b) \ HeadsOn(server.known, b)

MoreHeads(b) == Cardinality(HeadsOn(server'.known, b)) > Cardinality(HeadsOn(server.known, b))

\* A push adds no head to a branch it found on the server, whoever pushed what in
\* the meantime, but one that the client's bookmark is on.
HeadsAllowed(cl) ==
    \A b \in DOMAIN push[cl].summary :
        push[cl].summary[b].exists /\ MoreHeads(b) => NewHeads(b) \subseteq {client[cl].mark}

\* "strict: push is abort if another client touched the repository while the push
\* was preparing": the server has what it had when it was first asked, no more.
StrictIsStrict(cl) ==
    push[cl].missing # {} /\ (config.strict \/ push[cl].seen.known = {})
        => server.known = push[cl].seen.known

\* What a push that is not forced was checked for before it was sent holds when the
\* server applies it, whatever other clients did in between.
PushesAreAllowed ==
    [][\A cl \in Clients : Applied(cl) /\ ~push[cl].force =>
         HeadsAllowed(cl) /\ StrictIsStrict(cl)]_pushvars

\* A bookmark that is pushed without -B or --force goes forward from where it is at
\* that moment: no move of another client is undone.
MarkGoesForward ==
    [][\A cl \in Clients :
         /\ Applied(cl) /\ ~push[cl].force /\ ~push[cl].explicit
         /\ server'.mark # server.mark
         => server.mark # None /\ server.mark \in ancestors[server'.mark]]_pushvars

\* A client takes for public what the server has as public, and nothing else.
PublicAsServer ==
    [][\A cl \in Clients : client'[cl].public \ client[cl].public \subseteq server'.public]_pushvars

\* After a push the server has all that was to be pushed, and in no higher phase
\* than the client: what is public here is so there, and all of it if it publishes.
PhasesAgree ==
    \A cl \in Clients : push[cl].step = "done" =>
        LET pushed == AncestorsOf(CommonHeads(push[cl])) IN
        /\ pushed \subseteq server.known
        /\ pushed \cap client[cl].public \subseteq server.public
        /\ config.publishing => pushed \subseteq client[cl].public

\* A push is told that it was raced only if the server did change under it: it is
\* not as it was found, or its bookmark was moved in between, even if it is back.
RacedOnlyIfChanged ==
    [][\A cl \in Clients : push[cl].step = "send" /\ push'[cl].step = "raced" =>
         server # push[cl].seen \/ push[cl].oldmark # push[cl].seen.mark]_pushvars

\* "By default, push will not allow creation of new heads at the destination": a
\* branch has more heads than it had only if it is new, with one head, or if the new
\* ones have a bookmark there.
NoNewHeads ==
    [][\A cl \in Clients : Applied(cl) /\ ~push[cl].force /\ push[cl].seen.known # {} =>
         \A b \in Branches : MoreHeads(b) =>
            \/ Cardinality(HeadsOn(server'.known, b)) = 1
            \/ NewHeads(b) \subseteq {server'.mark}]_pushvars
=============================================================================
