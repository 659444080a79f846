------------------------------- MODULE MCPush -------------------------------
(***************************************************************************)
(* Instances of Push.  Both clients have cloned the server, and each of    *)
(* the other changesets is in one or both of them.  The graph with two     *)
(* branches, the phases and the bookmarks are varied one at a time.        *)
(***************************************************************************)
EXTENDS Push, TLC

CONSTANTS default, other

PlainOptions == {[force |-> FALSE, newbranch |-> TRUE, explicit |-> FALSE]}

AllOptions == PlainOptions \cup
    {[force |-> TRUE, newbranch |-> FALSE, explicit |-> FALSE],
     [force |-> FALSE, newbranch |-> FALSE, explicit |-> TRUE]}

Closed == {S \in SUBSET Changesets : IsClosed(S)}

Repository(known, public, mark) == [known |-> known, public |-> public, mark |-> mark]

\* Two branches, no bookmark, nothing public.
Heads ==
    /\ branch \in [Changesets -> Branches] /\ branch[1] = default
    /\ config.publishing = FALSE
    /\ server \in {Repository(S, {}, None) : S \in Closed}
    /\ client \in [Clients -> {Repository(S, {}, None) : S \in {T \in Closed : server.known \subseteq T}}]

\* One branch; on each side something is public, what the server has public at least.
OneRoot == \A c \in Changesets : 1 \in ancestors[c]

Phases ==
    /\ OneRoot
    /\ branch = [c \in Changesets |-> default] /\ config.strict = FALSE
    /\ server \in {Repository(S, P, None) : S \in Closed, P \in Closed}
    /\ client \in [Clients -> {Repository(S, P, None) :
                                 S \in {T \in Closed : server.known \subseteq T},
                                 P \in {T \in Closed : server.public \subseteq T}}]
    /\ \E cl \in Clients : client[cl].public = server.public

\* One branch, nothing public, the bookmark anywhere.
Marks ==
    /\ OneRoot
    /\ branch = [c \in Changesets |-> default] /\ config = [publishing |-> FALSE, strict |-> FALSE]
    /\ server \in {Repository(S, {}, m) : S \in Closed \ {{}}, m \in Changesets \cup {None}}
    /\ client \in [Clients -> {Repository(S, {}, m) :
                                 S \in {T \in Closed : server.known \subseteq T},
                                 m \in Changesets \cup {None}}]

MCInit ==
    /\ IsDag
    /\ config \in [publishing : BOOLEAN, strict : BOOLEAN]
    /\ Heads \/ Phases \/ Marks
    /\ server.known \cup UNION {client[cl].known : cl \in Clients} = Changesets
    /\ PushInit

MCSpec == MCInit /\ [][PushNext]_pushvars

Symmetry == Permutations(Clients)

=============================================================================
