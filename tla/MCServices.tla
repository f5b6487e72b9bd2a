----------------------------- MODULE MCServices -----------------------------
(***************************************************************************)
(* What surrounds the queue and the life cycle of a review: delivery to    *)
(* GitHub, the intake of reviews, the parser processes, the workspaces and *)
(* the rounds of an agent.  They share no state, so one instance holds     *)
(* behaviours of each, while the others do not move.                       *)
(***************************************************************************)
EXTENDS Publication, ReviewIntake, ParserPool, Workspaces, AgentRounds, TLC

CONSTANTS s1, h1  \* evidence and hunks
SourcesOfHunks == h1 :> {s1}

VARIABLE part  \* what this behaviour is about

WorkspaceParts == {"one workspace", "two tasks", "many commits"}
Parts == {"delivery", "intake", "parsers", "agent"} \cup WorkspaceParts

services == <<vars, intakeVars, poolVars, workVars, roundVars, part>>

ServicesInit ==
    /\ part \in Parts
    /\ Init /\ IntakeInit /\ PoolInit /\ WorkspacesInit /\ RoundsInit
    /\ part # "agent" => role = "review"

\* Workspaces under three sets of bounds: everything goes wrong with one
\* commit; two tasks race for one; one task goes through many.
Used(cs, ks, ds) ==
    /\ \A c \in Client \ cs : client[c] = Idler
    /\ \A c \in Client : client[c].key \subseteq ks
    /\ \A d \in Dir \ ds : dir[d] = NoDir

Within(story) ==
    LET c == CHOOSE c \in Client : TRUE
        k == CHOOSE k \in Commits : TRUE
    IN CASE story = "one workspace" -> Used({c}, {k}, Dir)
         [] story = "two tasks" -> Used(Client, {k}, Dir \ {Dirs}) /\ troubles = 0
         [] story = "many commits" ->
              /\ Used({c}, Commits, Dir) /\ troubles = 0
              /\ maint.pc = "rest" /\ \A d \in Dir : ~dir[d].old

\* Two deliveries, of which one is tried more than once.
OneTriesAgain == Cardinality({a \in Attempt : job[a].tries > 1}) < 2

\* An agent that gets on makes five requests, one that does not makes six.
OnlyStalledGoOn == count.models < 6 \/ late > 0

ServicesNext ==
    /\ UNCHANGED part
    /\ \/ /\ part = "delivery" /\ Next /\ OneTriesAgain'
          /\ UNCHANGED <<intakeVars, poolVars, workVars, roundVars>>
       \/ /\ part = "intake" /\ IntakeNext
          /\ UNCHANGED <<vars, poolVars, workVars, roundVars>>
       \/ /\ part = "parsers" /\ PoolNext
          /\ UNCHANGED <<vars, intakeVars, workVars, roundVars>>
       \/ /\ part \in WorkspaceParts
          /\ WorkspacesNext /\ Within(part)'
          /\ UNCHANGED <<vars, intakeVars, poolVars, roundVars>>
       \/ /\ part = "agent" /\ RoundsNext /\ OnlyStalledGoOn'
          /\ UNCHANGED <<vars, intakeVars, poolVars, workVars>>

\* Names only; Client and Commits are named in Within.
Symmetry == Permutations(Caller) \cup Permutations(Delivery)

ServicesSpec == ServicesInit /\ [][ServicesNext]_services

\* The type invariants of the parts, each where its part moves.
ServicesTypeOK ==
    /\ part = "delivery" => PublicationTypeOK
    /\ part = "intake" => IntakeTypeOK
    /\ part = "parsers" => PoolTypeOK
    /\ part \in WorkspaceParts => WorkspacesTypeOK
    /\ part = "agent" => RoundsTypeOK
=============================================================================
