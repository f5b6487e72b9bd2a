----------------------------- MODULE MCSettling -----------------------------
(***************************************************************************)
(* What must come to rest: the job queues, the parser processes, the       *)
(* workspaces, the git processes of a clone.  They share no state, so one  *)
(* instance holds behaviours of each, while the others do not move.        *)
(***************************************************************************)
EXTENDS MCJobQueue, ParserPool, Workspaces, GitSnapshot

VARIABLE part  \* what this behaviour is about

all == <<queueVars, poolVars, workVars, gitVars, part>>

QueueRests(jobs, workers) ==
    /\ \A j \in jobs : job[j].status = "absent"
    /\ \A w \in workers : worker[w].phase = "down"

\* Review jobs and publication jobs share the clock and nothing else.
OneQueue(kind) == IF kind = "review jobs" THEN QueueRests(PublicationJob, PublicationWorker)
                                          ELSE QueueRests(ReviewJob, ReviewWorker)

QueueParts == {"review jobs", "publication jobs"}

\* One pool sees accidents, or is closed.
OneTrouble == accidents = 0 \/ generation = 0

SettlingInit ==
    /\ part \in QueueParts \cup {"parsers", "workspaces", "clone"}
    /\ QueueInit /\ PoolInit /\ WorkspacesInit /\ GitInit
    /\ part # "clone" => declared = [e \in Ends |-> 1] /\ \A c \in Revision : parents[c] = {}

SettlingNext ==
    /\ UNCHANGED part
    /\ \/ /\ part \in QueueParts /\ QueueNext /\ OneQueue(part)'
          /\ UNCHANGED <<poolVars, workVars, gitVars>>
       \/ /\ part = "workspaces" /\ WorkspacesNext
          /\ UNCHANGED <<queueVars, poolVars, gitVars>>
       \/ /\ part = "parsers" /\ PoolNext /\ OneTrouble'
          /\ UNCHANGED <<queueVars, workVars, gitVars>>
       \/ /\ part = "clone" /\ GitNext
          /\ UNCHANGED <<queueVars, poolVars, workVars>>

\* The fairness of FairQueueSpec for the review queue, of PoolSpec, of
\* WorkspacesSpec and of GitFairness, each where its part moves.
In(where, step) == part \in where /\ step

SettlingSpec ==
    /\ SettlingInit /\ [][SettlingNext]_all
    /\ WF_queueVars(In(QueueParts, Tick))
    /\ \A w \in ReviewWorker :
          /\ WF_queueVars(In({"review jobs"}, Start(w)))
          /\ WF_queueVars(In({"review jobs"}, StartClaim(w)))
          /\ WF_queueVars(In({"review jobs"},
                       \E d \in Age : ClaimJob(w, d, Job) \/ ClaimNothing(w, d, Job)))
          /\ WF_queueVars(In({"review jobs"}, \E how \in Ended : HandlerEnds(w, how)))
          /\ WF_queueVars(In({"review jobs"},
                       \E d \in Age : Complete(w, d) \/ Fail(w, d) \/ FailWrites(w, d)))
    /\ \A c \in Caller :
          /\ WF_poolVars(In({"parsers"}, CallerStep(c)))
          /\ WF_poolVars(In({"parsers"}, DeadlinePasses(c)))
    /\ \A c \in Client : WF_workVars(In({"workspaces"}, ThreadStep(c)))
    /\ WF_workVars(In({"workspaces"}, RemovesStep))
    /\ WF_workVars(In({"workspaces"}, MaintenanceStep))
    /\ \A d \in Dir : WF_workVars(In({"workspaces"}, Ages(d)))
    /\ WF_gitVars(In({"clone"}, SpawnGit)) /\ WF_gitVars(In({"clone"}, Collects))
    /\ \A why \in {"late", "cancelled"} : WF_gitVars(In({"clone"}, Notices(why)))
    /\ WF_gitVars(In({"clone"}, proc.state = "told to stop"
                                 /\ \E well \in BOOLEAN : ProcessEnds(well)))
    /\ \A pipe \in Pipes : WF_gitVars(In({"clone"}, PipeEnds(pipe)))

\* Every call of a thread ends, of the parsers as of git, although both wait for
\* a process that may hang (ParserPool.CallsEnd and GitSnapshot.GitCallsEnd).
EveryCallEnds == CallsEnd /\ (part = "clone" => GitCallsEnd)
=============================================================================
