---------------------------- MODULE MCProgress ----------------------------
(***************************************************************************)
(* Whether imports come to their end: with a worker (ExtractJobs), and        *)
(* without one, where the background tasks of the API drain what waits        *)
(* (InProcessQueue).  A process is started in one of the two modes, so a       *)
(* behaviour runs one of them and leaves the other in its initial state.      *)
(***************************************************************************)
EXTENDS MCExtractJobs

VARIABLES
  mode,
  waiting, active, global, request, task, translating, lost   \* InProcessQueue

queueVars == <<waiting, active, global, request, task, translating, lost>>
everyVars == <<mode, vars, queueVars>>

\* One user's imports, three in all, two of them at one time.
Queue == INSTANCE InProcessQueue WITH
  Users <- {"user"}, NoUser <- "nobody", Urls <- {v1, v2}, Requests <- {1}, Tasks <- {1, 2},
  MaxJobs <- 3, MaxConcurrent <- 4, MaxPerUser <- 2, MaxOpen <- 3, DatabaseFails <- FALSE,
  Restarts <- FALSE, Translators <- {}, OneRequestPerUser <- TRUE, job <- waiting

ASSUME InstancesAssumption == Queue!QueueAssumption

WithWorker(step) == mode = "worker" /\ step /\ UNCHANGED <<mode, queueVars>>
WithoutWorker(step) == mode = "tasks" /\ step /\ UNCHANGED <<mode, vars>>

EveryInit == mode \in {"worker", "tasks"} /\ Init /\ Queue!Init
EveryNext == WithWorker(Next) \/ WithoutWorker(Queue!Next)

\* The fairness of the two modules.
EveryFairness ==
  /\ \A w \in Workers :
       WF_everyVars(WithWorker(ClaimNext(w))) /\ WF_everyVars(WithWorker(RunStep(w)))
  /\ \A j \in Jobs : WF_everyVars(WithWorker(LeaseExpires(j)))
  /\ \A t \in {1, 2} : WF_everyVars(WithoutWorker(Queue!TaskStep(t)))

EverySpec == EveryInit /\ [][EveryNext]_everyVars /\ EveryFairness

\* An import that waits behind a running one of its user is started when that one ends
\* (app/pipeline.py:498, 562-573): nobody loses it while the global limit is far, requests
\* of one user do not overlap and nothing raises or dies.
WaitingImportIsStarted == Queue!WaitingImportIsStarted
=============================================================================
