----------------------------- MODULE MCImports -----------------------------
(***************************************************************************)
(* ExtractJobs with more requests, workers, jobs and attempts than one        *)
(* instance can hold: a behaviour keeps to one of several scenarios, each     *)
(* large where a race is and small elsewhere.                                 *)
(***************************************************************************)
EXTENDS MCExtractJobs

VARIABLE scenario

\* Who and what takes part in a behaviour.
Scenarios == {
  [users |-> TwoUsers, leaving |-> TwoUsers, urls |-> TwoUrls, deliveries |-> OneDelivery,
   handlers |-> TwoHandlers, workers |-> {}, jobs |-> 1, attempts |-> 0],
  [users |-> TwoUsers, leaving |-> TwoUsers, urls |-> OneUrl, deliveries |-> {},
   handlers |-> OneHandler, workers |-> OneWorker, jobs |-> 1, attempts |-> 1],
  [users |-> OneUser, leaving |-> {}, urls |-> OneUrl, deliveries |-> {},
   handlers |-> OneHandler, workers |-> OneWorker, jobs |-> 2, attempts |-> 1],
  [users |-> OneUser, leaving |-> OneUser, urls |-> OneUrl, deliveries |-> {},
   handlers |-> OneHandler, workers |-> TwoWorkers, jobs |-> 1, attempts |-> 2]}

Within ==
  /\ closed \subseteq scenario.leaving
  /\ \A h \in Handlers :
       \/ h \in scenario.handlers /\ req[h].user \in scenario.users \cup {NoUser}
                                  /\ req[h].url \in scenario.urls \cup {NoUrl}
                                  /\ req[h].delivery \in scenario.deliveries \cup {NoDelivery}
       \/ At(h, "idle")
  /\ \A w \in Workers \ scenario.workers : run[w].pc = "idle"
  /\ \A j \in Jobs : /\ scenario.attempts < MaxAttempts => jobs[j].attempts <= scenario.attempts
                     /\ jobs[j].status # "absent" => j <= scenario.jobs

ScenarioInit == Init /\ scenario \in Scenarios
ScenarioNext == Next /\ UNCHANGED scenario /\ Within'
OneScenario == ScenarioInit /\ [][ScenarioNext]_<<vars, scenario>>
=============================================================================
