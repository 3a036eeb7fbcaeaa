------------------------ MODULE ExtractJobsPromises ------------------------
(***************************************************************************)
(* What comments, migrations and documents of the repository promise of the *)
(* import queue, and ExtractJobs refutes.  Each promise has a run that      *)
(* expects a violation and a finding that quotes its source.                *)
(***************************************************************************)
EXTENDS ExtractJobs

\* "Concurrent extract for same normalized URL - return the winner" (app/store.py:366):
\* a request that lost the race for a URL to an import that is still active finds that
\* import.  It looks under row level security, which hides another user's job.
LoserFindsWinner ==
  \A h \in Handlers :
    At(h, "winner") /\ req[h].next = "extract" /\ UrlTaken(req[h].url, NoJob)
      => VisibleActive(req[h].user, req[h].url) # {}

\* "Atomically reserve worst-case spend in Postgres; fail closed if unavailable"
\* (app/spend.py:42): OpenAI is only called for a job with a ledger row.  The job can
\* be claimed as soon as it is inserted, before the reservation is made or refused.
PaidRunsAreReserved == \A w \in Workers : run[w].paid => ledger[run[w].job] # "none"

\* "Repeated Share Extension submissions with the same delivery ID reuse the original
\* job" (migrations/008:1): two answers to one delivery id name the same job, as long
\* as the account still owns both.  Joining an active import records no delivery id.
OneJobPerDelivery ==
  \A h, k \in Handlers :
    LET q == req[h] r == req[k] IN
    /\ At(h, "answered") /\ At(k, "answered")
    /\ q.user = r.user /\ q.delivery = r.delivery /\ q.delivery # NoDelivery
    /\ jobs[q.job].owner = q.user /\ jobs[r.job].owner = r.user
    => q.job = r.job

\* "Make job completion and stale-job behavior deterministic", "set 100 on completion"
\* (the reliability plan of 2026-09-07, lines 72-74): a completed job stays completed.
\* update_job writes whatever it is told, so a late worker reopens or fails it.
CompletionIsFinal ==
  [][\A j \in Jobs : jobs[j].status = "completed" => jobs'[j].status = "completed"]_vars

\* "Scrub account-owned data and close its sessions atomically" (app/store.py:576):
\* a closed account owns no import.  A request past authentication still inserts one.
ClosedAccountOwnsNoJob == \A j \in Jobs : jobs[j].owner \notin closed

\* "3 new recipes / UTC calendar year; cache hits do not consume quota" (README.md:42):
\* what counts against the quota is an import that made a recipe.  A run that fails
\* after calling OpenAI records an extract_miss too, and get_quota counts it.
OnlyRecipesAreCharged == \A j \in Jobs : usage[j] > 0 => jobs[j].recipe # NoUrl
=============================================================================
