---------------------------- MODULE ExtractJobs ----------------------------
(***************************************************************************)
(* The import queue of ReciApp-Server in durable-worker mode               *)
(* (WORKER_ENABLED=true): POST /v1/extract and GET /v1/jobs/{id} on the     *)
(* API side, app.worker running claimed jobs through app.pipeline, and      *)
(* account deletion, all meeting in the PostgreSQL tables extract_jobs,     *)
(* api_spend_ledger, usage_events, recipes and user_recipes.                *)
(*                                                                         *)
(* Every database call of the code is a transaction of its own, so an       *)
(* action here is one statement (or one SQL function) together with the     *)
(* Python that follows it up to the next statement.  API handlers read      *)
(* through row level security: a request sees only its own user's rows and  *)
(* the rows shared with it (Visible); unique indexes do not.                *)
(***************************************************************************)
EXTENDS Naturals, FiniteSets

CONSTANTS
  Users, Urls, Deliveries,  \* profiles, normalised source URLs, client_delivery_id values
  Known,                    \* URLs whose recipe was imported before the instance starts
  Handlers, Workers,        \* request slots of the API, worker processes
  MaxJobs,                  \* bound: rows of extract_jobs ever inserted
  MaxAttempts,              \* attempt_count ceiling (5 in the SQL)
  SlowRuns,                 \* TRUE if a run may outlive the lease of its claim
  NoUser, NoUrl, NoDelivery \* null columns

ASSUME BoundsAssumption == MaxJobs \in Nat \ {0} /\ MaxAttempts \in Nat \ {0}
ASSUME SlowRunsAssumption == SlowRuns \in BOOLEAN
ASSUME KnownAssumption == Known \subseteq Urls
ASSUME WorkersAssumption == IsFiniteSet(Workers)
ASSUME NullAssumption ==
  NoUser \notin Users /\ NoUrl \notin Urls /\ NoDelivery \notin Deliveries

VARIABLES
  jobs,     \* extract_jobs, by id; ids are handed out in created_at order
  ledger,   \* api_spend_ledger status of each job; "overdue" is reserved for over 2 h
  usage,    \* number of extract_miss rows in usage_events per job
  recipes,  \* normalised URLs with a row in recipes
  library,  \* user_recipes
  closed,   \* profiles with deleted_at set
  access,   \* extract_job_access
  req,      \* what each API request slot is doing
  run       \* what each worker is doing

store == <<jobs, ledger, usage, recipes, library, closed, access>>
vars == <<jobs, ledger, usage, recipes, library, closed, access, req, run>>

Jobs == 1..MaxJobs
NoJob == 0

NoRow == [status |-> "absent", owner |-> NoUser, url |-> NoUrl, delivery |-> NoDelivery,
          attempts |-> 0, lease |-> "none", stale |-> FALSE, recipe |-> NoUrl,
          hit |-> FALSE, exhausted |-> FALSE]

IdleReq == [pc |-> "idle", user |-> NoUser, url |-> NoUrl, delivery |-> NoDelivery,
            job |-> NoJob, next |-> "none"]

IdleRun == [pc |-> "idle", job |-> NoJob, user |-> NoUser, url |-> NoUrl, paid |-> FALSE]

JobRows ==
  [status : {"absent", "pending", "processing", "completed", "failed"},
   owner : Users \cup {NoUser}, url : Urls \cup {NoUrl},
   delivery : Deliveries \cup {NoDelivery}, attempts : 0..MaxAttempts,
   lease : {"none", "held", "expired"}, stale : BOOLEAN,
   recipe : Urls \cup {NoUrl}, hit : BOOLEAN, exhausted : BOOLEAN]

LedgerStatus == {"none", "reserved", "overdue", "settled", "failed"}

Requests ==
  [pc : {"idle", "delivery", "cache", "createHit", "attach", "active", "expire",
         "expireSettle", "create", "replay", "winner", "recover", "reserve",
         "refuse", "answered", "crashed"},
   user : Users \cup {NoUser}, url : Urls \cup {NoUrl},
   delivery : Deliveries \cup {NoDelivery}, job : Jobs \cup {NoJob},
   next : {"none", "hit", "extract", "create", "crashed", "attach", "answered"}]

Runs ==
  [pc : {"idle", "claimed", "extract", "upsert", "attach", "complete", "charge",
         "settle", "failing", "failCharge", "failSettle"},
   job : Jobs \cup {NoJob}, user : Users \cup {NoUser}, url : Urls \cup {NoUrl},
   paid : BOOLEAN]

Init ==
  /\ jobs = [j \in Jobs |-> NoRow]
  /\ ledger = [j \in Jobs |-> "none"]
  /\ usage = [j \in Jobs |-> 0]
  /\ recipes = Known /\ library = {} /\ closed = {} /\ access = {}
  /\ req = [h \in Handlers |-> IdleReq]
  /\ run = [w \in Workers |-> IdleRun]

-----------------------------------------------------------------------------
(* Queries and indexes *)

Active(j) == jobs[j].status \in {"pending", "processing"}

\* Faulty: a role that bypasses row level security.
VisibleToAll(u, j) == TRUE

\* extract_jobs_select / extract_jobs_update: the rows a user context reaches.
Visible(u, j) == jobs[j].owner = u \/ <<j, u>> \in access

VisibleActive(u, url) == {j \in Jobs : Active(j) /\ jobs[j].url = url /\ Visible(u, j)}

DeliveryJobs(u, d) == {j \in Jobs : d # NoDelivery /\ jobs[j].owner = u /\ jobs[j].delivery = d}

\* Faulty: the index covers pending rows only.
UrlPending(url, but) == \E j \in Jobs \ {but} : jobs[j].status = "pending" /\ jobs[j].url = url

\* extract_jobs_active_extract_norm_unique, seen by the index and not by RLS.
UrlTaken(url, but) == \E j \in Jobs \ {but} : Active(j) /\ jobs[j].url = url

Absent == {j \in Jobs : jobs[j].status = "absent"}
NextId == {j \in Absent : \A k \in Absent : j <= k}

Write(j, row) == jobs' = [jobs EXCEPT ![j] = row]

\* What create_job stores, and what the updates of the handlers make of a row.
NewRow(r, status) == [NoRow EXCEPT !.status = status, !.owner = r.user, !.url = r.url,
                                   !.delivery = r.delivery]
NewHit(r) == [NewRow(r, "completed") EXCEPT !.recipe = r.url, !.hit = TRUE]
Failed(row) == [row EXCEPT !.status = "failed", !.lease = "none", !.stale = FALSE,
                           !.exhausted = FALSE]
Refused(row) == [row EXCEPT !.status = "failed", !.stale = FALSE, !.exhausted = FALSE]

\* Faulty: settles without looking at the status of the row.
SettleAgain(j, status) == ledger' = [ledger EXCEPT ![j] = IF @ = "none" THEN @ ELSE status]

\* settle_api_spend: only a reservation is ever settled.
Settle(j, status) ==
  ledger' = [ledger EXCEPT ![j] = IF @ \in {"reserved", "overdue"} THEN status ELSE @]

\* Faulty: the plain insert, without the test of deleted_at.
SaveRecipeOfAnyone(u, url) == library' = library \cup {<<u, url>>}

\* save_user_recipe: nothing is written for a closed profile.
SaveUserRecipe(u, url) ==
  library' = IF u \in closed THEN library ELSE library \cup {<<u, url>>}

Become(h, r) == req' = [req EXCEPT ![h] = r]
Goto(h, pc) == Become(h, [req[h] EXCEPT !.pc = pc])
GotoWith(h, pc, j) == Become(h, [req[h] EXCEPT !.pc = pc, !.job = j])
Answer(h, j) == Become(h, [req[h] EXCEPT !.pc = "answered", !.job = j, !.next = "none"])
Finish(h) == Become(h, IdleReq)
Crash(h) == Become(h, [IdleReq EXCEPT !.pc = "crashed"])
At(h, pc) == req[h].pc = pc
Resting(h) == req[h].pc \in {"idle", "answered", "crashed"}

-----------------------------------------------------------------------------
(* POST /v1/extract.  A request that passed current_user for an open        *)
(* profile; the profile may be closed at any later step.                    *)

Submit(h, u, url, d) ==
  /\ Resting(h) /\ u \notin closed
  /\ Become(h, [IdleReq EXCEPT !.pc = IF d = NoDelivery THEN "cache" ELSE "delivery",
                               !.user = u, !.url = url, !.delivery = d])
  /\ UNCHANGED <<store, run>>

\* Faulty: the delivery id is known and its URL is not compared.
ReplayAnyUrl(h) ==
  /\ At(h, "delivery")
  /\ LET mine == DeliveryJobs(req[h].user, req[h].delivery) IN
     \/ mine = {} /\ Goto(h, "cache")
     \/ \E j \in mine : Answer(h, j)
  /\ UNCHANGED <<store, run>>

\* The delivery id is known: 409 for another URL, else the job it created;
\* the recipe of a finished cache hit is attached again.
DeliveryLookup(h) ==
  /\ At(h, "delivery")
  /\ LET r == req[h] mine == DeliveryJobs(r.user, r.delivery) IN
     \/ mine = {} /\ Goto(h, "cache")
     \/ \E j \in mine :
          IF jobs[j].url # r.url THEN Finish(h)
          ELSE IF jobs[j].status = "completed" /\ jobs[j].hit THEN GotoWith(h, "attach", j)
          ELSE Answer(h, j)
  /\ UNCHANGED <<store, run>>

CacheLookup(h) ==
  /\ At(h, "cache")
  /\ Goto(h, IF req[h].url \in recipes THEN "createHit" ELSE "active")
  /\ UNCHANGED <<store, run>>

\* create_job(status=completed, cache_hit=True): only the delivery index can refuse it.
CreateHit(h) ==
  /\ At(h, "createHit")
  /\ LET r == req[h] IN
     \/ /\ DeliveryJobs(r.user, r.delivery) # {}
        /\ Become(h, [r EXCEPT !.pc = "replay", !.next = "hit"])
        /\ UNCHANGED jobs
     \/ /\ DeliveryJobs(r.user, r.delivery) = {}
        /\ \E j \in NextId :
             /\ Write(j, NewHit(r))
             /\ GotoWith(h, "attach", j)
  /\ UNCHANGED <<ledger, usage, recipes, library, closed, access, run>>

\* _attach_recipe_or_retry, for a cache hit, a replayed hit or a poll.
Attach(h) ==
  /\ At(h, "attach")
  /\ SaveUserRecipe(req[h].user, req[h].url)
  /\ Answer(h, req[h].job)
  /\ UNCHANGED <<jobs, ledger, usage, recipes, closed, access, run>>

\* A job row was read as active: expire it if it was stale in that read, else share it.
JoinOrExpire(h, j, after) ==
  IF jobs[j].stale
  THEN /\ Become(h, [req[h] EXCEPT !.pc = "expire", !.job = j, !.next = after])
       /\ UNCHANGED access
  ELSE /\ access' = IF jobs[j].owner = req[h].user THEN access
                    ELSE access \cup {<<j, req[h].user>>}
       /\ Answer(h, j)

ActiveLookup(h) ==
  /\ At(h, "active")
  /\ LET seen == VisibleActive(req[h].user, req[h].url) IN
     \/ seen = {} /\ Goto(h, "create") /\ UNCHANGED access
     \/ \E j \in seen : JoinOrExpire(h, j, "create")
  /\ UNCHANGED <<jobs, ledger, usage, recipes, library, closed, run>>

\* _expire_stale_job writes without re-reading; RLS hides a row anonymised meanwhile.
ExpireJob(h) ==
  /\ At(h, "expire")
  /\ LET j == req[h].job IN
     IF Visible(req[h].user, j) THEN Write(j, Failed(jobs[j])) ELSE UNCHANGED jobs
  /\ Goto(h, "expireSettle")
  /\ UNCHANGED <<ledger, usage, recipes, library, closed, access, run>>

\* settle_spend swallows a database failure.
ExpireSettle(h) ==
  /\ At(h, "expireSettle")
  /\ Settle(req[h].job, "failed") \/ UNCHANGED ledger
  /\ CASE req[h].next = "crashed"  -> Crash(h)
       [] req[h].next = "answered" -> Answer(h, req[h].job)
       [] OTHER                    -> Goto(h, req[h].next)
  /\ UNCHANGED <<jobs, usage, recipes, library, closed, access, run>>

\* Rate limit, quota, queue limit, missing key: the request ends without a job.
\* Also the bound MaxJobs: nothing is inserted once every id is used.
RejectAdmission(h) ==
  /\ req[h].pc \in {"cache", "create"} \/ (At(h, "createHit") /\ NextId = {})
  /\ Finish(h)
  /\ UNCHANGED <<store, run>>

CreateJob(h) ==
  /\ At(h, "create")
  /\ LET r == req[h]
         conflict == UrlTaken(r.url, NoJob) \/ DeliveryJobs(r.user, r.delivery) # {}
     IN \/ /\ conflict
           /\ Become(h, [r EXCEPT !.pc = "replay", !.next = "extract"])
           /\ UNCHANGED jobs
        \/ /\ ~conflict
           /\ \E j \in NextId :
                /\ Write(j, NewRow(r, "pending"))
                /\ GotoWith(h, "reserve", j)
  /\ UNCHANGED <<ledger, usage, recipes, library, closed, access, run>>

\* create_job after UniqueViolation: the row of the same delivery id, ...
ReplayLookup(h) ==
  /\ At(h, "replay")
  /\ LET mine == DeliveryJobs(req[h].user, req[h].delivery) IN
     \/ mine = {} /\ Goto(h, "winner")
     \/ \E j \in mine :
          IF jobs[j].url # req[h].url THEN Finish(h) ELSE Answer(h, j)
  /\ UNCHANGED <<store, run>>

\* ... else the active job, which the caller goes on with as its own, else re-raise.
WinnerLookup(h) ==
  /\ At(h, "winner")
  /\ LET seen == VisibleActive(req[h].user, req[h].url)
         hit == req[h].next = "hit"
     IN \/ seen = {} /\ IF hit THEN Crash(h) ELSE Goto(h, "recover")
        \/ \E j \in seen : GotoWith(h, IF hit THEN "attach" ELSE "reserve", j)
  /\ UNCHANGED <<store, run>>

\* A statement of create_job raises something else: the except branch takes over.
CreateRaises(h) ==
  /\ At(h, "create") \/ (req[h].pc \in {"replay", "winner"} /\ req[h].next = "extract")
  /\ Goto(h, "recover")
  /\ UNCHANGED <<store, run>>

\* The handler's except branch looks for an active job once more, else HTTP 500.
RecoverLookup(h) ==
  /\ At(h, "recover")
  /\ LET seen == VisibleActive(req[h].user, req[h].url) IN
     \/ seen = {} /\ Crash(h) /\ UNCHANGED access
     \/ \E j \in seen : JoinOrExpire(h, j, "crashed")
  /\ UNCHANGED <<jobs, ledger, usage, recipes, library, closed, run>>

\* reserve_api_spend: release reservations over two hours old, then reserve once
\* per job.  Whether the budgets allow it is left open here (module SpendLedger
\* of the plan), as is the database being unavailable.
Swept == [k \in Jobs |-> IF ledger[k] = "overdue" THEN "failed" ELSE ledger[k]]

Reserve(h) ==
  /\ At(h, "reserve")
  /\ LET j == req[h].job IN
     \/ Swept[j] = "none" /\ ledger' = [Swept EXCEPT ![j] = "reserved"] /\ Answer(h, req[h].job)
     \/ Swept[j] # "none" /\ ledger' = Swept /\ Answer(h, req[h].job)
     \/ Swept[j] = "none" /\ ledger' = Swept /\ Goto(h, "refuse")
     \/ UNCHANGED ledger /\ Goto(h, "refuse")
  /\ UNCHANGED <<jobs, usage, recipes, library, closed, access, run>>

\* The reservation was refused: update_job(status=failed), whoever works on the job.
RefuseJob(h) ==
  /\ At(h, "refuse")
  /\ LET j == req[h].job IN
     IF Visible(req[h].user, j) THEN Write(j, Refused(jobs[j])) ELSE UNCHANGED jobs
  /\ Finish(h)
  /\ UNCHANGED <<ledger, usage, recipes, library, closed, access, run>>

\* The API process dies, or a statement fails, in the middle of a request.
RequestDies(h) ==
  /\ ~Resting(h)
  /\ Finish(h)
  /\ UNCHANGED <<store, run>>

-----------------------------------------------------------------------------
(* GET /v1/jobs/{id} *)

Poll(h, u, j) ==
  /\ Resting(h) /\ u \notin closed
  /\ jobs[j].status # "absent" /\ Visible(u, j)
  /\ LET after == IF jobs[j].recipe = NoUrl THEN "answered" ELSE "attach"
         expire == Active(j) /\ jobs[j].stale
     IN Become(h, [IdleReq EXCEPT !.pc = IF expire THEN "expire" ELSE after, !.next = after,
                                  !.user = u, !.url = jobs[j].recipe, !.job = j])
  /\ UNCHANGED <<store, run>>

-----------------------------------------------------------------------------
(* app.worker: claim_next_extract_job, then app.pipeline.run_extract_job *)

\* Faulty: the sweep forgets the jobs a dead worker left in processing.
DeadPending == {j \in Jobs : /\ jobs[j].status = "pending" /\ jobs[j].attempts >= MaxAttempts
                             /\ jobs[j].lease # "held"}

\* Active jobs out of attempts whose lease has run out.
Dead == {j \in Jobs : Active(j) /\ jobs[j].attempts >= MaxAttempts /\ jobs[j].lease # "held"}

\* Faulty: a job is claimed however often it was tried.
ClaimableForEver == {j \in Jobs : Active(j) /\ (jobs[j].status = "pending" \/ jobs[j].lease # "held")}

Claimable ==
  {j \in Jobs : /\ Active(j) /\ jobs[j].attempts < MaxAttempts
                /\ jobs[j].status = "pending" \/ jobs[j].lease # "held"}

Exhaust(row) == [row EXCEPT !.status = "failed", !.exhausted = TRUE, !.lease = "none",
                            !.stale = FALSE]

\* Faulty: the claim does not count the attempt.
ClaimUncounted(row) == [row EXCEPT !.status = "processing", !.lease = "held",
                                   !.exhausted = FALSE, !.stale = FALSE]

Claim(row) == [row EXCEPT !.status = "processing", !.attempts = @ + 1, !.lease = "held",
                          !.exhausted = FALSE, !.stale = FALSE]

\* The first two statements of the function: fail what is exhausted, free what it reserved.
ExhaustedRows == [j \in Jobs |-> IF j \in Dead THEN Exhaust(jobs[j]) ELSE jobs[j]]

\* Faulty: the jobs are failed and their reservations kept.
KeepReservations == UNCHANGED ledger

ReleaseExhausted ==
  ledger' = [j \in Jobs |->
               IF /\ ledger[j] \in {"reserved", "overdue"}
                  /\ ExhaustedRows[j].status = "failed" /\ ExhaustedRows[j].exhausted
               THEN "failed" ELSE ledger[j]]

RunAt(w, pc) == run[w].pc = pc
RunBecomes(w, r) == run' = [run EXCEPT ![w] = r]
RunTo(w, pc) == RunBecomes(w, [run[w] EXCEPT !.pc = pc])
RunEnd(w) == RunBecomes(w, IdleRun)

\* Oldest claimable job.  A row anonymised by account deletion has no user_id: the
\* worker raises on it and it stays processing until its lease runs out.
ClaimJob(w) ==
  /\ RunAt(w, "idle")
  /\ \E j \in Claimable :
       /\ \A k \in Claimable : j <= k
       /\ jobs' = [ExhaustedRows EXCEPT ![j] = Claim(jobs[j])]
       /\ IF jobs[j].owner = NoUser THEN UNCHANGED run
          ELSE RunBecomes(w, [pc |-> "claimed", job |-> j, user |-> jobs[j].owner,
                              url |-> jobs[j].url, paid |-> FALSE])
  /\ ReleaseExhausted
  /\ UNCHANGED <<usage, recipes, library, closed, access, req>>

ClaimNothing(w) ==
  /\ RunAt(w, "idle") /\ Claimable = {}
  /\ jobs' = ExhaustedRows
  /\ ReleaseExhausted
  /\ UNCHANGED <<usage, recipes, library, closed, access, req, run>>

\* update_job(status=processing): no check that the job is still active or still
\* this run's; only the unique index can refuse it.
RunStart(w) ==
  /\ RunAt(w, "claimed")
  /\ LET j == run[w].job IN
     IF jobs[j].url # NoUrl /\ UrlTaken(jobs[j].url, j)
     THEN RunTo(w, "failing") /\ UNCHANGED jobs
     ELSE /\ Write(j, [jobs[j] EXCEPT !.status = "processing", !.stale = FALSE])
          /\ RunTo(w, "extract")
  /\ UNCHANGED <<ledger, usage, recipes, library, closed, access, req>>

\* The whole extraction cascade, with its progress updates: a recipe, or an error
\* before or after OpenAI was called.
RunExtract(w) ==
  /\ RunAt(w, "extract")
  /\ \E pc \in {"upsert", "failing"}, paid \in BOOLEAN :
       /\ pc = "upsert" => paid
       /\ RunBecomes(w, [run[w] EXCEPT !.pc = pc, !.paid = paid])
  /\ LET j == run[w].job IN Write(j, [jobs[j] EXCEPT !.stale = FALSE])
  /\ UNCHANGED <<ledger, usage, recipes, library, closed, access, req>>

\* Faulty: a failed write of the recipe is swallowed.
RunUpsertMayFail(w) ==
  /\ RunAt(w, "upsert")
  /\ recipes' \in {recipes, recipes \cup {run[w].url}}
  /\ RunTo(w, "attach")
  /\ UNCHANGED <<jobs, ledger, usage, library, closed, access, req>>

RunUpsert(w) ==
  /\ RunAt(w, "upsert")
  /\ recipes' = recipes \cup {run[w].url}
  /\ RunTo(w, "attach")
  /\ UNCHANGED <<jobs, ledger, usage, library, closed, access, req>>

RunAttach(w) ==
  /\ RunAt(w, "attach")
  /\ SaveUserRecipe(run[w].user, run[w].url)
  /\ RunTo(w, "complete")
  /\ UNCHANGED <<jobs, ledger, usage, recipes, closed, access, req>>

RunComplete(w) ==
  /\ RunAt(w, "complete")
  /\ LET j == run[w].job IN
     Write(j, [jobs[j] EXCEPT !.status = "completed", !.lease = "none", !.stale = FALSE,
                              !.recipe = run[w].url, !.hit = FALSE])
  /\ RunTo(w, "charge")
  /\ UNCHANGED <<ledger, usage, recipes, library, closed, access, req>>

\* _mark_job_failed; a failing write is swallowed.
RunFail(w) ==
  /\ RunAt(w, "failing")
  /\ LET j == run[w].job IN Write(j, Failed(jobs[j])) \/ UNCHANGED jobs
  /\ RunTo(w, IF run[w].paid THEN "failCharge" ELSE "failSettle")
  /\ UNCHANGED <<ledger, usage, recipes, library, closed, access, req>>

\* record_usage(extract_miss), of a finished job and of a failed one that cost money.
RunCharge(w) ==
  /\ run[w].pc \in {"charge", "failCharge"}
  /\ usage' = [usage EXCEPT ![run[w].job] = @ + 1] \/ UNCHANGED usage
  /\ RunTo(w, IF RunAt(w, "charge") THEN "settle" ELSE "failSettle")
  /\ UNCHANGED <<jobs, ledger, recipes, library, closed, access, req>>

RunSettle(w) ==
  /\ run[w].pc \in {"settle", "failSettle"}
  /\ \/ Settle(run[w].job, IF RunAt(w, "settle") THEN "settled" ELSE "failed")
     \/ UNCHANGED ledger
  /\ RunEnd(w)
  /\ UNCHANGED <<jobs, usage, recipes, library, closed, access, req>>

\* A statement of the run raises: the except branch takes over.
RunBreaks(w) ==
  /\ run[w].pc \in {"claimed", "extract", "upsert", "attach", "complete"}
  /\ RunTo(w, "failing")
  /\ UNCHANGED <<store, req>>

\* The worker is killed or restarted: nothing of the run survives but the store.
RunDies(w) ==
  /\ run[w].pc # "idle"
  /\ RunEnd(w)
  /\ UNCHANGED <<store, req>>

-----------------------------------------------------------------------------
(* Accounts and time *)

Anonymised(j) ==
  [jobs[j] EXCEPT !.owner = NoUser, !.url = NoUrl, !.lease = "none", !.stale = FALSE,
                  !.exhausted = FALSE, !.status = IF Active(j) THEN "failed" ELSE @]

\* delete_account_data, one transaction; allowed again on a closed profile.
DeleteAccount(u) ==
  /\ closed' = closed \cup {u}
  /\ library' = {s \in library : s[1] # u}
  /\ access' = {a \in access : a[2] # u}
  /\ jobs' = [j \in Jobs |-> IF jobs[j].owner = u THEN Anonymised(j) ELSE jobs[j]]
  /\ UNCHANGED <<ledger, usage, recipes, req, run>>

\* Signing in again with the same Apple ID reopens the same profile.
Reactivate(u) ==
  /\ u \in closed
  /\ closed' = closed \ {u}
  /\ UNCHANGED <<jobs, ledger, usage, recipes, library, access, req, run>>

\* worker_lease_seconds pass since the claim.
LeaseExpires(j) ==
  /\ jobs[j].lease = "held"
  /\ SlowRuns \/ \A w \in Workers : run[w].job # j
  /\ Write(j, [jobs[j] EXCEPT !.lease = "expired"])
  /\ UNCHANGED <<ledger, usage, recipes, library, closed, access, req, run>>

\* job_ttl_seconds pass since the last write; the claim is a write and a lease is
\* shorter (at most 1800 s against 3600 s), so a lease has run out before.
JobGoesStale(j) ==
  /\ Active(j) /\ ~jobs[j].stale /\ jobs[j].lease # "held"
  /\ Write(j, [jobs[j] EXCEPT !.stale = TRUE])
  /\ UNCHANGED <<ledger, usage, recipes, library, closed, access, req, run>>

\* Two hours pass since the reservation.
ReservationAges(j) ==
  /\ ledger[j] = "reserved"
  /\ ledger' = [ledger EXCEPT ![j] = "overdue"]
  /\ UNCHANGED <<jobs, usage, recipes, library, closed, access, req, run>>

-----------------------------------------------------------------------------
RequestStep(h) ==
  \/ DeliveryLookup(h) \/ CacheLookup(h) \/ CreateHit(h) \/ Attach(h) \/ ActiveLookup(h)
  \/ ExpireJob(h) \/ ExpireSettle(h) \/ RejectAdmission(h) \/ CreateJob(h)
  \/ ReplayLookup(h) \/ WinnerLookup(h) \/ CreateRaises(h) \/ RecoverLookup(h) \/ Reserve(h)
  \/ RefuseJob(h)

ClaimNext(w) == ClaimJob(w) \/ ClaimNothing(w)

RunStep(w) ==
  \/ RunStart(w) \/ RunExtract(w) \/ RunUpsert(w) \/ RunAttach(w) \/ RunComplete(w)
  \/ RunFail(w) \/ RunCharge(w) \/ RunSettle(w) \/ RunBreaks(w)

Next ==
  \/ \E h \in Handlers :
       \/ \E u \in Users, url \in Urls, d \in Deliveries \cup {NoDelivery} : Submit(h, u, url, d)
       \/ \E u \in Users, j \in Jobs : Poll(h, u, j)
       \/ RequestStep(h) \/ RequestDies(h)
  \/ \E w \in Workers : ClaimNext(w) \/ RunStep(w) \/ RunDies(w)
  \/ \E u \in Users : DeleteAccount(u) \/ Reactivate(u)
  \/ \E j \in Jobs : LeaseExpires(j) \/ JobGoesStale(j) \/ ReservationAges(j)

Spec == Init /\ [][Next]_vars

\* main() of the worker polls for ever and catches every exception, its container is
\* restarted unless stopped, a started run goes on to its end, and leases run out.
Fairness ==
  /\ \A w \in Workers : WF_vars(ClaimNext(w)) /\ WF_vars(RunStep(w))
  /\ \A j \in Jobs : WF_vars(LeaseExpires(j))

FairSpec == Spec /\ Fairness

-----------------------------------------------------------------------------
(* Properties *)

TypeOK ==
  /\ jobs \in [Jobs -> JobRows]
  /\ ledger \in [Jobs -> LedgerStatus]
  /\ usage \in [Jobs -> Nat]
  /\ recipes \subseteq Urls
  /\ library \subseteq Users \X Urls
  /\ closed \subseteq Users
  /\ access \subseteq Jobs \X Users
  /\ req \in [Handlers -> Requests]
  /\ run \in [Workers -> Runs]

\* At most one import of a URL is pending or processing, although a worker that lost
\* its lease, or whose job was expired or refused, sets its job back to processing.
OneActiveJobPerUrl ==
  \A j, k \in Jobs :
    Active(j) /\ Active(k) /\ jobs[j].url = jobs[k].url /\ jobs[j].url # NoUrl => j = k

\* A completed job names a recipe that exists, so a poll can always show it.
CompletedHasRecipe ==
  \A j \in Jobs : jobs[j].status = "completed" => jobs[j].recipe \in recipes

\* A closed account keeps an empty library although workers that claimed its jobs
\* before the deletion, and requests that were past authentication, go on attaching.
ClosedLibraryEmpty == \A s \in library : s[1] \notin closed

\* A request only ever names, expires or fails a job of its own user (or one
\* anonymised since): what it answers can be polled, and no refused reservation
\* or stale read touches another user's import.
RequestsKeepToOwnJobs ==
  \A h \in Handlers :
    req[h].job # NoJob => jobs[req[h].job].owner \in {req[h].user, NoUser}

\* A request is never answered with an import of another URL, whether it replays a
\* delivery id, joins an active import or loses a race for the unique index.
RequestsKeepToTheirUrl ==
  \A h \in Handlers :
    req[h].job # NoJob /\ req[h].url # NoUrl
      => jobs[req[h].job].url \in {req[h].url, NoUrl}

\* However often a job is claimed, lost and claimed again, it is charged to the
\* quota at most once per attempt.
ChargesBoundedByAttempts == \A j \in Jobs : usage[j] <= jobs[j].attempts

\* Settling is final: a worker that comes late, a second expiry, the exhaustion
\* sweep or a new reservation never rewrites a ledger row that is closed.
LedgerRowsAreFinal ==
  [][\A j \in Jobs : ledger[j] \in {"settled", "failed"} => ledger'[j] = ledger[j]]_vars

\* A job always reaches completed or failed, whatever workers die.
EveryJobEnds == \A j \in Jobs : Active(j) ~> ~Active(j)

\* What an exhausted job holds reserved is released, also when the request that
\* inserted it reserves after the job was given up.
ExhaustedJobsAreReleased ==
  \A j \in Jobs :
    LET held == jobs[j].exhausted /\ jobs[j].status = "failed" /\ ledger[j] \in {"reserved", "overdue"}
    IN held ~> ~held
=============================================================================
