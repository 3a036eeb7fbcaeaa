--------------------------- MODULE InProcessQueue ----------------------------
(***************************************************************************)
(* Imports without a worker (WORKER_ENABLED=false): POST /v1/extract starts  *)
(* a background task if it can claim a slot of app.job_guard, otherwise it   *)
(* leaves the job pending, and every task that ends drains the queue: first  *)
(* the oldest job of its user, else the oldest of anyone (app.pipeline).     *)
(* Translations share the slots but do not drain.  A process dies and comes  *)
(* back with all slots free; the jobs stay in the database as they were.     *)
(*                                                                         *)
(* A task that drained goes on with the job it drained, so a task is a loop. *)
(***************************************************************************)
EXTENDS Integers, FiniteSets

CONSTANTS
  Users, NoUser, Urls,
  Requests, Tasks,   \* handlers and background tasks, bounds
  MaxJobs,           \* bound: jobs ever created; a job's number is its age
  MaxConcurrent, MaxPerUser, \* max_concurrent_jobs, max_concurrent_jobs_per_user
  MaxOpen,           \* max_pending_jobs_per_user
  DatabaseFails,     \* TRUE if a statement of the drain may raise
  Restarts,          \* TRUE if the process may die
  Translators,       \* users who ask for translations
  OneRequestPerUser  \* TRUE if no user has two requests at one time

ASSUME QueueAssumption ==
  /\ NoUser \notin Users /\ Translators \subseteq Users
  /\ {MaxJobs, MaxConcurrent, MaxPerUser, MaxOpen} \subseteq Nat \ {0}
  /\ {DatabaseFails, Restarts, OneRequestPerUser} \subseteq BOOLEAN

VARIABLES
  job,      \* extract_jobs
  active,   \* _user_active; _global_active is kept beside it
  global,
  request,  \* handlers of POST /v1/extract
  task,     \* background tasks: the job they run or the user whose end they drain
  translating, \* users with a translation task, which holds a slot
  lost      \* history: slots of each user whose drain raised before giving them back

vars == <<job, active, global, request, task, translating, lost>>

Ids == 1..MaxJobs
NoJob == 0
Absent == [status |-> "absent", owner |-> NoUser, url |-> << >>]
Idle == [pc |-> "idle", user |-> NoUser, url |-> << >>, open |-> 0, claimed |-> FALSE, job |-> NoJob]
Asleep == [pc |-> "idle", user |-> NoUser, job |-> NoJob]

Init ==
  /\ job = [j \in Ids |-> Absent]
  /\ active = [u \in Users |-> 0] /\ global = 0
  /\ request = [r \in Requests |-> Idle]
  /\ task = [t \in Tasks |-> Asleep]
  /\ translating = {} /\ lost = [u \in Users |-> 0]

Open(u) == {j \in Ids : job[j].owner = u /\ job[j].status \in {"pending", "processing"}}
Pending(us) == {j \in Ids : job[j].owner \in us /\ job[j].status = "pending"}
Mark(j, status) == job' = [job EXCEPT ![j].status = status]
Take(r, rec) == request' = [request EXCEPT ![r] = rec]
Become(t, pc, u, j) == task' = [task EXCEPT ![t] = [pc |-> pc, user |-> u, job |-> j]]

(***************************************************************************)
(* app.job_guard                                                            *)
(***************************************************************************)
\* Faulty: the limit per user is not looked at.
FreeForAnyone(u) == global < MaxConcurrent

SlotFree(u) == global < MaxConcurrent /\ active[u] < MaxPerUser

Claim(u) == active' = [active EXCEPT ![u] = @ + 1] /\ global' = global + 1
Less(n) == IF n = 0 THEN 0 ELSE n - 1
Release(u) == active' = [active EXCEPT ![u] = Less(@)] /\ global' = Less(global)
SlotsSame == UNCHANGED <<active, global>>

(***************************************************************************)
(* POST /v1/extract after the cache and the active job were looked up.      *)
(***************************************************************************)
\* No active job for the URL; the limit of open jobs; then a slot if none is open.
Ask(r, u, url) ==
  /\ request[r].pc = "idle"
  /\ OneRequestPerUser => \A q \in Requests : request[q].user # u
  /\ ~ \E j \in Open(u) : job[j].url = url
  /\ Cardinality(Open(u)) < MaxOpen
  /\ Take(r, [Idle EXCEPT !.pc = "claim", !.user = u, !.url = url, !.open = Cardinality(Open(u))])
  /\ SlotsSame /\ UNCHANGED <<job, task, translating, lost>>

TryClaim(r) ==
  LET u == request[r].user IN
  /\ request[r].pc = "claim"
  /\ IF request[r].open = 0 /\ SlotFree(u)
     THEN Claim(u) /\ Take(r, [request[r] EXCEPT !.pc = "create", !.claimed = TRUE])
     ELSE SlotsSame /\ Take(r, [request[r] EXCEPT !.pc = "create"])
  /\ UNCHANGED <<job, task, translating, lost>>

\* create_job inserts, or returns the active job of the URL that another request made.
Create(r) ==
  LET u == request[r].user
      winners == {j \in Open(u) : job[j].url = request[r].url}
  IN
  /\ request[r].pc = "create"
  /\ \/ /\ winners = {}
        /\ \E j \in Ids :
             /\ job[j].status = "absent" /\ \A i \in Ids : job[i].status = "absent" => j <= i
             /\ job' = [job EXCEPT ![j] = [status |-> "pending", owner |-> u, url |-> request[r].url]]
             /\ Take(r, [request[r] EXCEPT !.pc = "reserve", !.job = j])
     \/ \E j \in winners : UNCHANGED job /\ Take(r, [request[r] EXCEPT !.pc = "reserve", !.job = j])
  /\ SlotsSame /\ UNCHANGED <<task, translating, lost>>

\* Faulty: a handler that gives up keeps its slot.
GiveUpSlot(r) == SlotsSame

\* Faulty: a handler gives back a slot whether or not it had one.
GiveBackAnySlot(r) == Release(request[r].user)

\* Both except branches release before anything that may fail again.
GiveBackSlot(r) == IF request[r].claimed THEN Release(request[r].user) ELSE SlotsSame

\* create_job raises, or its delivery was already used, or reserve_spend refuses; then
\* the job it was refused for has failed.
Refuse(r) ==
  /\ request[r].pc \in {"create", "reserve"}
  /\ GiveBackSlot(r)
  /\ IF request[r].pc = "reserve" THEN Mark(request[r].job, "failed") ELSE UNCHANGED job
  /\ Take(r, Idle) /\ UNCHANGED <<task, translating, lost>>

\* reserve_spend succeeds (also for a job that is reserved already) and the answer
\* starts the background task, if a slot was claimed.
Answer(r) ==
  /\ request[r].pc = "reserve"
  /\ IF request[r].claimed
     THEN \E t \in Tasks : task[t].pc = "idle" /\ Become(t, "run", request[r].user, request[r].job)
     ELSE UNCHANGED task
  /\ Take(r, Idle) /\ SlotsSame /\ UNCHANGED <<job, translating, lost>>

(***************************************************************************)
(* A background task: run_extract_job and its finally clause.               *)
(***************************************************************************)
Begin(t) ==
  /\ task[t].pc = "run"
  /\ Mark(task[t].job, "processing") /\ Become(t, "running", task[t].user, task[t].job)
  /\ SlotsSame /\ UNCHANGED <<request, translating, lost>>

\* The run ends and marks its job, which _mark_job_failed may fail to do.
Finish(t, status) ==
  /\ task[t].pc = "running" /\ (status = "processing" => DatabaseFails)
  /\ Mark(task[t].job, status) /\ Become(t, "finally", task[t].user, NoJob)
  /\ SlotsSame /\ UNCHANGED <<request, translating, lost>>

Finally(t) ==
  /\ task[t].pc = "finally"
  /\ Release(task[t].user) /\ Become(t, "drain", task[t].user, NoJob)
  /\ UNCHANGED <<job, request, translating, lost>>

\* _drain_next_extract_for_user: a slot for the same user first.
DrainClaim(t) ==
  /\ task[t].pc = "drain"
  /\ IF SlotFree(task[t].user)
     THEN Claim(task[t].user) /\ Become(t, "own", task[t].user, NoJob)
     ELSE SlotsSame /\ Become(t, "any", task[t].user, NoJob)
  /\ UNCHANGED <<job, request, translating, lost>>

Oldest(ids) == {j \in ids : \A i \in ids : j <= i}

\* Faulty: only the other users' jobs are looked for.
DrainOwnForgets(t) ==
  /\ task[t].pc = "own" /\ Release(task[t].user) /\ Become(t, "idle", NoUser, NoJob)
  /\ UNCHANGED <<job, request, translating, lost>>

DrainOwn(t) ==
  LET mine == Pending({task[t].user}) IN
  /\ task[t].pc = "own"
  /\ \/ \E j \in Oldest(mine) :
          Mark(j, "processing") /\ Become(t, "run", task[t].user, j) /\ SlotsSame
     \/ /\ mine = {}
        /\ UNCHANGED job /\ Release(task[t].user) /\ Become(t, "any", task[t].user, NoJob)
  /\ UNCHANGED <<request, translating, lost>>

DrainAny(t) ==
  LET all == Pending(Users) IN
  /\ task[t].pc = "any"
  /\ \/ \E j \in Oldest(all) : Mark(j, "processing") /\ Become(t, "owner", job[j].owner, j)
     \/ all = {} /\ UNCHANGED job /\ Become(t, "idle", NoUser, NoJob)
  /\ SlotsSame /\ UNCHANGED <<request, translating, lost>>

\* Without a slot for its owner the job is put back.
DrainOwner(t) ==
  /\ task[t].pc = "owner"
  /\ IF SlotFree(task[t].user)
     THEN Claim(task[t].user) /\ UNCHANGED job /\ Become(t, "run", task[t].user, task[t].job)
     ELSE SlotsSame /\ Mark(task[t].job, "pending") /\ Become(t, "idle", NoUser, NoJob)
  /\ UNCHANGED <<request, translating, lost>>

\* A statement of the drain raises: the task ends, with whatever it had claimed.
DrainRaises(t) ==
  /\ DatabaseFails
  /\ task[t].pc \in {"own", "any"} \/ (task[t].pc = "owner" /\ ~SlotFree(task[t].user))
  /\ lost' = IF task[t].pc = "own" THEN [lost EXCEPT ![task[t].user] = @ + 1] ELSE lost
  /\ Become(t, "idle", NoUser, NoJob)
  /\ SlotsSame /\ UNCHANGED <<job, request, translating>>

(***************************************************************************)
(* Translations, staleness, restarts.                                       *)
(***************************************************************************)
\* job_guard.claim (HTTP 429 without a slot); run_translation_job releases, drains not.
Translate(u) ==
  /\ u \in Translators \ translating /\ SlotFree(u)
  /\ Claim(u) /\ translating' = translating \cup {u}
  /\ UNCHANGED <<job, request, task, lost>>

TranslationEnds(u) ==
  /\ u \in translating
  /\ Release(u) /\ translating' = translating \ {u}
  /\ UNCHANGED <<job, request, task, lost>>

\* _expire_stale_job, when somebody asks for a job nothing has touched for an hour.
Expire(j) ==
  /\ job[j].status \in {"pending", "processing"} /\ \A t \in Tasks : task[t].job # j
  /\ \A r \in Requests : request[r].job # j
  /\ Mark(j, "failed") /\ SlotsSame /\ UNCHANGED <<request, task, translating, lost>>

Restart ==
  /\ Restarts
  /\ active' = [u \in Users |-> 0] /\ global' = 0 /\ translating' = {} /\ lost' = active'
  /\ request' = [r \in Requests |-> Idle] /\ task' = [t \in Tasks |-> Asleep]
  /\ UNCHANGED job

TaskStep(t) ==
  \/ Begin(t) \/ (\E s \in {"completed", "failed", "processing"} : Finish(t, s)) \/ Finally(t)
  \/ DrainClaim(t) \/ DrainOwn(t) \/ DrainAny(t) \/ DrainOwner(t) \/ DrainRaises(t)

Next ==
  \/ \E r \in Requests :
       (\E u \in Users, url \in Urls : Ask(r, u, url)) \/ TryClaim(r) \/ Create(r) \/ Refuse(r) \/ Answer(r)
  \/ \E t \in Tasks : TaskStep(t)
  \/ \E u \in Users : Translate(u) \/ TranslationEnds(u)
  \/ \E j \in Ids : Expire(j)
  \/ Restart

Spec == Init /\ [][Next]_vars

\* The threads of a running process go on; requests need not come or be answered.
FairSpec == Spec /\ \A t \in Tasks : WF_vars(TaskStep(t))

(***************************************************************************)
(* Properties.                                                              *)
(***************************************************************************)
\* Who keeps a slot of the users us taken: their tasks, requests and translations, and
\* the drains that raised with one.
TasksOf(us) == {t \in Tasks : task[t].user \in us /\ task[t].pc \in {"run", "running", "finally", "own"}}
RequestsOf(us) == {r \in Requests : request[r].user \in us /\ request[r].claimed}
LostOf(us) == UNION {{u} \X (1..lost[u]) : u \in us}
Held(us) ==
  ({"task"} \X TasksOf(us)) \cup ({"request"} \X RequestsOf(us))
  \cup ({"translation"} \X (translating \cap us)) \cup ({"lost"} \X LostOf(us))

\* Values keep their types and stay within the limits of app.job_guard.
TypeOK ==
  /\ job \in [Ids -> [status : {"absent", "pending", "processing", "completed", "failed"},
                      owner : Users \cup {NoUser}, url : Urls \cup {<< >>}]]
  /\ active \in [Users -> 0..MaxPerUser] /\ global \in 0..MaxConcurrent
  /\ request \in [Requests -> [pc : {"idle", "claim", "create", "reserve"},
                               user : Users \cup {NoUser}, url : Urls \cup {<< >>},
                               open : 0..MaxOpen, claimed : BOOLEAN, job : 0..MaxJobs]]
  /\ task \in [Tasks -> [pc : {"idle", "run", "running", "finally", "drain", "own", "any", "owner"},
                         user : Users \cup {NoUser}, job : 0..MaxJobs]]
  /\ translating \subseteq Users /\ lost \in [Users -> 0..MaxPerUser]

\* No slot is given back twice, nor lost over claims in handlers, background tasks and the
\* drain (app/job_guard.py:39) but by a drain that raises after it claimed one: the two
\* counters count exactly who holds a slot and those.
SlotsMatchHolders ==
  /\ \A u \in Users : active[u] = Cardinality(Held({u}))
  /\ global = Cardinality(Held(Users))

\* An import that waits behind a running one of its user is started when that one ends
\* (app/pipeline.py:498, 562-573): nobody loses it while the global limit is far, requests
\* of one user do not overlap and nothing raises or dies.
WaitingImportIsStarted ==
  \A j \in Ids :
    (job[j].status = "pending" /\ \E t \in Tasks : task[t].pc = "running" /\ task[t].user = job[j].owner)
      ~> job[j].status \in {"completed", "failed"} \/ \E t \in Tasks : task[t] = [pc |-> "running", user |-> job[j].owner, job |-> j]

\* app/main.py:1070: "Serial per user: start now only when this user has no open extract
\* yet."
SerialPerUser ==
  \A s, t \in Tasks :
    task[s].pc = "running" /\ task[t].pc = "running" /\ task[s].user = task[t].user => s = t

\* app/main.py:1146: "Left pending: drain starts it after the user's current extract
\* finishes." - an answered job does not stay behind with nobody left to drain it.
PendingIsDrained ==
  \A j \in Pending(Users) :
    \/ \E r \in Requests : request[r].job = j
    \/ \E t \in Tasks : task[t].pc # "idle"
=============================================================================
