--------------------------- MODULE TranslationJobs ---------------------------
(***************************************************************************)
(* Translations of one imported recipe, made by background tasks of the API  *)
(* process (WORKER_ENABLED=false, the default): _ensure_translation_job and  *)
(* get_job_status in app/main.py, _run_translation_job in app/pipeline.py,   *)
(* app/translation_cache.py.                                                 *)
(*                                                                         *)
(* A version stands for the content of the recipe, and for its fingerprint.  *)
(* Requests run under the row level security of their user, tasks as the     *)
(* service.  Delivery ids, the library and the expiry statement by statement *)
(* are in ExtractJobs, the global limit of slots is in InProcessQueue.       *)
(***************************************************************************)
EXTENDS Naturals, FiniteSets

CONSTANTS
  Users, Languages, Requests, Tasks,
  NoUser,       \* stands for no user
  Base,         \* the language the recipe was imported in
  MaxPerUser,   \* max_concurrent_jobs_per_user
  MaxJobs, MaxVersions \* bounds: jobs created, contents the recipe takes

TranslationAssumption ==
  /\ NoUser \notin Users /\ Base \in Languages
  /\ {MaxPerUser, MaxJobs, MaxVersions} \subseteq Nat \ {0}

VARIABLES
  recipe,       \* content and language of the row in recipes
  translation,  \* recipe_translations: what was translated, and its source_fingerprint
  job,          \* extract_jobs of kind translation
  ledger,       \* status of the reservation of each job
  slots,        \* app.job_guard: slots of each user
  request,      \* POST /v1/extract and GET /v1/jobs/{id}
  task,         \* run_translation_job
  made          \* history: how often a content was translated (two stands for more)

vars == <<recipe, translation, job, ledger, slots, request, task, made>>

Ids == 1..MaxJobs
NoJob == 0
None == 0
Versions == 1..MaxVersions
NoTranslation == [text |-> None, fingerprint |-> None]
Absent == [status |-> "absent", owner |-> NoUser, lang |-> Base, stale |-> FALSE]
Idle == [pc |-> "idle", user |-> NoUser, lang |-> Base, poll |-> FALSE, claimed |-> FALSE,
         job |-> NoJob, answer |-> "none"]
Asleep == [pc |-> "idle", user |-> NoUser, job |-> NoJob, seen |-> None, called |-> FALSE]

Init ==
  /\ recipe = [version |-> 1, lang |-> Base]
  /\ translation = [l \in Languages |-> NoTranslation]
  /\ job = [j \in Ids |-> Absent] /\ ledger = [j \in Ids |-> "none"]
  /\ slots = [u \in Users |-> 0]
  /\ request = [r \in Requests |-> Idle] /\ task = [t \in Tasks |-> Asleep]
  /\ made = [l \in Languages |-> [v \in Versions |-> 0]]

Active(j) == job[j].status \in {"pending", "processing"}
Goto(r, pc) == request' = [request EXCEPT ![r].pc = pc]
\* The answer that ends a request; a claimed slot goes on with a task, or was released.
Reply(r, answer) ==
  request' = [request EXCEPT ![r] = [Idle EXCEPT !.poll = request[r].poll, !.answer = answer]]
Release(u) == slots' = [slots EXCEPT ![u] = IF @ = 0 THEN 0 ELSE @ - 1]
Become(t, pc) == task' = [task EXCEPT ![t].pc = pc]
Settled(j, status) == IF ledger[j] = "reserved" THEN [ledger EXCEPT ![j] = status] ELSE ledger

(***************************************************************************)
(* What a reader is shown.                                                  *)
(***************************************************************************)
\* Faulty: a translation is shown whatever it was made from.
FoundForAny(l) == translation[l].text # None

\* get_recipe_translation: only of the content the recipe has now.
Found(l) == translation[l].fingerprint = recipe.version

\* localized_recipe_row returns a row.
Localized(l) == recipe.lang = l \/ Found(l)

(***************************************************************************)
(* A request for the recipe in a language.                                  *)
(***************************************************************************)
\* POST /v1/extract of the imported URL, or a poll of the completed import.
Ask(r, u, l, poll) ==
  /\ request[r].pc = "idle" /\ (poll => l # Base)
  /\ request' = [request EXCEPT ![r] =
                   [Idle EXCEPT !.pc = "lookup", !.user = u, !.lang = l, !.poll = poll]]
  /\ UNCHANGED <<recipe, translation, job, ledger, slots, task, made>>

\* A hit ends the request.  For a poll the handler then evaluates a name that is not
\* defined there (app/main.py:1216): HTTP 500.
Lookup(r) ==
  /\ request[r].pc = "lookup"
  /\ IF Localized(request[r].lang) THEN Reply(r, "recipe")
     ELSE IF request[r].poll THEN Reply(r, "server_error")
     ELSE Goto(r, "active")
  /\ UNCHANGED <<recipe, translation, job, ledger, slots, task, made>>

\* get_active_job under row level security: only jobs of the user.
VisibleActive(r) ==
  {j \in Ids : Active(j) /\ job[j].lang = request[r].lang /\ job[j].owner = request[r].user}

\* _ensure_translation_job joins the active job, or expires it and goes on.
JoinOrExpire(r) ==
  /\ request[r].pc = "active"
  /\ \/ \E j \in VisibleActive(r) :
          IF job[j].stale
          THEN /\ job' = [job EXCEPT ![j].status = "failed"]
               /\ ledger' = Settled(j, "failed")
               /\ Goto(r, "admit")
          ELSE Reply(r, "job") /\ UNCHANGED <<job, ledger>>
     \/ VisibleActive(r) = {} /\ Goto(r, "admit") /\ UNCHANGED <<job, ledger>>
  /\ UNCHANGED <<recipe, translation, slots, task, made>>

\* Faulty: the limit of a user is not looked at.
AlwaysFree(u) == TRUE

\* try_claim; the limit of the process is left out.
SlotFree(u) == slots[u] < MaxPerUser

\* assert_can_extract and claim_job, or HTTP 403 or 429.
Admit(r) ==
  LET u == request[r].user IN
  /\ request[r].pc = "admit"
  /\ \/ /\ SlotFree(u) /\ slots' = [slots EXCEPT ![u] = @ + 1]
        /\ request' = [request EXCEPT ![r].pc = "create", ![r].claimed = TRUE]
     \/ Reply(r, "refused") /\ UNCHANGED slots
  /\ UNCHANGED <<recipe, translation, job, ledger, task, made>>

\* Faulty: the unique index does not cover jobs that are being processed.
PendingTaken(l) == \E j \in Ids : job[j].lang = l /\ job[j].status = "pending"

\* extract_jobs_active_translation_unique, which sees the jobs of all users.
Taken(l) == \E j \in Ids : Active(j) /\ job[j].lang = l

\* create_job: insert, or a unique violation; any other error goes to the except branch.
Create(r) ==
  LET free == {j \in Ids : job[j].status = "absent"} IN
  /\ request[r].pc = "create"
  /\ \/ /\ ~Taken(request[r].lang)
        /\ \E j \in free :
             /\ \A i \in free : j <= i
             /\ job' = [job EXCEPT ![j] = [status |-> "pending", owner |-> request[r].user,
                                           lang |-> request[r].lang, stale |-> FALSE]]
             /\ request' = [request EXCEPT ![r].pc = "reserve", ![r].job = j]
     \/ Taken(request[r].lang) /\ Goto(r, "winner") /\ job' = job
     \/ Goto(r, "recover") /\ job' = job
  /\ UNCHANGED <<recipe, translation, ledger, slots, task, made>>

\* After the violation create_job returns the winner, or re-raises.
Winner(r) ==
  /\ request[r].pc = "winner"
  /\ \/ \E j \in VisibleActive(r) : request' = [request EXCEPT ![r].pc = "reserve", ![r].job = j]
     \/ VisibleActive(r) = {} /\ Goto(r, "recover")
  /\ UNCHANGED <<recipe, translation, job, ledger, slots, task, made>>

\* Faulty: the slot is only released when no job was created.
KeepsSlot(r) == IF request[r].job = NoJob THEN Release(request[r].user) ELSE UNCHANGED slots

\* "Recovery reads/writes can fail too; release capacity before them."
GiveBackSlot(r) == Release(request[r].user)

\* reserve_spend: one row per job, or the except branch fails the job.
Reserve(r) ==
  LET j == request[r].job IN
  /\ request[r].pc = "reserve"
  /\ \/ /\ ledger' = IF ledger[j] = "none" THEN [ledger EXCEPT ![j] = "reserved"] ELSE ledger
        /\ Goto(r, "background") /\ UNCHANGED <<slots, job>>
     \/ /\ GiveBackSlot(r) /\ job' = [job EXCEPT ![j].status = "failed"]
        /\ Reply(r, "refused") /\ UNCHANGED ledger
  /\ UNCHANGED <<recipe, translation, task, made>>

\* The except branch without a job: release, look once more, or re-raise.
Recover(r) ==
  /\ request[r].pc = "recover"
  /\ GiveBackSlot(r)
  /\ \/ \E j \in VisibleActive(r) : Reply(r, "job")
     \/ VisibleActive(r) = {} /\ Reply(r, "server_error")
  /\ UNCHANGED <<recipe, translation, job, ledger, task, made>>

\* background.add_task and the answer; the slot goes over to the task.
Background(r) ==
  /\ request[r].pc = "background"
  /\ \E t \in Tasks :
       /\ task[t].pc = "idle"
       /\ task' = [task EXCEPT ![t] = [Asleep EXCEPT !.pc = "start", !.user = request[r].user,
                                                     !.job = request[r].job]]
  /\ Reply(r, "job")
  /\ UNCHANGED <<recipe, translation, job, ledger, slots, made>>

(***************************************************************************)
(* run_translation_job.                                                     *)
(***************************************************************************)
\* Status processing, by id alone; the unique index may forbid it.
Start(t) ==
  LET j == task[t].job IN
  /\ task[t].pc = "start"
  /\ IF Active(j) \/ ~Taken(job[j].lang)
     THEN job' = [job EXCEPT ![j].status = "processing", ![j].stale = FALSE] /\ Become(t, "read")
     ELSE job' = job /\ Become(t, "fail")
  /\ UNCHANGED <<recipe, translation, ledger, slots, request, made>>

\* get_recipe; a recipe that is in the language already needs no OpenAI.
ReadRecipe(t) ==
  /\ task[t].pc = "read"
  /\ task' = [task EXCEPT ![t].seen = recipe.version,
                          ![t].pc = IF recipe.lang = job[task[t].job].lang THEN "upsert" ELSE "translate"]
  /\ UNCHANGED <<recipe, translation, job, ledger, slots, request, made>>

\* translate_recipe succeeds or raises.
Translate(t) ==
  LET l == job[task[t].job].lang IN
  /\ task[t].pc = "translate"
  /\ \/ /\ made' = [made EXCEPT ![l][task[t].seen] = IF @ = 2 THEN 2 ELSE @ + 1]
        /\ task' = [task EXCEPT ![t].pc = "upsert", ![t].called = TRUE]
     \/ Become(t, "fail") /\ UNCHANGED made
  /\ UNCHANGED <<recipe, translation, job, ledger, slots, request>>

\* Faulty: the fingerprint is taken when the translation is stored.
StoredLate(t) == [text |-> task[t].seen, fingerprint |-> recipe.version]

\* source_fingerprint was computed from the row that was translated.
Stored(t) == [text |-> task[t].seen, fingerprint |-> task[t].seen]

\* upsert_recipe_translation, or an error.
Upsert(t) ==
  /\ task[t].pc = "upsert"
  /\ \/ /\ translation' = [translation EXCEPT ![job[task[t].job].lang] = Stored(t)]
        /\ Become(t, "complete")
     \/ Become(t, "fail") /\ UNCHANGED translation
  /\ UNCHANGED <<recipe, job, ledger, slots, request, made>>

\* save_user_recipe and status completed, by id alone.
Complete(t) ==
  /\ task[t].pc = "complete"
  /\ job' = [job EXCEPT ![task[t].job].status = "completed"]
  /\ Become(t, "settle")
  /\ UNCHANGED <<recipe, translation, ledger, slots, request, made>>

\* settle_spend, which swallows its errors, and the finally clause.
Settle(t) ==
  /\ task[t].pc = "settle"
  /\ ledger' \in {ledger, Settled(task[t].job, "settled")}
  /\ Release(task[t].user) /\ task' = [task EXCEPT ![t] = Asleep]
  /\ UNCHANGED <<recipe, translation, job, request, made>>

\* The except branches: _mark_job_failed, which swallows its errors, and settle_spend.
Fail(t) ==
  /\ task[t].pc = "fail"
  /\ job' \in {job, [job EXCEPT ![task[t].job].status = "failed"]}
  /\ ledger' \in {ledger, Settled(task[t].job, "failed")}
  /\ Release(task[t].user) /\ task' = [task EXCEPT ![t] = Asleep]
  /\ UNCHANGED <<recipe, translation, request, made>>

(***************************************************************************)
(* What else happens.                                                       *)
(***************************************************************************)
\* An import of the URL that began before the recipe existed ends: upsert_recipe.
Reimport(l) ==
  /\ recipe.version < MaxVersions
  /\ recipe' = [version |-> recipe.version + 1, lang |-> l]
  /\ UNCHANGED <<translation, job, ledger, slots, request, task, made>>

\* job_ttl_seconds pass without an update of the job.
BecomesStale(j) ==
  /\ Active(j) /\ ~job[j].stale
  /\ job' = [job EXCEPT ![j].stale = TRUE]
  /\ UNCHANGED <<recipe, translation, ledger, slots, request, task, made>>

\* The process is replaced: slots, requests and tasks are gone.
Restart ==
  /\ slots' = [u \in Users |-> 0]
  /\ request' = [r \in Requests |-> Idle] /\ task' = [t \in Tasks |-> Asleep]
  /\ UNCHANGED <<recipe, translation, job, ledger, made>>

Next ==
  \/ \E r \in Requests :
       \/ \E u \in Users, l \in Languages, poll \in BOOLEAN : Ask(r, u, l, poll)
       \/ Lookup(r) \/ JoinOrExpire(r) \/ Admit(r) \/ Create(r) \/ Winner(r)
       \/ Reserve(r) \/ Recover(r) \/ Background(r)
  \/ \E t \in Tasks :
       \/ Start(t) \/ ReadRecipe(t) \/ Translate(t) \/ Upsert(t) \/ Complete(t)
       \/ Settle(t) \/ Fail(t)
  \/ \E l \in Languages : Reimport(l)
  \/ \E j \in Ids : BecomesStale(j)
  \/ Restart

Spec == Init /\ [][Next]_vars

(***************************************************************************)
(* Properties.                                                              *)
(***************************************************************************)
\* Values keep their types, and no user holds more slots than allowed.
TypeOK ==
  /\ recipe \in [version : Versions, lang : Languages]
  /\ translation \in [Languages -> [text : 0..MaxVersions, fingerprint : 0..MaxVersions]]
  /\ \A j \in Ids :
       /\ job[j].status \in {"absent", "pending", "processing", "completed", "failed"}
       /\ ledger[j] \in {"none", "reserved", "settled", "failed"}
       /\ ledger[j] # "none" => job[j].status # "absent"
  /\ slots \in [Users -> 0..MaxPerUser]
  /\ \A r \in Requests : request[r].answer \in {"none", "recipe", "job", "refused", "server_error"}
  /\ \A t \in Tasks : task[t].pc = "idle" \/ task[t].job \in Ids

\* Whatever overlaps, a reader is shown the translation of what the recipe says now
\* (app/translation_cache.py:29), never of an earlier content.
ShownIsCurrent ==
  \A l \in Languages : Localized(l) /\ recipe.lang # l => translation[l].text = recipe.version

\* At most one active job per recipe and language (migrations/001_init.sql:212), also when a
\* late task sets its job back to processing.
OneActiveTranslation ==
  \A i, j \in Ids : Active(i) /\ Active(j) /\ job[i].lang = job[j].lang => i = j

\* On every path through _ensure_translation_job and the task a claimed slot is released
\* exactly once.
Holders(u) ==
  Cardinality({r \in Requests : request[r].claimed /\ request[r].user = u})
    + Cardinality({t \in Tasks : task[t].pc # "idle" /\ task[t].user = u})
SlotsAreHeld == \A u \in Users : slots[u] = Holders(u)

\* "This design pays at most once per recipe-language pair"
\* (docs/superpowers/specs/2026-09-06-background-recipe-translation.md:33).  It does not
\* hold: two requests of one user that race get the same job, and each adds a task.
PaidOncePerPair == \A l \in Languages, v \in Versions : made[l][v] <= 1

\* "Concurrent users requesting the same missing translation join the same active job"
\* (docs/superpowers/specs/2026-09-06-background-recipe-translation.md:28).  They do not:
\* row level security hides the job, and its unique index turns the request into HTTP 500.
ConcurrentUsersJoin ==
  [][\A r \in Requests :
       request[r].pc = "recover" /\ request'[r].pc = "idle" /\ Taken(request[r].lang)
         => request'[r].answer = "job"]_vars

\* "Polling can expire, attach and translate recipes." (app/main.py:1181).  A poll that
\* needs a translation is answered with HTTP 500.
PollTranslates == \A r \in Requests : request[r].poll => request[r].answer # "server_error"
=============================================================================
