------------------------ MODULE ExtractJobs_proofs ------------------------
(***************************************************************************)
(* Proofs about ExtractJobs, for any number of profiles, URLs, requests,     *)
(* workers, rows and attempts, and for workers of any speed.                *)
(*                                                                         *)
(* The safety properties follow from one inductive invariant, IInv.  To the *)
(* properties it adds what a handler or a worker still remembers between    *)
(* two statements (RequestOK, RunOK), what a row says of itself (RowOK),    *)
(* and that no import is ever shared: row level security hides the rows of  *)
(* other users from the handlers that would share them.                     *)
(*                                                                         *)
(* The bound on charges needs a second one, ChargeInv, which counts the     *)
(* runs of a job that may still charge it.                                  *)
(***************************************************************************)
EXTENDS ExtractJobs, FiniteSetTheorems, TLAPS

\* An owned row is present and has a URL; the recipe of a row is that of its URL; a
\* completed row names a recipe that exists.
RowOK(j) ==
  /\ jobs[j].owner # NoUser => jobs[j].url \in Urls /\ jobs[j].status # "absent"
  /\ jobs[j].recipe # NoUrl => jobs[j].url \in {jobs[j].recipe, NoUrl}
  /\ jobs[j].status = "completed" => jobs[j].recipe \in recipes

\* A request past its lookups has a user and a URL, creates a hit only of an existing
\* recipe, and points at a present row of its own user and URL, or an anonymised one.
RequestOK(r) ==
  /\ r.pc \notin {"idle", "crashed"} => r.user \in Users
  /\ r.pc \in {"delivery", "cache", "createHit", "attach", "active", "create", "replay",
               "winner", "recover"} => r.url \in Urls
  /\ r.pc = "createHit" => r.url \in recipes
  /\ r.pc \in {"expire", "expireSettle", "reserve", "refuse", "attach", "answered"} => r.job \in Jobs
  /\ r.pc \in {"expire", "expireSettle"} =>
       /\ r.next \in {"create", "crashed", "attach", "answered"}
       /\ r.next \in {"create", "attach"} => r.url \in Urls
  /\ r.job # NoJob =>
       /\ jobs[r.job].status # "absent"
       /\ jobs[r.job].owner \in {r.user, NoUser}
       /\ r.url # NoUrl => jobs[r.job].url \in {r.url, NoUrl}

\* A run has the user and URL its claim returned, on a present row that still has that
\* URL or was anonymised; past the upsert the recipe exists.
RunOK(r) ==
  /\ r.pc # "idle" =>
       /\ r.job \in Jobs /\ r.user \in Users /\ r.url \in Urls
       /\ jobs[r.job].status # "absent"
       /\ jobs[r.job].url \in {r.url, NoUrl}
  /\ r.pc \in {"attach", "complete"} => r.url \in recipes

\* The inductive invariant.
IInv ==
  /\ TypeOK
  /\ access = {}
  /\ \A j \in Jobs : RowOK(j)
  /\ \A h \in Handlers : RequestOK(req[h])
  /\ \A w \in Workers : RunOK(run[w])
  /\ OneActiveJobPerUrl
  /\ ClosedLibraryEmpty

\* The empty tables satisfy the invariant.
LEMMA InitIInv == Init => IInv
<1> SUFFICES ASSUME Init PROVE IInv
  OBVIOUS
<1>1. TypeOK
  BY BoundsAssumption, KnownAssumption
  DEF Init, TypeOK, Jobs, NoJob, NoRow, IdleReq, IdleRun, JobRows, LedgerStatus, Requests, Runs
<1>2. \A j \in Jobs : RowOK(j)
  BY NullAssumption DEF Init, RowOK, NoRow
<1>3. \A h \in Handlers : RequestOK(req[h])
  BY NullAssumption DEF Init, RequestOK, IdleReq, NoJob
<1>4. \A w \in Workers : RunOK(run[w])
  BY DEF Init, RunOK, IdleRun
<1>5. OneActiveJobPerUrl /\ ClosedLibraryEmpty /\ access = {}
  BY DEF Init, OneActiveJobPerUrl, ClosedLibraryEmpty, Active, NoRow
<1> QED
  BY <1>1, <1>2, <1>3, <1>4, <1>5 DEF IInv


\* What every step leaves of a present row: it stays present, and only account
\* deletion changes its owner and URL, to null.
Persists(j) ==
  jobs[j].status # "absent" =>
    /\ jobs'[j].status # "absent"
    /\ jobs'[j].owner \in {jobs[j].owner, NoUser}
    /\ jobs'[j].url \in {jobs[j].url, NoUrl}

\* What the steps that only move a row between active and failed, or only touch its
\* lease and times, leave of it.
Steady(j) ==
  /\ jobs'[j].owner = jobs[j].owner /\ jobs'[j].url = jobs[j].url
  /\ jobs'[j].recipe = jobs[j].recipe
  /\ jobs[j].status # "absent" => jobs'[j].status # "absent"
  /\ jobs'[j].status = "completed" => jobs[j].status = "completed"
  /\ jobs'[j].status \in {"pending", "processing"} => Active(j)

\* Steps that leave every row steady keep the invariants about rows.
LEMMA SteadyRows ==
  ASSUME IInv, recipes \subseteq recipes', \A j \in Jobs : Steady(j)
  PROVE  (\A j \in Jobs : Persists(j)) /\ (\A j \in Jobs : RowOK(j)') /\ OneActiveJobPerUrl'
<1>1. \A j \in Jobs : Persists(j)
  BY DEF Steady, Persists
<1>2. \A j \in Jobs : RowOK(j)'
  BY DEF IInv, Steady, RowOK
<1>3. OneActiveJobPerUrl'
  BY DEF IInv, Steady, OneActiveJobPerUrl, Active
<1> QED
  BY <1>1, <1>2, <1>3

\* A request that does not step stays correct while the rows persist.
LEMMA OtherRequest ==
  ASSUME IInv, recipes \subseteq recipes', \A j \in Jobs : Persists(j),
         NEW h \in Handlers, req'[h] = req[h]
  PROVE  RequestOK(req[h])'
<1>1. req[h].job \in Jobs \cup {NoJob}
  BY DEF IInv, TypeOK, Requests
<1> QED
  BY <1>1, NullAssumption DEF IInv, RequestOK, Persists, TypeOK

\* A run that does not step stays correct while the rows persist.
LEMMA OtherRun ==
  ASSUME IInv, recipes \subseteq recipes', \A j \in Jobs : Persists(j),
         NEW w \in Workers, run'[w] = run[w]
  PROVE  RunOK(run[w])'
  BY DEF IInv, RunOK, Persists

\* Writing one row changes that row.
LEMMA WriteTyped ==
  ASSUME IInv, NEW j \in Jobs, NEW row \in JobRows, Write(j, row)
  PROVE  jobs' \in [Jobs -> JobRows] /\ jobs'[j] = row /\ \A k \in Jobs \ {j} : jobs'[k] = jobs[k]
  BY DEF IInv, TypeOK, Write

\* A request step changes one request.
LEMMA BecomeTyped ==
  ASSUME IInv, NEW h \in Handlers, NEW r \in Requests, Become(h, r)
  PROVE  req' \in [Handlers -> Requests] /\ req'[h] = r /\ \A k \in Handlers \ {h} : req'[k] = req[k]
  BY DEF IInv, TypeOK, Become

\* Failing a row, by expiry, by a worker or by a refused reservation, keeps its
\* owner, URL and recipe.
LEMMA FailedRow ==
  ASSUME NEW row \in JobRows
  PROVE  \A new \in {Failed(row), Refused(row)} :
           /\ new \in JobRows /\ new.status = "failed"
           /\ new.owner = row.owner /\ new.url = row.url /\ new.recipe = row.recipe
  BY DEF Failed, Refused, JobRows

\* A request step that writes at most the ledger and the library.
LEMMA RequestStore ==
  ASSUME IInv, NEW h \in Handlers, NEW r \in Requests, RequestOK(r), Become(h, r),
         UNCHANGED <<jobs, usage, recipes, closed, access, run>>,
         ledger' \in [Jobs -> LedgerStatus], library' \subseteq Users \X Urls, ClosedLibraryEmpty'
  PROVE  IInv'
<1>1. \A k \in Handlers : req'[k] = IF k = h THEN r ELSE req[k]
  BY DEF IInv, TypeOK, Become
<1>2. TypeOK'
  BY BecomeTyped DEF IInv, TypeOK
<1>3. \A k \in Handlers : RequestOK(req[k])'
  BY <1>1 DEF IInv, RequestOK
<1>4. (\A j \in Jobs : RowOK(j)') /\ (\A w \in Workers : RunOK(run[w])')
  BY DEF IInv, RowOK, RunOK
<1> QED
  BY <1>2, <1>3, <1>4 DEF IInv, OneActiveJobPerUrl, Active

\* A request step that only reads.
LEMMA ReadStep ==
  ASSUME IInv, NEW h \in Handlers, NEW r \in Requests, RequestOK(r),
         Become(h, r), UNCHANGED <<store, run>>
  PROVE  IInv'
<1>1. ledger' \in [Jobs -> LedgerStatus] /\ library' \subseteq Users \X Urls /\ ClosedLibraryEmpty'
  BY DEF IInv, TypeOK, ClosedLibraryEmpty, store
<1> QED
  BY <1>1, RequestStore DEF store

\* A request step that writes rows of extract_jobs.
LEMMA RequestWrite ==
  ASSUME IInv, NEW h \in Handlers, NEW r \in Requests, Become(h, r),
         jobs' \in [Jobs -> JobRows], \A j \in Jobs : Persists(j),
         \A j \in Jobs : RowOK(j)', OneActiveJobPerUrl', RequestOK(req[h])',
         UNCHANGED <<ledger, usage, recipes, library, closed, access, run>>
  PROVE  IInv'
<1>1. req' \in [Handlers -> Requests] /\ \A k \in Handlers \ {h} : req'[k] = req[k]
  BY BecomeTyped
<1>2. \A k \in Handlers : RequestOK(req[k])'
  BY <1>1, OtherRequest
<1>3. \A w \in Workers : RunOK(run[w])'
  BY OtherRun
<1> QED
  BY <1>1, <1>2, <1>3 DEF IInv, TypeOK, ClosedLibraryEmpty

\* A write that keeps owner, URL and recipe and does not activate the row is steady.
LEMMA SteadyWrite ==
  ASSUME IInv, NEW j \in Jobs, NEW row \in JobRows, Write(j, row),
         jobs[j].status # "absent" => row.status # "absent",
         row.owner = jobs[j].owner, row.url = jobs[j].url, row.recipe = jobs[j].recipe,
         row.status = "completed" => jobs[j].status = "completed",
         row.status \in {"pending", "processing"} => Active(j)
  PROVE  jobs' \in [Jobs -> JobRows] /\ \A k \in Jobs : Steady(k)
<1>1. jobs' \in [Jobs -> JobRows] /\ jobs'[j] = row /\ \A k \in Jobs \ {j} : jobs'[k] = jobs[k]
  BY WriteTyped
<1>2. Steady(j)
  BY <1>1 DEF Steady
<1>3. \A k \in Jobs \ {j} : Steady(k)
  BY <1>1 DEF Steady, Active
<1> QED
  BY <1>1, <1>2, <1>3

\* Expiring a stale job keeps the invariant, also if another step came in between.
LEMMA ExpireJobInv ==
  ASSUME IInv, NEW h \in Handlers, ExpireJob(h)
  PROVE  IInv'
<1> DEFINE j == req[h].job
           r == [req[h] EXCEPT !.pc = "expireSettle"]
<1>1. j \in Jobs /\ req[h] \in Requests /\ jobs[j] \in JobRows /\ jobs[j].status # "absent"
  BY DEF IInv, ExpireJob, At, RequestOK, TypeOK, Jobs, NoJob
<1>2. Become(h, r) /\ r \in Requests
  BY <1>1 DEF ExpireJob, Goto, Requests
<1>3. jobs' \in [Jobs -> JobRows] /\ \A k \in Jobs : Steady(k)
  <2>1. CASE Write(j, Failed(jobs[j]))
    BY <2>1, <1>1, FailedRow, SteadyWrite
  <2>2. CASE UNCHANGED jobs
    BY <2>2 DEF IInv, TypeOK, Steady, Active
  <2> QED
    BY <2>1, <2>2 DEF ExpireJob
<1>4. (\A k \in Jobs : Persists(k)) /\ (\A k \in Jobs : RowOK(k)') /\ OneActiveJobPerUrl'
  BY <1>3, SteadyRows DEF ExpireJob
<1>5. RequestOK(req[h])'
  BY <1>1, <1>2, <1>4, BecomeTyped DEF IInv, RequestOK, ExpireJob, At, Persists, Requests
<1> QED
  BY <1>2, <1>3, <1>4, <1>5, RequestWrite DEF ExpireJob

\* Failing the job after a refused reservation keeps the invariant.
LEMMA RefuseJobInv ==
  ASSUME IInv, NEW h \in Handlers, RefuseJob(h)
  PROVE  IInv'
<1> DEFINE j == req[h].job
<1>1. j \in Jobs /\ jobs[j] \in JobRows /\ jobs[j].status # "absent"
  BY DEF IInv, RefuseJob, At, RequestOK, TypeOK, Jobs, NoJob
<1>2. Become(h, IdleReq) /\ IdleReq \in Requests
  BY DEF RefuseJob, Finish, Requests, IdleReq
<1>3. jobs' \in [Jobs -> JobRows] /\ \A k \in Jobs : Steady(k)
  <2>1. CASE Write(j, Refused(jobs[j]))
    BY <2>1, <1>1, FailedRow, SteadyWrite
  <2>2. CASE UNCHANGED jobs
    BY <2>2 DEF IInv, TypeOK, Steady, Active
  <2> QED
    BY <2>1, <2>2 DEF RefuseJob
<1>4. (\A k \in Jobs : Persists(k)) /\ (\A k \in Jobs : RowOK(k)') /\ OneActiveJobPerUrl'
  BY <1>3, SteadyRows DEF RefuseJob
<1>5. RequestOK(req[h])'
  BY <1>2, BecomeTyped DEF RequestOK, IdleReq, NoJob
<1> QED
  BY <1>2, <1>3, <1>4, <1>5, RequestWrite DEF RefuseJob

\* A request that has ended remembers nothing.
LEMMA IdleOK == IdleReq \in Requests /\ RequestOK(IdleReq)
  BY DEF IdleReq, Requests, RequestOK, NoJob

\* The lookups of a request find rows of its own user only.
LEMMA FoundJob ==
  ASSUME IInv, NEW h \in Handlers, req[h].pc \notin {"idle", "crashed"}
  PROVE  /\ \A j \in VisibleActive(req[h].user, req[h].url) :
              j \in Jobs /\ jobs[j].owner = req[h].user /\ jobs[j].url = req[h].url
         /\ \A j \in DeliveryJobs(req[h].user, req[h].delivery) :
              j \in Jobs /\ jobs[j].owner = req[h].user
  BY DEF IInv, VisibleActive, Visible, DeliveryJobs

\* A request may point at a row of its user and URL.
LEMMA PointAt ==
  ASSUME IInv, NEW h \in Handlers, NEW j \in Jobs, req[h].user \in Users, req[h].url \in Urls,
         jobs[j].owner = req[h].user, jobs[j].url = req[h].url,
         NEW r \in Requests, r.user = req[h].user, r.url = req[h].url, r.job = j,
         \/ r.pc \in {"attach", "answered", "reserve"}
         \/ r.pc = "expire" /\ r.next \in {"create", "crashed"}
  PROVE  RequestOK(r)
<1>1. jobs[j].status # "absent"
  BY NullAssumption DEF IInv, RowOK
<1> QED
  BY <1>1, NullAssumption DEF RequestOK

\* A request goes on with, or answers, a row it found.
LEMMA GotoJob ==
  ASSUME IInv, NEW h \in Handlers, NEW j \in Jobs, req[h].user \in Users, req[h].url \in Urls,
         jobs[j].owner = req[h].user, jobs[j].url = req[h].url,
         GotoWith(h, "attach", j) \/ GotoWith(h, "reserve", j) \/ Answer(h, j),
         UNCHANGED <<store, run>>
  PROVE  IInv'
<1>1. req[h] \in Requests
  BY DEF IInv, TypeOK
<1>2. ASSUME NEW pc \in {"attach", "reserve"}, GotoWith(h, pc, j)
      PROVE  IInv'
  <2> DEFINE r == [req[h] EXCEPT !.pc = pc, !.job = j]
  <2>1. r \in Requests /\ r.user = req[h].user /\ r.url = req[h].url /\ r.job = j /\ r.pc = pc
    BY <1>1 DEF Requests
  <2>2. RequestOK(r)
    BY <2>1, PointAt
  <2> QED
    BY <1>2, <2>1, <2>2, ReadStep DEF GotoWith
<1>3. CASE Answer(h, j)
  <2> DEFINE r == [req[h] EXCEPT !.pc = "answered", !.job = j, !.next = "none"]
  <2>1. r \in Requests /\ r.user = req[h].user /\ r.url = req[h].url /\ r.job = j
        /\ r.pc = "answered"
    BY <1>1 DEF Requests
  <2>2. RequestOK(r)
    BY <2>1, PointAt
  <2> QED
    BY <1>3, <2>1, <2>2, ReadStep DEF Answer
<1> QED
  BY <1>2, <1>3

\* A request goes on without pointing at another row.
LEMMA StayAt ==
  ASSUME IInv, NEW h \in Handlers, NEW pc \in {"cache", "createHit", "active", "create", "winner", "recover"},
         req[h].pc \notin {"idle", "crashed"}, req[h].url \in Urls,
         pc = "createHit" => req[h].url \in recipes,
         Goto(h, pc), UNCHANGED <<store, run>>
  PROVE  IInv'
<1> DEFINE r == [req[h] EXCEPT !.pc = pc]
<1>1. req[h] \in Requests /\ RequestOK(req[h])
  BY DEF IInv, TypeOK
<1>2. r \in Requests /\ RequestOK(r)
  BY <1>1 DEF Requests, RequestOK
<1> QED
  BY <1>2, ReadStep DEF Goto

\* A request ends without an answer.
LEMMA EndRequest ==
  ASSUME IInv, NEW h \in Handlers, Finish(h) \/ Crash(h), UNCHANGED <<store, run>>
  PROVE  IInv'
<1>1. CASE Finish(h)
  BY <1>1, ReadStep, IdleOK DEF Finish
<1>2. CASE Crash(h)
  <2> DEFINE r == [IdleReq EXCEPT !.pc = "crashed"]
  <2>1. r \in Requests /\ RequestOK(r)
    BY DEF IdleReq, Requests, RequestOK, NoJob
  <2> QED
    BY <1>2, <2>1, ReadStep DEF Crash
<1> QED
  BY <1>1, <1>2

\* What a request in its lookups knows.
LEMMA Reading ==
  ASSUME IInv, NEW h \in Handlers,
         req[h].pc \in {"delivery", "cache", "createHit", "active", "create", "replay",
                        "winner", "recover"}
  PROVE  req[h] \in Requests /\ req[h].user \in Users /\ req[h].url \in Urls /\ RequestOK(req[h])
  BY DEF IInv, TypeOK, RequestOK

\* The lookup of the delivery id keeps the invariant.
LEMMA DeliveryLookupInv ==
  ASSUME IInv, NEW h \in Handlers, DeliveryLookup(h)
  PROVE  IInv'
<1>1. req[h].pc = "delivery" /\ UNCHANGED <<store, run>>
  BY DEF DeliveryLookup, At
<1>2. req[h].user \in Users /\ req[h].url \in Urls
  BY <1>1, Reading
<1>3. CASE Goto(h, "cache")
  BY <1>1, <1>2, <1>3, StayAt
<1>4. CASE Finish(h)
  BY <1>1, <1>4, EndRequest
<1>5. ASSUME NEW j \in DeliveryJobs(req[h].user, req[h].delivery), jobs[j].url = req[h].url,
             GotoWith(h, "attach", j) \/ Answer(h, j)
      PROVE  IInv'
  BY <1>1, <1>2, <1>5, FoundJob, GotoJob
<1> QED
  BY <1>3, <1>4, <1>5 DEF DeliveryLookup

\* Joining an active import keeps the invariant: it is never one of another user.
LEMMA JoinOrExpireInv ==
  ASSUME IInv, NEW h \in Handlers, req[h].pc \in {"active", "recover"},
         NEW j \in VisibleActive(req[h].user, req[h].url), NEW after \in {"create", "crashed"},
         JoinOrExpire(h, j, after), UNCHANGED <<jobs, ledger, usage, recipes, library, closed, run>>
  PROVE  IInv'
<1>1. req[h] \in Requests /\ req[h].user \in Users /\ req[h].url \in Urls
  BY Reading
<1>2. j \in Jobs /\ jobs[j].owner = req[h].user /\ jobs[j].url = req[h].url
  BY FoundJob
<1>3. UNCHANGED <<store, run>>
  BY <1>2 DEF JoinOrExpire, store
<1>4. CASE jobs[j].stale
  <2> DEFINE r == [req[h] EXCEPT !.pc = "expire", !.job = j, !.next = after]
  <2>1. r \in Requests /\ r.user = req[h].user /\ r.url = req[h].url /\ r.job = j
        /\ r.pc = "expire" /\ r.next = after
    BY <1>1, <1>2 DEF Requests
  <2>2. RequestOK(r)
    BY <1>1, <1>2, <2>1, PointAt
  <2> QED
    BY <1>3, <1>4, <2>1, <2>2, ReadStep DEF JoinOrExpire
<1>5. CASE ~jobs[j].stale
  BY <1>1, <1>2, <1>3, <1>5, GotoJob DEF JoinOrExpire
<1> QED
  BY <1>4, <1>5

\* The other reads of a request, its rejection and its death keep the invariant.
LEMMA LookupsInv ==
  ASSUME IInv, NEW h \in Handlers,
         \/ CacheLookup(h) \/ ActiveLookup(h) \/ ReplayLookup(h) \/ WinnerLookup(h)
         \/ CreateRaises(h) \/ RecoverLookup(h) \/ RejectAdmission(h) \/ RequestDies(h)
  PROVE  IInv'
<1>1. CASE CacheLookup(h)
  <2>1. req[h].pc = "cache" /\ req[h].url \in Urls /\ UNCHANGED <<store, run>>
    BY <1>1, Reading DEF CacheLookup, At
  <2> QED
    BY <1>1, <2>1, StayAt DEF CacheLookup
<1>2. CASE ActiveLookup(h)
  <2>1. req[h].pc = "active" /\ req[h].url \in Urls
    BY <1>2, Reading DEF ActiveLookup, At
  <2>2. CASE Goto(h, "create") /\ UNCHANGED access
    BY <1>2, <2>1, <2>2, StayAt DEF ActiveLookup, store
  <2>3. ASSUME NEW j \in VisibleActive(req[h].user, req[h].url), JoinOrExpire(h, j, "create")
        PROVE  IInv'
    BY <1>2, <2>1, <2>3, JoinOrExpireInv DEF ActiveLookup
  <2> QED
    BY <1>2, <2>2, <2>3 DEF ActiveLookup
<1>3. CASE ReplayLookup(h)
  <2>1. req[h].pc = "replay" /\ req[h].user \in Users /\ req[h].url \in Urls /\ UNCHANGED <<store, run>>
    BY <1>3, Reading DEF ReplayLookup, At
  <2>2. CASE Goto(h, "winner")
    BY <2>1, <2>2, StayAt
  <2>3. CASE Finish(h)
    BY <2>1, <2>3, EndRequest
  <2>4. ASSUME NEW j \in DeliveryJobs(req[h].user, req[h].delivery), jobs[j].url = req[h].url,
               Answer(h, j)
        PROVE  IInv'
    BY <2>1, <2>4, FoundJob, GotoJob
  <2> QED
    BY <1>3, <2>2, <2>3, <2>4 DEF ReplayLookup
<1>4. CASE WinnerLookup(h)
  <2>1. req[h].pc = "winner" /\ req[h].user \in Users /\ req[h].url \in Urls /\ UNCHANGED <<store, run>>
    BY <1>4, Reading DEF WinnerLookup, At
  <2>2. CASE Goto(h, "recover")
    BY <2>1, <2>2, StayAt
  <2>3. CASE Crash(h)
    BY <2>1, <2>3, EndRequest
  <2>4. ASSUME NEW j \in VisibleActive(req[h].user, req[h].url),
               GotoWith(h, "attach", j) \/ GotoWith(h, "reserve", j)
        PROVE  IInv'
    BY <2>1, <2>4, FoundJob, GotoJob
  <2> QED
    BY <1>4, <2>2, <2>3, <2>4 DEF WinnerLookup
<1>5. CASE RecoverLookup(h)
  <2>1. req[h].pc = "recover"
    BY <1>5 DEF RecoverLookup, At
  <2>2. CASE Crash(h) /\ UNCHANGED access
    BY <1>5, <2>2, EndRequest DEF RecoverLookup, store
  <2>3. ASSUME NEW j \in VisibleActive(req[h].user, req[h].url), JoinOrExpire(h, j, "crashed")
        PROVE  IInv'
    BY <1>5, <2>1, <2>3, JoinOrExpireInv DEF RecoverLookup
  <2> QED
    BY <1>5, <2>2, <2>3 DEF RecoverLookup
<1>6. CASE RejectAdmission(h) \/ RequestDies(h)
  BY <1>6, EndRequest DEF RejectAdmission, RequestDies
<1>7. CASE CreateRaises(h)
  <2>1. req[h].pc \in {"create", "replay", "winner"} /\ req[h].url \in Urls /\ UNCHANGED <<store, run>>
    BY <1>7, Reading DEF CreateRaises, At
  <2> QED
    BY <1>7, <2>1, StayAt DEF CreateRaises
<1> QED
  BY <1>1, <1>2, <1>3, <1>4, <1>5, <1>6, <1>7

\* A new request keeps the invariant.
LEMMA SubmitInv ==
  ASSUME IInv, NEW h \in Handlers, NEW u \in Users, NEW url \in Urls,
         NEW d \in Deliveries \cup {NoDelivery}, Submit(h, u, url, d)
  PROVE  IInv'
<1> DEFINE r == [IdleReq EXCEPT !.pc = IF d = NoDelivery THEN "cache" ELSE "delivery",
                                !.user = u, !.url = url, !.delivery = d]
<1>1. r \in Requests /\ RequestOK(r)
  BY DEF IdleReq, Requests, RequestOK, NoJob
<1> QED
  BY <1>1, ReadStep DEF Submit

\* A poll keeps the invariant.
LEMMA PollInv ==
  ASSUME IInv, NEW h \in Handlers, NEW u \in Users, NEW j \in Jobs, Poll(h, u, j)
  PROVE  IInv'
<1> DEFINE after == IF jobs[j].recipe = NoUrl THEN "answered" ELSE "attach"
           pc == IF Active(j) /\ jobs[j].stale THEN "expire" ELSE after
           r == [IdleReq EXCEPT !.pc = pc, !.next = after, !.user = u, !.url = jobs[j].recipe,
                                !.job = j]
<1>1. /\ jobs[j].recipe \in Urls \cup {NoUrl} /\ jobs[j].status # "absent"
      /\ jobs[j].owner = u /\ (jobs[j].recipe # NoUrl => jobs[j].url \in {jobs[j].recipe, NoUrl})
  BY DEF IInv, Poll, Visible, TypeOK, JobRows, RowOK
<1>2. r \in Requests
  BY <1>1 DEF IdleReq, Requests
<1>3. /\ r.pc = pc /\ r.next = after /\ r.user = u /\ r.url = jobs[j].recipe /\ r.job = j
  BY DEF IdleReq
<1>4. RequestOK(r)
  BY <1>1, <1>3 DEF RequestOK
<1> QED
  BY <1>2, <1>4, ReadStep DEF Poll

\* Inserting an absent row, active only if the URL is free, keeps the row invariants.
LEMMA InsertRow ==
  ASSUME IInv, NEW j \in Jobs, jobs[j].status = "absent", NEW row \in JobRows, Write(j, row),
         row.owner \in Users, row.url \in Urls, row.status # "absent",
         row.recipe \in {NoUrl, row.url}, row.status = "completed" => row.recipe \in recipes,
         row.status \in {"pending", "processing"} => ~UrlTaken(row.url, NoJob),
         UNCHANGED recipes
  PROVE  /\ jobs' \in [Jobs -> JobRows] /\ jobs'[j] = row
         /\ (\A k \in Jobs : Persists(k)) /\ (\A k \in Jobs : RowOK(k)') /\ OneActiveJobPerUrl'
<1>1. jobs' \in [Jobs -> JobRows] /\ jobs'[j] = row /\ \A k \in Jobs \ {j} : jobs'[k] = jobs[k]
  BY WriteTyped
<1>2. \A k \in Jobs : Persists(k)
  BY <1>1 DEF Persists
<1>3. \A k \in Jobs : RowOK(k)'
  BY <1>1 DEF IInv, RowOK
<1>4. OneActiveJobPerUrl'
  BY <1>1 DEF IInv, OneActiveJobPerUrl, Active, UrlTaken, Jobs, NoJob
<1> QED
  BY <1>1, <1>2, <1>3, <1>4

\* What create_job inserts.
LEMMA NewRows ==
  ASSUME NEW r \in Requests
  PROVE  /\ \A status \in {"pending", "completed"} :
              LET row == NewRow(r, status) IN
              /\ row \in JobRows /\ row.owner = r.user /\ row.url = r.url
              /\ row.status = status /\ row.recipe = NoUrl
         /\ LET row == NewHit(r) IN
              /\ row \in JobRows /\ row.owner = r.user /\ row.url = r.url
              /\ row.status = "completed" /\ row.recipe = r.url
<1>1. NoRow \in JobRows /\ NoRow.recipe = NoUrl
  BY BoundsAssumption DEF NoRow, JobRows
<1>2. ASSUME NEW status \in {"pending", "completed"}
      PROVE  LET row == NewRow(r, status) IN
             /\ row \in JobRows /\ row.owner = r.user /\ row.url = r.url
             /\ row.status = status /\ row.recipe = NoUrl
  BY <1>1 DEF NewRow, JobRows, Requests
<1>3. LET row == NewHit(r) IN
      /\ row \in JobRows /\ row.owner = r.user /\ row.url = r.url
      /\ row.status = "completed" /\ row.recipe = r.url
  BY <1>2 DEF NewHit, JobRows, Requests
<1> QED
  BY <1>2, <1>3

\* A request that inserts a row and points at it keeps the invariant.
LEMMA InsertInv ==
  ASSUME IInv, NEW h \in Handlers, req[h].pc \in {"createHit", "create"},
         NEW j \in Jobs, jobs[j].status = "absent",
         NEW row \in JobRows, Write(j, row), NEW pc \in {"attach", "reserve"}, GotoWith(h, pc, j),
         row.owner = req[h].user, row.url = req[h].url, row.status # "absent",
         row.recipe \in {NoUrl, row.url}, row.status = "completed" => row.recipe \in recipes,
         row.status \in {"pending", "processing"} => ~UrlTaken(row.url, NoJob),
         UNCHANGED <<ledger, usage, recipes, library, closed, access, run>>
  PROVE  IInv'
<1> DEFINE r == [req[h] EXCEPT !.pc = pc, !.job = j]
<1>1. req[h] \in Requests /\ req[h].user \in Users /\ req[h].url \in Urls
  BY Reading
<1>2. /\ jobs' \in [Jobs -> JobRows] /\ jobs'[j] = row
      /\ (\A k \in Jobs : Persists(k)) /\ (\A k \in Jobs : RowOK(k)') /\ OneActiveJobPerUrl'
  BY <1>1, InsertRow
<1>3. /\ r \in Requests /\ r.pc = pc /\ r.job = j /\ r.user = req[h].user /\ r.url = req[h].url
  BY <1>1 DEF Requests
<1>4. Become(h, r)
  BY DEF GotoWith
<1>5. req'[h] = r
  BY <1>3, <1>4, BecomeTyped
<1>6. RequestOK(req[h])'
  BY <1>1, <1>2, <1>3, <1>5 DEF RequestOK
<1> QED
  BY <1>2, <1>3, <1>4, <1>6, RequestWrite

\* create_job keeps the invariant, whether it inserts or loses to an index.
LEMMA CreateInv ==
  ASSUME IInv, NEW h \in Handlers, CreateHit(h) \/ CreateJob(h)
  PROVE  IInv'
<1>1. /\ req[h].pc \in {"createHit", "create"} /\ req[h] \in Requests
      /\ req[h].user \in Users /\ req[h].url \in Urls
      /\ req[h].pc = "createHit" => req[h].url \in recipes
      /\ UNCHANGED <<ledger, usage, recipes, library, closed, access, run>>
  BY Reading DEF CreateHit, CreateJob, At, RequestOK
<1>2. ASSUME NEW next \in {"hit", "extract"}, UNCHANGED jobs,
             Become(h, [req[h] EXCEPT !.pc = "replay", !.next = next])
      PROVE  IInv'
  <2> DEFINE r == [req[h] EXCEPT !.pc = "replay", !.next = next]
  <2>1. r \in Requests /\ RequestOK(r)
    BY <1>1, Reading DEF Requests, RequestOK
  <2> QED
    BY <1>1, <1>2, <2>1, ReadStep DEF store
<1>3. ASSUME NEW j \in NextId, Write(j, NewHit(req[h])), GotoWith(h, "attach", j), At(h, "createHit")
      PROVE  IInv'
  <2>1. j \in Jobs /\ jobs[j].status = "absent"
    BY DEF NextId, Absent
  <2> QED
    BY <1>1, <1>3, <2>1, NewRows, InsertInv DEF At
<1>4. ASSUME NEW j \in NextId, Write(j, NewRow(req[h], "pending")), GotoWith(h, "reserve", j),
             ~UrlTaken(req[h].url, NoJob)
      PROVE  IInv'
  <2>1. j \in Jobs /\ jobs[j].status = "absent"
    BY DEF NextId, Absent
  <2> QED
    BY <1>1, <1>4, <2>1, NewRows, InsertInv
<1>5. CASE CreateHit(h)
  BY <1>2, <1>3, <1>5 DEF CreateHit
<1>6. CASE CreateJob(h)
  BY <1>2, <1>4, <1>6 DEF CreateJob
<1> QED
  BY <1>5, <1>6

\* save_user_recipe never gives a closed profile a recipe.
LEMMA SaveUserRecipeInv ==
  ASSUME IInv, NEW u \in Users, NEW url \in Urls, SaveUserRecipe(u, url), UNCHANGED closed
  PROVE  library' \subseteq Users \X Urls /\ ClosedLibraryEmpty'
  BY DEF IInv, TypeOK, SaveUserRecipe, ClosedLibraryEmpty

\* Attaching the recipe to the library of the caller keeps the invariant.
LEMMA AttachInv ==
  ASSUME IInv, NEW h \in Handlers, Attach(h)
  PROVE  IInv'
<1> DEFINE r == [req[h] EXCEPT !.pc = "answered", !.job = req[h].job, !.next = "none"]
<1>1. req[h] \in Requests /\ RequestOK(req[h]) /\ req[h].pc = "attach"
      /\ req[h].user \in Users /\ req[h].url \in Urls
  BY DEF IInv, TypeOK, Attach, At, RequestOK
<1>2. r \in Requests /\ RequestOK(r)
  BY <1>1 DEF Requests, RequestOK
<1>3. library' \subseteq Users \X Urls /\ ClosedLibraryEmpty'
  BY <1>1, SaveUserRecipeInv DEF Attach
<1> QED
  BY <1>2, <1>3, RequestStore DEF Attach, Answer, IInv, TypeOK

\* Settling keeps the ledger typed.
LEMMA SettleTyped ==
  ASSUME IInv, NEW j \in Jobs, NEW status \in {"settled", "failed"},
         Settle(j, status) \/ UNCHANGED ledger
  PROVE  ledger' \in [Jobs -> LedgerStatus]
  BY DEF IInv, TypeOK, Settle, LedgerStatus

\* A request step that writes the ledger only.
LEMMA LedgerStep ==
  ASSUME IInv, NEW h \in Handlers, ledger' \in [Jobs -> LedgerStatus],
         NEW r \in Requests, RequestOK(r), Become(h, r),
         UNCHANGED <<jobs, usage, recipes, library, closed, access, run>>
  PROVE  IInv'
<1>1. library' \subseteq Users \X Urls /\ ClosedLibraryEmpty'
  BY DEF IInv, TypeOK, ClosedLibraryEmpty
<1> QED
  BY <1>1, RequestStore

\* Releasing the reservation of an expired job keeps the invariant.
LEMMA ExpireSettleInv ==
  ASSUME IInv, NEW h \in Handlers, ExpireSettle(h)
  PROVE  IInv'
<1>1. /\ req[h] \in Requests /\ RequestOK(req[h]) /\ req[h].pc = "expireSettle" /\ req[h].job \in Jobs
      /\ req[h].next \in {"create", "crashed", "attach", "answered"}
  BY DEF IInv, TypeOK, ExpireSettle, At, RequestOK
<1>2. ledger' \in [Jobs -> LedgerStatus]
  BY <1>1, SettleTyped DEF ExpireSettle
<1>3. \E r \in Requests : RequestOK(r) /\ Become(h, r)
  <2>1. CASE req[h].next = "crashed"
    <3>1. [IdleReq EXCEPT !.pc = "crashed"] \in Requests /\ RequestOK([IdleReq EXCEPT !.pc = "crashed"])
      BY DEF IdleReq, Requests, RequestOK, NoJob
    <3> QED
      BY <2>1, <3>1 DEF ExpireSettle, Crash
  <2>2. CASE req[h].next = "answered"
    <3> DEFINE r == [req[h] EXCEPT !.pc = "answered", !.job = req[h].job, !.next = "none"]
    <3>1. r \in Requests /\ RequestOK(r)
      BY <1>1 DEF Requests, RequestOK
    <3> QED
      BY <2>2, <3>1 DEF ExpireSettle, Answer
  <2>3. CASE req[h].next \in {"create", "attach"}
    <3> DEFINE r == [req[h] EXCEPT !.pc = req[h].next]
    <3>1. r \in Requests /\ RequestOK(r)
      BY <1>1, <2>3 DEF Requests, RequestOK
    <3> QED
      BY <2>3, <3>1 DEF ExpireSettle, Goto
  <2> QED
    BY <1>1, <2>1, <2>2, <2>3
<1> QED
  BY <1>2, <1>3, LedgerStep DEF ExpireSettle

\* Reserving, or being refused, keeps the invariant.
LEMMA ReserveInv ==
  ASSUME IInv, NEW h \in Handlers, Reserve(h)
  PROVE  IInv'
<1>1. req[h] \in Requests /\ RequestOK(req[h]) /\ req[h].pc = "reserve" /\ req[h].job \in Jobs
  BY DEF IInv, TypeOK, Reserve, At, RequestOK
<1>2. ledger' \in [Jobs -> LedgerStatus]
  <2>1. Swept \in [Jobs -> LedgerStatus]
    BY DEF IInv, TypeOK, Swept, LedgerStatus
  <2> QED
    BY <1>1, <2>1 DEF IInv, TypeOK, Reserve, LedgerStatus
<1>3. \E r \in Requests : RequestOK(r) /\ Become(h, r)
  <2>1. CASE Answer(h, req[h].job)
    <3> DEFINE r == [req[h] EXCEPT !.pc = "answered", !.job = req[h].job, !.next = "none"]
    <3>1. r \in Requests /\ RequestOK(r)
      BY <1>1 DEF Requests, RequestOK
    <3> QED
      BY <2>1, <3>1 DEF Answer
  <2>2. CASE Goto(h, "refuse")
    <3> DEFINE r == [req[h] EXCEPT !.pc = "refuse"]
    <3>1. r \in Requests /\ RequestOK(r)
      BY <1>1 DEF Requests, RequestOK
    <3> QED
      BY <2>2, <3>1 DEF Goto
  <2> QED
    BY <2>1, <2>2 DEF Reserve
<1> QED
  BY <1>2, <1>3, LedgerStep DEF Reserve
\* A worker step, given what it makes of the rows, the ledger and the library.
LEMMA RunWrite ==
  ASSUME IInv, NEW w \in Workers, NEW r \in Runs, RunBecomes(w, r), RunOK(run[w])',
         jobs' \in [Jobs -> JobRows], \A j \in Jobs : Persists(j),
         \A j \in Jobs : RowOK(j)', OneActiveJobPerUrl',
         ledger' \in [Jobs -> LedgerStatus], usage' \in [Jobs -> Nat],
         recipes \subseteq recipes', recipes' \subseteq Urls,
         library' \subseteq Users \X Urls, ClosedLibraryEmpty',
         UNCHANGED <<closed, access, req>>
  PROVE  IInv'
<1>1. /\ run' \in [Workers -> Runs] /\ run'[w] = r
      /\ \A v \in Workers \ {w} : run'[v] = run[v]
  BY DEF IInv, TypeOK, RunBecomes
<1>2. \A v \in Workers : RunOK(run[v])'
  BY <1>1, OtherRun
<1>3. \A h \in Handlers : RequestOK(req[h])'
  BY OtherRequest
<1> QED
  BY <1>1, <1>2, <1>3 DEF IInv, TypeOK

\* A step that writes no row keeps the invariants about rows.
LEMMA SameRows ==
  ASSUME IInv, UNCHANGED jobs, recipes \subseteq recipes'
  PROVE  /\ jobs' \in [Jobs -> JobRows] /\ (\A j \in Jobs : Persists(j))
         /\ (\A j \in Jobs : RowOK(j)') /\ OneActiveJobPerUrl'
<1>1. \A j \in Jobs : Steady(j)
  BY DEF Steady, Active
<1> QED
  BY <1>1, SteadyRows DEF IInv, TypeOK

\* Unchanged tables stay typed.
LEMMA SameRest ==
  ASSUME IInv
  PROVE  /\ UNCHANGED recipes => recipes \subseteq recipes' /\ recipes' \subseteq Urls
         /\ UNCHANGED usage => usage' \in [Jobs -> Nat]
         /\ UNCHANGED ledger => ledger' \in [Jobs -> LedgerStatus]
         /\ UNCHANGED <<library, closed>> =>
              library' \subseteq Users \X Urls /\ ClosedLibraryEmpty'
  BY DEF IInv, TypeOK, ClosedLibraryEmpty

\* What a run knows.
LEMMA Running ==
  ASSUME IInv, NEW w \in Workers, run[w].pc # "idle"
  PROVE  /\ run[w] \in Runs /\ run[w].job \in Jobs /\ run[w].user \in Users /\ run[w].url \in Urls
         /\ jobs[run[w].job] \in JobRows /\ jobs[run[w].job].status # "absent"
         /\ jobs[run[w].job].url \in {run[w].url, NoUrl}
         /\ run[w].pc \in {"attach", "complete"} => run[w].url \in recipes
  BY DEF IInv, TypeOK, RunOK

\* A run that goes on stays correct.
LEMMA Advance ==
  ASSUME IInv, NEW w \in Workers, run[w].pc # "idle",
         NEW pc \in {"extract", "upsert", "attach", "complete", "charge", "settle", "failing",
                     "failCharge", "failSettle"},
         pc \in {"attach", "complete"} => run[w].url \in recipes',
         \A j \in Jobs : Persists(j), NEW r \in Runs, RunBecomes(w, r),
         r.pc = pc, r.job = run[w].job, r.user = run[w].user, r.url = run[w].url
  PROVE  RunOK(run[w])'
<1>1. run'[w] = r
  BY DEF IInv, TypeOK, RunBecomes
<1> QED
  BY <1>1, Running DEF RunOK, Persists

\* A run that moves to its next statement stays correct.
LEMMA NextRun ==
  ASSUME IInv, NEW w \in Workers, run[w].pc # "idle",
         NEW pc \in {"extract", "upsert", "attach", "complete", "charge", "settle", "failing",
                     "failCharge", "failSettle"},
         pc \in {"attach", "complete"} => run[w].url \in recipes',
         \A j \in Jobs : Persists(j), RunTo(w, pc)
  PROVE  RunOK(run[w])' /\ \E r \in Runs : RunBecomes(w, r)
<1> DEFINE r == [run[w] EXCEPT !.pc = pc]
<1>1. /\ r \in Runs /\ r.pc = pc /\ r.job = run[w].job /\ r.user = run[w].user /\ r.url = run[w].url
  BY Running DEF Runs
<1>2. RunBecomes(w, r)
  BY DEF RunTo
<1> QED
  BY <1>1, <1>2, Advance

\* The unguarded update to processing keeps the invariant: the unique index refuses a
\* second active row of the URL.
LEMMA RunStartInv ==
  ASSUME IInv, NEW w \in Workers, RunStart(w)
  PROVE  IInv'
<1> DEFINE j == run[w].job
           row == [jobs[j] EXCEPT !.status = "processing", !.stale = FALSE]
<1>1. run[w].pc = "claimed" /\ UNCHANGED <<ledger, usage, recipes, library, closed, access, req>>
  BY DEF RunStart, RunAt
<1>2. j \in Jobs /\ jobs[j] \in JobRows /\ jobs[j].status # "absent"
  BY <1>1, Running
<1>3. CASE RunTo(w, "failing") /\ UNCHANGED jobs
  BY <1>1, <1>3, SameRows, SameRest, NextRun, RunWrite
<1>4. CASE Write(j, row) /\ RunTo(w, "extract") /\ (jobs[j].url = NoUrl \/ ~UrlTaken(jobs[j].url, j))
  <2>1. /\ row \in JobRows /\ row.status = "processing" /\ row.owner = jobs[j].owner
        /\ row.url = jobs[j].url /\ row.recipe = jobs[j].recipe
    BY <1>2 DEF JobRows
  <2>2. jobs' \in [Jobs -> JobRows] /\ jobs'[j] = row /\ \A k \in Jobs \ {j} : jobs'[k] = jobs[k]
    BY <1>2, <1>4, <2>1, WriteTyped
  <2>3. \A k \in Jobs : Persists(k)
    BY <1>2, <2>1, <2>2 DEF Persists
  <2>4. \A k \in Jobs : RowOK(k)'
    <3> HIDE DEF row
    <3>1. \A k \in {j} : RowOK(k)'
      BY <1>1, <1>2, <2>1, <2>2 DEF IInv, RowOK
    <3>2. \A k \in Jobs \ {j} : RowOK(k)'
      BY <1>1, <2>2 DEF IInv, RowOK
    <3> QED
      BY <3>1, <3>2
  <2>5. OneActiveJobPerUrl'
    <3>1. \A k \in Jobs \ {j} : Active(k)' => Active(k) /\ jobs'[k].url = jobs[k].url
      BY <2>2 DEF Active
    <3>2. \A k \in Jobs \ {j} : Active(k) /\ jobs[k].url # NoUrl => jobs[k].url # jobs[j].url
      BY <1>4 DEF UrlTaken
    <3>3. jobs'[j].url = jobs[j].url
      BY <2>1, <2>2
    <3>4. \A k, l \in Jobs \ {j} :
            Active(k) /\ Active(l) /\ jobs[k].url = jobs[l].url /\ jobs[k].url # NoUrl => k = l
      BY DEF IInv, OneActiveJobPerUrl
    <3> QED
      BY <3>1, <3>2, <3>3, <3>4, Zenon DEF OneActiveJobPerUrl
  <2> QED
    BY <1>1, <1>4, <2>2, <2>3, <2>4, <2>5, SameRest, NextRun, RunWrite
<1> QED
  BY <1>3, <1>4 DEF RunStart

\* The extraction keeps the invariant.
LEMMA RunExtractInv ==
  ASSUME IInv, NEW w \in Workers, RunExtract(w)
  PROVE  IInv'
<1> DEFINE j == run[w].job
           row == [jobs[j] EXCEPT !.stale = FALSE]
<1>1. /\ run[w].pc = "extract" /\ Write(j, row)
      /\ UNCHANGED <<ledger, usage, recipes, library, closed, access, req>>
  BY DEF RunExtract, RunAt
<1>2. j \in Jobs /\ jobs[j] \in JobRows /\ jobs[j].status # "absent" /\ run[w] \in Runs
  BY <1>1, Running
<1>3. /\ row \in JobRows /\ row.status = jobs[j].status /\ row.owner = jobs[j].owner
      /\ row.url = jobs[j].url /\ row.recipe = jobs[j].recipe
  BY <1>2 DEF JobRows
<1>4. jobs' \in [Jobs -> JobRows] /\ \A k \in Jobs : Steady(k)
  BY <1>1, <1>2, <1>3, SteadyWrite DEF Active
<1>5. (\A k \in Jobs : Persists(k)) /\ (\A k \in Jobs : RowOK(k)') /\ OneActiveJobPerUrl'
  BY <1>1, <1>4, SteadyRows
<1>6. PICK pc \in {"upsert", "failing"}, paid \in BOOLEAN :
        RunBecomes(w, [run[w] EXCEPT !.pc = pc, !.paid = paid])
  BY DEF RunExtract
<1> DEFINE r == [run[w] EXCEPT !.pc = pc, !.paid = paid]
<1>7. /\ r \in Runs /\ r.pc = pc /\ r.job = run[w].job /\ r.user = run[w].user /\ r.url = run[w].url
  BY <1>2 DEF Runs
<1>8. RunOK(run[w])'
  BY <1>1, <1>5, <1>6, <1>7, Advance
<1> QED
  BY <1>1, <1>4, <1>5, <1>6, <1>7, <1>8, SameRest, RunWrite
\* Completing a job keeps the invariant, whatever became of the job meanwhile.
LEMMA RunCompleteInv ==
  ASSUME IInv, NEW w \in Workers, RunComplete(w)
  PROVE  IInv'
<1> DEFINE j == run[w].job
           row == [jobs[j] EXCEPT !.status = "completed", !.lease = "none", !.stale = FALSE,
                                  !.recipe = run[w].url, !.hit = FALSE]
<1>1. /\ run[w].pc = "complete" /\ Write(j, row) /\ RunTo(w, "charge")
      /\ UNCHANGED <<ledger, usage, recipes, library, closed, access, req>>
  BY DEF RunComplete, RunAt
<1>2. /\ j \in Jobs /\ jobs[j] \in JobRows /\ jobs[j].status # "absent"
      /\ run[w].url \in Urls /\ run[w].url \in recipes /\ jobs[j].url \in {run[w].url, NoUrl}
  BY <1>1, Running
<1>3. /\ row \in JobRows /\ row.status = "completed" /\ row.owner = jobs[j].owner
      /\ row.url = jobs[j].url /\ row.recipe = run[w].url
  BY <1>2 DEF JobRows
<1>4. jobs' \in [Jobs -> JobRows] /\ jobs'[j] = row /\ \A k \in Jobs \ {j} : jobs'[k] = jobs[k]
  BY <1>1, <1>2, <1>3, WriteTyped
<1>5. \A k \in Jobs : Persists(k)
  BY <1>2, <1>3, <1>4 DEF Persists
<1>6. \A k \in Jobs : RowOK(k)'
  <2> HIDE DEF row
  <2>1. \A k \in {j} : RowOK(k)'
    <3>1. /\ jobs[j].owner # NoUser => jobs[j].url \in Urls
          /\ jobs'[j].status = "completed" /\ jobs'[j].owner = jobs[j].owner
          /\ jobs'[j].url = jobs[j].url /\ jobs'[j].recipe = run[w].url /\ recipes' = recipes
      BY <1>1, <1>2, <1>3, <1>4 DEF IInv, RowOK
    <3> QED
      BY <1>2, <3>1 DEF RowOK
  <2>2. \A k \in Jobs \ {j} : RowOK(k)'
    BY <1>1, <1>4 DEF IInv, RowOK
  <2> QED
    BY <2>1, <2>2
<1>7. OneActiveJobPerUrl'
  <2>1. \A k \in Jobs : Active(k)' => k # j
    BY <1>3, <1>4 DEF Active
  <2>2. \A k \in Jobs \ {j} : Active(k)' => Active(k) /\ jobs'[k].url = jobs[k].url
    BY <1>4 DEF Active
  <2>3. \A k, l \in Jobs \ {j} :
          Active(k) /\ Active(l) /\ jobs[k].url = jobs[l].url /\ jobs[k].url # NoUrl => k = l
    BY DEF IInv, OneActiveJobPerUrl
  <2> QED
    BY <2>1, <2>2, <2>3, Zenon DEF OneActiveJobPerUrl
<1> QED
  BY <1>1, <1>4, <1>5, <1>6, <1>7, SameRest, NextRun, RunWrite

\* Failing a job keeps the invariant.
LEMMA RunFailInv ==
  ASSUME IInv, NEW w \in Workers, RunFail(w)
  PROVE  IInv'
<1> DEFINE j == run[w].job
<1>1. run[w].pc = "failing" /\ UNCHANGED <<ledger, usage, recipes, library, closed, access, req>>
  BY DEF RunFail, RunAt
<1>2. j \in Jobs /\ jobs[j] \in JobRows /\ jobs[j].status # "absent"
  BY <1>1, Running
<1>3. jobs' \in [Jobs -> JobRows] /\ \A k \in Jobs : Steady(k)
  <2>1. CASE Write(j, Failed(jobs[j]))
    BY <2>1, <1>2, FailedRow, SteadyWrite
  <2>2. CASE UNCHANGED jobs
    BY <2>2 DEF IInv, TypeOK, Steady, Active
  <2> QED
    BY <2>1, <2>2 DEF RunFail
<1>4. (\A k \in Jobs : Persists(k)) /\ (\A k \in Jobs : RowOK(k)') /\ OneActiveJobPerUrl'
  BY <1>1, <1>3, SteadyRows
<1>5. RunTo(w, "failCharge") \/ RunTo(w, "failSettle")
  BY DEF RunFail
<1> QED
  BY <1>1, <1>3, <1>4, <1>5, SameRest, NextRun, RunWrite

\* The end of a run keeps the invariant.
LEMMA RunEndInv ==
  ASSUME IInv, NEW w \in Workers, RunEnd(w), ledger' \in [Jobs -> LedgerStatus],
         UNCHANGED <<jobs, usage, recipes, library, closed, access, req>>
  PROVE  IInv'
<1>1. IdleRun \in Runs /\ RunBecomes(w, IdleRun)
  BY DEF IdleRun, Runs, RunEnd
<1>2. RunOK(run[w])'
  BY <1>1 DEF IInv, TypeOK, RunBecomes, RunOK, IdleRun
<1> QED
  BY <1>1, <1>2, SameRows, SameRest, RunWrite

\* The other steps of a run, its errors and the death of its worker keep the invariant.
LEMMA RunRestInv ==
  ASSUME IInv, NEW w \in Workers,
         \/ RunUpsert(w) \/ RunAttach(w) \/ RunCharge(w) \/ RunSettle(w) \/ RunBreaks(w) \/ RunDies(w)
  PROVE  IInv'
<1>1. CASE RunUpsert(w)
  <2>1. /\ run[w].pc = "upsert" /\ RunTo(w, "attach") /\ recipes' = recipes \cup {run[w].url}
        /\ UNCHANGED <<jobs, ledger, usage, library, closed, access, req>>
    BY <1>1 DEF RunUpsert, RunAt
  <2>2. recipes \subseteq recipes' /\ recipes' \subseteq Urls /\ run[w].url \in recipes'
    BY <2>1, Running DEF IInv, TypeOK
  <2> QED
    BY <2>1, <2>2, SameRows, SameRest, NextRun, RunWrite
<1>2. CASE RunAttach(w)
  <2>1. /\ run[w].pc = "attach" /\ RunTo(w, "complete") /\ SaveUserRecipe(run[w].user, run[w].url)
        /\ UNCHANGED <<jobs, ledger, usage, recipes, closed, access, req>>
    BY <1>2 DEF RunAttach, RunAt
  <2>2. library' \subseteq Users \X Urls /\ ClosedLibraryEmpty' /\ run[w].url \in recipes
    BY <2>1, Running, SaveUserRecipeInv
  <2> QED
    BY <2>1, <2>2, SameRows, SameRest, NextRun, RunWrite
<1>3. CASE RunCharge(w)
  <2>1. /\ run[w].pc # "idle" /\ (RunTo(w, "settle") \/ RunTo(w, "failSettle"))
        /\ UNCHANGED <<jobs, ledger, recipes, library, closed, access, req>>
    BY <1>3 DEF RunCharge
  <2>2. usage' \in [Jobs -> Nat]
    BY <1>3, <2>1, Running DEF RunCharge, IInv, TypeOK
  <2> QED
    BY <2>1, <2>2, SameRows, SameRest, NextRun, RunWrite
<1>4. CASE RunSettle(w)
  <2>1. /\ run[w].pc # "idle" /\ RunEnd(w)
        /\ UNCHANGED <<jobs, usage, recipes, library, closed, access, req>>
    BY <1>4 DEF RunSettle
  <2>2. ledger' \in [Jobs -> LedgerStatus]
    BY <1>4, <2>1, Running, SettleTyped DEF RunSettle
  <2> QED
    BY <2>1, <2>2, RunEndInv
<1>5. CASE RunBreaks(w)
  <2>1. run[w].pc # "idle" /\ RunTo(w, "failing") /\ UNCHANGED <<store, req>>
    BY <1>5 DEF RunBreaks
  <2> QED
    BY <2>1, SameRows, SameRest, NextRun, RunWrite DEF store
<1>6. CASE RunDies(w)
  BY <1>6, SameRest, RunEndInv DEF RunDies, store
<1> QED
  BY <1>1, <1>2, <1>3, <1>4, <1>5, <1>6
\* Failing the exhausted jobs is steady.
LEMMA ExhaustSteady ==
  ASSUME IInv
  PROVE  /\ ExhaustedRows \in [Jobs -> JobRows]
         /\ \A j \in Jobs :
              /\ ExhaustedRows[j].owner = jobs[j].owner /\ ExhaustedRows[j].url = jobs[j].url
              /\ ExhaustedRows[j].recipe = jobs[j].recipe
              /\ ExhaustedRows[j].status \in {jobs[j].status, "failed"}
<1>1. \A row \in JobRows :
        /\ Exhaust(row) \in JobRows /\ Exhaust(row).owner = row.owner /\ Exhaust(row).url = row.url
        /\ Exhaust(row).recipe = row.recipe /\ Exhaust(row).status = "failed"
  <2> SUFFICES ASSUME NEW row \in JobRows
               PROVE  /\ Exhaust(row) \in JobRows /\ Exhaust(row).owner = row.owner
                      /\ Exhaust(row).url = row.url /\ Exhaust(row).recipe = row.recipe
                      /\ Exhaust(row).status = "failed"
    OBVIOUS
  <2>1. Exhaust(row) \in JobRows
    BY DEF Exhaust, JobRows
  <2>2. /\ Exhaust(row).owner = row.owner /\ Exhaust(row).url = row.url
        /\ Exhaust(row).recipe = row.recipe /\ Exhaust(row).status = "failed"
    BY DEF Exhaust, JobRows
  <2> QED
    BY <2>1, <2>2
<1>2. \A j \in Jobs : ExhaustedRows[j] = IF j \in Dead THEN Exhaust(jobs[j]) ELSE jobs[j]
  BY DEF ExhaustedRows
<1>3. ExhaustedRows \in [Jobs -> JobRows]
  BY <1>1 DEF ExhaustedRows, IInv, TypeOK
<1> QED
  BY <1>1, <1>2, <1>3 DEF IInv, TypeOK

\* Releasing their reservations keeps the ledger typed.
LEMMA ReleaseTyped ==
  ASSUME IInv, ReleaseExhausted
  PROVE  ledger' \in [Jobs -> LedgerStatus]
  BY DEF IInv, TypeOK, ReleaseExhausted, LedgerStatus

\* A claimed row stays within the attempts and keeps its owner, URL and recipe.
LEMMA ClaimRow ==
  ASSUME IInv, NEW j \in Claimable
  PROVE  LET row == Claim(jobs[j]) IN
         /\ row \in JobRows /\ row.status = "processing" /\ row.owner = jobs[j].owner
         /\ row.url = jobs[j].url /\ row.recipe = jobs[j].recipe
<1>1. jobs[j] \in JobRows /\ jobs[j].attempts < MaxAttempts
  BY DEF IInv, TypeOK, Claimable
<1>2. jobs[j].attempts + 1 \in 0..MaxAttempts
  BY <1>1, BoundsAssumption DEF JobRows
<1> QED
  BY <1>1, <1>2 DEF Claim, JobRows

\* The claim is steady.
LEMMA ClaimRows ==
  ASSUME IInv, NEW j \in Claimable, jobs' = [ExhaustedRows EXCEPT ![j] = Claim(jobs[j])],
         UNCHANGED recipes
  PROVE  jobs' \in [Jobs -> JobRows] /\ \A k \in Jobs : Steady(k)
<1>1. j \in Jobs /\ Active(j)
  BY DEF Claimable
<1>2. jobs' \in [Jobs -> JobRows]
  BY <1>1, ExhaustSteady, ClaimRow
<1>3. \A k \in Jobs : jobs'[k] = IF k = j THEN Claim(jobs[j]) ELSE ExhaustedRows[k]
  BY <1>1, ExhaustSteady
<1>4. Steady(j)
  BY <1>1, <1>3, ClaimRow DEF Steady
<1>5. \A k \in Jobs \ {j} : Steady(k)
  BY <1>3, ExhaustSteady DEF Steady, Active
<1> QED
  BY <1>2, <1>4, <1>5

\* Claiming a job keeps the invariant.
LEMMA ClaimJobInv ==
  ASSUME IInv, NEW w \in Workers, ClaimJob(w)
  PROVE  IInv'
<1>1. PICK j \in Claimable :
        /\ jobs' = [ExhaustedRows EXCEPT ![j] = Claim(jobs[j])]
        /\ IF jobs[j].owner = NoUser THEN UNCHANGED run
           ELSE RunBecomes(w, [pc |-> "claimed", job |-> j, user |-> jobs[j].owner,
                               url |-> jobs[j].url, paid |-> FALSE])
  BY DEF ClaimJob
<1>2. /\ UNCHANGED <<usage, recipes, library, closed, access, req>> /\ ReleaseExhausted
      /\ j \in Jobs
  BY DEF ClaimJob, Claimable
<1>3. jobs' \in [Jobs -> JobRows] /\ \A k \in Jobs : Steady(k)
  BY <1>1, <1>2, ClaimRows
<1>4. (\A k \in Jobs : Persists(k)) /\ (\A k \in Jobs : RowOK(k)') /\ OneActiveJobPerUrl'
  BY <1>2, <1>3, SteadyRows
<1>5. ledger' \in [Jobs -> LedgerStatus]
  BY <1>2, ReleaseTyped
<1>6. CASE jobs[j].owner = NoUser
  <2>1. UNCHANGED run
    BY <1>1, <1>6
  <2>2. \A v \in Workers : RunOK(run[v])'
    BY <1>2, <1>4, <2>1, OtherRun
  <2>3. \A h \in Handlers : RequestOK(req[h])'
    BY <1>2, <1>4, OtherRequest
  <2> QED
    BY <1>2, <1>3, <1>4, <1>5, <2>1, <2>2, <2>3 DEF IInv, TypeOK, ClosedLibraryEmpty
<1>7. CASE jobs[j].owner # NoUser
  <2> DEFINE r == [pc |-> "claimed", job |-> j, user |-> jobs[j].owner, url |-> jobs[j].url,
                   paid |-> FALSE]
  <2>1. jobs[j].owner \in Users /\ jobs[j].url \in Urls /\ jobs[j].status # "absent"
    BY <1>2, <1>7 DEF IInv, TypeOK, JobRows, RowOK
  <2>2. r \in Runs /\ RunBecomes(w, r)
    BY <1>1, <1>2, <1>7, <2>1 DEF Runs
  <2>3. run'[w] = r
    BY <2>2 DEF IInv, TypeOK, RunBecomes
  <2>4. RunOK(run[w])'
    BY <1>2, <1>3, <2>1, <2>3 DEF RunOK, Steady
  <2> QED
    BY <1>2, <1>3, <1>4, <1>5, <2>2, <2>4, SameRest, RunWrite
<1> QED
  BY <1>6, <1>7

\* A step of neither a request nor a run.
LEMMA StoreWrite ==
  ASSUME IInv, jobs' \in [Jobs -> JobRows], \A j \in Jobs : Persists(j),
         \A j \in Jobs : RowOK(j)', OneActiveJobPerUrl', ledger' \in [Jobs -> LedgerStatus],
         library' \subseteq Users \X Urls, closed' \subseteq Users, access' = {},
         ClosedLibraryEmpty', UNCHANGED <<usage, recipes, req, run>>
  PROVE  IInv'
<1>1. \A w \in Workers : RunOK(run[w])'
  BY OtherRun
<1>2. \A h \in Handlers : RequestOK(req[h])'
  BY OtherRequest
<1> QED
  BY <1>1, <1>2 DEF IInv, TypeOK

\* The same, when it leaves the rows steady.
LEMMA SteadyStore ==
  ASSUME IInv, jobs' \in [Jobs -> JobRows], \A j \in Jobs : Steady(j),
         ledger' \in [Jobs -> LedgerStatus],
         UNCHANGED <<usage, recipes, library, closed, access, req, run>>
  PROVE  IInv'
<1>1. (\A k \in Jobs : Persists(k)) /\ (\A k \in Jobs : RowOK(k)') /\ OneActiveJobPerUrl'
  BY SteadyRows
<1>2. /\ library' \subseteq Users \X Urls /\ closed' \subseteq Users /\ access' = {}
      /\ ClosedLibraryEmpty'
  BY SameRest DEF IInv, TypeOK
<1> QED
  BY <1>1, <1>2, StoreWrite

\* An idle poll of a worker and the passing of time keep the invariant.
LEMMA TimeInv ==
  ASSUME IInv, \/ \E w \in Workers : ClaimNothing(w)
               \/ \E j \in Jobs : LeaseExpires(j) \/ JobGoesStale(j) \/ ReservationAges(j)
  PROVE  IInv'
<1>1. ASSUME NEW w \in Workers, ClaimNothing(w)
      PROVE  IInv'
  <2>1. \A j \in Jobs : Steady(j)
    BY <1>1, ExhaustSteady DEF ClaimNothing, Steady, Active
  <2> QED
    BY <1>1, <2>1, ExhaustSteady, ReleaseTyped, SteadyStore DEF ClaimNothing
<1>2. ASSUME NEW j \in Jobs, LeaseExpires(j) \/ JobGoesStale(j)
      PROVE  IInv'
  <2>1. jobs[j] \in JobRows
    BY DEF IInv, TypeOK
  <2>2. ASSUME NEW row \in {[jobs[j] EXCEPT !.lease = "expired"], [jobs[j] EXCEPT !.stale = TRUE]}
        PROVE  /\ row \in JobRows /\ row.status = jobs[j].status /\ row.owner = jobs[j].owner
               /\ row.url = jobs[j].url /\ row.recipe = jobs[j].recipe
    BY <2>1 DEF JobRows
  <2>3. PICK row \in {[jobs[j] EXCEPT !.lease = "expired"], [jobs[j] EXCEPT !.stale = TRUE]} :
          Write(j, row)
    BY <1>2 DEF LeaseExpires, JobGoesStale
  <2>4. jobs' \in [Jobs -> JobRows] /\ \A k \in Jobs : Steady(k)
    BY <2>2, <2>3, SteadyWrite DEF Active
  <2> QED
    BY <1>2, <2>4, SameRest, SteadyStore DEF LeaseExpires, JobGoesStale
<1>3. ASSUME NEW j \in Jobs, ReservationAges(j)
      PROVE  IInv'
  <2>1. ledger' \in [Jobs -> LedgerStatus]
    BY <1>3 DEF IInv, TypeOK, ReservationAges, LedgerStatus
  <2>2. \A k \in Jobs : Steady(k)
    BY <1>3 DEF ReservationAges, Steady, Active
  <2> QED
    BY <1>3, <2>1, <2>2, SteadyStore DEF ReservationAges, IInv, TypeOK
<1> QED
  BY <1>1, <1>2, <1>3

\* Deleting an account keeps the invariant, whatever is running for it.
LEMMA DeleteAccountInv ==
  ASSUME IInv, NEW u \in Users, DeleteAccount(u)
  PROVE  IInv'
<1>1. \A j \in Jobs :
        LET row == Anonymised(j) IN
        /\ row \in JobRows /\ row.owner = NoUser /\ row.url = NoUrl
        /\ row.recipe = jobs[j].recipe /\ row.status = IF Active(j) THEN "failed" ELSE jobs[j].status
  <2> TAKE j \in Jobs
  <2>1. jobs[j] \in JobRows
    BY DEF IInv, TypeOK
  <2> QED
    BY <2>1 DEF Anonymised, JobRows
<1>2. jobs' \in [Jobs -> JobRows]
  BY <1>1 DEF DeleteAccount, IInv, TypeOK
<1>3. \A j \in Jobs : jobs'[j] = IF jobs[j].owner = u THEN Anonymised(j) ELSE jobs[j]
  BY DEF DeleteAccount
<1>4. \A j \in Jobs : Persists(j)
  BY <1>1, <1>3 DEF Persists
<1>5. \A j \in Jobs : RowOK(j)'
  BY <1>1, <1>3 DEF DeleteAccount, IInv, RowOK
<1>6. OneActiveJobPerUrl'
  <2>1. \A j \in Jobs : jobs'[j].url # NoUrl => jobs'[j] = jobs[j]
    BY <1>1, <1>3
  <2> QED
    BY <2>1 DEF IInv, OneActiveJobPerUrl, Active
<1>7. library' \subseteq Users \X Urls /\ closed' \subseteq Users /\ access' = {} /\ ClosedLibraryEmpty'
  BY DEF DeleteAccount, IInv, TypeOK, ClosedLibraryEmpty
<1>8. ledger' \in [Jobs -> LedgerStatus]
  BY DEF DeleteAccount, IInv, TypeOK
<1> QED
  BY <1>2, <1>4, <1>5, <1>6, <1>7, <1>8, StoreWrite DEF DeleteAccount

\* Reopening an account keeps the invariant.
LEMMA ReactivateInv ==
  ASSUME IInv, NEW u \in Users, Reactivate(u)
  PROVE  IInv'
<1>1. library' \subseteq Users \X Urls /\ closed' \subseteq Users /\ access' = {} /\ ClosedLibraryEmpty'
  BY DEF Reactivate, IInv, TypeOK, ClosedLibraryEmpty
<1> QED
  BY <1>1, SameRows, SameRest, StoreWrite DEF Reactivate

\* Every step keeps the invariant.
THEOREM StepIInv == IInv /\ [Next]_vars => IInv'
<1> SUFFICES ASSUME IInv, [Next]_vars PROVE IInv'
  OBVIOUS
<1>1. ASSUME NEW h \in Handlers, NEW u \in Users, NEW url \in Urls,
             NEW d \in Deliveries \cup {NoDelivery}, Submit(h, u, url, d)
      PROVE  IInv'
  BY <1>1, SubmitInv
<1>2. ASSUME NEW h \in Handlers, NEW u \in Users, NEW j \in Jobs, Poll(h, u, j)
      PROVE  IInv'
  BY <1>2, PollInv
<1>3. ASSUME NEW h \in Handlers, RequestStep(h) \/ RequestDies(h)
      PROVE  IInv'
  BY <1>3, DeliveryLookupInv, LookupsInv, CreateInv, AttachInv, ExpireJobInv, ExpireSettleInv,
     ReserveInv, RefuseJobInv DEF RequestStep
<1>4. ASSUME NEW w \in Workers, ClaimNext(w) \/ RunStep(w) \/ RunDies(w)
      PROVE  IInv'
  BY <1>4, ClaimJobInv, TimeInv, RunStartInv, RunExtractInv, RunCompleteInv, RunFailInv,
     RunRestInv DEF ClaimNext, RunStep
<1>5. ASSUME NEW u \in Users, DeleteAccount(u) \/ Reactivate(u)
      PROVE  IInv'
  BY <1>5, DeleteAccountInv, ReactivateInv
<1>6. ASSUME NEW j \in Jobs, LeaseExpires(j) \/ JobGoesStale(j) \/ ReservationAges(j)
      PROVE  IInv'
  BY <1>6, TimeInv
<1>7. CASE UNCHANGED vars
  <2>1. \A w \in Workers : RunOK(run[w])'
    BY <1>7 DEF IInv, RunOK, vars
  <2>2. \A h \in Handlers : RequestOK(req[h])'
    BY <1>7 DEF IInv, RequestOK, vars
  <2> QED
    BY <1>7, <2>1, <2>2, SameRows, SameRest DEF IInv, TypeOK, vars
<1> QED
  BY <1>1, <1>2, <1>3, <1>4, <1>5, <1>6, <1>7 DEF Next

\* The invariant holds in every reachable state.
THEOREM Invariance == Spec => []IInv
  BY InitIInv, StepIInv, PTL DEF Spec
-----------------------------------------------------------------------------
\* Every variable keeps its type: no attempt is counted beyond the ceiling of the
\* SQL, and no request or run reaches a statement without what it needs there.
THEOREM Typing == Spec => []TypeOK
<1>1. IInv => TypeOK
  BY DEF IInv
<1> QED
  BY <1>1, Invariance, PTL

\* A URL has at most one active import, however many requests and workers race.
THEOREM SingleActiveImport == Spec => []OneActiveJobPerUrl
<1>1. IInv => OneActiveJobPerUrl
  BY DEF IInv
<1> QED
  BY <1>1, Invariance, PTL

\* Whatever was still running when an account was deleted, its library stays empty.
THEOREM NothingSavedForClosed == Spec => []ClosedLibraryEmpty
<1>1. IInv => ClosedLibraryEmpty
  BY DEF IInv
<1> QED
  BY <1>1, Invariance, PTL

\* No request answers with, expires or fails the import of another user.
THEOREM OwnJobsOnly == Spec => []RequestsKeepToOwnJobs
<1>1. IInv => RequestsKeepToOwnJobs
  BY DEF IInv, RequestOK, RequestsKeepToOwnJobs
<1> QED
  BY <1>1, Invariance, PTL

\* No request is answered with an import of another URL.
THEOREM OwnUrlOnly == Spec => []RequestsKeepToTheirUrl
<1>1. IInv => RequestsKeepToTheirUrl
  BY DEF IInv, RequestOK, RequestsKeepToTheirUrl
<1> QED
  BY <1>1, Invariance, PTL

\* A completed import names a recipe that exists.
THEOREM CompletionIsBacked == Spec => []CompletedHasRecipe
<1>1. IInv => CompletedHasRecipe
  BY DEF IInv, RowOK, CompletedHasRecipe
<1> QED
  BY <1>1, Invariance, PTL

\* Under row level security no import is ever shared: extract_job_access stays empty
\* and the branch of _share_job_or_http that grants access is never taken.
THEOREM NothingIsShared == Spec => [](access = {})
<1>1. IInv => access = {}
  BY DEF IInv
<1> QED
  BY <1>1, Invariance, PTL

-----------------------------------------------------------------------------
\* A closed ledger row keeps its status in this step.
LedgerFinal == \A j \in Jobs : ledger[j] \in {"settled", "failed"} => ledger'[j] = ledger[j]

\* Settling leaves closed rows alone.
LEMMA SettleFinal ==
  ASSUME IInv, NEW j \in Jobs, NEW status \in {"settled", "failed"},
         Settle(j, status) \/ UNCHANGED ledger
  PROVE  LedgerFinal
  BY DEF IInv, TypeOK, Settle, LedgerFinal

\* The sweep of overdue reservations and a new reservation leave closed rows alone.
LEMMA ReserveFinal ==
  ASSUME IInv, NEW h \in Handlers, Reserve(h)
  PROVE  LedgerFinal
<1>1. req[h].job \in Jobs
  BY DEF IInv, RequestOK, Reserve, At
<1>2. \A j \in Jobs : ledger[j] \in {"settled", "failed"} => Swept[j] = ledger[j]
  BY DEF Swept
<1>3. \/ UNCHANGED ledger \/ ledger' = Swept
      \/ Swept[req[h].job] = "none" /\ ledger' = [Swept EXCEPT ![req[h].job] = "reserved"]
  BY DEF Reserve
<1> QED
  BY <1>1, <1>2, <1>3 DEF LedgerFinal, Swept

\* Every step leaves closed ledger rows alone.
LEMMA StepFinal ==
  ASSUME IInv, [Next]_vars
  PROVE  LedgerFinal
<1>1. ASSUME NEW h \in Handlers, ExpireSettle(h)
      PROVE  LedgerFinal
  <2>1. req[h].job \in Jobs
    BY <1>1 DEF IInv, RequestOK, ExpireSettle, At
  <2> QED
    BY <1>1, <2>1, SettleFinal DEF ExpireSettle
<1>2. ASSUME NEW w \in Workers, RunSettle(w)
      PROVE  LedgerFinal
  <2>1. run[w].job \in Jobs
    BY <1>2, Running DEF RunSettle
  <2> QED
    BY <1>2, <2>1, SettleFinal DEF RunSettle
<1>3. CASE ReleaseExhausted
  BY <1>3 DEF ReleaseExhausted, LedgerFinal
<1>4. ASSUME NEW j \in Jobs, ReservationAges(j)
      PROVE  LedgerFinal
  BY <1>4 DEF ReservationAges, LedgerFinal, IInv, TypeOK
<1>5. CASE UNCHANGED ledger
  BY <1>5 DEF LedgerFinal
<1>6. ASSUME NEW h \in Handlers, RequestStep(h) \/ RequestDies(h)
      PROVE  LedgerFinal
  BY <1>1, <1>5, <1>6, ReserveFinal
  DEF RequestStep, RequestDies, DeliveryLookup, CacheLookup, CreateHit, Attach, ActiveLookup,
      ExpireJob, RejectAdmission, CreateJob, ReplayLookup, WinnerLookup, CreateRaises,
      RecoverLookup, RefuseJob, store
<1>7. ASSUME NEW w \in Workers, ClaimNext(w) \/ RunStep(w) \/ RunDies(w)
      PROVE  LedgerFinal
  BY <1>2, <1>3, <1>5, <1>7
  DEF ClaimNext, ClaimJob, ClaimNothing, RunStep, RunStart, RunExtract, RunUpsert, RunAttach,
      RunComplete, RunFail, RunCharge, RunBreaks, RunDies, store
<1> QED
  BY <1>4, <1>5, <1>6, <1>7 DEF Next, Submit, Poll, DeleteAccount, Reactivate, LeaseExpires,
     JobGoesStale, vars, store

\* No step rewrites a settled or failed ledger row.
THEOREM LedgerFinality == Spec => LedgerRowsAreFinal
<1>1. IInv /\ [Next]_vars =>
        [\A j \in Jobs : ledger[j] \in {"settled", "failed"} => ledger'[j] = ledger[j]]_vars
  BY StepFinal DEF LedgerFinal
<1> QED
  BY <1>1, Invariance, PTL DEF Spec, LedgerRowsAreFinal

-----------------------------------------------------------------------------
\* The workers whose run of a job may still record a charge for it.
Owing(j) == {w \in Workers : run[w].job = j /\ run[w].pc \notin {"idle", "settle", "failSettle"}}

\* The inductive invariant of the charges: every charge recorded, and every run that
\* may still record one, has an attempt of its own.
ChargeInv ==
  /\ \A j \in Jobs : jobs[j].status = "absent" => jobs[j].attempts = 0
  /\ \A j \in Jobs : usage[j] + Cardinality(Owing(j)) <= jobs[j].attempts

\* In this step the row loses no attempt, and does not become absent.
Counted(j) ==
  /\ jobs'[j].attempts >= jobs[j].attempts
  /\ jobs'[j].status = "absent" =>
       jobs[j].status = "absent" /\ jobs'[j].attempts = jobs[j].attempts

\* Sets of workers are finite, and a part is no larger than the whole.
LEMMA FewerWorkers ==
  ASSUME NEW S \in SUBSET Workers, NEW T \in SUBSET S
  PROVE  /\ IsFiniteSet(S) /\ Cardinality(S) \in Nat /\ Cardinality(T) \in Nat
         /\ Cardinality(T) <= Cardinality(S)
<1>1. IsFiniteSet(S) /\ IsFiniteSet(T)
  BY WorkersAssumption, FS_Subset
<1> QED
  BY <1>1, FS_Subset, FS_CardinalityType

\* No run is owing before there is one.
LEMMA InitCharge == Init => ChargeInv
<1> SUFFICES ASSUME Init PROVE ChargeInv
  OBVIOUS
<1>1. \A j \in Jobs : Owing(j) = {}
  BY DEF Init, Owing, IdleRun
<1>2. \A j \in Jobs : jobs[j].attempts = 0 /\ usage[j] = 0
  BY DEF Init, NoRow
<1> QED
  BY <1>1, <1>2, FS_EmptySet DEF ChargeInv

\* Writing a present row that keeps its attempts counts every row.
LEMMA WriteCounted ==
  ASSUME IInv, NEW j \in Jobs, NEW row, Write(j, row), row.attempts = jobs[j].attempts,
         row.status = "absent" => jobs[j].status = "absent"
  PROVE  \A k \in Jobs : Counted(k)
<1>1. \A k \in Jobs : jobs[k] \in JobRows /\ jobs'[k] = IF k = j THEN row ELSE jobs[k]
  BY DEF IInv, TypeOK, Write
<1>2. \A k \in Jobs : jobs[k].attempts \in Nat
  BY <1>1, BoundsAssumption DEF JobRows
<1> QED
  BY <1>1, <1>2 DEF Counted

\* Rows that do not change are counted.
LEMMA SameCounted ==
  ASSUME IInv, UNCHANGED jobs
  PROVE  \A k \in Jobs : Counted(k)
<1>1. \A k \in Jobs : jobs[k].attempts \in Nat
  BY BoundsAssumption DEF IInv, TypeOK, JobRows
<1> QED
  BY <1>1 DEF Counted

\* The requests count no attempt.
LEMMA RequestCounted ==
  ASSUME IInv, ChargeInv, NEW h \in Handlers, RequestStep(h) \/ RequestDies(h)
  PROVE  \A k \in Jobs : Counted(k)
<1>1. CASE UNCHANGED jobs
  BY <1>1, SameCounted
<1>2. ASSUME NEW j \in NextId,
             Write(j, NewHit(req[h])) \/ Write(j, NewRow(req[h], "pending"))
      PROVE  \A k \in Jobs : Counted(k)
  <2>1. j \in Jobs /\ jobs[j].attempts = 0
    BY <1>2 DEF NextId, Absent, ChargeInv
  <2>2. /\ NewHit(req[h]).attempts = 0 /\ NewHit(req[h]).status # "absent"
        /\ NewRow(req[h], "pending").attempts = 0 /\ NewRow(req[h], "pending").status # "absent"
    BY DEF NewHit, NewRow, NoRow
  <2> QED
    BY <1>2, <2>1, <2>2, WriteCounted
<1>3. ASSUME NEW j \in Jobs, Write(j, Failed(jobs[j])) \/ Write(j, Refused(jobs[j]))
      PROVE  \A k \in Jobs : Counted(k)
  <2>1. jobs[j] \in JobRows
    BY DEF IInv, TypeOK
  <2>2. /\ Failed(jobs[j]).attempts = jobs[j].attempts /\ Failed(jobs[j]).status = "failed"
        /\ Refused(jobs[j]).attempts = jobs[j].attempts /\ Refused(jobs[j]).status = "failed"
    BY <2>1 DEF Failed, Refused, JobRows
  <2> QED
    BY <1>3, <2>2, WriteCounted
<1>4. req[h].pc \in {"expire", "refuse"} => req[h].job \in Jobs
  BY DEF IInv, RequestOK
<1>5. CASE CreateHit(h) \/ CreateJob(h)
  BY <1>1, <1>2, <1>5 DEF CreateHit, CreateJob
<1>6. CASE ExpireJob(h) \/ RefuseJob(h)
  BY <1>1, <1>3, <1>4, <1>6 DEF ExpireJob, RefuseJob, At
<1> QED
  BY <1>1, <1>5, <1>6
  DEF RequestStep, RequestDies, DeliveryLookup, CacheLookup, Attach, ActiveLookup, ExpireSettle,
      RejectAdmission, ReplayLookup, WinnerLookup, CreateRaises, RecoverLookup, Reserve, store

\* The statements of a run count no attempt.
LEMMA RunCounted ==
  ASSUME IInv, NEW w \in Workers, RunStep(w) \/ RunDies(w)
  PROVE  \A k \in Jobs : Counted(k)
<1>1. CASE UNCHANGED jobs
  BY <1>1, SameCounted
<1>2. run[w].pc # "idle" => run[w].job \in Jobs /\ jobs[run[w].job] \in JobRows
  BY DEF IInv, TypeOK, RunOK
<1>3. ASSUME NEW j \in Jobs, jobs[j] \in JobRows,
             \/ Write(j, [jobs[j] EXCEPT !.status = "processing", !.stale = FALSE])
             \/ Write(j, [jobs[j] EXCEPT !.stale = FALSE])
             \/ Write(j, Failed(jobs[j]))
             \/ Write(j, [jobs[j] EXCEPT !.status = "completed", !.lease = "none",
                                         !.stale = FALSE, !.recipe = run[w].url, !.hit = FALSE])
      PROVE  \A k \in Jobs : Counted(k)
  <2>1. CASE Write(j, [jobs[j] EXCEPT !.status = "processing", !.stale = FALSE])
    BY <1>3, <2>1, WriteCounted DEF JobRows
  <2>2. CASE Write(j, [jobs[j] EXCEPT !.stale = FALSE])
    BY <1>3, <2>2, WriteCounted DEF JobRows
  <2>3. CASE Write(j, Failed(jobs[j]))
    BY <1>3, <2>3, WriteCounted DEF JobRows, Failed
  <2>4. CASE Write(j, [jobs[j] EXCEPT !.status = "completed", !.lease = "none", !.stale = FALSE,
                                      !.recipe = run[w].url, !.hit = FALSE])
    BY <1>3, <2>4, WriteCounted DEF JobRows
  <2> QED
    BY <1>3, <2>1, <2>2, <2>3, <2>4
<1>4. CASE RunStart(w) \/ RunExtract(w) \/ RunComplete(w) \/ RunFail(w)
  BY <1>1, <1>2, <1>3, <1>4 DEF RunStart, RunExtract, RunComplete, RunFail, RunAt
<1> QED
  BY <1>1, <1>4
  DEF RunStep, RunDies, RunUpsert, RunAttach, RunCharge, RunSettle, RunBreaks, store

\* The statements of a claim before the claim itself count no attempt.
LEMMA ExhaustCounted ==
  ASSUME IInv
  PROVE  \A k \in Jobs : /\ ExhaustedRows[k].attempts = jobs[k].attempts
                         /\ ExhaustedRows[k].status = "absent" => jobs[k].status = "absent"
  BY DEF IInv, TypeOK, JobRows, ExhaustedRows, Exhaust

\* Polls for work, accounts and time count no attempt.
LEMMA RestCounted ==
  ASSUME IInv,
         \/ \E w \in Workers : ClaimNothing(w)
         \/ \E u \in Users : DeleteAccount(u) \/ Reactivate(u)
         \/ \E j \in Jobs : LeaseExpires(j) \/ JobGoesStale(j) \/ ReservationAges(j)
  PROVE  \A k \in Jobs : Counted(k)
<1>1. \A k \in Jobs : jobs[k] \in JobRows /\ jobs[k].attempts \in Nat
  BY BoundsAssumption DEF IInv, TypeOK, JobRows
<1>2. ASSUME NEW w \in Workers, ClaimNothing(w)
      PROVE  \A k \in Jobs : Counted(k)
  BY <1>1, <1>2, ExhaustCounted DEF ClaimNothing, Counted
<1>3. ASSUME NEW u \in Users, DeleteAccount(u)
      PROVE  \A k \in Jobs : Counted(k)
  <2>1. \A k \in Jobs : /\ Anonymised(k).attempts = jobs[k].attempts
                        /\ Anonymised(k).status = "absent" => jobs[k].status = "absent"
    BY <1>1 DEF Anonymised, JobRows
  <2> QED
    BY <1>1, <1>3, <2>1 DEF DeleteAccount, Counted
<1>4. ASSUME NEW j \in Jobs, LeaseExpires(j)
      PROVE  \A k \in Jobs : Counted(k)
  BY <1>1, <1>4, WriteCounted DEF LeaseExpires, JobRows
<1>5. ASSUME NEW j \in Jobs, JobGoesStale(j)
      PROVE  \A k \in Jobs : Counted(k)
  BY <1>1, <1>5, WriteCounted DEF JobGoesStale, JobRows
<1> QED
  BY <1>2, <1>3, <1>4, <1>5, SameCounted DEF Reactivate, ReservationAges

\* A step that counts every row, charges nothing and leaves no further run owing keeps
\* the invariant of the charges.
LEMMA SteadyCharge ==
  ASSUME IInv, IInv', ChargeInv, UNCHANGED usage, \A j \in Jobs : Counted(j),
         \A j \in Jobs : Owing(j)' \subseteq Owing(j)
  PROVE  ChargeInv'
<1>1. \A j \in Jobs : /\ Cardinality(Owing(j)) \in Nat /\ Cardinality(Owing(j)') \in Nat
                      /\ Cardinality(Owing(j)') <= Cardinality(Owing(j))
  BY FewerWorkers DEF Owing
<1>2. \A j \in Jobs : /\ usage[j] \in Nat
                      /\ jobs[j].attempts \in Nat /\ jobs'[j].attempts \in Nat
  BY BoundsAssumption DEF IInv, TypeOK, JobRows
<1>3. \A j \in Jobs : jobs'[j].status = "absent" => jobs'[j].attempts = 0
  BY DEF ChargeInv, Counted
<1>4. \A j \in Jobs : usage'[j] + Cardinality(Owing(j)') <= jobs'[j].attempts
  BY <1>1, <1>2 DEF ChargeInv, Counted
<1> QED
  BY <1>3, <1>4 DEF ChargeInv

\* A run that goes on, or ends, is owing only if it was.
LEMMA RunOwing ==
  ASSUME IInv, NEW w \in Workers, RunStep(w) \/ RunDies(w)
  PROVE  \A j \in Jobs : Owing(j)' \subseteq Owing(j)
<1>1. run \in [Workers -> Runs]
  BY DEF IInv, TypeOK
<1>2. CASE RunEnd(w)
  BY <1>1, <1>2 DEF RunEnd, RunBecomes, IdleRun, Owing
<1>3. ASSUME NEW pc, RunTo(w, pc), run[w].pc \notin {"idle", "settle", "failSettle"}
      PROVE  \A j \in Jobs : Owing(j)' \subseteq Owing(j)
  BY <1>1, <1>3 DEF RunTo, RunBecomes, Runs, Owing
<1>4. CASE RunExtract(w)
  <2>1. PICK pc \in {"upsert", "failing"}, paid \in BOOLEAN :
          run' = [run EXCEPT ![w] = [run[w] EXCEPT !.pc = pc, !.paid = paid]]
    BY <1>4 DEF RunExtract, RunBecomes
  <2> QED
    BY <1>1, <1>4, <2>1 DEF RunExtract, RunAt, Runs, Owing
<1> QED
  BY <1>2, <1>3, <1>4
  DEF RunStep, RunDies, RunStart, RunUpsert, RunAttach, RunComplete, RunFail, RunCharge,
      RunSettle, RunBreaks, RunAt

\* A recorded charge takes the place of the run that owed it.
LEMMA RunChargeKeeps ==
  ASSUME IInv, IInv', ChargeInv, NEW w \in Workers, RunCharge(w)
  PROVE  ChargeInv'
<1>1. /\ run \in [Workers -> Runs] /\ usage \in [Jobs -> Nat]
      /\ run[w].pc \in {"charge", "failCharge"} /\ UNCHANGED jobs
  BY DEF IInv, TypeOK, RunCharge
<1>2. PICK j \in Jobs : j = run[w].job
  BY <1>1 DEF IInv, RunOK
<1>3. \A k \in Jobs : Owing(k)' \subseteq Owing(k)
  BY RunOwing DEF RunStep
<1>4. w \in Owing(j) /\ Owing(j)' = Owing(j) \ {w}
  BY <1>1, <1>2 DEF RunCharge, RunTo, RunBecomes, RunAt, Runs, Owing
<1>5. Cardinality(Owing(j)') = Cardinality(Owing(j)) - 1
  <2>1. IsFiniteSet(Owing(j))
    BY FewerWorkers DEF Owing
  <2> QED
    BY <1>4, <2>1, FS_RemoveElement
<1>6. \A k \in Jobs : /\ Cardinality(Owing(k)) \in Nat /\ Cardinality(Owing(k)') \in Nat
                      /\ Cardinality(Owing(k)') <= Cardinality(Owing(k))
  BY <1>3, FewerWorkers DEF Owing
<1>7. \A k \in Jobs : jobs[k].attempts \in Nat
  BY BoundsAssumption DEF IInv, TypeOK, JobRows
<1>8. \A k \in Jobs : usage'[k] = usage[k] \/ (k = j /\ usage'[k] = usage[k] + 1)
  BY <1>1, <1>2 DEF RunCharge
<1>9. \A k \in Jobs : usage'[k] + Cardinality(Owing(k)') <= jobs'[k].attempts
  <2>1. \A k \in Jobs : usage[k] \in Nat /\ jobs'[k] = jobs[k]
    BY <1>1
  <2>2. ASSUME NEW k \in Jobs, k # j
        PROVE  usage'[k] + Cardinality(Owing(k)') <= jobs'[k].attempts
    <3>1. usage'[k] = usage[k]
      BY <1>8, <2>2
    <3> QED
      BY <1>6, <1>7, <2>1, <3>1 DEF ChargeInv
  <2>3. usage'[j] + Cardinality(Owing(j)') <= jobs'[j].attempts
    BY <1>5, <1>6, <1>7, <1>8, <2>1 DEF ChargeInv
  <2> QED
    BY <2>2, <2>3
<1> QED
  BY <1>1, <1>9 DEF ChargeInv

\* A claim spends an attempt on the one run it starts.
LEMMA ClaimKeeps ==
  ASSUME IInv, IInv', ChargeInv, NEW w \in Workers, ClaimJob(w)
  PROVE  ChargeInv'
<1>1. PICK c \in Claimable :
        /\ jobs' = [ExhaustedRows EXCEPT ![c] = Claim(jobs[c])]
        /\ UNCHANGED run \/ RunBecomes(w, [pc |-> "claimed", job |-> c, user |-> jobs[c].owner,
                                           url |-> jobs[c].url, paid |-> FALSE])
  BY DEF ClaimJob
<1>2. /\ c \in Jobs /\ run \in [Workers -> Runs] /\ usage \in [Jobs -> Nat] /\ UNCHANGED usage
      /\ run[w].pc = "idle"
  BY DEF IInv, TypeOK, Claimable, ClaimJob, RunAt
<1>3. \A k \in Jobs : jobs[k] \in JobRows /\ jobs[k].attempts \in Nat
  BY BoundsAssumption DEF IInv, TypeOK, JobRows
<1>4. Claim(jobs[c]).attempts = jobs[c].attempts + 1 /\ Claim(jobs[c]).status = "processing"
  BY <1>2, <1>3 DEF Claim, JobRows
<1>5. \A k \in Jobs : jobs'[k] = IF k = c THEN Claim(jobs[c]) ELSE ExhaustedRows[k]
  BY <1>1, <1>2 DEF ExhaustedRows
<1>6. \A k \in Jobs \ {c} : Owing(k)' \subseteq Owing(k)
  BY <1>1, <1>2 DEF RunBecomes, Owing
<1>7. Owing(c)' \subseteq Owing(c) \cup {w}
  BY <1>1, <1>2 DEF RunBecomes, Owing
<1>8. \A k \in Jobs : Cardinality(Owing(k)) \in Nat /\ Cardinality(Owing(k)') \in Nat
  BY FewerWorkers DEF Owing
<1>9. \A k \in Jobs \ {c} : Cardinality(Owing(k)') <= Cardinality(Owing(k))
  BY <1>6, FewerWorkers DEF Owing
<1>10. Cardinality(Owing(c)') <= Cardinality(Owing(c)) + 1
  <2>1. Owing(c) \in SUBSET Workers /\ Owing(c) \cup {w} \in SUBSET Workers
    BY DEF Owing
  <2>2. IsFiniteSet(Owing(c)) /\ Cardinality(Owing(c) \cup {w}) \in Nat
    BY <2>1, FewerWorkers
  <2>3. Cardinality(Owing(c)) \in Nat /\ Cardinality(Owing(c)') \in Nat
    BY <1>2, <1>8
  <2>4. Cardinality(Owing(c) \cup {w}) =
          IF w \in Owing(c) THEN Cardinality(Owing(c)) ELSE Cardinality(Owing(c)) + 1
    BY <2>2, FS_AddElement, Zenon
  <2>5. Cardinality(Owing(c)') <= Cardinality(Owing(c) \cup {w})
    BY <1>7, <2>1, FewerWorkers
  <2> QED
    BY <2>2, <2>3, <2>4, <2>5
<1>11. \A k \in Jobs : jobs'[k].status = "absent" => jobs'[k].attempts = 0
  BY <1>4, <1>5, ExhaustCounted DEF ChargeInv
<1>12. \A k \in Jobs : usage'[k] + Cardinality(Owing(k)') <= jobs'[k].attempts
  BY <1>2, <1>3, <1>4, <1>5, <1>8, <1>9, <1>10, ExhaustCounted DEF ChargeInv
<1> QED
  BY <1>11, <1>12 DEF ChargeInv

\* Every step keeps the invariant of the charges.
LEMMA StepCharge ==
  ASSUME IInv, IInv', ChargeInv, [Next]_vars
  PROVE  ChargeInv'
<1>1. CASE UNCHANGED run /\ UNCHANGED usage /\ \A k \in Jobs : Counted(k)
  BY <1>1, SteadyCharge DEF Owing
<1>2. ASSUME NEW h \in Handlers, RequestStep(h) \/ RequestDies(h)
      PROVE  ChargeInv'
  <2>1. UNCHANGED run /\ UNCHANGED usage
    BY <1>2 DEF RequestStep, RequestDies, DeliveryLookup, CacheLookup, CreateHit, Attach,
       ActiveLookup, ExpireJob, ExpireSettle, RejectAdmission, CreateJob, ReplayLookup,
       WinnerLookup, CreateRaises, RecoverLookup, Reserve, RefuseJob, store
  <2> QED
    BY <1>1, <1>2, <2>1, RequestCounted
<1>3. ASSUME NEW w \in Workers, (RunStep(w) /\ ~RunCharge(w)) \/ RunDies(w)
      PROVE  ChargeInv'
  <2>1. UNCHANGED usage
    BY <1>3 DEF RunStep, RunDies, RunStart, RunExtract, RunUpsert, RunAttach, RunComplete,
       RunFail, RunSettle, RunBreaks, store
  <2> QED
    BY <1>3, <2>1, RunCounted, RunOwing, SteadyCharge
<1>4. ASSUME \/ \E w \in Workers : ClaimNothing(w)
             \/ \E u \in Users : DeleteAccount(u) \/ Reactivate(u)
             \/ \E j \in Jobs : LeaseExpires(j) \/ JobGoesStale(j) \/ ReservationAges(j)
      PROVE  ChargeInv'
  <2>1. UNCHANGED run /\ UNCHANGED usage
    BY <1>4 DEF ClaimNothing, DeleteAccount, Reactivate, LeaseExpires, JobGoesStale, ReservationAges
  <2> QED
    BY <1>1, <1>4, <2>1, RestCounted
<1>5. CASE UNCHANGED <<store, run>>
  BY <1>1, <1>5, SameCounted DEF store
<1> QED
  BY <1>2, <1>3, <1>4, <1>5, RunChargeKeeps, ClaimKeeps
  DEF Next, Submit, Poll, ClaimNext, RunStep, vars, store

\* However often a job is lost and claimed again, it is charged at most once per attempt.
THEOREM ChargesBounded == Spec => []ChargesBoundedByAttempts
<1>1. ChargeInv /\ IInv => ChargesBoundedByAttempts
  <2> SUFFICES ASSUME ChargeInv, IInv, NEW j \in Jobs PROVE usage[j] <= jobs[j].attempts
    BY DEF ChargesBoundedByAttempts
  <2>1. Cardinality(Owing(j)) \in Nat
    BY FewerWorkers DEF Owing
  <2>2. usage[j] \in Nat /\ jobs[j].attempts \in Nat
    BY BoundsAssumption DEF IInv, TypeOK, JobRows
  <2> QED
    BY <2>1, <2>2 DEF ChargeInv
<1>2. ChargeInv /\ IInv /\ IInv' /\ [Next]_vars => ChargeInv'
  BY StepCharge
<1> QED
  BY <1>1, <1>2, InitCharge, Invariance, PTL DEF Spec
=============================================================================
