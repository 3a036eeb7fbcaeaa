---------------------------- MODULE PushDelivery ----------------------------
(***************************************************************************)
(* "Your recipe is ready": the push_deliveries outbox of migration 010 and  *)
(* the delivery loop of app.worker.  The trigger that runs inside the       *)
(* completing transaction queues one row per device of the job's owner;     *)
(* workers claim a row for 90 seconds, send it to APNs and record the       *)
(* result; meanwhile devices are registered, move to another account, are   *)
(* unregistered, and accounts close.                                        *)
(*                                                                         *)
(* The rows a completing transaction queues become visible at its commit,   *)
(* after it read the devices: "for key share" does not hold off the         *)
(* non-key update with which a device changes its owner.  No import is ever *)
(* shared (theorem NothingIsShared of ExtractJobs_proofs), so the owner's   *)
(* devices are all.                                                         *)
(***************************************************************************)
EXTENDS Naturals, FiniteSets

CONSTANTS
  Users, Devices,   \* profiles, APNs device tokens
  NoUser,           \* a null user_id, a device nobody registered
  Jobs, Workers,
  MaxAttempts,      \* 8 in the SQL
  MaxRows,          \* bound: rows ever queued for one job and device
  SlowSends         \* TRUE if a send may outlive its lease

ASSUME PushAssumption ==
  /\ NoUser \notin Users /\ IsFiniteSet(Workers)
  /\ MaxAttempts \in Nat \ {0} /\ MaxRows \in Nat \ {0} /\ SlowSends \in BOOLEAN

VARIABLES
  owner,    \* push_devices: the account each device is registered for
  closed,   \* profiles with deleted_at set
  job,      \* extract_jobs: owner and status
  queueing, \* devices read by a completing transaction that has not committed
  rows,     \* push_deliveries
  worker,   \* what each delivery loop is doing
  alerts    \* history: alerts that reached a device, per row

vars == <<owner, closed, job, queueing, rows, worker, alerts>>

Ids == Jobs \X Devices \X (1..MaxRows)
JobOf(id) == id[1]
DeviceOf(id) == id[2]

NoRow == [state |-> "absent", user |-> NoUser, attempts |-> 0, due |-> FALSE, leased |-> FALSE]
Queued(u) == [state |-> "pending", user |-> u, attempts |-> 0, due |-> TRUE, leased |-> FALSE]
Asleep == [pc |-> "idle", id |-> << >>, user |-> NoUser, result |-> "none"]

Init ==
  /\ owner \in [Devices -> Users \cup {NoUser}]
  /\ closed = {}
  /\ job \in [Jobs -> [owner : Users, completed : {FALSE}]]
  /\ queueing = [j \in Jobs |-> {}]
  /\ rows = [id \in Ids |-> NoRow]
  /\ worker = [w \in Workers |-> Asleep]
  /\ alerts = [id \in Ids |-> 0]

Present(id) == rows[id].state # "absent"
Open(id) == rows[id].state \in {"pending", "processing"}
Dropped(ids) == [id \in Ids |-> IF id \in ids THEN NoRow ELSE rows[id]]

-----------------------------------------------------------------------------
(* The trigger *)

Completing(j) == queueing[j] # {}

\* The job becomes completed; the trigger reads the devices of its owner.
Complete(j) ==
  /\ ~job[j].completed /\ ~Completing(j)
  /\ LET mine == {d \in Devices : job[j].owner # NoUser /\ owner[d] = job[j].owner
                                   /\ job[j].owner \notin closed}
     IN  queueing' = [queueing EXCEPT ![j] = {<<d, job[j].owner>> : d \in mine}]
  /\ job' = [job EXCEPT ![j].completed = TRUE]
  /\ UNCHANGED <<owner, closed, rows, worker, alerts>>

\* Unused row numbers of a job and device without a row (the unique constraint).
Vacant(j, d) ==
  {n \in 1..MaxRows :
     /\ \A m \in 1..MaxRows : ~Present(<<j, d, m>>)
     /\ alerts[<<j, d, n>>] = 0
     /\ \A w \in Workers : worker[w].id # <<j, d, n>>}

\* The transaction commits and its rows become visible; "on conflict do nothing".
CommitRows(j) ==
  /\ Completing(j)
  /\ rows' = [id \in Ids |->
                LET d == DeviceOf(id)
                    vacant == Vacant(j, d)
                IN  IF /\ JobOf(id) = j /\ \E u \in Users : <<d, u>> \in queueing[j]
                       /\ id[3] \in vacant /\ \A n \in vacant : id[3] <= n
                    THEN Queued(CHOOSE u \in Users : <<d, u>> \in queueing[j])
                    ELSE rows[id]]
  /\ queueing' = [queueing EXCEPT ![j] = {}]
  /\ UNCHANGED <<owner, closed, job, worker, alerts>>

\* A run that lost its lease sets the job back to processing (app/store.py:378).
JobReopens(j) ==
  /\ job[j].completed /\ ~Completing(j)
  /\ job' = [job EXCEPT ![j].completed = FALSE]
  /\ UNCHANGED <<owner, closed, queueing, rows, worker, alerts>>

-----------------------------------------------------------------------------
(* Devices and accounts.  A request may be executed long after it was authorised. *)

\* upsert_push_device takes the device's queued alerts from its former owner.
Moved(d, u) == Dropped({id \in Ids : DeviceOf(id) = d /\ rows[id].user # u})

Register(u, d) ==
  /\ owner[d] # u
  /\ owner' = [owner EXCEPT ![d] = u] /\ rows' = Moved(d, u)
  /\ UNCHANGED <<closed, job, queueing, worker, alerts>>

\* delete_push_device, from DELETE /v1/me/push-device, a registration while push is not
\* ready, and logout (unregister_push_device_for_refresh).
Unregister(u, d) ==
  /\ owner[d] = u
  /\ owner' = [owner EXCEPT ![d] = NoUser]
  /\ rows' = Dropped({id \in Ids : DeviceOf(id) = d /\ rows[id].user = u})
  /\ UNCHANGED <<closed, job, queueing, worker, alerts>>

\* delete_account_data, as far as push is concerned.
CloseAccount(u) ==
  /\ u \notin closed /\ closed' = closed \cup {u}
  /\ owner' = [d \in Devices |-> IF owner[d] = u THEN NoUser ELSE owner[d]]
  /\ rows' = Dropped({id \in Ids : rows[id].user = u})
  /\ job' = [j \in Jobs |-> IF job[j].owner = u THEN [job[j] EXCEPT !.owner = NoUser] ELSE job[j]]
  /\ UNCHANGED <<queueing, worker, alerts>>

-----------------------------------------------------------------------------
(* The delivery loop *)

\* Faulty: a last attempt that was lost is never given up.
NeverExhausted(row) == FALSE

\* "exhausted": a claim first fails the rows whose last attempt was lost.
Exhausted(row) == row.state = "processing" /\ row.attempts >= MaxAttempts /\ ~row.leased
Swept == [id \in Ids |-> IF Exhausted(rows[id]) THEN [rows[id] EXCEPT !.state = "failed"] ELSE rows[id]]

\* Faulty: without the limit of attempts.
ClaimableForEver(row) ==
  (row.state = "pending" /\ row.due) \/ (row.state = "processing" /\ ~row.leased)

\* candidate.
Claimable(row) ==
  /\ row.attempts < MaxAttempts
  /\ \/ row.state = "pending" /\ row.due
     \/ row.state = "processing" /\ ~row.leased

\* Faulty: joins the device by token alone.
RegisteredForAnyone(id) == owner[DeviceOf(id)] # NoUser

\* The join of the claim with push_devices: still registered, and for the same account.
StillRegistered(id) == owner[DeviceOf(id)] = rows[id].user

\* Faulty: an attempt is only counted when it is finished.
ClaimedUncounted(row) == [row EXCEPT !.state = "processing", !.leased = TRUE]

\* claimed: one more attempt, and a new lease, even if the join returns nothing.
ClaimedRow(row) ==
  [row EXCEPT !.state = "processing", !.attempts = @ + 1, !.leased = TRUE]

\* claim_push_delivery takes this row.
ClaimRow(w, id) ==
  /\ worker[w].pc = "idle" /\ Claimable(rows[id])
  /\ rows' = [Swept EXCEPT ![id] = ClaimedRow(rows[id])]
  /\ worker' = IF StillRegistered(id)
               THEN [worker EXCEPT ![w] = [pc |-> "send", id |-> id, user |-> rows[id].user,
                                           result |-> "none"]]
               ELSE worker
  /\ UNCHANGED <<owner, closed, job, queueing, alerts>>

Claim(w) == \E id \in Ids : ClaimRow(w, id)

\* A claim that only sweeps.
Sweep(w) ==
  /\ worker[w].pc = "idle" /\ rows # Swept /\ \A id \in Ids : ~Claimable(rows[id])
  /\ rows' = Swept
  /\ UNCHANGED <<owner, closed, job, queueing, worker, alerts>>

\* APNsClient.send: after a network error the alert may have arrived.
Send(w) ==
  /\ worker[w].pc = "send"
  /\ \E result \in {"sent", "retry", "invalid_device", "failed"}, arrived \in BOOLEAN :
       /\ result = "sent" => arrived
       /\ result \in {"invalid_device", "failed"} => ~arrived
       /\ worker' = [worker EXCEPT ![w] = [@ EXCEPT !.pc = "finish", !.result = result]]
       /\ alerts' = IF arrived THEN [alerts EXCEPT ![worker[w].id] = @ + 1] ELSE alerts
  /\ UNCHANGED <<owner, closed, job, queueing, rows>>

\* Faulty: a result is recorded whatever became of the row.
RecordsAlways(row) == row.state # "absent"

\* A result is recorded for a row in processing, whoever is processing it.
Records(row) == row.state = "processing"

Finished(row, result) ==
  CASE result = "retry" ->
         IF row.attempts >= MaxAttempts THEN [row EXCEPT !.state = "failed", !.leased = FALSE]
         ELSE [row EXCEPT !.state = "pending", !.due = FALSE, !.leased = FALSE]
    [] result \in {"sent", "failed"} -> [row EXCEPT !.state = result, !.leased = FALSE]

\* invalid_device: every open row of the registration fails and it is deleted.
Unregistered(w) ==
  LET s == worker[w] IN
  /\ rows' = [id \in Ids |->
                IF DeviceOf(id) = DeviceOf(s.id) /\ rows[id].user = s.user /\ Open(id)
                THEN [rows[id] EXCEPT !.state = "failed", !.leased = FALSE] ELSE rows[id]]
  /\ owner' = [owner EXCEPT ![DeviceOf(s.id)] = IF @ = s.user THEN NoUser ELSE @]

\* finish_push_delivery.
Finish(w) ==
  /\ worker[w].pc = "finish"
  /\ LET s == worker[w] IN
       IF s.result = "invalid_device" THEN Unregistered(w)
       ELSE /\ rows' = IF Records(rows[s.id])
                       THEN [rows EXCEPT ![s.id] = Finished(rows[s.id], s.result)] ELSE rows
            /\ UNCHANGED owner
  /\ worker' = [worker EXCEPT ![w] = Asleep]
  /\ UNCHANGED <<closed, job, queueing, alerts>>

\* The worker dies, or neither statement of _run_push_delivery succeeds.
WorkerDies(w) ==
  /\ worker[w].pc # "idle" /\ worker' = [worker EXCEPT ![w] = Asleep]
  /\ UNCHANGED <<owner, closed, job, queueing, rows, alerts>>

-----------------------------------------------------------------------------
(* Time *)

LeaseExpires(id) ==
  /\ rows[id].state = "processing" /\ rows[id].leased
  /\ SlowSends \/ \A w \in Workers : worker[w].id # id
  /\ rows' = [rows EXCEPT ![id].leased = FALSE]
  /\ UNCHANGED <<owner, closed, job, queueing, worker, alerts>>

\* next_attempt_at passes.
BecomesDue(id) ==
  /\ rows[id].state = "pending" /\ ~rows[id].due
  /\ rows' = [rows EXCEPT ![id].due = TRUE]
  /\ UNCHANGED <<owner, closed, job, queueing, worker, alerts>>

Environment ==
  \/ \E j \in Jobs : Complete(j) \/ CommitRows(j) \/ JobReopens(j)
  \/ \E u \in Users, d \in Devices : Register(u, d) \/ Unregister(u, d)
  \/ \E u \in Users : CloseAccount(u)

Loop(w) == Claim(w) \/ Sweep(w) \/ Send(w) \/ Finish(w)
Time == \E id \in Ids : LeaseExpires(id) \/ BecomesDue(id)

Next == Environment \/ Time \/ \E w \in Workers : Loop(w) \/ WorkerDies(w)

Spec == Init /\ [][Next]_vars

\* A worker keeps polling and time passes; nothing is assumed of the rest.  A claim takes
\* the row that has been due longest, so no row is passed over for ever.
FairSpec ==
  /\ Spec
  /\ \A w \in Workers : WF_vars(Loop(w)) /\ \A id \in Ids : SF_vars(ClaimRow(w, id))
  /\ \A id \in Ids : WF_vars(LeaseExpires(id)) /\ WF_vars(BecomesDue(id))

-----------------------------------------------------------------------------
(* Properties *)

\* Every variable keeps its type; attempts stay within the check constraint.
TypeOK ==
  /\ owner \in [Devices -> Users \cup {NoUser}] /\ closed \subseteq Users
  /\ job \in [Jobs -> [owner : Users \cup {NoUser}, completed : BOOLEAN]]
  /\ queueing \in [Jobs -> SUBSET (Devices \X Users)]
  /\ rows \in [Ids -> [state : {"absent", "pending", "processing", "sent", "failed"},
                       user : Users \cup {NoUser}, attempts : 0..MaxAttempts,
                       due : BOOLEAN, leased : BOOLEAN]]
  /\ worker \in [Workers -> [pc : {"idle", "send", "finish"}, id : Ids \cup {<< >>},
                             user : Users \cup {NoUser},
                             result : {"none", "sent", "retry", "invalid_device", "failed"}]]
  /\ alerts \in [Ids -> Nat]

\* An alert is only taken up for a device its user still has registered: the row queued
\* by a transaction that overlapped a move, a logout or the end of the account is
\* claimed but not sent (the join of store.py:712-714).
TakenUpForOwner ==
  [][\A w \in Workers :
       worker[w].pc = "idle" /\ worker'[w].pc = "send" =>
         owner[DeviceOf(worker'[w].id)] = worker'[w].user]_vars

\* However often leases are lost, workers die and results are late, a device hears of one
\* queued alert at most once per counted attempt (store.py:700-701).
AlertsBoundedByAttempts ==
  \A id \in Ids : Present(id) => alerts[id] <= rows[id].attempts

\* The alert of a sent row is never taken up again, nor a failed row revived by a late
\* result (status = 'processing' in store.py:753 and 764).
FinishedRowsStayFinished ==
  [][\A id \in Ids : rows[id].state \in {"sent", "failed"} =>
       rows'[id].state \in {rows[id].state, "absent"}]_vars

\* Every queued alert ends: sent, given up after its attempts, or dropped with its
\* device - also when it is never sent because its device moved meanwhile.
EveryAlertEnds == \A id \in Ids : Open(id) ~> ~Open(id)

\* "A device changing accounts must not receive queued alerts for its former owner"
\* (app/store.py:656).  An alert a worker has already claimed is sent all the same.
NoAlertForFormerOwner ==
  [][\A w \in Workers :
       worker[w].pc = "send" /\ alerts'[worker[w].id] # alerts[worker[w].id] =>
         owner[DeviceOf(worker[w].id)] \in {worker[w].user, NoUser}]_vars
=============================================================================
