----------------------------- MODULE ImportQuota -----------------------------
(***************************************************************************)
(* The yearly limit of free users, the monthly cost budget of Pro users and *)
(* the limit of open imports, for one user whose requests overlap: app.quota *)
(* tests what usage_events says, app.main tests the number of open jobs, the *)
(* job is created by a third statement and the usage it causes is recorded   *)
(* by the run, after the job has left the queue.  The account may be deleted *)
(* and opened again meanwhile, which keeps its usage.  Each request is for a *)
(* URL that is not in the cache and that no other request names.             *)
(***************************************************************************)
EXTENDS Integers, FiniteSets

CONSTANTS
  Requests,        \* concurrent requests of the user
  Jobs,            \* bound: imports ever created
  Limit,           \* FREE_YEARLY_LIMIT
  MaxOpen,         \* max_pending_jobs_per_user
  ProBudget,       \* pro_budget_cents
  Costs,           \* bound: what a run costs, in cents
  Runs,            \* runs of this user's jobs that work at one time
  SubscriptionMoves, \* TRUE if the subscription may start and lapse
  MaxMonth, MonthsPerYear \* bounds

QuotaAssumption ==
  /\ IsFiniteSet(Requests) /\ IsFiniteSet(Jobs)
  /\ Limit \in Nat \ {0} /\ MaxOpen \in Nat \ {0} /\ ProBudget \in Nat /\ Runs \in Nat \ {0}
  /\ Costs \subseteq Nat /\ SubscriptionMoves \in BOOLEAN
  /\ MaxMonth \in Nat /\ MonthsPerYear \in Nat \ {0}

VARIABLES
  month,    \* the UTC clock, in months
  pro,      \* profiles.is_pro
  request,  \* what each request has read
  job,      \* extract_jobs of the user; plan is the plan it was admitted under
  usage     \* usage_events: the month, the cost and the job (history: its plan)

vars == <<month, pro, request, job, usage>>

Year(m) == m \div MonthsPerYear
Idle == [pc |-> "idle", pro |-> FALSE, since |-> 0, used |-> 0]
NoJob == [state |-> "none", plan |-> "free"]

Init ==
  /\ month = 0 /\ pro \in BOOLEAN /\ usage = {}
  /\ request = [r \in Requests |-> Idle]
  /\ job = [j \in Jobs |-> NoJob]

Plan(r) == IF request[r].pro THEN "pro" ELSE "free"
In(state) == {j \in Jobs : job[j].state = state}
Open == In("pending") \cup In("running")
Working == In("running") \cup In("orphaned") \cup In("recording")

Uses(events, y) == {e \in events : Year(e.month) >= y}
Cents(events) == UNION {{e} \X (1..e.cost) : e \in events}
CostSince(m) == Cardinality(Cents({e \in usage : e.month >= m}))

Goto(r, pc) == request' = [request EXCEPT ![r].pc = pc]
Leave(r) == request' = [request EXCEPT ![r] = Idle]

(***************************************************************************)
(* A request.                                                               *)
(***************************************************************************)
\* current_user reads is_pro; get_quota takes the time for its two periods.
Authenticate(r) ==
  /\ request[r].pc = "idle"
  /\ request' = [request EXCEPT ![r] = [pc |-> "year", pro |-> pro, since |-> month, used |-> 0]]
  /\ UNCHANGED <<month, pro, job, usage>>

CountYear(r) ==
  /\ request[r].pc = "year"
  /\ request' = [request EXCEPT ![r].pc = "month",
                                ![r].used = Cardinality(Uses(usage, Year(request[r].since)))]
  /\ UNCHANGED <<month, pro, job, usage>>

\* Faulty: the last free recipe is given twice.
MayExtractOneMore(plan, used, cost) == IF plan = "free" THEN used <= Limit ELSE cost < ProBudget

\* Faulty: nobody looks at the cost of Pro users.
MayExtractAnyCost(plan, used, cost) == plan = "free" => used < Limit

\* assert_can_extract of a miss: free_remaining and pro_remaining_cents.
MayExtract(plan, used, cost) == IF plan = "free" THEN used < Limit ELSE cost < ProBudget

\* The second sum of get_quota, and the verdict: HTTP 403 or on to the queue.
SumMonth(r) ==
  /\ request[r].pc = "month"
  /\ IF MayExtract(Plan(r), request[r].used, CostSince(request[r].since))
     THEN Goto(r, "queue") ELSE Leave(r)
  /\ UNCHANGED <<month, pro, job, usage>>

\* Faulty: the limit is tested after the import was counted in.
HasRoomForTwo == Cardinality(Open) <= MaxOpen

HasRoom == Cardinality(Open) < MaxOpen

\* count_user_open_extract_jobs, HTTP 429 at the limit.
CountOpen(r) ==
  /\ request[r].pc = "queue"
  /\ IF HasRoom THEN Goto(r, "create") ELSE Leave(r)
  /\ UNCHANGED <<month, pro, job, usage>>

\* create_job and reserve_spend; without a reservation the job fails at once.
Create(r) ==
  /\ request[r].pc = "create"
  /\ \E j \in In("none"), reserved \in BOOLEAN :
       job' = [job EXCEPT ![j] = [state |-> IF reserved THEN "pending" ELSE "over",
                                  plan |-> Plan(r)]]
  /\ Leave(r)
  /\ UNCHANGED <<month, pro, usage>>

(***************************************************************************)
(* Runs.                                                                    *)
(***************************************************************************)
Start(j) ==
  /\ job[j].state = "pending" /\ Cardinality(Working) < Runs
  /\ job' = [job EXCEPT ![j].state = "running"]
  /\ UNCHANGED <<month, pro, request, usage>>

\* update_job(completed), or _mark_job_failed: the job leaves the queue first.
Finish(j) ==
  /\ job[j].state \in {"running", "orphaned"}
  /\ job' = [job EXCEPT ![j].state = "recording"]
  /\ UNCHANGED <<month, pro, request, usage>>

\* Faulty: the run may record its usage again.
RecordAgain(j, cost) ==
  /\ job[j].state = "recording"
  /\ usage' = usage \cup {[month |-> month, cost |-> cost, job |-> j, plan |-> job[j].plan]}
  /\ UNCHANGED <<month, pro, request, job>>

\* record_usage of a run that called OpenAI.
Record(j, cost) ==
  /\ job[j].state = "recording"
  /\ usage' = usage \cup {[month |-> month, cost |-> cost, job |-> j, plan |-> job[j].plan]}
  /\ job' = [job EXCEPT ![j].state = "over"]
  /\ UNCHANGED <<month, pro, request>>

\* A failure before OpenAI was called, an exception of record_usage, or a crash.
RecordNothing(j) ==
  /\ j \in Working
  /\ job' = [job EXCEPT ![j].state = "over"]
  /\ UNCHANGED <<month, pro, request, usage>>

SubscriptionChanges ==
  /\ SubscriptionMoves /\ pro' = ~pro
  /\ UNCHANGED <<month, request, job, usage>>

\* delete_account_data, and a sign-in with the same Apple identity that opens the profile
\* again: open jobs fail and lose their user, usage_events stay, a run goes on.
CloseAccount ==
  /\ pro' = FALSE
  /\ job' = [j \in Jobs |-> CASE job[j].state = "pending" -> [job[j] EXCEPT !.state = "over"]
                              [] job[j].state = "running" -> [job[j] EXCEPT !.state = "orphaned"]
                              [] OTHER -> job[j]]
  /\ UNCHANGED <<month, request, usage>>

NextMonth ==
  /\ month < MaxMonth /\ month' = month + 1
  /\ UNCHANGED <<pro, request, job, usage>>

Next ==
  \/ \E r \in Requests : Authenticate(r) \/ CountYear(r) \/ SumMonth(r) \/ CountOpen(r) \/ Create(r)
  \/ \E j \in Jobs : Start(j) \/ Finish(j) \/ RecordNothing(j) \/ \E c \in Costs : Record(j, c)
  \/ SubscriptionChanges \/ CloseAccount \/ NextMonth

Spec == Init /\ [][Next]_vars

(***************************************************************************)
(* Properties.                                                              *)
(***************************************************************************)
\* Values keep their types; a job is charged once and only when it is over.
TypeOK ==
  /\ month \in 0..MaxMonth /\ pro \in BOOLEAN
  /\ request \in [Requests -> [pc : {"idle", "year", "month", "queue", "create"},
                               pro : BOOLEAN, since : 0..MaxMonth, used : Nat]]
  /\ job \in [Jobs -> [state : {"none", "pending", "running", "orphaned", "recording", "over"},
                       plan : {"free", "pro"}]]
  /\ usage \subseteq [month : 0..MaxMonth, cost : Costs, job : Jobs, plan : {"free", "pro"}]
  /\ \A e \in usage : job[e.job].state = "over"

\* Requests that passed a test and act on it later.
Admitted == {r \in Requests : request[r].pc \in {"queue", "create"}}
Creating == {r \in Requests : request[r].pc = "create"}

\* The open imports of a user pass the limit of app/main.py:1062 by no more than the
\* requests that counted at the same time.
OpenJobsBounded == Cardinality(Open) + Cardinality(Creating) <= MaxOpen - 1 + Cardinality(Requests)

\* How many imports the tests of app/quota.py:107 cannot see.
Unseen == MaxOpen - 1 + 2 * Cardinality(Requests) + Runs

FreeUsed(y) == {e \in usage : Year(e.month) = y /\ e.plan = "free"}
ProUsed(m) == {e \in usage : e.month = m /\ e.plan = "pro"}

\* A year's free recipes pass the limit by no more than what was under way unseen when
\* the last of them was admitted.
FreeUsesBounded == \A y \in 0..Year(MaxMonth) : Cardinality(FreeUsed(y)) <= Limit - 1 + Unseen

\* What Pro imports cost in a month passes the budget by no more than the cost of the
\* imports under way unseen when the last of them was admitted (app/quota.py:140-142).
ProCostBounded ==
  \A most \in Costs, m \in 0..MaxMonth :
    (\A c \in Costs : c <= most) /\ ProUsed(m) # {}
      => Cardinality(Cents(ProUsed(m))) <= ProBudget - 1 + most * Unseen

\* README.md:42: "3 new recipes / UTC calendar year" on the free plan.
FreeLimitHolds ==
  \A y \in 0..Year(MaxMonth) : Cardinality(FreeUsed(y)) <= Limit
=============================================================================
