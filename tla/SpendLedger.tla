----------------------------- MODULE SpendLedger -----------------------------
(***************************************************************************)
(* The money guard: api_spend_ledger with its two SQL functions             *)
(* (reserve_api_spend, settle_api_spend) and the callers in app.spend,      *)
(* app.limits, app.main and the worker.  A job reserves the worst case once *)
(* before it may call OpenAI; each attempt that ends settles what it paid,  *)
(* and only the first settlement of a row counts.                           *)
(*                                                                         *)
(* Amounts are whole cents.  Time is a day number; the two-hour rule of the *)
(* sweep is the set "overdue", which any open row of today may enter and    *)
(* every open row enters before the second midnight.                        *)
(***************************************************************************)
EXTENDS Integers, FiniteSets

CONSTANTS
  Users, NoUser,
  Jobs, Watched,    \* jobs, and those whose failed settlements are remembered
  JobCost,          \* max_job_cost_cents, what every reservation takes
  DailyBudget, MonthlyBudget,
  FreeBudget,       \* user_monthly_budget_cents
  ProPrices, ProMargins, \* profile values, 0 for null; the margin in percent
  DefaultPrice, DefaultMargin, \* app_settings
  Costs,            \* bound: what one attempt may pay
  MaxAttempts,      \* 5 in the SQL
  MaxDay, DaysPerMonth  \* bounds

ASSUME SpendAssumption ==
  /\ NoUser \notin Users /\ Watched \subseteq Jobs /\ IsFiniteSet(Jobs)
  /\ JobCost \in Int /\ {DailyBudget, MonthlyBudget, FreeBudget} \subseteq Nat
  /\ ProPrices \subseteq Nat /\ ProMargins \subseteq 0..100
  /\ DefaultPrice \in Nat /\ DefaultMargin \in 0..100
  /\ Costs \subseteq Nat /\ MaxAttempts \in Nat \ {0}
  /\ MaxDay \in Nat /\ DaysPerMonth \in Nat \ {0}

VARIABLES
  ledger,    \* api_spend_ledger, one row per job at most
  overdue,   \* jobs whose open row is older than two hours
  alerts,    \* spend_alerts: <<scope, period, threshold>>
  today,
  profile,   \* is_pro, pro_monthly_price_cents, pro_margin_ratio
  request,   \* reserve_spend between its profile read and reserve_api_spend
  attempts,  \* of each job: runs begun, runs still going, and whether its status is final
  unsettled  \* history: watched jobs whose open row an attempt failed to settle

vars == <<ledger, overdue, alerts, today, profile, request, attempts, unsettled>>

Month(day) == day \div DaysPerMonth
NoRow == [status |-> "none", user |-> NoUser, reserved |-> 0, actual |-> 0, day |-> 0]
NotAsked == [user |-> NoUser, budget |-> 0]

Init ==
  /\ ledger = [j \in Jobs |-> NoRow]
  /\ overdue = {} /\ alerts = {} /\ today = 0
  /\ profile \in [Users -> [pro : BOOLEAN, price : ProPrices, margin : ProMargins]]
  /\ request = [j \in Jobs |-> NotAsked]
  /\ attempts = [j \in Jobs |-> [begun |-> 0, live |-> 0, over |-> FALSE]]
  /\ unsettled = {}

(***************************************************************************)
(* The budgets.                                                             *)
(***************************************************************************)
\* resolve_user_limits: what is missing in the profile comes from app_settings.
BudgetOfPro(p) ==
  LET price == IF p.price = 0 THEN DefaultPrice ELSE p.price
      margin == IF p.margin = 0 THEN DefaultMargin ELSE p.margin
  IN (price * (100 - margin)) \div 100

UserMonthlyBudget(u) == IF profile[u].pro THEN BudgetOfPro(profile[u]) ELSE FreeBudget

Counted(row) == IF row.status = "reserved" THEN row.reserved ELSE row.actual
Reserved == {j \in Jobs : ledger[j].status = "reserved"}
Due(rows) == [j \in Jobs |-> Counted(rows[j])]
Paid(rows) == [j \in Jobs |-> rows[j].actual]

\* sum() over the rows of some jobs: how many cents there are.
Cents(amount, jobs) == UNION {{j} \X (1..amount[j]) : j \in jobs}
Total(amount, jobs) == Cardinality(Cents(amount, jobs))

OfDay(rows, d) == {j \in Jobs : rows[j].status # "none" /\ rows[j].day = d}
OfMonth(rows, m) == {j \in Jobs : rows[j].status # "none" /\ Month(rows[j].day) = m}
OfUser(rows, u, m) == {j \in OfMonth(rows, m) : rows[j].user = u}

\* The first statement of reserve_api_spend: rows open for two hours are closed
\* and keep the actual_cents they were created with, which is nothing.
Swept == [j \in Jobs |->
  IF ledger[j].status = "reserved" /\ j \in overdue
  THEN [ledger[j] EXCEPT !.status = "failed"] ELSE ledger[j]]

\* Faulty: the day and the month ignore open reservations.
FitsWhatIsSpent(rows, u, budget) ==
  /\ Total(Paid(rows), OfDay(rows, today)) + JobCost <= DailyBudget
  /\ Total(Paid(rows), OfMonth(rows, Month(today))) + JobCost <= MonthlyBudget
  /\ Total(Due(rows), OfUser(rows, u, Month(today))) + JobCost <= budget

Fits(rows, u, budget) ==
  /\ Total(Due(rows), OfDay(rows, today)) + JobCost <= DailyBudget
  /\ Total(Due(rows), OfMonth(rows, Month(today))) + JobCost <= MonthlyBudget
  /\ Total(Due(rows), OfUser(rows, u, Month(today))) + JobCost <= budget

Thresholds == {50, 75, 90, 100}

\* Faulty: a threshold met exactly is not reached.
ReachedPast(total, budget) == {th \in Thresholds : budget > 0 /\ 100 * total > budget * th}

Reached(total, budget) == {th \in Thresholds : budget > 0 /\ 100 * total >= budget * th}
Raised(rows) ==
  LET day == Total(Due(rows), OfDay(rows, today))
      month == Total(Due(rows), OfMonth(rows, Month(today)))
  IN {<<"daily", today, th>> : th \in Reached(day, DailyBudget)}
       \cup {<<"monthly", Month(today), th>> : th \in Reached(month, MonthlyBudget)}

(***************************************************************************)
(* reserve_spend: the user's budget is read in one statement, the ledger is *)
(* tested and written in another, under an advisory lock.                   *)
(***************************************************************************)
AskBudget(j, u) ==
  /\ request[j] = NotAsked /\ ledger[j].status = "none"
  /\ request' = [request EXCEPT ![j] = [user |-> u, budget |-> UserMonthlyBudget(u)]]
  /\ UNCHANGED <<ledger, overdue, alerts, today, profile, attempts, unsettled>>

\* A refusal leaves the sweep behind, except that it raises no alert; after it
\* the caller fails the job, which asks again only as a new job.
Reserve(j) ==
  LET u == request[j].user
      row == [status |-> "reserved", user |-> u, reserved |-> JobCost,
              actual |-> 0, day |-> today]
      allowed == JobCost > 0 /\ Fits(Swept, u, request[j].budget)
  IN /\ u # NoUser
     /\ ledger' = IF allowed THEN [Swept EXCEPT ![j] = row] ELSE Swept
     /\ alerts' = IF allowed THEN alerts \cup Raised(ledger') ELSE alerts
     /\ overdue' = {}
     /\ request' = [request EXCEPT ![j] = NotAsked]
     /\ UNCHANGED <<today, profile, attempts, unsettled>>

(***************************************************************************)
(* Attempts.  A worker whose lease ran out and its successor may both run.  *)
(***************************************************************************)
Begin(j) ==
  /\ ledger[j].status # "none" /\ ~attempts[j].over /\ attempts[j].begun < MaxAttempts
  /\ attempts' = [attempts EXCEPT ![j].begun = @ + 1, ![j].live = @ + 1]
  /\ UNCHANGED <<ledger, overdue, alerts, today, profile, request, unsettled>>

\* Faulty: a failed attempt leaves its row open.
SettledStillOpen(row, cents, status) ==
  IF row.status = "reserved"
  THEN [row EXCEPT !.actual = cents, !.status = IF status = "failed" THEN @ ELSE status] ELSE row

\* Faulty: no "and ledger.status = 'reserved'".
SettledAgain(row, cents, status) ==
  IF row.status = "none" THEN row ELSE [row EXCEPT !.status = status, !.actual = cents]

Settled(row, cents, status) ==
  IF row.status = "reserved" THEN [row EXCEPT !.status = status, !.actual = cents] ELSE row

Settle(j, cents, status) ==
  /\ ledger' = [ledger EXCEPT ![j] = Settled(@, cents, status)]
  /\ overdue' = IF ledger[j].status = "reserved" THEN overdue \ {j} ELSE overdue

Ended(j) == attempts' = [attempts EXCEPT ![j].live = @ - 1, ![j].over = TRUE]

End(j, cents, status) ==
  /\ attempts[j].live > 0
  /\ Ended(j) /\ Settle(j, cents, status)
  /\ UNCHANGED <<alerts, today, profile, request, unsettled>>

\* settle_spend swallows the error of its statement.
EndUnsettled(j) ==
  /\ attempts[j].live > 0
  /\ Ended(j) /\ unsettled' = unsettled \cup ({j} \cap Watched \cap Reserved)
  /\ UNCHANGED <<ledger, overdue, alerts, today, profile, request>>

Dies(j) ==
  /\ attempts[j].live > 0
  /\ attempts' = [attempts EXCEPT ![j].live = @ - 1]
  /\ UNCHANGED <<ledger, overdue, alerts, today, profile, request, unsettled>>

\* _expire_stale_job and the exhaustion in claim_next_extract_job fail an open job and
\* release its money, whether or not a lost run still works on it.
Release(j) ==
  /\ ledger[j].status # "none" /\ ~attempts[j].over
  /\ Settle(j, 0, "failed")
  /\ attempts' = [attempts EXCEPT ![j].over = TRUE]
  /\ UNCHANGED <<alerts, today, profile, request, unsettled>>

(***************************************************************************)
(* Accounts, subscriptions and the clock.                                   *)
(***************************************************************************)
\* delete_account_data leaves the rows without their user and the profile free.
CloseAccount(u) ==
  /\ ledger' = [j \in Jobs |-> IF ledger[j].user = u THEN [ledger[j] EXCEPT !.user = NoUser]
                               ELSE ledger[j]]
  /\ profile' = [profile EXCEPT ![u].pro = FALSE]
  /\ UNCHANGED <<overdue, alerts, today, request, attempts, unsettled>>

SubscriptionChanges(u, pro) ==
  /\ profile' = [profile EXCEPT ![u].pro = pro]
  /\ UNCHANGED <<ledger, overdue, alerts, today, request, attempts, unsettled>>

TwoHoursPass(j) ==
  /\ ledger[j].status = "reserved"
  /\ overdue' = overdue \cup {j}
  /\ UNCHANGED <<ledger, alerts, today, profile, request, attempts, unsettled>>

Midnight ==
  /\ today < MaxDay
  /\ today' = today + 1
  /\ overdue' = overdue \cup {j \in Reserved : ledger[j].day < today}
  /\ UNCHANGED <<ledger, alerts, profile, request, attempts, unsettled>>

Next ==
  \/ \E j \in Jobs, u \in Users : AskBudget(j, u)
  \/ \E j \in Jobs : Reserve(j) \/ Begin(j) \/ EndUnsettled(j) \/ Dies(j) \/ Release(j)
                     \/ TwoHoursPass(j)
  \/ \E j \in Jobs, c \in Costs, s \in {"settled", "failed"} : End(j, c, s)
  \/ \E u \in Users : CloseAccount(u) \/ \E pro \in BOOLEAN : SubscriptionChanges(u, pro)
  \/ Midnight

Spec == Init /\ [][Next]_vars

(***************************************************************************)
(* Properties.                                                              *)
(***************************************************************************)
\* Values keep their types; an open row has nothing settled and only open rows wait
\* for the sweep (api_spend_ledger, 001_init.sql:133).
TypeOK ==
  /\ ledger \in [Jobs -> [status : {"none", "reserved", "settled", "failed"},
                          user : Users \cup {NoUser}, reserved : {0, JobCost},
                          actual : {0} \cup Costs, day : 0..MaxDay]]
  /\ \A j \in Jobs : ledger[j].status = "reserved" => ledger[j].actual = 0
  /\ overdue \subseteq Reserved
  /\ alerts \subseteq {"daily", "monthly"} \X (0..MaxDay) \X Thresholds
  /\ today \in 0..MaxDay
  /\ profile \in [Users -> [pro : BOOLEAN, price : ProPrices, margin : ProMargins]]
  /\ request \in [Jobs -> [user : Users \cup {NoUser}, budget : Nat]]
  /\ attempts \in [Jobs -> [begun : 0..MaxAttempts, live : 0..MaxAttempts,
                            over : BOOLEAN]]
  /\ unsettled \subseteq Jobs

\* What rows cost within their reservation: an attempt that paid more than was reserved
\* is the one way past a budget the ledger allows.
Within(rows) ==
  [j \in Jobs |-> IF Counted(rows[j]) > JobCost THEN JobCost ELSE Counted(rows[j])]

HighestUserBudget(u) ==
  LET pro == BudgetOfPro(profile[u]) IN IF pro > FreeBudget THEN pro ELSE FreeBudget

\* Whatever the order of reservations, settlements, sweeps and closed accounts, the
\* rows of a day, of a month and of one user stay within the three budgets
\* (reserve_api_spend, 001_init.sql:307).
BudgetsHold ==
  /\ \A d \in 0..MaxDay : Total(Within(ledger), OfDay(ledger, d)) <= DailyBudget
  /\ \A m \in 0..Month(MaxDay) :
       /\ Total(Within(ledger), OfMonth(ledger, m)) <= MonthlyBudget
       /\ \A u \in Users : Total(Within(ledger), OfUser(ledger, u, m)) <= HighestUserBudget(u)

\* The dashboard's alert for a share of a budget is there as soon as reservations and
\* settlements within them reach that share (001_init.sql:335-348).
AlertsKeepUp ==
  /\ DailyBudget > 0 => \A d \in 0..MaxDay, th \in Thresholds :
       100 * Total(Within(ledger), OfDay(ledger, d)) >= DailyBudget * th
         => <<"daily", d, th>> \in alerts
  /\ MonthlyBudget > 0 => \A m \in 0..Month(MaxDay), th \in Thresholds :
       100 * Total(Within(ledger), OfMonth(ledger, m)) >= MonthlyBudget * th
         => <<"monthly", m, th>> \in alerts

\* Money recorded as spent stays recorded against its day and month, also when the
\* account it was spent for is deleted (delete_account_data keeps the rows).
SpentStaysSpent ==
  [][\A d \in 0..MaxDay :
       Total(Paid(ledger'), OfDay(ledger', d)) >= Total(Paid(ledger), OfDay(ledger, d))]_vars

\* app/spend.py:79 of a settlement whose statement failed: "The reservation remains in
\* place, which is safer than releasing money after a failed settlement call."
FailedSettlementKeepsReservation ==
  \A j \in unsettled : attempts[j].begun = 1 => j \in Reserved

=============================================================================
