-------------------------- MODULE Admission_proofs --------------------------
(***************************************************************************)
(* What an import must pass before it may spend, each for any values of its  *)
(* parameters.                                                             *)
(*                                                                         *)
(* The money guard: types, the three budgets, the alerts and money that stays *)
(* spent.  A total is the number of cents of some rows, so it grows with the *)
(* rows and their amounts, and a new row adds what it reserves.  Every step  *)
(* but a reservation leaves each total as it was or lower; a reservation was *)
(* tested against the swept rows it is added to, and against a budget of the *)
(* user read before, which is never above the highest the user can have.     *)
(*                                                                         *)
(* The quota of one user: the tests of a plan do not see imports that are     *)
(* admitted and not yet recorded, nor requests that passed the test and are   *)
(* not yet admitted.  What is used and these together stay below the limit    *)
(* and what may be under way unseen.                                        *)
(*                                                                         *)
(* The rate limits: the requests that a key let in within the window are      *)
(* covered by two windows of Redis, the memory of the process and one memory  *)
(* for each restart; a ban state holds only violations of its own keys.       *)
(***************************************************************************)
EXTENDS MCAdmission, Sequences, FiniteSetTheorems, TLAPS

-----------------------------------------------------------------------------
(* Totals *)

LEMMA CentsFinite ==
  ASSUME NEW amount \in [Jobs -> Int], NEW S \in SUBSET Jobs
  PROVE  /\ IsFiniteSet(Cents(amount, S))
         /\ Total(amount, S) \in Nat
<1>1. IsFiniteSet(S)
  BY FS_Subset, SpendAssumption DEF SpendAssumption
<1> DEFINE Of == {{j} \X (1..amount[j]) : j \in S}
           f == [j \in S |-> {j} \X (1..amount[j])]
<1>2. f \in Surjection(S, Of)
  BY DEF Surjection
<1>3. IsFiniteSet(Of)
  <2> HIDE DEF Of, f
  <2> QED
    BY <1>1, <1>2, FS_Surjection
<1>4. ASSUME NEW j \in S
      PROVE  IsFiniteSet({j} \X (1..amount[j]))
  <2>1. 1 \in Int /\ amount[j] \in Int
    OBVIOUS
  <2>2. IsFiniteSet(1..amount[j])
    BY <2>1, FS_Interval
  <2>3. IsFiniteSet({j})
    BY FS_Singleton
  <2> QED
    BY <2>2, <2>3, FS_Product
<1>5. \A T \in Of : IsFiniteSet(T)
  BY <1>4
<1>6. IsFiniteSet(UNION Of)
  <2> HIDE DEF Of
  <2> QED
    BY <1>3, <1>5, FS_UNION
<1> QED
  BY <1>6, FS_CardinalityType DEF Cents, Total

LEMMA TotalGrows ==
  ASSUME NEW f \in [Jobs -> Int], NEW g \in [Jobs -> Int],
         NEW S \in SUBSET Jobs, NEW T \in SUBSET Jobs,
         S \subseteq T, \A j \in S : f[j] <= g[j]
  PROVE  Total(f, S) <= Total(g, T)
<1>1. \A j \in S : 1..f[j] \subseteq 1..g[j]
  OBVIOUS
<1>2. Cents(f, S) \in SUBSET Cents(g, T)
  BY <1>1 DEF Cents
<1> QED
  BY <1>2, CentsFinite, FS_Subset DEF Total

\* One job more adds at most its own cents.
LEMMA TotalAdds ==
  ASSUME NEW f \in [Jobs -> Int], NEW g \in [Jobs -> Int],
         NEW S \in SUBSET Jobs, NEW T \in SUBSET Jobs, NEW j \in Jobs, NEW n \in Nat,
         T \subseteq S \cup {j}, g[j] <= n,
         \A i \in T : i # j => g[i] <= f[i]
  PROVE  Total(g, T) <= Total(f, S) + n
<1> DEFINE New == {j} \X (1..n)
<1>1. IsFiniteSet(New) /\ Cardinality(New) = n
  <2>1. 1 \in Int /\ n \in Int
    OBVIOUS
  <2>2. IsFiniteSet(1..n) /\ Cardinality(1..n) = n
    BY <2>1, FS_Interval
  <2>3. IsFiniteSet({j}) /\ Cardinality({j}) = 1
    BY FS_Singleton
  <2>4. IsFiniteSet(New) /\ Cardinality(New) = Cardinality({j}) * Cardinality(1..n)
    BY <2>2, <2>3, FS_Product
  <2> HIDE DEF New
  <2> QED
    BY <2>2, <2>3, <2>4
<1>2. \A i \in T : i # j => 1..g[i] \subseteq 1..f[i]
  OBVIOUS
<1>3. 1..g[j] \subseteq 1..n
  OBVIOUS
<1>4. Cents(g, T) \in SUBSET (Cents(f, S) \cup New)
  BY <1>2, <1>3 DEF Cents
<1>5. IsFiniteSet(Cents(f, S)) /\ IsFiniteSet(Cents(g, T))
  BY CentsFinite
<1> HIDE DEF New
<1>6. /\ IsFiniteSet(Cents(f, S) \cup New)
      /\ Cardinality(Cents(f, S) \cup New) =
           Cardinality(Cents(f, S)) + Cardinality(New) - Cardinality(Cents(f, S) \cap New)
  BY <1>1, <1>5, FS_Union
<1>7. Cardinality(Cents(f, S) \cap New) \in Nat
  BY <1>1, FS_Intersection, FS_CardinalityType
<1>8. Cardinality(Cents(g, T)) <= Cardinality(Cents(f, S) \cup New)
  BY <1>4, <1>6, FS_Subset
<1>9. Cardinality(Cents(f, S)) \in Nat /\ Cardinality(Cents(g, T)) \in Nat
  BY <1>5, FS_CardinalityType
<1> QED
  BY <1>1, <1>6, <1>7, <1>8, <1>9 DEF Total

-----------------------------------------------------------------------------
(* The inductive invariant *)

Rows == [status : {"none", "reserved", "settled", "failed"}, user : Users \cup {NoUser},
         reserved : {0, JobCost}, actual : {0} \cup Costs, day : 0..MaxDay]
Profiles == [pro : BOOLEAN, price : ProPrices, margin : ProMargins]
Attempts == [begun : 0..MaxAttempts, live : 0..MaxAttempts, over : BOOLEAN]

\* What an open row reserves is what every job reserves.
RowsReserve ==
  \A j \in Jobs : ledger[j].status = "reserved" =>
    ledger[j].reserved = JobCost /\ JobCost > 0

\* A job asks once, for a user whose budget it has read.
AsksOnce ==
  \A j \in Jobs : request[j].user # NoUser =>
    ledger[j].status = "none" /\ request[j].budget <= HighestUserBudget(request[j].user)

RunsBegan == \A j \in Jobs : attempts[j].live <= attempts[j].begun

IInv == TypeOK /\ RowsReserve /\ AsksOnce /\ RunsBegan /\ BudgetsHold /\ AlertsKeepUp

LEMMA Numbers ==
  /\ JobCost \in Int /\ DailyBudget \in Nat /\ MonthlyBudget \in Nat /\ FreeBudget \in Nat
  /\ Costs \subseteq Nat /\ MaxAttempts \in Nat \ {0} /\ MaxDay \in Nat /\ DaysPerMonth \in Nat \ {0}
  /\ NoUser \notin Users
  BY SpendAssumption DEF SpendAssumption

LEMMA MonthTyped ==
  ASSUME NEW d \in 0..MaxDay
  PROVE  Month(d) \in 0..MaxDay /\ Month(d) \in 0..Month(MaxDay)
  BY Numbers DEF Month

LEMMA BudgetTyped ==
  ASSUME NEW p \in Profiles
  PROVE  BudgetOfPro(p) \in Nat
<1>1. p.price \in Nat /\ p.margin \in 0..100 /\ DefaultPrice \in Nat /\ DefaultMargin \in 0..100
  BY SpendAssumption DEF SpendAssumption, Profiles
<1> DEFINE price == IF p.price = 0 THEN DefaultPrice ELSE p.price
           margin == IF p.margin = 0 THEN DefaultMargin ELSE p.margin
<1>2. price \in Nat /\ 100 - margin \in Nat
  BY <1>1
<1> HIDE DEF price, margin
<1>3. price * (100 - margin) \in Nat
  BY <1>2
<1>4. \A n \in Nat : n \div 100 \in Nat
  OBVIOUS
<1> QED
  BY <1>3, <1>4 DEF BudgetOfPro, price, margin

\* TypeOK in parts.
LEMMA Parts ==
  TypeOK <=>
    /\ ledger \in [Jobs -> Rows]
    /\ \A j \in Jobs : ledger[j].status = "reserved" => ledger[j].actual = 0
    /\ overdue \subseteq Reserved
    /\ alerts \subseteq {"daily", "monthly"} \X (0..MaxDay) \X Thresholds
    /\ today \in 0..MaxDay
    /\ profile \in [Users -> Profiles]
    /\ request \in [Jobs -> [user : Users \cup {NoUser}, budget : Nat]]
    /\ attempts \in [Jobs -> Attempts]
    /\ unsettled \subseteq Jobs
  BY DEF TypeOK, Rows, Profiles, Attempts

-----------------------------------------------------------------------------
(* What steps do to totals *)

LEMMA AmountsTyped ==
  ASSUME NEW rows \in [Jobs -> Rows]
  PROVE  /\ Due(rows) \in [Jobs -> Int] /\ Paid(rows) \in [Jobs -> Int] /\ Within(rows) \in [Jobs -> Int]
         /\ \A j \in Jobs : /\ Paid(rows)[j] = rows[j].actual
                            /\ Due(rows)[j] = Counted(rows[j])
                            /\ Within(rows)[j] <= Due(rows)[j]
                            /\ Within(rows)[j] <= JobCost
<1>1. \A j \in Jobs : /\ rows[j].actual \in Int /\ rows[j].reserved \in Int
                      /\ Counted(rows[j]) \in Int
  <2> SUFFICES ASSUME NEW j \in Jobs
               PROVE  rows[j].actual \in Int /\ rows[j].reserved \in Int /\ Counted(rows[j]) \in Int
    OBVIOUS
  <2>1. rows[j].actual \in Int /\ rows[j].reserved \in Int
    <3>1. rows[j].actual \in {0} \cup Costs /\ rows[j].reserved \in {0, JobCost}
      BY DEF Rows
    <3>2. {0} \cup Costs \subseteq Int /\ {0, JobCost} \subseteq Int
      BY Numbers
    <3> QED
      BY <3>1, <3>2
  <2> QED
    BY <2>1 DEF Counted
<1>2. Due(rows) \in [Jobs -> Int]
  BY <1>1 DEF Due
<1>3. Paid(rows) \in [Jobs -> Int]
  BY <1>1 DEF Paid
<1>4. Within(rows) \in [Jobs -> Int]
  BY <1>1, Numbers DEF Within
<1>5. ASSUME NEW j \in Jobs
      PROVE  /\ Paid(rows)[j] = rows[j].actual /\ Due(rows)[j] = Counted(rows[j])
             /\ Within(rows)[j] <= Due(rows)[j] /\ Within(rows)[j] <= JobCost
  BY <1>1, Numbers DEF Paid, Due, Within
<1> QED
  BY <1>2, <1>3, <1>4, <1>5

\* Rows of which each is as it was, or costs less, or lost its user.
NoDearer(new, old) ==
  \A j \in Jobs :
    /\ new[j].status = "none" <=> old[j].status = "none"
    /\ new[j].day = old[j].day /\ new[j].user \in {old[j].user, NoUser}
    /\ Within(new)[j] <= Within(old)[j]

LEMMA NoDearerTotals ==
  ASSUME NEW new \in [Jobs -> Rows], NEW old \in [Jobs -> Rows], NoDearer(new, old)
  PROVE  /\ \A d : Total(Within(new), OfDay(new, d)) <= Total(Within(old), OfDay(old, d))
         /\ \A m : Total(Within(new), OfMonth(new, m)) <= Total(Within(old), OfMonth(old, m))
         /\ \A m : \A u \in Users :
              Total(Within(new), OfUser(new, u, m)) <= Total(Within(old), OfUser(old, u, m))
<1>1. Within(new) \in [Jobs -> Int] /\ Within(old) \in [Jobs -> Int]
  BY AmountsTyped
<1>2. \A d : OfDay(new, d) \subseteq OfDay(old, d) /\ OfDay(old, d) \subseteq Jobs
  BY DEF NoDearer, OfDay
<1>3. \A m : OfMonth(new, m) \subseteq OfMonth(old, m) /\ OfMonth(old, m) \subseteq Jobs
  BY DEF NoDearer, OfMonth
<1>4. \A m : \A u \in Users : OfUser(new, u, m) \subseteq OfUser(old, u, m) /\ OfUser(old, u, m) \subseteq Jobs
  BY <1>3, Numbers DEF NoDearer, OfUser
<1>5. \A S, T : S \subseteq T /\ T \subseteq Jobs => Total(Within(new), S) <= Total(Within(old), T)
  <2> SUFFICES ASSUME NEW S, NEW T, S \subseteq T, T \subseteq Jobs
               PROVE  Total(Within(new), S) <= Total(Within(old), T)
    OBVIOUS
  <2>1. \A j \in S : Within(new)[j] <= Within(old)[j]
    BY DEF NoDearer
  <2> QED
    BY <1>1, <2>1, TotalGrows
<1> QED
  BY <1>2, <1>3, <1>4, <1>5

\* Budgets and alerts speak of the rows, which a step without a reservation makes no dearer.
LEMMA BudgetsKept ==
  ASSUME ledger \in [Jobs -> Rows], ledger' \in [Jobs -> Rows], NoDearer(ledger', ledger),
         alerts \subseteq alerts', \A u \in Users : HighestUserBudget(u)' = HighestUserBudget(u),
         \A u \in Users : HighestUserBudget(u) \in Int,
         BudgetsHold, AlertsKeepUp
  PROVE  BudgetsHold' /\ AlertsKeepUp'
<1>0. /\ \A d : OfDay(ledger, d) \in SUBSET Jobs /\ OfDay(ledger', d) \in SUBSET Jobs
      /\ \A m : OfMonth(ledger, m) \in SUBSET Jobs /\ OfMonth(ledger', m) \in SUBSET Jobs
      /\ \A u, m : OfUser(ledger, u, m) \in SUBSET Jobs /\ OfUser(ledger', u, m) \in SUBSET Jobs
  BY DEF OfDay, OfMonth, OfUser
<1>1. /\ \A d : /\ Total(Within(ledger), OfDay(ledger, d)) \in Nat
                /\ Total(Within(ledger'), OfDay(ledger', d)) \in Nat
      /\ \A m : /\ Total(Within(ledger), OfMonth(ledger, m)) \in Nat
                /\ Total(Within(ledger'), OfMonth(ledger', m)) \in Nat
      /\ \A u, m : /\ Total(Within(ledger), OfUser(ledger, u, m)) \in Nat
                   /\ Total(Within(ledger'), OfUser(ledger', u, m)) \in Nat
  BY <1>0, AmountsTyped, CentsFinite
<1>2. /\ \A d : Total(Within(ledger'), OfDay(ledger', d)) <= Total(Within(ledger), OfDay(ledger, d))
      /\ \A m : Total(Within(ledger'), OfMonth(ledger', m)) <= Total(Within(ledger), OfMonth(ledger, m))
      /\ \A m : \A u \in Users :
           Total(Within(ledger'), OfUser(ledger', u, m)) <= Total(Within(ledger), OfUser(ledger, u, m))
  BY NoDearerTotals
<1>3. BudgetsHold'
  BY <1>1, <1>2, Numbers DEF BudgetsHold
<1>4. AlertsKeepUp'
  <2>1. ASSUME NEW a \in Nat, NEW b \in Nat, a <= b, NEW x \in Int, 100 * a >= x
        PROVE  100 * b >= x
    BY <2>1
  <2>2. \A th \in Thresholds : DailyBudget * th \in Int /\ MonthlyBudget * th \in Int
    BY Numbers DEF Thresholds
  <2>3. ASSUME DailyBudget > 0, NEW d \in 0..MaxDay, NEW th \in Thresholds,
               100 * Total(Within(ledger'), OfDay(ledger', d)) >= DailyBudget * th
        PROVE  <<"daily", d, th>> \in alerts'
    <3>1. 100 * Total(Within(ledger), OfDay(ledger, d)) >= DailyBudget * th
      BY <1>1, <1>2, <2>1, <2>2, <2>3
    <3> QED
      BY <2>3, <3>1 DEF AlertsKeepUp
  <2>4. ASSUME MonthlyBudget > 0, NEW m \in 0..Month(MaxDay), NEW th \in Thresholds,
               100 * Total(Within(ledger'), OfMonth(ledger', m)) >= MonthlyBudget * th
        PROVE  <<"monthly", m, th>> \in alerts'
    <3>1. 100 * Total(Within(ledger), OfMonth(ledger, m)) >= MonthlyBudget * th
      BY <1>1, <1>2, <2>1, <2>2, <2>4
    <3> QED
      BY <2>4, <3>1 DEF AlertsKeepUp
  <2> QED
    BY <2>3, <2>4 DEF AlertsKeepUp
<1> QED
  BY <1>3, <1>4

-----------------------------------------------------------------------------
(* What steps do to rows *)

LEMMA SweptRows ==
  ASSUME TypeOK, RowsReserve
  PROVE  /\ Swept \in [Jobs -> Rows]
         /\ \A j \in Jobs : /\ Swept[j] = ledger[j] \/ Swept[j] = [ledger[j] EXCEPT !.status = "failed"]
                            /\ Swept[j].status = "reserved" => Swept[j] = ledger[j]
                            /\ Swept[j].status = "none" <=> ledger[j].status = "none"
                            /\ Swept[j].actual = ledger[j].actual /\ Swept[j].day = ledger[j].day
         /\ NoDearer(Swept, ledger)
<1>1. ledger \in [Jobs -> Rows] /\ \A j \in Jobs : ledger[j].status = "reserved" => ledger[j].actual = 0
  BY Parts
<1>2. ASSUME NEW j \in Jobs
      PROVE  LET row == [ledger[j] EXCEPT !.status = "failed"]
             IN /\ row \in Rows /\ row.status = "failed" /\ row.actual = ledger[j].actual
                /\ row.day = ledger[j].day /\ row.user = ledger[j].user /\ row.reserved = ledger[j].reserved
  BY <1>1 DEF Rows
<1>3. ASSUME NEW j \in Jobs
      PROVE  /\ Swept[j] \in Rows
             /\ Swept[j] = ledger[j] \/ (ledger[j].status = "reserved"
                                         /\ Swept[j] = [ledger[j] EXCEPT !.status = "failed"])
  BY <1>1, <1>2 DEF Swept
<1>4. Swept \in [Jobs -> Rows]
  BY <1>3 DEF Swept
<1>5. ASSUME NEW j \in Jobs
      PROVE  /\ Swept[j] = ledger[j] \/ Swept[j] = [ledger[j] EXCEPT !.status = "failed"]
             /\ Swept[j].status = "reserved" => Swept[j] = ledger[j]
             /\ Swept[j].status = "none" <=> ledger[j].status = "none"
             /\ Swept[j].actual = ledger[j].actual /\ Swept[j].day = ledger[j].day
             /\ Swept[j].user = ledger[j].user
  BY <1>2, <1>3
<1>6. ASSUME NEW j \in Jobs
      PROVE  Within(Swept)[j] <= Within(ledger)[j]
  <2>1. CASE Swept[j] = ledger[j]
    BY <1>4, <2>1, <1>1, AmountsTyped DEF Within
  <2>2. CASE ledger[j].status = "reserved" /\ Swept[j] = [ledger[j] EXCEPT !.status = "failed"]
    <3>1. Counted(Swept[j]) = 0
      BY <1>1, <1>2, <2>2 DEF Counted
    <3>2. Counted(ledger[j]) = JobCost /\ JobCost > 0
      BY <2>2 DEF RowsReserve, Counted
    <3> QED
      BY <3>1, <3>2, Numbers DEF Within
  <2> QED
    BY <1>3, <2>1, <2>2
<1> QED
  BY <1>4, <1>5, <1>6 DEF NoDearer

LEMMA SettledRow ==
  ASSUME TypeOK, RowsReserve, NEW j \in Jobs, NEW cents \in {0} \cup Costs, NEW status \in {"settled", "failed"},
         Settle(j, cents, status)
  PROVE  /\ ledger' \in [Jobs -> Rows]
         /\ \A i \in Jobs : i # j => ledger'[i] = ledger[i]
         /\ ledger[j].status # "reserved" => ledger'[j] = ledger[j]
         /\ ledger[j].status = "reserved" =>
              /\ ledger'[j].status = status /\ ledger'[j].actual = cents
              /\ ledger'[j].day = ledger[j].day /\ ledger'[j].user = ledger[j].user
         /\ NoDearer(ledger', ledger)
<1>1. ledger \in [Jobs -> Rows]
  BY Parts
<1> DEFINE row == [ledger[j] EXCEPT !.status = status, !.actual = cents]
<1>2. /\ row \in Rows /\ row.status = status /\ row.actual = cents
      /\ row.day = ledger[j].day /\ row.user = ledger[j].user
  <2>1. ledger[j] \in Rows
    BY <1>1
  <2> QED
    BY <2>1 DEF Rows
<1> HIDE DEF row
<1>3. ledger' = [ledger EXCEPT ![j] = IF ledger[j].status = "reserved" THEN row ELSE ledger[j]]
  BY DEF Settle, Settled, row
<1>4. ledger' \in [Jobs -> Rows]
  BY <1>1, <1>2, <1>3
<1>5. \A i \in Jobs : i # j => ledger'[i] = ledger[i]
  BY <1>1, <1>3
<1>6. ledger'[j] = IF ledger[j].status = "reserved" THEN row ELSE ledger[j]
  BY <1>1, <1>3
<1>7. ASSUME NEW i \in Jobs
      PROVE  Within(ledger')[i] <= Within(ledger)[i]
  <2>1. CASE ledger'[i] = ledger[i]
    <3>1. Within(ledger')[i] = Within(ledger)[i]
      BY <2>1 DEF Within
    <3> QED
      BY <1>1, <3>1, AmountsTyped
  <2>2. CASE ledger'[i] # ledger[i]
    <3>1. Within(ledger')[i] <= JobCost
      BY <1>4, AmountsTyped
    <3>2. ledger[i].status = "reserved"
      BY <1>5, <1>6, <2>2
    <3>3. Counted(ledger[i]) = JobCost
      BY <3>2 DEF RowsReserve, Counted
    <3>4. Within(ledger)[i] = JobCost
      BY <3>3 DEF Within
    <3> QED
      BY <3>1, <3>4
  <2> QED
    BY <2>1, <2>2
<1>8. ASSUME NEW i \in Jobs
      PROVE  /\ ledger'[i].status = "none" <=> ledger[i].status = "none"
             /\ ledger'[i].day = ledger[i].day /\ ledger'[i].user \in {ledger[i].user, NoUser}
  BY <1>2, <1>5, <1>6
<1>9. NoDearer(ledger', ledger)
  BY <1>7, <1>8 DEF NoDearer
<1> QED
  BY <1>2, <1>4, <1>5, <1>6, <1>9

LEMMA ClosedRows ==
  ASSUME TypeOK, NEW u \in Users, CloseAccount(u)
  PROVE  /\ ledger' \in [Jobs -> Rows]
         /\ \A i \in Jobs : /\ ledger'[i].status = ledger[i].status /\ ledger'[i].actual = ledger[i].actual
                            /\ ledger'[i].day = ledger[i].day /\ ledger'[i].reserved = ledger[i].reserved
         /\ NoDearer(ledger', ledger)
<1>1. ledger \in [Jobs -> Rows]
  BY Parts
<1>2. ASSUME NEW i \in Jobs
      PROVE  LET row == [ledger[i] EXCEPT !.user = NoUser]
             IN /\ row \in Rows /\ row.status = ledger[i].status /\ row.actual = ledger[i].actual
                /\ row.day = ledger[i].day /\ row.user = NoUser /\ row.reserved = ledger[i].reserved
  BY <1>1 DEF Rows
<1>3. ledger' = [j \in Jobs |-> IF ledger[j].user = u THEN [ledger[j] EXCEPT !.user = NoUser] ELSE ledger[j]]
  BY DEF CloseAccount
<1>4. ASSUME NEW i \in Jobs
      PROVE  /\ ledger'[i] \in Rows
             /\ ledger'[i].status = ledger[i].status /\ ledger'[i].actual = ledger[i].actual
             /\ ledger'[i].day = ledger[i].day /\ ledger'[i].reserved = ledger[i].reserved
             /\ ledger'[i].user \in {ledger[i].user, NoUser}
  BY <1>1, <1>2, <1>3
<1>5. ledger' \in [Jobs -> Rows]
  BY <1>3, <1>4
<1>6. ASSUME NEW i \in Jobs
      PROVE  Within(ledger')[i] <= Within(ledger)[i]
  <2>1. Counted(ledger'[i]) = Counted(ledger[i])
    BY <1>4 DEF Counted
  <2>2. Within(ledger')[i] = Within(ledger)[i]
    BY <2>1 DEF Within
  <2> QED
    BY <1>1, <2>2, AmountsTyped
<1> QED
  BY <1>4, <1>5, <1>6 DEF NoDearer

\* A subscription that comes or goes changes nobody's highest budget.
LEMMA ProfileStep ==
  ASSUME TypeOK, NEW u, NEW paid \in BOOLEAN, profile' = [profile EXCEPT ![u].pro = paid]
  PROVE  /\ profile' \in [Users -> Profiles]
         /\ \A v \in Users : HighestUserBudget(v)' = HighestUserBudget(v)
<1>1. profile \in [Users -> Profiles]
  BY Parts
<1>2. ASSUME NEW v \in Users
      PROVE  LET p == [profile[v] EXCEPT !.pro = paid]
             IN p \in Profiles /\ p.price = profile[v].price /\ p.margin = profile[v].margin
  BY <1>1 DEF Profiles
<1>3. profile' \in [Users -> Profiles]
  BY <1>1, <1>2
<1>4. ASSUME NEW v \in Users
      PROVE  profile'[v].price = profile[v].price /\ profile'[v].margin = profile[v].margin
  BY <1>1, <1>2
<1>5. \A v \in Users : BudgetOfPro(profile'[v]) = BudgetOfPro(profile[v])
  BY <1>4 DEF BudgetOfPro
<1> QED
  BY <1>3, <1>5 DEF HighestUserBudget

LEMMA HighestBudgets ==
  ASSUME TypeOK, NEW u \in Users
  PROVE  /\ UserMonthlyBudget(u) \in Nat /\ HighestUserBudget(u) \in Nat
         /\ UserMonthlyBudget(u) <= HighestUserBudget(u)
<1>1. profile[u] \in Profiles
  BY Parts
<1>2. BudgetOfPro(profile[u]) \in Nat
  BY <1>1, BudgetTyped
<1> QED
  BY <1>2, Numbers DEF UserMonthlyBudget, HighestUserBudget

-----------------------------------------------------------------------------
(* Every step keeps types, open rows, requests and runs *)

Shape == TypeOK /\ RowsReserve /\ AsksOnce /\ RunsBegan

Requests == [user : Users \cup {NoUser}, budget : Nat]

\* TypeOK of the next state, from its parts.
LEMMA NextParts ==
  ASSUME ledger' \in [Jobs -> Rows],
         \A j \in Jobs : ledger'[j].status = "reserved" => ledger'[j].actual = 0,
         overdue' \subseteq Reserved',
         alerts' \subseteq {"daily", "monthly"} \X (0..MaxDay) \X Thresholds,
         today' \in 0..MaxDay,
         profile' \in [Users -> Profiles],
         request' \in [Jobs -> Requests],
         attempts' \in [Jobs -> Attempts],
         unsettled' \subseteq Jobs
  PROVE  TypeOK'
  BY DEF TypeOK, Rows, Profiles, Attempts, Requests

\* Requests go on asking for a job without a row, within what their user can have.
LEMMA AsksKept ==
  ASSUME AsksOnce, UNCHANGED request,
         \A j \in Jobs : ledger[j].status = "none" => ledger'[j].status = "none",
         \A j \in Jobs : request[j].user # NoUser => request[j].user \in Users,
         \A u \in Users : HighestUserBudget(u)' = HighestUserBudget(u)
  PROVE  AsksOnce'
  BY DEF AsksOnce

LEMMA LedgerShape ==
  ASSUME Shape, ledger' \in [Jobs -> Rows],
         \A j \in Jobs : /\ ledger'[j].status = "none" <=> ledger[j].status = "none"
                         /\ ledger'[j].status = "reserved" =>
                              /\ ledger[j].status = "reserved" /\ ledger'[j].actual = ledger[j].actual
                              /\ ledger'[j].reserved = ledger[j].reserved,
         UNCHANGED request, \A u \in Users : HighestUserBudget(u)' = HighestUserBudget(u)
  PROVE  /\ \A j \in Jobs : ledger'[j].status = "reserved" => ledger'[j].actual = 0
         /\ RowsReserve' /\ AsksOnce'
<1>1. \A j \in Jobs : ledger[j].status = "reserved" => ledger[j].actual = 0
  BY Parts DEF Shape
<1>2. RowsReserve'
  BY DEF Shape, RowsReserve
<1>3. \A j \in Jobs : request[j].user # NoUser => request[j].user \in Users
  BY Parts DEF Shape
<1>4. AsksOnce'
  BY <1>3, AsksKept DEF Shape
<1> QED
  BY <1>1, <1>2, <1>4

LEMMA SameProfiles ==
  ASSUME UNCHANGED profile
  PROVE  \A u \in Users : HighestUserBudget(u)' = HighestUserBudget(u)
  BY DEF HighestUserBudget

LEMMA AttemptsStep ==
  ASSUME Shape, NEW j \in Jobs, NEW row \in Attempts, row.live <= row.begun,
         attempts' = [attempts EXCEPT ![j] = row]
  PROVE  attempts' \in [Jobs -> Attempts] /\ RunsBegan'
<1>1. attempts \in [Jobs -> Attempts]
  BY Parts DEF Shape
<1> QED
  BY <1>1 DEF Shape, RunsBegan

\* The row of a job whose attempts begin, end or are given up.
LEMMA AttemptRows ==
  ASSUME Shape, NEW j \in Jobs
  PROVE  /\ attempts[j].begun < MaxAttempts =>
              /\ [attempts[j] EXCEPT !.begun = @ + 1, !.live = @ + 1] \in Attempts
              /\ [attempts[j] EXCEPT !.begun = @ + 1, !.live = @ + 1].live
                   <= [attempts[j] EXCEPT !.begun = @ + 1, !.live = @ + 1].begun
         /\ attempts[j].live > 0 =>
              /\ [attempts[j] EXCEPT !.live = @ - 1, !.over = TRUE] \in Attempts
              /\ [attempts[j] EXCEPT !.live = @ - 1, !.over = TRUE].live
                   <= [attempts[j] EXCEPT !.live = @ - 1, !.over = TRUE].begun
              /\ [attempts[j] EXCEPT !.live = @ - 1] \in Attempts
              /\ [attempts[j] EXCEPT !.live = @ - 1].live <= [attempts[j] EXCEPT !.live = @ - 1].begun
         /\ [attempts[j] EXCEPT !.over = TRUE] \in Attempts
         /\ [attempts[j] EXCEPT !.over = TRUE].live <= [attempts[j] EXCEPT !.over = TRUE].begun
<1>1. attempts[j] \in Attempts /\ attempts[j].live <= attempts[j].begun
  BY Parts DEF Shape, RunsBegan
<1>2. attempts[j].begun \in 0..MaxAttempts /\ attempts[j].live \in 0..MaxAttempts
  BY <1>1 DEF Attempts
<1>3. ASSUME attempts[j].begun < MaxAttempts
      PROVE  LET row == [attempts[j] EXCEPT !.begun = @ + 1, !.live = @ + 1]
             IN row \in Attempts /\ row.live <= row.begun
  <2>1. attempts[j].begun + 1 \in 0..MaxAttempts /\ attempts[j].live + 1 \in 0..MaxAttempts
        /\ attempts[j].live + 1 <= attempts[j].begun + 1
    BY <1>1, <1>2, <1>3, Numbers
  <2> QED
    BY <1>1, <2>1 DEF Attempts
<1>4. ASSUME attempts[j].live > 0
      PROVE  /\ LET row == [attempts[j] EXCEPT !.live = @ - 1, !.over = TRUE]
                IN row \in Attempts /\ row.live <= row.begun
             /\ LET row == [attempts[j] EXCEPT !.live = @ - 1]
                IN row \in Attempts /\ row.live <= row.begun
  <2>1. attempts[j].live - 1 \in 0..MaxAttempts /\ attempts[j].live - 1 <= attempts[j].begun
    BY <1>1, <1>2, <1>4, Numbers
  <2>2. LET row == [attempts[j] EXCEPT !.live = @ - 1, !.over = TRUE]
        IN row \in Attempts /\ row.live <= row.begun
    BY <1>1, <2>1 DEF Attempts
  <2>3. LET row == [attempts[j] EXCEPT !.live = @ - 1]
        IN row \in Attempts /\ row.live <= row.begun
    BY <1>1, <2>1 DEF Attempts
  <2> QED
    BY <2>2, <2>3
<1>5. /\ [attempts[j] EXCEPT !.over = TRUE] \in Attempts
      /\ [attempts[j] EXCEPT !.over = TRUE].live <= [attempts[j] EXCEPT !.over = TRUE].begun
  BY <1>1 DEF Attempts
<1> QED
  BY <1>3, <1>4, <1>5

\* What a reservation writes.
LEMMA ReserveRows ==
  ASSUME Shape, NEW j \in Jobs, Reserve(j)
  PROVE  /\ request[j].user \in Users
         /\ ledger' \in [Jobs -> Rows]
         /\ \/ ledger' = Swept /\ UNCHANGED alerts
            \/ /\ JobCost > 0 /\ Fits(Swept, request[j].user, request[j].budget)
               /\ alerts' = alerts \cup Raised(ledger')
               /\ Swept[j].status = "none"
               /\ \A i \in Jobs : i # j => ledger'[i] = Swept[i]
               /\ ledger'[j] = [status |-> "reserved", user |-> request[j].user, reserved |-> JobCost,
                                actual |-> 0, day |-> today]
<1>0. TypeOK /\ RowsReserve
  BY DEF Shape
<1>1. request[j].user \in Users
  BY <1>0, Parts DEF Reserve
<1>2. /\ Swept \in [Jobs -> Rows]
      /\ \A i \in Jobs : Swept[i].status = "none" <=> ledger[i].status = "none"
  BY <1>0, SweptRows
<1>3. ledger[j].status = "none"
  BY <1>1, Numbers DEF Shape, AsksOnce
<1> DEFINE row == [status |-> "reserved", user |-> request[j].user, reserved |-> JobCost,
                   actual |-> 0, day |-> today]
<1>4. row \in Rows
  BY <1>0, <1>1, Parts DEF Rows
<1> HIDE DEF row
<1>5. CASE ledger' = Swept /\ UNCHANGED alerts
  BY <1>1, <1>2, <1>5
<1>6. CASE /\ JobCost > 0 /\ Fits(Swept, request[j].user, request[j].budget)
           /\ alerts' = alerts \cup Raised(ledger') /\ ledger' = [Swept EXCEPT ![j] = row]
  <2>1. ledger' \in [Jobs -> Rows] /\ ledger'[j] = row /\ \A i \in Jobs : i # j => ledger'[i] = Swept[i]
    BY <1>2, <1>4, <1>6
  <2> QED
    BY <1>1, <1>2, <1>3, <1>6, <2>1 DEF row
<1> QED
  BY <1>5, <1>6 DEF Reserve, row

LEMMA RaisedTyped ==
  ASSUME TypeOK, NEW rows
  PROVE  Raised(rows) \subseteq {"daily", "monthly"} \X (0..MaxDay) \X Thresholds
<1>1. today \in 0..MaxDay /\ Month(today) \in 0..MaxDay
  BY Parts, MonthTyped
<1>2. \A total, budget : Reached(total, budget) \subseteq Thresholds
  BY DEF Reached
<1> QED
  BY <1>1, <1>2 DEF Raised

LEMMA ReserveShape ==
  ASSUME Shape, NEW j \in Jobs, Reserve(j)
  PROVE  Shape'
<1>0. TypeOK /\ RowsReserve /\ AsksOnce /\ RunsBegan
  BY DEF Shape
<1>1. /\ request' = [request EXCEPT ![j] = NotAsked] /\ overdue' = {}
      /\ UNCHANGED <<today, profile, attempts, unsettled>>
  BY DEF Reserve
<1>2. /\ Swept \in [Jobs -> Rows]
      /\ \A i \in Jobs : /\ Swept[i].status = "reserved" => Swept[i] = ledger[i]
                         /\ Swept[i].status = "none" <=> ledger[i].status = "none"
  BY <1>0, SweptRows
<1>3. /\ ledger' \in [Jobs -> Rows]
      /\ alerts' = alerts \/ alerts' = alerts \cup Raised(ledger')
      /\ \A i \in Jobs : i # j => ledger'[i] = Swept[i]
      /\ \/ ledger'[j] = Swept[j]
         \/ JobCost > 0 /\ ledger'[j].status = "reserved" /\ ledger'[j].reserved = JobCost
            /\ ledger'[j].actual = 0
  <2> DEFINE row == [status |-> "reserved", user |-> request[j].user, reserved |-> JobCost,
                     actual |-> 0, day |-> today]
  <2>1. row.status = "reserved" /\ row.reserved = JobCost /\ row.actual = 0
    OBVIOUS
  <2>2. /\ ledger' \in [Jobs -> Rows]
        /\ \/ ledger' = Swept /\ UNCHANGED alerts
           \/ /\ JobCost > 0 /\ alerts' = alerts \cup Raised(ledger')
              /\ \A i \in Jobs : i # j => ledger'[i] = Swept[i]
              /\ ledger'[j] = row
    BY ReserveRows
  <2> HIDE DEF row
  <2> QED
    BY <2>1, <2>2
<1>4. ASSUME NEW i \in Jobs, ledger'[i].status = "reserved"
      PROVE  ledger'[i].reserved = JobCost /\ JobCost > 0 /\ ledger'[i].actual = 0
  <2>1. CASE ledger'[i] = Swept[i]
    <3>1. ledger'[i] = ledger[i] /\ ledger[i].status = "reserved"
      BY <1>2, <1>4, <2>1
    <3> QED
      BY <1>0, <3>1, Parts DEF RowsReserve
  <2>2. CASE ledger'[i] # Swept[i]
    BY <1>3, <2>2
  <2> QED
    BY <2>1, <2>2
<1>5. request' \in [Jobs -> Requests]
  <2>1. NotAsked \in Requests
    BY DEF NotAsked, Requests
  <2> QED
    BY <1>0, <1>1, <2>1, Parts DEF Requests
<1>6. request'[j].user = NoUser /\ \A i \in Jobs : i # j => request'[i] = request[i]
  BY <1>0, <1>1, Parts DEF NotAsked
<1>7. alerts' \subseteq {"daily", "monthly"} \X (0..MaxDay) \X Thresholds
  <2>1. Raised(ledger') \subseteq {"daily", "monthly"} \X (0..MaxDay) \X Thresholds
    BY <1>0, RaisedTyped
  <2>2. alerts \subseteq {"daily", "monthly"} \X (0..MaxDay) \X Thresholds
    BY <1>0, Parts
  <2> QED
    BY <1>3, <2>1, <2>2
<1>8. AsksOnce'
  <2>1. \A u \in Users : HighestUserBudget(u)' = HighestUserBudget(u)
    BY <1>1, SameProfiles
  <2>2. ASSUME NEW i \in Jobs, request'[i].user # NoUser
        PROVE  /\ request'[i].user \in Users /\ ledger'[i].status = "none"
               /\ request'[i].budget <= HighestUserBudget(request'[i].user)
    <3>1. i # j /\ request'[i] = request[i]
      BY <1>6, <2>2
    <3>2. ledger[i].status = "none" /\ request[i].budget <= HighestUserBudget(request[i].user)
      BY <1>0, <2>2, <3>1 DEF AsksOnce
    <3>3. request[i].user \in Users
      BY <1>0, <2>2, <3>1, Parts
    <3>4. ledger'[i].status = "none"
      BY <1>2, <1>3, <3>1, <3>2
    <3> QED
      BY <3>1, <3>2, <3>3, <3>4
  <2>3. \A i \in Jobs : request'[i].user # NoUser =>
          /\ ledger'[i].status = "none"
          /\ \A u \in Users : request'[i].user = u => request'[i].budget <= HighestUserBudget(u)'
    BY <2>1, <2>2
  <2> QED
    BY <2>2, <2>3 DEF AsksOnce
<1>9. TypeOK'
  <2>1. overdue' \subseteq Reserved'
    BY <1>1
  <2>2. /\ today' \in 0..MaxDay /\ profile' \in [Users -> Profiles] /\ attempts' \in [Jobs -> Attempts]
        /\ unsettled' \subseteq Jobs
    BY <1>0, <1>1, Parts
  <2> QED
    BY <1>3, <1>4, <1>5, <1>7, <2>1, <2>2, NextParts
<1>10. RowsReserve'
  BY <1>4 DEF RowsReserve
<1>11. RunsBegan'
  BY <1>0, <1>1 DEF RunsBegan
<1> QED
  BY <1>8, <1>9, <1>10, <1>11 DEF Shape

LEMMA OtherShapes ==
  ASSUME Shape,
         \/ \E j \in Jobs, u \in Users : AskBudget(j, u)
         \/ \E j \in Jobs : Begin(j) \/ EndUnsettled(j) \/ Dies(j) \/ Release(j) \/ TwoHoursPass(j)
         \/ \E j \in Jobs, c \in Costs, s \in {"settled", "failed"} : End(j, c, s)
         \/ \E u \in Users : CloseAccount(u) \/ \E paid \in BOOLEAN : SubscriptionChanges(u, paid)
         \/ Midnight
         \/ UNCHANGED vars
  PROVE  Shape'
<1>0. TypeOK /\ RowsReserve /\ AsksOnce /\ RunsBegan
  BY DEF Shape
<1>t. /\ ledger \in [Jobs -> Rows]
      /\ \A i \in Jobs : ledger[i].status = "reserved" => ledger[i].actual = 0
      /\ overdue \subseteq Reserved
      /\ alerts \subseteq {"daily", "monthly"} \X (0..MaxDay) \X Thresholds
      /\ today \in 0..MaxDay /\ profile \in [Users -> Profiles] /\ request \in [Jobs -> Requests]
      /\ attempts \in [Jobs -> Attempts] /\ unsettled \subseteq Jobs
  BY <1>0, Parts DEF Requests
<1>s. ASSUME UNCHANGED <<ledger, request, profile>>
      PROVE  /\ ledger' \in [Jobs -> Rows] /\ request' \in [Jobs -> Requests] /\ profile' \in [Users -> Profiles]
             /\ \A i \in Jobs : ledger'[i].status = "reserved" => ledger'[i].actual = 0
             /\ RowsReserve' /\ AsksOnce' /\ Reserved' = Reserved
  <2>1. \A u \in Users : HighestUserBudget(u)' = HighestUserBudget(u)
    BY <1>s, SameProfiles
  <2>2. RowsReserve' /\ AsksOnce'
    BY <1>0, <1>s, <1>t, <2>1, LedgerShape DEF Shape
  <2> QED
    BY <1>s, <1>t, <2>2 DEF Reserved
<1>1. ASSUME NEW j \in Jobs, NEW u \in Users, AskBudget(j, u)
      PROVE  Shape'
  <2> DEFINE asked == [user |-> u, budget |-> UserMonthlyBudget(u)]
  <2>1. asked \in Requests /\ asked.user = u /\ asked.budget <= HighestUserBudget(u)
    BY <1>0, HighestBudgets DEF Requests
  <2>2. /\ request' = [request EXCEPT ![j] = asked] /\ ledger[j].status = "none"
        /\ UNCHANGED <<ledger, overdue, alerts, today, profile, attempts, unsettled>>
    BY <1>1 DEF AskBudget
  <2> HIDE DEF asked
  <2>3. request' \in [Jobs -> Requests]
    BY <1>t, <2>1, <2>2
  <2>4. TypeOK'
    BY <1>t, <2>2, <2>3, NextParts DEF Reserved
  <2>5. AsksOnce'
    <3>1. \A v \in Users : HighestUserBudget(v)' = HighestUserBudget(v)
      BY <2>2, SameProfiles
    <3>2. request'[j] = asked /\ \A i \in Jobs : i # j => request'[i] = request[i]
      BY <1>t, <2>2
    <3>3. ASSUME NEW i \in Jobs, request'[i].user # NoUser
          PROVE  /\ request'[i].user \in Users /\ ledger'[i].status = "none"
                 /\ request'[i].budget <= HighestUserBudget(request'[i].user)
      <4>1. CASE i = j
        BY <2>1, <2>2, <3>2, <4>1
      <4>2. CASE i # j
        <5>1. request'[i] = request[i] /\ request[i] \in Requests
          BY <1>t, <3>2, <4>2
        <5>2. ledger[i].status = "none" /\ request[i].budget <= HighestUserBudget(request[i].user)
          BY <1>0, <3>3, <5>1 DEF AsksOnce
        <5> QED
          BY <2>2, <3>3, <5>1, <5>2 DEF Requests
      <4> QED
        BY <4>1, <4>2
    <3>4. \A i \in Jobs : request'[i].user # NoUser =>
            /\ ledger'[i].status = "none"
            /\ \A v \in Users : request'[i].user = v => request'[i].budget <= HighestUserBudget(v)'
      BY <3>1, <3>3
    <3> QED
      BY <3>3, <3>4 DEF AsksOnce
  <2> QED
    BY <1>0, <2>2, <2>4, <2>5 DEF Shape, RowsReserve, RunsBegan
<1>2. ASSUME NEW j \in Jobs, Begin(j) \/ EndUnsettled(j) \/ Dies(j)
      PROVE  Shape'
  <2>1. /\ UNCHANGED <<ledger, overdue, alerts, today, profile, request>>
        /\ unsettled' \subseteq Jobs
    BY <1>2, <1>t DEF Begin, EndUnsettled, Dies
  <2>2. \E row \in Attempts : row.live <= row.begun /\ attempts' = [attempts EXCEPT ![j] = row]
    <3>1. CASE Begin(j)
      <4>1. attempts' = [attempts EXCEPT ![j] = [attempts[j] EXCEPT !.begun = @ + 1, !.live = @ + 1]]
        BY <1>t, <3>1 DEF Begin
      <4>2. LET row == [attempts[j] EXCEPT !.begun = @ + 1, !.live = @ + 1]
            IN row \in Attempts /\ row.live <= row.begun
        BY <3>1, AttemptRows DEF Begin
      <4> QED
        BY <4>1, <4>2
    <3>2. CASE EndUnsettled(j)
      <4>1. attempts' = [attempts EXCEPT ![j] = [attempts[j] EXCEPT !.live = @ - 1, !.over = TRUE]]
        BY <1>t, <3>2 DEF EndUnsettled, Ended
      <4>2. LET row == [attempts[j] EXCEPT !.live = @ - 1, !.over = TRUE]
            IN row \in Attempts /\ row.live <= row.begun
        BY <3>2, AttemptRows DEF EndUnsettled
      <4> QED
        BY <4>1, <4>2
    <3>3. CASE Dies(j)
      <4>1. attempts' = [attempts EXCEPT ![j] = [attempts[j] EXCEPT !.live = @ - 1]]
        BY <1>t, <3>3 DEF Dies
      <4>2. LET row == [attempts[j] EXCEPT !.live = @ - 1]
            IN row \in Attempts /\ row.live <= row.begun
        BY <3>3, AttemptRows DEF Dies
      <4> QED
        BY <4>1, <4>2
    <3> QED
      BY <1>2, <3>1, <3>2, <3>3
  <2>3. attempts' \in [Jobs -> Attempts] /\ RunsBegan'
    BY <2>2, AttemptsStep
  <2> QED
    BY <1>s, <1>t, <2>1, <2>3, NextParts DEF Shape
<1>3. ASSUME NEW j \in Jobs, NEW c \in {0} \cup Costs, NEW status \in {"settled", "failed"},
             Settle(j, c, status), UNCHANGED <<alerts, today, profile, request, unsettled>>,
             attempts' \in [Jobs -> Attempts], RunsBegan'
      PROVE  Shape'
  <2>1. /\ ledger' \in [Jobs -> Rows]
        /\ \A i \in Jobs : i # j => ledger'[i] = ledger[i]
        /\ ledger[j].status # "reserved" => ledger'[j] = ledger[j]
        /\ ledger[j].status = "reserved" => ledger'[j].status = status
    BY <1>0, <1>3, SettledRow
  <2>2. \A u \in Users : HighestUserBudget(u)' = HighestUserBudget(u)
    BY <1>3, SameProfiles
  <2>3. \A i \in Jobs : /\ ledger'[i].status = "none" <=> ledger[i].status = "none"
                        /\ ledger'[i].status = "reserved" => ledger'[i] = ledger[i]
    BY <2>1
  <2>4. /\ \A i \in Jobs : ledger'[i].status = "reserved" => ledger'[i].actual = 0
        /\ RowsReserve' /\ AsksOnce'
    BY <1>3, <2>1, <2>2, <2>3, LedgerShape
  <2>5. overdue' \subseteq Reserved'
    <3>1. CASE ledger[j].status = "reserved"
      BY <1>3, <1>t, <2>1, <3>1 DEF Settle, Reserved
    <3>2. CASE ledger[j].status # "reserved"
      BY <1>3, <1>t, <2>1, <3>2 DEF Settle, Reserved
    <3> QED
      BY <3>1, <3>2
  <2> QED
    BY <1>3, <1>t, <2>1, <2>4, <2>5, NextParts DEF Shape
<1>4. ASSUME NEW j \in Jobs, Release(j)
      PROVE  Shape'
  <2>1. attempts' = [attempts EXCEPT ![j] = [attempts[j] EXCEPT !.over = TRUE]]
    BY <1>4, <1>t DEF Release
  <2>2. attempts' \in [Jobs -> Attempts] /\ RunsBegan'
    BY <2>1, AttemptRows, AttemptsStep
  <2> QED
    BY <1>3, <1>4, <2>2 DEF Release
<1>5. ASSUME NEW j \in Jobs, NEW c \in Costs, NEW status \in {"settled", "failed"}, End(j, c, status)
      PROVE  Shape'
  <2>1. attempts' = [attempts EXCEPT ![j] = [attempts[j] EXCEPT !.live = @ - 1, !.over = TRUE]]
    BY <1>5, <1>t DEF End, Ended
  <2>2. LET row == [attempts[j] EXCEPT !.live = @ - 1, !.over = TRUE]
        IN row \in Attempts /\ row.live <= row.begun
    BY <1>5, AttemptRows DEF End
  <2>3. attempts' \in [Jobs -> Attempts] /\ RunsBegan'
    BY <2>1, <2>2, AttemptsStep
  <2> QED
    BY <1>3, <1>5, <2>3 DEF End
<1>6. ASSUME NEW j \in Jobs, TwoHoursPass(j)
      PROVE  Shape'
  <2>1. overdue' \subseteq Reserved /\ UNCHANGED <<ledger, alerts, today, profile, request, attempts, unsettled>>
    BY <1>6, <1>t DEF TwoHoursPass, Reserved
  <2> QED
    BY <1>0, <1>s, <1>t, <2>1, NextParts DEF Shape, RunsBegan
<1>7. ASSUME NEW u \in Users, CloseAccount(u)
      PROVE  Shape'
  <2>1. /\ ledger' \in [Jobs -> Rows]
        /\ \A i \in Jobs : /\ ledger'[i].status = ledger[i].status /\ ledger'[i].actual = ledger[i].actual
                           /\ ledger'[i].reserved = ledger[i].reserved
    BY <1>0, <1>7, ClosedRows
  <2>2. profile' \in [Users -> Profiles] /\ \A v \in Users : HighestUserBudget(v)' = HighestUserBudget(v)
    BY <1>0, <1>7, ProfileStep DEF CloseAccount
  <2>3. UNCHANGED <<overdue, alerts, today, request, attempts, unsettled>>
    BY <1>7 DEF CloseAccount
  <2>4. /\ \A i \in Jobs : ledger'[i].status = "reserved" => ledger'[i].actual = 0
        /\ RowsReserve' /\ AsksOnce'
    BY <2>1, <2>2, <2>3, LedgerShape
  <2>5. Reserved' = Reserved
    BY <2>1 DEF Reserved
  <2> QED
    BY <1>0, <1>t, <2>1, <2>2, <2>3, <2>4, <2>5, NextParts DEF Shape, RunsBegan
<1>8. ASSUME NEW u \in Users, NEW paid \in BOOLEAN, SubscriptionChanges(u, paid)
      PROVE  Shape'
  <2>1. profile' \in [Users -> Profiles] /\ \A v \in Users : HighestUserBudget(v)' = HighestUserBudget(v)
    BY <1>0, <1>8, ProfileStep DEF SubscriptionChanges
  <2>2. UNCHANGED <<ledger, overdue, alerts, today, request, attempts, unsettled>>
    BY <1>8 DEF SubscriptionChanges
  <2>3. RowsReserve' /\ AsksOnce'
    BY <1>t, <2>1, <2>2, LedgerShape
  <2> QED
    BY <1>0, <1>t, <2>1, <2>2, <2>3, NextParts DEF Shape, RunsBegan, Reserved
<1>9. CASE Midnight
  <2>1. /\ today' = today + 1 /\ today < MaxDay /\ overdue' \subseteq Reserved
        /\ UNCHANGED <<ledger, alerts, profile, request, attempts, unsettled>>
    BY <1>9, <1>t DEF Midnight
  <2>2. today' \in 0..MaxDay
    BY <1>t, <2>1, Numbers
  <2> QED
    BY <1>0, <1>s, <1>t, <2>1, <2>2, NextParts DEF Shape, RunsBegan
<1>10. CASE UNCHANGED vars
  <2>1. UNCHANGED <<ledger, overdue, alerts, today, profile, request, attempts, unsettled>>
    BY <1>10 DEF vars
  <2> QED
    BY <1>0, <1>s, <1>t, <2>1, NextParts DEF Shape, RunsBegan
<1> QED
  BY <1>1, <1>2, <1>4, <1>5, <1>6, <1>7, <1>8, <1>9, <1>10

-----------------------------------------------------------------------------
(* Budgets and alerts *)

\* A reservation that was made: what the swept rows cost and the new row fit the budgets.
LEMMA ReservedWithinBudgets ==
  ASSUME Shape, BudgetsHold, AlertsKeepUp, NEW j \in Jobs, Reserve(j),
         JobCost > 0, Fits(Swept, request[j].user, request[j].budget),
         alerts' = alerts \cup Raised(ledger'), Swept[j].status = "none",
         \A i \in Jobs : i # j => ledger'[i] = Swept[i],
         ledger'[j] = [status |-> "reserved", user |-> request[j].user, reserved |-> JobCost,
                       actual |-> 0, day |-> today],
         ledger' \in [Jobs -> Rows], request[j].user \in Users
  PROVE  BudgetsHold' /\ AlertsKeepUp'
<1> DEFINE u == request[j].user
           old == Swept
           new == ledger'
<1>0. TypeOK /\ RowsReserve /\ AsksOnce
  BY DEF Shape
<1>1. old \in [Jobs -> Rows] /\ NoDearer(old, ledger)
  BY <1>0, SweptRows
<1>2. /\ Due(old) \in [Jobs -> Int] /\ Within(new) \in [Jobs -> Int] /\ Within(old) \in [Jobs -> Int]
      /\ Within(ledger) \in [Jobs -> Int] /\ Due(new) \in [Jobs -> Int]
      /\ \A i \in Jobs : /\ Within(new)[i] <= JobCost /\ Within(new)[i] <= Due(new)[i]
                         /\ Within(old)[i] <= Due(old)[i]
      /\ ledger \in [Jobs -> Rows]
  BY <1>0, <1>1, Parts, AmountsTyped
<1>3. \A i \in Jobs : i # j => Within(new)[i] = Within(old)[i]
  BY DEF Within
<1>4. JobCost \in Nat /\ today \in 0..MaxDay /\ Month(today) \in 0..Month(MaxDay)
  BY <1>0, Parts, MonthTyped, Numbers
<1>5. new[j].status = "reserved" /\ new[j].user = u /\ new[j].day = today
  OBVIOUS
<1>j. \A i \in Jobs : i # j => new[i] = old[i]
  OBVIOUS
<1>f. Fits(old, u, request[j].budget) /\ old[j].status = "none" /\ alerts' = alerts \cup Raised(new)
  OBVIOUS
<1> HIDE DEF old, new, u
<1>6. \A S, T : T \subseteq S \cup {j} /\ S \subseteq Jobs /\ T \subseteq Jobs =>
        Total(Within(new), T) <= Total(Due(old), S) + JobCost
  <2> SUFFICES ASSUME NEW S, NEW T, T \subseteq S \cup {j}, S \subseteq Jobs, T \subseteq Jobs
               PROVE  Total(Within(new), T) <= Total(Due(old), S) + JobCost
    OBVIOUS
  <2>1. \A i \in T : i # j => Within(new)[i] <= Due(old)[i]
    BY <1>2, <1>3
  <2>2. Within(new)[j] <= JobCost
    BY <1>2
  <2> QED
    BY <1>2, <1>4, <2>1, <2>2, TotalAdds
<1>7. \A S, T : T \subseteq S /\ S \subseteq Jobs /\ j \notin T => Total(Within(new), T) <= Total(Within(old), S)
  <2> SUFFICES ASSUME NEW S, NEW T, T \subseteq S, S \subseteq Jobs, j \notin T
               PROVE  Total(Within(new), T) <= Total(Within(old), S)
    OBVIOUS
  <2>1. \A i \in T : Within(new)[i] <= Within(old)[i]
    BY <1>2, <1>3
  <2> QED
    BY <1>2, <2>1, TotalGrows
<1>8. /\ \A d : Total(Within(old), OfDay(old, d)) <= Total(Within(ledger), OfDay(ledger, d))
      /\ \A m : Total(Within(old), OfMonth(old, m)) <= Total(Within(ledger), OfMonth(ledger, m))
      /\ \A m : \A v \in Users :
           Total(Within(old), OfUser(old, v, m)) <= Total(Within(ledger), OfUser(ledger, v, m))
  BY <1>1, <1>2, NoDearerTotals
<1>9. /\ \A d : OfDay(new, d) \subseteq OfDay(old, d) \cup {j} /\ OfDay(old, d) \subseteq Jobs
                /\ OfDay(new, d) \subseteq Jobs /\ (d # today => j \notin OfDay(new, d))
      /\ \A m : OfMonth(new, m) \subseteq OfMonth(old, m) \cup {j} /\ OfMonth(old, m) \subseteq Jobs
                /\ OfMonth(new, m) \subseteq Jobs /\ (m # Month(today) => j \notin OfMonth(new, m))
  BY <1>5, <1>j DEF OfDay, OfMonth
<1>10. \A v, m : /\ OfUser(new, v, m) \subseteq OfUser(old, v, m) \cup {j} /\ OfUser(old, v, m) \subseteq Jobs
                 /\ OfUser(new, v, m) \subseteq Jobs
                 /\ v # u \/ m # Month(today) => j \notin OfUser(new, v, m)
  BY <1>5, <1>9, <1>j DEF OfUser
<1>11. /\ \A S \in SUBSET Jobs : /\ Total(Within(new), S) \in Nat /\ Total(Within(old), S) \in Nat
                                 /\ Total(Within(ledger), S) \in Nat /\ Total(Due(old), S) \in Nat
                                 /\ Total(Due(new), S) \in Nat
  BY <1>2, CentsFinite
<1>12. /\ \A d : OfDay(ledger, d) \in SUBSET Jobs /\ \A m : OfMonth(ledger, m) \in SUBSET Jobs
       /\ \A v, m : OfUser(ledger, v, m) \in SUBSET Jobs
  BY DEF OfDay, OfMonth, OfUser
<1>13. /\ Total(Due(old), OfDay(old, today)) + JobCost <= DailyBudget
       /\ Total(Due(old), OfMonth(old, Month(today))) + JobCost <= MonthlyBudget
       /\ Total(Due(old), OfUser(old, u, Month(today))) + JobCost <= request[j].budget
  BY <1>f DEF Fits
<1>14. /\ u \in Users /\ request[j].budget \in Nat /\ request[j].budget <= HighestUserBudget(u)
       /\ \A v \in Users : HighestUserBudget(v) \in Nat
       /\ \A v \in Users : HighestUserBudget(v)' = HighestUserBudget(v)
  <2>1. UNCHANGED profile
    BY DEF Reserve
  <2>2. u \in Users /\ u # NoUser
    BY Numbers DEF u
  <2>3. request[j].budget <= HighestUserBudget(u) /\ request[j].budget \in Nat
    BY <1>0, <2>2, Parts DEF AsksOnce, u
  <2> QED
    BY <1>0, <2>1, <2>2, <2>3, HighestBudgets, SameProfiles
<1>15. ASSUME NEW d \in 0..MaxDay
       PROVE  /\ Total(Within(new), OfDay(new, d)) <= DailyBudget
              /\ d # today => Total(Within(new), OfDay(new, d)) <= Total(Within(ledger), OfDay(ledger, d))
  <2>1. CASE d = today
    BY <1>4, <1>6, <1>9, <1>11, <1>13, <2>1, Numbers
  <2>2. CASE d # today
    <3>1. Total(Within(new), OfDay(new, d)) <= Total(Within(old), OfDay(old, d))
      <4>1. OfDay(new, d) \subseteq OfDay(old, d)
        BY <1>9, <2>2
      <4> QED
        BY <1>7, <1>9, <2>2, <4>1
    <3>2. Total(Within(ledger), OfDay(ledger, d)) <= DailyBudget
      BY DEF BudgetsHold
    <3> QED
      BY <1>8, <1>9, <1>11, <1>12, <3>1, <3>2, Numbers
  <2> QED
    BY <2>1, <2>2
<1>16. ASSUME NEW m \in 0..Month(MaxDay)
       PROVE  /\ Total(Within(new), OfMonth(new, m)) <= MonthlyBudget
              /\ m # Month(today) =>
                   Total(Within(new), OfMonth(new, m)) <= Total(Within(ledger), OfMonth(ledger, m))
  <2>1. CASE m = Month(today)
    BY <1>4, <1>6, <1>9, <1>11, <1>13, <2>1, Numbers
  <2>2. CASE m # Month(today)
    <3>1. Total(Within(new), OfMonth(new, m)) <= Total(Within(old), OfMonth(old, m))
      <4>1. OfMonth(new, m) \subseteq OfMonth(old, m)
        BY <1>9, <2>2
      <4> QED
        BY <1>7, <1>9, <2>2, <4>1
    <3>2. Total(Within(ledger), OfMonth(ledger, m)) <= MonthlyBudget
      BY DEF BudgetsHold
    <3> QED
      BY <1>8, <1>9, <1>11, <1>12, <3>1, <3>2, Numbers
  <2> QED
    BY <2>1, <2>2
<1>17. ASSUME NEW m \in 0..Month(MaxDay), NEW v \in Users
       PROVE  Total(Within(new), OfUser(new, v, m)) <= HighestUserBudget(v)
  <2>1. CASE v = u /\ m = Month(today)
    <3>1. Total(Within(new), OfUser(new, u, Month(today)))
            <= Total(Due(old), OfUser(old, u, Month(today))) + JobCost
      BY <1>6, <1>10
    <3> QED
      BY <1>4, <1>10, <1>11, <1>13, <1>14, <2>1, <3>1
  <2>2. CASE v # u \/ m # Month(today)
    <3>1. Total(Within(new), OfUser(new, v, m)) <= Total(Within(old), OfUser(old, v, m))
      <4>1. OfUser(new, v, m) \subseteq OfUser(old, v, m)
        BY <1>10, <2>2
      <4> QED
        BY <1>7, <1>10, <2>2, <4>1
    <3>2. Total(Within(ledger), OfUser(ledger, v, m)) <= HighestUserBudget(v)
      BY DEF BudgetsHold
    <3> QED
      BY <1>8, <1>10, <1>11, <1>12, <1>14, <3>1, <3>2
  <2> QED
    BY <2>1, <2>2
<1>18. BudgetsHold'
  BY <1>14, <1>15, <1>16, <1>17 DEF BudgetsHold, new
<1>19. \A S \in SUBSET Jobs : Total(Within(new), S) <= Total(Due(new), S)
  BY <1>2, TotalGrows
<1>20. \A th \in Thresholds : DailyBudget * th \in Int /\ MonthlyBudget * th \in Int
  BY Numbers DEF Thresholds
<1>21. ASSUME NEW a \in Nat, NEW b \in Nat, a <= b, NEW x \in Int, 100 * a >= x
       PROVE  100 * b >= x
  BY <1>21
<1>22. ASSUME DailyBudget > 0, NEW d \in 0..MaxDay, NEW th \in Thresholds,
              100 * Total(Within(new), OfDay(new, d)) >= DailyBudget * th
       PROVE  <<"daily", d, th>> \in alerts'
  <2>1. CASE d = today
    <3>1. 100 * Total(Due(new), OfDay(new, today)) >= DailyBudget * th
      BY <1>9, <1>11, <1>19, <1>20, <1>21, <1>22, <2>1
    <3>2. <<"daily", today, th>> \in Raised(new)
      BY <1>22, <3>1 DEF Raised, Reached
    <3> QED
      BY <1>f, <2>1, <3>2
  <2>2. CASE d # today
    <3>1. 100 * Total(Within(ledger), OfDay(ledger, d)) >= DailyBudget * th
      BY <1>9, <1>11, <1>12, <1>15, <1>20, <1>21, <1>22, <2>2
    <3> QED
      BY <1>f, <1>22, <3>1 DEF AlertsKeepUp
  <2> QED
    BY <2>1, <2>2
<1>23. ASSUME MonthlyBudget > 0, NEW m \in 0..Month(MaxDay), NEW th \in Thresholds,
              100 * Total(Within(new), OfMonth(new, m)) >= MonthlyBudget * th
       PROVE  <<"monthly", m, th>> \in alerts'
  <2>1. CASE m = Month(today)
    <3>1. 100 * Total(Due(new), OfMonth(new, Month(today))) >= MonthlyBudget * th
      BY <1>9, <1>11, <1>19, <1>20, <1>21, <1>23, <2>1
    <3>2. <<"monthly", Month(today), th>> \in Raised(new)
      BY <1>23, <3>1 DEF Raised, Reached
    <3> QED
      BY <1>f, <2>1, <3>2
  <2>2. CASE m # Month(today)
    <3>1. 100 * Total(Within(ledger), OfMonth(ledger, m)) >= MonthlyBudget * th
      BY <1>9, <1>11, <1>12, <1>16, <1>20, <1>21, <1>23, <2>2
    <3> QED
      BY <1>f, <1>23, <3>1 DEF AlertsKeepUp
  <2> QED
    BY <2>1, <2>2
<1>24. AlertsKeepUp'
  BY <1>22, <1>23 DEF AlertsKeepUp, new
<1> QED
  BY <1>18, <1>24

LEMMA BudgetsStep ==
  ASSUME Shape, BudgetsHold, AlertsKeepUp, [Next]_vars
  PROVE  BudgetsHold' /\ AlertsKeepUp'
<1>0. /\ TypeOK /\ RowsReserve /\ ledger \in [Jobs -> Rows]
      /\ \A u \in Users : HighestUserBudget(u) \in Int
  BY Parts, HighestBudgets DEF Shape
<1>r. NoDearer(ledger, ledger)
  <2>1. \A i \in Jobs : Within(ledger)[i] <= Within(ledger)[i]
    BY <1>0, AmountsTyped
  <2> QED
    BY <2>1 DEF NoDearer
<1>1. ASSUME NEW j \in Jobs, Reserve(j)
      PROVE  BudgetsHold' /\ AlertsKeepUp'
  <2>1. CASE ledger' = Swept /\ UNCHANGED alerts
    <3>1. Swept \in [Jobs -> Rows] /\ NoDearer(Swept, ledger)
      BY <1>0, SweptRows
    <3>2. \A u \in Users : HighestUserBudget(u)' = HighestUserBudget(u)
      BY <1>1, SameProfiles DEF Reserve
    <3> QED
      BY <1>0, <2>1, <3>1, <3>2, BudgetsKept
  <2>2. CASE ~(ledger' = Swept /\ UNCHANGED alerts)
    BY <1>1, <2>2, ReserveRows, ReservedWithinBudgets
  <2> QED
    BY <2>1, <2>2
<1>2. CASE UNCHANGED <<ledger, alerts>> /\ \A u \in Users : HighestUserBudget(u)' = HighestUserBudget(u)
  BY <1>0, <1>2, <1>r, BudgetsKept
<1>3. ASSUME NEW j \in Jobs, NEW c \in {0} \cup Costs, NEW s \in {"settled", "failed"},
             Settle(j, c, s), UNCHANGED <<alerts, profile>>
      PROVE  BudgetsHold' /\ AlertsKeepUp'
  <2>1. ledger' \in [Jobs -> Rows] /\ NoDearer(ledger', ledger)
    BY <1>0, <1>3, SettledRow
  <2>2. \A u \in Users : HighestUserBudget(u)' = HighestUserBudget(u)
    BY <1>3, SameProfiles
  <2> QED
    BY <1>0, <1>3, <2>1, <2>2, BudgetsKept
<1>4. ASSUME NEW u \in Users, CloseAccount(u)
      PROVE  BudgetsHold' /\ AlertsKeepUp'
  <2>1. ledger' \in [Jobs -> Rows] /\ NoDearer(ledger', ledger)
    BY <1>0, <1>4, ClosedRows
  <2>2. UNCHANGED alerts /\ \A v \in Users : HighestUserBudget(v)' = HighestUserBudget(v)
    BY <1>0, <1>4, ProfileStep DEF CloseAccount
  <2> QED
    BY <1>0, <2>1, <2>2, BudgetsKept
<1>5. ASSUME NEW u \in Users, NEW paid \in BOOLEAN, SubscriptionChanges(u, paid)
      PROVE  BudgetsHold' /\ AlertsKeepUp'
  <2>1. UNCHANGED <<ledger, alerts>> /\ \A v \in Users : HighestUserBudget(v)' = HighestUserBudget(v)
    BY <1>0, <1>5, ProfileStep DEF SubscriptionChanges
  <2> QED
    BY <1>2, <2>1
<1>6. CASE UNCHANGED <<ledger, alerts, profile>>
  BY <1>2, <1>6, SameProfiles
<1>7. ASSUME NEW j \in Jobs, NEW c \in Costs, NEW s \in {"settled", "failed"}, End(j, c, s)
      PROVE  BudgetsHold' /\ AlertsKeepUp'
  BY <1>3, <1>7 DEF End
<1>8. ASSUME NEW j \in Jobs, Release(j)
      PROVE  BudgetsHold' /\ AlertsKeepUp'
  BY <1>3, <1>8 DEF Release
<1>9. ASSUME NEW j \in Jobs,
             (\E u \in Users : AskBudget(j, u)) \/ Begin(j) \/ EndUnsettled(j) \/ Dies(j) \/ TwoHoursPass(j)
      PROVE  BudgetsHold' /\ AlertsKeepUp'
  BY <1>6, <1>9 DEF AskBudget, Begin, EndUnsettled, Dies, TwoHoursPass
<1>10. CASE Midnight \/ UNCHANGED vars
  BY <1>6, <1>10 DEF Midnight, vars
<1> QED
  BY <1>1, <1>4, <1>5, <1>7, <1>8, <1>9, <1>10 DEF Next

-----------------------------------------------------------------------------
(* Money that was spent *)

\* A step that keeps what rows paid, or raises it, in the day they belong to.
LEMMA PaidKept ==
  ASSUME ledger \in [Jobs -> Rows], ledger' \in [Jobs -> Rows],
         \A i \in Jobs : ledger[i].status # "none" =>
           /\ ledger'[i].status # "none" /\ ledger'[i].day = ledger[i].day
           /\ ledger'[i].actual >= ledger[i].actual
  PROVE  \A d \in 0..MaxDay :
           Total(Paid(ledger'), OfDay(ledger', d)) >= Total(Paid(ledger), OfDay(ledger, d))
<1> SUFFICES ASSUME NEW d \in 0..MaxDay
             PROVE  Total(Paid(ledger'), OfDay(ledger', d)) >= Total(Paid(ledger), OfDay(ledger, d))
  OBVIOUS
<1>1. OfDay(ledger, d) \subseteq OfDay(ledger', d) /\ OfDay(ledger', d) \subseteq Jobs
  BY DEF OfDay
<1>2. \A i \in OfDay(ledger, d) : Paid(ledger)[i] <= Paid(ledger')[i]
  <2> SUFFICES ASSUME NEW i \in OfDay(ledger, d)
               PROVE  Paid(ledger)[i] <= Paid(ledger')[i]
    OBVIOUS
  <2>1. i \in Jobs /\ ledger[i].status # "none"
    BY DEF OfDay
  <2>2. /\ Paid(ledger)[i] = ledger[i].actual /\ Paid(ledger')[i] = ledger'[i].actual
        /\ Paid(ledger)[i] \in Int /\ Paid(ledger')[i] \in Int
    BY <2>1, AmountsTyped
  <2> QED
    BY <2>1, <2>2
<1>3. Total(Paid(ledger), OfDay(ledger, d)) <= Total(Paid(ledger'), OfDay(ledger', d))
  BY <1>1, <1>2, AmountsTyped, TotalGrows
<1>4. /\ Total(Paid(ledger), OfDay(ledger, d)) \in Nat
      /\ Total(Paid(ledger'), OfDay(ledger', d)) \in Nat
  BY <1>1, AmountsTyped, CentsFinite
<1> QED
  BY <1>3, <1>4

LEMMA SpentStep ==
  ASSUME Shape, Shape', Next
  PROVE  \A d \in 0..MaxDay :
           Total(Paid(ledger'), OfDay(ledger', d)) >= Total(Paid(ledger), OfDay(ledger, d))
<1> DEFINE Grows == \A i \in Jobs : ledger[i].status # "none" =>
                      /\ ledger'[i].status # "none" /\ ledger'[i].day = ledger[i].day
                      /\ ledger'[i].actual >= ledger[i].actual
<1>0. /\ TypeOK /\ RowsReserve /\ ledger \in [Jobs -> Rows]
      /\ \A i \in Jobs : ledger[i].status = "reserved" => ledger[i].actual = 0
  BY Parts DEF Shape
<1>1. ledger' \in [Jobs -> Rows]
  BY DEF Shape, TypeOK, Rows
<1>a. \A i \in Jobs : ledger[i].actual \in Nat /\ ledger'[i].actual \in Nat
  <2>1. \A i \in Jobs : ledger[i].actual \in {0} \cup Costs /\ ledger'[i].actual \in {0} \cup Costs
    BY <1>0, <1>1 DEF Rows
  <2>2. {0} \cup Costs \subseteq Nat
    BY Numbers
  <2> QED
    BY <2>1, <2>2
<1>2. ASSUME NEW j \in Jobs, Reserve(j)
      PROVE  Grows
  <2>1. \A i \in Jobs : /\ Swept[i].status = "none" <=> ledger[i].status = "none"
                        /\ Swept[i].actual = ledger[i].actual /\ Swept[i].day = ledger[i].day
    BY <1>0, SweptRows
  <2>2. CASE ledger' = Swept
    BY <1>a, <2>1, <2>2
  <2>3. CASE Swept[j].status = "none" /\ \A i \in Jobs : i # j => ledger'[i] = Swept[i]
    <3>1. \A i \in Jobs : ledger[i].status # "none" => ledger'[i] = Swept[i]
      BY <2>1, <2>3
    <3> QED
      BY <1>a, <2>1, <3>1
  <2> QED
    BY <1>2, <2>2, <2>3, ReserveRows
<1>3. ASSUME NEW j \in Jobs, NEW c \in {0} \cup Costs, NEW s \in {"settled", "failed"}, Settle(j, c, s)
      PROVE  Grows
  <2>1. /\ \A i \in Jobs : i # j => ledger'[i] = ledger[i]
        /\ ledger[j].status # "reserved" => ledger'[j] = ledger[j]
        /\ ledger[j].status = "reserved" =>
             /\ ledger'[j].status = s /\ ledger'[j].actual = c /\ ledger'[j].day = ledger[j].day
    BY <1>0, <1>3, SettledRow
  <2>2. CASE ledger[j].status = "reserved"
    <3>1. ledger'[j].status # "none" /\ ledger'[j].day = ledger[j].day /\ ledger'[j].actual >= ledger[j].actual
      BY <1>0, <1>a, <2>1, <2>2
    <3> QED
      BY <1>a, <2>1, <3>1
  <2>3. CASE ledger[j].status # "reserved"
    <3>1. \A i \in Jobs : ledger'[i] = ledger[i]
      BY <2>1, <2>3
    <3> QED
      BY <1>a, <3>1
  <2> QED
    BY <2>2, <2>3
<1>4. ASSUME NEW u \in Users, CloseAccount(u)
      PROVE  Grows
  <2>1. \A i \in Jobs : /\ ledger'[i].status = ledger[i].status /\ ledger'[i].actual = ledger[i].actual
                        /\ ledger'[i].day = ledger[i].day
    BY <1>0, <1>4, ClosedRows
  <2> QED
    BY <1>a, <2>1
<1>5. ASSUME UNCHANGED ledger
      PROVE  Grows
  BY <1>a, <1>5
<1>6. Grows
  <2>1. ASSUME NEW j \in Jobs, NEW c \in Costs, NEW s \in {"settled", "failed"}, End(j, c, s)
        PROVE  Grows
    BY <1>3, <2>1 DEF End
  <2>2. ASSUME NEW j \in Jobs, Release(j)
        PROVE  Grows
    BY <1>3, <2>2 DEF Release
  <2>3. ASSUME NEW j \in Jobs,
               (\E u \in Users : AskBudget(j, u)) \/ Begin(j) \/ EndUnsettled(j) \/ Dies(j) \/ TwoHoursPass(j)
        PROVE  Grows
    BY <1>5, <2>3 DEF AskBudget, Begin, EndUnsettled, Dies, TwoHoursPass
  <2>4. CASE Midnight \/ \E u \in Users, paid \in BOOLEAN : SubscriptionChanges(u, paid)
    BY <1>5, <2>4 DEF Midnight, SubscriptionChanges
  <2> HIDE DEF Grows
  <2> QED
    BY <1>2, <1>4, <2>1, <2>2, <2>3, <2>4 DEF Next
<1> QED
  BY <1>0, <1>1, <1>6, PaidKept

-----------------------------------------------------------------------------
(* The theorems *)

LEMMA IInvInit == Init => IInv
<1> SUFFICES ASSUME Init PROVE IInv
  OBVIOUS
<1>1. NoRow \in Rows /\ NoRow.status = "none" /\ NotAsked \in Requests /\ NotAsked.user = NoUser
      /\ [begun |-> 0, live |-> 0, over |-> FALSE] \in Attempts
  BY Numbers DEF NoRow, NotAsked, Rows, Requests, Attempts
<1>2. /\ ledger = [j \in Jobs |-> NoRow] /\ overdue = {} /\ alerts = {} /\ today = 0
      /\ profile \in [Users -> Profiles] /\ request = [j \in Jobs |-> NotAsked]
      /\ attempts = [j \in Jobs |-> [begun |-> 0, live |-> 0, over |-> FALSE]] /\ unsettled = {}
  BY DEF Init, Profiles
<1>3. /\ ledger \in [Jobs -> Rows] /\ today \in 0..MaxDay /\ request \in [Jobs -> Requests]
      /\ attempts \in [Jobs -> Attempts] /\ \A j \in Jobs : ledger[j].status = "none" /\ request[j].user = NoUser
  BY <1>1, <1>2, Numbers
<1>4. TypeOK
  BY <1>2, <1>3, Parts DEF Requests
<1>5. RowsReserve /\ AsksOnce
  BY <1>3 DEF RowsReserve, AsksOnce
<1>6. RunsBegan
  BY <1>2 DEF RunsBegan
<1>7. /\ \A d : OfDay(ledger, d) = {} /\ \A m : OfMonth(ledger, m) = {}
      /\ \A u, m : OfUser(ledger, u, m) = {}
  BY <1>3 DEF OfDay, OfMonth, OfUser
<1>8. \A amount : Total(amount, {}) = 0
  <2>1. \A amount : Cents(amount, {}) = {}
    BY DEF Cents
  <2> QED
    BY <2>1, FS_EmptySet DEF Total
<1>9. BudgetsHold
  <2>1. \A u \in Users : HighestUserBudget(u) \in Nat
    BY <1>4, HighestBudgets
  <2>2. /\ \A d : Total(Within(ledger), OfDay(ledger, d)) = 0
        /\ \A m : Total(Within(ledger), OfMonth(ledger, m)) = 0
        /\ \A u, m : Total(Within(ledger), OfUser(ledger, u, m)) = 0
    BY <1>7, <1>8
  <2> QED
    BY <2>1, <2>2, Numbers DEF BudgetsHold
<1>10. AlertsKeepUp
  <2>1. \A th \in Thresholds : /\ DailyBudget > 0 => ~(100 * 0 >= DailyBudget * th)
                               /\ MonthlyBudget > 0 => ~(100 * 0 >= MonthlyBudget * th)
    BY Numbers DEF Thresholds
  <2> QED
    BY <1>7, <1>8, <2>1 DEF AlertsKeepUp
<1> QED
  BY <1>4, <1>5, <1>6, <1>9, <1>10 DEF IInv

LEMMA ShapeStep ==
  ASSUME Shape, [Next]_vars
  PROVE  Shape'
<1>1. ASSUME NEW j \in Jobs, Reserve(j)
      PROVE  Shape'
  BY <1>1, ReserveShape
<1>2. CASE \/ \E j \in Jobs, u \in Users : AskBudget(j, u)
           \/ \E j \in Jobs : Begin(j) \/ EndUnsettled(j) \/ Dies(j) \/ Release(j) \/ TwoHoursPass(j)
           \/ \E j \in Jobs, c \in Costs, s \in {"settled", "failed"} : End(j, c, s)
           \/ \E u \in Users : CloseAccount(u) \/ \E paid \in BOOLEAN : SubscriptionChanges(u, paid)
           \/ Midnight
           \/ UNCHANGED vars
  BY <1>2, OtherShapes
<1> QED
  BY <1>1, <1>2 DEF Next

LEMMA Invariant == Spec => []IInv
<1>1. Init => IInv
  BY IInvInit
<1>2. IInv /\ [Next]_vars => IInv'
  BY ShapeStep, BudgetsStep DEF IInv, Shape
<1> QED
  BY <1>1, <1>2, PTL DEF Spec

\* Values of the ledger and of its callers keep their types, whatever order they come in
\* (api_spend_ledger, 001_init.sql:133).
THEOREM LedgerTypeCorrect == Spec => []TypeOK
  BY Invariant, PTL DEF IInv

\* For any budgets, jobs and costs, the rows of a day, of a month and of one user stay within
\* the three budgets but for what an attempt paid above its reservation: the test of
\* reserve_api_spend sees every open reservation (001_init.sql:307).
THEOREM BudgetsAlwaysHold == Spec => []BudgetsHold
  BY Invariant, PTL DEF IInv

\* For any budgets above zero, no share of a budget is reached without its alert: only a
\* reservation raises a total, and it inserts the alerts itself (001_init.sql:335-348).
THEOREM AlertsAlwaysKeepUp == Spec => []AlertsKeepUp
  BY Invariant, PTL DEF IInv

\* A row that settled keeps what it paid, for any costs: a second settlement, the sweep or
\* a deleted account takes no cent from the day (settle_api_spend, delete_account_data).
THEOREM SpentAlwaysStaysSpent == Spec => SpentStaysSpent
<1>1. IInv /\ IInv' /\ [Next]_vars =>
        [\A d \in 0..MaxDay :
           Total(Paid(ledger'), OfDay(ledger', d)) >= Total(Paid(ledger), OfDay(ledger, d))]_vars
  BY SpentStep DEF IInv, Shape
<1> QED
  BY <1>1, Invariant, PTL DEF Spec, SpentStaysSpent

-----------------------------------------------------------------------------
(* The quota of one user: counting *)

LEMMA QuotaNumbers ==
  /\ IsFiniteSet(Askers) /\ IsFiniteSet(Imports)
  /\ Cardinality(Askers) \in Nat
  /\ YearlyLimit \in Nat \ {0} /\ OpenLimit \in Nat \ {0} /\ ProCents \in Nat /\ RunsAtOnce \in Nat \ {0}
  /\ RunCosts \subseteq Nat /\ MaxMonth \in Nat /\ MonthsPerYear \in Nat \ {0}
  /\ \A S : Quota!Cardinality(S) = Cardinality(S)
<1>1. \A S : Quota!IsFiniteSet(S) = IsFiniteSet(S)
  BY DEF Quota!IsFiniteSet, IsFiniteSet
<1>2. \A S : Quota!Cardinality(S) = Cardinality(S)
  BY DEF Quota!Cardinality, Cardinality
<1>3. Quota!QuotaAssumption
  BY InstancesAssumption
<1>4. IsFiniteSet(Askers) /\ IsFiniteSet(Imports)
  BY <1>1, <1>3 DEF Quota!QuotaAssumption
<1> QED
  BY <1>2, <1>3, <1>4, FS_CardinalityType DEF Quota!QuotaAssumption

\* What is counted of a finite set is no more than what is counted of a larger one.
LEMMA CountGrows ==
  ASSUME NEW S, IsFiniteSet(S), NEW T \in SUBSET S
  PROVE  /\ IsFiniteSet(T) /\ Cardinality(T) \in Nat /\ Cardinality(S) \in Nat
         /\ Cardinality(T) <= Cardinality(S)
  BY FS_Subset, FS_CardinalityType

LEMMA CountAdds ==
  ASSUME NEW S, IsFiniteSet(S), NEW x, NEW T \in SUBSET (S \cup {x})
  PROVE  /\ IsFiniteSet(T) /\ Cardinality(T) \in Nat /\ Cardinality(S) \in Nat
         /\ Cardinality(T) <= Cardinality(S) + 1
<1>1. /\ IsFiniteSet(S \cup {x}) /\ Cardinality(S \cup {x}) <= Cardinality(S) + 1
      /\ Cardinality(S) \in Nat /\ Cardinality(S \cup {x}) \in Nat
  BY FS_AddElement, FS_CardinalityType
<1>2. IsFiniteSet(T) /\ Cardinality(T) \in Nat /\ Cardinality(T) <= Cardinality(S \cup {x})
  BY <1>1, CountGrows
<1> QED
  BY <1>1, <1>2

LEMMA CountDrops ==
  ASSUME NEW S, IsFiniteSet(S), NEW x \in S, NEW T \in SUBSET (S \ {x})
  PROVE  /\ IsFiniteSet(T) /\ Cardinality(T) \in Nat /\ Cardinality(S) \in Nat
         /\ Cardinality(T) + 1 <= Cardinality(S)
<1>1. /\ IsFiniteSet(S \ {x}) /\ Cardinality(S \ {x}) = Cardinality(S) - 1
      /\ Cardinality(S) \in Nat
  BY FS_RemoveElement, FS_CardinalityType
<1>2. IsFiniteSet(T) /\ Cardinality(T) \in Nat /\ Cardinality(T) <= Cardinality(S \ {x})
  BY <1>1, CountGrows
<1> QED
  BY <1>1, <1>2

LEMMA CountUnion ==
  ASSUME NEW S, NEW T, IsFiniteSet(S), IsFiniteSet(T)
  PROVE  /\ IsFiniteSet(S \cup T)
         /\ Cardinality(S) \in Nat /\ Cardinality(T) \in Nat /\ Cardinality(S \cup T) \in Nat
         /\ Cardinality(S \cup T) <= Cardinality(S) + Cardinality(T)
<1>1. /\ IsFiniteSet(S \cup T)
      /\ Cardinality(S \cup T) = Cardinality(S) + Cardinality(T) - Cardinality(S \cap T)
  BY FS_Union
<1>2. Cardinality(S \cap T) \in Nat
  BY FS_Intersection, FS_CardinalityType
<1>3. Cardinality(S) \in Nat /\ Cardinality(T) \in Nat /\ Cardinality(S \cup T) \in Nat
  BY <1>1, FS_CardinalityType
<1> QED
  BY <1>1, <1>2, <1>3

LEMMA Years ==
  ASSUME NEW m \in 0..MaxMonth, NEW n \in 0..MaxMonth, m <= n
  PROVE  /\ Quota!Year(m) \in 0..Quota!Year(MaxMonth) /\ Quota!Year(m) \in Nat
         /\ Quota!Year(m) <= Quota!Year(n)
  BY QuotaNumbers DEF Quota!Year

UsageRows == [month : 0..MaxMonth, cost : RunCosts, job : Imports, plan : {"free", "pro"}]

LEMMA UsageCents ==
  ASSUME NEW events \in SUBSET UsageRows, IsFiniteSet(events)
  PROVE  IsFiniteSet(Quota!Cents(events)) /\ Cardinality(Quota!Cents(events)) \in Nat
<1> DEFINE Of == {{e} \X (1..e.cost) : e \in events}
           f == [e \in events |-> {e} \X (1..e.cost)]
<1>1. f \in Surjection(events, Of)
  BY DEF Surjection
<1>2. IsFiniteSet(Of)
  <2> HIDE DEF Of, f
  <2> QED
    BY <1>1, FS_Surjection
<1>3. ASSUME NEW e \in events
      PROVE  IsFiniteSet({e} \X (1..e.cost))
  <2>1. 1 \in Int /\ e.cost \in Int
    BY QuotaNumbers DEF UsageRows
  <2>2. IsFiniteSet(1..e.cost)
    BY <2>1, FS_Interval
  <2>3. IsFiniteSet({e})
    BY FS_Singleton
  <2> QED
    BY <2>2, <2>3, FS_Product
<1>4. \A T \in Of : IsFiniteSet(T)
  BY <1>3
<1>5. IsFiniteSet(UNION Of)
  <2> HIDE DEF Of
  <2> QED
    BY <1>2, <1>4, FS_UNION
<1> QED
  BY <1>5, FS_CardinalityType DEF Quota!Cents

LEMMA UsageCentsGrow ==
  ASSUME NEW S \in SUBSET UsageRows, IsFiniteSet(S), NEW T \in SUBSET S
  PROVE  Cardinality(Quota!Cents(T)) <= Cardinality(Quota!Cents(S))
<1>1. Quota!Cents(T) \in SUBSET Quota!Cents(S)
  BY DEF Quota!Cents
<1> QED
  BY <1>1, UsageCents, CountGrows

\* One event more costs what it says.
LEMMA UsageCentsAdd ==
  ASSUME NEW S \in SUBSET UsageRows, IsFiniteSet(S), NEW e \in UsageRows, NEW T \in SUBSET (S \cup {e})
  PROVE  Cardinality(Quota!Cents(T)) <= Cardinality(Quota!Cents(S)) + e.cost
<1> DEFINE New == {e} \X (1..e.cost)
<1>0. e.cost \in Nat
  BY QuotaNumbers DEF UsageRows
<1>1. IsFiniteSet(New) /\ Cardinality(New) = e.cost
  <2>1. 1 \in Int /\ e.cost \in Int
    BY <1>0
  <2>2. IsFiniteSet(1..e.cost) /\ Cardinality(1..e.cost) = e.cost
    BY <1>0, <2>1, FS_Interval
  <2>3. IsFiniteSet({e}) /\ Cardinality({e}) = 1
    BY FS_Singleton
  <2>4. IsFiniteSet(New) /\ Cardinality(New) = Cardinality({e}) * Cardinality(1..e.cost)
    BY <2>2, <2>3, FS_Product
  <2> HIDE DEF New
  <2> QED
    BY <1>0, <2>2, <2>3, <2>4
<1>2. IsFiniteSet(Quota!Cents(S)) /\ Cardinality(Quota!Cents(S)) \in Nat
  BY UsageCents
<1>3. Quota!Cents(T) \in SUBSET (Quota!Cents(S) \cup New)
  BY DEF Quota!Cents
<1> HIDE DEF New
<1>4. /\ IsFiniteSet(Quota!Cents(S) \cup New)
      /\ Cardinality(Quota!Cents(S) \cup New) <= Cardinality(Quota!Cents(S)) + Cardinality(New)
      /\ Cardinality(Quota!Cents(S) \cup New) \in Nat
  BY <1>1, <1>2, CountUnion
<1>5. Cardinality(Quota!Cents(T)) <= Cardinality(Quota!Cents(S) \cup New) /\ Cardinality(Quota!Cents(T)) \in Nat
  BY <1>3, <1>4, CountGrows
<1> QED
  BY <1>0, <1>1, <1>2, <1>4, <1>5

-----------------------------------------------------------------------------
(* The quota of one user: the inductive invariant *)

AskingRows == [pc : {"idle", "year", "month", "queue", "create"}, pro : BOOLEAN,
               since : 0..MaxMonth, used : Nat]
ImportRows == [state : {"none", "pending", "running", "orphaned", "recording", "over"},
               plan : {"free", "pro"}]

QuotaTyped ==
  /\ month \in 0..MaxMonth /\ pro \in BOOLEAN
  /\ asking \in [Askers -> AskingRows] /\ import \in [Imports -> ImportRows]
  /\ usage \subseteq UsageRows /\ IsFiniteSet(usage)
  /\ \A e \in usage : import[e.job].state = "over" /\ e.month <= month
  /\ \A r \in Askers : asking[r].since <= month

\* What limits the queue and the runs.
QueueBounded ==
  /\ Cardinality(Quota!Working) <= RunsAtOnce
  /\ Quota!OpenJobsBounded

\* Imports that a plan's limit does not see: admitted and not yet recorded, and the requests
\* that are going to be admitted whatever is recorded meanwhile.
FlightOf(jobs, plan) ==
  {j \in Imports : jobs[j].plan = plan /\ jobs[j].state \in {"pending", "running", "orphaned", "recording"}}
PassingOf(rows, plan) ==
  {r \in Askers : rows[r].pro = (plan = "pro")
     /\ (\/ rows[r].pc \in {"queue", "create"}
         \/ plan = "free" /\ rows[r].pc = "month" /\ rows[r].used < YearlyLimit)}
LoadOf(jobs, rows, plan) == Cardinality(FlightOf(jobs, plan)) + Cardinality(PassingOf(rows, plan))
Load(plan) == LoadOf(import, asking, plan)

\* The events of one plan and of one period.
FreeOf(events, y) == {e \in events : Quota!Year(e.month) = y /\ e.plan = "free"}
ProOf(events, m) == {e \in events : e.month = m /\ e.plan = "pro"}

\* What is used and what is still going to be used of the current year, and of the month.
FreeAhead ==
  Cardinality(FreeOf(usage, Quota!Year(month))) + Load("free") <= YearlyLimit - 1 + Quota!Unseen
ProAhead ==
  \A most \in RunCosts :
    (\A c \in RunCosts : c <= most) /\ ProCents > 0
      => Cardinality(Quota!Cents(ProOf(usage, month))) + most * Load("pro")
           <= ProCents - 1 + most * Quota!Unseen
\* Without a budget no Pro import is admitted.
NothingForPro == ProCents = 0 => Load("pro") = 0 /\ \A e \in usage : e.plan = "free"

QuotaInv ==
  /\ QuotaTyped /\ QueueBounded /\ FreeAhead /\ ProAhead /\ NothingForPro
  /\ Quota!FreeUsesBounded /\ Quota!ProCostBounded

-----------------------------------------------------------------------------
(* The quota of one user: what a step changes *)

LEMMA QuotaIdle ==
  Quota!Idle \in AskingRows /\ Quota!Idle.pc = "idle" /\ Quota!Idle.since = 0
  BY QuotaNumbers DEF Quota!Idle, AskingRows

\* A job moves on and keeps its plan.
LEMMA JobMoves ==
  ASSUME import \in [Imports -> ImportRows], NEW j \in Imports,
         NEW s \in {"none", "pending", "running", "orphaned", "recording", "over"},
         import' = [import EXCEPT ![j].state = s]
  PROVE  /\ import' \in [Imports -> ImportRows]
         /\ import'[j].state = s /\ import'[j].plan = import[j].plan
         /\ \A i \in Imports : i # j => import'[i] = import[i]
<1> DEFINE row == [import[j] EXCEPT !.state = s]
<1>1. row \in ImportRows /\ row.state = s /\ row.plan = import[j].plan
  BY DEF ImportRows
<1>2. import' = [import EXCEPT ![j] = row]
  OBVIOUS
<1> HIDE DEF row
<1> QED
  BY <1>1, <1>2

\* A request goes on, with what it has read.
LEMMA RequestMoves ==
  ASSUME asking \in [Askers -> AskingRows], NEW r \in Askers, NEW row \in AskingRows,
         asking' = [asking EXCEPT ![r] = row]
  PROVE  /\ asking' \in [Askers -> AskingRows] /\ asking'[r] = row
         /\ \A q \in Askers : q # r => asking'[q] = asking[q]
  OBVIOUS

\* The steps of a request: nobody else's row, and what is new in its own.
LEMMA Asked ==
  ASSUME QuotaTyped, NEW r \in Askers
  PROVE  /\ Quota!Authenticate(r) =>
              /\ asking' \in [Askers -> AskingRows] /\ asking'[r].pc = "year" /\ asking'[r].since = month
              /\ \A q \in Askers : q # r => asking'[q] = asking[q]
         /\ Quota!CountYear(r) =>
              /\ asking' \in [Askers -> AskingRows] /\ asking[r].pc = "year" /\ asking'[r].pc = "month"
              /\ asking'[r].since = asking[r].since /\ asking'[r].pro = asking[r].pro
              /\ asking'[r].used = Cardinality(Quota!Uses(usage, Quota!Year(asking[r].since)))
              /\ \A q \in Askers : q # r => asking'[q] = asking[q]
         /\ \A pc \in {"queue", "create"} : Quota!Goto(r, pc) =>
              /\ asking' \in [Askers -> AskingRows] /\ asking'[r].pc = pc
              /\ asking'[r].since = asking[r].since /\ asking'[r].pro = asking[r].pro
              /\ \A q \in Askers : q # r => asking'[q] = asking[q]
         /\ Quota!Leave(r) =>
              /\ asking' \in [Askers -> AskingRows] /\ asking'[r].pc = "idle" /\ asking'[r].since = 0
              /\ \A q \in Askers : q # r => asking'[q] = asking[q]
<1>0. /\ asking \in [Askers -> AskingRows] /\ asking[r] \in AskingRows /\ month \in 0..MaxMonth
      /\ pro \in BOOLEAN /\ IsFiniteSet(usage)
  BY DEF QuotaTyped
<1>1. ASSUME Quota!Authenticate(r)
      PROVE  /\ asking' \in [Askers -> AskingRows] /\ asking'[r].pc = "year" /\ asking'[r].since = month
             /\ \A q \in Askers : q # r => asking'[q] = asking[q]
  <2> DEFINE row == [pc |-> "year", pro |-> pro, since |-> month, used |-> 0]
  <2>1. row \in AskingRows /\ row.pc = "year" /\ row.since = month
    BY <1>0 DEF AskingRows
  <2>2. asking' = [asking EXCEPT ![r] = row]
    BY <1>1 DEF Quota!Authenticate
  <2> HIDE DEF row
  <2> QED
    BY <1>0, <2>1, <2>2, RequestMoves
<1>2. ASSUME Quota!CountYear(r)
      PROVE  /\ asking' \in [Askers -> AskingRows] /\ asking[r].pc = "year" /\ asking'[r].pc = "month"
             /\ asking'[r].since = asking[r].since /\ asking'[r].pro = asking[r].pro
             /\ asking'[r].used = Cardinality(Quota!Uses(usage, Quota!Year(asking[r].since)))
             /\ \A q \in Askers : q # r => asking'[q] = asking[q]
  <2> DEFINE n == Cardinality(Quota!Uses(usage, Quota!Year(asking[r].since)))
             row == [[asking[r] EXCEPT !.pc = "month"] EXCEPT !.used = n]
  <2>0. n \in Nat
    BY <1>0, CountGrows DEF Quota!Uses
  <2>1. /\ row \in AskingRows /\ row.pc = "month" /\ row.used = n /\ row.since = asking[r].since
        /\ row.pro = asking[r].pro
    <3> HIDE DEF n
    <3> QED
      BY <1>0, <2>0 DEF AskingRows
  <2>2. asking' = [asking EXCEPT ![r] = row] /\ asking[r].pc = "year"
    <3>1. asking' = [asking EXCEPT ![r].pc = "month",
                                   ![r].used = Quota!Cardinality(Quota!Uses(usage, Quota!Year(asking[r].since)))]
      BY <1>2 DEF Quota!CountYear
    <3>2. Quota!Cardinality(Quota!Uses(usage, Quota!Year(asking[r].since))) = n
      BY QuotaNumbers
    <3>3. asking' = [asking EXCEPT ![r].pc = "month", ![r].used = n]
      BY <3>1, <3>2
    <3> HIDE DEF n
    <3>4. asking' = [asking EXCEPT ![r] = row]
      BY <1>0, <3>3 DEF AskingRows
    <3> QED
      BY <1>2, <3>4 DEF Quota!CountYear
  <2> HIDE DEF row
  <2> QED
    BY <1>0, <2>1, <2>2, RequestMoves
<1>3. ASSUME NEW pc \in {"queue", "create"}, Quota!Goto(r, pc)
      PROVE  /\ asking' \in [Askers -> AskingRows] /\ asking'[r].pc = pc
             /\ asking'[r].since = asking[r].since /\ asking'[r].pro = asking[r].pro
             /\ \A q \in Askers : q # r => asking'[q] = asking[q]
  <2> DEFINE row == [asking[r] EXCEPT !.pc = pc]
  <2>1. row \in AskingRows /\ row.pc = pc /\ row.since = asking[r].since /\ row.pro = asking[r].pro
    BY <1>0 DEF AskingRows
  <2>2. asking' = [asking EXCEPT ![r] = row]
    BY <1>3 DEF Quota!Goto
  <2> HIDE DEF row
  <2> QED
    BY <1>0, <2>1, <2>2, RequestMoves
<1>4. ASSUME Quota!Leave(r)
      PROVE  /\ asking' \in [Askers -> AskingRows] /\ asking'[r].pc = "idle" /\ asking'[r].since = 0
             /\ \A q \in Askers : q # r => asking'[q] = asking[q]
  BY <1>0, <1>4, QuotaIdle, RequestMoves DEF Quota!Leave
<1> QED
  BY <1>1, <1>2, <1>3, <1>4

LEMMA PlanTyped ==
  ASSUME QuotaTyped, NEW r \in Askers
  PROVE  Quota!Plan(r) = IF asking[r].pro THEN "pro" ELSE "free"
  BY DEF Quota!Plan

\* The job of a request that creates it.
LEMMA Created ==
  ASSUME QuotaTyped, NEW r \in Askers, Quota!Create(r)
  PROVE  \E j \in Imports :
           /\ import[j].state = "none" /\ import' \in [Imports -> ImportRows]
           /\ import'[j].state \in {"pending", "over"}
           /\ import'[j].plan = IF asking[r].pro THEN "pro" ELSE "free"
           /\ \A i \in Imports : i # j => import'[i] = import[i]
<1>1. PICK j \in Quota!In("none"), reserved \in BOOLEAN :
        import' = [import EXCEPT ![j] = [state |-> IF reserved THEN "pending" ELSE "over",
                                         plan |-> Quota!Plan(r)]]
  BY DEF Quota!Create
<1>2. j \in Imports /\ import[j].state = "none"
  BY <1>1 DEF Quota!In
<1> DEFINE row == [state |-> IF reserved THEN "pending" ELSE "over", plan |-> Quota!Plan(r)]
<1>3. /\ row \in ImportRows /\ row.state \in {"pending", "over"}
      /\ row.plan = IF asking[r].pro THEN "pro" ELSE "free"
  BY PlanTyped DEF ImportRows
<1>4. import' = [import EXCEPT ![j] = row]
  BY <1>1
<1> HIDE DEF row
<1>5. /\ import' \in [Imports -> ImportRows] /\ import'[j] = row
      /\ \A i \in Imports : i # j => import'[i] = import[i]
  BY <1>2, <1>3, <1>4 DEF QuotaTyped
<1> QED
  BY <1>2, <1>3, <1>5

\* The job of a run, before and after its step.
LEMMA Ran ==
  ASSUME QuotaTyped, NEW j \in Imports
  PROVE  /\ Quota!Start(j) =>
              /\ import' \in [Imports -> ImportRows] /\ import'[j].plan = import[j].plan
              /\ import[j].state = "pending" /\ import'[j].state = "running"
              /\ \A i \in Imports : i # j => import'[i] = import[i]
         /\ Quota!Finish(j) =>
              /\ import' \in [Imports -> ImportRows] /\ import'[j].plan = import[j].plan
              /\ import[j].state \in {"running", "orphaned"} /\ import'[j].state = "recording"
              /\ \A i \in Imports : i # j => import'[i] = import[i]
         /\ Quota!RecordNothing(j) =>
              /\ import' \in [Imports -> ImportRows] /\ import'[j].plan = import[j].plan
              /\ import[j].state \in {"running", "orphaned", "recording"} /\ import'[j].state = "over"
              /\ \A i \in Imports : i # j => import'[i] = import[i]
         /\ \A c \in RunCosts : Quota!Record(j, c) =>
              /\ import' \in [Imports -> ImportRows] /\ import'[j].plan = import[j].plan
              /\ import[j].state = "recording" /\ import'[j].state = "over"
              /\ \A i \in Imports : i # j => import'[i] = import[i]
<1>0. import \in [Imports -> ImportRows]
  BY DEF QuotaTyped
<1>1. ASSUME Quota!Start(j)
      PROVE  import' = [import EXCEPT ![j].state = "running"] /\ import[j].state = "pending"
  BY <1>1 DEF Quota!Start
<1>2. ASSUME Quota!Finish(j)
      PROVE  import' = [import EXCEPT ![j].state = "recording"] /\ import[j].state \in {"running", "orphaned"}
  BY <1>2 DEF Quota!Finish
<1>3. ASSUME Quota!RecordNothing(j)
      PROVE  /\ import' = [import EXCEPT ![j].state = "over"]
             /\ import[j].state \in {"running", "orphaned", "recording"}
  BY <1>3 DEF Quota!RecordNothing, Quota!Working, Quota!In
<1>4. ASSUME NEW c \in RunCosts, Quota!Record(j, c)
      PROVE  import' = [import EXCEPT ![j].state = "over"] /\ import[j].state = "recording"
  BY <1>4 DEF Quota!Record
<1> QED
  BY <1>0, <1>1, <1>2, <1>3, <1>4, JobMoves

\* The jobs of an account that is closed: pending ones fail, running ones go on alone.
LEMMA Orphaned ==
  ASSUME QuotaTyped, Quota!CloseAccount
  PROVE  /\ import' \in [Imports -> ImportRows]
         /\ \A j \in Imports :
              /\ import'[j].plan = import[j].plan
              /\ import'[j].state = IF import[j].state = "pending" THEN "over"
                                    ELSE IF import[j].state = "running" THEN "orphaned" ELSE import[j].state
<1>0. import \in [Imports -> ImportRows]
  BY DEF QuotaTyped
<1> DEFINE row(j) == CASE import[j].state = "pending" -> [import[j] EXCEPT !.state = "over"]
                       [] import[j].state = "running" -> [import[j] EXCEPT !.state = "orphaned"]
                       [] OTHER -> import[j]
<1>1. import' = [j \in Imports |-> row(j)]
  BY DEF Quota!CloseAccount
<1>2. ASSUME NEW j \in Imports
      PROVE  /\ row(j) \in ImportRows /\ row(j).plan = import[j].plan
             /\ row(j).state = IF import[j].state = "pending" THEN "over"
                               ELSE IF import[j].state = "running" THEN "orphaned" ELSE import[j].state
  <2>1. import[j] \in ImportRows
    BY <1>0
  <2>2. CASE import[j].state = "pending"
    BY <2>1, <2>2 DEF ImportRows
  <2>3. CASE import[j].state = "running"
    BY <2>1, <2>3 DEF ImportRows
  <2>4. CASE import[j].state \notin {"pending", "running"}
    BY <2>1, <2>4
  <2> QED
    BY <2>2, <2>3, <2>4
<1> HIDE DEF row
<1> QED
  BY <1>1, <1>2

-----------------------------------------------------------------------------
(* The quota of one user: types *)

LEMMA QuotaTypedInit == Quota!Init => QuotaTyped
<1> SUFFICES ASSUME Quota!Init PROVE QuotaTyped
  OBVIOUS
<1>1. Quota!NoJob \in ImportRows
  BY DEF Quota!NoJob, ImportRows
<1>2. /\ month = 0 /\ pro \in BOOLEAN /\ usage = {}
      /\ asking = [r \in Askers |-> Quota!Idle] /\ import = [j \in Imports |-> Quota!NoJob]
  BY DEF Quota!Init
<1>3. IsFiniteSet(usage)
  BY <1>2, FS_EmptySet
<1>4. /\ asking \in [Askers -> AskingRows] /\ import \in [Imports -> ImportRows]
      /\ \A r \in Askers : asking[r].since = 0
  BY <1>1, <1>2, QuotaIdle
<1> QED
  BY <1>2, <1>3, <1>4, QuotaNumbers DEF QuotaTyped

LEMMA QuotaTypedStep ==
  ASSUME QuotaTyped, [Quota!Next]_quotaVars
  PROVE  QuotaTyped'
<1>0. /\ month \in 0..MaxMonth /\ pro \in BOOLEAN
      /\ asking \in [Askers -> AskingRows] /\ import \in [Imports -> ImportRows]
      /\ usage \subseteq UsageRows /\ IsFiniteSet(usage)
      /\ \A e \in usage : import[e.job].state = "over" /\ e.month <= month /\ e.job \in Imports
      /\ \A r \in Askers : asking[r].since <= month
  BY DEF QuotaTyped, UsageRows
<1>1. ASSUME NEW r \in Askers, UNCHANGED <<month, pro, import, usage>>,
             Quota!Authenticate(r) \/ Quota!CountYear(r) \/ Quota!Goto(r, "queue") \/ Quota!Goto(r, "create")
               \/ Quota!Leave(r)
      PROVE  QuotaTyped'
  <2>1. /\ asking' \in [Askers -> AskingRows] /\ asking'[r].since \in {month, asking[r].since, 0}
        /\ \A q \in Askers : q # r => asking'[q] = asking[q]
    BY <1>1, Asked
  <2>2. \A q \in Askers : asking'[q].since <= month
    BY <1>0, <2>1, QuotaNumbers
  <2> QED
    BY <1>0, <1>1, <2>1, <2>2 DEF QuotaTyped
<1>2. ASSUME NEW r \in Askers, Quota!Create(r)
      PROVE  QuotaTyped'
  <2>1. Quota!Leave(r) /\ UNCHANGED <<month, pro, usage>>
    BY <1>2 DEF Quota!Create
  <2>2. PICK j \in Imports :
          /\ import[j].state = "none" /\ import' \in [Imports -> ImportRows]
          /\ \A i \in Imports : i # j => import'[i] = import[i]
    BY <1>2, Created
  <2>3. /\ asking' \in [Askers -> AskingRows] /\ asking'[r].since = 0
        /\ \A q \in Askers : q # r => asking'[q] = asking[q]
    BY <2>1, Asked
  <2>4. \A q \in Askers : asking'[q].since <= month
    BY <1>0, <2>3, QuotaNumbers
  <2>5. \A e \in usage : import'[e.job].state = "over"
    BY <1>0, <2>2
  <2> QED
    BY <1>0, <2>1, <2>2, <2>3, <2>4, <2>5 DEF QuotaTyped
<1>3. ASSUME NEW j \in Imports, Quota!Start(j) \/ Quota!Finish(j) \/ Quota!RecordNothing(j)
      PROVE  QuotaTyped'
  <2>1. UNCHANGED <<month, pro, asking, usage>>
    BY <1>3 DEF Quota!Start, Quota!Finish, Quota!RecordNothing
  <2>2. /\ import' \in [Imports -> ImportRows] /\ import[j].state # "over"
        /\ \A i \in Imports : i # j => import'[i] = import[i]
    BY <1>3, Ran
  <2>3. \A e \in usage : import'[e.job].state = "over"
    BY <1>0, <2>2
  <2> QED
    BY <1>0, <2>1, <2>2, <2>3 DEF QuotaTyped
<1>4. ASSUME NEW j \in Imports, NEW c \in RunCosts, Quota!Record(j, c)
      PROVE  QuotaTyped'
  <2> DEFINE e == [month |-> month, cost |-> c, job |-> j, plan |-> import[j].plan]
  <2>1. UNCHANGED <<month, pro, asking>> /\ usage' = usage \cup {e}
    BY <1>4 DEF Quota!Record
  <2>2. /\ import' \in [Imports -> ImportRows] /\ import'[j].state = "over"
        /\ \A i \in Imports : i # j => import'[i] = import[i]
    BY <1>4, Ran
  <2>3. e \in UsageRows /\ e.job = j /\ e.month = month
    BY <1>0 DEF UsageRows, ImportRows
  <2> HIDE DEF e
  <2>4. \A d \in usage' : import'[d.job].state = "over" /\ d.month <= month
    BY <1>0, <2>1, <2>2, <2>3
  <2>5. IsFiniteSet(usage') /\ usage' \subseteq UsageRows
    BY <1>0, <2>1, <2>3, FS_AddElement
  <2> QED
    BY <1>0, <2>1, <2>2, <2>4, <2>5 DEF QuotaTyped
<1>5. ASSUME Quota!CloseAccount
      PROVE  QuotaTyped'
  <2>1. UNCHANGED <<month, asking, usage>> /\ pro' = FALSE
    BY <1>5 DEF Quota!CloseAccount
  <2>2. import' \in [Imports -> ImportRows] /\ \A e \in usage : import'[e.job].state = "over"
    BY <1>0, <1>5, Orphaned
  <2> QED
    BY <1>0, <2>1, <2>2 DEF QuotaTyped
<1>6. ASSUME Quota!NextMonth
      PROVE  QuotaTyped'
  <2>1. /\ UNCHANGED <<pro, asking, import, usage>> /\ month < MaxMonth /\ month' = month + 1
        /\ month' \in 0..MaxMonth
    BY <1>0, <1>6, QuotaNumbers DEF Quota!NextMonth
  <2>2. \A e \in usage : e.month <= month'
    BY <1>0, <2>1, QuotaNumbers DEF UsageRows
  <2>3. \A r \in Askers : asking[r].since <= month'
    BY <1>0, <2>1, QuotaNumbers DEF AskingRows
  <2> QED
    BY <1>0, <2>1, <2>2, <2>3 DEF QuotaTyped
<1>7. CASE Quota!SubscriptionChanges
  BY <1>0, <1>7 DEF Quota!SubscriptionChanges, QuotaTyped
<1>8. CASE UNCHANGED quotaVars
  BY <1>0, <1>8 DEF quotaVars, QuotaTyped
<1>9. ASSUME NEW r \in Askers, Quota!SumMonth(r) \/ Quota!CountOpen(r) \/ Quota!Authenticate(r) \/ Quota!CountYear(r)
      PROVE  QuotaTyped'
  <2>1. /\ UNCHANGED <<month, pro, import, usage>>
        /\ Quota!Authenticate(r) \/ Quota!CountYear(r) \/ Quota!Goto(r, "queue") \/ Quota!Goto(r, "create")
             \/ Quota!Leave(r)
    BY <1>9 DEF Quota!SumMonth, Quota!CountOpen, Quota!Authenticate, Quota!CountYear
  <2> QED
    BY <1>1, <2>1
<1> QED
  BY <1>2, <1>3, <1>4, <1>5, <1>6, <1>7, <1>8, <1>9 DEF Quota!Next

-----------------------------------------------------------------------------
(* The quota of one user: the queue and the runs *)

LEMMA QueueSets ==
  /\ Quota!Working = {j \in Imports : import[j].state \in {"running", "orphaned", "recording"}}
  /\ Quota!Open = {j \in Imports : import[j].state \in {"pending", "running"}}
  /\ Quota!Creating = {r \in Askers : asking[r].pc = "create"}
  BY DEF Quota!Working, Quota!Open, Quota!In, Quota!Creating

LEMMA QueueCounted ==
  /\ IsFiniteSet(Quota!Working) /\ IsFiniteSet(Quota!Open) /\ IsFiniteSet(Quota!Creating)
  /\ Cardinality(Quota!Working) \in Nat /\ Cardinality(Quota!Open) \in Nat
  /\ Cardinality(Quota!Creating) \in Nat /\ Cardinality(Quota!Creating) <= Cardinality(Askers)
  /\ Quota!OpenJobsBounded <=>
       Cardinality(Quota!Open) + Cardinality(Quota!Creating) <= OpenLimit - 1 + Cardinality(Askers)
<1>1. /\ Quota!Working \in SUBSET Imports /\ Quota!Open \in SUBSET Imports
      /\ Quota!Creating \in SUBSET Askers
  BY QueueSets
<1>2. /\ Quota!OpenJobsBounded <=>
           Cardinality(Quota!Open) + Cardinality(Quota!Creating) <= OpenLimit - 1 + Cardinality(Askers)
  BY QuotaNumbers DEF Quota!OpenJobsBounded
<1> QED
  BY <1>1, <1>2, QuotaNumbers, CountGrows

LEMMA QueueStep ==
  ASSUME QuotaTyped, QuotaTyped', QueueBounded, [Quota!Next]_quotaVars
  PROVE  QueueBounded'
<1> DEFINE n == Cardinality(Askers)
<1>0. /\ Cardinality(Quota!Working) <= RunsAtOnce
      /\ Cardinality(Quota!Open) + Cardinality(Quota!Creating) <= OpenLimit - 1 + n
      /\ n \in Nat /\ OpenLimit \in Nat \ {0} /\ RunsAtOnce \in Nat \ {0}
      /\ asking \in [Askers -> AskingRows] /\ import \in [Imports -> ImportRows]
      /\ asking' \in [Askers -> AskingRows] /\ import' \in [Imports -> ImportRows]
  BY QueueCounted, QuotaNumbers DEF QueueBounded, QuotaTyped
<1>a. /\ Quota!Working' = {j \in Imports : import'[j].state \in {"running", "orphaned", "recording"}}
      /\ Quota!Open' = {j \in Imports : import'[j].state \in {"pending", "running"}}
      /\ Quota!Creating' = {r \in Askers : asking'[r].pc = "create"}
  BY DEF Quota!Working, Quota!Open, Quota!In, Quota!Creating
<1>b. /\ Cardinality(Quota!Working') \in Nat /\ Cardinality(Quota!Open') \in Nat
      /\ Cardinality(Quota!Creating') \in Nat /\ Cardinality(Quota!Creating') <= n
  <2>1. /\ Quota!Working' \in SUBSET Imports /\ Quota!Open' \in SUBSET Imports
        /\ Quota!Creating' \in SUBSET Askers
    BY <1>a
  <2> QED
    BY <2>1, QuotaNumbers, CountGrows
<1>c. ASSUME Cardinality(Quota!Working') <= RunsAtOnce,
             Cardinality(Quota!Open') + Cardinality(Quota!Creating') <= OpenLimit - 1 + n
      PROVE  QueueBounded'
  <2>1. Quota!OpenJobsBounded'
    BY <1>c, QuotaNumbers DEF Quota!OpenJobsBounded
  <2> QED
    BY <1>c, <2>1 DEF QueueBounded
<1>d. ASSUME Quota!Working' \subseteq Quota!Working, Quota!Open' \subseteq Quota!Open,
             Quota!Creating' \subseteq Quota!Creating
      PROVE  QueueBounded'
  <2>1. /\ Cardinality(Quota!Working') <= Cardinality(Quota!Working)
        /\ Cardinality(Quota!Open') <= Cardinality(Quota!Open)
        /\ Cardinality(Quota!Creating') <= Cardinality(Quota!Creating)
    BY <1>d, QueueCounted, CountGrows
  <2> QED
    BY <1>0, <1>b, <1>c, <2>1, QueueCounted
<1>1. ASSUME NEW r \in Askers, UNCHANGED import,
             Quota!Authenticate(r) \/ Quota!CountYear(r) \/ Quota!Goto(r, "queue") \/ Quota!Leave(r)
      PROVE  QueueBounded'
  <2>1. asking'[r].pc # "create" /\ \A q \in Askers : q # r => asking'[q] = asking[q]
    BY <1>1, Asked
  <2>2. Quota!Creating' \subseteq Quota!Creating
    BY <1>a, <2>1, QueueSets
  <2>3. Quota!Working' \subseteq Quota!Working /\ Quota!Open' \subseteq Quota!Open
    BY <1>a, <1>1, QueueSets
  <2> QED
    BY <1>d, <2>2, <2>3
<1>2. ASSUME NEW r \in Askers, Quota!CountOpen(r), Quota!HasRoom
      PROVE  QueueBounded'
  <2>1. Quota!Working' = Quota!Working /\ Quota!Open' = Quota!Open
    BY <1>a, <1>2, QueueSets DEF Quota!CountOpen
  <2>2. Cardinality(Quota!Open) < OpenLimit
    BY <1>2, QuotaNumbers DEF Quota!HasRoom
  <2> QED
    BY <1>0, <1>b, <1>c, <2>1, <2>2, QueueCounted
<1>3. ASSUME NEW r \in Askers, Quota!Create(r)
      PROVE  QueueBounded'
  <2>1. PICK j \in Imports :
          /\ import[j].state = "none" /\ import'[j].state \in {"pending", "over"}
          /\ \A i \in Imports : i # j => import'[i] = import[i]
    BY <1>3, Created
  <2>2. /\ asking'[r].pc = "idle" /\ asking[r].pc = "create"
        /\ \A q \in Askers : q # r => asking'[q] = asking[q]
    BY <1>3, Asked DEF Quota!Create
  <2>3. Quota!Working' \subseteq Quota!Working /\ Quota!Open' \subseteq Quota!Open \cup {j}
    BY <1>a, <2>1, QueueSets
  <2>4. Quota!Creating' \subseteq Quota!Creating \ {r} /\ r \in Quota!Creating
    BY <1>a, <2>2, QueueSets
  <2>5. /\ Cardinality(Quota!Working') <= Cardinality(Quota!Working)
        /\ Cardinality(Quota!Open') <= Cardinality(Quota!Open) + 1
        /\ Cardinality(Quota!Creating') + 1 <= Cardinality(Quota!Creating)
    BY <2>3, <2>4, QueueCounted, CountGrows, CountAdds, CountDrops
  <2> QED
    BY <1>0, <1>b, <1>c, <2>5, QueueCounted
<1>4. ASSUME NEW j \in Imports, Quota!Start(j)
      PROVE  QueueBounded'
  <2>1. /\ import[j].state = "pending" /\ import'[j].state = "running"
        /\ \A i \in Imports : i # j => import'[i] = import[i]
    BY <1>4, Ran
  <2>2. UNCHANGED asking /\ Cardinality(Quota!Working) < RunsAtOnce
    BY <1>4, QuotaNumbers DEF Quota!Start
  <2>3. Quota!Working' \subseteq Quota!Working \cup {j} /\ Quota!Open' \subseteq Quota!Open
    BY <1>a, <2>1, QueueSets
  <2>4. Quota!Creating' = Quota!Creating
    BY <1>a, <2>2, QueueSets
  <2>5. /\ Cardinality(Quota!Working') <= Cardinality(Quota!Working) + 1
        /\ Cardinality(Quota!Open') <= Cardinality(Quota!Open)
    BY <2>3, QueueCounted, CountGrows, CountAdds
  <2> QED
    BY <1>0, <1>b, <1>c, <2>2, <2>4, <2>5, QueueCounted
<1>5. ASSUME NEW j \in Imports,
             Quota!Finish(j) \/ Quota!RecordNothing(j) \/ \E c \in RunCosts : Quota!Record(j, c)
      PROVE  QueueBounded'
  <2>1. /\ import[j].state \in {"running", "orphaned", "recording"} /\ import'[j].state \in {"recording", "over"}
        /\ \A i \in Imports : i # j => import'[i] = import[i]
    BY <1>5, Ran
  <2>2. UNCHANGED asking
    BY <1>5 DEF Quota!Finish, Quota!RecordNothing, Quota!Record
  <2>3. Quota!Working' \subseteq Quota!Working /\ Quota!Open' \subseteq Quota!Open
    BY <1>a, <2>1, QueueSets
  <2>4. Quota!Creating' = Quota!Creating
    BY <1>a, <2>2, QueueSets
  <2> QED
    BY <1>d, <2>3, <2>4
<1>6. ASSUME Quota!CloseAccount
      PROVE  QueueBounded'
  <2>1. UNCHANGED asking
    BY <1>6 DEF Quota!CloseAccount
  <2>2. Quota!Working' \subseteq Quota!Working /\ Quota!Open' \subseteq Quota!Open
    BY <1>6, <1>a, Orphaned, QueueSets
  <2>3. Quota!Creating' = Quota!Creating
    BY <1>a, <2>1, QueueSets
  <2> QED
    BY <1>d, <2>2, <2>3
<1>7. CASE UNCHANGED <<asking, import>>
  <2>1. Quota!Working' = Quota!Working /\ Quota!Open' = Quota!Open /\ Quota!Creating' = Quota!Creating
    BY <1>7, <1>a, QueueSets
  <2> QED
    BY <1>d, <2>1
<1>8. ASSUME NEW r \in Askers, Quota!SumMonth(r) \/ Quota!CountOpen(r) \/ Quota!Authenticate(r) \/ Quota!CountYear(r)
      PROVE  QueueBounded'
  <2>1. CASE Quota!CountOpen(r) /\ Quota!HasRoom
    BY <1>2, <2>1
  <2>2. CASE ~(Quota!CountOpen(r) /\ Quota!HasRoom)
    <3>1. /\ UNCHANGED import
          /\ Quota!Authenticate(r) \/ Quota!CountYear(r) \/ Quota!Goto(r, "queue") \/ Quota!Leave(r)
      BY <1>8, <2>2 DEF Quota!SumMonth, Quota!CountOpen, Quota!Authenticate, Quota!CountYear
    <3> QED
      BY <1>1, <3>1
  <2> QED
    BY <2>1, <2>2
<1>9. CASE Quota!NextMonth \/ Quota!SubscriptionChanges \/ UNCHANGED quotaVars
  BY <1>7, <1>9 DEF Quota!NextMonth, Quota!SubscriptionChanges, quotaVars
<1> QED
  BY <1>3, <1>4, <1>5, <1>6, <1>8, <1>9 DEF Quota!Next

-----------------------------------------------------------------------------
(* The quota of one user: what the tests of a plan do not see *)

LEMMA LoadCounted ==
  ASSUME NEW jobs \in [Imports -> ImportRows], NEW rows \in [Askers -> AskingRows], NEW plan
  PROVE  /\ IsFiniteSet(FlightOf(jobs, plan)) /\ IsFiniteSet(PassingOf(rows, plan))
         /\ Cardinality(FlightOf(jobs, plan)) \in Nat /\ Cardinality(PassingOf(rows, plan)) \in Nat
         /\ Cardinality(PassingOf(rows, plan)) <= Cardinality(Askers)
         /\ LoadOf(jobs, rows, plan) \in Nat
<1>1. FlightOf(jobs, plan) \in SUBSET Imports /\ PassingOf(rows, plan) \in SUBSET Askers
  BY DEF FlightOf, PassingOf
<1>2. /\ IsFiniteSet(FlightOf(jobs, plan)) /\ IsFiniteSet(PassingOf(rows, plan))
      /\ Cardinality(FlightOf(jobs, plan)) \in Nat /\ Cardinality(PassingOf(rows, plan)) \in Nat
      /\ Cardinality(PassingOf(rows, plan)) <= Cardinality(Askers)
  BY <1>1, QuotaNumbers, CountGrows
<1> QED
  BY <1>2 DEF LoadOf

LEMMA UnseenTyped ==
  Quota!Unseen = OpenLimit - 1 + 2 * Cardinality(Askers) + RunsAtOnce /\ Quota!Unseen \in Nat
  BY QuotaNumbers DEF Quota!Unseen

LEMMA LoadBounded ==
  ASSUME NEW jobs \in [Imports -> ImportRows], NEW rows \in [Askers -> AskingRows], NEW plan,
         Cardinality({j \in Imports : jobs[j].state \in {"running", "orphaned", "recording"}}) <= RunsAtOnce,
         Cardinality({j \in Imports : jobs[j].state \in {"pending", "running"}})
           <= OpenLimit - 1 + Cardinality(Askers)
  PROVE  LoadOf(jobs, rows, plan) <= Quota!Unseen
<1> DEFINE W == {j \in Imports : jobs[j].state \in {"running", "orphaned", "recording"}}
           O == {j \in Imports : jobs[j].state \in {"pending", "running"}}
<1>1. W \in SUBSET Imports /\ O \in SUBSET Imports /\ FlightOf(jobs, plan) \in SUBSET (W \cup O)
  BY DEF FlightOf
<1>2. Cardinality(W) <= RunsAtOnce /\ Cardinality(O) <= OpenLimit - 1 + Cardinality(Askers)
  OBVIOUS
<1> HIDE DEF W, O
<1>3. IsFiniteSet(W) /\ IsFiniteSet(O)
  BY <1>1, QuotaNumbers, CountGrows
<1>4. /\ IsFiniteSet(W \cup O) /\ Cardinality(W \cup O) <= Cardinality(W) + Cardinality(O)
      /\ Cardinality(W \cup O) \in Nat /\ Cardinality(W) \in Nat /\ Cardinality(O) \in Nat
  BY <1>3, CountUnion
<1>5. Cardinality(FlightOf(jobs, plan)) <= Cardinality(W \cup O)
  BY <1>1, <1>4, CountGrows
<1> QED
  BY <1>2, <1>4, <1>5, LoadCounted, UnseenTyped, QuotaNumbers DEF LoadOf

LEMMA LoadSame ==
  ASSUME NEW jobs \in [Imports -> ImportRows], NEW rows \in [Askers -> AskingRows],
         NEW later \in [Imports -> ImportRows], NEW asked \in [Askers -> AskingRows], NEW plan,
         FlightOf(later, plan) \subseteq FlightOf(jobs, plan),
         PassingOf(asked, plan) \subseteq PassingOf(rows, plan)
  PROVE  LoadOf(later, asked, plan) <= LoadOf(jobs, rows, plan)
<1>1. /\ Cardinality(FlightOf(later, plan)) <= Cardinality(FlightOf(jobs, plan))
      /\ Cardinality(PassingOf(asked, plan)) <= Cardinality(PassingOf(rows, plan))
  BY LoadCounted, CountGrows
<1> QED
  BY <1>1, LoadCounted DEF LoadOf

\* The kinds of steps, as the limit of a plan sees them: nothing new; a request that counted
\* fewer free recipes, or fewer cents, than the limit; an import that is recorded; a new month.
Calm(plan) == UNCHANGED <<month, usage>> /\ Load(plan)' <= Load(plan)
CountedFew ==
  UNCHANGED <<month, usage>> /\ \E m \in 0..month : Cardinality(Quota!Uses(usage, Quota!Year(m))) < YearlyLimit
SummedFew ==
  /\ UNCHANGED <<month, usage>>
  /\ \E m \in 0..month : Cardinality(Quota!Cents({e \in usage : e.month >= m})) < ProCents
Recorded(plan) ==
  \E e \in UsageRows :
    /\ UNCHANGED month /\ e.month = month /\ usage' = usage \cup {e}
    /\ Load(plan)' + (IF e.plan = plan THEN 1 ELSE 0) <= Load(plan)
Turned(plan) ==
  UNCHANGED usage /\ month < MaxMonth /\ month' = month + 1 /\ Load(plan)' <= Load(plan)

LEMMA LoadStep ==
  ASSUME QuotaTyped, QuotaTyped', [Quota!Next]_quotaVars, NEW plan \in {"free", "pro"}
  PROVE  \/ Calm(plan) \/ (plan = "free" /\ CountedFew) \/ (plan = "pro" /\ SummedFew)
         \/ Recorded(plan) \/ Turned(plan)
<1>0. /\ asking \in [Askers -> AskingRows] /\ import \in [Imports -> ImportRows]
      /\ asking' \in [Askers -> AskingRows] /\ import' \in [Imports -> ImportRows]
      /\ month \in 0..MaxMonth /\ usage \subseteq UsageRows /\ IsFiniteSet(usage)
      /\ \A r \in Askers : asking[r].since \in 0..month
  BY DEF QuotaTyped, AskingRows
<1>a. ASSUME FlightOf(import', plan) \subseteq FlightOf(import, plan),
             PassingOf(asking', plan) \subseteq PassingOf(asking, plan)
      PROVE  Load(plan)' <= Load(plan)
  BY <1>0, <1>a, LoadSame DEF Load
<1>b. ASSUME UNCHANGED import
      PROVE  FlightOf(import', plan) \subseteq FlightOf(import, plan)
  BY <1>b DEF FlightOf
<1>c. ASSUME UNCHANGED asking
      PROVE  PassingOf(asking', plan) \subseteq PassingOf(asking, plan)
  BY <1>c DEF PassingOf
\* A request that moves is not passing unless it was.
<1>d. ASSUME UNCHANGED <<month, import, usage>>, NEW r \in Askers,
             \A q \in Askers : q # r => asking'[q] = asking[q],
             r \in PassingOf(asking', plan) => r \in PassingOf(asking, plan)
      PROVE  Calm(plan)
  <2>1. PassingOf(asking', plan) \subseteq PassingOf(asking, plan)
    BY <1>d DEF PassingOf
  <2> QED
    BY <1>a, <1>b, <1>d, <2>1 DEF Calm
<1>1. ASSUME NEW r \in Askers, Quota!Authenticate(r)
      PROVE  Calm(plan)
  <2>1. asking'[r].pc = "year" /\ \A q \in Askers : q # r => asking'[q] = asking[q]
    BY <1>1, Asked
  <2>2. UNCHANGED <<month, import, usage>>
    BY <1>1 DEF Quota!Authenticate
  <2> QED
    BY <1>d, <2>1, <2>2 DEF PassingOf
<1>2. ASSUME NEW r \in Askers, Quota!CountYear(r)
      PROVE  Calm(plan) \/ (plan = "free" /\ CountedFew)
  <2>1. /\ asking'[r].pc = "month" /\ asking'[r].used = Cardinality(Quota!Uses(usage, Quota!Year(asking[r].since)))
        /\ \A q \in Askers : q # r => asking'[q] = asking[q]
    BY <1>2, Asked
  <2>2. UNCHANGED <<month, import, usage>>
    BY <1>2 DEF Quota!CountYear
  <2>3. CASE r \in PassingOf(asking', plan)
    <3>1. plan = "free" /\ asking'[r].used < YearlyLimit
      BY <2>1, <2>3 DEF PassingOf
    <3> QED
      BY <1>0, <2>1, <2>2, <3>1 DEF CountedFew
  <2>4. CASE r \notin PassingOf(asking', plan)
    BY <1>d, <2>1, <2>2, <2>4
  <2> QED
    BY <2>3, <2>4
<1>3. ASSUME NEW r \in Askers, Quota!SumMonth(r)
      PROVE  Calm(plan) \/ (plan = "pro" /\ SummedFew)
  <2>0. /\ UNCHANGED <<month, import, usage>> /\ asking[r].pc = "month"
        /\ \/ Quota!Leave(r)
           \/ /\ Quota!Goto(r, "queue")
              /\ Quota!MayExtract(Quota!Plan(r), asking[r].used, Quota!CostSince(asking[r].since))
    BY <1>3 DEF Quota!SumMonth
  <2>1. CASE Quota!Leave(r)
    <3>1. asking'[r].pc = "idle" /\ \A q \in Askers : q # r => asking'[q] = asking[q]
      BY <2>1, Asked
    <3> QED
      BY <1>d, <2>0, <3>1 DEF PassingOf
  <2>2. CASE /\ Quota!Goto(r, "queue")
             /\ Quota!MayExtract(Quota!Plan(r), asking[r].used, Quota!CostSince(asking[r].since))
    <3>1. /\ asking'[r].pc = "queue" /\ asking'[r].pro = asking[r].pro
          /\ \A q \in Askers : q # r => asking'[q] = asking[q]
      BY <2>2, Asked
    <3>2. CASE asking[r].pro
      <4>1. Cardinality(Quota!Cents({e \in usage : e.month >= asking[r].since})) < ProCents
        BY <2>2, <3>2, QuotaNumbers DEF Quota!MayExtract, Quota!Plan, Quota!CostSince
      <4>2. SummedFew
        BY <1>0, <2>0, <4>1 DEF SummedFew
      <4>3. CASE plan = "free"
        <5>1. r \notin PassingOf(asking', plan)
          BY <3>1, <3>2, <4>3 DEF PassingOf
        <5> QED
          BY <1>d, <2>0, <3>1, <5>1
      <4> QED
        BY <4>2, <4>3
    <3>3. CASE ~asking[r].pro
      <4>1. asking[r].used < YearlyLimit
        BY <2>2, <3>3 DEF Quota!MayExtract, Quota!Plan
      <4>2. r \in PassingOf(asking', plan) => r \in PassingOf(asking, plan)
        BY <1>0, <2>0, <3>1, <3>3, <4>1 DEF PassingOf, AskingRows
      <4> QED
        BY <1>d, <2>0, <3>1, <4>2
    <3> QED
      BY <3>2, <3>3
  <2> QED
    BY <2>0, <2>1, <2>2
<1>4. ASSUME NEW r \in Askers, Quota!CountOpen(r)
      PROVE  Calm(plan)
  <2>0. /\ UNCHANGED <<month, import, usage>> /\ asking[r].pc = "queue"
        /\ Quota!Goto(r, "create") \/ Quota!Leave(r)
    BY <1>4 DEF Quota!CountOpen
  <2>1. /\ \/ asking'[r].pc = "create" /\ asking'[r].pro = asking[r].pro
           \/ asking'[r].pc = "idle"
        /\ \A q \in Askers : q # r => asking'[q] = asking[q]
    BY <2>0, Asked
  <2>2. r \in PassingOf(asking', plan) => r \in PassingOf(asking, plan)
    BY <2>0, <2>1 DEF PassingOf
  <2> QED
    BY <1>d, <2>0, <2>1, <2>2
<1>5. ASSUME NEW r \in Askers, Quota!Create(r)
      PROVE  Calm(plan)
  <2>0. UNCHANGED <<month, usage>> /\ asking[r].pc = "create" /\ Quota!Leave(r)
    BY <1>5 DEF Quota!Create
  <2>1. PICK j \in Imports :
          /\ import[j].state = "none" /\ import'[j].state \in {"pending", "over"}
          /\ import'[j].plan = IF asking[r].pro THEN "pro" ELSE "free"
          /\ \A i \in Imports : i # j => import'[i] = import[i]
    BY <1>5, Created
  <2>2. asking'[r].pc = "idle" /\ \A q \in Askers : q # r => asking'[q] = asking[q]
    BY <2>0, Asked
  <2>3. CASE asking[r].pro = (plan = "pro")
    <3>1. PassingOf(asking', plan) \subseteq PassingOf(asking, plan) \ {r} /\ r \in PassingOf(asking, plan)
      BY <2>0, <2>2, <2>3 DEF PassingOf
    <3>2. FlightOf(import', plan) \subseteq FlightOf(import, plan) \cup {j}
      BY <2>1 DEF FlightOf
    <3>3. /\ Cardinality(PassingOf(asking', plan)) + 1 <= Cardinality(PassingOf(asking, plan))
          /\ Cardinality(FlightOf(import', plan)) <= Cardinality(FlightOf(import, plan)) + 1
      BY <1>0, <3>1, <3>2, LoadCounted, CountAdds, CountDrops
    <3>4. Load(plan)' <= Load(plan)
      BY <1>0, <3>3, LoadCounted DEF Load, LoadOf
    <3> QED
      BY <2>0, <3>4 DEF Calm
  <2>4. CASE ~(asking[r].pro = (plan = "pro"))
    <3>1. PassingOf(asking', plan) \subseteq PassingOf(asking, plan)
      BY <2>2 DEF PassingOf
    <3>2. import'[j].plan # plan
      BY <1>0, <2>1, <2>4 DEF AskingRows
    <3>3. FlightOf(import', plan) \subseteq FlightOf(import, plan)
      BY <2>1, <3>2 DEF FlightOf
    <3> QED
      BY <1>a, <2>0, <3>1, <3>3 DEF Calm
  <2> QED
    BY <2>3, <2>4
<1>6. ASSUME NEW j \in Imports, Quota!Start(j) \/ Quota!Finish(j) \/ Quota!RecordNothing(j)
      PROVE  Calm(plan)
  <2>1. UNCHANGED <<month, asking, usage>>
    BY <1>6 DEF Quota!Start, Quota!Finish, Quota!RecordNothing
  <2>2. /\ import'[j].plan = import[j].plan
        /\ import[j].state \in {"pending", "running", "orphaned", "recording"}
        /\ \A i \in Imports : i # j => import'[i] = import[i]
    BY <1>6, Ran
  <2>3. FlightOf(import', plan) \subseteq FlightOf(import, plan)
    BY <2>2 DEF FlightOf
  <2> QED
    BY <1>a, <1>c, <2>1, <2>3 DEF Calm
<1>7. ASSUME NEW j \in Imports, NEW c \in RunCosts, Quota!Record(j, c)
      PROVE  Recorded(plan)
  <2> DEFINE e == [month |-> month, cost |-> c, job |-> j, plan |-> import[j].plan]
  <2>1. UNCHANGED <<month, asking>> /\ usage' = usage \cup {e}
    BY <1>7 DEF Quota!Record
  <2>2. /\ import[j].state = "recording" /\ import'[j].state = "over"
        /\ \A i \in Imports : i # j => import'[i] = import[i]
    BY <1>7, Ran
  <2>3. e \in UsageRows /\ e.month = month /\ e.plan = import[j].plan
    BY <1>0 DEF UsageRows, ImportRows
  <2> HIDE DEF e
  <2>4. FlightOf(import', plan) \subseteq FlightOf(import, plan) \ {j}
    BY <2>2 DEF FlightOf
  <2>5. e.plan = plan => j \in FlightOf(import, plan)
    BY <2>2, <2>3 DEF FlightOf
  <2>6. Cardinality(PassingOf(asking', plan)) <= Cardinality(PassingOf(asking, plan))
    BY <1>0, <1>c, <2>1, LoadCounted, CountGrows
  <2>7. Cardinality(FlightOf(import', plan)) + (IF e.plan = plan THEN 1 ELSE 0) <= Cardinality(FlightOf(import, plan))
    <3>1. CASE e.plan = plan
      BY <1>0, <2>4, <2>5, <3>1, LoadCounted, CountDrops
    <3>2. CASE e.plan # plan
      <4>1. FlightOf(import', plan) \in SUBSET FlightOf(import, plan)
        BY <2>4
      <4> QED
        BY <1>0, <3>2, <4>1, LoadCounted, CountGrows
    <3> QED
      BY <3>1, <3>2
  <2>8. Load(plan)' + (IF e.plan = plan THEN 1 ELSE 0) <= Load(plan)
    BY <1>0, <2>6, <2>7, LoadCounted DEF Load, LoadOf
  <2> QED
    BY <2>1, <2>3, <2>8 DEF Recorded
<1>8. ASSUME Quota!CloseAccount
      PROVE  Calm(plan)
  <2>1. UNCHANGED <<month, asking, usage>>
    BY <1>8 DEF Quota!CloseAccount
  <2>2. FlightOf(import', plan) \subseteq FlightOf(import, plan)
    BY <1>8, Orphaned DEF FlightOf
  <2> QED
    BY <1>a, <1>c, <2>1, <2>2 DEF Calm
<1>9. CASE Quota!NextMonth
  BY <1>9, <1>a, <1>b, <1>c DEF Quota!NextMonth, Turned
<1>10. CASE Quota!SubscriptionChanges \/ UNCHANGED quotaVars
  <2>1. UNCHANGED <<month, asking, import, usage>>
    BY <1>10 DEF Quota!SubscriptionChanges, quotaVars
  <2> QED
    BY <1>a, <1>b, <1>c, <2>1 DEF Calm
<1> QED
  BY <1>1, <1>2, <1>3, <1>4, <1>5, <1>6, <1>7, <1>8, <1>9, <1>10 DEF Quota!Next

-----------------------------------------------------------------------------
(* The quota of one user: free recipes *)

LEMMA LoadsBounded ==
  ASSUME QuotaTyped', QueueBounded', NEW plan
  PROVE  Load(plan)' \in Nat /\ Load(plan)' <= Quota!Unseen
<1>1. asking' \in [Askers -> AskingRows] /\ import' \in [Imports -> ImportRows]
  BY DEF QuotaTyped
<1>2. /\ Quota!Working' = {j \in Imports : import'[j].state \in {"running", "orphaned", "recording"}}
      /\ Quota!Open' = {j \in Imports : import'[j].state \in {"pending", "running"}}
      /\ Quota!Creating' \in SUBSET Askers
  BY DEF Quota!Working, Quota!Open, Quota!In, Quota!Creating
<1>3. /\ Cardinality(Quota!Working') <= RunsAtOnce
      /\ Cardinality(Quota!Open') + Cardinality(Quota!Creating') <= OpenLimit - 1 + Cardinality(Askers)
  BY QuotaNumbers DEF QueueBounded, Quota!OpenJobsBounded
<1>4. Cardinality(Quota!Creating') \in Nat /\ Cardinality(Quota!Open') \in Nat
  <2>1. Quota!Open' \in SUBSET Imports
    BY <1>2
  <2> QED
    BY <1>2, <2>1, QuotaNumbers, CountGrows
<1>5. Cardinality(Quota!Open') <= OpenLimit - 1 + Cardinality(Askers)
  BY <1>3, <1>4, QuotaNumbers
<1> QED
  BY <1>1, <1>2, <1>3, <1>5, LoadBounded, LoadCounted DEF Load

LEMMA FreeUsedOf ==
  ASSUME NEW events \in SUBSET UsageRows, IsFiniteSet(events), NEW y
  PROVE  IsFiniteSet(FreeOf(events, y)) /\ Cardinality(FreeOf(events, y)) \in Nat
  BY CountGrows DEF FreeOf

LEMMA FreeStep ==
  ASSUME QuotaTyped, QuotaTyped', QueueBounded', FreeAhead, Quota!FreeUsesBounded, [Quota!Next]_quotaVars
  PROVE  FreeAhead' /\ Quota!FreeUsesBounded'
<1> DEFINE Y == Quota!Year(month)
           bound == YearlyLimit - 1 + Quota!Unseen
<1>0. /\ month \in 0..MaxMonth /\ usage \in SUBSET UsageRows /\ IsFiniteSet(usage)
      /\ month' \in 0..MaxMonth /\ usage' \in SUBSET UsageRows /\ IsFiniteSet(usage')
      /\ \A e \in usage : e.month \in 0..MaxMonth /\ e.month <= month
      /\ asking \in [Askers -> AskingRows] /\ import \in [Imports -> ImportRows]
  BY DEF QuotaTyped, UsageRows
<1>1. /\ Load("free") \in Nat /\ Load("free")' \in Nat /\ Load("free")' <= Quota!Unseen
      /\ Quota!Unseen \in Nat /\ YearlyLimit \in Nat \ {0} /\ bound \in Nat
  BY <1>0, LoadsBounded, LoadCounted, UnseenTyped, QuotaNumbers DEF Load
<1>2. /\ \A y : Cardinality(FreeOf(usage, y)) \in Nat /\ IsFiniteSet(FreeOf(usage, y))
      /\ \A y : Cardinality(FreeOf(usage', y)) \in Nat
  BY <1>0, FreeUsedOf
<1>3. /\ Cardinality(FreeOf(usage, Y)) + Load("free") <= bound
      /\ \A y \in 0..Quota!Year(MaxMonth) : Cardinality(FreeOf(usage, y)) <= bound
  <2>1. \A y : Quota!FreeUsed(y) = FreeOf(usage, y)
    BY DEF Quota!FreeUsed, FreeOf
  <2> QED
    BY <2>1, QuotaNumbers DEF FreeAhead, Quota!FreeUsesBounded
<1>4. ASSUME Cardinality(FreeOf(usage', Quota!Year(month'))) + Load("free")' <= bound,
             \A y \in 0..Quota!Year(MaxMonth) :
               y # Quota!Year(month') => FreeOf(usage', y) \subseteq FreeOf(usage, y)
      PROVE  FreeAhead' /\ Quota!FreeUsesBounded'
  <2>1. FreeAhead'
    BY <1>4 DEF FreeAhead
  <2>2. ASSUME NEW y \in 0..Quota!Year(MaxMonth)
        PROVE  Cardinality(FreeOf(usage', y)) <= bound
    <3>1. CASE y = Quota!Year(month')
      <4> HIDE DEF bound
      <4> QED
        BY <1>1, <1>2, <1>4, <3>1
    <3>2. CASE y # Quota!Year(month')
      <4>1. FreeOf(usage', y) \in SUBSET FreeOf(usage, y)
        BY <1>4, <3>2
      <4>2. Cardinality(FreeOf(usage', y)) <= Cardinality(FreeOf(usage, y))
        BY <1>2, <4>1, CountGrows
      <4> HIDE DEF bound
      <4> QED
        BY <1>1, <1>2, <1>3, <4>2
    <3> QED
      BY <3>1, <3>2
  <2>3. \A y : Quota!FreeUsed(y)' = FreeOf(usage', y)
    BY DEF Quota!FreeUsed, FreeOf
  <2> QED
    BY <2>1, <2>2, <2>3, QuotaNumbers DEF Quota!FreeUsesBounded
<1> HIDE DEF bound
<1>5. CASE Calm("free")
  <2>1. usage' = usage /\ month' = month /\ Load("free")' <= Load("free")
    BY <1>5 DEF Calm
  <2> QED
    BY <1>1, <1>2, <1>3, <1>4, <2>1
<1>6. CASE CountedFew
  <2>1. usage' = usage /\ month' = month
    BY <1>6 DEF CountedFew
  <2>2. PICK m \in 0..month : Cardinality(Quota!Uses(usage, Quota!Year(m))) < YearlyLimit
    BY <1>6 DEF CountedFew
  <2>3. Quota!Year(m) <= Y /\ m \in 0..MaxMonth
    BY <1>0, Years, QuotaNumbers
  <2>4. FreeOf(usage, Y) \in SUBSET Quota!Uses(usage, Quota!Year(m))
    <3>1. \A e \in FreeOf(usage, Y) : Quota!Year(e.month) = Y /\ Y \in Nat /\ Quota!Year(m) \in Nat
      BY <1>0, <2>3, Years DEF FreeOf
    <3> HIDE DEF Y
    <3> QED
      BY <2>3, <3>1 DEF FreeOf, Quota!Uses
  <2>5. IsFiniteSet(Quota!Uses(usage, Quota!Year(m)))
    BY <1>0, CountGrows DEF Quota!Uses
  <2>6. /\ Cardinality(FreeOf(usage, Y)) <= Cardinality(Quota!Uses(usage, Quota!Year(m)))
        /\ Cardinality(Quota!Uses(usage, Quota!Year(m))) \in Nat
    BY <2>4, <2>5, CountGrows
  <2>7. Cardinality(FreeOf(usage, Y)) <= YearlyLimit - 1
    BY <1>1, <1>2, <2>2, <2>6
  <2>8. Cardinality(FreeOf(usage', Quota!Year(month'))) + Load("free")' <= bound
    BY <1>1, <1>2, <2>1, <2>7 DEF bound
  <2> QED
    BY <1>4, <2>1, <2>8
<1>7. CASE Recorded("free")
  <2>1. PICK e \in UsageRows :
          /\ month' = month /\ e.month = month /\ usage' = usage \cup {e}
          /\ Load("free")' + (IF e.plan = "free" THEN 1 ELSE 0) <= Load("free")
    BY <1>7 DEF Recorded
  <2>2. Cardinality(FreeOf(usage', Y)) <= Cardinality(FreeOf(usage, Y)) + (IF e.plan = "free" THEN 1 ELSE 0)
    <3>1. CASE e.plan = "free"
      <4>1. FreeOf(usage', Y) \in SUBSET (FreeOf(usage, Y) \cup {e})
        BY <2>1 DEF FreeOf
      <4> QED
        BY <1>2, <3>1, <4>1, CountAdds
    <3>2. CASE e.plan # "free"
      <4>1. FreeOf(usage', Y) \in SUBSET FreeOf(usage, Y)
        BY <2>1, <3>2 DEF FreeOf
      <4>2. Cardinality(FreeOf(usage', Y)) <= Cardinality(FreeOf(usage, Y))
        BY <1>2, <4>1, CountGrows
      <4> QED
        BY <1>2, <3>2, <4>2
    <3> QED
      BY <3>1, <3>2
  <2>3. \A y : y # Quota!Year(month') => FreeOf(usage', y) \subseteq FreeOf(usage, y)
    BY <2>1 DEF FreeOf
  <2>4. Cardinality(FreeOf(usage', Y)) + Load("free")' <= bound
    <3>1. Cardinality(FreeOf(usage', Y)) \in Nat /\ Cardinality(FreeOf(usage, Y)) \in Nat
      BY <1>2
    <3>2. Cardinality(FreeOf(usage, Y)) + Load("free") <= bound
      BY <1>3
    <3>3. \E n \in {0, 1} : /\ Load("free")' + n <= Load("free")
                            /\ Cardinality(FreeOf(usage', Y)) <= Cardinality(FreeOf(usage, Y)) + n
      BY <2>1, <2>2
    <3> HIDE DEF Y
    <3> QED
      BY <1>1, <3>1, <3>2, <3>3
  <2>5. Quota!Year(month') = Y
    BY <2>1
  <2> HIDE DEF Y
  <2> QED
    BY <1>4, <2>3, <2>4, <2>5
<1>8. CASE Turned("free")
  <2>1. usage' = usage /\ month' = month + 1 /\ month' <= MaxMonth /\ Load("free")' <= Load("free")
    BY <1>0, <1>8 DEF Turned
  <2>2. CASE Quota!Year(month') = Y
    <3> HIDE DEF Y
    <3> QED
      BY <1>1, <1>2, <1>3, <1>4, <2>1, <2>2
  <2>3. CASE Quota!Year(month') # Y
    <3>1. \A e \in usage : Quota!Year(e.month) # Quota!Year(month')
      <4>1. /\ \A e \in usage : Quota!Year(e.month) \in Nat /\ Quota!Year(e.month) <= Y
            /\ Y \in Nat /\ Quota!Year(month') \in Nat /\ Y <= Quota!Year(month')
        BY <1>0, <2>1, Years
      <4> HIDE DEF Y
      <4> QED
        BY <2>3, <4>1
    <3>2. FreeOf(usage', Quota!Year(month')) = {}
      BY <2>1, <3>1 DEF FreeOf
    <3>3. Cardinality(FreeOf(usage', Quota!Year(month'))) = 0
      BY <3>2, FS_EmptySet
    <3>4. Cardinality(FreeOf(usage', Quota!Year(month'))) + Load("free")' <= bound
      BY <1>1, <3>3 DEF bound
    <3> QED
      BY <1>4, <2>1, <3>4
  <2> QED
    BY <2>2, <2>3
<1> QED
  BY <1>5, <1>6, <1>7, <1>8, LoadStep

-----------------------------------------------------------------------------
(* The quota of one user: the cost of Pro imports *)

LEMMA Times ==
  ASSUME NEW a \in Nat, NEW b \in Nat, NEW c \in Nat
  PROVE  /\ c * a \in Nat /\ c * b \in Nat
         /\ a <= b => c * a <= c * b
         /\ a + 1 <= b => c * a + c <= c * b
<1>1. ASSUME NEW d \in Nat, b = a + d
      PROVE  c * b = c * a + c * d /\ c * d \in Nat
  BY <1>1
<1>2. c * a \in Nat /\ c * b \in Nat
  OBVIOUS
<1>3. ASSUME a <= b
      PROVE  c * a <= c * b
  <2>1. PICK d \in Nat : b = a + d
    <3>1. b - a \in Nat /\ b = a + (b - a)
      BY <1>3
    <3> QED
      BY <3>1
  <2>2. c * b = c * a + c * d /\ c * d \in Nat
    BY <1>1, <2>1
  <2> QED
    BY <1>2, <2>2
<1>4. ASSUME a + 1 <= b
      PROVE  c * a + c <= c * b
  <2>1. PICK d \in Nat : b = a + (d + 1)
    <3>1. b - a - 1 \in Nat /\ b = a + ((b - a - 1) + 1)
      BY <1>4
    <3> QED
      BY <3>1
  <2>2. c * b = c * a + c * (d + 1) /\ c * (d + 1) = c * d + c /\ c * d \in Nat
    BY <2>1
  <2> QED
    BY <1>2, <2>2
<1> QED
  BY <1>2, <1>3, <1>4

LEMMA ProCentsOf ==
  ASSUME NEW events \in SUBSET UsageRows, IsFiniteSet(events), NEW m
  PROVE  /\ ProOf(events, m) \in SUBSET UsageRows /\ IsFiniteSet(ProOf(events, m))
         /\ Cardinality(Quota!Cents(ProOf(events, m))) \in Nat
<1>1. ProOf(events, m) \in SUBSET UsageRows /\ ProOf(events, m) \in SUBSET events
  BY DEF ProOf
<1>2. IsFiniteSet(ProOf(events, m))
  BY <1>1, CountGrows
<1> QED
  BY <1>1, <1>2, UsageCents

LEMMA ProStep ==
  ASSUME QuotaTyped, QuotaTyped', QueueBounded', ProAhead, NothingForPro, Quota!ProCostBounded,
         [Quota!Next]_quotaVars
  PROVE  ProAhead' /\ NothingForPro' /\ Quota!ProCostBounded'
<1>0. /\ month \in 0..MaxMonth /\ usage \in SUBSET UsageRows /\ IsFiniteSet(usage)
      /\ month' \in 0..MaxMonth /\ usage' \in SUBSET UsageRows /\ IsFiniteSet(usage')
      /\ \A e \in usage : e.month \in 0..MaxMonth /\ e.month <= month
      /\ asking \in [Askers -> AskingRows] /\ import \in [Imports -> ImportRows]
  BY DEF QuotaTyped, UsageRows
<1>1. /\ Load("pro") \in Nat /\ Load("pro")' \in Nat /\ Load("pro")' <= Quota!Unseen
      /\ Quota!Unseen \in Nat /\ ProCents \in Nat /\ RunCosts \subseteq Nat
  BY <1>0, LoadsBounded, LoadCounted, UnseenTyped, QuotaNumbers DEF Load
<1>2. /\ \A m : /\ Cardinality(Quota!Cents(ProOf(usage, m))) \in Nat
                 /\ ProOf(usage, m) \in SUBSET UsageRows /\ IsFiniteSet(ProOf(usage, m))
      /\ \A m : Cardinality(Quota!Cents(ProOf(usage', m))) \in Nat
  BY <1>0, ProCentsOf
<1>3. NothingForPro'
  <2> SUFFICES ASSUME ProCents = 0 PROVE Load("pro")' = 0 /\ \A e \in usage' : e.plan = "free"
    BY DEF NothingForPro
  <2>1. Load("pro") = 0 /\ \A e \in usage : e.plan = "free"
    BY DEF NothingForPro
  <2>2. CASE Calm("pro") \/ Turned("pro")
    BY <1>1, <2>1, <2>2 DEF Calm, Turned
  <2>3. CASE SummedFew
    <3>1. PICK m \in 0..month : Cardinality(Quota!Cents({e \in usage : e.month >= m})) < ProCents
      BY <2>3 DEF SummedFew
    <3>2. Cardinality(Quota!Cents({e \in usage : e.month >= m})) \in Nat
      <4>1. {e \in usage : e.month >= m} \in SUBSET usage
        OBVIOUS
      <4>2. IsFiniteSet({e \in usage : e.month >= m}) /\ {e \in usage : e.month >= m} \in SUBSET UsageRows
        BY <1>0, <4>1, CountGrows
      <4> QED
        BY <4>2, UsageCents
    <3> QED
      BY <3>1, <3>2
  <2>4. CASE Recorded("pro")
    <3>1. PICK e \in UsageRows :
            usage' = usage \cup {e} /\ Load("pro")' + (IF e.plan = "pro" THEN 1 ELSE 0) <= Load("pro")
      BY <2>4 DEF Recorded
    <3>2. e.plan # "pro" /\ Load("pro")' = 0
      BY <1>1, <2>1, <3>1
    <3>3. e.plan = "free"
      BY <3>2 DEF UsageRows
    <3> QED
      BY <2>1, <3>1, <3>2, <3>3
  <2> QED
    BY <2>2, <2>3, <2>4, LoadStep
<1>4. ASSUME ProCents > 0, NEW most \in RunCosts, \A c \in RunCosts : c <= most
      PROVE  /\ Cardinality(Quota!Cents(ProOf(usage', month'))) + most * Load("pro")'
                  <= ProCents - 1 + most * Quota!Unseen
             /\ \A m \in 0..MaxMonth :
                  Cardinality(Quota!Cents(ProOf(usage', m))) <= ProCents - 1 + most * Quota!Unseen
  <2> DEFINE bound == ProCents - 1 + most * Quota!Unseen
             Cost(events, m) == Cardinality(Quota!Cents(ProOf(events, m)))
  <2>0. most \in Nat /\ bound \in Nat /\ \A m : Cost(usage, m) \in Nat /\ Cost(usage', m) \in Nat
    BY <1>1, <1>2, <1>4, Times
  <2>1. Cost(usage, month) + most * Load("pro") <= bound
    BY <1>4 DEF ProAhead
  <2>2. \A m \in 0..MaxMonth : Cost(usage, m) <= bound
    <3> SUFFICES ASSUME NEW m \in 0..MaxMonth
                 PROVE  Cost(usage, m) <= bound
      OBVIOUS
    <3>1. CASE ProOf(usage, m) = {}
      <4>1. Quota!Cents(ProOf(usage, m)) = {}
        BY <3>1 DEF Quota!Cents
      <4> QED
        BY <2>0, <4>1, FS_EmptySet
    <3>2. CASE ProOf(usage, m) # {}
      <4>1. ProOf(usage, m) = Quota!ProUsed(m)
        BY DEF ProOf, Quota!ProUsed
      <4>2. Quota!Cardinality(Quota!Cents(Quota!ProUsed(m))) <= bound
        BY <1>4, <3>2, <4>1 DEF Quota!ProCostBounded
      <4> QED
        BY <4>1, <4>2, QuotaNumbers
    <3> QED
      BY <3>1, <3>2
  <2>a. ASSUME Cost(usage', month') + most * Load("pro")' <= bound,
               \A m \in 0..MaxMonth : m # month' => ProOf(usage', m) \in SUBSET ProOf(usage, m)
        PROVE  \A m \in 0..MaxMonth : Cost(usage', m) <= bound
    <3> SUFFICES ASSUME NEW m \in 0..MaxMonth
                 PROVE  Cost(usage', m) <= bound
      OBVIOUS
    <3>1. CASE m = month'
      <4>1. most * Load("pro")' \in Nat
        BY <1>1, <2>0, Times
      <4> HIDE DEF bound, Cost
      <4> QED
        BY <2>0, <2>a, <3>1, <4>1
    <3>2. CASE m # month'
      <4>1. ProOf(usage', m) \in SUBSET ProOf(usage, m)
        BY <2>a, <3>2
      <4>2. Cost(usage', m) <= Cost(usage, m)
        BY <1>2, <4>1, UsageCentsGrow
      <4> HIDE DEF bound, Cost
      <4> QED
        BY <2>0, <2>2, <4>2
    <3> QED
      BY <3>1, <3>2
  <2>b. SUFFICES ASSUME TRUE
                 PROVE  /\ Cost(usage', month') + most * Load("pro")' <= bound
                        /\ \A m \in 0..MaxMonth : m # month' => ProOf(usage', m) \in SUBSET ProOf(usage, m)
    BY <2>a
  <2>c. most * Load("pro")' \in Nat /\ most * Load("pro") \in Nat /\ most * Load("pro")' <= most * Quota!Unseen
        /\ (Load("pro")' <= Load("pro") => most * Load("pro")' <= most * Load("pro"))
        /\ (Load("pro")' + 1 <= Load("pro") => most * Load("pro")' + most <= most * Load("pro"))
        /\ most * Quota!Unseen \in Nat
    BY <1>1, <2>0, Times
  <2>3. CASE Calm("pro")
    <3>1. usage' = usage /\ month' = month /\ most * Load("pro")' <= most * Load("pro")
      BY <2>3, <2>c DEF Calm
    <3> HIDE DEF bound, Cost
    <3> QED
      BY <2>0, <2>1, <2>c, <3>1
  <2>4. CASE SummedFew
    <3>1. usage' = usage /\ month' = month
      BY <2>4 DEF SummedFew
    <3>2. PICK m \in 0..month : Cardinality(Quota!Cents({e \in usage : e.month >= m})) < ProCents
      BY <2>4 DEF SummedFew
    <3>3. /\ ProOf(usage, month) \in SUBSET {e \in usage : e.month >= m}
          /\ {e \in usage : e.month >= m} \in SUBSET UsageRows
          /\ {e \in usage : e.month >= m} \in SUBSET usage
      BY <1>0 DEF ProOf
    <3>4. IsFiniteSet({e \in usage : e.month >= m})
      BY <1>0, <3>3, CountGrows
    <3>5. /\ Cost(usage, month) <= Cardinality(Quota!Cents({e \in usage : e.month >= m}))
          /\ Cardinality(Quota!Cents({e \in usage : e.month >= m})) \in Nat
      BY <3>3, <3>4, UsageCentsGrow, UsageCents
    <3>6. Cost(usage, month) <= ProCents - 1
      <4> HIDE DEF Cost
      <4> QED
        BY <1>1, <2>0, <3>2, <3>5
    <3> HIDE DEF Cost
    <3>7. Cost(usage, month) + most * Load("pro")' <= bound
      BY <1>1, <2>0, <2>c, <3>6
    <3> QED
      BY <3>1, <3>7
  <2>5. CASE Recorded("pro")
    <3>1. PICK e \in UsageRows :
            /\ month' = month /\ e.month = month /\ usage' = usage \cup {e}
            /\ Load("pro")' + (IF e.plan = "pro" THEN 1 ELSE 0) <= Load("pro")
      BY <2>5 DEF Recorded
    <3>2. \A m \in 0..MaxMonth : m # month' => ProOf(usage', m) \in SUBSET ProOf(usage, m)
      BY <3>1 DEF ProOf
    <3>3. CASE e.plan = "pro"
      <4>1. ProOf(usage', month) \in SUBSET (ProOf(usage, month) \cup {e})
        BY <3>1 DEF ProOf
      <4>2. Cost(usage', month) <= Cost(usage, month) + e.cost
        BY <1>2, <4>1, UsageCentsAdd
      <4>3. e.cost \in Nat /\ e.cost <= most
        BY <1>1, <1>4 DEF UsageRows
      <4>4. most * Load("pro")' + most <= most * Load("pro")
        BY <1>1, <2>c, <3>1, <3>3
      <4> HIDE DEF bound, Cost
      <4>5. Cost(usage', month) + most * Load("pro")' <= bound
        BY <2>0, <2>1, <2>c, <4>2, <4>3, <4>4
      <4> QED
        BY <3>1, <3>2, <4>5
    <3>4. CASE e.plan # "pro"
      <4>1. ProOf(usage', month) \in SUBSET ProOf(usage, month)
        BY <3>1, <3>4 DEF ProOf
      <4>2. Cost(usage', month) <= Cost(usage, month)
        BY <1>2, <4>1, UsageCentsGrow
      <4>3. most * Load("pro")' <= most * Load("pro")
        BY <1>1, <2>c, <3>1, <3>4
      <4> HIDE DEF bound, Cost
      <4>4. Cost(usage', month) + most * Load("pro")' <= bound
        BY <2>0, <2>1, <2>c, <4>2, <4>3
      <4> QED
        BY <3>1, <3>2, <4>4
    <3> QED
      BY <3>3, <3>4
  <2>6. CASE Turned("pro")
    <3>1. usage' = usage /\ month' = month + 1
      BY <2>6 DEF Turned
    <3>2. ProOf(usage', month') = {}
      BY <1>0, <3>1 DEF ProOf
    <3>3. Cost(usage', month') = 0
      <4>1. Quota!Cents(ProOf(usage', month')) = {}
        BY <3>2 DEF Quota!Cents
      <4> QED
        BY <4>1, FS_EmptySet
    <3> HIDE DEF Cost
    <3>4. Cost(usage', month') + most * Load("pro")' <= bound
      BY <1>1, <1>4, <2>0, <2>c, <3>3
    <3> QED
      BY <3>1, <3>4
  <2> HIDE DEF bound, Cost
  <2> QED
    BY <2>3, <2>4, <2>5, <2>6, LoadStep
<1>5. ProAhead'
  BY <1>4 DEF ProAhead
<1>6. Quota!ProCostBounded'
  <2>1. \A m : Quota!ProUsed(m)' = ProOf(usage', m)
    BY DEF Quota!ProUsed, ProOf
  <2>2. CASE ProCents = 0
    <3>1. \A m : ProOf(usage', m) = {}
      BY <1>3, <2>2 DEF NothingForPro, ProOf
    <3> QED
      BY <2>1, <3>1 DEF Quota!ProCostBounded
  <2>3. CASE ProCents > 0
    <3>1. \A S : Quota!Cents(S)' = Quota!Cents(S)
      BY DEF Quota!Cents
    <3> QED
      BY <1>4, <2>1, <2>3, <3>1, QuotaNumbers DEF Quota!ProCostBounded
  <2> QED
    BY <1>1, <2>2, <2>3
<1> QED
  BY <1>3, <1>5, <1>6

-----------------------------------------------------------------------------
(* The quota of one user: the theorems *)

LEMMA QuotaInvInit == Quota!Init => QuotaInv
<1> SUFFICES ASSUME Quota!Init PROVE QuotaInv
  OBVIOUS
<1>1. QuotaTyped
  BY QuotaTypedInit
<1>2. /\ month = 0 /\ usage = {} /\ asking = [r \in Askers |-> Quota!Idle]
      /\ import = [j \in Imports |-> Quota!NoJob]
      /\ asking \in [Askers -> AskingRows] /\ import \in [Imports -> ImportRows]
  BY <1>1 DEF Quota!Init, QuotaTyped
<1>3. (\A r \in Askers : asking[r].pc = "idle") /\ (\A j \in Imports : import[j].state = "none")
  BY <1>2, QuotaIdle DEF Quota!NoJob
<1>4. Quota!Working = {} /\ Quota!Open = {} /\ Quota!Creating = {}
  BY <1>3, QueueSets
<1>5. QueueBounded
  BY <1>4, FS_EmptySet, QueueCounted, QuotaNumbers DEF QueueBounded
<1>6. \A plan : Load(plan) = 0
  <2>1. \A plan : FlightOf(import, plan) = {} /\ PassingOf(asking, plan) = {}
    BY <1>3 DEF FlightOf, PassingOf
  <2> QED
    BY <2>1, FS_EmptySet DEF Load, LoadOf
<1>7. /\ \A y : FreeOf(usage, y) = {} /\ Quota!FreeUsed(y) = {}
      /\ \A m : ProOf(usage, m) = {} /\ Quota!ProUsed(m) = {}
  BY <1>2 DEF FreeOf, ProOf, Quota!FreeUsed, Quota!ProUsed
<1>8. FreeAhead /\ Quota!FreeUsesBounded
  <2>1. \A y : Cardinality(FreeOf(usage, y)) = 0 /\ Cardinality(Quota!FreeUsed(y)) = 0
    BY <1>7, FS_EmptySet
  <2>2. 0 <= YearlyLimit - 1 + Quota!Unseen
    BY UnseenTyped, QuotaNumbers
  <2>3. FreeAhead
    BY <1>6, <2>1, <2>2 DEF FreeAhead
  <2>4. Quota!FreeUsesBounded
    BY <2>1, <2>2, QuotaNumbers DEF Quota!FreeUsesBounded
  <2> QED
    BY <2>3, <2>4
<1>9. Quota!ProCostBounded /\ NothingForPro
  BY <1>2, <1>6, <1>7 DEF Quota!ProCostBounded, NothingForPro
<1>10. ProAhead
  <2> SUFFICES ASSUME NEW most \in RunCosts, ProCents > 0
               PROVE  Cardinality(Quota!Cents(ProOf(usage, month))) + most * Load("pro")
                        <= ProCents - 1 + most * Quota!Unseen
    BY DEF ProAhead
  <2>1. Quota!Cents(ProOf(usage, month)) = {}
    BY <1>7 DEF Quota!Cents
  <2>2. Cardinality(Quota!Cents(ProOf(usage, month))) = 0
    BY <2>1, FS_EmptySet
  <2>3. most * Load("pro") = 0 /\ most * Quota!Unseen \in Nat /\ ProCents \in Nat
    BY <1>6, UnseenTyped, QuotaNumbers, Times
  <2> QED
    BY <2>2, <2>3
<1> QED
  BY <1>1, <1>5, <1>8, <1>9, <1>10 DEF QuotaInv

LEMMA QuotaInvStep ==
  ASSUME QuotaInv, [Quota!Next]_quotaVars
  PROVE  QuotaInv'
<1>1. QuotaTyped'
  BY QuotaTypedStep DEF QuotaInv
<1>2. QueueBounded'
  BY <1>1, QueueStep DEF QuotaInv
<1>3. FreeAhead' /\ Quota!FreeUsesBounded'
  BY <1>1, <1>2, FreeStep DEF QuotaInv
<1>4. ProAhead' /\ NothingForPro' /\ Quota!ProCostBounded'
  BY <1>1, <1>2, ProStep DEF QuotaInv
<1> QED
  BY <1>1, <1>2, <1>3, <1>4 DEF QuotaInv

\* For any requests, jobs, limits, budgets, costs and any number of months: the inductive
\* invariant of the quota of one user - what is counted and what the tests of app/quota.py:107
\* cannot see stay below the limit and the unseen together.
THEOREM QuotaInvariance == Quota!Spec => []QuotaInv
<1>1. Quota!Init => QuotaInv
  BY QuotaInvInit
<1>2. QuotaInv /\ [Quota!Next]_Quota!vars => QuotaInv'
  <2>1. [Quota!Next]_Quota!vars => [Quota!Next]_quotaVars
    BY DEF Quota!vars, quotaVars
  <2> QED
    BY <2>1, QuotaInvStep
<1> QED
  BY <1>1, <1>2, PTL DEF Quota!Spec

\* A behaviour in which the three guards of an import take turns is one of the quota.
LEMMA EveryStepOfQuota == EverySpec => Quota!Spec
<1>1. EveryInit => Quota!Init
  BY DEF EveryInit
<1>2. [EveryNext]_<<part, vars, quotaVars, rateVars>> => [Quota!Next]_Quota!vars
  <2> SUFFICES ASSUME [EveryNext]_<<part, vars, quotaVars, rateVars>>
               PROVE  [Quota!Next]_Quota!vars
    OBVIOUS
  <2>1. Quota!Next \/ UNCHANGED quotaVars
    BY DEF EveryNext
  <2> QED
    BY <2>1 DEF Quota!vars, quotaVars
<1> QED
  BY <1>1, <1>2, PTL DEF EverySpec, Quota!Spec

\* A user's open imports, free recipes of a year and Pro cost of a month pass their limits by
\* no more than what was under way unseen when the last import was admitted, for any number
\* of overlapping requests, deleted accounts and subscriptions that come and go
\* (app/quota.py:107-142, app/main.py:1062).
THEOREM QuotaIsOvershotBoundedly == EverySpec => []QuotaOvershootBounded
<1>1. QuotaInv => QuotaOvershootBounded
  BY DEF QuotaInv, QueueBounded, QuotaOvershootBounded
<1> QED
  BY <1>1, QuotaInvariance, EveryStepOfQuota, PTL

\* Values of the quota keep their types, and a job is charged once and only when it is over
\* (record_usage).
THEOREM QuotaTyping == Quota!Spec => []Quota!TypeOK
<1>1. QuotaInv => Quota!TypeOK
  BY DEF QuotaInv, QuotaTyped, AskingRows, ImportRows, UsageRows, Quota!TypeOK
<1> QED
  BY <1>1, QuotaInvariance, PTL

-----------------------------------------------------------------------------
(* The rate limits: counting *)

RateKeys == {"general", "extract", "login"}
Counts == [1..MaxNow -> Nat]

LEMMA RateNumbers ==
  /\ Rates!Keys = RateKeys
  /\ Chains \subseteq {<<"general">>, <<"general", "extract">>, <<"login">>}
  /\ KeyLimit \in [RateKeys -> Nat \ {0}]
  /\ BanDurations \in Seq(Nat \ {0}) /\ BanDurations # << >>
  /\ Window \in Nat \ {0} /\ BanWindow \in Nat \ {0} /\ BanThreshold \in Nat \ {0}
  /\ MaxNow \in Nat \ {0} /\ MaxRestarts \in Nat
  /\ \A S : Rates!Cardinality(S) = Cardinality(S)
<1>1. \A S : Rates!Cardinality(S) = Cardinality(S)
  BY DEF Rates!Cardinality, Cardinality
<1>2. Rates!RateAssumption
  BY InstancesAssumption
<1> QED
  BY <1>1, <1>2 DEF Rates!RateAssumption, Rates!Keys, Rates!AllChains, RateKeys

LEMMA MarksOf ==
  ASSUME NEW f \in Counts
  PROVE  /\ \A x : x \in Rates!Marks(f) <=> \E t \in 1..MaxNow, n \in Nat : n \in 1..f[t] /\ x = <<t, n>>
         /\ IsFiniteSet(Rates!Marks(f)) /\ Cardinality(Rates!Marks(f)) \in Nat
<1> DEFINE Of == {{t} \X (1..f[t]) : t \in 1..MaxNow}
           g == [t \in 1..MaxNow |-> {t} \X (1..f[t])]
<1>1. g \in Surjection(1..MaxNow, Of)
  BY DEF Surjection
<1>2. IsFiniteSet(1..MaxNow)
  BY FS_Interval, RateNumbers
<1>3. IsFiniteSet(Of)
  <2> HIDE DEF Of, g
  <2> QED
    BY <1>1, <1>2, FS_Surjection
<1>4. ASSUME NEW t \in 1..MaxNow
      PROVE  IsFiniteSet({t} \X (1..f[t]))
  <2>1. 1 \in Int /\ f[t] \in Int
    BY DEF Counts
  <2>2. IsFiniteSet(1..f[t])
    BY <2>1, FS_Interval
  <2>3. IsFiniteSet({t})
    BY FS_Singleton
  <2> QED
    BY <2>2, <2>3, FS_Product
<1>5. \A T \in Of : IsFiniteSet(T)
  BY <1>4
<1>6. IsFiniteSet(UNION Of)
  <2> HIDE DEF Of
  <2> QED
    BY <1>3, <1>5, FS_UNION
<1>7. \A x : x \in Rates!Marks(f) <=> \E t \in 1..MaxNow, n \in Nat : n \in 1..f[t] /\ x = <<t, n>>
  BY DEF Rates!Marks
<1> QED
  BY <1>6, <1>7, FS_CardinalityType DEF Rates!Marks

LEMMA NothingMarked ==
  Rates!Nothing \in Counts /\ Rates!Marks(Rates!Nothing) = {} /\ \A t \in 1..MaxNow : Rates!Nothing[t] = 0
<1>1. Rates!Nothing \in Counts /\ \A t \in 1..MaxNow : Rates!Nothing[t] = 0
  BY DEF Rates!Nothing, Counts
<1> QED
  BY <1>1, MarksOf

LEMMA SinceMarked ==
  ASSUME NEW f \in Counts, NEW cutoff \in Int
  PROVE  /\ Rates!Since(f, cutoff) \in Counts
         /\ Rates!Marks(Rates!Since(f, cutoff)) = {x \in Rates!Marks(f) : x[1] > cutoff}
<1> DEFINE g == Rates!Since(f, cutoff)
<1>1. g \in Counts /\ \A t \in 1..MaxNow : g[t] = IF t > cutoff THEN f[t] ELSE 0
  BY RateNumbers DEF Rates!Since, Counts
<1> HIDE DEF g
<1>2. ASSUME NEW x \in Rates!Marks(g)
      PROVE  x \in Rates!Marks(f) /\ x[1] > cutoff
  <2>1. PICK t \in 1..MaxNow, n \in Nat : n \in 1..g[t] /\ x = <<t, n>>
    BY <1>1, <1>2, MarksOf
  <2>2. t > cutoff /\ n \in 1..f[t]
    BY <1>1, <2>1
  <2> QED
    BY <2>1, <2>2, MarksOf
<1>3. ASSUME NEW x \in Rates!Marks(f), x[1] > cutoff
      PROVE  x \in Rates!Marks(g)
  <2>1. PICK t \in 1..MaxNow, n \in Nat : n \in 1..f[t] /\ x = <<t, n>>
    BY <1>3, MarksOf
  <2>2. g[t] = f[t]
    BY <1>1, <1>3, <2>1
  <2> QED
    BY <1>1, <2>1, <2>2, MarksOf
<1> QED
  BY <1>1, <1>2, <1>3 DEF g

\* One request more makes one mark more.
LEMMA OneMarkMore ==
  ASSUME NEW f \in Counts, NEW t \in 1..MaxNow
  PROVE  LET g == [f EXCEPT ![t] = @ + 1]
         IN  /\ g \in Counts
             /\ Rates!Marks(g) = Rates!Marks(f) \cup {<<t, f[t] + 1>>}
             /\ <<t, f[t] + 1>> \notin Rates!Marks(f)
<1> DEFINE g == [f EXCEPT ![t] = @ + 1]
<1>1. /\ g \in Counts /\ g[t] = f[t] + 1 /\ f[t] \in Nat
      /\ \A s \in 1..MaxNow : s # t => g[s] = f[s]
  BY DEF Counts
<1> HIDE DEF g
<1>2. ASSUME NEW x \in Rates!Marks(g), x # <<t, f[t] + 1>>
      PROVE  x \in Rates!Marks(f)
  <2>1. PICK s \in 1..MaxNow, n \in Nat : n \in 1..g[s] /\ x = <<s, n>>
    BY <1>1, <1>2, MarksOf
  <2>2. n \in 1..f[s]
    BY <1>1, <1>2, <2>1
  <2> QED
    BY <2>1, <2>2, MarksOf
<1>3. ASSUME NEW x \in Rates!Marks(f)
      PROVE  x \in Rates!Marks(g)
  <2>1. PICK s \in 1..MaxNow, n \in Nat : n \in 1..f[s] /\ x = <<s, n>>
    BY <1>3, MarksOf
  <2>2. n \in 1..g[s]
    BY <1>1, <2>1
  <2> QED
    BY <1>1, <2>1, <2>2, MarksOf
<1>4. <<t, f[t] + 1>> \in Rates!Marks(g)
  <2>1. f[t] + 1 \in 1..g[t]
    BY <1>1
  <2> QED
    BY <1>1, <2>1, MarksOf
<1>5. <<t, f[t] + 1>> \notin Rates!Marks(f)
  <2> SUFFICES ASSUME NEW s \in 1..MaxNow, NEW n \in 1..f[s], <<t, f[t] + 1>> = <<s, n>>
               PROVE  FALSE
    BY MarksOf
  <2> QED
    BY <1>1
<1>6. Rates!Marks(g) = Rates!Marks(f) \cup {<<t, f[t] + 1>>}
  BY <1>2, <1>3, <1>4
<1> QED
  BY <1>1, <1>5, <1>6 DEF g

-----------------------------------------------------------------------------
(* The rate limits: types *)

Rests == {<< >>, <<"general">>, <<"extract">>, <<"general", "extract">>, <<"login">>}
ArrivingRows == [pc : {"idle", "banned", "count", "expire", "memory", "violation"}, chain : Rests]
Counters == [n : Nat, until : 1..Rates!Never]
BanRows == [violations : [RateKeys -> Counts], until : Nat, level : 0..Len(BanDurations),
            why : SUBSET RateKeys]

RateTyped ==
  /\ now \in 1..MaxNow /\ restarts \in 0..MaxRestarts
  /\ counter \in [RateKeys -> Counters]
  /\ hits \in [RateKeys -> Counts] /\ admitted \in [RateKeys -> Counts]
  /\ ban \in [RateKeys -> BanRows]
  /\ arriving \in [Clients -> ArrivingRows]
  /\ \A r \in Clients : arriving[r].pc # "idle" => arriving[r].chain # << >>

LEMMA NeverTyped ==
  Rates!Never = MaxNow + Window + 1 /\ Rates!Never \in Nat /\ Rates!Never > MaxNow
  BY RateNumbers DEF Rates!Never

LEMMA ChainHead ==
  ASSUME NEW chain \in Rests, chain # << >>
  PROVE  /\ Head(chain) \in RateKeys
         /\ Len(chain) # 1 => Tail(chain) \in Rests /\ Tail(chain) # << >>
<1>1. CASE chain = <<"general", "extract">>
  <2>1. Tail(chain) = <<"extract">> /\ Head(chain) = "general"
    BY <1>1
  <2> QED
    BY <2>1 DEF Rests, RateKeys
<1>2. CASE chain = <<"general">>
  BY <1>2 DEF RateKeys
<1>3. CASE chain = <<"extract">>
  BY <1>3 DEF RateKeys
<1>4. CASE chain = <<"login">>
  BY <1>4 DEF RateKeys
<1> QED
  BY <1>1, <1>2, <1>3, <1>4 DEF Rests

LEMMA ArrivingIdle ==
  Rates!Idle \in ArrivingRows /\ Rates!Idle.pc = "idle"
  BY DEF Rates!Idle, ArrivingRows, Rests

LEMMA EmptyRows ==
  /\ Rates!NoBan \in BanRows /\ Rates!NoCounter \in Counters
  /\ Rates!NoCounter.n = 0 /\ Rates!NoCounter.until = Rates!Never
  /\ Rates!NoBan.why = {} /\ \A k \in RateKeys : Rates!NoBan.violations[k] = Rates!Nothing
<1>1. Len(BanDurations) \in Nat
  BY RateNumbers
<1>2. [k \in RateKeys |-> Rates!Nothing] \in [RateKeys -> Counts]
  BY NothingMarked
<1>3. Rates!NoBan \in BanRows
  BY <1>1, <1>2, RateNumbers DEF Rates!NoBan, BanRows
<1>4. Rates!NoCounter \in Counters
  BY NeverTyped, RateNumbers DEF Rates!NoCounter, Counters
<1> QED
  BY <1>3, <1>4, RateNumbers DEF Rates!NoBan, Rates!NoCounter

\* The rows of a request that moves.
LEMMA Moved ==
  ASSUME RateTyped, NEW r \in Clients, arriving[r].pc # "idle"
  PROVE  /\ Rates!Key(r) \in RateKeys
         /\ \A pc \in {"count", "expire", "memory", "violation"} : Rates!Goto(r, pc) =>
              /\ arriving' \in [Clients -> ArrivingRows] /\ arriving'[r].pc = pc
              /\ arriving'[r].chain = arriving[r].chain
              /\ \A q \in Clients : q # r => arriving'[q] = arriving[q]
         /\ Rates!Refuse(r) =>
              /\ arriving' \in [Clients -> ArrivingRows] /\ arriving'[r].pc = "idle"
              /\ \A q \in Clients : q # r => arriving'[q] = arriving[q]
         /\ Rates!Admit(r) =>
              /\ arriving' \in [Clients -> ArrivingRows] /\ arriving'[r].pc \in {"idle", "banned"}
              /\ arriving'[r].pc # "idle" => arriving'[r].chain # << >>
              /\ \A q \in Clients : q # r => arriving'[q] = arriving[q]
              /\ admitted' = [admitted EXCEPT ![Rates!Key(r)] = [admitted[Rates!Key(r)] EXCEPT ![now] = @ + 1]]
<1>0. /\ arriving \in [Clients -> ArrivingRows] /\ arriving[r] \in ArrivingRows
      /\ arriving[r].chain \in Rests /\ arriving[r].chain # << >> /\ admitted \in [RateKeys -> Counts]
  BY DEF RateTyped, ArrivingRows
<1>1. Rates!Key(r) \in RateKeys
  BY <1>0, ChainHead DEF Rates!Key
<1>2. ASSUME NEW pc \in {"count", "expire", "memory", "violation"}, Rates!Goto(r, pc)
      PROVE  /\ arriving' \in [Clients -> ArrivingRows] /\ arriving'[r].pc = pc
             /\ arriving'[r].chain = arriving[r].chain
             /\ \A q \in Clients : q # r => arriving'[q] = arriving[q]
  <2> DEFINE row == [arriving[r] EXCEPT !.pc = pc]
  <2>1. row \in ArrivingRows /\ row.pc = pc /\ row.chain = arriving[r].chain
    BY <1>0 DEF ArrivingRows
  <2>2. arriving' = [arriving EXCEPT ![r] = row]
    BY <1>2 DEF Rates!Goto
  <2> HIDE DEF row
  <2> QED
    BY <1>0, <2>1, <2>2
<1>3. ASSUME Rates!Refuse(r)
      PROVE  /\ arriving' \in [Clients -> ArrivingRows] /\ arriving'[r].pc = "idle"
             /\ \A q \in Clients : q # r => arriving'[q] = arriving[q]
  BY <1>0, <1>3, ArrivingIdle DEF Rates!Refuse
<1>4. ASSUME Rates!Admit(r)
      PROVE  /\ arriving' \in [Clients -> ArrivingRows] /\ arriving'[r].pc \in {"idle", "banned"}
             /\ arriving'[r].pc # "idle" => arriving'[r].chain # << >>
             /\ \A q \in Clients : q # r => arriving'[q] = arriving[q]
             /\ admitted' = [admitted EXCEPT ![Rates!Key(r)] = [admitted[Rates!Key(r)] EXCEPT ![now] = @ + 1]]
  <2> DEFINE row == IF Len(arriving[r].chain) = 1 THEN Rates!Idle
                    ELSE [pc |-> "banned", chain |-> Tail(arriving[r].chain)]
  <2>1. arriving' = [arriving EXCEPT ![r] = row]
    BY <1>4 DEF Rates!Admit
  <2>2. /\ row \in ArrivingRows /\ row.pc \in {"idle", "banned"}
        /\ row.pc # "idle" => row.chain # << >>
    <3>1. CASE Len(arriving[r].chain) = 1
      BY <3>1, ArrivingIdle
    <3>2. CASE Len(arriving[r].chain) # 1
      BY <1>0, <3>2, ChainHead DEF ArrivingRows
    <3> QED
      BY <3>1, <3>2
  <2> HIDE DEF row
  <2>3. admitted' = [admitted EXCEPT ![Rates!Key(r)] = [admitted[Rates!Key(r)] EXCEPT ![now] = @ + 1]]
    BY <1>0, <1>1, <1>4 DEF Rates!Admit
  <2> QED
    BY <1>0, <2>1, <2>2, <2>3
<1> QED
  BY <1>1, <1>2, <1>3, <1>4

-----------------------------------------------------------------------------
(* The rate limits: bans *)

\* Nothing that "key" did is held in a ban state.
Clean(row, key) == row.violations[key] = Rates!Nothing /\ key \notin row.why
BansScoped ==
  Clean(ban["general"], "extract") /\ Clean(ban["extract"], "general") /\ Clean(ban["extract"], "login")

LEMMA NothingSince == \A cutoff \in Int : Rates!Since(Rates!Nothing, cutoff) = Rates!Nothing
  BY DEF Rates!Since, Rates!Nothing

LEMMA ViolatedRow ==
  ASSUME now \in 1..MaxNow, NEW state \in BanRows, NEW k \in RateKeys
  PROVE  /\ Rates!Violated(state, k) \in BanRows
         /\ \A l \in RateKeys : l # k /\ Clean(state, l) => Clean(Rates!Violated(state, k), l)
<1> DEFINE recent == [l \in Rates!Keys |-> Rates!Since(state.violations[l], now - BanWindow)]
           more == [recent[k] EXCEPT ![now] = @ + 1]
           violations == [recent EXCEPT ![k][now] = @ + 1]
           level == state.level + 1
           after == IF ~Rates!Enough(violations)
                    THEN [state EXCEPT !.violations = violations]
                    ELSE [violations |-> Rates!NoBan.violations,
                          why |-> {l \in Rates!Keys : violations[l] # Rates!Nothing},
                          until |-> now + BanDurations[IF level > Len(BanDurations) THEN Len(BanDurations) ELSE level],
                          level |-> IF level > Len(BanDurations) THEN state.level ELSE level]
<1>1. Rates!Violated(state, k) = after
  BY DEF Rates!Violated
<1>a. Rates!Keys = RateKeys
  BY RateNumbers
<1>2. now - BanWindow \in Int /\ state.violations \in [RateKeys -> Counts]
  BY RateNumbers DEF BanRows
<1>3. recent \in [RateKeys -> Counts] /\ \A l \in RateKeys :
        recent[l] = Rates!Since(state.violations[l], now - BanWindow)
  BY <1>2, <1>a, SinceMarked
<1> HIDE DEF recent
<1>4. more \in Counts
  <2>1. recent[k] \in Counts
    BY <1>3
  <2> QED
    BY <2>1, OneMarkMore
<1>5. /\ violations \in [RateKeys -> Counts]
      /\ \A l \in RateKeys : l # k => violations[l] = recent[l]
  <2>1. violations = [recent EXCEPT ![k] = more]
    BY <1>3
  <2> HIDE DEF violations, more
  <2> QED
    BY <1>3, <1>4, <2>1
<1> HIDE DEF violations
<1>6. ASSUME ~Rates!Enough(violations)
      PROVE  /\ after \in BanRows /\ after.violations = violations /\ after.why = state.why
  BY <1>5, <1>6 DEF BanRows
<1>7. ASSUME Rates!Enough(violations)
      PROVE  /\ after \in BanRows /\ after.violations = Rates!NoBan.violations
             /\ after.why = {l \in RateKeys : violations[l] # Rates!Nothing}
  <2> DEFINE n == IF level > Len(BanDurations) THEN Len(BanDurations) ELSE level
             until == now + BanDurations[n]
             later == IF level > Len(BanDurations) THEN state.level ELSE level
  <2>1. Len(BanDurations) \in Nat \ {0} /\ state.level \in 0..Len(BanDurations)
    BY RateNumbers DEF BanRows
  <2>2. n \in 1..Len(BanDurations) /\ later \in 0..Len(BanDurations)
    BY <2>1
  <2>3. until \in Nat
    <3>1. BanDurations[n] \in Nat
      BY <2>2, RateNumbers
    <3> QED
      BY <3>1, RateNumbers
  <2>4. Rates!NoBan.violations \in [RateKeys -> Counts]
    BY EmptyRows DEF BanRows
  <2>5. after = [violations |-> Rates!NoBan.violations,
                 why |-> {l \in RateKeys : violations[l] # Rates!Nothing}, until |-> until, level |-> later]
    BY <1>7, <1>a
  <2> HIDE DEF until, later, n, after
  <2> QED
    BY <2>2, <2>3, <2>4, <2>5 DEF BanRows
<1> HIDE DEF after
<1>8. ASSUME NEW l \in RateKeys, l # k, Clean(state, l)
      PROVE  Clean(after, l)
  <2>1. violations[l] = Rates!Nothing
    BY <1>2, <1>3, <1>5, <1>8, NothingSince DEF Clean
  <2>2. CASE ~Rates!Enough(violations)
    BY <1>6, <1>8, <2>1, <2>2 DEF Clean
  <2>3. CASE Rates!Enough(violations)
    BY <1>7, <1>8, <2>1, <2>3, EmptyRows DEF Clean
  <2> QED
    BY <2>2, <2>3
<1>9. after \in BanRows
  BY <1>6, <1>7
<1> QED
  BY <1>1, <1>8, <1>9

LEMMA BansStep ==
  ASSUME RateTyped, BansScoped, [Rates!Next]_rateVars
  PROVE  ban' \in [RateKeys -> BanRows] /\ BansScoped'
<1>0. ban \in [RateKeys -> BanRows] /\ now \in 1..MaxNow
  BY DEF RateTyped
<1>1. ASSUME NEW r \in Clients, Rates!Violation(r)
      PROVE  ban' \in [RateKeys -> BanRows] /\ BansScoped'
  <2> DEFINE k == Rates!Key(r)
             b == Rates!BanKey(k)
             row == Rates!Violated(ban[b], k)
  <2>1. k \in RateKeys
    BY <1>1, Moved DEF Rates!Violation
  <2>2. b \in RateKeys /\ b = (IF k = "extract" THEN "extract" ELSE "general")
    BY DEF Rates!BanKey, RateKeys
  <2>3. ban' = ban \/ ban' = [ban EXCEPT ![b] = row]
    BY <1>1 DEF Rates!Violation
  <2> HIDE DEF k, b
  <2>4. row \in BanRows /\ \A l \in RateKeys : l # k /\ Clean(ban[b], l) => Clean(row, l)
    BY <1>0, <2>1, <2>2, ViolatedRow
  <2> HIDE DEF row
  <2>5. CASE ban' = ban
    BY <1>0, <2>5 DEF BansScoped, Clean
  <2>6. CASE ban' = [ban EXCEPT ![b] = row]
    <3>1. /\ ban' \in [RateKeys -> BanRows] /\ ban'[b] = row
          /\ \A c \in RateKeys : c # b => ban'[c] = ban[c]
      BY <1>0, <2>2, <2>4, <2>6
    <3>2. CASE k = "extract"
      <4>1. b = "extract" /\ ban'["general"] = ban["general"]
        BY <2>2, <3>1, <3>2 DEF RateKeys
      <4>2. Clean(row, "general") /\ Clean(row, "login")
        BY <2>4, <3>2, <4>1 DEF BansScoped, RateKeys
      <4> QED
        BY <3>1, <4>1, <4>2 DEF BansScoped, Clean
    <3>3. CASE k # "extract"
      <4>1. b = "general" /\ ban'["extract"] = ban["extract"]
        BY <2>2, <3>1, <3>3 DEF RateKeys
      <4>2. Clean(row, "extract")
        BY <2>4, <3>3, <4>1 DEF BansScoped, RateKeys
      <4> QED
        BY <3>1, <4>1, <4>2 DEF BansScoped, Clean
    <3> QED
      BY <3>2, <3>3
  <2> QED
    BY <2>3, <2>5, <2>6
<1>2. CASE Rates!Restart
  <2>1. ban' = [k \in RateKeys |-> Rates!NoBan]
    BY <1>2, RateNumbers DEF Rates!Restart
  <2> QED
    BY <2>1, EmptyRows DEF BansScoped, Clean, RateKeys
<1>3. CASE UNCHANGED ban
  BY <1>0, <1>3 DEF BansScoped, Clean
<1>4. CASE Rates!Tick \/ UNCHANGED rateVars
  BY <1>3, <1>4 DEF Rates!Tick, rateVars
<1>5. ASSUME NEW r \in Clients,
             \/ \E chain \in Chains : Rates!Arrive(r, chain)
             \/ Rates!CheckBan(r) \/ Rates!Increment(r) \/ Rates!SetExpiry(r) \/ Rates!IncrementFails(r)
             \/ Rates!SetExpiryFails(r) \/ Rates!Memory(r)
      PROVE  ban' \in [RateKeys -> BanRows] /\ BansScoped'
  <2>1. UNCHANGED ban
    BY <1>5 DEF Rates!Arrive, Rates!CheckBan, Rates!Increment, Rates!SetExpiry, Rates!IncrementFails,
                Rates!SetExpiryFails, Rates!Memory
  <2> QED
    BY <1>3, <2>1
<1> QED
  BY <1>1, <1>2, <1>4, <1>5 DEF Rates!Next

-----------------------------------------------------------------------------
(* The rate limits: who let a request in *)

\* The requests that a key let in within the window are divided between memories that are
\* gone (D), the memory (M), the window of Redis before (O) and the one that is open (N).  a
\* is what was admitted, h the memory, c the counter, p whether its expiry is still to be set.
CoversOf(a, h, c, p, t, rs, L, D, M, O, N) ==
  /\ Rates!Marks(a) \subseteq D \cup M \cup O \cup N
  /\ IsFiniteSet(D) /\ Cardinality(D) <= rs * L
  /\ IsFiniteSet(O) /\ Cardinality(O) <= L - 1
  /\ IsFiniteSet(N) /\ Cardinality(N) + p <= L /\ Cardinality(N) + p <= c.n
  \* The request that began a window of Redis leaves the count when the next one begins.
  /\ c.until # Rates!Never =>
       /\ p = 0 /\ \E x \in N : x[1] = c.until - Window
       /\ \A x \in O : x[1] <= c.until - Window
  /\ \A x \in O \cup N : x[1] \in 1..t
  /\ \A x \in M : x[1] \in 1..t /\ x[1] > t - Window
  \* The memory still knows whom it let in.
  /\ \E g \in Injection(M, Rates!Marks(h)) : \A x \in M : g[x][1] = x[1]
Covered(a, h, c, p, t, rs, L) == \E D, M, O, N : CoversOf(a, h, c, p, t, rs, L, D, M, O, N)

LEMMA CoverWeaker ==
  ASSUME NEW a, NEW h, NEW c \in Counters, NEW p \in {0, 1}, NEW t \in 1..MaxNow, NEW rs \in Nat,
         NEW L \in Nat \ {0}, Covered(a, h, c, p, t, rs, L),
         NEW d \in Counters, NEW q \in {0, 1}, q <= p, c.n <= d.n, d.until = c.until
  PROVE  Covered(a, h, d, q, t, rs, L)
<1>1. PICK D, M, O, N : CoversOf(a, h, c, p, t, rs, L, D, M, O, N)
  BY DEF Covered
<1>2. Cardinality(N) \in Nat
  BY <1>1, FS_CardinalityType DEF CoversOf
<1>3. Cardinality(N) + q <= L /\ Cardinality(N) + q <= d.n
  BY <1>1, <1>2 DEF CoversOf, Counters
<1>4. CoversOf(a, h, d, q, t, rs, L, D, M, O, N)
  BY <1>1, <1>3 DEF CoversOf
<1> QED
  BY <1>4 DEF Covered

\* One request more in the window of Redis that is open.
LEMMA CoverMore ==
  ASSUME NEW a \in Counts, NEW h, NEW c \in Counters, NEW p \in {0, 1}, NEW t \in 1..MaxNow, NEW rs \in Nat,
         NEW L \in Nat \ {0}, Covered(a, h, c, p, t, rs, L),
         NEW b \in Counts, b = [a EXCEPT ![t] = @ + 1],
         NEW d \in Counters, NEW q \in {0, 1},
         \/ p = q /\ d.n = c.n + 1 /\ d.n <= L /\ d.until = c.until
         \/ p = 1 /\ q = 0 /\ d.n = c.n /\ d.until = t + Window
  PROVE  Covered(b, h, d, q, t, rs, L)
<1>1. PICK D, M, O, N : CoversOf(a, h, c, p, t, rs, L, D, M, O, N)
  BY DEF Covered
<1> DEFINE y == <<t, a[t] + 1>>
           K == N \cup {y}
<1>2. Rates!Marks(b) = Rates!Marks(a) \cup {y} /\ y[1] = t
  BY OneMarkMore
<1> HIDE DEF y
<1>3. IsFiniteSet(N) /\ Cardinality(N) \in Nat /\ Cardinality(N) + p <= L /\ Cardinality(N) + p <= c.n
  BY <1>1, FS_CardinalityType DEF CoversOf
<1>4. IsFiniteSet(K) /\ Cardinality(K) \in Nat /\ Cardinality(K) <= Cardinality(N) + 1
  BY <1>3, CountAdds
<1>5. Cardinality(K) + q <= L /\ Cardinality(K) + q <= d.n
  <2> HIDE DEF K
  <2>1. c.n \in Nat /\ d.n \in Nat
    BY DEF Counters
  <2>2. CASE p = q /\ d.n = c.n + 1 /\ d.n <= L
    BY <1>3, <1>4, <2>1, <2>2
  <2>3. CASE p = 1 /\ q = 0 /\ d.n = c.n
    BY <1>3, <1>4, <2>1, <2>3
  <2> QED
    BY <2>2, <2>3
<1>6. ASSUME d.until # Rates!Never
      PROVE  /\ q = 0 /\ \E x \in K : x[1] = d.until - Window
             /\ \A x \in O : x[1] <= d.until - Window
  <2>1. CASE p = q /\ d.until = c.until
    BY <1>1, <1>6, <2>1 DEF CoversOf
  <2>2. CASE q = 0 /\ d.until = t + Window
    <3>1. d.until - Window = t
      BY <2>2, RateNumbers
    <3>2. \A x \in O : x[1] <= t
      BY <1>1 DEF CoversOf
    <3> QED
      BY <1>2, <2>2, <3>1, <3>2
  <2> QED
    BY <2>1, <2>2
<1>7. (\A x \in O \cup K : x[1] \in 1..t) /\ Rates!Marks(b) \subseteq D \cup M \cup O \cup K
  <2>1. (\A x \in O \cup N : x[1] \in 1..t) /\ Rates!Marks(a) \subseteq D \cup M \cup O \cup N
    BY <1>1 DEF CoversOf
  <2>2. t \in 1..t
    OBVIOUS
  <2> QED
    BY <1>2, <2>1, <2>2
<1>8. CoversOf(b, h, d, q, t, rs, L, D, M, O, K)
  <2> HIDE DEF K
  <2> QED
    BY <1>1, <1>4, <1>5, <1>6, <1>7 DEF CoversOf
<1> QED
  BY <1>8 DEF Covered

\* INCR began a counter; EXPIRE is still to come.
LEMMA CoverFirst ==
  ASSUME NEW a, NEW h, NEW c \in Counters, NEW p \in {0, 1}, NEW t \in 1..MaxNow, NEW rs \in Nat,
         NEW L \in Nat \ {0}, Covered(a, h, c, p, t, rs, L), c.n = 0,
         NEW d \in Counters, d.n = 1, d.until = c.until
  PROVE  p = 0 /\ Covered(a, h, d, 1, t, rs, L)
<1>1. PICK D, M, O, N : CoversOf(a, h, c, p, t, rs, L, D, M, O, N)
  BY DEF Covered
<1>2. Cardinality(N) \in Nat /\ IsFiniteSet(N) /\ Cardinality(N) + p <= 0
  BY <1>1, FS_CardinalityType DEF CoversOf
<1>3. Cardinality(N) = 0 /\ p = 0
  BY <1>2
<1>4. N = {}
  BY <1>2, <1>3, FS_EmptySet
<1>5. c.until = Rates!Never
  BY <1>1, <1>4 DEF CoversOf
<1>6. CoversOf(a, h, d, 1, t, rs, L, D, M, O, N)
  BY <1>1, <1>3, <1>5 DEF CoversOf
<1> QED
  BY <1>3, <1>6 DEF Covered

\* The memory forgets what is older than the window.
LEMMA CoverPurged ==
  ASSUME NEW a, NEW h \in Counts, NEW c, NEW p, NEW t \in 1..MaxNow, NEW rs, NEW L,
         Covered(a, h, c, p, t, rs, L)
  PROVE  Covered(a, Rates!Since(h, t - Window), c, p, t, rs, L)
<1>1. PICK D, M, O, N : CoversOf(a, h, c, p, t, rs, L, D, M, O, N)
  BY DEF Covered
<1>2. PICK g \in Injection(M, Rates!Marks(h)) : \A x \in M : g[x][1] = x[1]
  BY <1>1 DEF CoversOf
<1>3. t - Window \in Int /\ \A x \in M : x[1] > t - Window
  BY <1>1, RateNumbers DEF CoversOf
<1>4. \A x \in M : g[x] \in Rates!Marks(Rates!Since(h, t - Window))
  BY <1>2, <1>3, SinceMarked DEF Injection
<1>5. g \in Injection(M, Rates!Marks(Rates!Since(h, t - Window)))
  BY <1>2, <1>4 DEF Injection
<1>6. CoversOf(a, Rates!Since(h, t - Window), c, p, t, rs, L, D, M, O, N)
  BY <1>1, <1>2, <1>5 DEF CoversOf
<1> QED
  BY <1>6 DEF Covered

\* The memory lets one request more in.
LEMMA CoverRemembered ==
  ASSUME NEW a \in Counts, NEW h \in Counts, NEW c, NEW p, NEW t \in 1..MaxNow, NEW rs, NEW L,
         Covered(a, h, c, p, t, rs, L),
         NEW b, b = [a EXCEPT ![t] = @ + 1], NEW k, k = [h EXCEPT ![t] = @ + 1]
  PROVE  Covered(b, k, c, p, t, rs, L)
<1>1. PICK D, M, O, N : CoversOf(a, h, c, p, t, rs, L, D, M, O, N)
  BY DEF Covered
<1>2. PICK g \in Injection(M, Rates!Marks(h)) : \A x \in M : g[x][1] = x[1]
  BY <1>1 DEF CoversOf
<1> DEFINE y == <<t, a[t] + 1>>
           z == <<t, h[t] + 1>>
           K == M \cup {y}
           f == [x \in K |-> IF x = y THEN z ELSE g[x]]
<1>3. /\ Rates!Marks(b) = Rates!Marks(a) \cup {y} /\ y[1] = t
      /\ Rates!Marks(k) = Rates!Marks(h) \cup {z} /\ z \notin Rates!Marks(h) /\ z[1] = t
  BY OneMarkMore
<1> HIDE DEF y, z
<1>4. /\ f \in [K -> Rates!Marks(k)] /\ f[y] = z
      /\ \A x \in K : x # y => f[x] = g[x] /\ x \in M /\ f[x] \in Rates!Marks(h)
  BY <1>2, <1>3 DEF Injection, IsInjective
<1> HIDE DEF f
<1>5. ASSUME NEW u \in K, NEW v \in K, f[u] = f[v]
      PROVE  u = v
  <2> HIDE DEF K
  <2>1. CASE u = y \/ v = y
    BY <1>3, <1>4, <1>5, <2>1
  <2>2. CASE u # y /\ v # y
    <3>1. u \in M /\ v \in M /\ g[u] = g[v]
      BY <1>4, <1>5, <2>2
    <3> QED
      BY <1>2, <3>1 DEF Injection, IsInjective
  <2> QED
    BY <2>1, <2>2
<1>6. f \in Injection(K, Rates!Marks(k))
  <2> HIDE DEF K
  <2> QED
    BY <1>4, <1>5 DEF Injection, IsInjective
<1>7. \A x \in K : f[x][1] = x[1] /\ x[1] \in 1..t /\ x[1] > t - Window
  <2>1. t \in 1..t /\ t > t - Window
    BY RateNumbers
  <2>2. \A x \in M : x[1] \in 1..t /\ x[1] > t - Window
    BY <1>1 DEF CoversOf
  <2>3. ASSUME NEW x \in K
        PROVE  f[x][1] = x[1] /\ x[1] \in 1..t /\ x[1] > t - Window
    <3>1. CASE x = y
      BY <1>3, <1>4, <2>1, <3>1
    <3>2. CASE x # y
      BY <1>2, <1>4, <2>2, <3>2
    <3> QED
      BY <3>1, <3>2
  <2> QED
    BY <2>3
<1>8. Rates!Marks(b) \subseteq D \cup K \cup O \cup N
  BY <1>1, <1>3 DEF CoversOf
<1>9. CoversOf(b, k, c, p, t, rs, L, D, K, O, N)
  <2> HIDE DEF K
  <2> QED
    BY <1>1, <1>6, <1>7, <1>8 DEF CoversOf
<1> QED
  BY <1>9 DEF Covered

\* A tick: a window of Redis may close, and with its first request one leaves the count.
LEMMA CoverTick ==
  ASSUME NEW a \in Counts, NEW h \in Counts, NEW c \in Counters, NEW p \in {0, 1}, NEW t \in 1..MaxNow,
         NEW rs, NEW L \in Nat \ {0}, Covered(a, h, c, p, t, rs, L), t < MaxNow,
         NEW d, d = IF c.until <= t + 1 THEN Rates!NoCounter ELSE c
  PROVE  Covered(Rates!Since(a, (t + 1) - Window), h, d, p, t + 1, rs, L)
<1> DEFINE b == Rates!Since(a, (t + 1) - Window)
<1>1. PICK D, M, O, N : CoversOf(a, h, c, p, t, rs, L, D, M, O, N)
  BY DEF Covered
<1>2. PICK g \in Injection(M, Rates!Marks(h)) : \A x \in M : g[x][1] = x[1]
  BY <1>1 DEF CoversOf
<1> DEFINE K == {x \in M : x[1] > (t + 1) - Window}
           f == [x \in K |-> g[x]]
<1>a. K \subseteq M
  OBVIOUS
<1>3. f \in Injection(K, Rates!Marks(h)) /\ \A x \in K : f[x][1] = x[1]
  <2> HIDE DEF K
  <2>1. f \in [K -> Rates!Marks(h)] /\ \A x \in K : f[x] = g[x]
    BY <1>2, <1>a DEF Injection, IsInjective
  <2> HIDE DEF f
  <2>2. \A u, v \in K : f[u] = f[v] => u = v
    BY <1>2, <1>a, <2>1 DEF Injection, IsInjective
  <2> QED
    BY <1>2, <1>a, <2>1, <2>2 DEF Injection, IsInjective
<1> HIDE DEF f
<1>4. (t + 1) - Window \in Int /\ Rates!Marks(b) = {x \in Rates!Marks(a) : x[1] > (t + 1) - Window}
  <2>1. (t + 1) - Window \in Int
    BY RateNumbers
  <2> QED
    BY <2>1, SinceMarked
<1>5. \A x \in K : x[1] \in 1..(t + 1) /\ x[1] > (t + 1) - Window
  BY <1>1 DEF CoversOf
<1>6. \A x \in O \cup N : x[1] \in 1..t /\ x[1] \in 1..(t + 1)
  BY <1>1 DEF CoversOf
<1>7. ASSUME NEW x \in Rates!Marks(b)
      PROVE  x \in D \cup K \cup O \cup N /\ x[1] > (t + 1) - Window
  BY <1>1, <1>4, <1>7 DEF CoversOf
<1> HIDE DEF K, b
<1>8. CASE c.until <= t + 1
  <2>1. c.until # Rates!Never /\ d = Rates!NoCounter
    BY <1>8, NeverTyped, RateNumbers
  <2>2. /\ p = 0 /\ \A x \in O : x[1] <= c.until - Window
    BY <1>1, <2>1 DEF CoversOf
  <2>3. PICK y \in N : y[1] = c.until - Window
    BY <1>1, <2>1 DEF CoversOf
  <2>4. c.until - Window <= (t + 1) - Window /\ c.until \in Int /\ Window \in Int
    BY <1>8, RateNumbers, NeverTyped DEF Counters
  <2> DEFINE P == N \ {y}
  <2>5. IsFiniteSet(P) /\ Cardinality(P) \in Nat /\ Cardinality(P) + 1 <= Cardinality(N)
    BY <1>1, <2>3, CountDrops DEF CoversOf
  <2>6. Cardinality(N) \in Nat /\ Cardinality(N) <= L
    BY <1>1, <2>2, FS_CardinalityType DEF CoversOf
  <2>7. Cardinality(P) <= L - 1
    <3> HIDE DEF P
    <3> QED
      BY <2>5, <2>6
  <2>8. Rates!Marks(b) \subseteq D \cup K \cup P \cup {}
    <3> SUFFICES ASSUME NEW x \in Rates!Marks(b)
                 PROVE  x \in D \cup K \cup P
      OBVIOUS
    <3>1. x \in D \cup K \cup O \cup N /\ x[1] > (t + 1) - Window
      BY <1>7
    <3>2. x \notin O
      <4> SUFFICES ASSUME x \in O PROVE FALSE
        OBVIOUS
      <4>1. x[1] <= c.until - Window /\ x[1] \in Int
        BY <1>6, <2>2
      <4> QED
        BY <1>4, <2>4, <3>1, <4>1
    <3>3. x # y
      BY <1>4, <2>3, <2>4, <3>1
    <3> QED
      BY <3>1, <3>2, <3>3
  <2>9. (\A x \in P \cup {} : x[1] \in 1..(t + 1)) /\ IsFiniteSet({}) /\ Cardinality({}) = 0
    BY <1>6, FS_EmptySet
  <2> HIDE DEF P
  <2>10. CoversOf(b, h, d, p, t + 1, rs, L, D, K, P, {})
    <3>1. d.n = 0 /\ d.until = Rates!Never
      BY <2>1, EmptyRows
    <3>2. 0 + p <= L /\ 0 + p <= d.n
      BY <2>2, <3>1
    <3>3. (\A x \in P \cup {} : x[1] \in 1..(t + 1)) /\ IsFiniteSet(D) /\ Cardinality(D) <= rs * L
      BY <1>1, <2>9 DEF CoversOf
    <3>4. \E m \in Injection(K, Rates!Marks(h)) : \A x \in K : m[x][1] = x[1]
      BY <1>3
    <3>5. IsFiniteSet({}) /\ Cardinality({}) + p <= L /\ Cardinality({}) + p <= d.n
      BY <2>9, <3>2
    <3>6. d.until # Rates!Never =>
            /\ p = 0 /\ \E x \in {} : x[1] = d.until - Window
            /\ \A x \in P : x[1] <= d.until - Window
      BY <3>1
    <3>7. IsFiniteSet(P)
      BY <2>5
    <3> QED
      BY <1>5, <2>7, <2>8, <3>3, <3>4, <3>5, <3>6, <3>7, Zenon DEF CoversOf
  <2> QED
    BY <2>10 DEF Covered, b
<1>9. CASE ~(c.until <= t + 1)
  <2>1. CoversOf(b, h, d, p, t + 1, rs, L, D, K, O, N)
    <3>1. d = c
      BY <1>9
    <3>2. Rates!Marks(b) \subseteq D \cup K \cup O \cup N
      BY <1>7
    <3>3. \E m \in Injection(K, Rates!Marks(h)) : \A x \in K : m[x][1] = x[1]
      BY <1>3
    <3>4. \A x \in O \cup N : x[1] \in 1..(t + 1)
      BY <1>6
    <3>5. CoversOf(a, h, c, p, t, rs, L, D, M, O, N)
      BY <1>1
    <3>6. d.until # Rates!Never =>
            /\ p = 0 /\ \E x \in N : x[1] = d.until - Window
            /\ \A x \in O : x[1] <= d.until - Window
      BY <3>1, <3>5, Zenon DEF CoversOf
    <3>7. /\ IsFiniteSet(D) /\ Cardinality(D) <= rs * L
          /\ IsFiniteSet(O) /\ Cardinality(O) <= L - 1
          /\ IsFiniteSet(N) /\ Cardinality(N) + p <= L /\ Cardinality(N) + p <= d.n
      BY <3>1, <3>5, Zenon DEF CoversOf
    <3> QED
      BY <1>5, <3>2, <3>3, <3>4, <3>6, <3>7, Zenon DEF CoversOf
  <2> QED
    BY <2>1 DEF Covered, b
<1> QED
  BY <1>8, <1>9

\* The process is replaced: whom its memory let in belongs to a memory that is gone.
LEMMA CoverRestart ==
  ASSUME NEW a, NEW h \in Counts, NEW c, NEW p \in {0, 1}, NEW t, NEW rs \in Nat,
         NEW L \in Nat \ {0}, Covered(a, h, c, p, t, rs, L), Cardinality(Rates!Marks(h)) <= L,
         c.n \in Nat
  PROVE  Covered(a, Rates!Nothing, c, 0, t, rs + 1, L)
<1>1. PICK D, M, O, N : CoversOf(a, h, c, p, t, rs, L, D, M, O, N)
  BY DEF Covered
<1>2. PICK g \in Injection(M, Rates!Marks(h)) : \A x \in M : g[x][1] = x[1]
  BY <1>1 DEF CoversOf
<1>3. IsFiniteSet(Rates!Marks(h)) /\ Cardinality(Rates!Marks(h)) \in Nat
  BY MarksOf
<1>4. IsFiniteSet(M) /\ Cardinality(M) <= Cardinality(Rates!Marks(h))
  BY <1>2, <1>3, FS_Injection
<1>5. IsFiniteSet(D) /\ Cardinality(D) <= rs * L
  BY <1>1 DEF CoversOf
<1>6. /\ IsFiniteSet(D \cup M) /\ Cardinality(D) \in Nat /\ Cardinality(M) \in Nat
      /\ Cardinality(D \cup M) \in Nat /\ Cardinality(D \cup M) <= Cardinality(D) + Cardinality(M)
  BY <1>4, <1>5, CountUnion
<1>7. (rs + 1) * L = rs * L + L /\ rs * L \in Nat
  OBVIOUS
<1>8. Cardinality(D \cup M) <= (rs + 1) * L
  BY <1>3, <1>4, <1>5, <1>6, <1>7
<1>9. IsFiniteSet(N) /\ Cardinality(N) + 0 <= L /\ Cardinality(N) + 0 <= c.n
  BY <1>1, FS_CardinalityType DEF CoversOf
<1>10. \E f \in Injection({}, Rates!Marks(Rates!Nothing)) : \A x \in {} : f[x][1] = x[1]
  <2>1. [x \in {} |-> x] \in Injection({}, Rates!Marks(Rates!Nothing))
    BY DEF Injection, IsInjective
  <2> QED
    BY <2>1
<1>11. Rates!Marks(a) \subseteq (D \cup M) \cup {} \cup O \cup N
  BY <1>1 DEF CoversOf
<1> DEFINE K == D \cup M
<1>12. CoversOf(a, Rates!Nothing, c, 0, t, rs + 1, L, K, {}, O, N)
  <2>1. Rates!Marks(a) \subseteq K \cup {} \cup O \cup N /\ IsFiniteSet(K) /\ Cardinality(K) <= (rs + 1) * L
    BY <1>6, <1>8, <1>11
  <2> HIDE DEF K
  <2> QED
    BY <1>1, <1>9, <1>10, <2>1 DEF CoversOf
<1> QED
  BY <1>12 DEF Covered

\* What the four parts hold together.
LEMMA CoverBound ==
  ASSUME NEW a \in Counts, NEW h \in Counts, NEW c, NEW p \in {0, 1}, NEW t \in 1..MaxNow, NEW rs \in Nat,
         NEW L \in Nat \ {0}, Covered(a, h, c, p, t, rs, L), Cardinality(Rates!Marks(h)) <= L
  PROVE  Cardinality(Rates!Marks(Rates!Since(a, t - Window))) < (3 + rs) * L
<1>1. PICK D, M, O, N : CoversOf(a, h, c, p, t, rs, L, D, M, O, N)
  BY DEF Covered
<1>2. PICK g \in Injection(M, Rates!Marks(h)) : \A x \in M : g[x][1] = x[1]
  BY <1>1 DEF CoversOf
<1>3. IsFiniteSet(Rates!Marks(h)) /\ Cardinality(Rates!Marks(h)) \in Nat
  BY MarksOf
<1>4. IsFiniteSet(M) /\ Cardinality(M) <= Cardinality(Rates!Marks(h))
  BY <1>2, <1>3, FS_Injection
<1>5. /\ IsFiniteSet(D) /\ Cardinality(D) <= rs * L /\ IsFiniteSet(O) /\ Cardinality(O) <= L - 1
      /\ IsFiniteSet(N) /\ Cardinality(N) + p <= L
  BY <1>1 DEF CoversOf
<1>6. /\ IsFiniteSet(D \cup M) /\ Cardinality(D) \in Nat /\ Cardinality(M) \in Nat
      /\ Cardinality(D \cup M) \in Nat /\ Cardinality(D \cup M) <= Cardinality(D) + Cardinality(M)
  BY <1>4, <1>5, CountUnion
<1>7. /\ IsFiniteSet(O \cup N) /\ Cardinality(O) \in Nat /\ Cardinality(N) \in Nat
      /\ Cardinality(O \cup N) \in Nat /\ Cardinality(O \cup N) <= Cardinality(O) + Cardinality(N)
  BY <1>5, CountUnion
<1> DEFINE B == D \cup M
           C == O \cup N
<1>8. /\ IsFiniteSet(B \cup C) /\ Cardinality(B \cup C) \in Nat
      /\ Cardinality(B \cup C) <= Cardinality(B) + Cardinality(C)
  BY <1>6, <1>7, CountUnion
<1>9. Rates!Marks(Rates!Since(a, t - Window)) \subseteq B \cup C
  <2>1. t - Window \in Int
    BY RateNumbers
  <2>2. Rates!Marks(Rates!Since(a, t - Window)) \subseteq Rates!Marks(a)
    BY <2>1, SinceMarked
  <2> QED
    BY <1>1, <2>2 DEF CoversOf
<1>10. /\ Cardinality(Rates!Marks(Rates!Since(a, t - Window))) \in Nat
       /\ Cardinality(Rates!Marks(Rates!Since(a, t - Window))) <= Cardinality(B \cup C)
  BY <1>8, <1>9, CountGrows
<1>11. (3 + rs) * L = rs * L + 3 * L /\ rs * L \in Nat
  OBVIOUS
<1>12. Cardinality(B) <= rs * L + L /\ Cardinality(C) <= L + L - 1
  BY <1>3, <1>4, <1>5, <1>6, <1>7, <1>11
<1>13. Cardinality(B) \in Nat /\ Cardinality(C) \in Nat
  BY <1>6, <1>7
<1> HIDE DEF B, C
<1> QED
  BY <1>8, <1>10, <1>11, <1>12, <1>13

-----------------------------------------------------------------------------
(* The rate limits: every step *)

\* A counter of the key whose expiry is still to be set, and by one request only.
PendingOf(rows, k) == IF \E r \in Clients : rows[r].pc = "expire" /\ Head(rows[r].chain) = k THEN 1 ELSE 0
Single(rows) ==
  \A q, r \in Clients :
    rows[q].pc = "expire" /\ rows[r].pc = "expire" /\ Head(rows[q].chain) = Head(rows[r].chain) => q = r

RateInv ==
  /\ RateTyped /\ BansScoped /\ Single(arriving)
  /\ \A k \in RateKeys :
       /\ Cardinality(Rates!Marks(hits[k])) <= KeyLimit[k]
       /\ Covered(admitted[k], hits[k], counter[k], PendingOf(arriving, k), now, restarts, KeyLimit[k])

LEMMA PendingStays ==
  ASSUME NEW rows, NEW after, NEW r \in Clients, \A q \in Clients : q # r => after[q] = rows[q],
         Single(rows), rows[r].pc # "expire", after[r].pc # "expire"
  PROVE  Single(after) /\ \A k \in RateKeys : PendingOf(after, k) = PendingOf(rows, k)
  BY DEF Single, PendingOf

LEMMA PendingEnds ==
  ASSUME NEW rows, NEW after, NEW r \in Clients, \A q \in Clients : q # r => after[q] = rows[q],
         Single(rows), NEW key, key = Head(rows[r].chain), rows[r].pc = "expire", after[r].pc # "expire"
  PROVE  /\ Single(after) /\ PendingOf(rows, key) = 1 /\ PendingOf(after, key) = 0
         /\ \A k \in RateKeys : k # key => PendingOf(after, k) = PendingOf(rows, k)
<1>1. Single(after) /\ PendingOf(rows, key) = 1
  BY DEF Single, PendingOf
<1>2. PendingOf(after, key) = 0
  BY DEF Single, PendingOf
<1>3. ASSUME NEW k \in RateKeys, k # key
      PROVE  PendingOf(after, k) = PendingOf(rows, k)
  BY <1>3 DEF PendingOf
<1> QED
  BY <1>1, <1>2, <1>3

LEMMA PendingBegins ==
  ASSUME NEW rows, NEW after, NEW r \in Clients, \A q \in Clients : q # r => after[q] = rows[q],
         Single(rows), NEW key, key = Head(rows[r].chain), rows[r].pc # "expire",
         after[r].pc = "expire", after[r].chain = rows[r].chain, PendingOf(rows, key) = 0
  PROVE  /\ Single(after) /\ PendingOf(after, key) = 1
         /\ \A k \in RateKeys : k # key => PendingOf(after, k) = PendingOf(rows, k)
<1>1. \A q \in Clients : ~(rows[q].pc = "expire" /\ Head(rows[q].chain) = key)
  BY DEF PendingOf
<1>2. Single(after)
  BY <1>1 DEF Single
<1>3. PendingOf(after, key) = 1
  BY DEF PendingOf
<1>4. ASSUME NEW k \in RateKeys, k # key
      PROVE  PendingOf(after, k) = PendingOf(rows, k)
  BY <1>4 DEF PendingOf
<1> QED
  BY <1>2, <1>3, <1>4

LEMMA PendingTyped == \A rows, k : PendingOf(rows, k) \in {0, 1}
  BY DEF PendingOf

\* A request steps and touches one key at most.
LEMMA OneKeyMoves ==
  ASSUME RateInv, [Rates!Next]_rateVars, NEW key \in RateKeys, now' = now, restarts' = restarts,
         counter' \in [RateKeys -> Counters], hits' \in [RateKeys -> Counts], admitted' \in [RateKeys -> Counts],
         arriving' \in [Clients -> ArrivingRows],
         \A q \in Clients : arriving'[q].pc # "idle" => arriving'[q].chain # << >>,
         Single(arriving'),
         \A k \in RateKeys : k # key =>
           /\ counter'[k] = counter[k] /\ hits'[k] = hits[k] /\ admitted'[k] = admitted[k]
           /\ PendingOf(arriving', k) = PendingOf(arriving, k),
         Cardinality(Rates!Marks(hits'[key])) <= KeyLimit[key],
         Covered(admitted'[key], hits'[key], counter'[key], PendingOf(arriving', key), now, restarts, KeyLimit[key])
  PROVE  RateInv'
<1>1. ban' \in [RateKeys -> BanRows] /\ BansScoped'
  BY BansStep DEF RateInv
<1>2. RateTyped'
  BY <1>1 DEF RateInv, RateTyped
<1>3. ASSUME NEW k \in RateKeys
      PROVE  /\ Cardinality(Rates!Marks(hits'[k])) <= KeyLimit[k]
             /\ Covered(admitted'[k], hits'[k], counter'[k], PendingOf(arriving', k), now', restarts', KeyLimit[k])
  <2>1. CASE k = key
    BY <2>1
  <2>2. CASE k # key
    BY <2>2 DEF RateInv
  <2> QED
    BY <2>1, <2>2
<1> QED
  BY <1>1, <1>2, <1>3 DEF RateInv

\* The rows after a step of one request.
LEMMA RowsMoved ==
  ASSUME RateTyped, NEW r \in Clients, arriving[r].pc # "idle",
         \/ \E pc \in {"count", "expire", "memory", "violation"} : Rates!Goto(r, pc)
         \/ Rates!Refuse(r) \/ Rates!Admit(r)
  PROVE  /\ arriving' \in [Clients -> ArrivingRows]
         /\ \A q \in Clients : arriving'[q].pc # "idle" => arriving'[q].chain # << >>
         /\ \A q \in Clients : q # r => arriving'[q] = arriving[q]
         /\ arriving'[r].pc = "expire" => Rates!Goto(r, "expire")
<1>1. ASSUME NEW pc \in {"count", "expire", "memory", "violation"}, Rates!Goto(r, pc)
      PROVE  /\ arriving' \in [Clients -> ArrivingRows] /\ arriving'[r].pc = pc
             /\ \A q \in Clients : arriving'[q].pc # "idle" => arriving'[q].chain # << >>
             /\ \A q \in Clients : q # r => arriving'[q] = arriving[q]
             /\ arriving'[r].pc = "expire" => Rates!Goto(r, "expire")
  <2>1. /\ arriving' \in [Clients -> ArrivingRows] /\ arriving'[r].pc = pc
        /\ arriving'[r].chain = arriving[r].chain
        /\ \A q \in Clients : q # r => arriving'[q] = arriving[q]
    BY <1>1, Moved
  <2> QED
    BY <1>1, <2>1 DEF RateTyped
<1>2. CASE Rates!Refuse(r)
  <2>1. /\ arriving' \in [Clients -> ArrivingRows] /\ arriving'[r].pc = "idle"
        /\ \A q \in Clients : q # r => arriving'[q] = arriving[q]
    BY <1>2, Moved
  <2> QED
    BY <2>1 DEF RateTyped
<1>3. CASE Rates!Admit(r)
  <2>1. /\ arriving' \in [Clients -> ArrivingRows] /\ arriving'[r].pc \in {"idle", "banned"}
        /\ arriving'[r].pc # "idle" => arriving'[r].chain # << >>
        /\ \A q \in Clients : q # r => arriving'[q] = arriving[q]
    BY <1>3, Moved
  <2> QED
    BY <2>1 DEF RateTyped
<1> QED
  BY <1>1, <1>2, <1>3

\* What a request that is let in adds to its key.
LEMMA AdmittedOneMore ==
  ASSUME RateTyped, NEW r \in Clients, arriving[r].pc # "idle", Rates!Admit(r)
  PROVE  LET key == Rates!Key(r)
         IN  /\ admitted' \in [RateKeys -> Counts] /\ admitted'[key] = [admitted[key] EXCEPT ![now] = @ + 1]
             /\ \A k \in RateKeys : k # key => admitted'[k] = admitted[k]
             /\ arriving'[r].pc # "expire"
<1> DEFINE key == Rates!Key(r)
           more == [admitted[key] EXCEPT ![now] = @ + 1]
<1>1. key \in RateKeys /\ admitted' = [admitted EXCEPT ![key] = more] /\ arriving'[r].pc \in {"idle", "banned"}
  BY Moved
<1>2. admitted \in [RateKeys -> Counts] /\ now \in 1..MaxNow
  BY DEF RateTyped
<1> HIDE DEF key
<1>3. more \in Counts
  <2>1. admitted[key] \in Counts
    BY <1>1, <1>2
  <2> QED
    BY <1>2, <2>1, OneMarkMore
<1> HIDE DEF more
<1>4. /\ admitted' \in [RateKeys -> Counts] /\ admitted'[key] = more
      /\ \A k \in RateKeys : k # key => admitted'[k] = admitted[k]
  BY <1>1, <1>2, <1>3
<1> QED
  BY <1>1, <1>4 DEF key, more

LEMMA KeyFacts ==
  ASSUME RateInv, NEW key \in RateKeys
  PROVE  /\ now \in 1..MaxNow /\ restarts \in Nat /\ counter[key] \in Counters
         /\ hits[key] \in Counts /\ admitted[key] \in Counts /\ KeyLimit[key] \in Nat \ {0}
         /\ Cardinality(Rates!Marks(hits[key])) <= KeyLimit[key]
         /\ Covered(admitted[key], hits[key], counter[key], PendingOf(arriving, key), now, restarts, KeyLimit[key])
         /\ PendingOf(arriving, key) \in {0, 1}
<1>1. KeyLimit[key] \in Nat \ {0}
  BY RateNumbers
<1> QED
  BY <1>1, PendingTyped, RateNumbers DEF RateInv, RateTyped

LEMMA RateIncrement ==
  ASSUME RateInv, [Rates!Next]_rateVars, NEW r \in Clients, Rates!Increment(r)
  PROVE  RateInv'
<1> DEFINE key == Rates!Key(r)
           n == counter[key].n + 1
           c == [counter[key] EXCEPT !.n = n]
<1>1. /\ arriving[r].pc = "count" /\ counter' = [counter EXCEPT ![key].n = n]
      /\ UNCHANGED <<now, hits, ban, restarts>>
      /\ \/ n = 1 /\ Rates!Goto(r, "expire") /\ UNCHANGED admitted
         \/ n # 1 /\ Rates!Allowed(key, n) /\ Rates!Admit(r)
         \/ n # 1 /\ ~Rates!Allowed(key, n) /\ Rates!Goto(r, "violation") /\ UNCHANGED admitted
  BY DEF Rates!Increment
<1>2. RateTyped /\ key \in RateKeys /\ key = Head(arriving[r].chain) /\ Single(arriving)
  BY <1>1, Moved DEF RateInv, Rates!Key
<1>3. /\ counter \in [RateKeys -> Counters] /\ hits \in [RateKeys -> Counts]
      /\ admitted \in [RateKeys -> Counts]
  BY <1>2 DEF RateTyped
<1>a. Rates!Allowed(key, n) <=> n <= KeyLimit[key]
  BY DEF Rates!Allowed
<1> HIDE DEF key
<1>4. /\ n \in Nat /\ c \in Counters /\ c.n = n /\ c.until = counter[key].until
  <2>1. counter[key] \in Counters
    BY <1>2, <1>3
  <2> QED
    BY <2>1 DEF Counters
<1>5. counter' = [counter EXCEPT ![key] = c]
  BY <1>1, <1>2, <1>3
<1>b. counter[key].n \in Nat /\ n = counter[key].n + 1
  BY <1>2, <1>3 DEF Counters
<1> HIDE DEF c, n
<1>6. /\ counter' \in [RateKeys -> Counters] /\ counter'[key] = c
      /\ \A k \in RateKeys : k # key => counter'[k] = counter[k]
  BY <1>2, <1>3, <1>4, <1>5
<1>7. /\ arriving' \in [Clients -> ArrivingRows]
      /\ \A q \in Clients : arriving'[q].pc # "idle" => arriving'[q].chain # << >>
      /\ \A q \in Clients : q # r => arriving'[q] = arriving[q]
  <2>1. arriving[r].pc # "idle" /\ \/ \E pc \in {"count", "expire", "memory", "violation"} : Rates!Goto(r, pc)
                                   \/ Rates!Refuse(r) \/ Rates!Admit(r)
    BY <1>1
  <2> QED
    BY <1>2, <2>1, RowsMoved
<1>8. /\ now \in 1..MaxNow /\ restarts \in Nat /\ counter[key] \in Counters
      /\ hits[key] \in Counts /\ admitted[key] \in Counts /\ KeyLimit[key] \in Nat \ {0}
      /\ Cardinality(Rates!Marks(hits[key])) <= KeyLimit[key]
      /\ Covered(admitted[key], hits[key], counter[key], PendingOf(arriving, key), now, restarts, KeyLimit[key])
      /\ PendingOf(arriving, key) \in {0, 1}
  BY <1>2, KeyFacts
<1>9. CASE n = 1 /\ Rates!Goto(r, "expire") /\ UNCHANGED admitted
  <2>1. counter[key].n = 0
    BY <1>9, <1>b
  <2>2. PendingOf(arriving, key) = 0 /\ Covered(admitted[key], hits[key], c, 1, now, restarts, KeyLimit[key])
    BY <1>4, <1>8, <1>9, <2>1, CoverFirst
  <2>3. arriving'[r].pc = "expire" /\ arriving'[r].chain = arriving[r].chain
    BY <1>1, <1>2, <1>9, Moved
  <2>4. /\ Single(arriving') /\ PendingOf(arriving', key) = 1
        /\ \A k \in RateKeys : k # key => PendingOf(arriving', k) = PendingOf(arriving, k)
    <3>1. arriving[r].pc # "expire" /\ PendingOf(arriving, key) = 0
      BY <1>1, <2>2
    <3> QED
      BY <1>2, <1>7, <2>3, <3>1, PendingBegins
  <2> QED
    <3>1. /\ now' = now /\ restarts' = restarts /\ counter' \in [RateKeys -> Counters]
          /\ hits' \in [RateKeys -> Counts] /\ admitted' \in [RateKeys -> Counts]
      BY <1>1, <1>3, <1>6, <1>9
    <3>2. \A k \in RateKeys : k # key =>
            /\ counter'[k] = counter[k] /\ hits'[k] = hits[k] /\ admitted'[k] = admitted[k]
            /\ PendingOf(arriving', k) = PendingOf(arriving, k)
      BY <1>1, <1>6, <1>9, <2>4
    <3>3. /\ Cardinality(Rates!Marks(hits'[key])) <= KeyLimit[key]
          /\ Covered(admitted'[key], hits'[key], counter'[key], PendingOf(arriving', key), now, restarts, KeyLimit[key])
      BY <1>1, <1>6, <1>8, <1>9, <2>2, <2>4
    <3> QED
      BY <1>2, <1>7, <2>4, <3>1, <3>2, <3>3, OneKeyMoves
<1>10. CASE n # 1 /\ Rates!Allowed(key, n) /\ Rates!Admit(r)
  <2>1. /\ admitted' \in [RateKeys -> Counts] /\ admitted'[key] = [admitted[key] EXCEPT ![now] = @ + 1]
        /\ \A k \in RateKeys : k # key => admitted'[k] = admitted[k]
        /\ arriving'[r].pc # "expire"
    BY <1>1, <1>2, <1>10, AdmittedOneMore DEF key
  <2>2. Single(arriving') /\ \A k \in RateKeys : PendingOf(arriving', k) = PendingOf(arriving, k)
    BY <1>1, <1>2, <1>7, <2>1, PendingStays
  <2>3. admitted'[key] \in Counts /\ c.n = counter[key].n + 1 /\ c.n <= KeyLimit[key]
    BY <1>2, <1>4, <1>a, <1>b, <1>10, <2>1
  <2>4. Covered(admitted'[key], hits[key], c, PendingOf(arriving, key), now, restarts, KeyLimit[key])
    <3> DEFINE p == PendingOf(arriving, key)
               b == admitted'[key]
               L == KeyLimit[key]
    <3>1. /\ now \in 1..MaxNow /\ restarts \in Nat /\ counter[key] \in Counters /\ admitted[key] \in Counts
          /\ L \in Nat \ {0} /\ p \in {0, 1} /\ c \in Counters
          /\ Covered(admitted[key], hits[key], counter[key], p, now, restarts, L)
      BY <1>4, <1>8
    <3>2. /\ b \in Counts /\ b = [admitted[key] EXCEPT ![now] = @ + 1]
          /\ p = p /\ c.n = counter[key].n + 1 /\ c.n <= L /\ c.until = counter[key].until
      BY <1>4, <2>1, <2>3
    <3> HIDE DEF p, b, L
    <3>3. Covered(b, hits[key], c, p, now, restarts, L)
      BY <3>1, <3>2, CoverMore
    <3> QED
      BY <3>3 DEF p, b, L
  <2> QED
    <3>1. /\ now' = now /\ restarts' = restarts /\ counter' \in [RateKeys -> Counters]
          /\ hits' \in [RateKeys -> Counts] /\ admitted' \in [RateKeys -> Counts]
      BY <1>1, <1>3, <1>6, <2>1
    <3>2. \A k \in RateKeys : k # key =>
            /\ counter'[k] = counter[k] /\ hits'[k] = hits[k] /\ admitted'[k] = admitted[k]
            /\ PendingOf(arriving', k) = PendingOf(arriving, k)
      BY <1>1, <1>6, <2>1, <2>2
    <3>3. /\ Cardinality(Rates!Marks(hits'[key])) <= KeyLimit[key]
          /\ Covered(admitted'[key], hits'[key], counter'[key], PendingOf(arriving', key), now, restarts, KeyLimit[key])
      BY <1>1, <1>2, <1>6, <1>8, <2>2, <2>4
    <3> QED
      BY <1>2, <1>7, <2>2, <3>1, <3>2, <3>3, OneKeyMoves
<1>11. CASE Rates!Goto(r, "violation") /\ UNCHANGED admitted
  <2>1. arriving'[r].pc # "expire"
    BY <1>1, <1>2, <1>11, Moved
  <2>2. Single(arriving') /\ \A k \in RateKeys : PendingOf(arriving', k) = PendingOf(arriving, k)
    BY <1>1, <1>2, <1>7, <2>1, PendingStays
  <2>3. Covered(admitted[key], hits[key], c, PendingOf(arriving, key), now, restarts, KeyLimit[key])
    <3>1. counter[key].n <= c.n /\ PendingOf(arriving, key) <= PendingOf(arriving, key)
      BY <1>4, <1>8, <1>b
    <3> QED
      BY <1>4, <1>8, <3>1, CoverWeaker
  <2> QED
    BY <1>1, <1>2, <1>3, <1>6, <1>7, <1>8, <1>11, <2>2, <2>3, OneKeyMoves
<1> QED
  BY <1>1, <1>9, <1>10, <1>11

LEMMA RateSetExpiry ==
  ASSUME RateInv, [Rates!Next]_rateVars, NEW r \in Clients, Rates!SetExpiry(r)
  PROVE  RateInv'
<1> DEFINE key == Rates!Key(r)
           c == [counter[key] EXCEPT !.until = now + Window]
<1>1. /\ arriving[r].pc = "expire" /\ counter' = [counter EXCEPT ![key].until = now + Window]
      /\ UNCHANGED <<now, hits, ban, restarts>> /\ Rates!Admit(r)
  BY DEF Rates!SetExpiry
<1>2. RateTyped /\ key \in RateKeys /\ key = Head(arriving[r].chain) /\ Single(arriving)
  BY <1>1, Moved DEF RateInv, Rates!Key
<1>3. counter \in [RateKeys -> Counters] /\ hits \in [RateKeys -> Counts] /\ now \in 1..MaxNow
  BY <1>2 DEF RateTyped
<1>4. /\ admitted' \in [RateKeys -> Counts] /\ admitted'[key] = [admitted[key] EXCEPT ![now] = @ + 1]
      /\ \A k \in RateKeys : k # key => admitted'[k] = admitted[k]
      /\ arriving'[r].pc # "expire"
  BY <1>1, <1>2, AdmittedOneMore
<1> HIDE DEF key
<1>5. c \in Counters /\ c.n = counter[key].n /\ c.until = now + Window
  <2>1. counter[key] \in Counters
    BY <1>2, <1>3
  <2>2. now + Window \in 1..Rates!Never
    BY <1>3, NeverTyped, RateNumbers
  <2> QED
    BY <2>1, <2>2 DEF Counters
<1>6. counter' = [counter EXCEPT ![key] = c]
  BY <1>1, <1>2, <1>3
<1> HIDE DEF c
<1>7. /\ counter' \in [RateKeys -> Counters] /\ counter'[key] = c
      /\ \A k \in RateKeys : k # key => counter'[k] = counter[k]
  BY <1>2, <1>3, <1>5, <1>6
<1>8. /\ arriving' \in [Clients -> ArrivingRows]
      /\ \A q \in Clients : arriving'[q].pc # "idle" => arriving'[q].chain # << >>
      /\ \A q \in Clients : q # r => arriving'[q] = arriving[q]
  <2>1. arriving[r].pc # "idle"
    BY <1>1
  <2> QED
    BY <1>1, <1>2, <2>1, RowsMoved
<1>9. /\ restarts \in Nat /\ counter[key] \in Counters
      /\ hits[key] \in Counts /\ admitted[key] \in Counts /\ KeyLimit[key] \in Nat \ {0}
      /\ Cardinality(Rates!Marks(hits[key])) <= KeyLimit[key]
      /\ Covered(admitted[key], hits[key], counter[key], PendingOf(arriving, key), now, restarts, KeyLimit[key])
  BY <1>2, KeyFacts
<1>10. /\ Single(arriving') /\ PendingOf(arriving, key) = 1 /\ PendingOf(arriving', key) = 0
       /\ \A k \in RateKeys : k # key => PendingOf(arriving', k) = PendingOf(arriving, k)
  BY <1>1, <1>2, <1>4, <1>8, PendingEnds
<1>11. admitted'[key] \in Counts
  BY <1>2, <1>4
<1>12. Covered(admitted'[key], hits[key], c, 0, now, restarts, KeyLimit[key])
  BY <1>3, <1>4, <1>5, <1>9, <1>10, <1>11, CoverMore
<1> QED
  BY <1>1, <1>2, <1>3, <1>4, <1>7, <1>8, <1>9, <1>10, <1>12, OneKeyMoves

LEMMA RateSetExpiryFails ==
  ASSUME RateInv, [Rates!Next]_rateVars, NEW r \in Clients, Rates!SetExpiryFails(r)
  PROVE  RateInv'
<1> DEFINE key == Rates!Key(r)
<1>1. /\ arriving[r].pc = "expire" /\ Rates!Goto(r, "memory")
      /\ UNCHANGED <<now, counter, hits, ban, restarts, admitted>>
  BY DEF Rates!SetExpiryFails
<1>2. RateTyped /\ key \in RateKeys /\ key = Head(arriving[r].chain) /\ Single(arriving)
  BY <1>1, Moved DEF RateInv, Rates!Key
<1>3. /\ counter \in [RateKeys -> Counters] /\ hits \in [RateKeys -> Counts]
      /\ admitted \in [RateKeys -> Counts]
  BY <1>2 DEF RateTyped
<1>4. arriving'[r].pc # "expire"
  BY <1>1, <1>2, Moved
<1> HIDE DEF key
<1>5. /\ arriving' \in [Clients -> ArrivingRows]
      /\ \A q \in Clients : arriving'[q].pc # "idle" => arriving'[q].chain # << >>
      /\ \A q \in Clients : q # r => arriving'[q] = arriving[q]
  <2>1. arriving[r].pc # "idle"
    BY <1>1
  <2> QED
    BY <1>1, <1>2, <2>1, RowsMoved
<1>6. /\ now \in 1..MaxNow /\ restarts \in Nat /\ counter[key] \in Counters
      /\ hits[key] \in Counts /\ admitted[key] \in Counts /\ KeyLimit[key] \in Nat \ {0}
      /\ Cardinality(Rates!Marks(hits[key])) <= KeyLimit[key]
      /\ Covered(admitted[key], hits[key], counter[key], PendingOf(arriving, key), now, restarts, KeyLimit[key])
  BY <1>2, KeyFacts
<1>7. /\ Single(arriving') /\ PendingOf(arriving, key) = 1 /\ PendingOf(arriving', key) = 0
      /\ \A k \in RateKeys : k # key => PendingOf(arriving', k) = PendingOf(arriving, k)
  BY <1>1, <1>2, <1>4, <1>5, PendingEnds
<1>8. Covered(admitted[key], hits[key], counter[key], 0, now, restarts, KeyLimit[key])
  <2>1. counter[key].n \in Nat /\ counter[key].n <= counter[key].n
    BY <1>6 DEF Counters
  <2> QED
    BY <1>6, <1>7, <2>1, CoverWeaker
<1> QED
  BY <1>1, <1>2, <1>3, <1>5, <1>6, <1>7, <1>8, OneKeyMoves

LEMMA RateIncrementFails ==
  ASSUME RateInv, [Rates!Next]_rateVars, NEW r \in Clients, Rates!IncrementFails(r)
  PROVE  RateInv'
<1> DEFINE key == Rates!Key(r)
           n == counter[key].n + 1
           c == [counter[key] EXCEPT !.n = n]
<1>1. /\ arriving[r].pc = "count" /\ Rates!Goto(r, "memory")
      /\ UNCHANGED <<now, hits, ban, restarts, admitted>>
      /\ counter' = counter \/ counter' = [counter EXCEPT ![key].n = n]
  BY DEF Rates!IncrementFails
<1>2. RateTyped /\ key \in RateKeys /\ key = Head(arriving[r].chain) /\ Single(arriving)
  BY <1>1, Moved DEF RateInv, Rates!Key
<1>3. /\ counter \in [RateKeys -> Counters] /\ hits \in [RateKeys -> Counts]
      /\ admitted \in [RateKeys -> Counts]
  BY <1>2 DEF RateTyped
<1>4. arriving'[r].pc # "expire"
  BY <1>1, <1>2, Moved
<1> HIDE DEF key
<1>5. /\ arriving' \in [Clients -> ArrivingRows]
      /\ \A q \in Clients : arriving'[q].pc # "idle" => arriving'[q].chain # << >>
      /\ \A q \in Clients : q # r => arriving'[q] = arriving[q]
  <2>1. arriving[r].pc # "idle"
    BY <1>1
  <2> QED
    BY <1>1, <1>2, <2>1, RowsMoved
<1>6. /\ now \in 1..MaxNow /\ restarts \in Nat /\ counter[key] \in Counters
      /\ hits[key] \in Counts /\ admitted[key] \in Counts /\ KeyLimit[key] \in Nat \ {0}
      /\ Cardinality(Rates!Marks(hits[key])) <= KeyLimit[key]
      /\ Covered(admitted[key], hits[key], counter[key], PendingOf(arriving, key), now, restarts, KeyLimit[key])
      /\ PendingOf(arriving, key) \in {0, 1}
  BY <1>2, KeyFacts
<1>7. Single(arriving') /\ \A k \in RateKeys : PendingOf(arriving', k) = PendingOf(arriving, k)
  <2>1. arriving[r].pc # "expire"
    BY <1>1
  <2>2. Single(arriving) /\ \A q \in Clients : q # r => arriving'[q] = arriving[q]
    BY <1>2, <1>5
  <2> QED
    BY <1>4, <2>1, <2>2, PendingStays
<1>8. CASE counter' = counter
  BY <1>1, <1>2, <1>3, <1>5, <1>6, <1>7, <1>8, OneKeyMoves
<1>9. CASE counter' = [counter EXCEPT ![key].n = n]
  <2>1. c \in Counters /\ counter[key].n <= c.n /\ c.until = counter[key].until
    BY <1>6 DEF Counters
  <2>2. counter' = [counter EXCEPT ![key] = c]
    BY <1>2, <1>3, <1>9
  <2> HIDE DEF c, n
  <2>3. /\ counter' \in [RateKeys -> Counters] /\ counter'[key] = c
        /\ \A k \in RateKeys : k # key => counter'[k] = counter[k]
    BY <1>2, <1>3, <2>1, <2>2
  <2>4. Covered(admitted[key], hits[key], c, PendingOf(arriving, key), now, restarts, KeyLimit[key])
    <3>1. PendingOf(arriving, key) <= PendingOf(arriving, key)
      BY <1>6
    <3> QED
      BY <1>6, <2>1, <3>1, CoverWeaker
  <2> QED
    BY <1>1, <1>2, <1>3, <1>5, <1>6, <1>7, <2>3, <2>4, OneKeyMoves
<1> QED
  BY <1>1, <1>8, <1>9

LEMMA RateMemory ==
  ASSUME RateInv, [Rates!Next]_rateVars, NEW r \in Clients, Rates!Memory(r)
  PROVE  RateInv'
<1> DEFINE key == Rates!Key(r)
           recent == Rates!Since(hits[key], now - Window)
           more == [recent EXCEPT ![now] = @ + 1]
<1>1. /\ arriving[r].pc = "memory" /\ UNCHANGED <<now, counter, ban, restarts>>
      /\ \/ /\ hits' = [hits EXCEPT ![key] = recent]
            /\ Rates!Goto(r, "violation") /\ UNCHANGED admitted
         \/ /\ ~(Cardinality(Rates!Marks(recent)) >= KeyLimit[key])
            /\ hits' = [hits EXCEPT ![key] = more] /\ Rates!Admit(r)
  BY RateNumbers DEF Rates!Memory, Rates!InWindow
<1>2. RateTyped /\ key \in RateKeys /\ key = Head(arriving[r].chain) /\ Single(arriving)
  BY <1>1, Moved DEF RateInv, Rates!Key
<1>3. /\ counter \in [RateKeys -> Counters] /\ hits \in [RateKeys -> Counts]
      /\ admitted \in [RateKeys -> Counts] /\ now - Window \in Int
  BY <1>2, RateNumbers DEF RateTyped
<1>4. arriving[r].pc # "idle" /\ arriving[r].pc # "expire"
  BY <1>1
<1>5. /\ arriving' \in [Clients -> ArrivingRows]
      /\ \A q \in Clients : arriving'[q].pc # "idle" => arriving'[q].chain # << >>
      /\ \A q \in Clients : q # r => arriving'[q] = arriving[q]
  <2>1. \/ \E pc \in {"count", "expire", "memory", "violation"} : Rates!Goto(r, pc)
        \/ Rates!Refuse(r) \/ Rates!Admit(r)
    BY <1>1
  <2> QED
    BY <1>2, <1>4, <2>1, RowsMoved
<1>a. Rates!Admit(r) =>
        /\ admitted' \in [RateKeys -> Counts] /\ admitted'[key] = [admitted[key] EXCEPT ![now] = @ + 1]
        /\ \A k \in RateKeys : k # key => admitted'[k] = admitted[k]
        /\ arriving'[r].pc # "expire"
  BY <1>2, <1>4, AdmittedOneMore
<1> HIDE DEF key
<1>6. /\ now \in 1..MaxNow /\ restarts \in Nat /\ counter[key] \in Counters
      /\ hits[key] \in Counts /\ admitted[key] \in Counts /\ KeyLimit[key] \in Nat \ {0}
      /\ Cardinality(Rates!Marks(hits[key])) <= KeyLimit[key]
      /\ Covered(admitted[key], hits[key], counter[key], PendingOf(arriving, key), now, restarts, KeyLimit[key])
      /\ PendingOf(arriving, key) \in {0, 1}
  BY <1>2, KeyFacts
<1>7. /\ recent \in Counts /\ Rates!Marks(recent) \subseteq Rates!Marks(hits[key])
      /\ Covered(admitted[key], recent, counter[key], PendingOf(arriving, key), now, restarts, KeyLimit[key])
  <2>1. recent \in Counts /\ Rates!Marks(recent) \subseteq Rates!Marks(hits[key])
    BY <1>3, <1>6, SinceMarked
  <2> QED
    BY <1>6, <2>1, CoverPurged
<1> HIDE DEF recent
<1>8. CASE /\ hits' = [hits EXCEPT ![key] = recent]
           /\ Rates!Goto(r, "violation") /\ UNCHANGED admitted
  <2>1. arriving'[r].pc # "expire"
    BY <1>2, <1>4, <1>8, Moved
  <2>2. Single(arriving') /\ \A k \in RateKeys : PendingOf(arriving', k) = PendingOf(arriving, k)
    BY <1>2, <1>4, <1>5, <2>1, PendingStays
  <2>3. /\ hits' \in [RateKeys -> Counts] /\ hits'[key] = recent
        /\ \A k \in RateKeys : k # key => hits'[k] = hits[k]
    BY <1>2, <1>3, <1>7, <1>8
  <2>4. Cardinality(Rates!Marks(recent)) <= KeyLimit[key]
    <3>1. IsFiniteSet(Rates!Marks(hits[key])) /\ Cardinality(Rates!Marks(hits[key])) \in Nat
      BY <1>6, MarksOf
    <3>2. /\ Cardinality(Rates!Marks(recent)) \in Nat
          /\ Cardinality(Rates!Marks(recent)) <= Cardinality(Rates!Marks(hits[key]))
      BY <1>7, <3>1, CountGrows
    <3> QED
      BY <1>6, <3>1, <3>2
  <2> QED
    BY <1>1, <1>2, <1>3, <1>5, <1>6, <1>7, <1>8, <2>2, <2>3, <2>4, OneKeyMoves
<1>9. CASE /\ ~(Cardinality(Rates!Marks(recent)) >= KeyLimit[key])
           /\ hits' = [hits EXCEPT ![key] = more] /\ Rates!Admit(r)
  <2>1. /\ more \in Counts /\ Rates!Marks(more) = Rates!Marks(recent) \cup {<<now, recent[now] + 1>>}
    BY <1>6, <1>7, OneMarkMore
  <2>2. Cardinality(Rates!Marks(more)) <= KeyLimit[key]
    <3> DEFINE x == <<now, recent[now] + 1>>
    <3>1. IsFiniteSet(Rates!Marks(recent)) /\ Cardinality(Rates!Marks(recent)) \in Nat
      BY <1>7, MarksOf
    <3>2. Rates!Marks(more) \subseteq Rates!Marks(recent) \cup {x}
      BY <2>1
    <3> HIDE DEF x, more
    <3>3. /\ Cardinality(Rates!Marks(more)) \in Nat
          /\ Cardinality(Rates!Marks(more)) <= Cardinality(Rates!Marks(recent)) + 1
      BY <3>1, <3>2, CountAdds
    <3> QED
      BY <1>6, <1>9, <3>1, <3>3
  <2>3. Covered(admitted'[key], more, counter[key], PendingOf(arriving, key), now, restarts, KeyLimit[key])
    BY <1>6, <1>7, <1>9, <1>a, CoverRemembered
  <2> HIDE DEF more
  <2>4. /\ hits' \in [RateKeys -> Counts] /\ hits'[key] = more
        /\ \A k \in RateKeys : k # key => hits'[k] = hits[k]
    BY <1>2, <1>3, <1>9, <2>1
  <2>5. Single(arriving') /\ \A k \in RateKeys : PendingOf(arriving', k) = PendingOf(arriving, k)
    BY <1>2, <1>4, <1>5, <1>9, <1>a, PendingStays
  <2> QED
    <3>1. /\ now' = now /\ restarts' = restarts /\ counter' \in [RateKeys -> Counters]
          /\ hits' \in [RateKeys -> Counts] /\ admitted' \in [RateKeys -> Counts]
      BY <1>1, <1>3, <1>9, <1>a, <2>4
    <3>2. \A k \in RateKeys : k # key =>
            /\ counter'[k] = counter[k] /\ hits'[k] = hits[k] /\ admitted'[k] = admitted[k]
            /\ PendingOf(arriving', k) = PendingOf(arriving, k)
      BY <1>1, <1>9, <1>a, <2>4, <2>5
    <3>3. /\ Cardinality(Rates!Marks(hits'[key])) <= KeyLimit[key]
          /\ Covered(admitted'[key], hits'[key], counter'[key], PendingOf(arriving', key), now, restarts, KeyLimit[key])
      BY <1>1, <1>2, <1>6, <2>2, <2>3, <2>4, <2>5
    <3> QED
      BY <1>2, <1>5, <2>5, <3>1, <3>2, <3>3, OneKeyMoves
<1> QED
  BY <1>1, <1>8, <1>9

\* Steps of a request that no counter and no memory notices.
LEMMA RateUnnoticed ==
  ASSUME RateInv, [Rates!Next]_rateVars, NEW r \in Clients,
         UNCHANGED <<now, counter, hits, restarts, admitted>>,
         arriving' \in [Clients -> ArrivingRows],
         \A q \in Clients : arriving'[q].pc # "idle" => arriving'[q].chain # << >>,
         \A q \in Clients : q # r => arriving'[q] = arriving[q],
         arriving[r].pc # "expire", arriving'[r].pc # "expire"
  PROVE  RateInv'
<1>1. /\ counter \in [RateKeys -> Counters] /\ hits \in [RateKeys -> Counts]
      /\ admitted \in [RateKeys -> Counts] /\ Single(arriving)
  BY DEF RateInv, RateTyped
<1>2. Single(arriving') /\ \A k \in RateKeys : PendingOf(arriving', k) = PendingOf(arriving, k)
  <2> DEFINE rows == arriving
             after == arriving'
  <2>1. /\ \A q \in Clients : q # r => after[q] = rows[q]
        /\ Single(rows) /\ rows[r].pc # "expire" /\ after[r].pc # "expire"
    BY <1>1
  <2> HIDE DEF rows, after
  <2>2. Single(after)
    BY <2>1, PendingStays
  <2>3. ASSUME NEW k \in RateKeys
        PROVE  PendingOf(after, k) = PendingOf(rows, k)
    BY <2>1 DEF PendingOf
  <2> QED
    BY <2>2, <2>3 DEF rows, after
<1>3. PICK key \in RateKeys : key = "general"
  BY DEF RateKeys
<1>4. /\ Cardinality(Rates!Marks(hits[key])) <= KeyLimit[key]
      /\ Covered(admitted[key], hits[key], counter[key], PendingOf(arriving, key), now, restarts, KeyLimit[key])
  BY KeyFacts
<1> QED
  BY <1>1, <1>2, <1>4, OneKeyMoves

LEMMA RateArrive ==
  ASSUME RateInv, [Rates!Next]_rateVars, NEW r \in Clients, NEW chain \in Chains, Rates!Arrive(r, chain)
  PROVE  RateInv'
<1> DEFINE row == [pc |-> "banned", chain |-> chain]
<1>1. /\ arriving[r].pc = "idle" /\ arriving' = [arriving EXCEPT ![r] = row]
      /\ UNCHANGED <<now, counter, hits, restarts, admitted>>
  BY DEF Rates!Arrive
<1>2. row \in ArrivingRows /\ row.pc = "banned" /\ row.chain # << >>
  <2>1. chain \in {<<"general">>, <<"general", "extract">>, <<"login">>}
    BY RateNumbers
  <2>2. chain \in Rests /\ Len(chain) # 0
    BY <2>1 DEF Rests
  <2>3. chain # << >>
    BY <2>2
  <2> QED
    BY <2>2, <2>3 DEF ArrivingRows
<1> HIDE DEF row
<1>3. /\ arriving \in [Clients -> ArrivingRows]
      /\ \A q \in Clients : arriving[q].pc # "idle" => arriving[q].chain # << >>
  BY DEF RateInv, RateTyped
<1>4. /\ arriving' \in [Clients -> ArrivingRows] /\ arriving'[r] = row
      /\ \A q \in Clients : q # r => arriving'[q] = arriving[q]
  BY <1>1, <1>2, <1>3
<1>5. \A q \in Clients : arriving'[q].pc # "idle" => arriving'[q].chain # << >>
  BY <1>2, <1>3, <1>4
<1>6. arriving[r].pc # "expire" /\ arriving'[r].pc # "expire"
  BY <1>1, <1>2, <1>4
<1> QED
  BY <1>1, <1>4, <1>5, <1>6, RateUnnoticed

LEMMA RateCheckBan ==
  ASSUME RateInv, [Rates!Next]_rateVars, NEW r \in Clients, Rates!CheckBan(r) \/ Rates!Violation(r)
  PROVE  RateInv'
<1>1. /\ arriving[r].pc \in {"banned", "violation"} /\ UNCHANGED <<now, counter, hits, restarts, admitted>>
      /\ Rates!Refuse(r) \/ Rates!Goto(r, "count")
  BY DEF Rates!CheckBan, Rates!Violation
<1>2. RateTyped /\ arriving[r].pc # "idle" /\ arriving[r].pc # "expire"
  BY <1>1 DEF RateInv
<1>3. /\ arriving' \in [Clients -> ArrivingRows]
      /\ \A q \in Clients : arriving'[q].pc # "idle" => arriving'[q].chain # << >>
      /\ \A q \in Clients : q # r => arriving'[q] = arriving[q]
  BY <1>1, <1>2, RowsMoved
<1>4. arriving'[r].pc # "expire"
  BY <1>1, <1>2, Moved
<1> QED
  BY <1>1, <1>2, <1>3, <1>4, RateUnnoticed

LEMMA RateTick ==
  ASSUME RateInv, [Rates!Next]_rateVars, Rates!Tick
  PROVE  RateInv'
<1> DEFINE c(k) == IF counter[k].until <= now + 1 THEN Rates!NoCounter ELSE counter[k]
           a(k) == Rates!Since(admitted[k], (now + 1) - Window)
<1>1. /\ now < MaxNow /\ now' = now + 1 /\ UNCHANGED <<hits, ban, arriving, restarts>>
      /\ counter' = [k \in RateKeys |-> c(k)]
      /\ admitted' = [k \in RateKeys |-> Rates!Since(admitted[k], now + 1 - Window)]
  BY RateNumbers DEF Rates!Tick
<1>2. RateTyped /\ now \in 1..MaxNow /\ Single(arriving)
  BY DEF RateInv, RateTyped
<1>3. now + 1 - Window = (now + 1) - Window /\ (now + 1) - Window \in Int /\ now + 1 \in 1..MaxNow
  BY <1>1, <1>2, RateNumbers
<1>4. admitted' = [k \in RateKeys |-> a(k)]
  BY <1>1, <1>3
<1>5. ASSUME NEW k \in RateKeys
      PROVE  c(k) \in Counters /\ a(k) \in Counts
  <2>1. counter[k] \in Counters /\ admitted[k] \in Counts
    BY KeyFacts
  <2> QED
    BY <1>3, <2>1, EmptyRows, SinceMarked
<1>6. ASSUME NEW k \in RateKeys
      PROVE  Covered(a(k), hits[k], c(k), PendingOf(arriving, k), now + 1, restarts, KeyLimit[k])
  BY <1>1, KeyFacts, CoverTick
<1> HIDE DEF c, a
<1>7. counter' \in [RateKeys -> Counters] /\ admitted' \in [RateKeys -> Counts]
  BY <1>1, <1>4, <1>5
<1>8. ban' \in [RateKeys -> BanRows] /\ BansScoped'
  BY BansStep DEF RateInv
<1>9. RateTyped'
  BY <1>1, <1>2, <1>3, <1>7, <1>8 DEF RateTyped
<1>10. ASSUME NEW k \in RateKeys
       PROVE  /\ Cardinality(Rates!Marks(hits'[k])) <= KeyLimit[k]
              /\ Covered(admitted'[k], hits'[k], counter'[k], PendingOf(arriving', k), now', restarts', KeyLimit[k])
  <2>1. Cardinality(Rates!Marks(hits[k])) <= KeyLimit[k]
    BY KeyFacts
  <2>2. admitted'[k] = a(k) /\ counter'[k] = c(k)
    BY <1>1, <1>4
  <2> QED
    BY <1>1, <1>6, <2>1, <2>2
<1>11. Single(arriving')
  BY <1>1, <1>2
<1> QED
  BY <1>8, <1>9, <1>10, <1>11 DEF RateInv

LEMMA NoneIsPending ==
  ASSUME NEW rows, rows = [r \in Clients |-> Rates!Idle]
  PROVE  Single(rows) /\ \A k : PendingOf(rows, k) = 0
<1>1. \A r \in Clients : rows[r].pc = "idle"
  BY ArrivingIdle
<1> QED
  BY <1>1 DEF Single, PendingOf

LEMMA RateRestart ==
  ASSUME RateInv, [Rates!Next]_rateVars, Rates!Restart
  PROVE  RateInv'
<1>1. /\ restarts < MaxRestarts /\ restarts' = restarts + 1 /\ UNCHANGED <<now, counter, admitted>>
      /\ hits' = [k \in RateKeys |-> Rates!Nothing] /\ arriving' = [r \in Clients |-> Rates!Idle]
  BY RateNumbers DEF Rates!Restart
<1>2. RateTyped /\ restarts \in 0..MaxRestarts
  BY DEF RateInv, RateTyped
<1>3. restarts + 1 \in 0..MaxRestarts
  BY <1>1, <1>2, RateNumbers
<1>4. ban' \in [RateKeys -> BanRows] /\ BansScoped'
  BY BansStep DEF RateInv
<1>5. hits' \in [RateKeys -> Counts] /\ \A k \in RateKeys : hits'[k] = Rates!Nothing
  BY <1>1, NothingMarked
<1>6. Single(arriving') /\ \A k : PendingOf(arriving', k) = 0
  BY <1>1, NoneIsPending
<1>7. /\ arriving' \in [Clients -> ArrivingRows]
      /\ \A q \in Clients : arriving'[q].pc # "idle" => arriving'[q].chain # << >>
  BY <1>1, ArrivingIdle
<1>8. RateTyped'
  BY <1>1, <1>2, <1>3, <1>4, <1>5, <1>7 DEF RateTyped
<1>9. ASSUME NEW k \in RateKeys
      PROVE  /\ Cardinality(Rates!Marks(hits'[k])) <= KeyLimit[k]
             /\ Covered(admitted'[k], hits'[k], counter'[k], PendingOf(arriving', k), now', restarts', KeyLimit[k])
  <2>1. /\ KeyLimit[k] \in Nat \ {0} /\ counter[k] \in Counters /\ restarts \in Nat /\ hits[k] \in Counts
        /\ Cardinality(Rates!Marks(hits[k])) <= KeyLimit[k] /\ PendingOf(arriving, k) \in {0, 1}
        /\ Covered(admitted[k], hits[k], counter[k], PendingOf(arriving, k), now, restarts, KeyLimit[k])
    BY KeyFacts
  <2>2. Cardinality(Rates!Marks(Rates!Nothing)) <= KeyLimit[k]
    BY <2>1, NothingMarked, FS_EmptySet
  <2>3. counter[k].n \in Nat
    BY <2>1 DEF Counters
  <2>4. Covered(admitted[k], Rates!Nothing, counter[k], 0, now, restarts + 1, KeyLimit[k])
    BY <2>1, <2>3, CoverRestart
  <2> QED
    BY <1>1, <1>5, <1>6, <2>2, <2>4
<1> QED
  BY <1>4, <1>6, <1>8, <1>9 DEF RateInv

LEMMA RateStep == RateInv /\ [Rates!Next]_rateVars => RateInv'
<1> SUFFICES ASSUME RateInv, [Rates!Next]_rateVars
             PROVE  RateInv'
  OBVIOUS
<1>1. CASE Rates!Next
  <2>1. ASSUME NEW r \in Clients,
               \/ \E chain \in Chains : Rates!Arrive(r, chain)
               \/ Rates!CheckBan(r) \/ Rates!Increment(r) \/ Rates!SetExpiry(r) \/ Rates!IncrementFails(r)
               \/ Rates!SetExpiryFails(r) \/ Rates!Memory(r) \/ Rates!Violation(r)
        PROVE  RateInv'
    BY <2>1, RateArrive, RateCheckBan, RateIncrement, RateSetExpiry, RateIncrementFails,
       RateSetExpiryFails, RateMemory
  <2>2. CASE Rates!Tick \/ Rates!Restart
    BY <2>2, RateTick, RateRestart
  <2> QED
    BY <1>1, <2>1, <2>2 DEF Rates!Next
<1>2. CASE UNCHANGED rateVars
  BY <1>2 DEF RateInv, RateTyped, BansScoped, rateVars
<1> QED
  BY <1>1, <1>2

LEMMA RateInit == Rates!Init => RateInv
<1> SUFFICES ASSUME Rates!Init PROVE RateInv
  OBVIOUS
<1>1. /\ now = 1 /\ restarts = 0 /\ counter = [k \in RateKeys |-> Rates!NoCounter]
      /\ hits = [k \in RateKeys |-> Rates!Nothing] /\ ban = [k \in RateKeys |-> Rates!NoBan]
      /\ arriving = [r \in Clients |-> Rates!Idle] /\ admitted = [k \in RateKeys |-> Rates!Nothing]
  BY RateNumbers DEF Rates!Init
<1>2. Single(arriving) /\ \A k : PendingOf(arriving, k) = 0
  BY <1>1, NoneIsPending
<1>3. RateTyped
  <2>1. now \in 1..MaxNow /\ restarts \in 0..MaxRestarts
    BY <1>1, RateNumbers
  <2>2. /\ arriving \in [Clients -> ArrivingRows]
        /\ \A r \in Clients : arriving[r].pc # "idle" => arriving[r].chain # << >>
    BY <1>1, ArrivingIdle
  <2> QED
    BY <1>1, <2>1, <2>2, EmptyRows, NothingMarked DEF RateTyped
<1>4. BansScoped
  BY <1>1, EmptyRows DEF BansScoped, Clean, RateKeys
<1>5. ASSUME NEW k \in RateKeys
      PROVE  /\ Cardinality(Rates!Marks(hits[k])) <= KeyLimit[k]
             /\ Covered(admitted[k], hits[k], counter[k], PendingOf(arriving, k), now, restarts, KeyLimit[k])
  <2>1. /\ admitted[k] = Rates!Nothing /\ hits[k] = Rates!Nothing /\ counter[k] = Rates!NoCounter
        /\ KeyLimit[k] \in Nat \ {0}
    BY <1>1, RateNumbers
  <2>2. IsFiniteSet({}) /\ Cardinality({}) = 0 /\ Rates!Marks(Rates!Nothing) = {}
    BY FS_EmptySet, NothingMarked
  <2>3. \E m \in Injection({}, Rates!Marks(hits[k])) : \A x \in {} : m[x][1] = x[1]
    <3>1. [x \in {} |-> x] \in Injection({}, Rates!Marks(hits[k]))
      BY DEF Injection, IsInjective
    <3> QED
      BY <3>1
  <2>4. /\ 0 <= restarts * KeyLimit[k] /\ 0 <= KeyLimit[k] - 1
        /\ 0 + 0 <= KeyLimit[k] /\ 0 + 0 <= counter[k].n
    BY <1>1, <2>1, EmptyRows
  <2>5. counter[k].until = Rates!Never
    BY <2>1, EmptyRows
  <2>6. CoversOf(admitted[k], hits[k], counter[k], 0, now, restarts, KeyLimit[k], {}, {}, {}, {})
    BY <2>1, <2>2, <2>3, <2>4, <2>5 DEF CoversOf
  <2>7. Covered(admitted[k], hits[k], counter[k], 0, now, restarts, KeyLimit[k])
    BY <2>6 DEF Covered
  <2> QED
    BY <1>2, <2>1, <2>2, <2>7
<1> QED
  BY <1>2, <1>3, <1>4, <1>5 DEF RateInv

\* The inductive invariant of the rate limits: whom a key let in within the window is divided
\* between the windows of Redis, the memory of the process and the memories that are gone.
THEOREM RateInvariance == Rates!Spec => []RateInv
<1>1. Rates!Init => RateInv
  BY RateInit
<1>2. RateInv /\ [Rates!Next]_Rates!vars => RateInv'
  BY RateStep DEF Rates!vars, rateVars
<1> QED
  BY <1>1, <1>2, PTL DEF Rates!Spec

LEMMA EveryStepOfRates == EverySpec => Rates!Spec
<1>1. EveryInit => Rates!Init
  BY DEF EveryInit
<1>2. [EveryNext]_<<part, vars, quotaVars, rateVars>> => [Rates!Next]_Rates!vars
  BY DEF EveryNext, Rates!vars, rateVars
<1> QED
  BY <1>1, <1>2, PTL DEF EverySpec, Rates!Spec

\* "Fixed-window counter." (app/cache.py:56), and the memory it falls back to: however they take
\* turns, no key lets in three limits within one window, and one limit more for each restart.
THEOREM KeysLetInBoundedly == EverySpec => []AdmittedBounded
<1>1. RateInv => AdmittedBounded
  <2> SUFFICES ASSUME RateInv, NEW k \in RateKeys
               PROVE  Cardinality(Rates!Marks(Rates!Since(admitted[k], now - Window))) < (3 + restarts) * KeyLimit[k]
    BY RateNumbers DEF AdmittedBounded, Rates!AdmittedBounded
  <2> QED
    BY KeyFacts, CoverBound
<1> QED
  BY <1>1, RateInvariance, EveryStepOfRates, PTL

\* "Extract abuse bans must remain scoped to extract endpoints" (app/security.py:202).
THEOREM BansKeepToTheirKeys == EverySpec => []ExtractBansStayScoped
<1>1. RateInv => ExtractBansStayScoped
  <2> SUFFICES ASSUME RateInv
               PROVE  ExtractBansStayScoped
    OBVIOUS
  <2>1. /\ "extract" \notin ban["general"].why
        /\ "general" \notin ban["extract"].why /\ "login" \notin ban["extract"].why
    BY DEF RateInv, BansScoped, Clean
  <2>2. ban["extract"].why \subseteq {"general", "extract", "login"}
    BY DEF RateInv, RateTyped, BanRows, RateKeys
  <2> QED
    BY <2>1, <2>2 DEF ExtractBansStayScoped, Rates!ExtractBansStayScoped
<1> QED
  BY <1>1, RateInvariance, EveryStepOfRates, PTL

\* The violations that are kept are fewer than lead to a ban.
FewViolations == \A k \in RateKeys : ~Rates!Enough(ban[k].violations)

LEMMA NothingIsFew == ~Rates!Enough(Rates!NoBan.violations)
<1> DEFINE All == UNION {{k} \X Rates!Marks(Rates!NoBan.violations[k]) : k \in Rates!Keys}
<1>1. \A k \in Rates!Keys : Rates!Marks(Rates!NoBan.violations[k]) = {}
  BY RateNumbers, EmptyRows, NothingMarked
<1>2. All = {}
  BY <1>1
<1>3. Cardinality(All) = 0
  <2> HIDE DEF All
  <2> QED
    BY <1>2, FS_EmptySet
<1>4. Rates!Enough(Rates!NoBan.violations) => Cardinality(All) >= BanThreshold
  BY RateNumbers DEF Rates!Enough
<1> HIDE DEF All
<1> QED
  BY <1>3, <1>4, RateNumbers

LEMMA FewStep ==
  ASSUME RateInv, FewViolations, [Rates!Next]_rateVars
  PROVE  FewViolations' /\ \A k \in RateKeys : ban[k].until > now /\ ban'[k] # ban[k] => ban'[k] = Rates!NoBan
<1>0. ban \in [RateKeys -> BanRows] /\ now \in 1..MaxNow /\ RateTyped
  BY DEF RateInv, RateTyped
<1>1. ASSUME NEW r \in Clients, Rates!Violation(r)
      PROVE  /\ \A k \in RateKeys : ~Rates!Enough(ban'[k].violations)
             /\ \A k \in RateKeys : ban[k].until > now /\ ban'[k] # ban[k] => ban'[k] = Rates!NoBan
  <2> DEFINE k == Rates!Key(r)
             b == Rates!BanKey(k)
             row == Rates!Violated(ban[b], k)
  <2>1. k \in RateKeys
    BY <1>0, <1>1, Moved DEF Rates!Violation
  <2>2. b \in RateKeys
    BY DEF Rates!BanKey, RateKeys
  <2>3. ban' = ban \/ (ban' = [ban EXCEPT ![b] = row] /\ ban[b].until <= now)
    <3>1. ban' = IF Rates!Counts(ban[b]) THEN [ban EXCEPT ![b] = row] ELSE ban
      BY <1>1 DEF Rates!Violation
    <3>2. Rates!Counts(ban[b]) => ban[b].until <= now
      BY DEF Rates!Counts
    <3> QED
      BY <3>1, <3>2
  <2> HIDE DEF k, b
  <2>4. ban[b] \in BanRows /\ ban[b].until \in Nat
    BY <1>0, <2>2 DEF BanRows
  <2>5. ~Rates!Enough(row.violations)
    <3> DEFINE kept == [[l \in Rates!Keys |-> Rates!Since(ban[b].violations[l], now - BanWindow)]
                          EXCEPT ![k][now] = @ + 1]
               others == {l \in Rates!Keys : kept[l] # Rates!Nothing}
               level == ban[b].level + 1
               until == now + BanDurations[IF level > Len(BanDurations) THEN Len(BanDurations) ELSE level]
               last == IF level > Len(BanDurations) THEN ban[b].level ELSE level
    <3>1. row = IF ~Rates!Enough(kept) THEN [ban[b] EXCEPT !.violations = kept]
                ELSE [violations |-> Rates!NoBan.violations, why |-> others, until |-> until, level |-> last]
      BY DEF Rates!Violated
    <3> HIDE DEF kept, others, until, last, row
    <3>2. CASE ~Rates!Enough(kept)
      <4>1. row.violations = kept
        BY <2>4, <3>1, <3>2 DEF BanRows
      <4> QED
        BY <3>2, <4>1
    <3>3. CASE Rates!Enough(kept)
      BY <3>1, <3>3, NothingIsFew
    <3> QED
      BY <3>2, <3>3
  <2> HIDE DEF row
  <2>6. CASE ban' = ban
    BY <2>6 DEF FewViolations
  <2>7. CASE ban' = [ban EXCEPT ![b] = row] /\ ban[b].until <= now
    <3>1. ban'[b] = row /\ \A l \in RateKeys : l # b => ban'[l] = ban[l]
      BY <1>0, <2>2, <2>7
    <3>2. ~(ban[b].until > now)
      BY <1>0, <2>4, <2>7
    <3>3. ASSUME NEW l \in RateKeys
          PROVE  ~Rates!Enough(ban'[l].violations)
      BY <2>5, <3>1 DEF FewViolations
    <3>4. ASSUME NEW l \in RateKeys, ban[l].until > now, ban'[l] # ban[l]
          PROVE  ban'[l] = Rates!NoBan
      BY <3>1, <3>2, <3>4
    <3> QED
      BY <3>3, <3>4
  <2> QED
    BY <2>3, <2>6, <2>7
<1>2. CASE Rates!Restart
  <2>1. \A k \in RateKeys : ban'[k] = Rates!NoBan
    BY <1>2, RateNumbers DEF Rates!Restart
  <2> QED
    BY <2>1, NothingIsFew DEF FewViolations
<1>3. CASE UNCHANGED ban
  BY <1>3 DEF FewViolations
<1>4. CASE Rates!Tick \/ UNCHANGED rateVars
  BY <1>3, <1>4 DEF Rates!Tick, rateVars
<1>5. ASSUME NEW r \in Clients,
             \/ \E chain \in Chains : Rates!Arrive(r, chain)
             \/ Rates!CheckBan(r) \/ Rates!Increment(r) \/ Rates!SetExpiry(r) \/ Rates!IncrementFails(r)
             \/ Rates!SetExpiryFails(r) \/ Rates!Memory(r)
      PROVE  UNCHANGED ban
  BY <1>5 DEF Rates!Arrive, Rates!CheckBan, Rates!Increment, Rates!SetExpiry, Rates!IncrementFails,
              Rates!SetExpiryFails, Rates!Memory
<1>6. ASSUME NEW r \in Clients, Rates!Violation(r)
      PROVE  FewViolations' /\ \A k \in RateKeys : ban[k].until > now /\ ban'[k] # ban[k] => ban'[k] = Rates!NoBan
  BY <1>1, <1>6 DEF FewViolations
<1> QED
  BY <1>2, <1>3, <1>4, <1>5, <1>6 DEF Rates!Next

LEMMA FewInvariant == Rates!Spec => []FewViolations
<1>1. Rates!Init => FewViolations
  BY RateNumbers, NothingIsFew DEF Rates!Init, FewViolations
<1>2. RateInv /\ FewViolations /\ [Rates!Next]_Rates!vars => FewViolations'
  BY FewStep DEF Rates!vars, rateVars
<1> QED
  BY <1>1, <1>2, RateInvariance, PTL DEF Rates!Spec

\* What requests find in counters, memories and ban states (app/security.py, app/cache.py) keeps
\* its type: the memory holds no more than the limit, and no violations wait that lead to a ban.
THEOREM RateTyping == Rates!Spec => []Rates!TypeOK
<1>1. RateInv /\ FewViolations => Rates!TypeOK
  <2> SUFFICES ASSUME RateInv, FewViolations
               PROVE  Rates!TypeOK
    OBVIOUS
  <2>1. ASSUME NEW k \in RateKeys
        PROVE  /\ counter[k].n \in Nat /\ counter[k].until \in 1..Rates!Never
               /\ Cardinality(Rates!Marks(hits[k])) <= KeyLimit[k]
               /\ ~Rates!Enough(ban[k].violations) /\ ban[k].level \in 0..Len(BanDurations)
    <3>1. counter[k] \in Counters /\ Cardinality(Rates!Marks(hits[k])) <= KeyLimit[k]
      BY KeyFacts
    <3>2. ban[k] \in BanRows
      BY DEF RateInv, RateTyped
    <3> QED
      BY <3>1, <3>2 DEF Counters, BanRows, FewViolations
  <2>2. now \in 1..MaxNow /\ restarts \in 0..MaxRestarts /\ arriving \in [Clients -> ArrivingRows]
    BY DEF RateInv, RateTyped
  <2>3. \A r \in Clients :
          arriving[r].pc \in {"idle", "banned", "count", "expire", "memory", "violation"}
    BY <2>2 DEF ArrivingRows
  <2> QED
    BY <2>1, <2>2, <2>3, RateNumbers DEF Rates!TypeOK
<1> QED
  BY <1>1, RateInvariance, FewInvariant, PTL

\* Violations of requests that were on their way when a ban began neither lengthen it nor start
\* the next one (record_rate_limit_violation): a ban ends by time, or with its process.
THEOREM BansAreNotExtended == Rates!Spec => Rates!BansRunTheirLength
<1>1. RateInv /\ FewViolations /\ [Rates!Next]_Rates!vars =>
        [\A k \in RateKeys : ban[k].until > now /\ ban'[k] # ban[k] => ban'[k] = Rates!NoBan]_Rates!vars
  BY FewStep DEF Rates!vars, rateVars
<1>2. [\A k \in RateKeys : ban[k].until > now /\ ban'[k] # ban[k] => ban'[k] = Rates!NoBan]_Rates!vars
        => [\A k \in Rates!Keys : ban[k].until > now /\ ban'[k] # ban[k] => ban'[k] = Rates!NoBan]_Rates!vars
  BY RateNumbers
<1> QED
  BY <1>1, <1>2, RateInvariance, FewInvariant, PTL DEF Rates!Spec, Rates!BansRunTheirLength
=============================================================================
