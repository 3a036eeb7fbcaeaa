---------------------------- MODULE MCAdmission ----------------------------
(***************************************************************************)
(* What an import must pass before it may spend: the money guard            *)
(* (SpendLedger), the quota of its user (ImportQuota) and the rate limits     *)
(* (RateLimiter).  They share no state, so a behaviour runs one of them, its  *)
(* "part", and leaves the others in their initial states.                     *)
(***************************************************************************)
EXTENDS SpendLedger, TLC

CONSTANTS
  u1, j1, j2, j3,
  Askers, Imports, YearlyLimit, OpenLimit, ProCents, RunCosts, RunsAtOnce, \* ImportQuota
  SubscriptionMoves, MaxMonth, MonthsPerYear,
  Clients, Chains, KeyLimit, Window, BanWindow, BanThreshold, BanDurations, \* RateLimiter
  MaxNow, MaxRestarts

VARIABLES
  part,
  month, pro, asking, import, usage,                      \* ImportQuota
  now, counter, hits, ban, arriving, restarts, admitted   \* RateLimiter

quotaVars == <<month, pro, asking, import, usage>>
rateVars == <<now, counter, hits, ban, arriving, restarts, admitted>>

(* The money guard: three jobs of one attempt, or two of two.               *)
OneUser == {u1}
ThreeJobs == {j1, j2, j3}
DefaultOnly == {0}
CheapAndDear == {1, 3}
OneAttemptEach == \A j \in Jobs : attempts[j].begun <= 1
TwoOfTheJobs == Cardinality({j \in Jobs : ledger[j] # NoRow \/ request[j] # NotAsked}) <= 2

(* The quota: one free recipe, one open import and one cent, over two years; *)
(* jobs are created in the order of their names.                             *)
Quota == INSTANCE ImportQuota WITH
  Requests <- Askers, Jobs <- Imports, Limit <- YearlyLimit, MaxOpen <- OpenLimit,
  ProBudget <- ProCents, Costs <- RunCosts, Runs <- RunsAtOnce, request <- asking, job <- import
InOrder == \A j \in Imports \ {1} : import[j] # Quota!NoJob => import[j - 1] # Quota!NoJob

(* The rate limits: windows of one key that turn over twice, short of a ban;   *)
(* bans by all kinds of request while Redis answers, over two ticks.          *)
Rates == INSTANCE RateLimiter WITH Requests <- Clients, Limit <- KeyLimit, request <- arriving
OneKey == ban["general"].level = 0 /\ \A r \in Clients : arriving[r].chain \in {<< >>, <<"login">>}
RedisAnswers == now <= 2 /\ restarts = 0 /\ \A r \in Clients : arriving[r].pc # "memory"
EveryChain == {<<"general">>, <<"general", "extract">>, <<"login">>}
KeyLimits == [k \in {"general", "extract", "login"} |-> IF k = "extract" THEN 1 ELSE 2]
Durations == <<1, 2>>

ASSUME InstancesAssumption ==
  Quota!QuotaAssumption /\ Rates!RateAssumption

EveryInit ==
  /\ part \in {"jobs", "attempts", "quota", "windows", "bans"}
  /\ Init /\ Quota!Init /\ Rates!Init
  /\ part \notin {"jobs", "attempts"} => ~profile[u1].pro
  /\ part # "quota" => ~pro

EveryNext ==
  /\ UNCHANGED part
  /\ \/ part = "jobs" /\ Next /\ OneAttemptEach' /\ UNCHANGED <<quotaVars, rateVars>>
     \/ part = "attempts" /\ Next /\ TwoOfTheJobs' /\ UNCHANGED <<quotaVars, rateVars>>
     \/ part = "quota" /\ Quota!Next /\ InOrder' /\ UNCHANGED <<vars, rateVars>>
     \/ part = "windows" /\ Rates!Next /\ OneKey' /\ UNCHANGED <<vars, quotaVars>>
     \/ part = "bans" /\ Rates!Next /\ RedisAnswers' /\ UNCHANGED <<vars, quotaVars>>

EverySpec == EveryInit /\ [][EveryNext]_<<part, vars, quotaVars, rateVars>>

Interchangeable == Permutations(Jobs) \cup Permutations(Clients)

\* A user's open imports, free recipes of a year and Pro cost of a month pass their limits
\* by no more than what was under way unseen when the last import was admitted
\* (app/quota.py:107-142, app/main.py:1062).
QuotaOvershootBounded ==
  Quota!OpenJobsBounded /\ Quota!FreeUsesBounded /\ Quota!ProCostBounded

\* However Redis and the memory of the process take turns, no key lets in three limits within
\* one window, and one limit more for each restart (app/cache.py:56, app/security.py).
AdmittedBounded == Rates!AdmittedBounded

\* "Extract abuse bans must remain scoped to extract endpoints" (app/security.py:202): what
\* blocks library reads was never earned by imports.
ExtractBansStayScoped == Rates!ExtractBansStayScoped
=============================================================================
