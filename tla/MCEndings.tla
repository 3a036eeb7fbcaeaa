----------------------------- MODULE MCEndings -----------------------------
(***************************************************************************)
(* What must come to an end: queued alerts (PushDelivery) and subscription     *)
(* events (Subscriptions).  They share no state, so a behaviour runs one of    *)
(* them, its "part", and leaves the other in its initial state; fairness is    *)
(* that of each module.                                                        *)
(***************************************************************************)
EXTENDS PushDelivery, Sequences

CONSTANTS u1, u2, t1, t2, j1, w1, w2

TwoUsers == {u1, u2}
TwoDevices == {t1, t2}
OneJob == {j1}
TwoWorkers == {w1, w2}

VARIABLES
  part,
  now, profile, receipt, delivery, faults, applied  \* Subscriptions

subscriptionVars == <<now, profile, receipt, delivery, faults, applied>>
everyVars == <<part, vars, subscriptionVars>>

(* A device that changes its account under two workers, or two devices of     *)
(* one account under one worker.                                              *)
OneDeviceMoves == owner[t2] = NoUser
OneWorkerOneUser == worker[w2] = Asleep /\ u2 \notin closed /\ \A t \in Devices : owner[t] # u2

(* A purchase that Superwall reports and its refund that Apple reports.       *)
Event(id, source, at, kind, expires) ==
  [id |-> id, source |-> source, at |-> at, kind |-> kind, expires |-> expires]
PaidEvents ==
  {Event("purchase", "superwall", 1, "on", 2), Event("apple:refund", "apple", 2, "off", 1)}
Subscription == INSTANCE Subscriptions WITH
  Events <- PaidEvents, Deliveries <- {1, 2}, RestoreExpires <- 0, MaxAge <- 1, MaxNow <- 2,
  MaxFaults <- 1

ASSUME InstancesAssumption == Subscription!SubscriptionAssumption

Delivering(step) ==
  /\ \/ part = "moving" /\ step /\ OneDeviceMoves'
     \/ part = "sending" /\ step /\ OneWorkerOneUser'
  /\ UNCHANGED <<part, subscriptionVars>>

\* An account that was closed is not opened again.
Paying(step) ==
  /\ part = "subscription" /\ step /\ (profile.closed => profile'.closed)
  /\ UNCHANGED <<part, vars>>

EveryInit ==
  /\ Subscription!Init /\ Init
  /\ \/ part = "moving" /\ OneDeviceMoves
     \/ part = "sending" /\ OneWorkerOneUser /\ \A j \in Jobs : job[j].owner = u1
     \/ part = "subscription" /\ (\A t \in Devices : owner[t] = NoUser)
          /\ \A j \in Jobs : job[j].owner = u1

EveryNext == Delivering(Next) \/ Paying(Subscription!Next)

Fairness ==
  /\ \A w \in Workers : WF_everyVars(Delivering(Loop(w)))
  /\ \A id \in Ids :
       /\ \A w \in Workers : SF_everyVars(Delivering(ClaimRow(w, id)))
       /\ WF_everyVars(Delivering(LeaseExpires(id))) /\ WF_everyVars(Delivering(BecomesDue(id)))
  /\ WF_everyVars(Paying(Subscription!Tick))
  /\ \A d \in {1, 2} : WF_everyVars(Paying(Subscription!Step(d)))
  /\ \A e \in PaidEvents :
       SF_everyVars(Paying(\E d \in {1, 2} : Subscription!Unanswered(e) /\ Subscription!Deliver(d, e)))

EverySpec == EveryInit /\ [][EveryNext]_everyVars /\ Fairness

\* Every event that is repeated until it succeeds gets its final receipt, however often
\* the compare-and-set was lost (app/superwall.py:285), unless the account is opened again
\* for ever.
EveryEventSettles == part = "subscription" => Subscription!EveryEventSettles
=============================================================================
