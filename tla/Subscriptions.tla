---------------------------- MODULE Subscriptions ----------------------------
(***************************************************************************)
(* Who is Pro: one profile, written by Superwall webhooks (app.superwall),   *)
(* by App Store notifications and by restored purchases                      *)
(* (app.apple_notifications).  The senders repeat what was not answered with *)
(* success, in any order and at the same time; every delivery records a      *)
(* receipt, reads the profile, updates it with a compare-and-set on the time *)
(* and id of the last event, and closes its receipt.                         *)
(*                                                                         *)
(* A statement that raises marks the receipt failed and answers HTTP 503.    *)
(* Signatures, prices and product names are left out.                        *)
(***************************************************************************)
EXTENDS Naturals, FiniteSets

CONSTANTS
  Events,      \* what the senders tell of: [id, source, at, kind, expires]
  Deliveries,  \* handlers that work at one time
  RestoreExpires, \* expiry of the purchase the device can restore, 0 if it has none
  MaxAge,      \* webhook_max_age_seconds, for Superwall only
  MaxNow, MaxFaults \* bounds: the clock, statements that raise

Kinds == {"on", "off", "stays", "other"}

SubscriptionAssumption ==
  /\ \A e \in Events : /\ e.source \in {"superwall", "apple"} /\ e.kind \in Kinds
                       /\ e.at \in Nat /\ e.expires \in Nat
  /\ \A e, f \in Events : e.id = f.id => e = f
  /\ \A e \in Events : e.id \notin {"nothing", "apple-restore"}
  /\ {RestoreExpires, MaxAge, MaxNow, MaxFaults} \subseteq Nat

VARIABLES
  now,
  profile,   \* is_pro, deleted_at and the event that was applied last
  receipt,   \* subscription_events and apple_notification_events
  delivery,  \* what each handler works on and has read
  faults,    \* statements that raised so far
  applied    \* history: how often each event was applied

vars == <<now, profile, receipt, delivery, faults, applied>>

Nobody == "nothing"
Restored == "apple-restore"
Ids == {e.id : e \in Events}
NoEvent == [id |-> Nobody, source |-> "none", at |-> 0, kind |-> "other", expires |-> 0]
Restore == [id |-> Restored, source |-> "restore", at |-> now, kind |-> "on", expires |-> RestoreExpires]
Idle == [pc |-> "idle", event |-> NoEvent, at |-> 0, id |-> Nobody, outcome |-> "none"]
Terminal == {"processed", "skipped"}

Init ==
  /\ now = 0 /\ faults = 0
  /\ profile = [pro |-> FALSE, closed |-> FALSE, at |-> 0, id |-> Nobody]
  /\ receipt = [i \in Ids |-> [status |-> "none", why |-> "none"]]
  /\ delivery = [d \in Deliveries |-> Idle]
  /\ applied = [i \in Ids \cup {Restored} |-> 0]

Event(d) == delivery[d].event
Goto(d, pc) == delivery' = [delivery EXCEPT ![d].pc = pc]
Conclude(d, outcome) ==
  delivery' = [delivery EXCEPT ![d].pc = IF Event(d).source = "restore" THEN "idle" ELSE "mark",
                               ![d].outcome = outcome]

(***************************************************************************)
(* The steps of a delivery.                                                 *)
(***************************************************************************)
\* The webhook is called, or called again.
Deliver(d, e) ==
  /\ delivery[d].pc = "idle" /\ e.at <= now
  /\ delivery' = [delivery EXCEPT ![d] = [Idle EXCEPT !.pc = "record", !.event = e]]
  /\ UNCHANGED <<now, profile, receipt, faults, applied>>

\* POST /v1/me/subscription/restore with a purchase that has not expired.
AskRestore(d) ==
  /\ delivery[d].pc = "idle" /\ RestoreExpires > now
  /\ delivery' = [delivery EXCEPT ![d] = [Idle EXCEPT !.pc = "read", !.event = Restore]]
  /\ UNCHANGED <<now, profile, receipt, faults, applied>>

\* Faulty: any receipt counts as a duplicate.
IsDuplicateOfAny(i) == receipt[i].status # "none"

\* _record_event, _record_notification: only a terminal receipt is a duplicate.
IsDuplicate(i) == receipt[i].status \in Terminal

Stale(e) == e.source = "superwall" /\ now - e.at > MaxAge

Record(d) ==
  LET e == Event(d) IN
  /\ delivery[d].pc = "record"
  /\ IF IsDuplicate(e.id)
     THEN delivery' = [delivery EXCEPT ![d] = Idle] /\ UNCHANGED receipt
     ELSE /\ receipt' = IF receipt[e.id].status = "none"
                        THEN [receipt EXCEPT ![e.id].status = "received"] ELSE receipt
          /\ IF Stale(e) THEN Conclude(d, "stale_event")
             ELSE IF e.source = "superwall" /\ e.kind = "other" THEN Conclude(d, "unhandled_event")
             ELSE Goto(d, "read")
  /\ UNCHANGED <<now, profile, faults, applied>>

\* Faulty: the comparison is turned round.
OlderCounts(e, at) == at > 0 /\ at <= e.at

\* Faulty: order is not looked at.
NeverOutOfOrder(e, at) == FALSE

\* Superwall lets an event of the same time through, Apple and restores do not.
OutOfOrder(e, at) == IF e.source = "superwall" THEN at > e.at ELSE at > 0 /\ at >= e.at

\* The profile as it is now decides, or the compare-and-set will be tried.
Verdict(e) ==
  IF profile.closed THEN "profile_unavailable"
  ELSE IF profile.id = e.id THEN "duplicate"
  ELSE IF OutOfOrder(e, profile.at) THEN "out_of_order"
  ELSE "none"

Read(d) ==
  LET verdict == Verdict(Event(d)) IN
  /\ delivery[d].pc = "read"
  /\ IF verdict # "none" THEN Conclude(d, verdict)
     ELSE delivery' = [delivery EXCEPT ![d].pc = "write", ![d].at = profile.at, ![d].id = profile.id]
  /\ UNCHANGED <<now, profile, receipt, faults, applied>>

\* is_pro of the update: on, off, or on until the paid period has ended.
ProAfter(e) ==
  CASE e.source # "superwall" -> e.kind # "off"
    [] e.kind = "on" -> TRUE
    [] e.kind = "off" -> FALSE
    [] OTHER -> e.expires = 0 \/ e.expires > now

\* Faulty: whatever happened since the read is overwritten.
UnchangedForAll(d) == ~profile.closed

\* The predicates of the update.
UnchangedSinceRead(d) ==
  ~profile.closed /\ profile.at = delivery[d].at /\ profile.id = delivery[d].id

CompareAndSet(d) ==
  LET e == Event(d) IN
  /\ delivery[d].pc = "write"
  /\ IF UnchangedSinceRead(d)
     THEN /\ profile' = [profile EXCEPT !.pro = ProAfter(e), !.at = e.at, !.id = e.id]
          /\ applied' = [applied EXCEPT ![e.id] = @ + 1]
          /\ Conclude(d, "updated")
     ELSE Goto(d, "reread") /\ UNCHANGED <<profile, applied>>
  /\ UNCHANGED <<now, receipt, faults>>

\* What the re-read after a lost compare-and-set decides; otherwise "changed
\* concurrently; retry".  Superwall tests the order strictly here, as above.
Reread(d) ==
  LET verdict == Verdict(Event(d)) IN
  /\ delivery[d].pc = "reread"
  /\ IF verdict # "none" THEN Conclude(d, verdict)
     ELSE IF Event(d).source = "restore" THEN delivery' = [delivery EXCEPT ![d] = Idle]
     ELSE Goto(d, "failed")
  /\ UNCHANGED <<now, profile, receipt, faults, applied>>

\* Faulty: a receipt that was closed may be written again.
ClosedAgain(i, status, why) == [receipt EXCEPT ![i] = [status |-> status, why |-> why]]

\* Faulty: a failed receipt is deleted, so that the sender starts afresh.
ClosedForgets(i, status, why) ==
  IF status = "failed" THEN [receipt EXCEPT ![i] = [status |-> "none", why |-> "none"]]
  ELSE [receipt EXCEPT ![i] = [status |-> status, why |-> why]]

\* _mark_event, _mark_notification: terminal receipts are immutable.
Closed(i, status, why) ==
  IF receipt[i].status \in Terminal THEN receipt
  ELSE [receipt EXCEPT ![i] = [status |-> status, why |-> why]]

Mark(d) ==
  LET outcome == delivery[d].outcome IN
  /\ delivery[d].pc = "mark"
  /\ receipt' = Closed(Event(d).id, IF outcome \in {"updated", "duplicate"} THEN "processed" ELSE "skipped",
                       outcome)
  /\ delivery' = [delivery EXCEPT ![d] = Idle]
  /\ UNCHANGED <<now, profile, faults, applied>>

\* The except clause: the receipt is marked failed, if that succeeds, and HTTP 503.
Fail(d) ==
  /\ delivery[d].pc = "failed"
  /\ \/ receipt' = IF receipt[Event(d).id].status = "none" THEN receipt
                   ELSE Closed(Event(d).id, "failed", "processing_failed")
     \/ faults < MaxFaults /\ receipt' = receipt
  /\ delivery' = [delivery EXCEPT ![d] = Idle]
  /\ UNCHANGED <<now, profile, faults, applied>>

\* A statement raises; a restore answers HTTP 503 and leaves no receipt.
Raise(d) ==
  /\ delivery[d].pc \in {"record", "read", "write", "reread", "mark"} /\ faults < MaxFaults
  /\ faults' = faults + 1
  /\ IF Event(d).source = "restore" THEN delivery' = [delivery EXCEPT ![d] = Idle] ELSE Goto(d, "failed")
  /\ UNCHANGED <<now, profile, receipt, applied>>

(***************************************************************************)
(* The account and the clock.                                               *)
(***************************************************************************)
CloseAccount ==
  /\ ~profile.closed
  /\ profile' = [profile EXCEPT !.closed = TRUE, !.pro = FALSE]
  /\ UNCHANGED <<now, receipt, delivery, faults, applied>>

Reopen ==
  /\ profile.closed
  /\ profile' = [profile EXCEPT !.closed = FALSE]
  /\ UNCHANGED <<now, receipt, delivery, faults, applied>>

Tick ==
  /\ now < MaxNow /\ now' = now + 1
  /\ UNCHANGED <<profile, receipt, delivery, faults, applied>>

Step(d) ==
  Record(d) \/ Read(d) \/ CompareAndSet(d) \/ Reread(d) \/ Mark(d) \/ Fail(d) \/ Raise(d)

Next ==
  \/ \E d \in Deliveries : Step(d) \/ AskRestore(d) \/ \E e \in Events : Deliver(d, e)
  \/ CloseAccount \/ Reopen \/ Tick

Spec == Init /\ [][Next]_vars

\* A handler goes on, and a sender repeats an event until it is answered with success.
Unanswered(e) == receipt[e.id].status \notin Terminal
FairSpec ==
  /\ Spec /\ WF_vars(Tick)
  /\ \A d \in Deliveries : WF_vars(Step(d))
  /\ \A e \in Events : SF_vars(\E d \in Deliveries : Unanswered(e) /\ Deliver(d, e))

(***************************************************************************)
(* Properties.                                                              *)
(***************************************************************************)
Outcomes == {"none", "updated", "duplicate", "out_of_order", "profile_unavailable", "stale_event",
             "unhandled_event"}

\* Values keep their types; an event that updated the profile has a receipt.
TypeOK ==
  /\ now \in 0..MaxNow /\ faults \in 0..MaxFaults
  /\ profile \in [pro : BOOLEAN, closed : BOOLEAN, at : 0..MaxNow, id : Ids \cup {Nobody, Restored}]
  /\ receipt \in [Ids -> [status : {"none", "received", "failed"} \cup Terminal,
                          why : Outcomes \cup {"processing_failed"}]]
  /\ \A d \in Deliveries :
       /\ delivery[d].pc \in {"idle", "record", "read", "write", "reread", "mark", "failed"}
       /\ delivery[d].outcome \in Outcomes
  /\ \A i \in Ids : applied[i] > 0 => receipt[i].status # "none"

\* No event is dropped: once the sender was told of success, the profile shows that event
\* or a later one - unless the account was closed or the event too old.
AnsweredEventsCount ==
  \A e \in Events :
    receipt[e.id].status \in Terminal
      => \/ receipt[e.id].why \in {"profile_unavailable", "stale_event", "unhandled_event"}
         \/ profile.at >= e.at

\* A repeated or retried delivery applies its event once (app/superwall.py:212), while no
\* two events carry the same time.
AppliedOnce == \A i \in Ids : applied[i] <= 1

\* However deliveries overlap, the profile follows the time of the events ("prevents an old
\* delivery from overwriting a concurrent newer event", app/superwall.py:285), and the
\* receipt of a delivery that was answered with success does not change any more
\* (app/superwall.py:141).
TakesEffectInOrder ==
  /\ profile'.at >= profile.at
  /\ \A i \in Ids : receipt[i].status \in Terminal => receipt'[i] = receipt[i]
EventsTakeEffectInOrder == [][TakesEffectInOrder]_vars

\* Every event that is repeated until it succeeds gets its final receipt, however often
\* the compare-and-set was lost - of an account that is not closed and opened for ever.
EveryEventSettles == \A e \in Events : e.at <= MaxNow => <>(receipt[e.id].status \in Terminal)
=============================================================================
