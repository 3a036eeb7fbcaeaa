----------------------------- MODULE MCAccount -----------------------------
(***************************************************************************)
(* Who may act for an account and what it paid for: its sessions (Sessions)    *)
(* and its subscription (Subscriptions).  Each sees the account close and open *)
(* again, and nothing else of the other, so a behaviour runs one of them, its  *)
(* "part", and leaves the other in its initial state.                          *)
(***************************************************************************)
EXTENDS Sessions, TLC

CONSTANTS
  newApp, oldApp, d1, d2,
  Events, Deliveries, RestoreExpires, MaxAge, MaxNow, MaxFaults  \* Subscriptions

(* Two installations of the app, one of them of a version without request ids. *)
TwoClients == {newApp, oldApp}
OldClients == {oldApp}
TwoDeliveries == {d1, d2}

VARIABLES
  part,
  now, profile, receipt, delivery, faults, applied  \* Subscriptions

subscriptionVars == <<now, profile, receipt, delivery, faults, applied>>

(* Three sessions and tokens at most without Apple's token, or two with it.  *)
WithoutAppleToken == apple = None
OneClientTwoTokens ==
  /\ \A c \in Legacy : client[c] = SignedOut
  /\ tokens[MaxTokens] = NoToken

(* A purchase that Superwall reports, its refund that Apple reports, and a   *)
(* device that restores the purchase.                                        *)
Event(id, source, at, kind) ==
  [id |-> id, source |-> source, at |-> at, kind |-> kind, expires |-> 3]
PurchaseAndRefund == {Event("purchase", "superwall", 1, "on"), Event("apple:refund", "apple", 2, "off")}
Subscription == INSTANCE Subscriptions

ASSUME InstancesAssumption == SessionAssumption /\ Subscription!SubscriptionAssumption

EveryInit ==
  /\ part \in {"sessions", "apple", "subscription"}
  /\ Init /\ Subscription!Init

EveryNext ==
  /\ UNCHANGED part
  /\ \/ part = "sessions" /\ Next /\ WithoutAppleToken' /\ UNCHANGED subscriptionVars
     \/ part = "apple" /\ Next /\ OneClientTwoTokens' /\ UNCHANGED subscriptionVars
     \/ part = "subscription" /\ Subscription!Next /\ UNCHANGED vars

EverySpec == EveryInit /\ [][EveryNext]_<<part, vars, subscriptionVars>>

Interchangeable == Permutations(TwoDeliveries)

\* No subscription event is dropped (app/superwall.py:285): once its sender was told of
\* success, the profile shows that event or a later one - unless the account was closed or
\* the event too old.
AnsweredEventsCount == Subscription!AnsweredEventsCount

\* However deliveries of subscription events overlap, the profile follows the time of the
\* events (app/superwall.py:285), and a receipt that was answered with success does not
\* change any more (app/superwall.py:141).
EventsTakeEffectInOrder ==
  [][part = "subscription" => Subscription!TakesEffectInOrder]_<<part, subscriptionVars>>
=============================================================================
