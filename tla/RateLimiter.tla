----------------------------- MODULE RateLimiter -----------------------------
(***************************************************************************)
(* Rate limits and bans of one client: require_rate_limit in                 *)
(* app/security.py, the Redis counter of app/cache.py with its fallback to    *)
(* this process, the middleware of app/main.py that guards /v1, the two       *)
(* extra limits of POST /v1/extract and that of the dashboard login.          *)
(*                                                                         *)
(* The keys of the client's address and of its account are one key each       *)
(* ("general", "extract", "login"); the lengths of windows and bans are       *)
(* numbers of ticks.  Handlers run in threads, so every call of Redis and     *)
(* every critical section is a step.                                          *)
(***************************************************************************)
EXTENDS Integers, Sequences, FiniteSets

CONSTANTS
  Requests,      \* requests that are handled at one time
  Chains,        \* the kinds of request that arrive, of AllChains
  Limit,         \* of each key
  Window,        \* window_seconds
  BanWindow, BanThreshold, BanDurations, \* _BAN_WINDOW_SECONDS and its neighbours
  MaxNow, MaxRestarts \* bounds: the clock, restarts of the process

Keys == {"general", "extract", "login"}
\* The keys a request passes, in order.
AllChains == {<<"general">>, <<"general", "extract">>, <<"login">>}

RateAssumption ==
  /\ Chains \subseteq AllChains
  /\ Limit \in [Keys -> Nat \ {0}] /\ BanDurations \in Seq(Nat \ {0}) /\ BanDurations # << >>
  /\ {Window, BanWindow, BanThreshold, MaxNow} \subseteq Nat \ {0} /\ MaxRestarts \in Nat

VARIABLES
  now,
  counter,  \* Redis: count and expiry of each key
  hits,     \* SlidingWindowLimiter: how many requests each key let in at each time
  ban,      \* _ban_states: violations (of each key, at each time), end and level
  request,  \* what is left of the chain of each request, and where it is
  restarts, \* so far
  admitted  \* history: how many requests each key let in at each time of the last window

vars == <<now, counter, hits, ban, request, restarts, admitted>>

Never == MaxNow + Window + 1
NoCounter == [n |-> 0, until |-> Never]
Nothing == [t \in 1..MaxNow |-> 0]
NoBan == [violations |-> [k \in Keys |-> Nothing], until |-> 0, level |-> 0, why |-> {}]
Idle == [pc |-> "idle", chain |-> << >>]

Init ==
  /\ now = 1 /\ restarts = 0
  /\ counter = [k \in Keys |-> NoCounter] /\ hits = [k \in Keys |-> Nothing]
  /\ ban = [k \in Keys |-> NoBan]
  /\ request = [r \in Requests |-> Idle]
  /\ admitted = [k \in Keys |-> Nothing]

Key(r) == Head(request[r].chain)
Goto(r, pc) == request' = [request EXCEPT ![r].pc = pc]
Refuse(r) == request' = [request EXCEPT ![r] = Idle]

\* What is left of a deque of times when those before "cutoff" are dropped, and its length.
Since(times, cutoff) == [t \in 1..MaxNow |-> IF t > cutoff THEN times[t] ELSE 0]
Marks(times) == UNION {{t} \X (1..times[t]) : t \in 1..MaxNow}

\* The key lets the request in: on to the next limit, or to the handler.
Admit(r) ==
  /\ admitted' = [admitted EXCEPT ![Key(r)][now] = @ + 1]
  /\ request' = [request EXCEPT ![r] =
       IF Len(@.chain) = 1 THEN Idle ELSE [pc |-> "banned", chain |-> Tail(@.chain)]]

\* Faulty: every key bans the client everywhere.
BanKeyOfClient(k) == "general"

\* _ban_key: extract keys keep to themselves, all others ban the address or account.
BanKey(k) == IF k = "extract" THEN k ELSE "general"

Arrive(r, chain) ==
  /\ request[r].pc = "idle"
  /\ request' = [request EXCEPT ![r] = [pc |-> "banned", chain |-> chain]]
  /\ UNCHANGED <<now, counter, hits, ban, restarts, admitted>>

\* check_not_banned and raise_if_banned.
CheckBan(r) ==
  /\ request[r].pc = "banned"
  /\ IF ban[BanKey(Key(r))].until > now THEN Refuse(r) ELSE Goto(r, "count")
  /\ UNCHANGED <<now, counter, hits, ban, restarts, admitted>>

-----------------------------------------------------------------------------
(* redis_rate_allow: INCR, then EXPIRE of a new counter, and the verdict *)

\* Faulty: the counter may pass the limit by one.
AllowedOneMore(k, n) == n <= Limit[k] + 1

Allowed(k, n) == n <= Limit[k]

Increment(r) ==
  LET k == Key(r) n == counter[k].n + 1 IN
  /\ request[r].pc = "count"
  /\ counter' = [counter EXCEPT ![k].n = n]
  /\ IF n = 1 THEN Goto(r, "expire") /\ UNCHANGED admitted
     ELSE IF Allowed(k, n) THEN Admit(r)
     ELSE Goto(r, "violation") /\ UNCHANGED admitted
  /\ UNCHANGED <<now, hits, ban, restarts>>

SetExpiry(r) ==
  /\ request[r].pc = "expire"
  /\ counter' = [counter EXCEPT ![Key(r)].until = now + Window]
  /\ Admit(r)
  /\ UNCHANGED <<now, hits, ban, restarts>>

\* No connection, or INCR raises - before or after Redis counted: use the memory.
IncrementFails(r) ==
  /\ request[r].pc = "count"
  /\ counter' \in {counter, [counter EXCEPT ![Key(r)].n = @ + 1]}
  /\ Goto(r, "memory")
  /\ UNCHANGED <<now, hits, ban, restarts, admitted>>

\* EXPIRE raises: the counter stays without one.
SetExpiryFails(r) ==
  /\ request[r].pc = "expire"
  /\ Goto(r, "memory")
  /\ UNCHANGED <<now, counter, hits, ban, restarts, admitted>>

-----------------------------------------------------------------------------
(* SlidingWindowLimiter.allow, under its lock *)

InWindow(k) == Since(hits[k], now - Window)

Memory(r) ==
  LET k == Key(r) IN
  /\ request[r].pc = "memory"
  /\ IF Cardinality(Marks(InWindow(k))) >= Limit[k]
     THEN hits' = [hits EXCEPT ![k] = InWindow(k)] /\ Goto(r, "violation") /\ UNCHANGED admitted
     ELSE hits' = [hits EXCEPT ![k] = [InWindow(k) EXCEPT ![now] = @ + 1]] /\ Admit(r)
  /\ UNCHANGED <<now, counter, ban, restarts>>

-----------------------------------------------------------------------------
(* record_rate_limit_violation, under its lock *)

\* Faulty: a violation during a ban starts it again.
CountsAgain(state) == TRUE

\* A violation during a ban changes nothing.
Counts(state) == state.until <= now

\* Faulty: one violation more is forgiven.
EnoughLater(violations) == Cardinality(UNION {{k} \X Marks(violations[k]) : k \in Keys}) > BanThreshold

\* The violations lead to a ban.
Enough(violations) == Cardinality(UNION {{k} \X Marks(violations[k]) : k \in Keys}) >= BanThreshold

\* The state after one more violation.
Violated(state, k) ==
  LET recent == [l \in Keys |-> Since(state.violations[l], now - BanWindow)]
      violations == [recent EXCEPT ![k][now] = @ + 1]
      level == state.level + 1
  IN  IF ~Enough(violations) THEN [state EXCEPT !.violations = violations]
      ELSE [violations |-> NoBan.violations, why |-> {l \in Keys : violations[l] # Nothing},
            until |-> now + BanDurations[IF level > Len(BanDurations) THEN Len(BanDurations) ELSE level],
            level |-> IF level > Len(BanDurations) THEN state.level ELSE level]

Violation(r) ==
  LET k == Key(r) b == BanKey(k) IN
  /\ request[r].pc = "violation"
  /\ ban' = IF Counts(ban[b]) THEN [ban EXCEPT ![b] = Violated(@, k)] ELSE ban
  /\ Refuse(r)
  /\ UNCHANGED <<now, counter, hits, restarts, admitted>>

-----------------------------------------------------------------------------
(* Time and restarts *)

\* A second of a window; Redis drops the counters that expired.
Tick ==
  /\ now < MaxNow /\ now' = now + 1
  /\ counter' = [k \in Keys |-> IF counter[k].until <= now + 1 THEN NoCounter ELSE counter[k]]
  /\ admitted' = [k \in Keys |-> Since(admitted[k], now + 1 - Window)]
  /\ UNCHANGED <<hits, ban, request, restarts>>

\* The process is replaced; Redis goes on.
Restart ==
  /\ restarts < MaxRestarts /\ restarts' = restarts + 1
  /\ hits' = [k \in Keys |-> Nothing] /\ ban' = [k \in Keys |-> NoBan]
  /\ request' = [r \in Requests |-> Idle]
  /\ UNCHANGED <<now, counter, admitted>>

Next ==
  \/ \E r \in Requests :
       \/ \E chain \in Chains : Arrive(r, chain)
       \/ CheckBan(r) \/ Increment(r) \/ SetExpiry(r) \/ IncrementFails(r)
       \/ SetExpiryFails(r) \/ Memory(r) \/ Violation(r)
  \/ Tick \/ Restart

Spec == Init /\ [][Next]_vars

-----------------------------------------------------------------------------
(* Properties *)

\* Values keep their types; the violations that are kept are fewer than lead to a ban.
TypeOK ==
  /\ now \in 1..MaxNow /\ restarts \in 0..MaxRestarts
  /\ \A k \in Keys :
       /\ counter[k].n \in Nat /\ counter[k].until \in 1..Never
       /\ Cardinality(Marks(hits[k])) <= Limit[k]
       /\ ~Enough(ban[k].violations) /\ ban[k].level \in 0..Len(BanDurations)
  /\ \A r \in Requests :
       request[r].pc \in {"idle", "banned", "count", "expire", "memory", "violation"}

\* However Redis and the memory of the process take turns, no key lets in three limits within
\* one window - two fixed windows of Redis, less the request that began the first, and the
\* memory - and one limit more for each restart.
AdmittedBounded ==
  \A k \in Keys :
    Cardinality(Marks(Since(admitted[k], now - Window))) < (3 + restarts) * Limit[k]

\* "Extract abuse bans must remain scoped to extract endpoints" (app/security.py:202): what
\* blocks library reads was never earned by imports.
ExtractBansStayScoped ==
  /\ "extract" \notin ban["general"].why
  /\ ban["extract"].why \subseteq {"extract"}

\* Requests that were on their way when a ban began do not make it longer, nor start the
\* next one.
BansRunTheirLength == [][\A k \in Keys : ban[k].until > now /\ ban'[k] # ban[k] => ban'[k] = NoBan]_vars

\* "Fixed-window counter." (app/cache.py:56).  The window of a counter does not end when the
\* call of EXPIRE fails after INCR: its client is refused for ever.
CountersExpire ==
  \A k \in Keys :
    counter[k].n > Limit[k] /\ (\A r \in Requests : request[r].pc = "idle") => counter[k].until # Never
=============================================================================
