------------------------------ MODULE Sessions ------------------------------
(***************************************************************************)
(* The sessions of one account: Sign in with Apple, refresh tokens and      *)
(* their rotation, logout, account deletion, and the Apple refresh token    *)
(* kept so that a deletion can revoke it at Apple.                          *)
(*                                                                         *)
(* A session is the chain of refresh tokens that starts with one sign-in.   *)
(* Requests stay in the network: any of them may be executed late, twice or *)
(* never, and any answer may be lost.  A client repeats a refresh whose     *)
(* answer it misses with the same request id, one id per token it holds,    *)
(* so the id is the client's name; Legacy clients send no id.               *)
(***************************************************************************)
EXTENDS Naturals, FiniteSets

CONSTANTS
  Clients,     \* installations of the app
  Legacy,      \* clients that send no request id
  NoClient,    \* the null request id
  AppleClient, \* TRUE if apple_client_configured
  MaxTokens    \* bound: rows of auth_refresh_tokens

SessionAssumption ==
  /\ Legacy \subseteq Clients /\ NoClient \notin Clients /\ AppleClient \in BOOLEAN
  /\ MaxTokens \in Nat \ {0}

VARIABLES
  closed,    \* profiles.deleted_at is set
  tokens,    \* auth_refresh_tokens, by row; root is history: the first token of the chain
  client,    \* what each client holds and is doing
  net,       \* refresh and logout requests ever sent
  lookups,   \* refreshes whose rotation found nothing, about to look for a replay
  answers,   \* successors sent to the clients
  ended,     \* history: roots of the sessions that were logged out or deleted
  apple,     \* auth_provider_tokens: the stored Apple token, 0 if none
  revoked,   \* Apple tokens Apple no longer honours
  purge      \* the account deletion in progress

vars == <<closed, tokens, client, net, lookups, answers, ended, apple, revoked, purge>>
appleVars == <<apple, revoked, purge>>

Tokens == 1..MaxTokens
None == 0

NoToken == [state |-> "absent", root |-> None, expired |-> FALSE, rid |-> NoClient,
            retry |-> FALSE, next |-> None]
SignedOut == [pc |-> "out", held |-> None]
NoPurge == [pc |-> "idle", apple |-> None]

Init ==
  /\ closed = FALSE /\ tokens = [t \in Tokens |-> NoToken]
  /\ client = [c \in Clients |-> SignedOut]
  /\ net = {} /\ lookups = {} /\ answers = {} /\ ended = {}
  /\ apple = None /\ revoked = {} /\ purge = NoPurge

Live(t) == tokens[t].state = "live"
Free == {t \in Tokens : tokens[t].state = "absent"}
NextToken == {t \in Free : \A other \in Free : t <= other}
Rid(c) == IF c \in Legacy THEN NoClient ELSE c
Become(c, pc, t) == client' = [client EXCEPT ![c] = [pc |-> pc, held |-> t]]
Revoke(ts) == [t \in Tokens |-> IF t \in ts THEN [tokens[t] EXCEPT !.state = "revoked"] ELSE tokens[t]]

-----------------------------------------------------------------------------
(* Sign in with Apple *)

\* _upsert_apple_profile: creates the profile or opens it again.
SignIn(c) ==
  /\ client[c].pc = "out"
  /\ closed' = FALSE /\ Become(c, "signing", None)
  /\ UNCHANGED <<tokens, net, lookups, answers, ended, appleVars>>

\* _persist_apple_authorization_code, when the exchange with Apple succeeds; the new
\* Apple token is named after the refresh token that is about to be issued.
StoreAppleToken(c) ==
  /\ AppleClient /\ client[c].pc = "signing" /\ apple \notin NextToken
  /\ apple' \in NextToken
  /\ UNCHANGED <<closed, tokens, client, net, lookups, answers, ended, revoked, purge>>

\* create_refresh_token, and the answer with the new session.
IssueToken(c) ==
  /\ client[c].pc = "signing"
  /\ \E t \in NextToken :
       /\ tokens' = [tokens EXCEPT ![t] = [NoToken EXCEPT !.state = "live", !.root = t]]
       /\ Become(c, "in", t)
  /\ UNCHANGED <<closed, net, lookups, answers, ended, appleVars>>

\* AUTH_DATABASE_ERROR or AUTH_SESSION_ISSUE_FAILED.
SignInFails(c) ==
  /\ client[c].pc = "signing" /\ Become(c, "out", None)
  /\ UNCHANGED <<closed, tokens, net, lookups, answers, ended, appleVars>>

-----------------------------------------------------------------------------
(* Refresh *)

\* The client asks, or asks again because no answer came.
AskRefresh(c) ==
  /\ client[c].pc \in {"in", "refreshing"}
  /\ net' = net \cup {[kind |-> "refresh", token |-> client[c].held, rid |-> Rid(c)]}
  /\ Become(c, "refreshing", client[c].held)
  /\ UNCHANGED <<closed, tokens, lookups, answers, ended, appleVars>>

\* Faulty: a token may be rotated again while its retry window is open.
RotatesRetried(t) == tokens[t].state # "absent" /\ ~tokens[t].expired /\ ~closed

\* Faulty: does not look at the profile.
RotatesForClosed(t) == Live(t) /\ ~tokens[t].expired

\* source: the row a rotation locks.
Rotates(t) == Live(t) /\ ~tokens[t].expired /\ ~closed

\* Faulty: the successor is not remembered with the request.
RotatedForgetful(t, rid, next) == [tokens[t] EXCEPT !.state = "revoked"]

\* Faulty: the rotated row is not revoked.
RotatedStillLive(t, rid, next) ==
  [tokens[t] EXCEPT !.rid = rid, !.retry = rid # NoClient,
                    !.next = IF rid = NoClient THEN None ELSE next]

\* revoked: what the rotation leaves of the row; a request id opens the retry window.
Rotated(t, rid, next) ==
  [tokens[t] EXCEPT !.state = "revoked", !.rid = rid, !.retry = rid # NoClient,
                    !.next = IF rid = NoClient THEN None ELSE next]

\* source, revoked and issued are one statement.
Rotate(r) ==
  /\ r.kind = "refresh" /\ Rotates(r.token)
  /\ \E t \in NextToken :
       /\ tokens' = [tokens EXCEPT ![r.token] = Rotated(r.token, r.rid, t),
                                   ![t] = [NoToken EXCEPT !.state = "live",
                                                          !.root = tokens[r.token].root]]
       /\ answers' = answers \cup {[token |-> r.token, rid |-> r.rid, next |-> t]}
  /\ UNCHANGED <<closed, client, net, lookups, ended, appleVars>>

\* The rotation found nothing: look for a replay, or HTTP 401 without a request id.
RotateFindsNothing(r) ==
  /\ r.kind = "refresh" /\ ~Rotates(r.token)
  /\ IF r.rid # NoClient
     THEN lookups' = lookups \cup {r} /\ UNCHANGED client
     ELSE /\ client' = [c \in Clients |->
                          IF client[c].held = r.token /\ c \in Legacy THEN SignedOut ELSE client[c]]
          /\ UNCHANGED lookups
  /\ UNCHANGED <<closed, tokens, net, answers, ended, appleVars>>

\* The row the second statement returns.
Replays(r) ==
  LET old == tokens[r.token] IN
  /\ old.state = "revoked" /\ old.rid = r.rid /\ old.retry /\ ~closed
  /\ old.next # None /\ Live(old.next) /\ ~tokens[old.next].expired

Replay(r) ==
  /\ Replays(r)
  /\ lookups' = lookups \ {r}
  /\ answers' = answers \cup {[token |-> r.token, rid |-> r.rid, next |-> tokens[r.token].next]}
  /\ UNCHANGED <<closed, tokens, client, net, ended, appleVars>>

\* HTTP 401 REFRESH_TOKEN_EXPIRED: a client that still holds the token signs out.
Reject(r) ==
  /\ ~Replays(r)
  /\ lookups' = lookups \ {r}
  /\ client' = [c \in Clients |->
                  IF client[c].held = r.token /\ Rid(c) = r.rid THEN SignedOut ELSE client[c]]
  /\ UNCHANGED <<closed, tokens, net, answers, ended, appleVars>>

\* An answer to the refresh a client is waiting for.
ReceiveToken(c) ==
  /\ client[c].pc = "refreshing"
  /\ \E a \in answers :
       a.token = client[c].held /\ a.rid = Rid(c) /\ Become(c, "in", a.next)
  /\ UNCHANGED <<closed, tokens, net, lookups, answers, ended, appleVars>>

-----------------------------------------------------------------------------
(* Logout *)

\* The client forgets its session and tells the server.
AskLogout(c) ==
  /\ client[c].pc \in {"in", "refreshing"}
  /\ net' = net \cup {[kind |-> "logout", token |-> client[c].held, rid |-> Rid(c)]}
  /\ Become(c, "out", None)
  /\ UNCHANGED <<closed, tokens, lookups, answers, ended, appleVars>>

\* Faulty: a rotation on its way is not taken back.
LogoutReachesToken(r) == {r.token}

\* The rows revoke_refresh_token updates: the token, and its successor if this very
\* request rotated it.
LogoutReaches(r) ==
  LET old == tokens[r.token] IN
  {r.token} \cup (IF r.rid # NoClient /\ old.rid = r.rid /\ old.next # None THEN {old.next} ELSE {})

Logout(r) ==
  /\ r.kind = "logout"
  /\ tokens' = Revoke(LogoutReaches(r))
  /\ ended' = IF r.rid = NoClient THEN ended ELSE ended \cup {tokens[r.token].root}
  /\ UNCHANGED <<closed, client, net, lookups, answers, appleVars>>

-----------------------------------------------------------------------------
(* Account deletion: DELETE /v1/me *)

\* revoke_stored_apple_authorization loads the ciphertext; with none, or when it cannot
\* be loaded, nothing is revoked.
PurgeLoads ==
  /\ purge.pc = "idle" /\ (\E c \in Clients : client[c].pc = "in")
  /\ \/ apple # None /\ purge' = [pc |-> "revoke", apple |-> apple]
     \/ purge' = [pc |-> "scrub", apple |-> None]
  /\ UNCHANGED <<closed, tokens, client, net, lookups, answers, ended, apple, revoked>>

\* Apple accepts the revocation, or fails it and the stored token stays.
PurgeRevokes ==
  /\ purge.pc = "revoke"
  /\ \/ /\ revoked' = revoked \cup {purge.apple}
        /\ purge' = [purge EXCEPT !.pc = "forget"]
     \/ revoked' = revoked /\ purge' = [purge EXCEPT !.pc = "scrub"]
  /\ UNCHANGED <<closed, tokens, client, net, lookups, answers, ended, apple>>

\* delete_apple_refresh_token(user_id), which may fail and is then skipped.
PurgeForgets ==
  /\ purge.pc = "forget"
  /\ apple' \in {None, apple}
  /\ purge' = [purge EXCEPT !.pc = "scrub"]
  /\ UNCHANGED <<closed, tokens, client, net, lookups, answers, ended, revoked>>

\* The sessions of the account, revoked in the transaction that closes it.
RevokeAll == Revoke({t \in Tokens : Live(t)})

\* delete_account_data.
PurgeScrubs ==
  /\ purge.pc = "scrub"
  /\ closed' = TRUE /\ tokens' = RevokeAll
  /\ ended' = ended \cup {tokens[t].root : t \in {u \in Tokens : tokens[u].state # "absent"}}
  /\ purge' = NoPurge
  /\ UNCHANGED <<client, net, lookups, answers, apple, revoked>>

\* HTTP 503 ACCOUNT_DELETION_UNAVAILABLE, or the process dies.
PurgeFails ==
  /\ purge.pc # "idle" /\ purge' = NoPurge
  /\ UNCHANGED <<closed, tokens, client, net, lookups, answers, ended, apple, revoked>>

-----------------------------------------------------------------------------
(* Time *)

Expire(t) ==
  /\ Live(t) /\ ~tokens[t].expired
  /\ tokens' = [tokens EXCEPT ![t].expired = TRUE]
  /\ UNCHANGED <<closed, client, net, lookups, answers, ended, appleVars>>

\* rotation_retry_until passes.
RetryLapses(t) ==
  /\ tokens[t].retry
  /\ tokens' = [tokens EXCEPT ![t].retry = FALSE]
  /\ UNCHANGED <<closed, client, net, lookups, answers, ended, appleVars>>

Next ==
  \/ \E c \in Clients :
       \/ SignIn(c) \/ StoreAppleToken(c) \/ IssueToken(c) \/ SignInFails(c)
       \/ AskRefresh(c) \/ ReceiveToken(c) \/ AskLogout(c)
  \/ \E r \in net : Rotate(r) \/ RotateFindsNothing(r) \/ Logout(r)
  \/ \E r \in lookups : Replay(r) \/ Reject(r)
  \/ PurgeLoads \/ PurgeRevokes \/ PurgeForgets \/ PurgeScrubs \/ PurgeFails
  \/ \E t \in Tokens : Expire(t) \/ RetryLapses(t)

Spec == Init /\ [][Next]_vars

-----------------------------------------------------------------------------
(* Properties *)

Requests == [kind : {"refresh", "logout"}, token : Tokens, rid : Clients \cup {NoClient}]

\* Every variable keeps its type, and only a revoked token has a successor.
TypeOK ==
  /\ closed \in BOOLEAN
  /\ tokens \in [Tokens -> [state : {"absent", "live", "revoked"}, root : 0..MaxTokens,
                            expired : BOOLEAN, rid : Clients \cup {NoClient}, retry : BOOLEAN,
                            next : 0..MaxTokens]]
  /\ \A t \in Tokens : tokens[t].next # None => tokens[t].state = "revoked"
  /\ client \in [Clients -> [pc : {"out", "signing", "in", "refreshing"}, held : 0..MaxTokens]]
  /\ net \subseteq Requests /\ lookups \subseteq Requests
  /\ answers \subseteq [token : Tokens, rid : Clients \cup {NoClient}, next : Tokens]
  /\ ended \subseteq Tokens /\ revoked \subseteq Tokens /\ apple \in 0..MaxTokens
  /\ purge \in [pc : {"idle", "revoke", "forget", "scrub"}, apple : 0..MaxTokens]
  /\ purge.pc = "revoke" => purge.apple # None

\* A session is one chain (the single statement of auth_tokens.py:69-101): however its
\* refreshes are repeated or overlap, at most one of its tokens is live.
OneLiveTokenPerSession ==
  \A s, t \in Tokens : Live(s) /\ Live(t) /\ tokens[s].root = tokens[t].root => s = t

\* A client that lost the answer of a rotation can fetch it again
\* (migrations/009_refresh_rotation_replay.sql:1-2): as long as the client holds the old
\* token and nobody ended its session, the successor it was never told of is live.
LostAnswerCanBeRepeated ==
  \A c \in Clients :
    LET old == tokens[client[c].held] IN
    /\ client[c].pc = "refreshing" /\ c \notin Legacy
    /\ old.state = "revoked" /\ old.root \notin ended
    => old.rid = c /\ old.next # None /\ Live(old.next)

\* A repeated refresh never forks a session (auth_tokens.py:61, 120): all answers to one
\* request name one successor, and it belongs to the session of the token.
RepliesAgree ==
  \A a, b \in answers :
    a.token = b.token /\ a.rid = b.rid /\ a.rid # NoClient =>
      a.next = b.next /\ tokens[a.next].root = tokens[a.token].root

\* Logging out or deleting the account ends a session for good (auth_tokens.py:152-163,
\* store.py:622-630): no refresh sent before, delayed or repeated, leaves a live token in
\* it - not even one whose answer the client never saw.
EndedSessionsStayEnded == \A t \in Tokens : tokens[t].root \in ended => ~Live(t)

\* A rotation never answers a closed account (auth_tokens.py:76, 101, 128).
ClosedAccountGetsNoAnswer == [][closed /\ closed' => answers' = answers]_vars

\* "Scrub account-owned data and close its sessions atomically" (app/store.py:576): a
\* closed account has no live refresh token.  A sign-in that opened the profile before
\* the deletion inserts its token after it, and the next sign-in makes it usable.
ClosedAccountHasNoSession == closed => \A t \in Tokens : ~Live(t)

\* "Account deletion revokes the stored Apple refresh token"
\* (docs/SECURITY_RUNBOOK.md:36): a stored Apple token is only forgotten by a deletion
\* that revoked it.  The row is deleted by user, so a token stored by a sign-in while
\* Apple revoked its predecessor is forgotten and stays valid at Apple.
ForgottenAppleTokenIsRevoked ==
  [][apple # None /\ apple' = None => apple \in revoked]_vars
=============================================================================
