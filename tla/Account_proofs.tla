-------------------------- MODULE Account_proofs ---------------------------
(***************************************************************************)
(* Sessions, for any clients and any number of tokens: a session is one chain *)
(* of tokens with at most one live, a lost answer can be fetched again,       *)
(* repeated answers agree and an ended session stays ended.  Subscriptions,   *)
(* for any events, deliveries and faults: no event is dropped, and the profile *)
(* follows the time of the events.                                           *)
(*                                                                         *)
(* The invariant of the sessions says who may still move a chain.  All        *)
(* requests about a session come from the one client that holds it, a client  *)
(* that logged out has left it for ever, and the live token of a session is the    *)
(* one its client holds, or the successor of that one, which nobody has       *)
(* heard of yet: no request names it.                                        *)
(***************************************************************************)
EXTENDS MCAccount, TLAPS

Present(t) == tokens[t].state # "absent"
Root(t) == tokens[t].root
Holds(c) == client[c].pc \in {"in", "refreshing"}

\* Rows name rows: every row has a root, and its successor is a row of the same session.
RowsLinked ==
  \A t \in Tokens :
    /\ ~Present(t) => Root(t) = None
    /\ Present(t) => Root(t) \in Tokens /\ Present(Root(t))
    /\ tokens[t].next # None =>
         /\ tokens[t].rid # NoClient
         /\ Present(tokens[t].next) /\ Root(tokens[t].next) = Root(t)

\* Clients, requests and ended sessions name rows that exist.
NamesExist ==
  /\ \A c \in Clients : IF Holds(c) THEN client[c].held \in Tokens /\ Present(client[c].held)
                                    ELSE client[c].held = None
  /\ \A r \in net : Present(r.token)
  /\ lookups \subseteq net /\ \A r \in lookups : r.rid # NoClient
  /\ \A t \in ended : Present(t)

\* An answer tells what the row of its token says.
AnswersTrue ==
  \A a \in answers :
    /\ tokens[a.token].state = "revoked" /\ tokens[a.token].rid = a.rid
    /\ Present(a.next) /\ Root(a.next) = Root(a.token)
    /\ a.rid # NoClient => tokens[a.token].next = a.next

\* One client per session: all requests about it bear its id, and none holds it any more
\* once it logged out.
OneOwner ==
  /\ \A c, d \in Clients :
       Holds(c) /\ Holds(d) /\ Root(client[c].held) = Root(client[d].held) => c = d
  /\ \A r, s \in net : Root(r.token) = Root(s.token) => r.rid = s.rid
  /\ \A c \in Clients, r \in net :
       Holds(c) /\ Root(client[c].held) = Root(r.token) => r.rid = Rid(c) /\ r.kind # "logout"

\* A live token of the session of t is t itself, or its unheard-of successor.
Frontier(t, rid) ==
  \A s \in Tokens :
    Live(s) /\ Root(s) = Root(t) /\ s # t =>
      tokens[t].rid = rid /\ tokens[t].next = s /\ \A r \in net : r.token # s

FrontierKnown ==
  /\ \A c \in Clients \ Legacy : Holds(c) => Frontier(client[c].held, c)
  /\ \A r \in net : r.kind = "logout" /\ r.rid # NoClient => Frontier(r.token, r.rid)

\* LostAnswerCanBeRepeated, also for a client that does not know yet that it lost one.
SuccessorWaits ==
  \A c \in Clients \ Legacy :
    Holds(c) /\ tokens[client[c].held].state = "revoked" /\ Root(client[c].held) \notin ended =>
      LET old == tokens[client[c].held] IN old.rid = c /\ old.next # None /\ Live(old.next)

\* The inductive invariant.
SInv ==
  /\ TypeOK /\ RowsLinked /\ NamesExist /\ AnswersTrue /\ OneOwner /\ FrontierKnown
  /\ SuccessorWaits /\ OneLiveTokenPerSession /\ EndedSessionsStayEnded

-----------------------------------------------------------------------------
(* Facts used in many places *)

Rows == [state : {"absent", "live", "revoked"}, root : 0..MaxTokens, expired : BOOLEAN,
         rid : Clients \cup {NoClient}, retry : BOOLEAN, next : 0..MaxTokens]

\* The parts of SInv that speak of a row, a client or a request, one at a time.
LEMMA Shapes ==
  ASSUME SInv
  PROVE  /\ tokens \in [Tokens -> Rows]
         /\ client \in [Clients -> [pc : {"out", "signing", "in", "refreshing"}, held : 0..MaxTokens]]
         /\ net \subseteq Requests
         /\ \A a \in answers : a.token \in Tokens /\ a.next \in Tokens
         /\ \A t \in Tokens : tokens[t].next # None => tokens[t].next \in Tokens
         /\ None \notin Tokens
BY DEF SInv, TypeOK, Rows, Tokens, None, Requests

LEMMA NoTokenIsRow == ASSUME SessionAssumption PROVE NoToken \in Rows /\ None \in 0..MaxTokens
<1>1. None \in 0..MaxTokens
  BY DEF SessionAssumption, None
<1> QED
  BY <1>1 DEF NoToken, Rows

\* The row of a new token.
LEMMA NewToken ==
  ASSUME SessionAssumption, NEW root \in Tokens
  PROVE  [NoToken EXCEPT !.state = "live", !.root = root] \in Rows
<1>1. root \in 0..MaxTokens
  BY DEF SessionAssumption, Tokens
<1> QED
  BY <1>1, NoTokenIsRow DEF Rows

LEMMA RidType == \A c \in Clients : Rid(c) \in Clients \cup {NoClient}
BY DEF Rid

\* A client with a request id is named by it.
LEMMA RidNames == \A c \in Clients : (Rid(c) # NoClient) => c \notin Legacy /\ Rid(c) = c
BY DEF Rid

LEMMA NewcomersRid ==
  ASSUME SessionAssumption PROVE \A c \in Clients \ Legacy : Rid(c) = c /\ Rid(c) # NoClient
BY SessionAssumption DEF SessionAssumption, Rid

-----------------------------------------------------------------------------
(* Init *)

LEMMA InitSInv == ASSUME SessionAssumption, Init PROVE SInv
<1>1. /\ \A t \in Tokens : tokens[t] = NoToken
      /\ \A c \in Clients : client[c] = SignedOut
      /\ net = {} /\ lookups = {} /\ answers = {} /\ ended = {}
  BY DEF Init
<1>2. TypeOK
  <2>1. None \in 0..MaxTokens
    BY NoTokenIsRow
  <2>2. NoToken \in Rows /\ NoToken.next = None
    BY NoTokenIsRow DEF NoToken
  <2>3. tokens \in [Tokens -> Rows] /\ \A t \in Tokens : tokens[t].next = None
    BY <2>2 DEF Init
  <2>4. client \in [Clients -> [pc : {"out", "signing", "in", "refreshing"}, held : 0..MaxTokens]]
    BY <2>1 DEF Init, SignedOut
  <2>5. purge \in [pc : {"idle", "revoke", "forget", "scrub"}, apple : 0..MaxTokens] /\ purge.pc # "revoke"
    BY <2>1 DEF Init, NoPurge
  <2> QED
    BY <2>1, <2>3, <2>4, <2>5 DEF Init, TypeOK, Rows
<1>3. \A t \in Tokens : ~Present(t) /\ ~Live(t) /\ tokens[t].next = None /\ Root(t) = None
  BY <1>1 DEF Present, Live, Root, NoToken
<1>4. \A c \in Clients : ~Holds(c) /\ client[c].held = None
  BY <1>1 DEF Holds, SignedOut
<1> QED
  BY <1>1, <1>2, <1>3, <1>4
  DEF SInv, RowsLinked, NamesExist, AnswersTrue, OneOwner, FrontierKnown, SuccessorWaits,
      OneLiveTokenPerSession, EndedSessionsStayEnded

-----------------------------------------------------------------------------
(* Steps of Apple's token and of the clock *)

LEMMA QuietStep ==
  ASSUME SInv, TypeOK', UNCHANGED <<tokens, client, net, lookups, answers, ended>>
  PROVE  SInv'
BY DEF SInv, RowsLinked, NamesExist, AnswersTrue, OneOwner, Frontier, FrontierKnown,
       SuccessorWaits, OneLiveTokenPerSession, EndedSessionsStayEnded, Present, Root, Holds, Live

\* Tokens that expire or whose retry window closes.
LEMMA AgeingStep ==
  ASSUME SInv, TypeOK', UNCHANGED <<client, net, lookups, answers, ended>>,
         \A t \in Tokens :
           /\ tokens'[t].state = tokens[t].state /\ tokens'[t].root = tokens[t].root
           /\ tokens'[t].rid = tokens[t].rid /\ tokens'[t].next = tokens[t].next
  PROVE  SInv'
<1>1. \A t \in Tokens : /\ (Present(t)' <=> Present(t)) /\ Root(t)' = Root(t) /\ (Live(t)' <=> Live(t))
                        /\ tokens'[t].rid = tokens[t].rid /\ tokens'[t].next = tokens[t].next
                        /\ tokens'[t].state = tokens[t].state
  BY DEF Present, Root, Live
<1>2. \A c \in Clients : (Holds(c)' <=> Holds(c)) /\ client'[c] = client[c]
  BY DEF Holds
<1>3. /\ \A r \in net : r.token \in Tokens
      /\ \A c \in Clients : Holds(c) => client[c].held \in Tokens
      /\ ended \subseteq Tokens
  BY Shapes DEF SInv, Requests, NamesExist, TypeOK
<1>4. RowsLinked'
  BY <1>1, Shapes DEF SInv, RowsLinked
<1>5. NamesExist'
  BY <1>1, <1>2, <1>3 DEF SInv, NamesExist
<1>6. AnswersTrue'
  BY <1>1, Shapes DEF SInv, AnswersTrue
<1>7. OneOwner'
  BY <1>1, <1>2, <1>3 DEF SInv, OneOwner
<1>8. FrontierKnown'
  BY <1>1, <1>2, <1>3 DEF SInv, FrontierKnown, Frontier
<1>9. SuccessorWaits'
  BY <1>1, <1>2, <1>3, Shapes DEF SInv, SuccessorWaits
<1>10. OneLiveTokenPerSession' /\ EndedSessionsStayEnded'
  BY <1>1 DEF SInv, OneLiveTokenPerSession, EndedSessionsStayEnded, Root
<1> QED
  BY <1>4, <1>5, <1>6, <1>7, <1>8, <1>9, <1>10 DEF SInv

-----------------------------------------------------------------------------
(* Clients *)

\* Clients that give up what they hold, and refreshes that found no row to rotate.
LEMMA LeavingStep ==
  ASSUME SInv, TypeOK', UNCHANGED <<tokens, net, answers, ended>>,
         \A c \in Clients :
           \/ client'[c] = client[c]
           \/ client'[c].pc \in {"out", "signing"} /\ client'[c].held = None,
         \A r \in lookups' : r \in lookups \/ (r \in net /\ r.rid # NoClient)
  PROVE  SInv'
<1>1. \A t : (Present(t)' <=> Present(t)) /\ Root(t)' = Root(t) /\ (Live(t)' <=> Live(t))
  BY DEF Present, Root, Live
<1>2. \A c \in Clients : Holds(c)' => Holds(c) /\ client'[c] = client[c]
  BY DEF Holds
<1>3. \A c \in Clients : ~Holds(c)' => client'[c].held = None
  BY DEF SInv, NamesExist, Holds
<1>4. NamesExist'
  BY <1>1, <1>2, <1>3 DEF SInv, NamesExist
<1>5. RowsLinked' /\ AnswersTrue' /\ OneLiveTokenPerSession' /\ EndedSessionsStayEnded'
  BY <1>1 DEF SInv, RowsLinked, AnswersTrue, OneLiveTokenPerSession, EndedSessionsStayEnded
<1>6. OneOwner'
  BY <1>1, <1>2 DEF SInv, OneOwner
<1>7. FrontierKnown'
  BY <1>1, <1>2 DEF SInv, FrontierKnown, Frontier
<1>8. SuccessorWaits'
  BY <1>1, <1>2 DEF SInv, SuccessorWaits
<1> QED
  BY <1>4, <1>5, <1>6, <1>7, <1>8 DEF SInv

LEMMA AskRefreshStep == ASSUME SInv, NEW c \in Clients, AskRefresh(c) PROVE SInv'
<1> DEFINE r0 == [kind |-> "refresh", token |-> client[c].held, rid |-> Rid(c)]
<1>1. /\ UNCHANGED <<tokens, lookups, answers, ended>> /\ net' = net \cup {r0}
      /\ Holds(c) /\ client[c].held \in Tokens /\ Present(client[c].held)
  BY DEF AskRefresh, SInv, NamesExist, Holds
<1>2. \A d \in Clients : (Holds(d)' <=> Holds(d)) /\ client'[d].held = client[d].held
  BY Shapes DEF AskRefresh, Become, Holds
<1>3. \A t : (Present(t)' <=> Present(t)) /\ Root(t)' = Root(t) /\ (Live(t)' <=> Live(t))
  BY <1>1 DEF Present, Root, Live
<1>4. r0 \in Requests /\ r0.token = client[c].held /\ r0.rid = Rid(c) /\ r0.kind = "refresh"
  BY <1>1, RidType DEF Requests
<1>5. TypeOK'
  <2>1. client' \in [Clients -> [pc : {"out", "signing", "in", "refreshing"}, held : 0..MaxTokens]]
    BY <1>1, Shapes DEF AskRefresh, Become
  <2> QED
    BY <1>1, <1>4, <2>1 DEF SInv, TypeOK, AskRefresh, appleVars
<1> HIDE DEF r0
<1>6. NamesExist'
  BY <1>1, <1>2, <1>3, <1>4 DEF SInv, NamesExist
<1>7. RowsLinked' /\ AnswersTrue' /\ OneLiveTokenPerSession' /\ EndedSessionsStayEnded'
  BY <1>1, <1>3 DEF SInv, RowsLinked, AnswersTrue, OneLiveTokenPerSession, EndedSessionsStayEnded
<1>8. OneOwner'
  BY <1>1, <1>2, <1>3, <1>4 DEF SInv, OneOwner
<1>9. FrontierKnown'
  <2>1. ASSUME NEW d \in Clients \ Legacy, Holds(d)' PROVE Frontier(client[d].held, d)'
    <3>1. \A s \in Tokens : Root(s) = Root(client[d].held) /\ s # client[d].held => r0.token # s
      BY <2>1, <1>1, <1>2, <1>4 DEF SInv, OneOwner
    <3> QED
      BY <2>1, <3>1, <1>1, <1>2, <1>3 DEF SInv, FrontierKnown, Frontier
  <2>2. ASSUME NEW r \in net', r.kind = "logout", r.rid # NoClient PROVE Frontier(r.token, r.rid)'
    <3>1. r \in net /\ \A s \in Tokens : Root(s) = Root(r.token) => r0.token # s
      BY <2>2, <1>1, <1>4 DEF SInv, OneOwner
    <3> QED
      BY <2>2, <3>1, <1>1, <1>3 DEF SInv, FrontierKnown, Frontier
  <2> QED
    BY <2>1, <2>2 DEF FrontierKnown
<1>10. SuccessorWaits'
  BY <1>1, <1>2, <1>3 DEF SInv, SuccessorWaits
<1> QED
  BY <1>5, <1>6, <1>7, <1>8, <1>9, <1>10 DEF SInv

LEMMA AskLogoutStep ==
  ASSUME SessionAssumption, SInv, NEW c \in Clients, AskLogout(c) PROVE SInv'
<1>0. PICK r0 : r0 = [kind |-> "logout", token |-> client[c].held, rid |-> Rid(c)]
  OBVIOUS
<1>1. /\ UNCHANGED <<tokens, lookups, answers, ended>> /\ net' = net \cup {r0}
      /\ Holds(c) /\ client[c].held \in Tokens /\ Present(client[c].held)
  BY <1>0 DEF AskLogout, SInv, NamesExist, Holds
<1>2. /\ ~Holds(c)' /\ client'[c].held = None
      /\ \A d \in Clients \ {c} : (Holds(d)' <=> Holds(d)) /\ client'[d] = client[d]
  BY Shapes DEF AskLogout, Become, Holds
<1>3. \A t : (Present(t)' <=> Present(t)) /\ Root(t)' = Root(t) /\ (Live(t)' <=> Live(t))
  BY <1>1 DEF Present, Root, Live
<1>4. r0 \in Requests /\ r0.token = client[c].held /\ r0.rid = Rid(c) /\ r0.kind = "logout"
  BY <1>0, <1>1, RidType DEF Requests
<1>5. TypeOK'
  <2>1. client' \in [Clients -> [pc : {"out", "signing", "in", "refreshing"}, held : 0..MaxTokens]]
    <3>1. None \in 0..MaxTokens
      BY DEF SessionAssumption, None
    <3> QED
      BY <3>1, Shapes DEF AskLogout, Become
  <2> QED
    BY <1>1, <1>4, <2>1 DEF SInv, TypeOK, AskLogout, appleVars
<1>6. NamesExist'
  BY <1>1, <1>2, <1>3, <1>4 DEF SInv, NamesExist
<1>7. RowsLinked' /\ AnswersTrue' /\ OneLiveTokenPerSession' /\ EndedSessionsStayEnded'
  BY <1>1, <1>3 DEF SInv, RowsLinked, AnswersTrue, OneLiveTokenPerSession, EndedSessionsStayEnded
<1>8. OneOwner'
  BY <1>1, <1>2, <1>3, <1>4 DEF SInv, OneOwner
<1>9. FrontierKnown'
  <2>1. ASSUME NEW d \in Clients \ Legacy, Holds(d)' PROVE Frontier(client[d].held, d)'
    <3>1. d # c /\ \A s \in Tokens : Root(s) = Root(client[d].held) => r0.token # s
      BY <2>1, <1>1, <1>2, <1>4 DEF SInv, OneOwner
    <3> QED
      BY <2>1, <3>1, <1>1, <1>2, <1>3 DEF SInv, FrontierKnown, Frontier
  <2>2. ASSUME NEW r \in net, r.kind = "logout", r.rid # NoClient PROVE Frontier(r.token, r.rid)'
    <3>1. \A s \in Tokens : Root(s) = Root(r.token) => r0.token # s
      BY <2>2, <1>1, <1>4 DEF SInv, OneOwner
    <3> QED
      BY <2>2, <3>1, <1>1, <1>3 DEF SInv, FrontierKnown, Frontier
  <2>3. ASSUME r0.rid # NoClient PROVE Frontier(r0.token, r0.rid)'
    <3>1. c \in Clients \ Legacy /\ Rid(c) = c
      BY <2>3, <1>4, RidNames
    <3> QED
      BY <3>1, <1>1, <1>3, <1>4 DEF SInv, FrontierKnown, Frontier
  <2> QED
    BY <1>1, <2>1, <2>2, <2>3 DEF FrontierKnown
<1>10. SuccessorWaits'
  BY <1>1, <1>2, <1>3 DEF SInv, SuccessorWaits
<1> QED
  BY <1>5, <1>6, <1>7, <1>8, <1>9, <1>10 DEF SInv

LEMMA ReceiveTokenStep ==
  ASSUME SessionAssumption, SInv, NEW c \in Clients, ReceiveToken(c) PROVE SInv'
<1>1. PICK a \in answers : a.token = client[c].held /\ a.rid = Rid(c) /\ Become(c, "in", a.next)
  BY DEF ReceiveToken
<1>2. /\ UNCHANGED <<tokens, net, lookups, answers, ended>>
      /\ Holds(c) /\ client[c].held \in Tokens
  BY DEF ReceiveToken, SInv, NamesExist, Holds
<1>3. /\ Holds(c)' /\ client'[c].held = a.next
      /\ \A d \in Clients \ {c} : (Holds(d)' <=> Holds(d)) /\ client'[d] = client[d]
  BY <1>1, Shapes DEF Become, Holds
<1>4. \A t : (Present(t)' <=> Present(t)) /\ Root(t)' = Root(t) /\ (Live(t)' <=> Live(t))
  BY <1>2 DEF Present, Root, Live
<1>5. /\ a.next \in Tokens /\ Present(a.next) /\ Root(a.next) = Root(client[c].held)
      /\ tokens[client[c].held].state = "revoked"
      /\ c \notin Legacy => tokens[client[c].held].next = a.next
  BY <1>1, Shapes, NewcomersRid DEF SInv, AnswersTrue
<1>6. TypeOK'
  <2>1. client' \in [Clients -> [pc : {"out", "signing", "in", "refreshing"}, held : 0..MaxTokens]]
    BY <1>1, <1>5, Shapes DEF Become, Tokens
  <2> QED
    BY <1>2, <2>1 DEF SInv, TypeOK, ReceiveToken, appleVars
<1>7. NamesExist'
  BY <1>2, <1>3, <1>4, <1>5 DEF SInv, NamesExist
<1>8. RowsLinked' /\ AnswersTrue' /\ OneLiveTokenPerSession' /\ EndedSessionsStayEnded'
  BY <1>2, <1>4 DEF SInv, RowsLinked, AnswersTrue, OneLiveTokenPerSession, EndedSessionsStayEnded
<1>9. OneOwner'
  <2>1. \A d \in Clients : Holds(d)' => Holds(d) /\ Root(client'[d].held) = Root(client[d].held)
    BY <1>2, <1>3, <1>5
  <2> QED
    BY <2>1, <1>2, <1>4 DEF SInv, OneOwner
<1>10. FrontierKnown'
  <2>1. ASSUME NEW d \in Clients \ Legacy, Holds(d)', d # c PROVE Frontier(client[d].held, d)'
    BY <2>1, <1>2, <1>3, <1>4 DEF SInv, FrontierKnown, Frontier
  <2>2. ASSUME c \notin Legacy PROVE Frontier(client[c].held, c)'
    <3>1. Frontier(client[c].held, c)
      BY <2>2, <1>2 DEF SInv, FrontierKnown
    <3>2. \A s \in Tokens : Live(s) /\ Root(s) = Root(a.next) => s = a.next
      BY <3>1, <2>2, <1>5 DEF Frontier, Live
    <3> QED
      BY <3>2, <1>2, <1>3, <1>4 DEF Frontier
  <2>3. \A r \in net : r.kind = "logout" /\ r.rid # NoClient => Frontier(r.token, r.rid)'
    BY <1>2, <1>4 DEF SInv, FrontierKnown, Frontier
  <2> QED
    BY <1>2, <2>1, <2>2, <2>3 DEF FrontierKnown
<1>11. SuccessorWaits'
  <2>1. ASSUME c \notin Legacy, tokens[a.next].state = "revoked", Root(a.next) \notin ended PROVE FALSE
    BY <2>1, <1>2, <1>5 DEF SInv, SuccessorWaits, Live
  <2> QED
    BY <2>1, <1>2, <1>3, <1>4 DEF SInv, SuccessorWaits
<1> QED
  BY <1>6, <1>7, <1>8, <1>9, <1>10, <1>11 DEF SInv

LEMMA ReplayStep == ASSUME SInv, NEW r \in lookups, Replay(r) PROVE SInv'
<1> DEFINE a0 == [token |-> r.token, rid |-> r.rid, next |-> tokens[r.token].next]
<1>1. /\ UNCHANGED <<tokens, client, net, ended>> /\ lookups' \subseteq lookups
      /\ answers' = answers \cup {a0}
  BY DEF Replay
<1>2. /\ r.token \in Tokens /\ r.rid \in Clients \cup {NoClient}
      /\ tokens[r.token].state = "revoked" /\ tokens[r.token].rid = r.rid
      /\ tokens[r.token].next # None /\ tokens[r.token].next \in Tokens
      /\ Present(tokens[r.token].next) /\ Root(tokens[r.token].next) = Root(r.token)
  BY Shapes DEF Replay, Replays, SInv, NamesExist, RowsLinked, Requests
<1>3. \A t : (Present(t)' <=> Present(t)) /\ Root(t)' = Root(t) /\ (Live(t)' <=> Live(t))
  BY <1>1 DEF Present, Root, Live
<1>4. \A c : Holds(c)' <=> Holds(c)
  BY <1>1 DEF Holds
<1>5. TypeOK'
  BY <1>1, <1>2 DEF SInv, TypeOK, Replay, appleVars
<1>6. AnswersTrue'
  BY <1>1, <1>2, <1>3 DEF SInv, AnswersTrue
<1>7. NamesExist'
  BY <1>1, <1>3, <1>4 DEF SInv, NamesExist
<1>8. RowsLinked' /\ OneLiveTokenPerSession' /\ EndedSessionsStayEnded'
  BY <1>1, <1>3 DEF SInv, RowsLinked, OneLiveTokenPerSession, EndedSessionsStayEnded
<1>9. OneOwner' /\ FrontierKnown' /\ SuccessorWaits'
  BY <1>1, <1>3, <1>4 DEF SInv, OneOwner, FrontierKnown, Frontier, SuccessorWaits
<1> QED
  BY <1>5, <1>6, <1>7, <1>8, <1>9 DEF SInv

-----------------------------------------------------------------------------
(* Tokens *)

LEMMA IssueTokenStep ==
  ASSUME SessionAssumption, SInv, NEW c \in Clients, IssueToken(c) PROVE SInv'
<1>1. PICK t \in NextToken :
        /\ tokens' = [tokens EXCEPT ![t] = [NoToken EXCEPT !.state = "live", !.root = t]]
        /\ Become(c, "in", t)
  BY DEF IssueToken
<1>2. /\ UNCHANGED <<net, lookups, answers, ended>>
      /\ ~Holds(c) /\ t \in Tokens /\ ~Present(t)
  BY <1>1 DEF IssueToken, Holds, NextToken, Free, Present
<1>3. /\ Holds(c)' /\ client'[c].held = t
      /\ \A d \in Clients \ {c} : (Holds(d)' <=> Holds(d)) /\ client'[d] = client[d]
  BY <1>1, Shapes DEF Become, Holds
<1>4. /\ tokens'[t].state = "live" /\ tokens'[t].root = t /\ tokens'[t].next = None
      /\ \A s \in Tokens \ {t} : tokens'[s] = tokens[s]
  BY <1>1, <1>2, Shapes DEF NoToken
<1>5. /\ Present(t)' /\ Root(t)' = t /\ Live(t)'
      /\ \A s \in Tokens \ {t} : /\ (Present(s)' <=> Present(s)) /\ Root(s)' = Root(s)
                                 /\ (Live(s)' <=> Live(s)) /\ tokens'[s] = tokens[s]
  BY <1>4 DEF Present, Root, Live
<1>6. \A s \in Tokens : Root(s) # t
  BY <1>2, Shapes DEF SInv, RowsLinked
<1>7. /\ \A r \in net : r.token \in Tokens \ {t} /\ Present(r.token)
      /\ \A d \in Clients : Holds(d) => client[d].held \in Tokens \ {t}
      /\ \A a \in answers : a.token \in Tokens \ {t} /\ a.next \in Tokens \ {t}
      /\ t \notin ended
  BY <1>2, Shapes DEF SInv, NamesExist, AnswersTrue, Requests, Present
<1>8. TypeOK'
  <2>1. client' \in [Clients -> [pc : {"out", "signing", "in", "refreshing"}, held : 0..MaxTokens]]
    BY <1>1, <1>2, Shapes DEF Become, Tokens
  <2>2. [NoToken EXCEPT !.state = "live", !.root = t] \in Rows
    BY <1>2, NewToken
  <2>3. tokens' \in [Tokens -> Rows]
    BY <1>1, <2>2, Shapes
  <2>4. \A s \in Tokens : tokens'[s].next # None => tokens'[s].state = "revoked"
    BY <1>4 DEF SInv, TypeOK
  <2> QED
    BY <1>2, <2>1, <2>3, <2>4 DEF SInv, TypeOK, IssueToken, appleVars, Rows
<1>9. RowsLinked'
  <2>1. ASSUME NEW s \in Tokens \ {t}
        PROVE  /\ ~Present(s)' => Root(s)' = None
               /\ Present(s)' => Root(s)' \in Tokens /\ Present(tokens[s].root)'
               /\ tokens'[s].next # None =>
                    /\ tokens'[s].rid # NoClient
                    /\ Present(tokens[s].next)' /\ Root(tokens[s].next)' = Root(s)'
    BY <2>1, <1>2, <1>5, Shapes DEF SInv, RowsLinked, Root
  <2> QED
    BY <2>1, <1>2, <1>4, <1>5 DEF RowsLinked, Root
<1>10. NamesExist'
  <2>1. \A d \in Clients : IF Holds(d)' THEN client'[d].held \in Tokens /\ Present(client[d].held)'
                                        ELSE client'[d].held = None
    BY <1>2, <1>3, <1>5, <1>7 DEF SInv, NamesExist
  <2>2. \A r \in net : Present(r.token)'
    BY <1>5, <1>7
  <2>3. \A s \in ended : Present(s)'
    BY <1>5, <1>7 DEF SInv, NamesExist, TypeOK
  <2> QED
    BY <1>2, <2>1, <2>2, <2>3 DEF SInv, NamesExist
<1>11. AnswersTrue'
  BY <1>2, <1>5, <1>7 DEF SInv, AnswersTrue
<1>12. OneOwner'
  <2>1. \A d \in Clients \ {c} : Holds(d)' =>
          Holds(d) /\ Root(client[d].held)' = Root(client[d].held) /\ Root(client[d].held)' # t
    BY <1>3, <1>5, <1>6, <1>7
  <2>2. \A r \in net : Root(r.token)' = Root(r.token) /\ Root(r.token)' # t
    BY <1>5, <1>6, <1>7
  <2>3. Root(client[c].held)' = t
    BY <1>3, <1>5
  <2>4. \A d, e \in Clients :
          Holds(d)' /\ Holds(e)' /\ Root(client[d].held)' = Root(client[e].held)' => d = e
    BY <1>3, <2>1, <2>3 DEF SInv, OneOwner
  <2>5. \A d \in Clients, r \in net :
          Holds(d)' /\ Root(client[d].held)' = Root(r.token)' => r.rid = Rid(d) /\ r.kind # "logout"
    BY <1>3, <2>1, <2>2, <2>3 DEF SInv, OneOwner
  <2> QED
    BY <1>2, <2>2, <2>4, <2>5 DEF SInv, OneOwner
<1>13. FrontierKnown'
  <2>1. ASSUME NEW h \in Tokens \ {t}, NEW rid, Frontier(h, rid) PROVE Frontier(h, rid)'
    BY <2>1, <1>2, <1>5, <1>6 DEF Frontier
  <2>2. Frontier(t, c)'
    BY <1>5, <1>6 DEF Frontier
  <2> QED
    BY <1>2, <1>3, <1>7, <2>1, <2>2 DEF SInv, FrontierKnown
<1>14. SuccessorWaits'
  <2> SUFFICES ASSUME NEW d \in Clients \ Legacy, Holds(d)', tokens'[client'[d].held].state = "revoked",
                      Root(client[d].held)' \notin ended
               PROVE  /\ tokens'[client'[d].held].rid = d /\ tokens'[client'[d].held].next # None
                      /\ Live(tokens[client[d].held].next)'
    BY <1>2 DEF SuccessorWaits
  <2>1. d # c /\ Holds(d) /\ client'[d].held = client[d].held
    BY <1>3, <1>4
  <2>2. PICK h \in Tokens \ {t} : h = client[d].held /\ tokens'[h] = tokens[h] /\ Root(h)' = Root(h)
    BY <2>1, <1>5, <1>7
  <2>3. tokens[h].rid = d /\ tokens[h].next # None /\ Live(tokens[h].next)
    BY <2>1, <2>2 DEF SInv, SuccessorWaits
  <2>4. tokens[h].next \in Tokens \ {t}
    BY <2>2, <2>3, <1>2, Shapes DEF Live, Present
  <2> QED
    BY <2>1, <2>2, <2>3, <2>4, <1>5
<1>15. OneLiveTokenPerSession'
  <2>1. \A s, u \in Tokens : Live(s)' /\ Live(u)' /\ Root(s)' = Root(u)' => s = u
    BY <1>5, <1>6 DEF SInv, OneLiveTokenPerSession, Root
  <2> QED
    BY <2>1 DEF OneLiveTokenPerSession, Root
<1>16. EndedSessionsStayEnded'
  <2>1. \A s \in Tokens : Root(s)' \in ended => ~Live(s)'
    BY <1>5, <1>7 DEF SInv, EndedSessionsStayEnded, Root
  <2> QED
    BY <1>2, <2>1 DEF EndedSessionsStayEnded, Root
<1> QED
  BY <1>8, <1>9, <1>10, <1>11, <1>12, <1>13, <1>14, <1>15, <1>16 DEF SInv

LEMMA RotateStep == ASSUME SessionAssumption, SInv, NEW r \in net, Rotate(r) PROVE SInv'
<1>1. PICK t \in NextToken :
        /\ tokens' = [tokens EXCEPT ![r.token] = Rotated(r.token, r.rid, t),
                                    ![t] = [NoToken EXCEPT !.state = "live",
                                                           !.root = tokens[r.token].root]]
        /\ answers' = answers \cup {[token |-> r.token, rid |-> r.rid, next |-> t]}
  BY DEF Rotate
<1>2. /\ UNCHANGED <<client, net, lookups, ended>>
      /\ r.token \in Tokens /\ r.rid \in Clients \cup {NoClient} /\ r.kind = "refresh"
      /\ Live(r.token) /\ t \in Tokens /\ ~Present(t) /\ t # r.token
  BY <1>1, Shapes DEF Rotate, Rotates, NextToken, Free, Present, Requests, Live
<1>3. PICK R \in Tokens : R = Root(r.token) /\ Present(R)
  BY <1>2 DEF SInv, RowsLinked, Present, Live
<1>4. /\ tokens'[t].state = "live" /\ tokens'[t].root = R /\ tokens'[t].next = None
      /\ tokens'[r.token].state = "revoked" /\ tokens'[r.token].root = R
      /\ tokens'[r.token].rid = r.rid
      /\ tokens'[r.token].next = IF r.rid = NoClient THEN None ELSE t
      /\ \A s \in Tokens \ {t, r.token} : tokens'[s] = tokens[s]
  <2>1. /\ tokens'[t] = [NoToken EXCEPT !.state = "live", !.root = tokens[r.token].root]
        /\ tokens'[r.token] = Rotated(r.token, r.rid, t)
        /\ \A s \in Tokens \ {t, r.token} : tokens'[s] = tokens[s]
    BY <1>1, <1>2, Shapes
  <2>2. /\ tokens'[t].state = "live" /\ tokens'[t].root = R /\ tokens'[t].next = None
    BY <2>1, <1>3 DEF NoToken, Root
  <2>3. PICK old \in Rows : old = tokens[r.token] /\ old.root = R
    BY <1>2, <1>3, Shapes DEF Root
  <2>4. PICK next : next = IF r.rid = NoClient THEN None ELSE t
    OBVIOUS
  <2>5. PICK retry : retry = (r.rid # NoClient)
    OBVIOUS
  <2>6. tokens'[r.token] = [old EXCEPT !.state = "revoked", !.rid = r.rid, !.retry = retry, !.next = next]
    BY ONLY <2>1, <2>3, <2>4, <2>5, Zenon DEF Rotated
  <2>7. /\ tokens'[r.token].state = "revoked" /\ tokens'[r.token].root = R
        /\ tokens'[r.token].rid = r.rid /\ tokens'[r.token].next = next
    BY <2>3, <2>6 DEF Rows
  <2> QED
    BY <2>1, <2>2, <2>4, <2>7
<1>5. /\ Present(t)' /\ Root(t)' = R /\ Live(t)'
      /\ Present(r.token)' /\ Present(r.token) /\ Root(r.token)' = R /\ ~Live(r.token)'
      /\ \A s \in Tokens \ {t, r.token} :
           /\ (Present(s)' <=> Present(s)) /\ Root(s)' = Root(s)
           /\ (Live(s)' <=> Live(s)) /\ tokens'[s] = tokens[s]
  BY <1>2, <1>4 DEF Present, Root, Live
<1>6. \A s \in Tokens : s # t => /\ (Present(s)' <=> Present(s)) /\ Root(s)' = Root(s)
                                 /\ (Live(s)' => Live(s))
  BY <1>3, <1>5
<1>7. /\ \A s \in net : s.token \in Tokens \ {t} /\ Present(s.token)
      /\ \A d \in Clients : Holds(d) => client[d].held \in Tokens \ {t} /\ Present(client[d].held)
      /\ \A a \in answers : a.token \in Tokens \ {t, r.token} /\ a.next \in Tokens \ {t}
      /\ t \notin ended /\ ended \subseteq Tokens
  BY <1>2, Shapes DEF SInv, NamesExist, AnswersTrue, Requests, Present, Live, TypeOK
<1>8. \A d : Holds(d)' <=> Holds(d)
  BY <1>2 DEF Holds
<1>9. \A s \in Tokens : Live(s) /\ Root(s) = R => s = r.token
  BY <1>2, <1>3 DEF SInv, OneLiveTokenPerSession, Root
<1>10. TypeOK'
  <2>1. [NoToken EXCEPT !.state = "live", !.root = tokens[r.token].root] \in Rows
    BY <1>3, NewToken DEF Root
  <2>2. Rotated(r.token, r.rid, t) \in Rows
    <3>1. PICK retry \in BOOLEAN : retry = (r.rid # NoClient)
      OBVIOUS
    <3>2. PICK next \in 0..MaxTokens : next = IF r.rid = NoClient THEN None ELSE t
      BY <1>2, NoTokenIsRow DEF Tokens, SessionAssumption
    <3>3. PICK old \in Rows : old = tokens[r.token]
      BY <1>2, Shapes
    <3>4. PICK rid \in Clients \cup {NoClient} : rid = r.rid
      BY <1>2
    <3>5. Rotated(r.token, r.rid, t)
            = [old EXCEPT !.state = "revoked", !.rid = rid, !.retry = retry, !.next = next]
      BY ONLY <3>1, <3>2, <3>3, <3>4, Zenon DEF Rotated
    <3>6. /\ old \in Rows /\ rid \in Clients \cup {NoClient}
          /\ retry \in BOOLEAN /\ next \in 0..MaxTokens
      BY <3>1, <3>2, <3>3, <3>4
    <3>7. [old EXCEPT !.state = "revoked", !.rid = rid, !.retry = retry, !.next = next] \in Rows
      BY ONLY <3>6 DEF Rows
    <3> QED
      BY ONLY <3>5, <3>7, Zenon
  <2>3. tokens' \in [Tokens -> Rows]
    BY <1>1, <2>1, <2>2, Shapes
  <2>4. \A s \in Tokens : tokens'[s].next # None => tokens'[s].state = "revoked"
    BY <1>4 DEF SInv, TypeOK
  <2>5. answers' \subseteq [token : Tokens, rid : Clients \cup {NoClient}, next : Tokens]
    BY <1>1, <1>2 DEF SInv, TypeOK
  <2> QED
    BY <1>2, <2>3, <2>4, <2>5 DEF SInv, TypeOK, Rotate, appleVars, Rows
<1>11. RowsLinked'
  <2>1. ASSUME NEW s \in Tokens \ {t, r.token}
        PROVE  /\ ~Present(s)' => Root(s)' = None
               /\ Present(s)' => Root(s)' \in Tokens /\ Present(tokens[s].root)'
               /\ tokens'[s].next # None =>
                    /\ tokens'[s].rid # NoClient
                    /\ Present(tokens[s].next)' /\ Root(tokens[s].next)' = Root(s)'
    BY <2>1, <1>2, <1>5, <1>6, Shapes DEF SInv, RowsLinked, Root
  <2> QED
    BY <2>1, <1>2, <1>3, <1>4, <1>5, <1>6 DEF RowsLinked, Root
<1>12. NamesExist'
  <2>1. \A d \in Clients : IF Holds(d)' THEN client'[d].held \in Tokens /\ Present(client[d].held)'
                                        ELSE client'[d].held = None
    BY <1>2, <1>6, <1>7, <1>8 DEF SInv, NamesExist
  <2>2. \A s \in net : Present(s.token)'
    BY <1>6, <1>7
  <2>3. \A s \in ended : Present(s)'
    BY <1>6, <1>7 DEF SInv, NamesExist
  <2> QED
    BY <1>2, <2>1, <2>2, <2>3 DEF SInv, NamesExist
<1>13. AnswersTrue'
  <2>1. ASSUME NEW a \in answers
        PROVE  /\ tokens'[a.token].state = "revoked" /\ tokens'[a.token].rid = a.rid
               /\ Present(a.next)' /\ Root(a.next)' = Root(a.token)'
               /\ a.rid # NoClient => tokens'[a.token].next = a.next
    BY <1>5, <1>6, <1>7 DEF SInv, AnswersTrue
  <2>2. PICK a0 : a0 = [token |-> r.token, rid |-> r.rid, next |-> t]
    OBVIOUS
  <2>3. /\ tokens'[a0.token].state = "revoked" /\ tokens'[a0.token].rid = a0.rid
        /\ Present(a0.next)' /\ Root(a0.next)' = Root(a0.token)'
        /\ a0.rid # NoClient => tokens'[a0.token].next = a0.next
    BY <2>2, <1>4, <1>5
  <2> QED
    BY <2>1, <2>2, <2>3, <1>1 DEF AnswersTrue
<1>14. OneOwner'
  <2>1. \A d \in Clients : Holds(d) => Root(client[d].held)' = Root(client[d].held)
    BY <1>2, <1>6, <1>7
  <2>2. \A s \in net : Root(s.token)' = Root(s.token)
    BY <1>6, <1>7
  <2> QED
    BY <1>2, <1>8, <2>1, <2>2 DEF SInv, OneOwner
<1>15. FrontierKnown'
  <2>1. ASSUME NEW h \in Tokens \ {t}, NEW rid, Frontier(h, rid), Root(h) = R => r.rid = rid /\ rid # NoClient
        PROVE  Frontier(h, rid)'
    <3> SUFFICES ASSUME NEW s \in Tokens, Live(s)', Root(s)' = Root(h)', s # h
                 PROVE  tokens'[h].rid = rid /\ tokens'[h].next = s /\ \A q \in net : q.token # s
      BY <1>2 DEF Frontier
    <3>1. CASE s = t
      <4>1. Root(h) = R
        BY <3>1, <1>5, <1>6
      <4>2. h = r.token
        BY <4>1, <2>1, <1>2, <1>3 DEF Frontier
      <4> QED
        BY <4>1, <4>2, <2>1, <3>1, <1>4, <1>7
    <3>2. CASE s # t
      <4>1. Live(s) /\ Root(s) = Root(h) /\ s # r.token /\ h # r.token
        BY <3>2, <2>1, <1>5, <1>6, <1>3, <1>9
      <4> QED
        BY <4>1, <2>1, <1>5 DEF Frontier
    <3> QED
      BY <3>1, <3>2
  <2>2. ASSUME NEW d \in Clients \ Legacy, Holds(d) PROVE Frontier(client[d].held, d)'
    <3>1. Root(client[d].held) = R => r.rid = d /\ d # NoClient
      BY <2>2, <1>3, NewcomersRid DEF SInv, OneOwner
    <3> QED
      BY <2>2, <3>1, <2>1, <1>2, <1>7 DEF SInv, FrontierKnown
  <2>3. ASSUME NEW q \in net, q.kind = "logout", q.rid # NoClient PROVE Frontier(q.token, q.rid)'
    <3>1. Root(q.token) = R => r.rid = q.rid
      BY <2>3, <1>3 DEF SInv, OneOwner
    <3> QED
      BY <2>3, <3>1, <2>1, <1>7 DEF SInv, FrontierKnown
  <2> QED
    BY <1>2, <1>8, <2>2, <2>3 DEF FrontierKnown
<1>16. SuccessorWaits'
  <2> SUFFICES ASSUME NEW d \in Clients \ Legacy, Holds(d), tokens'[client[d].held].state = "revoked",
                      Root(client[d].held)' \notin ended
               PROVE  /\ tokens'[client[d].held].rid = d /\ tokens'[client[d].held].next # None
                      /\ Live(tokens[client[d].held].next)'
    BY <1>2, <1>8 DEF SuccessorWaits
  <2> DEFINE h == client[d].held
  <2>1. h \in Tokens \ {t} /\ h = client'[d].held
    BY <1>2, <1>7
  <2>2. CASE h = r.token
    <3>1. r.rid = d /\ d # NoClient
      BY <2>2, <1>3, NewcomersRid DEF SInv, OneOwner
    <3> QED
      BY <2>2, <3>1, <1>2, <1>4, <1>5 DEF Tokens, None
  <2>3. CASE h # r.token
    <3>1. tokens'[h] = tokens[h] /\ tokens[h].state = "revoked" /\ Root(h) \notin ended
      BY <2>1, <2>3, <1>5
    <3>2. tokens[h].rid = d /\ tokens[h].next # None /\ Live(tokens[h].next)
      BY <3>1 DEF SInv, SuccessorWaits
    <3>3. tokens[h].next \in Tokens /\ tokens[h].next # h /\ Root(tokens[h].next) = Root(h)
      BY <2>1, <3>1, <3>2, Shapes DEF SInv, RowsLinked, Live
    <3>4. tokens[h].next # r.token /\ tokens[h].next # t
      BY <2>1, <3>2, <3>3, <1>2 DEF SInv, FrontierKnown, Frontier, Live, Present
    <3> QED
      BY <2>1, <3>1, <3>2, <3>3, <3>4, <1>2, <1>5
  <2> QED
    BY <2>2, <2>3
<1>17. OneLiveTokenPerSession'
  <2>1. \A s, u \in Tokens : Live(s)' /\ Live(u)' /\ Root(s)' = Root(u)' => s = u
    BY <1>5, <1>6, <1>9 DEF SInv, OneLiveTokenPerSession, Root
  <2> QED
    BY <2>1 DEF OneLiveTokenPerSession, Root
<1>18. EndedSessionsStayEnded'
  <2>1. \A s \in Tokens : Root(s)' \in ended => ~Live(s)'
    BY <1>2, <1>3, <1>5, <1>6 DEF SInv, EndedSessionsStayEnded, Root
  <2> QED
    BY <1>2, <2>1 DEF EndedSessionsStayEnded, Root
<1> QED
  BY <1>10, <1>11, <1>12, <1>13, <1>14, <1>15, <1>16, <1>17, <1>18 DEF SInv

\* What a logout, or the deletion of the account, does to tokens.
LEMMA RevokeRows ==
  ASSUME SInv, NEW S, tokens' = Revoke(S), \A t \in S : t \in Tokens => Present(t)
  PROVE  /\ tokens' \in [Tokens -> Rows]
         /\ \A t \in Tokens :
              /\ (Present(t)' <=> Present(t)) /\ Root(t)' = Root(t)
              /\ (Live(t)' <=> Live(t) /\ t \notin S)
              /\ tokens'[t].rid = tokens[t].rid /\ tokens'[t].next = tokens[t].next
              /\ tokens[t].state = "revoked" => tokens'[t].state = "revoked"
              /\ t \notin S => tokens'[t].state = tokens[t].state
<1>1. tokens \in [Tokens -> Rows]
  BY Shapes
<1>2. ASSUME NEW t \in Tokens
      PROVE  /\ tokens'[t] = IF t \in S THEN [tokens[t] EXCEPT !.state = "revoked"] ELSE tokens[t]
             /\ tokens'[t] \in Rows
  BY <1>1 DEF Revoke, Rows
<1>3. tokens' \in [Tokens -> Rows]
  BY <1>2 DEF Revoke
<1> QED
  BY <1>1, <1>2, <1>3 DEF Present, Root, Live, Rows

\* Revoking tokens of a session that no client holds any more, or all of them.
LEMMA RevokingStep ==
  ASSUME SInv, NEW S, tokens' = Revoke(S), \A t \in S : t \in Tokens => Present(t),
         TypeOK', UNCHANGED <<client, net, lookups, answers>>,
         ended \subseteq ended', \A t \in ended' : t \in Tokens /\ Present(t),
         \A t \in Tokens : Root(t) \in ended' => ~Live(t) \/ t \in S,
         \A c \in Clients : Holds(c) =>
           \/ Root(client[c].held) \in ended'
           \/ \A t \in S : t \in Tokens => Root(t) # Root(client[c].held)
  PROVE  SInv'
<1>1. \A t \in Tokens :
        /\ (Present(t)' <=> Present(t)) /\ Root(t)' = Root(t)
        /\ (Live(t)' <=> Live(t) /\ t \notin S)
        /\ tokens'[t].rid = tokens[t].rid /\ tokens'[t].next = tokens[t].next
        /\ tokens[t].state = "revoked" => tokens'[t].state = "revoked"
        /\ t \notin S => tokens'[t].state = tokens[t].state
  BY RevokeRows
<1>2. \A c \in Clients : (Holds(c)' <=> Holds(c)) /\ client'[c] = client[c]
  BY DEF Holds
<1>3. /\ \A r \in net : r.token \in Tokens
      /\ \A c \in Clients : Holds(c) => client[c].held \in Tokens
  BY Shapes DEF SInv, Requests, NamesExist
<1>4. RowsLinked'
  BY <1>1, Shapes DEF SInv, RowsLinked
<1>5. NamesExist'
  BY <1>1, <1>2, <1>3 DEF SInv, NamesExist
<1>6. AnswersTrue'
  BY <1>1, Shapes DEF SInv, AnswersTrue
<1>7. OneOwner'
  BY <1>1, <1>2, <1>3 DEF SInv, OneOwner
<1>8. FrontierKnown'
  BY <1>1, <1>2, <1>3 DEF SInv, FrontierKnown, Frontier
<1>9. SuccessorWaits'
  <2> SUFFICES ASSUME NEW c \in Clients \ Legacy, Holds(c), tokens'[client[c].held].state = "revoked",
                      Root(client[c].held)' \notin ended'
               PROVE  /\ tokens'[client[c].held].rid = c /\ tokens'[client[c].held].next # None
                      /\ Live(tokens[client[c].held].next)'
    BY <1>2 DEF SuccessorWaits
  <2>1. PICK h \in Tokens : h = client[c].held /\ Root(h) \notin ended' /\ Root(h) \notin ended
    BY <1>1, <1>3
  <2>2. h \notin S /\ tokens[h].state = "revoked"
    BY <2>1, <1>1
  <2>3. tokens[h].rid = c /\ tokens[h].next # None /\ Live(tokens[h].next)
    BY <2>1, <2>2 DEF SInv, SuccessorWaits
  <2>4. tokens[h].next \in Tokens /\ Root(tokens[h].next) = Root(h)
    BY <2>3, Shapes DEF SInv, RowsLinked
  <2>5. tokens[h].next \notin S
    BY <2>1, <2>4
  <2> QED
    BY <2>1, <2>3, <2>4, <2>5, <1>1
<1>10. OneLiveTokenPerSession' /\ EndedSessionsStayEnded'
  BY <1>1 DEF SInv, OneLiveTokenPerSession, EndedSessionsStayEnded, Root
<1> QED
  BY <1>4, <1>5, <1>6, <1>7, <1>8, <1>9, <1>10 DEF SInv

LEMMA LogoutStep == ASSUME SInv, NEW r \in net, Logout(r) PROVE SInv'
<1>1. /\ r.token \in Tokens /\ Present(r.token) /\ r.kind = "logout"
      /\ tokens' = Revoke(LogoutReaches(r))
      /\ UNCHANGED <<closed, client, net, lookups, answers, appleVars>>
      /\ ended' = IF r.rid = NoClient THEN ended ELSE ended \cup {Root(r.token)}
  BY Shapes DEF Logout, SInv, NamesExist, Requests, Root
<1>2. \A t \in LogoutReaches(r) : t \in Tokens /\ Present(t) /\ Root(t) = Root(r.token)
  BY <1>1, Shapes DEF LogoutReaches, SInv, RowsLinked
<1>3. tokens' \in [Tokens -> Rows] /\ \A t \in Tokens : tokens'[t].next # None => tokens'[t].state = "revoked"
  BY <1>1, <1>2, RevokeRows DEF SInv, TypeOK
<1>4. \A t \in ended' : t \in Tokens /\ Present(t)
  BY <1>1 DEF SInv, NamesExist, RowsLinked, TypeOK
<1>5. TypeOK'
  BY <1>1, <1>3, <1>4 DEF SInv, TypeOK, appleVars, Rows
<1>6. ASSUME NEW t \in Tokens, Root(t) \in ended', Live(t) PROVE t \in LogoutReaches(r)
  <2>1. Root(t) = Root(r.token) /\ r.rid # NoClient
    BY <1>1, <1>6 DEF SInv, EndedSessionsStayEnded, Root
  <2>2. Frontier(r.token, r.rid)
    BY <1>1, <2>1 DEF SInv, FrontierKnown
  <2>3. CASE t = r.token
    BY <2>3 DEF LogoutReaches
  <2>4. CASE t # r.token
    <3>1. tokens[r.token].rid = r.rid /\ tokens[r.token].next = t /\ t # None
      BY <1>6, <2>1, <2>2, <2>4, Shapes DEF Frontier
    <3> QED
      BY <3>1, <2>1 DEF LogoutReaches
  <2> QED
    BY <2>3, <2>4
<1>7. \A c \in Clients : Holds(c) => Root(client[c].held) # Root(r.token)
  BY <1>1 DEF SInv, OneOwner
<1> QED
  BY <1>1, <1>2, <1>4, <1>5, <1>6, <1>7, RevokingStep

LEMMA PurgeScrubsStep == ASSUME SessionAssumption, SInv, PurgeScrubs PROVE SInv'
<1> DEFINE S == {t \in Tokens : Live(t)}
<1>1. /\ tokens' = Revoke(S) /\ closed' = TRUE /\ purge' = NoPurge
      /\ ended' = ended \cup {Root(t) : t \in {u \in Tokens : Present(u)}}
      /\ UNCHANGED <<client, net, lookups, answers, apple, revoked>>
  BY DEF PurgeScrubs, RevokeAll, Root, Present
<1>2. \A t \in S : t \in Tokens /\ Present(t)
  BY DEF Live, Present
<1>3. tokens' \in [Tokens -> Rows] /\ \A t \in Tokens : tokens'[t].next # None => tokens'[t].state = "revoked"
  BY <1>1, <1>2, RevokeRows DEF SInv, TypeOK
<1>4. \A t \in ended' : t \in Tokens /\ Present(t)
  BY <1>1 DEF SInv, NamesExist, RowsLinked, TypeOK
<1>5. TypeOK'
  <2>1. purge' \in [pc : {"idle", "revoke", "forget", "scrub"}, apple : 0..MaxTokens] /\ purge'.pc # "revoke"
    BY <1>1, NoTokenIsRow DEF NoPurge
  <2> QED
    BY <1>1, <1>3, <1>4, <2>1 DEF SInv, TypeOK, Rows
<1>6. \A c \in Clients : Holds(c) => Root(client[c].held) \in ended'
  BY <1>1 DEF SInv, NamesExist
<1>7. \A t \in Tokens : Live(t) => t \in S
  OBVIOUS
<1> HIDE DEF S
<1> QED
  BY <1>1, <1>2, <1>4, <1>5, <1>6, <1>7, RevokingStep

-----------------------------------------------------------------------------
(* The theorems *)

LEMMA StepSInv == ASSUME SessionAssumption, SInv, [Next]_vars PROVE SInv'
<1>1. ASSUME NEW c \in Clients, SignIn(c) \/ SignInFails(c) PROVE SInv'
  <2>1. /\ UNCHANGED <<tokens, net, lookups, answers, ended>>
        /\ \E pc \in {"out", "signing"} : Become(c, pc, None)
    BY <1>1 DEF SignIn, SignInFails
  <2>2. \A d \in Clients : \/ client'[d] = client[d]
                           \/ client'[d].pc \in {"out", "signing"} /\ client'[d].held = None
    BY <2>1, Shapes DEF Become
  <2>4. \A r \in lookups' : r \in lookups \/ (r \in net /\ r.rid # NoClient)
    BY <2>1
  <2>3. TypeOK'
    <3>1. client' \in [Clients -> [pc : {"out", "signing", "in", "refreshing"}, held : 0..MaxTokens]]
      BY <2>1, Shapes, NoTokenIsRow DEF Become
    <3> QED
      BY <1>1, <2>1, <3>1 DEF SInv, TypeOK, SignIn, SignInFails, appleVars
  <2> QED
    BY <2>1, <2>2, <2>3, <2>4, LeavingStep
<1>2. ASSUME NEW c \in Clients, StoreAppleToken(c) PROVE SInv'
  <2>1. TypeOK'
    BY <1>2 DEF SInv, TypeOK, StoreAppleToken, NextToken, Free, Tokens
  <2> QED
    BY <1>2, <2>1, QuietStep DEF StoreAppleToken
<1>3. ASSUME NEW r \in net, RotateFindsNothing(r) PROVE SInv'
  <2>1. /\ UNCHANGED <<tokens, net, answers, ended>>
        /\ \/ lookups' = lookups
           \/ lookups' = lookups \cup {r} /\ r.rid # NoClient
    <3>1. CASE r.rid # NoClient
      BY <1>3, <3>1 DEF RotateFindsNothing
    <3>2. CASE r.rid = NoClient
      BY <1>3, <3>2 DEF RotateFindsNothing
    <3> QED
      BY <3>1, <3>2
  <2>4. \A q \in lookups' : q \in lookups \/ (q \in net /\ q.rid # NoClient)
    BY <1>3, <2>1
  <2>2. client' \in [Clients -> [pc : {"out", "signing", "in", "refreshing"}, held : 0..MaxTokens]]
        /\ \A d \in Clients : \/ client'[d] = client[d]
                              \/ client'[d].pc \in {"out", "signing"} /\ client'[d].held = None
    BY <1>3, Shapes, NoTokenIsRow DEF RotateFindsNothing, SignedOut
  <2>3. TypeOK'
    BY <1>3, <2>1, <2>2, Shapes DEF SInv, TypeOK, RotateFindsNothing, appleVars
  <2> QED
    BY <2>1, <2>2, <2>3, <2>4, LeavingStep
<1>4. ASSUME NEW r \in lookups, Reject(r) PROVE SInv'
  <2>1. UNCHANGED <<tokens, net, answers, ended>> /\ lookups' \subseteq lookups
    BY <1>4 DEF Reject
  <2>4. \A q \in lookups' : q \in lookups \/ (q \in net /\ q.rid # NoClient)
    BY <2>1
  <2>2. client' \in [Clients -> [pc : {"out", "signing", "in", "refreshing"}, held : 0..MaxTokens]]
        /\ \A d \in Clients : \/ client'[d] = client[d]
                              \/ client'[d].pc \in {"out", "signing"} /\ client'[d].held = None
    BY <1>4, Shapes, NoTokenIsRow DEF Reject, SignedOut
  <2>3. TypeOK'
    BY <1>4, <2>1, <2>2 DEF SInv, TypeOK, Reject, appleVars
  <2> QED
    BY <2>1, <2>2, <2>3, <2>4, LeavingStep
<1>5. ASSUME PurgeLoads \/ PurgeRevokes \/ PurgeForgets \/ PurgeFails PROVE SInv'
  <2>1. UNCHANGED <<closed, tokens, client, net, lookups, answers, ended>>
    BY <1>5 DEF PurgeLoads, PurgeRevokes, PurgeForgets, PurgeFails
  <2>2. apple' \in 0..MaxTokens
    BY <1>5, NoTokenIsRow DEF SInv, TypeOK, PurgeLoads, PurgeRevokes, PurgeForgets, PurgeFails
  <2>3. purge' \in [pc : {"idle", "revoke", "forget", "scrub"}, apple : 0..MaxTokens]
    <3>1. apple \in 0..MaxTokens /\ None \in 0..MaxTokens
          /\ purge \in [pc : {"idle", "revoke", "forget", "scrub"}, apple : 0..MaxTokens]
      BY NoTokenIsRow DEF SInv, TypeOK
    <3>2. CASE PurgeLoads
      BY <3>1, <3>2 DEF PurgeLoads
    <3>3. CASE PurgeRevokes
      BY <3>1, <3>3 DEF PurgeRevokes
    <3>4. CASE PurgeForgets
      BY <3>1, <3>4 DEF PurgeForgets
    <3>5. CASE PurgeFails
      BY <3>1, <3>5 DEF PurgeFails, NoPurge
    <3> QED
      BY <1>5, <3>2, <3>3, <3>4, <3>5
  <2>4. revoked' \subseteq Tokens
    <3>1. purge.pc = "revoke" => purge.apple \in Tokens
      BY DEF SInv, TypeOK, Tokens, None
    <3> QED
      BY <1>5, <3>1 DEF SInv, TypeOK, PurgeLoads, PurgeRevokes, PurgeForgets, PurgeFails
  <2>6. purge'.pc = "revoke" => purge'.apple # None
    BY <1>5 DEF SInv, TypeOK, PurgeLoads, PurgeRevokes, PurgeForgets, PurgeFails, NoPurge
  <2>5. TypeOK'
    BY <2>1, <2>2, <2>3, <2>4, <2>6 DEF SInv, TypeOK
  <2> QED
    BY <2>1, <2>5, QuietStep
<1>6. ASSUME NEW t \in Tokens, Expire(t) \/ RetryLapses(t) PROVE SInv'
  <2>1. UNCHANGED <<closed, client, net, lookups, answers, ended, apple, revoked, purge>>
    BY <1>6 DEF Expire, RetryLapses, appleVars
  <2>2. /\ tokens' \in [Tokens -> Rows]
        /\ \A s \in Tokens :
             /\ tokens'[s].state = tokens[s].state /\ tokens'[s].root = tokens[s].root
             /\ tokens'[s].rid = tokens[s].rid /\ tokens'[s].next = tokens[s].next
    <3>1. PICK row \in Rows : row = tokens[t]
      BY <1>6, Shapes
    <3>2. /\ [row EXCEPT !.expired = TRUE] \in Rows
          /\ [row EXCEPT !.retry = FALSE] \in Rows
      BY DEF Rows
    <3>3. PICK aged \in Rows :
            /\ tokens' = [tokens EXCEPT ![t] = aged]
            /\ aged.state = row.state /\ aged.root = row.root
            /\ aged.rid = row.rid /\ aged.next = row.next
      <4>1. CASE tokens' = [tokens EXCEPT ![t].expired = TRUE]
        <5>1. tokens' = [tokens EXCEPT ![t] = [row EXCEPT !.expired = TRUE]]
          BY <4>1, <3>1
        <5> QED
          BY <5>1, <3>2 DEF Rows
      <4>2. CASE tokens' = [tokens EXCEPT ![t].retry = FALSE]
        <5>1. tokens' = [tokens EXCEPT ![t] = [row EXCEPT !.retry = FALSE]]
          BY <4>2, <3>1
        <5> QED
          BY <5>1, <3>2 DEF Rows
      <4> QED
        BY <1>6, <4>1, <4>2 DEF Expire, RetryLapses
    <3> QED
      BY <1>6, <3>1, <3>3, Shapes
  <2>3. TypeOK'
    BY <2>1, <2>2 DEF SInv, TypeOK, Rows
  <2> QED
    BY <2>1, <2>2, <2>3, AgeingStep
<1>7. CASE UNCHANGED vars
  <2>1. TypeOK'
    BY <1>7 DEF SInv, TypeOK, vars
  <2> QED
    BY <1>7, <2>1, QuietStep DEF vars
<1> QED
  BY <1>1, <1>2, <1>3, <1>4, <1>5, <1>6, <1>7, IssueTokenStep, AskRefreshStep, ReceiveTokenStep,
     AskLogoutStep, RotateStep, LogoutStep, ReplayStep, PurgeScrubsStep
  DEF Next

\* The inductive invariant holds in every reachable state of the sessions of an account,
\* for any clients, whatever requests and answers are repeated, late or lost.
THEOREM Invariance == ASSUME SessionAssumption PROVE Spec => []SInv
<1>1. Init => SInv
  BY InitSInv
<1>2. SInv /\ [Next]_vars => SInv'
  BY StepSInv
<1> QED
  BY <1>1, <1>2, PTL DEF Spec

\* Every variable keeps its type, and only a revoked token has a successor.
THEOREM Typing == ASSUME SessionAssumption PROVE Spec => []TypeOK
<1>1. SInv => TypeOK
  BY DEF SInv
<1> QED
  BY <1>1, Invariance, PTL

\* A session is one chain: however its refreshes are repeated or overlap, at most one of
\* its tokens is live (the single statement of auth_tokens.py:69-101).
THEOREM OneLive == ASSUME SessionAssumption PROVE Spec => []OneLiveTokenPerSession
<1>1. SInv => OneLiveTokenPerSession
  BY DEF SInv
<1> QED
  BY <1>1, Invariance, PTL

\* All answers to one refresh request name one successor, of the same session
\* (auth_tokens.py:61, 120).
THEOREM AnswersAgree == ASSUME SessionAssumption PROVE Spec => []RepliesAgree
<1>1. SInv => RepliesAgree
  BY DEF SInv, AnswersTrue, RepliesAgree, Root
<1> QED
  BY <1>1, Invariance, PTL

\* A client that lost the answer of a rotation can fetch it again, as long as nobody ended
\* its session (migrations/009_refresh_rotation_replay.sql:1-2).
THEOREM LostAnswers == ASSUME SessionAssumption PROVE Spec => []LostAnswerCanBeRepeated
<1>1. SInv => LostAnswerCanBeRepeated
  BY DEF SInv, SuccessorWaits, LostAnswerCanBeRepeated, Holds, Root
<1> QED
  BY <1>1, Invariance, PTL

\* Logging out or deleting the account ends a session for good: no late refresh leaves a
\* live token in it (auth_tokens.py:152-163, store.py:622-630).
THEOREM EndedForGood == ASSUME SessionAssumption PROVE Spec => []EndedSessionsStayEnded
<1>1. SInv => EndedSessionsStayEnded
  BY DEF SInv
<1> QED
  BY <1>1, Invariance, PTL

-----------------------------------------------------------------------------
(* The subscription: types *)

EventIds == {e.id : e \in Events}
Names == EventIds \cup {"nothing", "apple-restore"}
Restorations == [id : {"apple-restore"}, source : {"restore"}, at : 0..MaxNow, kind : {"on"},
                 expires : {RestoreExpires}]
Told == {e \in Events \cup Restorations \cup {Subscription!NoEvent} : e.at \in 0..MaxNow}
Pro == [pro : BOOLEAN, closed : BOOLEAN, at : 0..MaxNow, id : Names]
Receipts == [status : {"none", "received", "failed", "processed", "skipped"},
             why : Subscription!Outcomes \cup {"processing_failed"}]
Handlers == [pc : {"idle", "record", "read", "write", "reread", "mark", "failed"}, event : Told,
             at : 0..MaxNow, id : Names, outcome : Subscription!Outcomes]

LEMMA EventFacts ==
  /\ Subscription!Ids = EventIds /\ Subscription!Terminal = {"processed", "skipped"}
  /\ \A e \in Events : /\ e.source \in {"superwall", "apple"} /\ e.at \in Nat
                       /\ e.id \in EventIds /\ e.id # "nothing" /\ e.id # "apple-restore"
  /\ \A e, f \in Events : e.id = f.id => e = f
  /\ MaxNow \in Nat /\ MaxFaults \in Nat
  BY InstancesAssumption DEF Subscription!SubscriptionAssumption, Subscription!Ids, Subscription!Terminal, EventIds

LEMMA NoEventTold ==
  /\ Subscription!NoEvent \in Told
  /\ Subscription!Idle \in Handlers /\ Subscription!Idle.pc = "idle" /\ Subscription!Idle.outcome = "none"
<1>1. Subscription!NoEvent \in Told
  BY EventFacts DEF Told, Subscription!NoEvent
<1>2. Subscription!Idle \in Handlers
  BY <1>1, EventFacts DEF Subscription!Idle, Handlers, Names, Subscription!Nobody, Subscription!Outcomes
<1> QED
  BY <1>1, <1>2 DEF Subscription!Idle

SubscriptionTyped ==
  /\ now \in 0..MaxNow /\ faults \in 0..MaxFaults
  /\ profile \in Pro
  /\ receipt \in [EventIds -> Receipts]
  /\ delivery \in [Deliveries -> Handlers]
  /\ applied \in [EventIds \cup {"apple-restore"} -> Nat]

\* A delivery works on an event, may write what is not out of order, and concludes with an
\* outcome that the profile has caught up with.
Sound(row, at, answered) ==
  /\ row.pc # "idle" => row.event \in Events \/ row.event \in Restorations
  /\ row.pc \in {"record", "mark", "failed"} => row.event \in Events
  /\ row.pc = "write" => ~Subscription!OutOfOrder(row.event, row.at)
  /\ row.pc = "mark" =>
       /\ row.outcome # "none"
       /\ row.outcome \in {"updated", "duplicate", "out_of_order"} => at >= row.event.at
  /\ row.pc \in {"read", "write", "reread", "mark"} /\ row.event \in Events =>
       answered[row.event.id].status # "none"

\* The profile bears the time of the event it names, and answered events took effect.
ProfileNamed == \A e \in Events : profile.id = e.id => profile.at = e.at
Settled(row, e, at) ==
  row.status \in {"processed", "skipped"} =>
    row.why \in {"profile_unavailable", "stale_event", "unhandled_event"} \/ at >= e.at

SubscriptionInv ==
  /\ SubscriptionTyped
  /\ \A d \in Deliveries : Sound(delivery[d], profile.at, receipt)
  /\ ProfileNamed
  /\ \A e \in Events : Settled(receipt[e.id], e, profile.at)
  /\ \A i \in EventIds : applied[i] > 0 => receipt[i].status # "none"

LEMMA EventOf ==
  ASSUME SubscriptionInv, NEW d \in Deliveries, delivery[d].pc # "idle"
  PROVE  LET e == Subscription!Event(d)
         IN  /\ e = delivery[d].event /\ e \in Told /\ e.at \in 0..MaxNow /\ e.id \in Names
             /\ e \in Events \/ e \in Restorations
             /\ e.source = "restore" <=> e \in Restorations
             /\ e \in Events <=> e.source # "restore"
             /\ e \in Events => e.id \in EventIds
             /\ e \in Restorations => e.id = "apple-restore"
<1>1. /\ delivery[d] \in Handlers /\ Sound(delivery[d], profile.at, receipt)
  BY DEF SubscriptionInv, SubscriptionTyped
<1>2. delivery[d].event \in Told /\ (delivery[d].event \in Events \/ delivery[d].event \in Restorations)
  BY <1>1 DEF Handlers, Sound
<1>3. \A e \in Events : e.source # "restore" /\ e.id \in EventIds
  BY EventFacts
<1>4. \A e \in Restorations : e.source = "restore" /\ e.id = "apple-restore"
  BY DEF Restorations
<1>5. delivery[d].event.at \in 0..MaxNow
  BY <1>2 DEF Told
<1> QED
  BY <1>2, <1>3, <1>4, <1>5 DEF Subscription!Event, Names

-----------------------------------------------------------------------------
(* The subscription: every step *)

\* The rows of a delivery that goes on.
LEMMA Goes ==
  ASSUME SubscriptionInv, NEW d \in Deliveries, NEW row \in Handlers, delivery' = [delivery EXCEPT ![d] = row]
  PROVE  /\ delivery' \in [Deliveries -> Handlers] /\ delivery'[d] = row
         /\ \A q \in Deliveries : q # d => delivery'[q] = delivery[q]
  BY DEF SubscriptionInv, SubscriptionTyped

LEMMA Concludes ==
  ASSUME SubscriptionInv, NEW d \in Deliveries, delivery[d].pc # "idle",
         NEW outcome \in Subscription!Outcomes, Subscription!Conclude(d, outcome)
  PROVE  \E row \in Handlers :
           /\ delivery' = [delivery EXCEPT ![d] = row]
           /\ row.event = delivery[d].event /\ row.outcome = outcome
           /\ row.pc = IF delivery[d].event \in Events THEN "mark" ELSE "idle"
<1> DEFINE pc == IF Subscription!Event(d).source = "restore" THEN "idle" ELSE "mark"
           row == [delivery[d] EXCEPT !.pc = pc, !.outcome = outcome]
<1>1. delivery[d] \in Handlers /\ delivery \in [Deliveries -> Handlers]
  BY DEF SubscriptionInv, SubscriptionTyped
<1>2. pc = IF delivery[d].event \in Events THEN "mark" ELSE "idle"
  BY EventOf
<1>3. delivery' = [delivery EXCEPT ![d] = row]
  BY <1>1 DEF Subscription!Conclude
<1>4. pc \in {"idle", "mark"}
  OBVIOUS
<1> HIDE DEF pc
<1>5. row \in Handlers /\ row.event = delivery[d].event /\ row.outcome = outcome /\ row.pc = pc
  BY <1>1, <1>4 DEF Handlers
<1> QED
  BY <1>2, <1>3, <1>5

LEMMA GoesTo ==
  ASSUME SubscriptionInv, NEW d \in Deliveries, NEW pc \in {"read", "reread", "failed"},
         Subscription!Goto(d, pc)
  PROVE  \E row \in Handlers :
           /\ delivery' = [delivery EXCEPT ![d] = row]
           /\ row.event = delivery[d].event /\ row.pc = pc
<1> DEFINE row == [delivery[d] EXCEPT !.pc = pc]
<1>1. delivery[d] \in Handlers /\ delivery \in [Deliveries -> Handlers]
  BY DEF SubscriptionInv, SubscriptionTyped
<1>2. delivery' = [delivery EXCEPT ![d] = row]
  BY <1>1 DEF Subscription!Goto
<1>3. row \in Handlers /\ row.event = delivery[d].event /\ row.pc = pc
  BY <1>1 DEF Handlers
<1> QED
  BY <1>2, <1>3

\* A delivery steps; the profile stays, and its receipt at most moves on.
LEMMA DeliverySteps ==
  ASSUME SubscriptionInv, NEW d \in Deliveries, NEW row \in Handlers, delivery' = [delivery EXCEPT ![d] = row],
         now' \in 0..MaxNow, faults' \in 0..MaxFaults,
         UNCHANGED <<profile, applied>>,
         receipt' \in [EventIds -> Receipts],
         \A i \in EventIds : receipt[i].status # "none" => receipt'[i].status # "none",
         \A e \in Events : receipt'[e.id] = receipt[e.id] \/ Settled(receipt'[e.id], e, profile.at),
         Sound(row, profile.at, receipt')
  PROVE  SubscriptionInv'
<1>1. /\ delivery' \in [Deliveries -> Handlers] /\ delivery'[d] = row
      /\ \A q \in Deliveries : q # d => delivery'[q] = delivery[q]
  BY Goes
<1>2. SubscriptionTyped'
  BY <1>1 DEF SubscriptionInv, SubscriptionTyped
<1>3. ASSUME NEW q \in Deliveries
      PROVE  Sound(delivery'[q], profile.at, receipt')
  <2>1. CASE q = d
    BY <1>1, <2>1
  <2>2. CASE q # d
    <3>1. Sound(delivery[q], profile.at, receipt) /\ delivery'[q] = delivery[q]
      BY <1>1, <2>2 DEF SubscriptionInv
    <3> QED
      BY <3>1, EventFacts DEF Sound
  <2> QED
    BY <2>1, <2>2
<1>4. \A e \in Events : Settled(receipt'[e.id], e, profile.at)
  BY DEF SubscriptionInv
<1>5. \A i \in EventIds : applied'[i] > 0 => receipt'[i].status # "none"
  BY DEF SubscriptionInv
<1>6. ProfileNamed'
  BY DEF SubscriptionInv, ProfileNamed
<1> QED
  BY <1>2, <1>3, <1>4, <1>5, <1>6 DEF SubscriptionInv

LEMMA DeliverStep ==
  ASSUME SubscriptionInv, NEW d \in Deliveries, NEW e \in Events, Subscription!Deliver(d, e)
  PROVE  SubscriptionInv'
<1> DEFINE row == [Subscription!Idle EXCEPT !.pc = "record", !.event = e]
<1>1. /\ delivery' = [delivery EXCEPT ![d] = row] /\ e.at <= now
      /\ UNCHANGED <<now, profile, receipt, faults, applied>>
  BY DEF Subscription!Deliver
<1>2. SubscriptionTyped
  BY DEF SubscriptionInv
<1>3. e \in Told
  BY <1>1, <1>2, EventFacts DEF Told, SubscriptionTyped
<1>4. row \in Handlers /\ row.pc = "record" /\ row.event = e
  BY <1>3, NoEventTold DEF Handlers
<1> HIDE DEF row
<1>5. Sound(row, profile.at, receipt')
  BY <1>4 DEF Sound
<1> QED
  BY <1>1, <1>2, <1>4, <1>5, DeliverySteps DEF SubscriptionTyped

LEMMA AskRestoreStep ==
  ASSUME SubscriptionInv, NEW d \in Deliveries, Subscription!AskRestore(d)
  PROVE  SubscriptionInv'
<1> DEFINE e == Subscription!Restore
           row == [Subscription!Idle EXCEPT !.pc = "read", !.event = e]
<1>1. /\ delivery' = [delivery EXCEPT ![d] = row]
      /\ UNCHANGED <<now, profile, receipt, faults, applied>>
  BY DEF Subscription!AskRestore
<1>2. SubscriptionTyped
  BY DEF SubscriptionInv
<1>3. e \in Restorations /\ e \in Told
  BY <1>2 DEF Restorations, Told, SubscriptionTyped, Subscription!Restore, Subscription!Restored
<1> HIDE DEF e
<1>4. row \in Handlers /\ row.pc = "read" /\ row.event = e
  BY <1>3, NoEventTold DEF Handlers
<1> HIDE DEF row
<1>5. e \notin Events
  BY <1>3, EventFacts DEF Restorations
<1>6. Sound(row, profile.at, receipt')
  BY <1>3, <1>4, <1>5 DEF Sound
<1> QED
  BY <1>1, <1>2, <1>4, <1>6, DeliverySteps DEF SubscriptionTyped

LEMMA IdleStep ==
  ASSUME SubscriptionInv, NEW d \in Deliveries, delivery' = [delivery EXCEPT ![d] = Subscription!Idle],
         now' \in 0..MaxNow, faults' \in 0..MaxFaults,
         UNCHANGED <<profile, applied>>,
         receipt' \in [EventIds -> Receipts],
         \A i \in EventIds : receipt[i].status # "none" => receipt'[i].status # "none",
         \A e \in Events : receipt'[e.id] = receipt[e.id] \/ Settled(receipt'[e.id], e, profile.at)
  PROVE  SubscriptionInv'
<1>1. Sound(Subscription!Idle, profile.at, receipt')
  BY NoEventTold DEF Sound
<1> QED
  BY <1>1, NoEventTold, DeliverySteps

LEMMA RecordStep ==
  ASSUME SubscriptionInv, NEW d \in Deliveries, Subscription!Record(d)
  PROVE  SubscriptionInv'
<1> DEFINE e == Subscription!Event(d)
           received == [receipt EXCEPT ![e.id].status = "received"]
<1>1. /\ delivery[d].pc = "record" /\ UNCHANGED <<now, profile, faults, applied>>
      /\ \/ delivery' = [delivery EXCEPT ![d] = Subscription!Idle] /\ UNCHANGED receipt
         \/ /\ receipt' = IF receipt[e.id].status = "none" THEN received ELSE receipt
            /\ \/ Subscription!Conclude(d, "stale_event") \/ Subscription!Conclude(d, "unhandled_event")
               \/ Subscription!Goto(d, "read")
  BY DEF Subscription!Record
<1>2. SubscriptionTyped /\ Sound(delivery[d], profile.at, receipt)
  BY DEF SubscriptionInv
<1>3. e \in Events /\ e.id \in EventIds /\ e = delivery[d].event
  BY <1>1, <1>2, EventOf DEF Sound
<1>4. now \in 0..MaxNow /\ faults \in 0..MaxFaults /\ receipt \in [EventIds -> Receipts]
  BY <1>2 DEF SubscriptionTyped
<1> HIDE DEF e
<1>5. CASE delivery' = [delivery EXCEPT ![d] = Subscription!Idle] /\ UNCHANGED receipt
  BY <1>1, <1>4, <1>5, IdleStep
<1>6. ASSUME receipt' = (IF receipt[e.id].status = "none" THEN received ELSE receipt)
      PROVE  /\ receipt' \in [EventIds -> Receipts]
             /\ \A i \in EventIds : receipt[i].status # "none" => receipt'[i].status # "none"
             /\ \A f \in Events : receipt'[f.id] = receipt[f.id] \/ Settled(receipt'[f.id], f, profile.at)
             /\ receipt'[e.id].status # "none"
  <2> DEFINE row == [receipt[e.id] EXCEPT !.status = "received"]
  <2>1. row \in Receipts /\ row.status = "received"
    BY <1>3, <1>4 DEF Receipts
  <2>2. received = [receipt EXCEPT ![e.id] = row]
    BY <1>3, <1>4
  <2> HIDE DEF row, received
  <2>3. CASE receipt[e.id].status = "none"
    <3>1. /\ receipt' \in [EventIds -> Receipts] /\ receipt'[e.id] = row
          /\ \A i \in EventIds : i # e.id => receipt'[i] = receipt[i]
      BY <1>3, <1>4, <1>6, <2>1, <2>2, <2>3
    <3>2. \A f \in Events : f.id \in EventIds
      BY EventFacts
    <3>3. \A f \in Events : f.id = e.id => Settled(receipt'[f.id], f, profile.at)
      BY <2>1, <3>1 DEF Settled
    <3> QED
      BY <2>1, <3>1, <3>2, <3>3
  <2>4. CASE receipt[e.id].status # "none"
    BY <1>4, <1>6, <2>4
  <2> QED
    BY <2>3, <2>4
<1>7. ASSUME receipt' = (IF receipt[e.id].status = "none" THEN received ELSE receipt),
             NEW outcome \in {"stale_event", "unhandled_event"}, Subscription!Conclude(d, outcome)
      PROVE  SubscriptionInv'
  <2>1. outcome \in Subscription!Outcomes /\ delivery[d].pc # "idle"
    BY <1>1 DEF Subscription!Outcomes
  <2>2. PICK row \in Handlers :
          /\ delivery' = [delivery EXCEPT ![d] = row]
          /\ row.event = delivery[d].event /\ row.outcome = outcome
          /\ row.pc = IF delivery[d].event \in Events THEN "mark" ELSE "idle"
    BY <1>7, <2>1, Concludes
  <2>3. Sound(row, profile.at, receipt')
    BY <1>3, <1>6, <1>7, <2>2 DEF Sound
  <2> QED
    BY <1>1, <1>4, <1>6, <1>7, <2>2, <2>3, DeliverySteps
<1>8. ASSUME receipt' = (IF receipt[e.id].status = "none" THEN received ELSE receipt), Subscription!Goto(d, "read")
      PROVE  SubscriptionInv'
  <2>1. PICK row \in Handlers :
          /\ delivery' = [delivery EXCEPT ![d] = row]
          /\ row.event = delivery[d].event /\ row.pc = "read"
    BY <1>8, GoesTo
  <2>2. Sound(row, profile.at, receipt')
    BY <1>3, <1>6, <1>8, <2>1 DEF Sound
  <2> QED
    BY <1>1, <1>4, <1>6, <1>8, <2>1, <2>2, DeliverySteps
<1> QED
  BY <1>1, <1>5, <1>7, <1>8

\* A delivery steps and nothing else changes but faults.
LEMMA OnlyDeliverySteps ==
  ASSUME SubscriptionInv, NEW d \in Deliveries, NEW row \in Handlers, delivery' = [delivery EXCEPT ![d] = row],
         UNCHANGED <<now, profile, receipt, applied>>, faults' \in 0..MaxFaults,
         Sound(row, profile.at, receipt)
  PROVE  SubscriptionInv'
  BY DeliverySteps DEF SubscriptionInv, SubscriptionTyped

\* What the profile decides about an event, it has caught up with.
LEMMA VerdictSound ==
  ASSUME SubscriptionInv, NEW e \in Told, NEW verdict, verdict = Subscription!Verdict(e), verdict # "none"
  PROVE  /\ verdict \in Subscription!Outcomes
         /\ e \in Events /\ verdict \in {"updated", "duplicate", "out_of_order"} => profile.at >= e.at
<1>1. profile.at \in 0..MaxNow /\ e.at \in 0..MaxNow
  BY DEF SubscriptionInv, SubscriptionTyped, Pro, Told
<1>2. \/ verdict = "profile_unavailable"
      \/ verdict = "duplicate" /\ profile.id = e.id
      \/ verdict = "out_of_order" /\ Subscription!OutOfOrder(e, profile.at)
  BY DEF Subscription!Verdict
<1>3. ASSUME e \in Events, profile.id = e.id
      PROVE  profile.at >= e.at
  BY <1>1, <1>3 DEF SubscriptionInv, ProfileNamed
<1>4. ASSUME Subscription!OutOfOrder(e, profile.at)
      PROVE  profile.at >= e.at
  BY <1>1, <1>4 DEF Subscription!OutOfOrder
<1> QED
  BY <1>2, <1>3, <1>4 DEF Subscription!Outcomes

LEMMA VerdictStep ==
  ASSUME SubscriptionInv, NEW d \in Deliveries, delivery[d].pc \in {"read", "reread"},
         UNCHANGED <<now, profile, receipt, faults, applied>>,
         NEW verdict, verdict = Subscription!Verdict(Subscription!Event(d)), verdict # "none",
         Subscription!Conclude(d, verdict)
  PROVE  SubscriptionInv'
<1> DEFINE e == Subscription!Event(d)
<1>1. /\ e \in Told /\ e = delivery[d].event /\ (e \in Events \/ e \in Restorations)
  BY EventOf
<1> HIDE DEF e
<1>2. /\ verdict \in Subscription!Outcomes
      /\ e \in Events /\ verdict \in {"updated", "duplicate", "out_of_order"} => profile.at >= e.at
  BY <1>1, VerdictSound DEF e
<1>3. PICK row \in Handlers :
        /\ delivery' = [delivery EXCEPT ![d] = row]
        /\ row.event = delivery[d].event /\ row.outcome = verdict
        /\ row.pc = IF delivery[d].event \in Events THEN "mark" ELSE "idle"
  BY <1>2, Concludes
<1>4. faults \in 0..MaxFaults /\ Sound(delivery[d], profile.at, receipt)
  BY DEF SubscriptionInv, SubscriptionTyped
<1>5. Sound(row, profile.at, receipt)
  BY <1>1, <1>2, <1>3, <1>4 DEF Sound
<1> QED
  BY <1>3, <1>4, <1>5, OnlyDeliverySteps

LEMMA ReadStep ==
  ASSUME SubscriptionInv, NEW d \in Deliveries, Subscription!Read(d)
  PROVE  SubscriptionInv'
<1> DEFINE verdict == Subscription!Verdict(Subscription!Event(d))
           row == [delivery[d] EXCEPT !.pc = "write", !.at = profile.at, !.id = profile.id]
<1>1. /\ delivery[d].pc = "read" /\ UNCHANGED <<now, profile, receipt, faults, applied>>
      /\ \/ verdict # "none" /\ Subscription!Conclude(d, verdict)
         \/ verdict = "none" /\ delivery' = [delivery EXCEPT ![d].pc = "write", ![d].at = profile.at, ![d].id = profile.id]
  BY DEF Subscription!Read
<1>2. CASE verdict # "none" /\ Subscription!Conclude(d, verdict)
  BY <1>1, <1>2, VerdictStep
<1>3. CASE /\ verdict = "none"
           /\ delivery' = [delivery EXCEPT ![d].pc = "write", ![d].at = profile.at, ![d].id = profile.id]
  <2>1. /\ delivery[d] \in Handlers /\ delivery \in [Deliveries -> Handlers] /\ profile \in Pro
        /\ faults \in 0..MaxFaults /\ Sound(delivery[d], profile.at, receipt)
    BY DEF SubscriptionInv, SubscriptionTyped
  <2>2. delivery' = [delivery EXCEPT ![d] = row]
    BY <1>3, <2>1
  <2>3. row \in Handlers /\ row.pc = "write" /\ row.at = profile.at /\ row.event = delivery[d].event
    BY <2>1 DEF Handlers, Pro
  <2>4. ~Subscription!OutOfOrder(delivery[d].event, profile.at)
    BY <1>3 DEF Subscription!Verdict, Subscription!Event
  <2> HIDE DEF row, verdict
  <2>5. Sound(row, profile.at, receipt)
    BY <1>1, <2>1, <2>3, <2>4 DEF Sound
  <2> QED
    BY <1>1, <2>1, <2>2, <2>3, <2>5, OnlyDeliverySteps
<1> QED
  BY <1>1, <1>2, <1>3

LEMMA RereadStep ==
  ASSUME SubscriptionInv, NEW d \in Deliveries, Subscription!Reread(d)
  PROVE  SubscriptionInv'
<1> DEFINE verdict == Subscription!Verdict(Subscription!Event(d))
<1>1. /\ delivery[d].pc = "reread" /\ UNCHANGED <<now, profile, receipt, faults, applied>>
      /\ \/ verdict # "none" /\ Subscription!Conclude(d, verdict)
         \/ delivery' = [delivery EXCEPT ![d] = Subscription!Idle]
         \/ Subscription!Event(d).source # "restore" /\ Subscription!Goto(d, "failed")
  BY DEF Subscription!Reread
<1>2. CASE verdict # "none" /\ Subscription!Conclude(d, verdict)
  BY <1>1, <1>2, VerdictStep
<1> HIDE DEF verdict
<1>3. /\ faults \in 0..MaxFaults /\ now \in 0..MaxNow /\ Sound(delivery[d], profile.at, receipt)
      /\ receipt \in [EventIds -> Receipts]
  BY DEF SubscriptionInv, SubscriptionTyped
<1>4. CASE delivery' = [delivery EXCEPT ![d] = Subscription!Idle]
  BY <1>1, <1>3, <1>4, NoEventTold, IdleStep
<1>5. CASE Subscription!Event(d).source # "restore" /\ Subscription!Goto(d, "failed")
  <2>1. PICK row \in Handlers :
          /\ delivery' = [delivery EXCEPT ![d] = row]
          /\ row.event = delivery[d].event /\ row.pc = "failed"
    BY <1>5, GoesTo
  <2>2. delivery[d].event \in Events
    BY <1>1, <1>5, EventOf
  <2>3. Sound(row, profile.at, receipt)
    BY <2>1, <2>2 DEF Sound
  <2> QED
    BY <1>1, <1>3, <2>1, <2>3, OnlyDeliverySteps
<1> QED
  BY <1>1, <1>2, <1>4, <1>5

LEMMA RaiseStep ==
  ASSUME SubscriptionInv, NEW d \in Deliveries, Subscription!Raise(d)
  PROVE  SubscriptionInv'
<1>1. /\ delivery[d].pc # "idle" /\ UNCHANGED <<now, profile, receipt, applied>>
      /\ faults < MaxFaults /\ faults' = faults + 1
      /\ \/ delivery' = [delivery EXCEPT ![d] = Subscription!Idle]
         \/ Subscription!Event(d).source # "restore" /\ Subscription!Goto(d, "failed")
  BY DEF Subscription!Raise
<1>2. /\ faults' \in 0..MaxFaults /\ now \in 0..MaxNow /\ receipt \in [EventIds -> Receipts]
  BY <1>1, EventFacts DEF SubscriptionInv, SubscriptionTyped
<1>3. CASE delivery' = [delivery EXCEPT ![d] = Subscription!Idle]
  BY <1>1, <1>2, <1>3, IdleStep
<1>4. CASE Subscription!Event(d).source # "restore" /\ Subscription!Goto(d, "failed")
  <2>1. PICK row \in Handlers :
          /\ delivery' = [delivery EXCEPT ![d] = row]
          /\ row.event = delivery[d].event /\ row.pc = "failed"
    BY <1>4, GoesTo
  <2>2. delivery[d].event \in Events
    BY <1>1, <1>4, EventOf
  <2>3. Sound(row, profile.at, receipt)
    BY <2>1, <2>2 DEF Sound
  <2> QED
    BY <1>1, <1>2, <2>1, <2>3, OnlyDeliverySteps
<1> QED
  BY <1>1, <1>3, <1>4

\* A receipt is closed once.
LEMMA CloseStep ==
  ASSUME SubscriptionInv, NEW d \in Deliveries, NEW e \in Events, delivery' = [delivery EXCEPT ![d] = Subscription!Idle],
         UNCHANGED <<now, profile, faults, applied>>,
         NEW status \in {"processed", "skipped", "failed"}, NEW why \in Subscription!Outcomes \cup {"processing_failed"},
         receipt' = Subscription!Closed(e.id, status, why),
         Settled([status |-> status, why |-> why], e, profile.at)
  PROVE  SubscriptionInv'
<1> DEFINE row == [status |-> status, why |-> why]
<1>1. /\ receipt \in [EventIds -> Receipts] /\ now \in 0..MaxNow /\ faults \in 0..MaxFaults
      /\ e.id \in EventIds /\ row \in Receipts /\ row.status # "none"
  BY EventFacts DEF SubscriptionInv, SubscriptionTyped, Receipts
<1>2. Settled(row, e, profile.at)
  OBVIOUS
<1>3. receipt' = receipt \/ receipt' = [receipt EXCEPT ![e.id] = row]
  BY DEF Subscription!Closed
<1> HIDE DEF row
<1>4. CASE receipt' = receipt
  BY <1>1, <1>4, IdleStep
<1>5. CASE receipt' = [receipt EXCEPT ![e.id] = row]
  <2>1. /\ receipt' \in [EventIds -> Receipts] /\ receipt'[e.id] = row
        /\ \A i \in EventIds : i # e.id => receipt'[i] = receipt[i]
    BY <1>1, <1>5
  <2>2. ASSUME NEW f \in Events
        PROVE  receipt'[f.id] = receipt[f.id] \/ Settled(receipt'[f.id], f, profile.at)
    <3>1. CASE f.id = e.id
      <4>1. f = e
        BY <3>1, EventFacts
      <4> QED
        BY <1>2, <2>1, <4>1
    <3>2. CASE f.id # e.id
      BY <2>1, <3>2, EventFacts
    <3> QED
      BY <3>1, <3>2
  <2>3. \A i \in EventIds : receipt[i].status # "none" => receipt'[i].status # "none"
    BY <1>1, <2>1
  <2> QED
    BY <1>1, <2>1, <2>2, <2>3, IdleStep
<1> QED
  BY <1>3, <1>4, <1>5

LEMMA MarkStep ==
  ASSUME SubscriptionInv, NEW d \in Deliveries, Subscription!Mark(d)
  PROVE  SubscriptionInv'
<1> DEFINE e == Subscription!Event(d)
           outcome == delivery[d].outcome
           status == IF outcome \in {"updated", "duplicate"} THEN "processed" ELSE "skipped"
<1>1. /\ delivery[d].pc = "mark" /\ UNCHANGED <<now, profile, faults, applied>>
      /\ receipt' = Subscription!Closed(e.id, status, outcome)
      /\ delivery' = [delivery EXCEPT ![d] = Subscription!Idle]
  BY DEF Subscription!Mark
<1>2. /\ delivery[d] \in Handlers /\ Sound(delivery[d], profile.at, receipt)
  BY DEF SubscriptionInv, SubscriptionTyped
<1>3. e \in Events /\ e = delivery[d].event
  BY <1>1, <1>2, EventOf DEF Sound
<1>4. outcome \in Subscription!Outcomes /\ status \in {"processed", "skipped", "failed"}
  BY <1>2 DEF Handlers
<1>5. Settled([status |-> status, why |-> outcome], e, profile.at)
  <2>1. outcome # "none" /\ (outcome \in {"updated", "duplicate", "out_of_order"} => profile.at >= e.at)
    BY <1>1, <1>2, <1>3 DEF Sound
  <2> HIDE DEF outcome, status, e
  <2> QED
    BY <1>4, <2>1 DEF Settled, Subscription!Outcomes
<1> HIDE DEF e, outcome, status
<1> QED
  BY <1>1, <1>3, <1>4, <1>5, CloseStep

LEMMA FailStep ==
  ASSUME SubscriptionInv, NEW d \in Deliveries, Subscription!Fail(d)
  PROVE  SubscriptionInv'
<1> DEFINE e == Subscription!Event(d)
<1>1. /\ delivery[d].pc = "failed" /\ UNCHANGED <<now, profile, faults, applied>>
      /\ receipt' = receipt \/ receipt' = Subscription!Closed(e.id, "failed", "processing_failed")
      /\ delivery' = [delivery EXCEPT ![d] = Subscription!Idle]
  BY DEF Subscription!Fail
<1>2. Sound(delivery[d], profile.at, receipt)
  BY DEF SubscriptionInv
<1>3. e \in Events
  BY <1>1, <1>2, EventOf DEF Sound
<1> HIDE DEF e
<1>4. CASE receipt' = receipt
  <2>1. now \in 0..MaxNow /\ faults \in 0..MaxFaults /\ receipt \in [EventIds -> Receipts]
    BY DEF SubscriptionInv, SubscriptionTyped
  <2> QED
    BY <1>1, <1>4, <2>1, IdleStep
<1>5. CASE receipt' = Subscription!Closed(e.id, "failed", "processing_failed")
  <2>1. Settled([status |-> "failed", why |-> "processing_failed"], e, profile.at)
    BY DEF Settled
  <2> QED
    BY <1>1, <1>3, <1>5, <2>1, CloseStep
<1> QED
  BY <1>1, <1>4, <1>5

\* The profile only moves on in the time of the events, so what caught up stays caught up.
LEMMA ProfileMoves ==
  ASSUME NEW row, NEW e \in Events, NEW at \in 0..MaxNow, NEW after \in 0..MaxNow, at <= after,
         NEW answered
  PROVE  /\ Settled(row, e, at) => Settled(row, e, after)
         /\ row.event.at \in 0..MaxNow /\ Sound(row, at, answered) => Sound(row, after, answered)
<1>1. e.at \in Nat
  BY EventFacts
<1>2. Settled(row, e, at) => Settled(row, e, after)
  BY <1>1 DEF Settled
<1>3. row.event.at \in 0..MaxNow /\ Sound(row, at, answered) => Sound(row, after, answered)
  BY DEF Sound
<1> QED
  BY <1>2, <1>3

LEMMA SwapStep ==
  ASSUME SubscriptionInv, NEW d \in Deliveries, Subscription!CompareAndSet(d)
  PROVE  SubscriptionInv' /\ profile'.at >= profile.at
<1> DEFINE e == Subscription!Event(d)
           pro == Subscription!ProAfter(e)
<1>1. /\ delivery[d].pc = "write" /\ UNCHANGED <<now, receipt, faults>>
      /\ \/ /\ Subscription!UnchangedSinceRead(d)
            /\ profile' = [profile EXCEPT !.pro = pro, !.at = e.at, !.id = e.id]
            /\ applied' = [applied EXCEPT ![e.id] = @ + 1]
            /\ Subscription!Conclude(d, "updated")
         \/ Subscription!Goto(d, "reread") /\ UNCHANGED <<profile, applied>>
  BY DEF Subscription!CompareAndSet
<1>2. /\ SubscriptionTyped /\ Sound(delivery[d], profile.at, receipt)
      /\ profile \in Pro /\ faults \in 0..MaxFaults /\ applied \in [EventIds \cup {"apple-restore"} -> Nat]
      /\ profile.at \in 0..MaxNow
  BY DEF SubscriptionInv, SubscriptionTyped, Pro
<1>3. /\ e = delivery[d].event /\ e \in Told /\ e.at \in 0..MaxNow /\ e.id \in Names
      /\ e \in Events \/ e \in Restorations
      /\ e \in Events => e.id \in EventIds /\ e.source # "restore"
      /\ e \in Restorations => e.id = "apple-restore" /\ e.source = "restore"
  BY <1>1, EventOf
<1>a. pro \in BOOLEAN
  <2>1. CASE e \in Events
    <3>1. e.kind \in {"on", "off", "stays", "other"}
      BY <2>1, InstancesAssumption DEF Subscription!SubscriptionAssumption, Subscription!Kinds
    <3> HIDE DEF e
    <3> QED
      BY <3>1 DEF Subscription!ProAfter
  <2>2. CASE e \in Restorations
    <3> HIDE DEF e
    <3> QED
      BY <2>2 DEF Subscription!ProAfter, Restorations
  <2> QED
    BY <1>3, <2>1, <2>2
<1> HIDE DEF e, pro
<1>4. CASE Subscription!Goto(d, "reread") /\ UNCHANGED <<profile, applied>>
  <2>1. PICK row \in Handlers :
          /\ delivery' = [delivery EXCEPT ![d] = row]
          /\ row.event = delivery[d].event /\ row.pc = "reread"
    BY <1>4, GoesTo
  <2>2. Sound(row, profile.at, receipt)
    BY <1>1, <1>2, <2>1 DEF Sound
  <2>3. SubscriptionInv'
    BY <1>1, <1>2, <1>4, <2>1, <2>2, OnlyDeliverySteps
  <2> QED
    BY <1>2, <1>4, <2>3
<1>5. CASE /\ Subscription!UnchangedSinceRead(d)
           /\ profile' = [profile EXCEPT !.pro = pro, !.at = e.at, !.id = e.id]
           /\ applied' = [applied EXCEPT ![e.id] = @ + 1]
           /\ Subscription!Conclude(d, "updated")
  <2>1. profile.at = delivery[d].at /\ ~Subscription!OutOfOrder(e, profile.at)
    <3>1. ~Subscription!OutOfOrder(delivery[d].event, delivery[d].at)
      BY <1>1, <1>2 DEF Sound
    <3> QED
      BY <1>3, <1>5, <3>1 DEF Subscription!UnchangedSinceRead
  <2>2. profile.at <= e.at
    BY <1>2, <1>3, <2>1 DEF Subscription!OutOfOrder
  <2>3. /\ profile' \in Pro /\ profile'.at = e.at /\ profile'.id = e.id
    BY <1>2, <1>3, <1>5, <1>a DEF Pro
  <2>4. PICK row \in Handlers :
          /\ delivery' = [delivery EXCEPT ![d] = row]
          /\ row.event = delivery[d].event /\ row.outcome = "updated"
          /\ row.pc = IF delivery[d].event \in Events THEN "mark" ELSE "idle"
    <3>1. "updated" \in Subscription!Outcomes /\ delivery[d].pc # "idle"
      BY <1>1 DEF Subscription!Outcomes
    <3> QED
      BY <1>5, <3>1, Concludes
  <2>5. /\ delivery' \in [Deliveries -> Handlers] /\ delivery'[d] = row
        /\ \A q \in Deliveries : q # d => delivery'[q] = delivery[q]
    BY <2>4, Goes
  <2>6. /\ applied' \in [EventIds \cup {"apple-restore"} -> Nat]
        /\ \A i \in EventIds : i # e.id => applied'[i] = applied[i]
    BY <1>2, <1>3, <1>5
  <2>7. SubscriptionTyped'
    BY <1>1, <1>2, <2>3, <2>5, <2>6 DEF SubscriptionTyped
  <2>8. ASSUME NEW q \in Deliveries
        PROVE  Sound(delivery'[q], profile'.at, receipt')
    <3>1. CASE q = d
      <4>1. Sound(row, e.at, receipt)
        BY <1>1, <1>2, <1>3, <2>4 DEF Sound
      <4> QED
        BY <1>1, <2>3, <2>5, <3>1, <4>1
    <3>2. CASE q # d
      <4>1. Sound(delivery[q], profile.at, receipt) /\ delivery[q].event.at \in 0..MaxNow
        BY DEF SubscriptionInv, SubscriptionTyped, Handlers, Told
      <4>2. Sound(delivery[q], e.at, receipt)
        BY <1>2, <1>3, <2>2, <4>1 DEF Sound
      <4> QED
        BY <1>1, <2>3, <2>5, <3>2, <4>2
    <3> QED
      BY <3>1, <3>2
  <2>9. ASSUME NEW f \in Events, profile'.id = f.id
        PROVE  profile'.at = f.at
    <3>1. e \in Events
      BY <1>3, <2>3, <2>9, EventFacts
    <3> QED
      BY <2>3, <2>9, <3>1, EventFacts
  <2>10. ASSUME NEW f \in Events
         PROVE  Settled(receipt'[f.id], f, profile'.at)
    <3>1. Settled(receipt[f.id], f, profile.at)
      BY DEF SubscriptionInv
    <3>2. Settled(receipt[f.id], f, e.at)
      BY <1>2, <1>3, <2>2, <3>1, ProfileMoves
    <3> QED
      BY <1>1, <2>3, <3>2
  <2>11. ASSUME NEW i \in EventIds, applied'[i] > 0
         PROVE  receipt'[i].status # "none"
    <3>1. CASE i # e.id
      BY <1>1, <2>6, <2>11, <3>1 DEF SubscriptionInv
    <3>2. CASE i = e.id
      <4>1. PICK f \in Events : f.id = i
        BY DEF EventIds
      <4>2. e \in Events
        BY <1>3, <3>2, <4>1, EventFacts
      <4> QED
        BY <1>1, <1>2, <1>3, <3>2, <4>2 DEF Sound
    <3> QED
      BY <3>1, <3>2
  <2>12. profile'.at >= profile.at
    BY <1>2, <1>3, <2>2, <2>3
  <2> QED
    BY <2>7, <2>8, <2>9, <2>10, <2>11, <2>12 DEF SubscriptionInv, ProfileNamed
<1> QED
  BY <1>1, <1>4, <1>5

LEMMA AccountStep ==
  ASSUME SubscriptionInv, Subscription!CloseAccount \/ Subscription!Reopen \/ Subscription!Tick
  PROVE  SubscriptionInv'
<1>1. /\ UNCHANGED <<receipt, delivery, faults, applied>>
      /\ now' = now \/ (now < MaxNow /\ now' = now + 1)
      /\ \/ profile' = profile \/ profile' = [profile EXCEPT !.closed = TRUE, !.pro = FALSE]
         \/ profile' = [profile EXCEPT !.closed = FALSE]
  BY DEF Subscription!CloseAccount, Subscription!Reopen, Subscription!Tick
<1>2. profile \in Pro /\ now \in 0..MaxNow /\ SubscriptionTyped
  BY DEF SubscriptionInv, SubscriptionTyped
<1>3. profile' \in Pro /\ profile'.at = profile.at /\ profile'.id = profile.id
  BY <1>1, <1>2 DEF Pro
<1>4. now' \in 0..MaxNow
  BY <1>1, <1>2, EventFacts
<1>5. SubscriptionTyped'
  BY <1>1, <1>2, <1>3, <1>4 DEF SubscriptionTyped
<1>6. /\ \A d \in Deliveries : Sound(delivery'[d], profile'.at, receipt')
      /\ \A e \in Events : Settled(receipt'[e.id], e, profile'.at)
      /\ \A i \in EventIds : applied'[i] > 0 => receipt'[i].status # "none"
  BY <1>1, <1>3 DEF SubscriptionInv
<1>7. ProfileNamed'
  BY <1>3 DEF SubscriptionInv, ProfileNamed
<1> QED
  BY <1>5, <1>6, <1>7 DEF SubscriptionInv

LEMMA SubscriptionStep ==
  ASSUME SubscriptionInv, Subscription!Next
  PROVE  SubscriptionInv'
<1>1. ASSUME NEW d \in Deliveries, Subscription!Step(d)
      PROVE  SubscriptionInv'
  BY <1>1, RecordStep, ReadStep, SwapStep, RereadStep, MarkStep, FailStep, RaiseStep DEF Subscription!Step
<1>2. ASSUME NEW d \in Deliveries, Subscription!AskRestore(d) \/ \E e \in Events : Subscription!Deliver(d, e)
      PROVE  SubscriptionInv'
  BY <1>2, AskRestoreStep, DeliverStep
<1> QED
  BY <1>1, <1>2, AccountStep DEF Subscription!Next

LEMMA SubscriptionInit == Subscription!Init => SubscriptionInv
<1> SUFFICES ASSUME Subscription!Init PROVE SubscriptionInv
  OBVIOUS
<1>1. /\ now = 0 /\ faults = 0 /\ profile = [pro |-> FALSE, closed |-> FALSE, at |-> 0, id |-> "nothing"]
      /\ receipt = [i \in EventIds |-> [status |-> "none", why |-> "none"]]
      /\ delivery = [d \in Deliveries |-> Subscription!Idle]
      /\ applied = [i \in EventIds \cup {"apple-restore"} |-> 0]
  BY EventFacts DEF Subscription!Init, Subscription!Nobody, Subscription!Restored
<1>2. SubscriptionTyped
  <2>1. [status |-> "none", why |-> "none"] \in Receipts
    BY DEF Receipts, Subscription!Outcomes
  <2>2. receipt \in [EventIds -> Receipts] /\ delivery \in [Deliveries -> Handlers]
    BY <1>1, <2>1, NoEventTold
  <2>3. profile \in Pro /\ now \in 0..MaxNow /\ faults \in 0..MaxFaults
    BY <1>1, EventFacts DEF Pro, Names
  <2> QED
    BY <1>1, <2>2, <2>3 DEF SubscriptionTyped
<1>3. \A d \in Deliveries : Sound(delivery[d], profile.at, receipt)
  BY <1>1, NoEventTold DEF Sound
<1>4. ProfileNamed
  BY <1>1, EventFacts DEF ProfileNamed
<1>5. \A e \in Events : Settled(receipt[e.id], e, profile.at)
  BY <1>1, EventFacts DEF Settled
<1>6. \A i \in EventIds : applied[i] > 0 => receipt[i].status # "none"
  BY <1>1
<1> QED
  BY <1>2, <1>3, <1>4, <1>5, <1>6 DEF SubscriptionInv

\* The inductive invariant of the subscription: a delivery that may write is not out of order
\* against what it read, and one that concluded "updated", "duplicate" or "out_of_order" did so
\* of a profile that has caught up with its event.
THEOREM SubscriptionInvariance == Subscription!Spec => []SubscriptionInv
<1>1. SubscriptionInv /\ [Subscription!Next]_Subscription!vars => SubscriptionInv'
  <2> SUFFICES ASSUME SubscriptionInv, [Subscription!Next]_Subscription!vars
               PROVE  SubscriptionInv'
    OBVIOUS
  <2>1. CASE Subscription!Next
    BY <2>1, SubscriptionStep
  <2>2. CASE UNCHANGED Subscription!vars
    <3>1. UNCHANGED <<now, profile, receipt, delivery, faults, applied>>
      BY <2>2 DEF Subscription!vars
    <3>2. SubscriptionTyped' /\ ProfileNamed'
      BY <3>1 DEF SubscriptionInv, SubscriptionTyped, ProfileNamed
    <3> QED
      BY <3>1, <3>2 DEF SubscriptionInv
  <2> QED
    BY <2>1, <2>2
<1> QED
  BY <1>1, SubscriptionInit, PTL DEF Subscription!Spec

\* The rows of profiles and receipts (app/superwall.py, app/apple_notifications.py) keep their
\* types, and an event that updated the profile has a receipt.
THEOREM SubscriptionTyping == Subscription!Spec => []Subscription!TypeOK
<1>1. SubscriptionInv => Subscription!TypeOK
  <2> SUFFICES ASSUME SubscriptionInv
               PROVE  Subscription!TypeOK
    OBVIOUS
  <2>1. SubscriptionTyped /\ \A i \in EventIds : applied[i] > 0 => receipt[i].status # "none"
    BY DEF SubscriptionInv
  <2>2. profile \in [pro : BOOLEAN, closed : BOOLEAN, at : 0..MaxNow, id : EventIds \cup {"nothing", "apple-restore"}]
    BY <2>1 DEF SubscriptionTyped, Pro, Names
  <2>3. receipt \in [EventIds -> [status : {"none", "received", "failed"} \cup {"processed", "skipped"},
                                  why : Subscription!Outcomes \cup {"processing_failed"}]]
    <3>1. Receipts = [status : {"none", "received", "failed"} \cup {"processed", "skipped"},
                      why : Subscription!Outcomes \cup {"processing_failed"}]
      BY DEF Receipts
    <3> QED
      BY <2>1, <3>1 DEF SubscriptionTyped
  <2>4. \A d \in Deliveries :
          /\ delivery[d].pc \in {"idle", "record", "read", "write", "reread", "mark", "failed"}
          /\ delivery[d].outcome \in Subscription!Outcomes
    BY <2>1 DEF SubscriptionTyped, Handlers
  <2>5. now \in 0..MaxNow /\ faults \in 0..MaxFaults
    BY <2>1 DEF SubscriptionTyped
  <2> QED
    BY <2>1, <2>2, <2>3, <2>4, <2>5, EventFacts
       DEF Subscription!TypeOK, Subscription!Nobody, Subscription!Restored
<1> QED
  BY <1>1, SubscriptionInvariance, PTL

LEMMA EveryStepOfSubscription == EverySpec => Subscription!Spec
<1>1. EveryInit => Subscription!Init
  BY DEF EveryInit
<1>2. [EveryNext]_<<part, vars, subscriptionVars>> => [Subscription!Next]_Subscription!vars
  BY DEF EveryNext, Subscription!vars, subscriptionVars
<1> QED
  BY <1>1, <1>2, PTL DEF EverySpec, Subscription!Spec

\* No subscription event is dropped (app/superwall.py:285): once its sender was told of
\* success, the profile shows that event or a later one - unless the account was closed or
\* the event too old - for any events, in any order, repeated and handled at the same time.
THEOREM NoEventIsDropped == EverySpec => []AnsweredEventsCount
<1>1. SubscriptionInv => AnsweredEventsCount
  BY EventFacts DEF SubscriptionInv, Settled, AnsweredEventsCount, Subscription!AnsweredEventsCount
<1> QED
  BY <1>1, SubscriptionInvariance, EveryStepOfSubscription, PTL

LEMMA ReceiptsStay ==
  ASSUME SubscriptionInv, Subscription!Next, NEW i \in EventIds, receipt[i].status \in {"processed", "skipped"}
  PROVE  receipt'[i] = receipt[i]
<1>1. receipt \in [EventIds -> Receipts]
  BY DEF SubscriptionInv, SubscriptionTyped
<1>2. ASSUME NEW id \in EventIds, NEW status, NEW why, receipt' = Subscription!Closed(id, status, why)
      PROVE  receipt'[i] = receipt[i]
  BY <1>1, <1>2, EventFacts DEF Subscription!Closed
<1>3. CASE UNCHANGED receipt
  BY <1>3
<1>4. ASSUME NEW d \in Deliveries, Subscription!Record(d)
      PROVE  receipt'[i] = receipt[i]
  <2> DEFINE e == Subscription!Event(d)
  <2>1. /\ delivery[d].pc = "record"
        /\ receipt' = receipt \/ (receipt[e.id].status = "none" /\ receipt' = [receipt EXCEPT ![e.id].status = "received"])
    BY <1>4 DEF Subscription!Record
  <2> HIDE DEF e
  <2> QED
    BY <1>1, <2>1
<1>5. ASSUME NEW d \in Deliveries, Subscription!Mark(d) \/ Subscription!Fail(d)
      PROVE  receipt'[i] = receipt[i]
  <2> DEFINE e == Subscription!Event(d)
  <2>1. delivery[d].pc \in {"mark", "failed"} /\ Sound(delivery[d], profile.at, receipt)
    BY <1>5 DEF Subscription!Mark, Subscription!Fail, SubscriptionInv
  <2>2. e.id \in EventIds
    BY <2>1, EventOf DEF Sound
  <2>3. receipt' = receipt \/ \E status, why : receipt' = Subscription!Closed(e.id, status, why)
    BY <1>5 DEF Subscription!Mark, Subscription!Fail
  <2> HIDE DEF e
  <2> QED
    BY <1>2, <2>2, <2>3
<1>6. ASSUME NEW d \in Deliveries,
             \/ Subscription!Read(d) \/ Subscription!CompareAndSet(d) \/ Subscription!Reread(d)
             \/ Subscription!Raise(d) \/ Subscription!AskRestore(d) \/ \E e \in Events : Subscription!Deliver(d, e)
      PROVE  UNCHANGED receipt
  BY <1>6 DEF Subscription!Read, Subscription!CompareAndSet, Subscription!Reread, Subscription!Raise,
              Subscription!AskRestore, Subscription!Deliver
<1>7. CASE Subscription!CloseAccount \/ Subscription!Reopen \/ Subscription!Tick
  BY <1>7 DEF Subscription!CloseAccount, Subscription!Reopen, Subscription!Tick
<1> QED
  BY <1>3, <1>4, <1>5, <1>6, <1>7 DEF Subscription!Next, Subscription!Step

LEMMA ProfileStays ==
  ASSUME SubscriptionInv, Subscription!Next
  PROVE  profile'.at >= profile.at
<1>1. profile \in Pro /\ profile.at \in 0..MaxNow
  BY DEF SubscriptionInv, SubscriptionTyped, Pro
<1>2. CASE UNCHANGED profile
  BY <1>1, <1>2
<1>3. ASSUME NEW d \in Deliveries,
             \/ Subscription!Record(d) \/ Subscription!Read(d) \/ Subscription!Reread(d) \/ Subscription!Mark(d)
             \/ Subscription!Fail(d) \/ Subscription!Raise(d) \/ Subscription!AskRestore(d)
             \/ \E e \in Events : Subscription!Deliver(d, e)
      PROVE  UNCHANGED profile
  BY <1>3 DEF Subscription!Record, Subscription!Read, Subscription!Reread, Subscription!Mark, Subscription!Fail,
              Subscription!Raise, Subscription!AskRestore, Subscription!Deliver
<1>4. CASE Subscription!CloseAccount \/ Subscription!Reopen \/ Subscription!Tick
  <2>1. \/ profile' = profile \/ profile' = [profile EXCEPT !.closed = TRUE, !.pro = FALSE]
        \/ profile' = [profile EXCEPT !.closed = FALSE]
    BY <1>4 DEF Subscription!CloseAccount, Subscription!Reopen, Subscription!Tick
  <2>2. profile'.at = profile.at
    BY <1>1, <2>1 DEF Pro
  <2> QED
    BY <1>1, <2>2
<1> QED
  BY <1>2, <1>3, <1>4, SwapStep DEF Subscription!Next, Subscription!Step

\* "prevents an old delivery from overwriting a concurrent newer event" (app/superwall.py:285),
\* and a receipt that was answered with success does not change any more
\* (app/superwall.py:141): for any events and any deliveries at one time.
THEOREM EventsAreOrdered == EverySpec => EventsTakeEffectInOrder
<1>1. SubscriptionInv /\ [Subscription!Next]_Subscription!vars
        => [Subscription!TakesEffectInOrder]_Subscription!vars
  BY ReceiptsStay, ProfileStays, EventFacts DEF Subscription!TakesEffectInOrder
<1>2. [EveryNext]_<<part, vars, subscriptionVars>> /\ [Subscription!TakesEffectInOrder]_Subscription!vars
        => [part = "subscription" => Subscription!TakesEffectInOrder]_<<part, subscriptionVars>>
  BY DEF EveryNext, Subscription!vars, subscriptionVars
<1>3. EverySpec => [][Subscription!Next]_Subscription!vars
  BY EveryStepOfSubscription, PTL DEF Subscription!Spec
<1>4. EverySpec => []SubscriptionInv
  BY EveryStepOfSubscription, SubscriptionInvariance, PTL
<1> QED
  BY <1>1, <1>2, <1>3, <1>4, PTL DEF EverySpec, EventsTakeEffectInOrder
=============================================================================
