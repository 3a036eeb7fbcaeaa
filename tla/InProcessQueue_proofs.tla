----------------------- MODULE InProcessQueue_proofs -------------------------
(***************************************************************************)
(* The slots of app.job_guard, for any number of users, requests and tasks:  *)
(* the counters of InProcessQueue stay within their limits and count exactly  *)
(* who holds a slot.  A counter is compared with the cardinality of the set   *)
(* Held, so each step is a lemma of how that set changes: it stays, gains or   *)
(* loses one holder, or one holder hands its slot to the next.                *)
(***************************************************************************)
EXTENDS InProcessQueue, FiniteSetTheorems, TLAPS

(***************************************************************************)
(* The inductive invariant.                                                 *)
(***************************************************************************)
Keeps == {"run", "running", "finally", "own"}

Statuses == {"absent", "pending", "processing", "completed", "failed"}
JobRows == [status : Statuses, owner : Users \cup {NoUser}, url : Urls \cup {<< >>}]
RequestRows ==
  [pc : {"idle", "claim", "create", "reserve"}, user : Users \cup {NoUser},
   url : Urls \cup {<< >>}, open : 0..MaxOpen, claimed : BOOLEAN, job : 0..MaxJobs]
TaskRows ==
  [pc : {"idle", "run", "running", "finally", "drain", "own", "any", "owner"},
   user : Users \cup {NoUser}, job : 0..MaxJobs]

\* TypeOK but for the bound of "lost", which follows from what the counters count.
Typed ==
  /\ job \in [Ids -> JobRows]
  /\ active \in [Users -> 0..MaxPerUser] /\ global \in 0..MaxConcurrent
  /\ request \in [Requests -> RequestRows]
  /\ task \in [Tasks -> TaskRows]
  /\ translating \subseteq Users /\ lost \in [Users -> Nat]

\* Only a request that may still give its slot back has one, and whoever works does so
\* for a user.
Shapes ==
  /\ \A r \in Requests :
       /\ request[r].pc # "idle" => request[r].user \in Users
       /\ request[r].claimed => request[r].pc \in {"create", "reserve"}
  /\ \A t \in Tasks : task[t].pc # "idle" => task[t].user \in Users

\* The counters agree with a finite set of holders.
Counted ==
  /\ IsFiniteSet(Held(Users))
  /\ SlotsMatchHolders

IInv == Typed /\ Shapes /\ Counted

-----------------------------------------------------------------------------
(* Types and shapes *)

LEMMA RowsTyped ==
  ASSUME Typed
  PROVE  /\ \A j \in Ids : job[j] \in JobRows
         /\ \A r \in Requests : request[r] \in RequestRows
         /\ \A t \in Tasks : task[t] \in TaskRows
  BY DEF Typed

LEMMA LimitsAreNumbers == {MaxJobs, MaxConcurrent, MaxPerUser, MaxOpen} \subseteq Nat \ {0}
  BY QueueAssumption DEF QueueAssumption

LEMMA MarkTyped ==
  ASSUME Typed, NEW j, NEW status \in Statuses, Mark(j, status)
  PROVE  job' \in [Ids -> JobRows]
<1>1. job \in [Ids -> JobRows]
  BY DEF Typed
<1>2. \A k \in Ids : [job[k] EXCEPT !.status = status] \in JobRows
  BY <1>1 DEF JobRows
<1> QED
  BY <1>1, <1>2 DEF Mark

LEMMA TakeTyped ==
  ASSUME Typed, NEW r, NEW rec \in RequestRows, Take(r, rec)
  PROVE  request' \in [Requests -> RequestRows]
  BY DEF Typed, Take

LEMMA BecomeTyped ==
  ASSUME Typed, NEW t, NEW pc \in {"idle", "run", "running", "finally", "drain", "own", "any", "owner"},
         NEW u \in Users \cup {NoUser}, NEW j \in 0..MaxJobs, Become(t, pc, u, j)
  PROVE  task' \in [Tasks -> TaskRows]
<1>1. [pc |-> pc, user |-> u, job |-> j] \in TaskRows
  BY DEF TaskRows
<1> QED
  BY <1>1 DEF Typed, Become

LEMMA ClaimTyped ==
  ASSUME Typed, NEW u, SlotFree(u), Claim(u), u \in Users
  PROVE  active' \in [Users -> 0..MaxPerUser] /\ global' \in 0..MaxConcurrent
  BY LimitsAreNumbers DEF Typed, SlotFree, Claim

LEMMA ReleaseTyped ==
  ASSUME Typed, NEW u, Release(u)
  PROVE  active' \in [Users -> 0..MaxPerUser] /\ global' \in 0..MaxConcurrent
<1>1. \A n \in 0..MaxPerUser : Less(n) \in 0..MaxPerUser
  BY LimitsAreNumbers DEF Less
<1>2. \A n \in 0..MaxConcurrent : Less(n) \in 0..MaxConcurrent
  BY LimitsAreNumbers DEF Less
<1> QED
  BY <1>1, <1>2 DEF Typed, Release

LEMMA SlotsSameTyped ==
  ASSUME Typed, SlotsSame
  PROVE  active' \in [Users -> 0..MaxPerUser] /\ global' \in 0..MaxConcurrent
  BY DEF Typed, SlotsSame

-----------------------------------------------------------------------------
(* How the holders change *)

LEMMA Tagged ==
  ASSUME NEW tag, NEW S, NEW x
  PROVE  /\ {tag} \X (S \cup {x}) = ({tag} \X S) \cup {<<tag, x>>}
         /\ {tag} \X (S \ {x}) = ({tag} \X S) \ {<<tag, x>>}
         /\ <<tag, x>> \in {tag} \X S <=> x \in S
  OBVIOUS

LEMMA OnePart ==
  ASSUME NEW A, NEW B, NEW R, NEW x
  PROVE  /\ (A \cup {x}) \cup B \cup R = (A \cup B \cup R) \cup {x}
         /\ A \cup (B \cup {x}) \cup R = (A \cup B \cup R) \cup {x}
         /\ x \notin B \cup R => (A \ {x}) \cup B \cup R = (A \cup B \cup R) \ {x}
         /\ x \notin A \cup R => A \cup (B \ {x}) \cup R = (A \cup B \cup R) \ {x}
         /\ \A y : x \notin A \cup R /\ x # y =>
              (A \cup {y}) \cup (B \ {x}) \cup R = ((A \cup B \cup R) \ {x}) \cup {y}
  OBVIOUS

\* A task that takes up or changes its work for one user.
LEMMA TasksOfStep ==
  ASSUME Typed, NEW t \in Tasks, NEW pc, NEW u, NEW j, Become(t, pc, u, j), NEW us
  PROVE  TasksOf(us)' = IF u \in us /\ pc \in Keeps THEN TasksOf(us) \cup {t} ELSE TasksOf(us) \ {t}
<1>1. task' = [task EXCEPT ![t] = [pc |-> pc, user |-> u, job |-> j]]
  BY DEF Become
<1>2. task \in [Tasks -> TaskRows]
  BY DEF Typed
<1>3. task'[t].pc = pc /\ task'[t].user = u
  BY <1>1, <1>2
<1>4. \A s \in Tasks : s # t => task'[s] = task[s]
  BY <1>1, <1>2
<1> QED
  BY <1>3, <1>4 DEF TasksOf, Keeps

LEMMA RequestsOfStep ==
  ASSUME Typed, NEW r \in Requests, NEW rec, Take(r, rec), NEW us
  PROVE  RequestsOf(us)' =
           IF rec.user \in us /\ rec.claimed THEN RequestsOf(us) \cup {r} ELSE RequestsOf(us) \ {r}
<1>1. request' = [request EXCEPT ![r] = rec]
  BY DEF Take
<1>2. request \in [Requests -> RequestRows]
  BY DEF Typed
<1>3. request'[r] = rec
  BY <1>1, <1>2
<1>4. \A s \in Requests : s # r => request'[s] = request[s]
  BY <1>1, <1>2
<1> QED
  BY <1>3, <1>4 DEF RequestsOf

\* What a step of one request and one task makes of the holders.
LEMMA HeldByParts ==
  ASSUME NEW us, UNCHANGED <<translating, lost>>
  PROVE  /\ TasksOf(us)' = TasksOf(us) /\ RequestsOf(us)' = RequestsOf(us) => Held(us)' = Held(us)
         /\ \A t : /\ TasksOf(us)' = TasksOf(us) \cup {t} /\ RequestsOf(us)' = RequestsOf(us) =>
                        Held(us)' = Held(us) \cup {<<"task", t>>}
                   /\ TasksOf(us)' = TasksOf(us) \ {t} /\ RequestsOf(us)' = RequestsOf(us) =>
                        Held(us)' = Held(us) \ {<<"task", t>>}
         /\ \A r : /\ RequestsOf(us)' = RequestsOf(us) \cup {r} /\ TasksOf(us)' = TasksOf(us) =>
                        Held(us)' = Held(us) \cup {<<"request", r>>}
                   /\ RequestsOf(us)' = RequestsOf(us) \ {r} /\ TasksOf(us)' = TasksOf(us) =>
                        Held(us)' = Held(us) \ {<<"request", r>>}
         /\ \A r, t : RequestsOf(us)' = RequestsOf(us) \ {r} /\ TasksOf(us)' = TasksOf(us) \cup {t} =>
                        Held(us)' = (Held(us) \ {<<"request", r>>}) \cup {<<"task", t>>}
<1> DEFINE Rest == ({"translation"} \X (translating \cap us)) \cup ({"lost"} \X LostOf(us))
           A == {"task"} \X TasksOf(us)
           B == {"request"} \X RequestsOf(us)
<1>1. LostOf(us)' = LostOf(us) /\ (translating \cap us)' = translating \cap us
  BY DEF LostOf
<1>2. Rest' = Rest
  BY <1>1
<1>3. Held(us) = A \cup B \cup Rest
  BY DEF Held
<1>4. Held(us)' = A' \cup B' \cup Rest
  BY <1>2 DEF Held
<1>5. \A x : /\ <<"task", x>> \notin B \cup Rest
             /\ <<"request", x>> \notin A \cup Rest
             /\ \A y : <<"request", x>> # <<"task", y>>
  OBVIOUS
<1> HIDE DEF Rest
<1>6. \A S, t : /\ {"task"} \X (S \cup {t}) = ({"task"} \X S) \cup {<<"task", t>>}
                /\ {"task"} \X (S \ {t}) = ({"task"} \X S) \ {<<"task", t>>}
                /\ {"request"} \X (S \cup {t}) = ({"request"} \X S) \cup {<<"request", t>>}
                /\ {"request"} \X (S \ {t}) = ({"request"} \X S) \ {<<"request", t>>}
  BY Tagged
<1>7. TasksOf(us)' = TasksOf(us) => A' = A
  OBVIOUS
<1>8. RequestsOf(us)' = RequestsOf(us) => B' = B
  OBVIOUS
<1>9. \A t : /\ TasksOf(us)' = TasksOf(us) \cup {t} => A' = A \cup {<<"task", t>>}
             /\ TasksOf(us)' = TasksOf(us) \ {t} => A' = A \ {<<"task", t>>}
  BY <1>6
<1>10. \A r : /\ RequestsOf(us)' = RequestsOf(us) \cup {r} => B' = B \cup {<<"request", r>>}
              /\ RequestsOf(us)' = RequestsOf(us) \ {r} => B' = B \ {<<"request", r>>}
  BY <1>6
<1> HIDE DEF A, B
<1>11. TasksOf(us)' = TasksOf(us) /\ RequestsOf(us)' = RequestsOf(us) => Held(us)' = Held(us)
  BY <1>3, <1>4, <1>7, <1>8
<1>12. ASSUME NEW t, RequestsOf(us)' = RequestsOf(us)
       PROVE  /\ TasksOf(us)' = TasksOf(us) \cup {t} => Held(us)' = Held(us) \cup {<<"task", t>>}
              /\ TasksOf(us)' = TasksOf(us) \ {t} => Held(us)' = Held(us) \ {<<"task", t>>}
  <2>1. Held(us)' = A' \cup B \cup Rest
    BY <1>4, <1>8, <1>12
  <2>2. <<"task", t>> \notin B \cup Rest
    BY <1>5
  <2> QED
    BY <1>3, <1>9, <2>1, <2>2, OnePart
<1>13. ASSUME NEW r, TasksOf(us)' = TasksOf(us)
       PROVE  /\ RequestsOf(us)' = RequestsOf(us) \cup {r} => Held(us)' = Held(us) \cup {<<"request", r>>}
              /\ RequestsOf(us)' = RequestsOf(us) \ {r} => Held(us)' = Held(us) \ {<<"request", r>>}
  <2>1. Held(us)' = A \cup B' \cup Rest
    BY <1>4, <1>7, <1>13
  <2>2. <<"request", r>> \notin A \cup Rest
    BY <1>5
  <2> QED
    BY <1>3, <1>10, <2>1, <2>2, OnePart
<1>14. ASSUME NEW r, NEW t, RequestsOf(us)' = RequestsOf(us) \ {r}, TasksOf(us)' = TasksOf(us) \cup {t}
       PROVE  Held(us)' = (Held(us) \ {<<"request", r>>}) \cup {<<"task", t>>}
  <2>1. A' = A \cup {<<"task", t>>} /\ B' = B \ {<<"request", r>>}
    BY <1>9, <1>10, <1>14
  <2>2. <<"request", r>> \notin A \cup Rest /\ <<"request", r>> # <<"task", t>>
    BY <1>5
  <2> QED
    BY <1>3, <1>4, <2>1, <2>2, OnePart
<1> QED
  BY <1>11, <1>12, <1>13, <1>14

LEMMA HeldGrowsWithUsers ==
  ASSUME NEW us, NEW vs, us \subseteq vs
  PROVE  Held(us) \subseteq Held(vs)
<1>1. TasksOf(us) \subseteq TasksOf(vs) /\ RequestsOf(us) \subseteq RequestsOf(vs)
  BY DEF TasksOf, RequestsOf
<1>2. LostOf(us) \subseteq LostOf(vs)
  BY DEF LostOf
<1> QED
  BY <1>1, <1>2 DEF Held

LEMMA HeldFinite ==
  ASSUME Counted, NEW us \in SUBSET Users
  PROVE  IsFiniteSet(Held(us)) /\ Cardinality(Held(us)) \in Nat
         /\ Cardinality(Held(us)) <= Cardinality(Held(Users))
  BY HeldGrowsWithUsers, FS_Subset, FS_CardinalityType DEF Counted

-----------------------------------------------------------------------------
(* How the counters follow *)

LEMMA NobodyChanges ==
  ASSUME Counted, SlotsSame, \A us \in SUBSET Users : Held(us)' = Held(us)
  PROVE  Counted'
<1>1. \A u \in Users : Held({u})' = Held({u})
  OBVIOUS
<1>2. Held(Users)' = Held(Users)
  OBVIOUS
<1> QED
  BY <1>1, <1>2 DEF Counted, SlotsMatchHolders, SlotsSame

LEMMA HolderAdded ==
  ASSUME Typed, Counted, NEW u \in Users, NEW x, Claim(u), x \notin Held(Users),
         \A us \in SUBSET Users : Held(us)' = IF u \in us THEN Held(us) \cup {x} ELSE Held(us)
  PROVE  Counted'
<1>1. Held(Users)' = Held(Users) \cup {x}
  OBVIOUS
<1>2. IsFiniteSet(Held(Users)') /\ Cardinality(Held(Users)') = Cardinality(Held(Users)) + 1
  BY <1>1, FS_AddElement DEF Counted
<1>3. \A v \in Users : Cardinality(Held({v})') = Cardinality(Held({v})) + (IF v = u THEN 1 ELSE 0)
  <2> SUFFICES ASSUME NEW v \in Users
               PROVE  Cardinality(Held({v})') = Cardinality(Held({v})) + (IF v = u THEN 1 ELSE 0)
    OBVIOUS
  <2>1. IsFiniteSet(Held({v})) /\ Cardinality(Held({v})) \in Nat
    BY HeldFinite
  <2>2. x \notin Held({v})
    BY HeldGrowsWithUsers
  <2>3. CASE v = u
    BY <2>1, <2>2, <2>3, FS_AddElement
  <2>4. CASE v # u
    BY <2>1, <2>4
  <2> QED
    BY <2>3, <2>4
<1>4. \A v \in Users : active'[v] = active[v] + (IF v = u THEN 1 ELSE 0)
  BY DEF Typed, Claim
<1>5. global' = global + 1
  BY DEF Claim
<1> QED
  BY <1>2, <1>3, <1>4, <1>5 DEF Counted, SlotsMatchHolders

LEMMA HolderRemoved ==
  ASSUME Typed, Counted, NEW u \in Users, NEW x, Release(u), x \in Held({u}),
         \A us \in SUBSET Users : Held(us)' = IF u \in us THEN Held(us) \ {x} ELSE Held(us)
  PROVE  Counted'
<1>1. Held(Users)' = Held(Users) \ {x} /\ x \in Held(Users)
  BY HeldGrowsWithUsers
<1>2. IsFiniteSet(Held(Users)') /\ Cardinality(Held(Users)') = Cardinality(Held(Users)) - 1
  BY <1>1, FS_RemoveElement DEF Counted
<1>3. \A v \in Users : Cardinality(Held({v})') = Cardinality(Held({v})) - (IF v = u THEN 1 ELSE 0)
  <2> SUFFICES ASSUME NEW v \in Users
               PROVE  Cardinality(Held({v})') = Cardinality(Held({v})) - (IF v = u THEN 1 ELSE 0)
    OBVIOUS
  <2>1. IsFiniteSet(Held({v})) /\ Cardinality(Held({v})) \in Nat
    BY HeldFinite
  <2>2. CASE v = u
    BY <2>1, <2>2, FS_RemoveElement
  <2>3. CASE v # u
    BY <2>1, <2>3
  <2> QED
    BY <2>2, <2>3
<1>4. Cardinality(Held({u})) # 0 /\ Cardinality(Held(Users)) # 0
  BY <1>1, HeldFinite, FS_EmptySet
<1>5. active[u] # 0 /\ global # 0
  BY <1>4 DEF Counted, SlotsMatchHolders
<1>6. \A v \in Users : active'[v] = active[v] - (IF v = u THEN 1 ELSE 0)
  BY <1>5, LimitsAreNumbers DEF Typed, Release, Less
<1>7. global' = global - 1
  BY <1>5 DEF Release, Less
<1> QED
  BY <1>2, <1>3, <1>6, <1>7 DEF Counted, SlotsMatchHolders

LEMMA HolderReplaced ==
  ASSUME Typed, Counted, NEW u \in Users, NEW x, NEW y, SlotsSame,
         x \in Held({u}), y \notin Held(Users),
         \A us \in SUBSET Users : Held(us)' = IF u \in us THEN (Held(us) \ {x}) \cup {y} ELSE Held(us)
  PROVE  Counted'
<1>1. Held(Users)' = (Held(Users) \ {x}) \cup {y} /\ x \in Held(Users)
  BY HeldGrowsWithUsers
<1>2. ASSUME NEW S, IsFiniteSet(S), x \in S, y \notin S
      PROVE  IsFiniteSet((S \ {x}) \cup {y}) /\ Cardinality((S \ {x}) \cup {y}) = Cardinality(S)
  <2>1. IsFiniteSet(S \ {x}) /\ Cardinality(S \ {x}) = Cardinality(S) - 1 /\ y \notin S \ {x}
    BY <1>2, FS_RemoveElement
  <2>2. IsFiniteSet((S \ {x}) \cup {y}) /\ Cardinality((S \ {x}) \cup {y}) = Cardinality(S \ {x}) + 1
    BY <2>1, FS_AddElement
  <2> QED
    BY <1>2, <2>1, <2>2, FS_CardinalityType
<1>3. IsFiniteSet(Held(Users)') /\ Cardinality(Held(Users)') = Cardinality(Held(Users))
  BY <1>1, <1>2 DEF Counted
<1>4. \A v \in Users : Cardinality(Held({v})') = Cardinality(Held({v}))
  <2> SUFFICES ASSUME NEW v \in Users
               PROVE  Cardinality(Held({v})') = Cardinality(Held({v}))
    OBVIOUS
  <2>1. IsFiniteSet(Held({v}))
    BY HeldFinite
  <2>2. y \notin Held({v})
    BY HeldGrowsWithUsers
  <2>3. CASE v = u
    BY <1>2, <2>1, <2>2, <2>3
  <2>4. CASE v # u
    BY <2>4
  <2> QED
    BY <2>3, <2>4
<1> QED
  BY <1>3, <1>4 DEF Counted, SlotsMatchHolders, SlotsSame

-----------------------------------------------------------------------------
(* Every action keeps the types *)

LEMMA IdleRows ==
  /\ Idle \in RequestRows /\ Asleep \in [pc : {"idle"}, user : {NoUser}, job : {NoJob}]
  /\ NoJob \in 0..MaxJobs /\ Ids \subseteq 0..MaxJobs
  BY LimitsAreNumbers DEF Idle, Asleep, RequestRows, NoJob, Ids

LEMMA OpenCounted ==
  ASSUME NEW u, Cardinality(Open(u)) < MaxOpen
  PROVE  Cardinality(Open(u)) \in 0..MaxOpen
<1>1. IsFiniteSet(Ids)
  BY FS_Interval, LimitsAreNumbers DEF Ids
<1>2. Open(u) \subseteq Ids
  BY DEF Open
<1>3. Cardinality(Open(u)) \in Nat
  BY <1>1, <1>2, FS_Subset, FS_CardinalityType
<1> QED
  BY <1>3, LimitsAreNumbers

\* What the guard of a step says of the user whose slots it moves.
LEMMA Owners ==
  ASSUME Typed, Shapes
  PROVE  /\ \A r \in Requests : request[r].pc # "idle" => request[r].user \in Users
         /\ \A t \in Tasks : task[t].pc # "idle" => task[t].user \in Users
         /\ \A r \in Requests : request[r].job \in 0..MaxJobs
         /\ \A t \in Tasks : task[t].job \in 0..MaxJobs
         /\ \A j \in Pending(Users) : job[j].owner \in Users
<1>1. \A r \in Requests : request[r].job \in 0..MaxJobs
  BY RowsTyped DEF RequestRows
<1>2. \A t \in Tasks : task[t].job \in 0..MaxJobs
  BY RowsTyped DEF TaskRows
<1>3. \A j \in Pending(Users) : job[j].owner \in Users
  BY DEF Pending
<1> QED
  BY <1>1, <1>2, <1>3 DEF Shapes

LEMMA RequestsTyped ==
  ASSUME Typed, Shapes, NEW r \in Requests,
         (\E u \in Users, url \in Urls : Ask(r, u, url)) \/ TryClaim(r) \/ Create(r) \/ Refuse(r) \/ Answer(r)
  PROVE  Typed'
<1> USE IdleRows
<1>0. request[r] \in RequestRows /\ translating \subseteq Users /\ lost \in [Users -> Nat]
      /\ job \in [Ids -> JobRows] /\ task \in [Tasks -> TaskRows]
  BY RowsTyped DEF Typed
<1>1. ASSUME NEW u \in Users, NEW url \in Urls, Ask(r, u, url)
      PROVE  Typed'
  <2>1. [Idle EXCEPT !.pc = "claim", !.user = u, !.url = url, !.open = Cardinality(Open(u))] \in RequestRows
    BY <1>1, OpenCounted DEF Ask, Idle, RequestRows
  <2>2. request' \in [Requests -> RequestRows]
    BY <1>1, <2>1, TakeTyped DEF Ask
  <2>3. active' \in [Users -> 0..MaxPerUser] /\ global' \in 0..MaxConcurrent
    BY <1>1, SlotsSameTyped DEF Ask
  <2> QED
    BY <1>0, <1>1, <2>2, <2>3 DEF Ask, Typed
<1>2. CASE TryClaim(r)
  <2>0. request[r].pc = "claim" /\ request[r].user \in Users
    BY <1>2, Owners DEF TryClaim
  <2>1. /\ [request[r] EXCEPT !.pc = "create", !.claimed = TRUE] \in RequestRows
        /\ [request[r] EXCEPT !.pc = "create"] \in RequestRows
    BY <1>0 DEF RequestRows
  <2>2. request' \in [Requests -> RequestRows]
    BY <1>2, <2>1, TakeTyped DEF TryClaim
  <2>3. active' \in [Users -> 0..MaxPerUser] /\ global' \in 0..MaxConcurrent
    BY <1>2, <2>0, ClaimTyped, SlotsSameTyped DEF TryClaim
  <2> QED
    BY <1>0, <1>2, <2>2, <2>3 DEF TryClaim, Typed
<1>3. CASE Create(r)
  <2>0. request[r].user \in Users /\ request[r].url \in Urls \cup {<< >>}
    BY <1>0, <1>3, Owners DEF Create, RequestRows
  <2>1. \A j \in Ids : [request[r] EXCEPT !.pc = "reserve", !.job = j] \in RequestRows
    BY <1>0 DEF RequestRows
  <2>2. [status |-> "pending", owner |-> request[r].user, url |-> request[r].url] \in JobRows
    BY <2>0 DEF JobRows, Statuses
  <2>3. PICK j \in Ids : /\ Take(r, [request[r] EXCEPT !.pc = "reserve", !.job = j])
                         /\ \/ UNCHANGED job
                            \/ job' = [job EXCEPT ![j] = [status |-> "pending", owner |-> request[r].user,
                                                          url |-> request[r].url]]
    BY <1>3 DEF Create, Open
  <2>4. request' \in [Requests -> RequestRows]
    BY <2>1, <2>3, TakeTyped
  <2>5. job' \in [Ids -> JobRows]
    BY <1>0, <2>2, <2>3
  <2>6. active' \in [Users -> 0..MaxPerUser] /\ global' \in 0..MaxConcurrent
    BY <1>3, SlotsSameTyped DEF Create
  <2> QED
    BY <1>0, <1>3, <2>4, <2>5, <2>6 DEF Create, Typed
<1>4. CASE Refuse(r)
  <2>1. request' \in [Requests -> RequestRows]
    BY <1>4, TakeTyped DEF Refuse
  <2>2. job' \in [Ids -> JobRows]
    BY <1>0, <1>4, MarkTyped DEF Refuse, Statuses
  <2>3. active' \in [Users -> 0..MaxPerUser] /\ global' \in 0..MaxConcurrent
    BY <1>4, ReleaseTyped, SlotsSameTyped DEF Refuse, GiveBackSlot
  <2> QED
    BY <1>0, <1>4, <2>1, <2>2, <2>3 DEF Refuse, Typed
<1>5. CASE Answer(r)
  <2>0. request[r].user \in Users /\ request[r].job \in 0..MaxJobs
    BY <1>5, Owners DEF Answer
  <2>1. request' \in [Requests -> RequestRows]
    BY <1>5, TakeTyped DEF Answer
  <2>2. task' \in [Tasks -> TaskRows]
    BY <1>0, <1>5, <2>0, BecomeTyped DEF Answer
  <2>3. active' \in [Users -> 0..MaxPerUser] /\ global' \in 0..MaxConcurrent
    BY <1>5, SlotsSameTyped DEF Answer
  <2> QED
    BY <1>0, <1>5, <2>1, <2>2, <2>3 DEF Answer, Typed
<1> QED
  BY <1>1, <1>2, <1>3, <1>4, <1>5

LEMMA TasksTyped ==
  ASSUME Typed, Shapes, NEW t \in Tasks, TaskStep(t)
  PROVE  Typed'
<1> USE IdleRows
<1>0. request \in [Requests -> RequestRows] /\ translating \subseteq Users /\ lost \in [Users -> Nat]
      /\ job \in [Ids -> JobRows] /\ task \in [Tasks -> TaskRows]
  BY DEF Typed
<1>a. /\ task[t].pc # "idle" => task[t].user \in Users
      /\ task[t].job \in 0..MaxJobs /\ \A j \in Pending(Users) : job[j].owner \in Users
  BY Owners
<1>1. CASE Begin(t)
  <2>1. task' \in [Tasks -> TaskRows] /\ job' \in [Ids -> JobRows]
    BY <1>1, <1>a, BecomeTyped, MarkTyped DEF Begin, Statuses
  <2> QED
    BY <1>0, <1>1, <2>1, SlotsSameTyped DEF Begin, Typed
<1>2. ASSUME NEW status \in {"completed", "failed", "processing"}, Finish(t, status)
      PROVE  Typed'
  <2>1. task' \in [Tasks -> TaskRows] /\ job' \in [Ids -> JobRows]
    BY <1>2, <1>a, BecomeTyped, MarkTyped DEF Finish, Statuses
  <2> QED
    BY <1>0, <1>2, <2>1, SlotsSameTyped DEF Finish, Typed
<1>3. CASE Finally(t)
  <2>1. task' \in [Tasks -> TaskRows]
    BY <1>3, <1>a, BecomeTyped DEF Finally
  <2> QED
    BY <1>0, <1>3, <2>1, ReleaseTyped DEF Finally, Typed
<1>4. CASE DrainClaim(t)
  <2>1. task' \in [Tasks -> TaskRows]
    BY <1>4, <1>a, BecomeTyped DEF DrainClaim
  <2>2. active' \in [Users -> 0..MaxPerUser] /\ global' \in 0..MaxConcurrent
    BY <1>4, <1>a, ClaimTyped, SlotsSameTyped DEF DrainClaim
  <2> QED
    BY <1>0, <1>4, <2>1, <2>2 DEF DrainClaim, Typed
<1>5. CASE DrainOwn(t)
  <2>1. CASE \E j \in Ids : Mark(j, "processing") /\ Become(t, "run", task[t].user, j) /\ SlotsSame
    <3>1. task' \in [Tasks -> TaskRows] /\ job' \in [Ids -> JobRows]
      BY <1>5, <1>a, <2>1, BecomeTyped, MarkTyped DEF DrainOwn, Statuses
    <3> QED
      BY <1>0, <1>5, <2>1, <3>1, SlotsSameTyped DEF DrainOwn, Typed
  <2>2. CASE UNCHANGED job /\ Release(task[t].user) /\ Become(t, "any", task[t].user, NoJob)
    <3>1. task' \in [Tasks -> TaskRows]
      BY <1>5, <1>a, <2>2, BecomeTyped DEF DrainOwn
    <3> QED
      BY <1>0, <1>5, <2>2, <3>1, ReleaseTyped DEF DrainOwn, Typed
  <2> QED
    BY <1>5, <2>1, <2>2 DEF DrainOwn, Oldest, Pending
<1>6. CASE DrainAny(t)
  <2>1. CASE \E j \in Pending(Users) : Mark(j, "processing") /\ Become(t, "owner", job[j].owner, j)
    <3>1. PICK j \in Pending(Users) : Mark(j, "processing") /\ Become(t, "owner", job[j].owner, j)
      BY <2>1
    <3>2. j \in Ids /\ job[j].owner \in Users
      BY <1>a DEF Pending
    <3>3. task' \in [Tasks -> TaskRows]
      BY <3>1, <3>2, BecomeTyped
    <3>4. job' \in [Ids -> JobRows]
      BY <3>1, MarkTyped DEF Statuses
    <3> QED
      BY <1>0, <1>6, <3>3, <3>4, SlotsSameTyped DEF DrainAny, Typed
  <2>2. CASE UNCHANGED job /\ Become(t, "idle", NoUser, NoJob)
    <3>1. task' \in [Tasks -> TaskRows]
      BY <2>2, BecomeTyped
    <3> QED
      BY <1>0, <1>6, <2>2, <3>1, SlotsSameTyped DEF DrainAny, Typed
  <2> QED
    BY <1>6, <2>1, <2>2 DEF DrainAny, Oldest
<1>7. CASE DrainOwner(t)
  <2>1. task' \in [Tasks -> TaskRows]
    BY <1>7, <1>a, BecomeTyped DEF DrainOwner
  <2>2. active' \in [Users -> 0..MaxPerUser] /\ global' \in 0..MaxConcurrent
    BY <1>7, <1>a, ClaimTyped, SlotsSameTyped DEF DrainOwner
  <2>3. job' \in [Ids -> JobRows]
    BY <1>0, <1>7, MarkTyped DEF DrainOwner, Statuses
  <2> QED
    BY <1>0, <1>7, <2>1, <2>2, <2>3 DEF DrainOwner, Typed
<1>8. CASE DrainRaises(t)
  <2>1. task' \in [Tasks -> TaskRows]
    BY <1>8, BecomeTyped DEF DrainRaises
  <2>2. lost' \in [Users -> Nat]
    <3>1. CASE task[t].pc = "own"
      <4>1. lost[task[t].user] + 1 \in Nat
        BY <1>0, <1>a, <3>1
      <4> QED
        BY <1>0, <1>8, <3>1, <4>1 DEF DrainRaises
    <3>2. CASE task[t].pc # "own"
      BY <1>0, <1>8, <3>2 DEF DrainRaises
    <3> QED
      BY <3>1, <3>2
  <2> QED
    BY <1>0, <1>8, <2>1, <2>2, SlotsSameTyped DEF DrainRaises, Typed
<1> QED
  BY <1>1, <1>2, <1>3, <1>4, <1>5, <1>6, <1>7, <1>8 DEF TaskStep

LEMMA OthersTyped ==
  ASSUME Typed,
         \/ \E u \in Users : Translate(u) \/ TranslationEnds(u)
         \/ \E j \in Ids : Expire(j)
         \/ Restart
         \/ UNCHANGED vars
  PROVE  Typed'
<1>0. request \in [Requests -> RequestRows] /\ translating \subseteq Users /\ lost \in [Users -> Nat]
      /\ job \in [Ids -> JobRows] /\ task \in [Tasks -> TaskRows]
  BY DEF Typed
<1>1. ASSUME NEW u \in Users, Translate(u)
      PROVE  Typed'
  BY <1>0, <1>1, ClaimTyped DEF Translate, Typed
<1>2. ASSUME NEW u \in Users, TranslationEnds(u)
      PROVE  Typed'
  BY <1>0, <1>2, ReleaseTyped DEF TranslationEnds, Typed
<1>3. ASSUME NEW j \in Ids, Expire(j)
      PROVE  Typed'
  <2>1. job' \in [Ids -> JobRows]
    BY <1>3, MarkTyped DEF Expire, Statuses
  <2> QED
    BY <1>0, <1>3, <2>1, SlotsSameTyped DEF Expire, Typed
<1>4. CASE Restart
  <2>1. Asleep \in TaskRows
    BY IdleRows DEF Asleep, TaskRows
  <2>2. 0 \in 0..MaxPerUser /\ 0 \in 0..MaxConcurrent
    BY LimitsAreNumbers
  <2> QED
    BY <1>0, <1>4, <2>1, <2>2, IdleRows DEF Restart, Typed
<1>5. CASE UNCHANGED vars
  BY <1>5 DEF Typed, vars
<1> QED
  BY <1>1, <1>2, <1>3, <1>4, <1>5

-----------------------------------------------------------------------------
(* Every action keeps the shapes *)

LEMMA TakeShapes ==
  ASSUME Typed, Shapes, NEW r \in Requests, NEW rec, Take(r, rec),
         rec.pc # "idle" => rec.user \in Users,
         rec.claimed => rec.pc \in {"create", "reserve"}
  PROVE  \A q \in Requests :
           /\ request'[q].pc # "idle" => request'[q].user \in Users
           /\ request'[q].claimed => request'[q].pc \in {"create", "reserve"}
<1>1. request'[r] = rec
  BY DEF Typed, Take
<1>2. \A q \in Requests : q # r => request'[q] = request[q]
  BY DEF Typed, Take
<1> QED
  BY <1>1, <1>2 DEF Shapes

LEMMA BecomeShapes ==
  ASSUME Typed, Shapes, NEW t \in Tasks, NEW pc, NEW u, NEW j, Become(t, pc, u, j),
         pc # "idle" => u \in Users
  PROVE  \A s \in Tasks : task'[s].pc # "idle" => task'[s].user \in Users
<1>1. task'[t].pc = pc /\ task'[t].user = u
  BY DEF Typed, Become
<1>2. \A s \in Tasks : s # t => task'[s] = task[s]
  BY DEF Typed, Become
<1> QED
  BY <1>1, <1>2 DEF Shapes

LEMMA RequestsShapes ==
  ASSUME Typed, Shapes, NEW r \in Requests,
         (\E u \in Users, url \in Urls : Ask(r, u, url)) \/ TryClaim(r) \/ Create(r) \/ Refuse(r) \/ Answer(r)
  PROVE  Shapes'
<1>0. /\ request[r].pc # "idle" => request[r].user \in Users
      /\ request[r].claimed => request[r].pc \in {"create", "reserve"}
  BY DEF Shapes
<1>1. ASSUME NEW u \in Users, NEW url \in Urls, Ask(r, u, url)
      PROVE  Shapes'
  <2> DEFINE rec == [Idle EXCEPT !.pc = "claim", !.user = u, !.url = url, !.open = Cardinality(Open(u))]
  <2>1. rec.user = u /\ rec.claimed = FALSE
    BY DEF Idle
  <2>2. Take(r, rec) /\ UNCHANGED task
    BY <1>1 DEF Ask
  <2> HIDE DEF rec
  <2> QED
    BY <2>1, <2>2, TakeShapes DEF Shapes
<1>2. CASE TryClaim(r)
  <2>1. PICK rec : Take(r, rec) /\ rec.pc = "create" /\ rec.user = request[r].user
    <3>1. request[r] \in RequestRows
      BY RowsTyped
    <3>2. /\ [request[r] EXCEPT !.pc = "create", !.claimed = TRUE].pc = "create"
          /\ [request[r] EXCEPT !.pc = "create", !.claimed = TRUE].user = request[r].user
          /\ [request[r] EXCEPT !.pc = "create"].pc = "create"
          /\ [request[r] EXCEPT !.pc = "create"].user = request[r].user
      BY <3>1 DEF RequestRows
    <3> QED
      BY <1>2, <3>2 DEF TryClaim
  <2>2. UNCHANGED task /\ request[r].pc # "idle"
    BY <1>2 DEF TryClaim
  <2> QED
    BY <1>0, <2>1, <2>2, TakeShapes DEF Shapes
<1>3. CASE Create(r)
  <2>1. PICK rec : Take(r, rec) /\ rec.pc = "reserve" /\ rec.user = request[r].user
    <3>1. request[r] \in RequestRows
      BY RowsTyped
    <3>2. \A j : /\ [request[r] EXCEPT !.pc = "reserve", !.job = j].pc = "reserve"
                 /\ [request[r] EXCEPT !.pc = "reserve", !.job = j].user = request[r].user
      BY <3>1 DEF RequestRows
    <3>3. \E j : Take(r, [request[r] EXCEPT !.pc = "reserve", !.job = j])
      BY <1>3 DEF Create
    <3> QED
      BY <3>2, <3>3
  <2>2. UNCHANGED task /\ request[r].pc # "idle"
    BY <1>3 DEF Create
  <2> QED
    BY <1>0, <2>1, <2>2, TakeShapes DEF Shapes
<1>4. CASE Refuse(r)
  <2>1. Take(r, Idle) /\ UNCHANGED task
    BY <1>4 DEF Refuse
  <2> QED
    BY <2>1, TakeShapes DEF Shapes, Idle
<1>5. CASE Answer(r)
  <2>1. Take(r, Idle) /\ request[r].user \in Users
    BY <1>0, <1>5 DEF Answer
  <2>2. \A q \in Requests :
           /\ request'[q].pc # "idle" => request'[q].user \in Users
           /\ request'[q].claimed => request'[q].pc \in {"create", "reserve"}
    BY <2>1, TakeShapes DEF Idle
  <2>3. UNCHANGED task \/ \E t \in Tasks : Become(t, "run", request[r].user, request[r].job)
    BY <1>5 DEF Answer
  <2>4. \A s \in Tasks : task'[s].pc # "idle" => task'[s].user \in Users
    BY <2>1, <2>3, BecomeShapes DEF Shapes
  <2> QED
    BY <2>2, <2>4 DEF Shapes
<1> QED
  BY <1>1, <1>2, <1>3, <1>4, <1>5

LEMMA TasksShapes ==
  ASSUME Typed, Shapes, NEW t \in Tasks, TaskStep(t)
  PROVE  Shapes'
<1>1. task[t].pc # "idle" => task[t].user \in Users
  BY DEF Shapes
<1>2. \A j \in Pending(Users) : job[j].owner \in Users
  BY Owners
<1>3. UNCHANGED request /\ \E pc, u, j : Become(t, pc, u, j) /\ (pc # "idle" => u \in Users)
  BY <1>1, <1>2 DEF TaskStep, Begin, Finish, Finally, DrainClaim, DrainOwn, DrainAny, DrainOwner,
                    DrainRaises, Oldest
<1> QED
  BY <1>3, BecomeShapes DEF Shapes

LEMMA OthersShapes ==
  ASSUME Typed, Shapes,
         \/ \E u \in Users : Translate(u) \/ TranslationEnds(u)
         \/ \E j \in Ids : Expire(j)
         \/ Restart
         \/ UNCHANGED vars
  PROVE  Shapes'
<1>1. CASE UNCHANGED <<request, task>>
  BY <1>1 DEF Shapes
<1>2. CASE Restart
  BY <1>2 DEF Restart, Shapes, Idle, Asleep
<1> QED
  BY <1>1, <1>2 DEF Translate, TranslationEnds, Expire, vars

-----------------------------------------------------------------------------
(* Every action keeps the count *)

\* Whether a request or a task is a holder, read off its row.
LEMMA HolderRows ==
  ASSUME NEW us
  PROVE  /\ \A r \in Requests : r \in RequestsOf(us) <=> request[r].user \in us /\ request[r].claimed
         /\ \A t \in Tasks : t \in TasksOf(us) <=> task[t].user \in us /\ task[t].pc \in Keeps
         /\ \A x : <<"request", x>> \in Held(us) <=> x \in RequestsOf(us)
         /\ \A x : <<"task", x>> \in Held(us) <=> x \in TasksOf(us)
         /\ \A x : <<"translation", x>> \in Held(us) <=> x \in translating /\ x \in us
         /\ \A x : <<"lost", x>> \in Held(us) <=> x \in LostOf(us)
<1>1. \A r \in Requests : r \in RequestsOf(us) <=> request[r].user \in us /\ request[r].claimed
  BY DEF RequestsOf
<1>2. \A t \in Tasks : t \in TasksOf(us) <=> task[t].user \in us /\ task[t].pc \in Keeps
  BY DEF TasksOf, Keeps
<1>3. \A x : /\ <<"request", x>> \in Held(us) <=> x \in RequestsOf(us)
             /\ <<"task", x>> \in Held(us) <=> x \in TasksOf(us)
             /\ <<"translation", x>> \in Held(us) <=> x \in translating /\ x \in us
             /\ <<"lost", x>> \in Held(us) <=> x \in LostOf(us)
  BY DEF Held
<1> QED
  BY <1>1, <1>2, <1>3

\* A task that goes on with the slot it has, or without one, changes no holder.
LEMMA TaskSame ==
  ASSUME Typed, Counted, NEW t \in Tasks, NEW pc, NEW u, NEW j, Become(t, pc, u, j),
         UNCHANGED <<request, translating, lost>>, SlotsSame,
         IF task[t].pc \in Keeps THEN pc \in Keeps /\ u = task[t].user ELSE pc \notin Keeps
  PROVE  Counted'
<1>1. ASSUME NEW us
      PROVE  Held(us)' = Held(us)
  <2>1. TasksOf(us)' = IF u \in us /\ pc \in Keeps THEN TasksOf(us) \cup {t} ELSE TasksOf(us) \ {t}
    BY TasksOfStep
  <2>2. t \in TasksOf(us) <=> u \in us /\ pc \in Keeps
    BY HolderRows
  <2>3. TasksOf(us)' = TasksOf(us)
    BY <2>1, <2>2
  <2>4. RequestsOf(us)' = RequestsOf(us)
    BY DEF RequestsOf
  <2> QED
    BY <2>3, <2>4, HeldByParts
<1> QED
  BY <1>1, NobodyChanges

\* A task that claims a slot for the user it works for from now on.
LEMMA TaskGains ==
  ASSUME Typed, Counted, NEW t \in Tasks, NEW pc \in Keeps, NEW u \in Users, NEW j, Become(t, pc, u, j),
         UNCHANGED <<request, translating, lost>>, Claim(u), task[t].pc \notin Keeps
  PROVE  Counted'
<1>1. ASSUME NEW us
      PROVE  Held(us)' = IF u \in us THEN Held(us) \cup {<<"task", t>>} ELSE Held(us)
  <2>1. TasksOf(us)' = IF u \in us /\ pc \in Keeps THEN TasksOf(us) \cup {t} ELSE TasksOf(us) \ {t}
    BY TasksOfStep
  <2>2. t \notin TasksOf(us)
    BY HolderRows
  <2>3. TasksOf(us)' = IF u \in us THEN TasksOf(us) \cup {t} ELSE TasksOf(us)
    BY <2>1, <2>2
  <2>4. RequestsOf(us)' = RequestsOf(us)
    BY DEF RequestsOf
  <2> QED
    BY <2>3, <2>4, HeldByParts
<1>2. <<"task", t>> \notin Held(Users)
  BY HolderRows
<1> QED
  BY <1>1, <1>2, HolderAdded

\* A task that gives its slot back.
LEMMA TaskLoses ==
  ASSUME Typed, Counted, NEW t \in Tasks, NEW pc, NEW u, NEW j, Become(t, pc, u, j),
         UNCHANGED <<request, translating, lost>>, Release(task[t].user), task[t].user \in Users,
         task[t].pc \in Keeps, pc \notin Keeps
  PROVE  Counted'
<1>1. ASSUME NEW us
      PROVE  Held(us)' = IF task[t].user \in us THEN Held(us) \ {<<"task", t>>} ELSE Held(us)
  <2>1. TasksOf(us)' = IF u \in us /\ pc \in Keeps THEN TasksOf(us) \cup {t} ELSE TasksOf(us) \ {t}
    BY TasksOfStep
  <2>2. t \in TasksOf(us) <=> task[t].user \in us
    BY HolderRows
  <2>3. TasksOf(us)' = IF task[t].user \in us THEN TasksOf(us) \ {t} ELSE TasksOf(us)
    BY <2>1, <2>2
  <2>4. RequestsOf(us)' = RequestsOf(us)
    BY DEF RequestsOf
  <2> QED
    BY <2>3, <2>4, HeldByParts
<1>2. <<"task", t>> \in Held({task[t].user})
  BY HolderRows
<1> QED
  BY <1>1, <1>2, HolderRemoved

LEMMA TasksCounted ==
  ASSUME Typed, Shapes, Counted, NEW t \in Tasks, TaskStep(t)
  PROVE  Counted'
<1>0. task[t].pc # "idle" => task[t].user \in Users
  BY DEF Shapes
<1>a. UNCHANGED request
  BY DEF TaskStep, Begin, Finish, Finally, DrainClaim, DrainOwn, DrainAny, DrainOwner, DrainRaises
<1>1. CASE Begin(t)
  BY <1>1, <1>a, TaskSame DEF Begin, Keeps
<1>2. ASSUME NEW status, Finish(t, status)
      PROVE  Counted'
  BY <1>2, <1>a, TaskSame DEF Finish, Keeps
<1>3. CASE Finally(t)
  BY <1>0, <1>3, <1>a, TaskLoses DEF Finally, Keeps
<1>4. CASE DrainClaim(t)
  <2>1. CASE SlotFree(task[t].user)
    BY <1>0, <1>4, <1>a, <2>1, TaskGains DEF DrainClaim, Keeps
  <2>2. CASE ~SlotFree(task[t].user)
    BY <1>4, <1>a, <2>2, TaskSame DEF DrainClaim, Keeps
  <2> QED
    BY <2>1, <2>2
<1>5. CASE DrainOwn(t)
  <2>1. ASSUME NEW j, Become(t, "run", task[t].user, j), SlotsSame
        PROVE  Counted'
    BY <1>5, <1>a, <2>1, TaskSame DEF DrainOwn, Keeps
  <2>2. CASE Release(task[t].user) /\ Become(t, "any", task[t].user, NoJob)
    BY <1>0, <1>5, <1>a, <2>2, TaskLoses DEF DrainOwn, Keeps
  <2> QED
    BY <1>5, <2>1, <2>2 DEF DrainOwn
<1>6. CASE DrainAny(t)
  <2>1. PICK pc, u, j : Become(t, pc, u, j) /\ pc \in {"owner", "idle"}
    BY <1>6 DEF DrainAny
  <2> QED
    BY <1>6, <1>a, <2>1, TaskSame DEF DrainAny, Keeps
<1>7. CASE DrainOwner(t)
  <2>1. CASE SlotFree(task[t].user)
    BY <1>0, <1>7, <1>a, <2>1, TaskGains DEF DrainOwner, Keeps
  <2>2. CASE ~SlotFree(task[t].user)
    BY <1>7, <1>a, <2>2, TaskSame DEF DrainOwner, Keeps
  <2> QED
    BY <2>1, <2>2
<1>8. CASE DrainRaises(t)
  <2> DEFINE u == task[t].user
             y == <<"lost", <<u, lost[u] + 1>>>>
  <2>0. Become(t, "idle", NoUser, NoJob) /\ SlotsSame /\ UNCHANGED <<job, request, translating>>
    BY <1>8 DEF DrainRaises
  <2>1. CASE task[t].pc # "own"
    <3>1. UNCHANGED lost /\ task[t].pc \notin Keeps
      BY <1>8, <2>1 DEF DrainRaises, Keeps
    <3> QED
      BY <2>0, <3>1, TaskSame DEF Keeps
  <2>2. CASE task[t].pc = "own"
    <3>1. u \in Users
      BY <1>0, <2>2
    <3>2. lost \in [Users -> Nat] /\ lost' = [lost EXCEPT ![u] = @ + 1]
      BY <1>8, <2>2 DEF DrainRaises, Typed
    <3>3. lost[u] \in Nat /\ 1..lost'[u] = (1..lost[u]) \cup {lost[u] + 1}
      BY <3>1, <3>2
    <3>4. \A v \in Users : v # u => lost'[v] = lost[v]
      BY <3>2
    <3>5. \A us \in SUBSET Users :
             LostOf(us)' = IF u \in us THEN LostOf(us) \cup {<<u, lost[u] + 1>>} ELSE LostOf(us)
      <4> SUFFICES ASSUME NEW us \in SUBSET Users
                   PROVE  LostOf(us)' = IF u \in us THEN LostOf(us) \cup {<<u, lost[u] + 1>>} ELSE LostOf(us)
        OBVIOUS
      <4>1. \A v \in us : v # u => 1..lost'[v] = 1..lost[v]
        BY <3>4
      <4> DEFINE Mine(n) == {u} \X (1..n)
      <4>2. {u} \X (1..lost'[u]) = ({u} \X (1..lost[u])) \cup {<<u, lost[u] + 1>>}
        BY <3>3, Tagged
      <4>3. \A x : x \in LostOf(us)' <=> \E v \in us : x \in {v} \X (1..lost'[v])
        BY DEF LostOf
      <4>4. \A x : x \in LostOf(us) <=> \E v \in us : x \in {v} \X (1..lost[v])
        BY DEF LostOf
      <4>5. CASE u \in us
        <5>1. \A x : x \in LostOf(us)' <=> x \in LostOf(us) \/ x = <<u, lost[u] + 1>>
          BY <4>1, <4>2, <4>3, <4>4, <4>5
        <5> QED
          BY <4>5, <5>1
      <4>6. CASE u \notin us
        <5>1. \A x : x \in LostOf(us)' <=> x \in LostOf(us)
          BY <4>1, <4>3, <4>4, <4>6
        <5> QED
          BY <4>6, <5>1
      <4> QED
        BY <4>5, <4>6
    <3>6. \A us \in SUBSET Users :
             TasksOf(us)' = TasksOf(us) \ {t} /\ RequestsOf(us)' = RequestsOf(us)
      BY <2>0, TasksOfStep DEF Keeps, RequestsOf
    <3>7. \A us \in SUBSET Users :
             Held(us)' = IF u \in us THEN (Held(us) \ {<<"task", t>>}) \cup {y} ELSE Held(us)
      <4> SUFFICES ASSUME NEW us \in SUBSET Users
                   PROVE  Held(us)' = IF u \in us THEN (Held(us) \ {<<"task", t>>}) \cup {y} ELSE Held(us)
        OBVIOUS
      <4>1. /\ TasksOf(us)' = TasksOf(us) \ {t} /\ RequestsOf(us)' = RequestsOf(us)
            /\ LostOf(us)' = IF u \in us THEN LostOf(us) \cup {<<u, lost[u] + 1>>} ELSE LostOf(us)
            /\ translating' = translating
        BY <2>0, <3>5, <3>6
      <4>2. t \in TasksOf(us) <=> u \in us
        BY <2>2, HolderRows DEF Keeps
      <4>3. Held(us)' = ({"task"} \X (TasksOf(us) \ {t})) \cup ({"request"} \X RequestsOf(us))
                        \cup ({"translation"} \X (translating \cap us)) \cup ({"lost"} \X LostOf(us)')
        BY <4>1 DEF Held
      <4>4. CASE u \in us
        <5>1. {"lost"} \X LostOf(us)' = ({"lost"} \X LostOf(us)) \cup {y}
          BY <4>1, <4>4, Tagged
        <5>2. {"task"} \X (TasksOf(us) \ {t}) = ({"task"} \X TasksOf(us)) \ {<<"task", t>>}
          BY Tagged
        <5>3. <<"task", t>> \notin ({"request"} \X RequestsOf(us))
                        \cup ({"translation"} \X (translating \cap us)) \cup ({"lost"} \X LostOf(us))
          OBVIOUS
        <5> QED
          BY <4>3, <4>4, <5>1, <5>2, <5>3 DEF Held
      <4>5. CASE u \notin us
        <5>1. TasksOf(us) \ {t} = TasksOf(us) /\ LostOf(us)' = LostOf(us)
          BY <4>1, <4>2, <4>5
        <5> QED
          BY <4>3, <4>5, <5>1 DEF Held
      <4> QED
        BY <4>4, <4>5
    <3>8. <<"task", t>> \in Held({u})
      BY <2>2, HolderRows DEF Keeps
    <3>9. y \notin Held(Users)
      <4>1. <<u, lost[u] + 1>> \notin LostOf(Users)
        BY <3>3 DEF LostOf
      <4> QED
        BY <4>1, HolderRows
    <3> QED
      BY <2>0, <3>1, <3>7, <3>8, <3>9, HolderReplaced
  <2> QED
    BY <2>1, <2>2
<1> QED
  BY <1>1, <1>2, <1>3, <1>4, <1>5, <1>6, <1>7, <1>8 DEF TaskStep

LEMMA RequestSame ==
  ASSUME Typed, Counted, NEW r \in Requests, NEW rec, Take(r, rec), SlotsSame,
         UNCHANGED <<task, translating, lost>>,
         rec.claimed <=> request[r].claimed,
         request[r].claimed => rec.user = request[r].user
  PROVE  Counted'
<1>1. ASSUME NEW us
      PROVE  Held(us)' = Held(us)
  <2>1. RequestsOf(us)' = IF rec.user \in us /\ rec.claimed THEN RequestsOf(us) \cup {r} ELSE RequestsOf(us) \ {r}
    BY RequestsOfStep
  <2>2. r \in RequestsOf(us) <=> rec.user \in us /\ rec.claimed
    BY HolderRows
  <2>3. RequestsOf(us)' = RequestsOf(us)
    BY <2>1, <2>2
  <2>4. TasksOf(us)' = TasksOf(us)
    BY DEF TasksOf
  <2> QED
    BY <2>3, <2>4, HeldByParts
<1> QED
  BY <1>1, NobodyChanges

LEMMA RequestsCounted ==
  ASSUME Typed, Shapes, Counted, NEW r \in Requests,
         (\E u \in Users, url \in Urls : Ask(r, u, url)) \/ TryClaim(r) \/ Create(r) \/ Refuse(r) \/ Answer(r)
  PROVE  Counted'
<1>0. /\ request[r].pc # "idle" => request[r].user \in Users
      /\ request[r].claimed => request[r].pc \in {"create", "reserve"}
  BY DEF Shapes
<1>a. request[r] \in RequestRows
  BY RowsTyped
<1> DEFINE u == request[r].user
<1>1. ASSUME NEW v \in Users, NEW url \in Urls, Ask(r, v, url)
      PROVE  Counted'
  <2> DEFINE rec == [Idle EXCEPT !.pc = "claim", !.user = v, !.url = url, !.open = Cardinality(Open(v))]
  <2>1. rec.claimed = FALSE
    BY DEF Idle
  <2>2. Take(r, rec) /\ SlotsSame /\ UNCHANGED <<task, translating, lost>> /\ ~request[r].claimed
    BY <1>0, <1>1 DEF Ask
  <2> HIDE DEF rec
  <2> QED
    BY <2>1, <2>2, RequestSame
<1>2. CASE TryClaim(r)
  <2>0. /\ request[r].pc = "claim" /\ u \in Users /\ ~request[r].claimed
        /\ UNCHANGED <<task, translating, lost>>
    BY <1>0, <1>2 DEF TryClaim
  <2>1. CASE request[r].open = 0 /\ SlotFree(u)
    <3> DEFINE rec == [request[r] EXCEPT !.pc = "create", !.claimed = TRUE]
    <3>1. rec.user = u /\ rec.claimed
      BY <1>a DEF RequestRows
    <3>2. Claim(u) /\ Take(r, rec)
      BY <1>2, <2>1 DEF TryClaim
    <3> HIDE DEF rec
    <3>3. ASSUME NEW us
          PROVE  Held(us)' = IF u \in us THEN Held(us) \cup {<<"request", r>>} ELSE Held(us)
      <4>1. RequestsOf(us)' = IF u \in us THEN RequestsOf(us) \cup {r} ELSE RequestsOf(us) \ {r}
        BY <3>1, <3>2, RequestsOfStep
      <4>2. r \notin RequestsOf(us)
        BY <2>0, HolderRows
      <4>3. RequestsOf(us)' = IF u \in us THEN RequestsOf(us) \cup {r} ELSE RequestsOf(us)
        BY <4>1, <4>2
      <4>4. TasksOf(us)' = TasksOf(us)
        BY <2>0 DEF TasksOf
      <4> QED
        BY <2>0, <4>3, <4>4, HeldByParts
    <3>4. <<"request", r>> \notin Held(Users)
      BY <2>0, HolderRows
    <3> QED
      BY <2>0, <3>2, <3>3, <3>4, HolderAdded
  <2>2. CASE ~(request[r].open = 0 /\ SlotFree(u))
    <3> DEFINE rec == [request[r] EXCEPT !.pc = "create"]
    <3>1. rec.claimed = request[r].claimed
      BY <1>a DEF RequestRows
    <3>2. SlotsSame /\ Take(r, rec)
      BY <1>2, <2>2 DEF TryClaim
    <3> HIDE DEF rec
    <3> QED
      BY <2>0, <3>1, <3>2, RequestSame
  <2> QED
    BY <2>1, <2>2
<1>3. CASE Create(r)
  <2>1. PICK j : Take(r, [request[r] EXCEPT !.pc = "reserve", !.job = j])
    BY <1>3 DEF Create
  <2> DEFINE rec == [request[r] EXCEPT !.pc = "reserve", !.job = j]
  <2>2. rec.claimed = request[r].claimed /\ rec.user = u
    BY <1>a DEF RequestRows
  <2>3. SlotsSame /\ UNCHANGED <<task, translating, lost>>
    BY <1>3 DEF Create
  <2> HIDE DEF rec
  <2>4. Take(r, rec)
    BY <2>1 DEF rec
  <2> QED
    BY <2>2, <2>3, <2>4, RequestSame
<1>4. CASE Refuse(r)
  <2>0. /\ u \in Users /\ Take(r, Idle) /\ UNCHANGED <<task, translating, lost>>
        /\ Idle.claimed = FALSE
    BY <1>0, <1>4 DEF Refuse, Idle
  <2>1. CASE request[r].claimed
    <3>1. ASSUME NEW us
          PROVE  Held(us)' = IF u \in us THEN Held(us) \ {<<"request", r>>} ELSE Held(us)
      <4>1. RequestsOf(us)' = RequestsOf(us) \ {r}
        BY <2>0, RequestsOfStep
      <4>2. r \in RequestsOf(us) <=> u \in us
        BY <2>1, HolderRows
      <4>3. RequestsOf(us)' = IF u \in us THEN RequestsOf(us) \ {r} ELSE RequestsOf(us)
        BY <4>1, <4>2
      <4>4. TasksOf(us)' = TasksOf(us)
        BY <2>0 DEF TasksOf
      <4> QED
        BY <2>0, <4>3, <4>4, HeldByParts
    <3>2. <<"request", r>> \in Held({u})
      BY <2>1, HolderRows
    <3>3. Release(u)
      BY <1>4, <2>1 DEF Refuse, GiveBackSlot
    <3> QED
      BY <2>0, <3>1, <3>2, <3>3, HolderRemoved
  <2>2. CASE ~request[r].claimed
    BY <1>4, <2>0, <2>2, RequestSame DEF Refuse, GiveBackSlot
  <2> QED
    BY <2>1, <2>2
<1>5. CASE Answer(r)
  <2>0. /\ u \in Users /\ Take(r, Idle) /\ SlotsSame /\ UNCHANGED <<translating, lost>>
        /\ Idle.claimed = FALSE
    BY <1>0, <1>5 DEF Answer, Idle
  <2>1. CASE request[r].claimed
    <3>1. PICK t \in Tasks : task[t].pc = "idle" /\ Become(t, "run", u, request[r].job)
      BY <1>5, <2>1 DEF Answer
    <3>2. ASSUME NEW us
          PROVE  Held(us)' = IF u \in us THEN (Held(us) \ {<<"request", r>>}) \cup {<<"task", t>>} ELSE Held(us)
      <4>1. RequestsOf(us)' = RequestsOf(us) \ {r}
        BY <2>0, RequestsOfStep
      <4>2. r \in RequestsOf(us) <=> u \in us
        BY <2>1, HolderRows
      <4>3. TasksOf(us)' = IF u \in us THEN TasksOf(us) \cup {t} ELSE TasksOf(us) \ {t}
        BY <3>1, TasksOfStep DEF Keeps
      <4>4. t \notin TasksOf(us)
        BY <3>1, HolderRows DEF Keeps
      <4>5. CASE u \in us
        <5>1. TasksOf(us)' = TasksOf(us) \cup {t}
          BY <4>3, <4>5
        <5> QED
          BY <2>0, <4>1, <4>5, <5>1, HeldByParts
      <4>6. CASE u \notin us
        <5>1. TasksOf(us)' = TasksOf(us) /\ RequestsOf(us)' = RequestsOf(us)
          BY <4>1, <4>2, <4>3, <4>4, <4>6
        <5> QED
          BY <2>0, <4>6, <5>1, HeldByParts
      <4> QED
        BY <4>5, <4>6
    <3>3. <<"request", r>> \in Held({u}) /\ <<"task", t>> \notin Held(Users)
      BY <2>1, <3>1, HolderRows DEF Keeps
    <3> QED
      BY <2>0, <3>2, <3>3, HolderReplaced
  <2>2. CASE ~request[r].claimed
    BY <1>5, <2>0, <2>2, RequestSame DEF Answer
  <2> QED
    BY <2>1, <2>2
<1> QED
  BY <1>1, <1>2, <1>3, <1>4, <1>5

\* A translation takes or gives back the slot of its user.
LEMMA TranslationsOfStep ==
  ASSUME UNCHANGED <<request, task, lost>>, NEW u, NEW us
  PROVE  /\ translating' = translating \cup {u} =>
              Held(us)' = IF u \in us THEN Held(us) \cup {<<"translation", u>>} ELSE Held(us)
         /\ translating' = translating \ {u} =>
              Held(us)' = IF u \in us THEN Held(us) \ {<<"translation", u>>} ELSE Held(us)
<1>1. TasksOf(us)' = TasksOf(us) /\ RequestsOf(us)' = RequestsOf(us) /\ LostOf(us)' = LostOf(us)
  BY DEF TasksOf, RequestsOf, LostOf
<1>2. Held(us)' = ({"task"} \X TasksOf(us)) \cup ({"request"} \X RequestsOf(us))
                  \cup ({"translation"} \X (translating' \cap us)) \cup ({"lost"} \X LostOf(us))
  BY <1>1 DEF Held
<1>3. <<"translation", u>> \notin ({"task"} \X TasksOf(us)) \cup ({"request"} \X RequestsOf(us))
                                  \cup ({"lost"} \X LostOf(us))
  OBVIOUS
<1>4. ASSUME translating' = translating \cup {u}
      PROVE  Held(us)' = IF u \in us THEN Held(us) \cup {<<"translation", u>>} ELSE Held(us)
  <2>1. translating' \cap us = IF u \in us THEN (translating \cap us) \cup {u} ELSE translating \cap us
    BY <1>4
  <2>2. {"translation"} \X (translating' \cap us) =
          IF u \in us THEN ({"translation"} \X (translating \cap us)) \cup {<<"translation", u>>}
          ELSE {"translation"} \X (translating \cap us)
    BY <2>1, Tagged
  <2> QED
    BY <1>2, <2>2 DEF Held
<1>5. ASSUME translating' = translating \ {u}
      PROVE  Held(us)' = IF u \in us THEN Held(us) \ {<<"translation", u>>} ELSE Held(us)
  <2>1. translating' \cap us = IF u \in us THEN (translating \cap us) \ {u} ELSE translating \cap us
    BY <1>5
  <2>2. {"translation"} \X (translating' \cap us) =
          IF u \in us THEN ({"translation"} \X (translating \cap us)) \ {<<"translation", u>>}
          ELSE {"translation"} \X (translating \cap us)
    BY <2>1, Tagged
  <2> QED
    BY <1>2, <1>3, <2>2 DEF Held
<1> QED
  BY <1>4, <1>5

\* Where nobody holds anything, nothing is counted.
Fresh ==
  /\ active = [u \in Users |-> 0] /\ global = 0 /\ translating = {} /\ lost = [u \in Users |-> 0]
  /\ request = [r \in Requests |-> Idle] /\ task = [t \in Tasks |-> Asleep]

LEMMA NobodyHolds == Fresh => Counted
<1> SUFFICES ASSUME Fresh PROVE Counted
  OBVIOUS
<1> USE DEF Fresh
<1>1. \A us \in SUBSET Users : Held(us) = {}
  <2> SUFFICES ASSUME NEW us \in SUBSET Users
               PROVE  Held(us) = {}
    OBVIOUS
  <2>1. TasksOf(us) = {}
    BY DEF TasksOf, Asleep
  <2>2. RequestsOf(us) = {}
    BY DEF RequestsOf, Idle
  <2>3. LostOf(us) = {}
    <3>1. \A u \in us : 1..lost[u] = {}
      OBVIOUS
    <3> QED
      BY <3>1 DEF LostOf
  <2> QED
    BY <2>1, <2>2, <2>3 DEF Held
<1>2. Cardinality({}) = 0 /\ IsFiniteSet({})
  BY FS_EmptySet
<1>3. Held(Users) = {} /\ \A u \in Users : Held({u}) = {}
  BY <1>1
<1> QED
  BY <1>2, <1>3 DEF Counted, SlotsMatchHolders

LEMMA OthersCounted ==
  ASSUME Typed, Shapes, Counted,
         \/ \E u \in Users : Translate(u) \/ TranslationEnds(u)
         \/ \E j \in Ids : Expire(j)
         \/ Restart
         \/ UNCHANGED vars
  PROVE  Counted'
<1>1. ASSUME NEW u \in Users, Translate(u)
      PROVE  Counted'
  <2>1. \A us : Held(us)' = IF u \in us THEN Held(us) \cup {<<"translation", u>>} ELSE Held(us)
    BY <1>1, TranslationsOfStep DEF Translate
  <2>2. <<"translation", u>> \notin Held(Users)
    BY <1>1, HolderRows DEF Translate
  <2> QED
    BY <1>1, <2>1, <2>2, HolderAdded DEF Translate
<1>2. ASSUME NEW u \in Users, TranslationEnds(u)
      PROVE  Counted'
  <2>1. \A us : Held(us)' = IF u \in us THEN Held(us) \ {<<"translation", u>>} ELSE Held(us)
    BY <1>2, TranslationsOfStep DEF TranslationEnds
  <2>2. <<"translation", u>> \in Held({u})
    BY <1>2, HolderRows DEF TranslationEnds
  <2> QED
    BY <1>2, <2>1, <2>2, HolderRemoved DEF TranslationEnds
<1>3. CASE UNCHANGED <<active, global, request, task, translating, lost>>
  <2>1. \A us : Held(us)' = Held(us)
    BY <1>3 DEF Held, TasksOf, RequestsOf, LostOf
  <2> QED
    BY <1>3, <2>1, NobodyChanges DEF SlotsSame
<1>4. CASE Restart
  <2>1. Fresh'
    BY <1>4 DEF Restart, Fresh
  <2>2. Fresh' => Counted'
    BY NobodyHolds, PTL
  <2> QED
    BY <2>1, <2>2
<1> QED
  BY <1>1, <1>2, <1>3, <1>4 DEF Expire, SlotsSame, vars

-----------------------------------------------------------------------------
(* The theorems *)

LEMMA IInvInit == Init => IInv
<1> SUFFICES ASSUME Init PROVE IInv
  OBVIOUS
<1>1. Absent \in JobRows /\ Asleep \in TaskRows /\ Idle \in RequestRows
  BY IdleRows DEF Absent, JobRows, Statuses, Asleep, TaskRows
<1>2. 0 \in 0..MaxPerUser /\ 0 \in 0..MaxConcurrent
  BY LimitsAreNumbers
<1>3. Typed
  BY <1>1, <1>2 DEF Init, Typed
<1>4. Shapes
  BY DEF Init, Shapes, Idle, Asleep
<1>5. Counted
  BY NobodyHolds DEF Init, Fresh
<1> QED
  BY <1>3, <1>4, <1>5 DEF IInv

LEMMA IInvStep == IInv /\ [Next]_vars => IInv'
<1> SUFFICES ASSUME Typed, Shapes, Counted, [Next]_vars PROVE IInv'
  BY DEF IInv
<1>1. ASSUME NEW r \in Requests,
             (\E u \in Users, url \in Urls : Ask(r, u, url)) \/ TryClaim(r) \/ Create(r) \/ Refuse(r) \/ Answer(r)
      PROVE  IInv'
  BY <1>1, RequestsTyped, RequestsShapes, RequestsCounted DEF IInv
<1>2. ASSUME NEW t \in Tasks, TaskStep(t)
      PROVE  IInv'
  BY <1>2, TasksTyped, TasksShapes, TasksCounted DEF IInv
<1>3. CASE \/ \E u \in Users : Translate(u) \/ TranslationEnds(u)
           \/ \E j \in Ids : Expire(j)
           \/ Restart
           \/ UNCHANGED vars
  BY <1>3, OthersTyped, OthersShapes, OthersCounted DEF IInv
<1> QED
  BY <1>1, <1>2, <1>3 DEF Next

\* One unit for each slot that was lost over a user.
Units(u, n) == {"lost"} \X ({u} \X (1..n))

LEMMA UnitsCounted ==
  ASSUME NEW u, NEW n \in Nat
  PROVE  Cardinality(Units(u, n)) = n
<1>1. IsFiniteSet(1..n) /\ Cardinality(1..n) = n
  <2>1. 1 \in Int /\ n \in Int
    OBVIOUS
  <2> QED
    BY <2>1, FS_Interval
<1>2. \A x : IsFiniteSet({x}) /\ Cardinality({x}) = 1
  BY FS_Singleton
<1>3. \A x, S : IsFiniteSet(S) /\ Cardinality(S) = n =>
        IsFiniteSet({x} \X S) /\ Cardinality({x} \X S) = n
  <2> SUFFICES ASSUME NEW x, NEW S, IsFiniteSet(S), Cardinality(S) = n
               PROVE  IsFiniteSet({x} \X S) /\ Cardinality({x} \X S) = n
    OBVIOUS
  <2>1. IsFiniteSet({x} \X S) /\ Cardinality({x} \X S) = Cardinality({x}) * Cardinality(S)
    BY <1>2, FS_Product
  <2>2. Cardinality({x}) = 1 /\ 1 * n = n
    BY <1>2
  <2> QED
    BY <2>1, <2>2
<1> QED
  BY <1>1, <1>3 DEF Units

\* The slots that raising drains lost are among those the counter of their user counts.
LEMMA LostWithinLimit ==
  ASSUME IInv, NEW u \in Users
  PROVE  lost[u] \in 0..MaxPerUser
<1>1. lost[u] \in Nat /\ active[u] \in 0..MaxPerUser
  BY DEF IInv, Typed
<1>2. Units(u, lost[u]) \in SUBSET Held({u})
  <2>1. LostOf({u}) = {u} \X (1..lost[u])
    BY DEF LostOf
  <2> QED
    BY <2>1 DEF Held, Units
<1>3. Cardinality(Units(u, lost[u])) = lost[u]
  BY <1>1, UnitsCounted
<1>4. IsFiniteSet(Held({u})) /\ Cardinality(Held({u})) \in Nat
  BY HeldFinite DEF IInv
<1>5. Cardinality(Units(u, lost[u])) <= Cardinality(Held({u}))
  BY <1>2, <1>4, FS_Subset
<1>6. active[u] = Cardinality(Held({u}))
  BY DEF IInv, Counted, SlotsMatchHolders
<1> QED
  BY <1>1, <1>3, <1>5, <1>6, LimitsAreNumbers

\* TypeOK is the rest of IInv.
LEMMA IInvTypeOK == IInv => TypeOK
<1> SUFFICES ASSUME IInv PROVE TypeOK
  OBVIOUS
<1>1. lost \in [Users -> 0..MaxPerUser]
  BY LostWithinLimit DEF IInv, Typed
<1> QED
  BY <1>1 DEF IInv, Typed, TypeOK, JobRows, Statuses, RequestRows, TaskRows

LEMMA Invariant == Spec => []IInv
<1>1. Init => IInv
  BY IInvInit
<1>2. IInv /\ [Next]_vars => IInv'
  BY IInvStep
<1> QED
  BY <1>1, <1>2, PTL DEF Spec

\* Whatever requests, tasks and translations overlap, raise or die, values keep their types
\* and neither counter of app.job_guard leaves its limit (app/job_guard.py:39).
THEOREM QueueTypeCorrect == Spec => []TypeOK
  BY Invariant, IInvTypeOK, PTL

\* For any number of users, requests and tasks, the counters of app.job_guard count exactly
\* who holds a slot: none is given back twice, and only a drain that raises loses one.
THEOREM SlotsAlwaysMatchHolders == Spec => []SlotsMatchHolders
<1>1. IInv => SlotsMatchHolders
  BY DEF IInv, Counted
<1> QED
  BY <1>1, Invariant, PTL

\* release() of app.job_guard clamps both counters at zero (app/job_guard.py:42); the clamp
\* never bites: whoever gives a slot back is still counted.
THEOREM ReleasesAreCounted ==
  Spec => [] /\ \A t \in Tasks : task[t].pc \in Keeps => active[task[t].user] > 0 /\ global > 0
             /\ \A r \in Requests : request[r].claimed => active[request[r].user] > 0 /\ global > 0
             /\ \A u \in translating : active[u] > 0 /\ global > 0
<1> DEFINE Safe == /\ \A t \in Tasks : task[t].pc \in Keeps => active[task[t].user] > 0 /\ global > 0
                   /\ \A r \in Requests : request[r].claimed => active[request[r].user] > 0 /\ global > 0
                   /\ \A u \in translating : active[u] > 0 /\ global > 0
<1>1. IInv => Safe
  <2> SUFFICES ASSUME IInv PROVE Safe
    OBVIOUS
  <2>1. ASSUME NEW u \in Users, NEW x \in Held({u})
        PROVE  active[u] > 0 /\ global > 0
    <3>1. x \in Held(Users)
      BY <2>1, HeldGrowsWithUsers
    <3>2. Cardinality(Held({u})) # 0 /\ Cardinality(Held(Users)) # 0
      BY <2>1, <3>1, HeldFinite, FS_EmptySet DEF IInv
    <3>3. active[u] \in Nat /\ global \in Nat
      BY LimitsAreNumbers DEF IInv, Typed
    <3> QED
      BY <3>2, <3>3 DEF IInv, Counted, SlotsMatchHolders
  <2>2. ASSUME NEW t \in Tasks, task[t].pc \in Keeps
        PROVE  active[task[t].user] > 0 /\ global > 0
    <3>1. task[t].user \in Users
      BY <2>2 DEF IInv, Shapes, Keeps
    <3>2. <<"task", t>> \in Held({task[t].user})
      BY <2>2, HolderRows
    <3> QED
      BY <2>1, <3>1, <3>2
  <2>3. ASSUME NEW r \in Requests, request[r].claimed
        PROVE  active[request[r].user] > 0 /\ global > 0
    <3>1. request[r].user \in Users
      BY <2>3 DEF IInv, Shapes
    <3>2. <<"request", r>> \in Held({request[r].user})
      BY <2>3, HolderRows
    <3> QED
      BY <2>1, <3>1, <3>2
  <2>4. ASSUME NEW u \in translating
        PROVE  active[u] > 0 /\ global > 0
    <3>1. u \in Users
      BY <2>4 DEF IInv, Typed
    <3>2. <<"translation", u>> \in Held({u})
      BY <2>4, HolderRows
    <3> QED
      BY <2>1, <3>1, <3>2
  <2> QED
    BY <2>2, <2>3, <2>4
<1> QED
  BY <1>1, Invariant, PTL
=============================================================================
