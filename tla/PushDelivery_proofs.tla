------------------------- MODULE PushDelivery_proofs -------------------------
(***************************************************************************)
(* The outbox of "your recipe is ready" for any users, devices, jobs and      *)
(* workers: types, how often a device can hear of one queued alert, whose     *)
(* device an alert is taken up for, and rows that stay finished.              *)
(*                                                                         *)
(* A worker whose lease is lost may still send, beside the one that claimed    *)
(* the row again, and the row may be dropped meanwhile.  So what is counted    *)
(* against a row's attempts are the alerts that arrived and the workers about   *)
(* to send one.                                                              *)
(***************************************************************************)
EXTENDS PushDelivery, FiniteSetTheorems, TLAPS

-----------------------------------------------------------------------------
(* The inductive invariant *)

Rows == [state : {"absent", "pending", "processing", "sent", "failed"},
         user : Users \cup {NoUser}, attempts : 0..MaxAttempts,
         due : BOOLEAN, leased : BOOLEAN]
Loops == [pc : {"idle", "send", "finish"}, id : Ids \cup {<< >>},
          user : Users \cup {NoUser},
          result : {"none", "sent", "retry", "invalid_device", "failed"}]

\* A worker that is not idle has a row, and a result once it has sent.
LoopsHaveRows ==
  \A w \in Workers : /\ worker[w].pc # "idle" => worker[w].id \in Ids
                     /\ worker[w].pc = "finish" => worker[w].result # "none"

Sending(id) == {w \in Workers : worker[w].pc = "send" /\ worker[w].id = id}

\* What arrived and what may still arrive was counted, as long as the row is there ...
AttemptsCovered ==
  \A id \in Ids : Present(id) => alerts[id] + Cardinality(Sending(id)) <= rows[id].attempts

\* ... and does not grow beyond the limit when it is dropped.
LimitKept == \A id \in Ids : alerts[id] + Cardinality(Sending(id)) <= MaxAttempts

PInv == TypeOK /\ LoopsHaveRows /\ AttemptsCovered /\ LimitKept

-----------------------------------------------------------------------------
(* Types, in parts *)

LEMMA Parts ==
  TypeOK <=> /\ owner \in [Devices -> Users \cup {NoUser}] /\ closed \subseteq Users
             /\ job \in [Jobs -> [owner : Users \cup {NoUser}, completed : BOOLEAN]]
             /\ queueing \in [Jobs -> SUBSET (Devices \X Users)]
             /\ rows \in [Ids -> Rows]
             /\ worker \in [Workers -> Loops]
             /\ alerts \in [Ids -> Nat]
BY DEF TypeOK, Rows, Loops

LEMMA NextParts ==
  ASSUME owner' \in [Devices -> Users \cup {NoUser}], closed' \subseteq Users,
         job' \in [Jobs -> [owner : Users \cup {NoUser}, completed : BOOLEAN]],
         queueing' \in [Jobs -> SUBSET (Devices \X Users)],
         rows' \in [Ids -> Rows], worker' \in [Workers -> Loops], alerts' \in [Ids -> Nat]
  PROVE  TypeOK'
BY DEF TypeOK, Rows, Loops

LEMMA IdParts ==
  ASSUME NEW id \in Ids
  PROVE  /\ JobOf(id) \in Jobs /\ DeviceOf(id) \in Devices /\ id[3] \in 1..MaxRows
         /\ id = <<JobOf(id), DeviceOf(id), id[3]>>
BY DEF Ids, JobOf, DeviceOf

LEMMA Limits == MaxAttempts \in Nat /\ MaxAttempts > 0 /\ IsFiniteSet(Workers)
BY PushAssumption DEF PushAssumption

LEMMA Values ==
  /\ NoRow \in Rows /\ Asleep \in Loops
  /\ \A u \in Users : Queued(u) \in Rows
BY Limits DEF NoRow, Queued, Asleep, Rows, Loops

LEMMA DroppedTyped ==
  ASSUME NEW ids, rows \in [Ids -> Rows]
  PROVE  /\ Dropped(ids) \in [Ids -> Rows]
         /\ \A id \in Ids : Dropped(ids)[id] \in {NoRow, rows[id]}
BY Values DEF Dropped

LEMMA SweptTyped ==
  ASSUME rows \in [Ids -> Rows]
  PROVE  /\ Swept \in [Ids -> Rows]
         /\ \A id \in Ids :
              /\ Swept[id].attempts = rows[id].attempts
              /\ \/ Swept[id].state = rows[id].state
                 \/ rows[id].state = "processing" /\ Swept[id].state = "failed"
<1>1. ASSUME NEW id \in Ids
      PROVE  LET row == [rows[id] EXCEPT !.state = "failed"] IN
             row \in Rows /\ row.attempts = rows[id].attempts /\ row.state = "failed"
  BY DEF Rows
<1> QED
  BY <1>1 DEF Swept, Exhausted

LEMMA SetsOfWorkers ==
  ASSUME NEW S \in SUBSET Workers
  PROVE  IsFiniteSet(S) /\ Cardinality(S) \in Nat
BY Limits, FS_Subset, FS_CardinalityType

LEMMA ClaimedTyped ==
  ASSUME NEW row \in Rows, Claimable(row)
  PROVE  /\ ClaimedRow(row) \in Rows
         /\ ClaimedRow(row).state = "processing"
         /\ ClaimedRow(row).attempts = row.attempts + 1
         /\ row.state \in {"pending", "processing"}
<1>1. row.attempts + 1 \in 0..MaxAttempts
  BY Limits DEF Claimable, Rows
<1> QED
  BY <1>1 DEF ClaimedRow, Claimable, Rows

LEMMA FinishedTyped ==
  ASSUME NEW row \in Rows, NEW result \in {"sent", "retry", "failed"}
  PROVE  /\ Finished(row, result) \in Rows
         /\ Finished(row, result).attempts = row.attempts
         /\ Finished(row, result).state # "absent"
<1>1. CASE result = "retry"
  BY <1>1 DEF Finished, Rows
<1>2. CASE result \in {"sent", "failed"}
  BY <1>2 DEF Finished, Rows
<1> QED
  BY <1>1, <1>2

-----------------------------------------------------------------------------
(* Steps *)

\* A step that neither sends nor takes up an alert, and lowers no count of attempts.
LEMMA NothingSent ==
  ASSUME PInv, TypeOK', LoopsHaveRows', alerts' = alerts,
         \A id \in Ids : /\ Sending(id)' \subseteq Sending(id)
                         /\ Present(id)' => Present(id) /\ rows'[id].attempts = rows[id].attempts
  PROVE  PInv'
<1> SUFFICES ASSUME NEW id \in Ids
             PROVE  /\ Present(id)' => alerts'[id] + Cardinality(Sending(id)') <= rows'[id].attempts
                    /\ alerts'[id] + Cardinality(Sending(id)') <= MaxAttempts
  BY DEF PInv, AttemptsCovered, LimitKept
<1>1. Sending(id) \in SUBSET Workers /\ Sending(id)' \in SUBSET Sending(id)
  BY DEF Sending
<1>2. IsFiniteSet(Sending(id)) /\ Cardinality(Sending(id)) \in Nat /\ Cardinality(Sending(id)') \in Nat
  BY <1>1, SetsOfWorkers
<1>3. Cardinality(Sending(id)') <= Cardinality(Sending(id))
  BY <1>1, <1>2, FS_Subset
<1>4. alerts[id] \in Nat /\ rows[id].attempts \in Int
  BY Parts DEF PInv, Rows
<1>5. alerts[id] + Cardinality(Sending(id)) <= MaxAttempts
  BY DEF PInv, LimitKept
<1>6. Present(id) => alerts[id] + Cardinality(Sending(id)) <= rows[id].attempts
  BY DEF PInv, AttemptsCovered
<1> QED
  BY <1>2, <1>3, <1>4, <1>5, <1>6, Limits

\* The transactions, devices and accounts.
LEMMA EnvironmentStep ==
  ASSUME PInv, Environment
  PROVE  PInv'
<1>1. TypeOK /\ LoopsHaveRows
  BY DEF PInv
<1>2. \A id \in Ids : worker' = worker => Sending(id)' = Sending(id)
  BY DEF Sending
<1>3. worker' = worker => LoopsHaveRows'
  BY <1>1 DEF LoopsHaveRows
<1>4. ASSUME NEW j \in Jobs, Complete(j)
      PROVE  PInv'
  <2>1. job[j].owner # NoUser => job[j].owner \in Users
    BY <1>1, Parts
  <2>2. {<<d, job[j].owner>> : d \in {d \in Devices : job[j].owner # NoUser /\ owner[d] = job[j].owner
                                   /\ job[j].owner \notin closed}} \in SUBSET (Devices \X Users)
    BY <2>1
  <2>3. queueing' \in [Jobs -> SUBSET (Devices \X Users)]
    BY <1>1, <1>4, <2>2, Parts DEF Complete
  <2>4. job' \in [Jobs -> [owner : Users \cup {NoUser}, completed : BOOLEAN]]
    BY <1>1, <1>4, Parts DEF Complete
  <2>5. UNCHANGED <<owner, closed, rows, worker, alerts>>
    BY <1>4 DEF Complete
  <2>6. TypeOK'
    BY <1>1, <2>3, <2>4, <2>5, Parts, NextParts
  <2> QED
    BY <1>2, <1>3, <2>5, <2>6, NothingSent DEF Present
<1>5. ASSUME NEW j \in Jobs, CommitRows(j)
      PROVE  PInv'
  <2> DEFINE New(id) == /\ JobOf(id) = j /\ \E u \in Users : <<DeviceOf(id), u>> \in queueing[j]
                        /\ id[3] \in Vacant(j, DeviceOf(id))
             Its(id) == CHOOSE u \in Users : <<DeviceOf(id), u>> \in queueing[j]
  <2>1. UNCHANGED <<owner, closed, job, worker, alerts>>
    BY <1>5 DEF CommitRows
  <2>2. ASSUME NEW id \in Ids
        PROVE  \/ rows'[id] = rows[id]
               \/ New(id) /\ rows'[id] = Queued(Its(id))
    BY <1>5 DEF CommitRows
  <2>3. ASSUME NEW id \in Ids, New(id)
        PROVE  Its(id) \in Users
    BY <2>3
  <2>4. rows' \in [Ids -> Rows]
    <3>1. rows' = [id \in Ids |-> rows'[id]]
      BY <1>5 DEF CommitRows
    <3>2. ASSUME NEW id \in Ids
          PROVE  rows'[id] \in Rows
      <4>1. rows[id] \in Rows
        BY <1>1, Parts
      <4> HIDE DEF Its, New
      <4> QED
        BY <2>2, <2>3, <4>1, Values
    <3> QED
      BY <3>1, <3>2
  <2>5. queueing' \in [Jobs -> SUBSET (Devices \X Users)]
    BY <1>1, <1>5, Parts DEF CommitRows
  <2>6. TypeOK'
    BY <1>1, <2>1, <2>4, <2>5, Parts, NextParts
  <2>7. ASSUME NEW id \in Ids, rows'[id] # rows[id]
        PROVE  alerts[id] = 0 /\ Sending(id) = {} /\ rows'[id].attempts = 0
    <3>1. New(id) /\ rows'[id] = Queued(Its(id))
      BY <2>2, <2>7
    <3>2. id = <<j, DeviceOf(id), id[3]>>
      BY <3>1, IdParts
    <3>3. alerts[id] = 0 /\ \A w \in Workers : worker[w].id # id
      BY <3>1, <3>2 DEF Vacant
    <3>4. rows'[id].attempts = 0
      <4> HIDE DEF Its
      <4> QED
        BY <3>1 DEF Queued
    <3> QED
      BY <3>3, <3>4 DEF Sending
  <2>8. ASSUME NEW id \in Ids, Present(id)'
        PROVE  alerts'[id] + Cardinality(Sending(id)') <= rows'[id].attempts
    <3>1. Sending(id)' = Sending(id) /\ alerts'[id] = alerts[id]
      BY <1>2, <2>1
    <3>2. CASE rows'[id] = rows[id]
      BY <2>8, <3>1, <3>2 DEF PInv, AttemptsCovered, Present
    <3>3. CASE rows'[id] # rows[id]
      BY <2>7, <3>1, <3>3, FS_EmptySet
    <3> QED
      BY <3>2, <3>3
  <2>9. LimitKept'
    BY <1>2, <2>1 DEF PInv, LimitKept
  <2> QED
    BY <1>3, <2>1, <2>6, <2>8, <2>9 DEF PInv, AttemptsCovered
<1>6. ASSUME NEW j \in Jobs, JobReopens(j)
      PROVE  PInv'
  <2>1. job' \in [Jobs -> [owner : Users \cup {NoUser}, completed : BOOLEAN]]
    BY <1>1, <1>6, Parts DEF JobReopens
  <2>2. UNCHANGED <<owner, closed, queueing, rows, worker, alerts>>
    BY <1>6 DEF JobReopens
  <2>3. TypeOK'
    BY <1>1, <2>1, <2>2, Parts, NextParts
  <2> QED
    BY <1>2, <1>3, <2>2, <2>3, NothingSent DEF Present
<1>7. ASSUME NEW ids, rows' = Dropped(ids), TypeOK', UNCHANGED <<worker, alerts>>
      PROVE  PInv'
  <2>1. \A id \in Ids : rows'[id] \in {NoRow, rows[id]}
    BY <1>1, <1>7, Parts, DroppedTyped
  <2>2. \A id \in Ids : Present(id)' => Present(id) /\ rows'[id].attempts = rows[id].attempts
    BY <2>1 DEF Present, NoRow
  <2> QED
    BY <1>2, <1>3, <1>7, <2>2, NothingSent
<1>8. ASSUME NEW u \in Users, NEW d \in Devices, Register(u, d)
      PROVE  PInv'
  <2>1. UNCHANGED <<closed, job, queueing, worker, alerts>>
    BY <1>8 DEF Register
  <2>2. PICK ids : rows' = Dropped(ids)
    BY <1>8 DEF Register, Moved
  <2>3. owner' \in [Devices -> Users \cup {NoUser}]
    BY <1>1, <1>8, Parts DEF Register
  <2>4. TypeOK'
    BY <1>1, <2>1, <2>2, <2>3, Parts, NextParts, DroppedTyped
  <2> QED
    BY <1>7, <2>1, <2>2, <2>4
<1>9. ASSUME NEW u \in Users, NEW d \in Devices, Unregister(u, d)
      PROVE  PInv'
  <2>1. UNCHANGED <<closed, job, queueing, worker, alerts>>
    BY <1>9 DEF Unregister
  <2>2. PICK ids : rows' = Dropped(ids)
    BY <1>9 DEF Unregister
  <2>3. owner' \in [Devices -> Users \cup {NoUser}]
    BY <1>1, <1>9, Parts DEF Unregister
  <2>4. TypeOK'
    BY <1>1, <2>1, <2>2, <2>3, Parts, NextParts, DroppedTyped
  <2> QED
    BY <1>7, <2>1, <2>2, <2>4
<1>10. ASSUME NEW u \in Users, CloseAccount(u)
       PROVE  PInv'
  <2>1. UNCHANGED <<queueing, worker, alerts>>
    BY <1>10 DEF CloseAccount
  <2>2. PICK ids : rows' = Dropped(ids)
    BY <1>10 DEF CloseAccount
  <2>3. owner' \in [Devices -> Users \cup {NoUser}] /\ closed' \subseteq Users
    BY <1>1, <1>10, Parts DEF CloseAccount
  <2>4. job' \in [Jobs -> [owner : Users \cup {NoUser}, completed : BOOLEAN]]
    BY <1>1, <1>10, Parts DEF CloseAccount
  <2>5. TypeOK'
    BY <1>1, <2>1, <2>2, <2>3, <2>4, Parts, NextParts, DroppedTyped
  <2> QED
    BY <1>7, <2>1, <2>2, <2>5
<1> QED
  BY <1>4, <1>5, <1>6, <1>8, <1>9, <1>10 DEF Environment

\* A lease runs out, a retry becomes due.
LEMMA TimeStep ==
  ASSUME PInv, Time
  PROVE  PInv'
<1>1. TypeOK /\ LoopsHaveRows
  BY DEF PInv
<1>2. PICK id \in Ids : LeaseExpires(id) \/ BecomesDue(id)
  BY DEF Time
<1>3. UNCHANGED <<owner, closed, job, queueing, worker, alerts>>
  BY <1>2 DEF LeaseExpires, BecomesDue
<1>4. /\ [rows[id] EXCEPT !.leased = FALSE] \in Rows
      /\ [rows[id] EXCEPT !.leased = FALSE].attempts = rows[id].attempts
      /\ [rows[id] EXCEPT !.due = TRUE] \in Rows
      /\ [rows[id] EXCEPT !.due = TRUE].attempts = rows[id].attempts
  <2>1. rows[id] \in Rows
    BY <1>1, Parts
  <2> QED
    BY <2>1 DEF Rows
<1>5. PICK row \in Rows : rows' = [rows EXCEPT ![id] = row] /\ row.attempts = rows[id].attempts
  BY <1>2, <1>4 DEF LeaseExpires, BecomesDue
<1>6. Present(id)
  BY <1>2 DEF LeaseExpires, BecomesDue, Present
<1>7. rows \in [Ids -> Rows]
  BY <1>1, Parts
<1>8. TypeOK'
  BY <1>1, <1>3, <1>5, <1>7, Parts, NextParts
<1>9. LoopsHaveRows'
  BY <1>1, <1>3 DEF LoopsHaveRows
<1>10. \A i \in Ids : /\ Sending(i)' = Sending(i)
                      /\ Present(i)' => Present(i) /\ rows'[i].attempts = rows[i].attempts
  BY <1>3, <1>5, <1>6, <1>7 DEF Sending, Present
<1> QED
  BY <1>3, <1>8, <1>9, <1>10, NothingSent

\* The claim counts the attempt of the worker that takes the alert up.
LEMMA ClaimStep ==
  ASSUME PInv, NEW w \in Workers, NEW id \in Ids, ClaimRow(w, id)
  PROVE  PInv'
<1>1. TypeOK /\ LoopsHaveRows /\ AttemptsCovered /\ LimitKept
  BY DEF PInv
<1>2. UNCHANGED <<owner, closed, job, queueing, alerts>>
  BY DEF ClaimRow
<1>3. rows \in [Ids -> Rows] /\ worker \in [Workers -> Loops] /\ alerts \in [Ids -> Nat]
  BY <1>1, Parts
<1> DEFINE row == ClaimedRow(rows[id])
           loop == [pc |-> "send", id |-> id, user |-> rows[id].user, result |-> "none"]
<1>4. /\ row \in Rows /\ row.attempts = rows[id].attempts + 1
      /\ rows[id].state \in {"pending", "processing"}
  BY <1>3, ClaimedTyped DEF ClaimRow
<1>5. rows' = [Swept EXCEPT ![id] = row]
  BY DEF ClaimRow
<1>6. worker' = [worker EXCEPT ![w] = loop] \/ worker' = worker
  BY DEF ClaimRow
<1>7. loop \in Loops /\ loop.pc = "send" /\ loop.id = id
  BY <1>3 DEF Rows, Loops
<1> HIDE DEF row, loop
<1>8. rows' \in [Ids -> Rows]
  BY <1>3, <1>4, <1>5, SweptTyped
<1>9. worker' \in [Workers -> Loops]
  BY <1>3, <1>6, <1>7
<1>10. TypeOK'
  BY <1>1, <1>2, <1>8, <1>9, Parts, NextParts
<1>11. LoopsHaveRows'
  BY <1>1, <1>3, <1>6, <1>7 DEF LoopsHaveRows
<1>12. ASSUME NEW i \in Ids
       PROVE  /\ i # id => Sending(i)' \subseteq Sending(i)
              /\ Sending(i)' \in SUBSET (Sending(i) \cup {w})
  BY <1>3, <1>6, <1>7 DEF Sending
<1>13. ASSUME NEW i \in Ids
       PROVE  Cardinality(Sending(i)) \in Nat /\ Cardinality(Sending(i)') \in Nat
              /\ Cardinality(Sending(i)') <= Cardinality(Sending(i)) + (IF i = id THEN 1 ELSE 0)
  <2>1. Sending(i) \in SUBSET Workers /\ Sending(i)' \in SUBSET Workers
    BY DEF Sending
  <2>2. IsFiniteSet(Sending(i)) /\ Cardinality(Sending(i)) \in Nat /\ Cardinality(Sending(i)') \in Nat
    BY <2>1, SetsOfWorkers
  <2>3. CASE i = id
    <3>1. /\ IsFiniteSet(Sending(i) \cup {w})
          /\ Cardinality(Sending(i) \cup {w}) =
               IF w \in Sending(i) THEN Cardinality(Sending(i)) ELSE Cardinality(Sending(i)) + 1
      BY <2>2, FS_AddElement
    <3>2. Cardinality(Sending(i) \cup {w}) <= Cardinality(Sending(i)) + 1
          /\ Cardinality(Sending(i) \cup {w}) \in Nat
      BY <2>2, <3>1
    <3>3. Cardinality(Sending(i)') <= Cardinality(Sending(i) \cup {w})
      BY <1>12, <3>1, FS_Subset
    <3> QED
      BY <2>2, <2>3, <3>2, <3>3
  <2>4. CASE i # id
    <3>1. Cardinality(Sending(i)') <= Cardinality(Sending(i))
      BY <1>12, <2>2, <2>4, FS_Subset
    <3> QED
      BY <2>2, <2>4, <3>1
  <2> QED
    BY <2>3, <2>4
<1>14. ASSUME NEW i \in Ids
       PROVE  /\ Present(i)' => alerts'[i] + Cardinality(Sending(i)') <= rows'[i].attempts
              /\ alerts'[i] + Cardinality(Sending(i)') <= MaxAttempts
  <2>1. alerts'[i] = alerts[i] /\ alerts[i] \in Nat
    BY <1>2, <1>3
  <2>2. CASE i = id
    <3>1. alerts[i] + Cardinality(Sending(i)) <= rows[i].attempts /\ rows[i].attempts \in Int
      BY <1>1, <1>3, <1>4, <2>2 DEF AttemptsCovered, Present, Rows
    <3>2. rows'[i].attempts = rows[i].attempts + 1
      BY <1>3, <1>4, <1>5, <2>2, SweptTyped
    <3>3. rows'[i].attempts <= MaxAttempts
      BY <1>8 DEF Rows
    <3> QED
      BY <1>13, <2>1, <2>2, <3>1, <3>2, <3>3, Limits
  <2>3. CASE i # id
    <3>1. rows'[i].attempts = rows[i].attempts /\ (Present(i)' => Present(i))
      BY <1>3, <1>5, <2>3, SweptTyped DEF Present
    <3>2. Present(i) => alerts[i] + Cardinality(Sending(i)) <= rows[i].attempts
      BY <1>1 DEF AttemptsCovered
    <3>3. alerts[i] + Cardinality(Sending(i)) <= MaxAttempts /\ rows[i].attempts \in Int
      BY <1>1, <1>3 DEF LimitKept, Rows
    <3> QED
      BY <1>13, <2>1, <2>3, <3>1, <3>2, <3>3, Limits
  <2> QED
    BY <2>2, <2>3
<1> QED
  BY <1>10, <1>11, <1>14 DEF PInv, AttemptsCovered, LimitKept

\* The alert that arrives is the one the worker was about to send.
LEMMA SendStep ==
  ASSUME PInv, NEW w \in Workers, Send(w)
  PROVE  PInv'
<1>1. TypeOK /\ LoopsHaveRows /\ AttemptsCovered /\ LimitKept
  BY DEF PInv
<1>2. UNCHANGED <<owner, closed, job, queueing, rows>> /\ worker[w].pc = "send"
  BY DEF Send
<1>3. rows \in [Ids -> Rows] /\ worker \in [Workers -> Loops] /\ alerts \in [Ids -> Nat]
  BY <1>1, Parts
<1> DEFINE id == worker[w].id
<1>4. id \in Ids
  BY <1>1, <1>2 DEF LoopsHaveRows
<1>5. PICK result \in {"sent", "retry", "invalid_device", "failed"}, arrived \in BOOLEAN :
        /\ worker' = [worker EXCEPT ![w] = [worker[w] EXCEPT !.pc = "finish", !.result = result]]
        /\ alerts' = IF arrived THEN [alerts EXCEPT ![id] = alerts[id] + 1] ELSE alerts
  BY <1>3, <1>4 DEF Send
<1> DEFINE loop == [worker[w] EXCEPT !.pc = "finish", !.result = result]
<1>6. loop \in Loops /\ loop.pc = "finish" /\ loop.id = id /\ loop.result # "none"
  BY <1>3 DEF Loops
<1>7. worker' = [worker EXCEPT ![w] = loop]
  BY <1>5
<1> HIDE DEF loop, id
<1>8. worker' \in [Workers -> Loops] /\ alerts' \in [Ids -> Nat]
  BY <1>3, <1>4, <1>5, <1>6, <1>7
<1>9. TypeOK'
  BY <1>1, <1>2, <1>8, Parts, NextParts
<1>10. LoopsHaveRows'
  BY <1>1, <1>3, <1>4, <1>6, <1>7 DEF LoopsHaveRows
<1>11. ASSUME NEW i \in Ids
       PROVE  /\ w \notin Sending(i)'
              /\ Sending(i)' \in SUBSET (Sending(i) \ {w})
              /\ i = id => w \in Sending(i)
  BY <1>2, <1>3, <1>6, <1>7 DEF Sending, id
<1>12. ASSUME NEW i \in Ids
       PROVE  /\ alerts'[i] + Cardinality(Sending(i)') <= alerts[i] + Cardinality(Sending(i))
              /\ alerts'[i] + Cardinality(Sending(i)') \in Int
              /\ alerts[i] + Cardinality(Sending(i)) \in Int
  <2>1. Sending(i) \in SUBSET Workers /\ Sending(i)' \in SUBSET Workers
    BY DEF Sending
  <2>2. IsFiniteSet(Sending(i)) /\ Cardinality(Sending(i)) \in Nat /\ Cardinality(Sending(i)') \in Nat
    BY <2>1, SetsOfWorkers
  <2>3. /\ IsFiniteSet(Sending(i) \ {w})
        /\ Cardinality(Sending(i) \ {w}) =
             IF w \in Sending(i) THEN Cardinality(Sending(i)) - 1 ELSE Cardinality(Sending(i))
    BY <2>2, FS_RemoveElement
  <2>4. Cardinality(Sending(i)') <= Cardinality(Sending(i) \ {w})
    BY <1>11, <2>3, FS_Subset
  <2>5. CASE i = id
    <3>1. alerts'[i] <= alerts[i] + 1 /\ alerts[i] \in Nat /\ alerts'[i] \in Nat
      BY <1>3, <1>4, <1>5, <1>8, <2>5
    <3>2. Cardinality(Sending(i) \ {w}) = Cardinality(Sending(i)) - 1
      BY <1>11, <2>3, <2>5
    <3> QED
      BY <2>2, <2>4, <3>1, <3>2
  <2>6. CASE i # id
    <3>1. alerts'[i] = alerts[i] /\ alerts[i] \in Nat
      BY <1>3, <1>5, <2>6
    <3>2. Cardinality(Sending(i) \ {w}) <= Cardinality(Sending(i))
      BY <2>2, <2>3
    <3> QED
      BY <2>2, <2>3, <2>4, <3>1, <3>2
  <2> QED
    BY <2>5, <2>6
<1>13. ASSUME NEW i \in Ids
       PROVE  /\ Present(i)' => alerts'[i] + Cardinality(Sending(i)') <= rows'[i].attempts
              /\ alerts'[i] + Cardinality(Sending(i)') <= MaxAttempts
  <2>1. rows'[i].attempts = rows[i].attempts /\ rows[i].attempts \in Int /\ (Present(i)' => Present(i))
    BY <1>2, <1>3 DEF Present, Rows
  <2>2. Present(i) => alerts[i] + Cardinality(Sending(i)) <= rows[i].attempts
    BY <1>1 DEF AttemptsCovered
  <2>3. alerts[i] + Cardinality(Sending(i)) <= MaxAttempts
    BY <1>1 DEF LimitKept
  <2> QED
    BY <1>12, <2>1, <2>2, <2>3, Limits
<1> QED
  BY <1>9, <1>10, <1>13 DEF PInv, AttemptsCovered, LimitKept

\* What finish_push_delivery does to the rows: none appears, no count changes.
LEMMA FinishRows ==
  ASSUME TypeOK, LoopsHaveRows, NEW w \in Workers, Finish(w)
  PROVE  /\ rows' \in [Ids -> Rows]
         /\ owner' \in [Devices -> Users \cup {NoUser}]
         /\ \A i \in Ids : /\ rows'[i].attempts = rows[i].attempts
                           /\ rows'[i].state = "absent" <=> rows[i].state = "absent"
                           /\ rows[i].state \in {"sent", "failed"} => rows'[i].state = rows[i].state
<1>1. rows \in [Ids -> Rows] /\ owner \in [Devices -> Users \cup {NoUser}]
  BY Parts
<1>2. worker[w].pc = "finish" /\ worker[w].id \in Ids
  BY DEF Finish, LoopsHaveRows
<1>3. CASE worker[w].result = "invalid_device"
  <2>1. Unregistered(w)
    BY <1>3 DEF Finish
  <2>2. ASSUME NEW i \in Ids
        PROVE  LET row == [rows[i] EXCEPT !.state = "failed", !.leased = FALSE] IN
               row \in Rows /\ row.attempts = rows[i].attempts /\ row.state = "failed"
    BY <1>1 DEF Rows
  <2>3. owner' \in [Devices -> Users \cup {NoUser}]
    BY <1>1, <2>1 DEF Unregistered
  <2> QED
    BY <1>1, <2>1, <2>2, <2>3 DEF Unregistered, Open
<1>4. CASE worker[w].result # "invalid_device"
  <2> DEFINE id == worker[w].id
             row == Finished(rows[id], worker[w].result)
  <2>1. worker[w].result \in {"sent", "retry", "failed"}
    BY <1>2, <1>4, Parts DEF LoopsHaveRows, Loops
  <2>2. row \in Rows /\ row.attempts = rows[id].attempts /\ row.state # "absent"
    BY <1>1, <1>2, <2>1, FinishedTyped
  <2>3. /\ owner' = owner
        /\ rows' = IF Records(rows[id]) THEN [rows EXCEPT ![id] = row] ELSE rows
    BY <1>4 DEF Finish
  <2>4. Records(rows[id]) => rows[id].state = "processing"
    BY DEF Records
  <2> HIDE DEF row
  <2> QED
    BY <1>1, <1>2, <2>2, <2>3, <2>4
<1> QED
  BY <1>3, <1>4

\* The worker is idle again.
LEMMA ThenIdle ==
  ASSUME TypeOK, LoopsHaveRows, NEW w \in Workers, worker' = [worker EXCEPT ![w] = Asleep]
  PROVE  /\ worker' \in [Workers -> Loops] /\ LoopsHaveRows'
         /\ \A id \in Ids : Sending(id)' \subseteq Sending(id)
<1>1. worker \in [Workers -> Loops]
  BY Parts
<1>2. worker' \in [Workers -> Loops]
  BY <1>1, Values
<1>3. LoopsHaveRows'
  BY <1>1 DEF LoopsHaveRows, Asleep
<1>4. \A id \in Ids : Sending(id)' \subseteq Sending(id)
  BY <1>1 DEF Sending, Asleep
<1> QED
  BY <1>2, <1>3, <1>4

LEMMA FinishStep ==
  ASSUME PInv, NEW w \in Workers, Finish(w)
  PROVE  PInv'
<1>1. TypeOK /\ LoopsHaveRows
  BY DEF PInv
<1>2. UNCHANGED <<closed, job, queueing, alerts>> /\ worker' = [worker EXCEPT ![w] = Asleep]
  BY DEF Finish
<1>3. /\ worker' \in [Workers -> Loops] /\ LoopsHaveRows'
      /\ \A id \in Ids : Sending(id)' \subseteq Sending(id)
  BY <1>1, <1>2, ThenIdle
<1>4. TypeOK'
  BY <1>1, <1>2, <1>3, Parts, NextParts, FinishRows
<1>5. \A i \in Ids : Present(i)' => Present(i) /\ rows'[i].attempts = rows[i].attempts
  BY <1>1, FinishRows DEF Present
<1> QED
  BY <1>2, <1>3, <1>4, <1>5, NothingSent

LEMMA OtherLoopSteps ==
  ASSUME PInv, NEW w \in Workers, Sweep(w) \/ WorkerDies(w)
  PROVE  PInv'
<1>1. TypeOK /\ LoopsHaveRows /\ rows \in [Ids -> Rows]
  BY Parts DEF PInv
<1>2. CASE Sweep(w)
  <2>1. rows' = Swept /\ UNCHANGED <<owner, closed, job, queueing, worker, alerts>>
    BY <1>2 DEF Sweep
  <2>2. TypeOK'
    BY <1>1, <2>1, Parts, NextParts, SweptTyped
  <2>3. LoopsHaveRows'
    BY <1>1, <2>1 DEF LoopsHaveRows
  <2>4. \A i \in Ids : /\ Sending(i)' = Sending(i)
                       /\ Present(i)' => Present(i) /\ rows'[i].attempts = rows[i].attempts
    BY <1>1, <2>1, SweptTyped DEF Sending, Present
  <2> QED
    BY <2>1, <2>2, <2>3, <2>4, NothingSent
<1>3. CASE WorkerDies(w)
  <2>1. worker' = [worker EXCEPT ![w] = Asleep] /\ UNCHANGED <<owner, closed, job, queueing, rows, alerts>>
    BY <1>3 DEF WorkerDies
  <2>2. /\ worker' \in [Workers -> Loops] /\ LoopsHaveRows'
        /\ \A id \in Ids : Sending(id)' \subseteq Sending(id)
    BY <1>1, <2>1, ThenIdle
  <2>3. TypeOK'
    BY <1>1, <2>1, <2>2, Parts, NextParts
  <2> QED
    BY <2>1, <2>2, <2>3, NothingSent DEF Present
<1> QED
  BY <1>2, <1>3

-----------------------------------------------------------------------------
(* The theorems *)

LEMMA InitEstablishes == Init => PInv
<1> SUFFICES ASSUME Init PROVE PInv
  OBVIOUS
<1>1. rows \in [Ids -> Rows] /\ worker \in [Workers -> Loops] /\ alerts \in [Ids -> Nat]
  BY Values DEF Init
<1>2. TypeOK
  BY <1>1, Parts DEF Init
<1>3. LoopsHaveRows
  BY DEF Init, LoopsHaveRows, Asleep
<1>4. ASSUME NEW id \in Ids
      PROVE  alerts[id] = 0 /\ Sending(id) = {} /\ ~Present(id)
  BY DEF Init, Sending, Asleep, Present, NoRow
<1> QED
  BY <1>2, <1>3, <1>4, Limits, FS_EmptySet DEF PInv, AttemptsCovered, LimitKept

LEMMA NextPreserves == PInv /\ [Next]_vars => PInv'
<1> SUFFICES ASSUME PInv, [Next]_vars PROVE PInv'
  OBVIOUS
<1>1. CASE Environment
  BY <1>1, EnvironmentStep
<1>2. CASE Time
  BY <1>2, TimeStep
<1>3. ASSUME NEW w \in Workers, Loop(w) \/ WorkerDies(w)
      PROVE  PInv'
  BY <1>3, ClaimStep, SendStep, FinishStep, OtherLoopSteps DEF Loop, Claim
<1>4. CASE UNCHANGED vars
  <2>1. UNCHANGED <<owner, closed, job, queueing, rows, worker, alerts>>
    BY <1>4 DEF vars
  <2>2. TypeOK' /\ LoopsHaveRows'
    BY <2>1 DEF PInv, TypeOK, LoopsHaveRows
  <2> QED
    BY <2>1, <2>2, NothingSent DEF Sending, Present
<1> QED
  BY <1>1, <1>2, <1>3, <1>4 DEF Next

LEMMA PushInvariant == Spec => []PInv
BY InitEstablishes, NextPreserves, PTL DEF Spec

\* Every variable of the outbox keeps its type; no row counts more than its attempts.
THEOREM PushTypeCorrect == Spec => []TypeOK
<1>1. PInv => TypeOK
  BY DEF PInv
<1> QED
  BY <1>1, PushInvariant, PTL

\* A device hears of a queued alert at most once per attempt counted for it, however
\* many workers still hold a lease they lost.
THEOREM AlertsAlwaysBounded == Spec => []AlertsBoundedByAttempts
<1>1. PInv => AlertsBoundedByAttempts
  <2> SUFFICES ASSUME PInv, NEW id \in Ids, Present(id)
               PROVE  alerts[id] <= rows[id].attempts
    BY DEF AlertsBoundedByAttempts
  <2>1. Sending(id) \in SUBSET Workers
    BY DEF Sending
  <2>2. Cardinality(Sending(id)) \in Nat
    BY <2>1, SetsOfWorkers
  <2>3. alerts[id] \in Nat /\ rows[id].attempts \in Int
    BY Parts DEF PInv, Rows
  <2>4. alerts[id] + Cardinality(Sending(id)) <= rows[id].attempts
    BY DEF PInv, AttemptsCovered
  <2> QED
    BY <2>2, <2>3, <2>4
<1> QED
  BY <1>1, PushInvariant, PTL

\* Dropping a row does not reset the count: a worker that took the alert up before may
\* still send it, but never beyond the limit of attempts.
THEOREM AlertsNeverExceedLimit == Spec => [](\A id \in Ids : alerts[id] <= MaxAttempts)
<1>1. PInv => \A id \in Ids : alerts[id] <= MaxAttempts
  <2> SUFFICES ASSUME PInv, NEW id \in Ids
               PROVE  alerts[id] <= MaxAttempts
    OBVIOUS
  <2>1. Sending(id) \in SUBSET Workers
    BY DEF Sending
  <2>2. Cardinality(Sending(id)) \in Nat
    BY <2>1, SetsOfWorkers
  <2>3. alerts[id] \in Nat
    BY Parts DEF PInv
  <2>4. alerts[id] + Cardinality(Sending(id)) <= MaxAttempts
    BY DEF PInv, LimitKept
  <2> QED
    BY <2>2, <2>3, <2>4, Limits
<1> QED
  BY <1>1, PushInvariant, PTL

\* An alert is only taken up for the account its device is registered for at that moment.
THEOREM AlwaysTakenUpForOwner == Spec => TakenUpForOwner
<1>1. ASSUME PInv, [Next]_vars, NEW w \in Workers,
             worker[w].pc = "idle", worker'[w].pc = "send"
      PROVE  owner[DeviceOf(worker'[w].id)] = worker'[w].user
  <2>1. worker \in [Workers -> Loops]
    BY <1>1, Parts DEF PInv
  <2>2. worker' # worker
    BY <1>1
  <2>3. PICK v \in Workers : Claim(v) \/ Send(v) \/ Finish(v) \/ WorkerDies(v)
    BY <1>1, <2>2 DEF Next, Environment, Time, Loop, vars, Complete, CommitRows, JobReopens,
       Register, Unregister, CloseAccount, LeaseExpires, BecomesDue, Sweep
  <2>4. ASSUME Send(v) \/ Finish(v) \/ WorkerDies(v)
        PROVE  worker'[w].pc # "send" \/ worker'[w] = worker[w]
    <3>1. PICK loop : worker' = [worker EXCEPT ![v] = loop] /\ loop.pc # "send"
      <4>1. \A result : [worker[v] EXCEPT !.pc = "finish", !.result = result].pc = "finish"
        BY <2>1 DEF Loops
      <4>2. CASE Send(v)
        <5> DEFINE Sent(result) == [worker[v] EXCEPT !.pc = "finish", !.result = result]
        <5>1. \E result : worker' = [worker EXCEPT ![v] = Sent(result)]
          BY <2>1, <4>2 DEF Send
        <5> HIDE DEF Sent
        <5>2. \A result : Sent(result).pc # "send"
          BY <4>1 DEF Sent
        <5> QED
          BY <5>1, <5>2
      <4>3. CASE Finish(v) \/ WorkerDies(v)
        <5>1. worker' = [worker EXCEPT ![v] = Asleep]
          BY <4>3 DEF Finish, WorkerDies
        <5>2. Asleep.pc # "send"
          BY DEF Asleep
        <5> QED
          BY <5>1, <5>2
      <4> QED
        BY <2>4, <4>2, <4>3
    <3> QED
      BY <2>1, <3>1
  <2>5. PICK id \in Ids : ClaimRow(v, id)
    BY <1>1, <2>3, <2>4 DEF Claim
  <2> QED
    BY <1>1, <2>1, <2>2, <2>5 DEF ClaimRow, StillRegistered
<1>2. PInv /\ [Next]_vars =>
        [\A w \in Workers : worker[w].pc = "idle" /\ worker'[w].pc = "send" =>
           owner[DeviceOf(worker'[w].id)] = worker'[w].user]_vars
  BY <1>1
<1> QED
  BY <1>2, PushInvariant, PTL DEF Spec, TakenUpForOwner

\* No claim, late result or sweep takes a finished row up again.
THEOREM FinishedAlwaysFinished == Spec => FinishedRowsStayFinished
<1>1. ASSUME PInv, [Next]_vars, NEW id \in Ids, rows[id].state \in {"sent", "failed"}
      PROVE  rows'[id].state \in {rows[id].state, "absent"}
  <2>1. TypeOK /\ LoopsHaveRows /\ rows \in [Ids -> Rows]
    BY <1>1, Parts DEF PInv
  <2>2. Present(id)
    BY <1>1 DEF Present
  <2>3. ASSUME NEW j \in Jobs, CommitRows(j)
        PROVE  rows'[id] = rows[id]
    <3>1. JobOf(id) = j => id[3] \notin Vacant(j, DeviceOf(id))
      BY <2>2, IdParts DEF Vacant
    <3> QED
      BY <2>3, <3>1 DEF CommitRows
  <2>4. ASSUME NEW ids, rows' = Dropped(ids)
        PROVE  rows'[id].state \in {rows[id].state, "absent"}
    BY <2>1, <2>4, DroppedTyped DEF NoRow
  <2>5. CASE Environment
    <3>1. CASE \E j \in Jobs : CommitRows(j)
      BY <2>3, <3>1
    <3>2. CASE \E ids : rows' = Dropped(ids)
      BY <2>4, <3>2
    <3>3. CASE rows' = rows
      BY <3>3
    <3> QED
      BY <2>5, <3>1, <3>2, <3>3 DEF Environment, Complete, JobReopens, Register, Moved,
         Unregister, CloseAccount
  <2>6. CASE Time
    <3>1. PICK i \in Ids : LeaseExpires(i) \/ BecomesDue(i)
      BY <2>6 DEF Time
    <3>2. rows'[id].state = rows[id].state
      BY <1>1, <2>1, <3>1 DEF LeaseExpires, BecomesDue, Rows
    <3> QED
      BY <3>2
  <2>7. ASSUME NEW w \in Workers, Claim(w)
        PROVE  rows'[id].state = rows[id].state
    <3>1. PICK i \in Ids : ClaimRow(w, i)
      BY <2>7 DEF Claim
    <3>2. rows[i].state \in {"pending", "processing"}
      BY <2>1, <3>1, ClaimedTyped DEF ClaimRow
    <3>3. i # id
      BY <1>1, <3>2
    <3>4. Swept \in [Ids -> Rows] /\ Swept[id].state = rows[id].state
      BY <1>1, <2>1, SweptTyped
    <3> QED
      BY <3>1, <3>3, <3>4 DEF ClaimRow
  <2>8. ASSUME NEW w \in Workers, Loop(w) \/ WorkerDies(w)
        PROVE  rows'[id].state = rows[id].state
    <3>1. CASE Sweep(w)
      BY <1>1, <2>1, <3>1, SweptTyped DEF Sweep
    <3>2. CASE Finish(w)
      BY <1>1, <2>1, <3>2, FinishRows
    <3>3. CASE Send(w) \/ WorkerDies(w)
      BY <3>3 DEF Send, WorkerDies
    <3> QED
      BY <2>7, <2>8, <3>1, <3>2, <3>3 DEF Loop
  <2>9. CASE UNCHANGED vars
    BY <2>9 DEF vars
  <2> QED
    BY <1>1, <2>5, <2>6, <2>8, <2>9 DEF Next
<1>2. PInv /\ [Next]_vars =>
        [\A id \in Ids : rows[id].state \in {"sent", "failed"} =>
           rows'[id].state \in {rows[id].state, "absent"}]_vars
  BY <1>1
<1> QED
  BY <1>2, PushInvariant, PTL DEF Spec, FinishedRowsStayFinished
=============================================================================
