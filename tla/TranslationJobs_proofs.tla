----------------------- MODULE TranslationJobs_proofs ------------------------
(***************************************************************************)
(* Translations of a recipe, for any number of readers, languages, requests,  *)
(* tasks and jobs: one active job per language, what a reader is shown, and    *)
(* the slots that requests hand over to tasks.  The theorems are about the     *)
(* instance Translations of MCBackground, whose parameters are constants, so   *)
(* they hold of the background tasks as they are run and of the component.     *)
(***************************************************************************)
EXTENDS MCBackground, FiniteSetTheorems, TLAPS

-----------------------------------------------------------------------------
(* The inductive invariant *)

Statuses == {"absent", "pending", "processing", "completed", "failed"}
ImportRows ==
  [status : Statuses, owner : Readers \cup {NoReader}, lang : Languages, stale : BOOLEAN]
AskingRows ==
  [pc : {"idle", "lookup", "active", "admit", "create", "winner", "reserve", "recover", "background"},
   user : Readers \cup {NoReader}, lang : Languages, poll : BOOLEAN, claimed : BOOLEAN,
   job : 0..MaxTranslations, answer : {"none", "recipe", "job", "refused", "server_error"}]
BackgroundRows ==
  [pc : {"idle", "start", "read", "translate", "upsert", "complete", "settle", "fail"},
   user : Readers \cup {NoReader}, job : 0..MaxTranslations, seen : 0..MaxVersions, called : BOOLEAN]

RowsTyped ==
  /\ recipe \in [version : Translations!Versions, lang : Languages]
  /\ translation \in [Languages -> [text : 0..MaxVersions, fingerprint : 0..MaxVersions]]
  /\ import \in [Translations!Ids -> ImportRows]
  /\ ledger \in [Translations!Ids -> {"none", "reserved", "settled", "failed"}]
  /\ slots \in [Readers -> 0..SlotsPerReader]
WorkTyped ==
  /\ asking \in [Requests -> AskingRows]
  /\ background \in [Tasks -> BackgroundRows]

\* Whoever works does so for a reader; a slot is held from Admit on; a job that is
\* reserved or worked on was created, and only such a job has a reservation.
Exists(j, jobs) == j \in Translations!Ids /\ jobs[j].status # "absent"
Holding == {"create", "winner", "reserve", "recover", "background"}
GoodRequest(row, jobs) ==
  /\ row.pc # "idle" => row.user \in Readers
  /\ row.claimed <=> row.pc \in Holding
  /\ row.pc \in {"reserve", "background"} => Exists(row.job, jobs)
GoodTask(row, jobs) == row.pc # "idle" => row.user \in Readers /\ Exists(row.job, jobs)
RequestShapes == \A r \in Requests : GoodRequest(asking[r], import)
TaskShapes == \A t \in Tasks : GoodTask(background[t], import)
LedgerShapes == \A j \in Translations!Ids : ledger[j] # "none" => import[j].status # "absent"

\* The two sets that hold the slots of a reader.
Claiming(u) == {r \in Requests : asking[r].claimed /\ asking[r].user = u}
Working(u) == {t \in Tasks : background[t].pc # "idle" /\ background[t].user = u}
SlotsCounted ==
  \A u \in Readers :
    /\ IsFiniteSet(Claiming(u)) /\ IsFiniteSet(Working(u))
    /\ slots[u] = Cardinality(Claiming(u)) + Cardinality(Working(u))

\* A translation carries the fingerprint of what was translated.
Fingerprinted == \A l \in Languages : translation[l].text = translation[l].fingerprint

IInv ==
  /\ RowsTyped /\ WorkTyped /\ RequestShapes /\ TaskShapes /\ LedgerShapes
  /\ SlotsCounted /\ OneActiveTranslation /\ Fingerprinted

LEMMA Limits ==
  /\ {SlotsPerReader, MaxTranslations, MaxVersions} \subseteq Nat \ {0}
  /\ NoReader \notin Readers /\ Base \in Languages
  BY InstancesAssumption DEF InstancesAssumption, Translations!TranslationAssumption

LEMMA InitHolds == Translations!Init => IInv
<1> SUFFICES ASSUME Translations!Init PROVE IInv
  OBVIOUS
<1> USE Limits
<1>1. RowsTyped
  BY DEF RowsTyped, ImportRows, Statuses, Translations!Init, Translations!Absent, Translations!Versions,
         Translations!NoTranslation, Translations!None
<1>2. WorkTyped
  BY DEF WorkTyped, AskingRows, BackgroundRows, Translations!Init, Translations!Idle,
         Translations!Asleep, Translations!NoJob, Translations!None
<1>3. RequestShapes /\ TaskShapes /\ LedgerShapes
  BY DEF RequestShapes, TaskShapes, LedgerShapes, GoodRequest, GoodTask, Holding, Translations!Init, Translations!Idle,
         Translations!Asleep
<1>4. SlotsCounted
  <2> SUFFICES ASSUME NEW u \in Readers
               PROVE  Claiming(u) = {} /\ Working(u) = {} /\ slots[u] = 0
    BY FS_EmptySet DEF SlotsCounted
  <2> QED
    BY DEF Claiming, Working, Translations!Init, Translations!Idle, Translations!Asleep
<1>5. OneActiveTranslation /\ Fingerprinted
  BY DEF OneActiveTranslation, Translations!OneActiveTranslation, Fingerprinted, Translations!Init,
         Translations!Absent, Translations!Active, Translations!NoTranslation
<1> QED
  BY <1>1, <1>2, <1>3, <1>4, <1>5 DEF IInv

-----------------------------------------------------------------------------
(* How the holders of slots change *)

\* A request that changes its state.
LEMMA ClaimingStep ==
  ASSUME WorkTyped, NEW r \in Requests, NEW rec \in AskingRows, asking' = [asking EXCEPT ![r] = rec],
         NEW u
  PROVE  Claiming(u)' = IF rec.claimed /\ rec.user = u THEN Claiming(u) \cup {r} ELSE Claiming(u) \ {r}
  BY DEF WorkTyped, Claiming

\* A task that changes its state.
LEMMA WorkingStep ==
  ASSUME WorkTyped, NEW t \in Tasks, NEW rec \in BackgroundRows,
         background' = [background EXCEPT ![t] = rec], NEW u
  PROVE  Working(u)' = IF rec.pc # "idle" /\ rec.user = u THEN Working(u) \cup {t} ELSE Working(u) \ {t}
  BY DEF WorkTyped, Working

LEMMA OneMore ==
  ASSUME NEW S, IsFiniteSet(S), NEW x, x \notin S
  PROVE  IsFiniteSet(S \cup {x}) /\ Cardinality(S \cup {x}) = Cardinality(S) + 1
  BY FS_AddElement

LEMMA OneLess ==
  ASSUME NEW S, IsFiniteSet(S), NEW x, x \in S
  PROVE  IsFiniteSet(S \ {x}) /\ Cardinality(S \ {x}) = Cardinality(S) - 1 /\ Cardinality(S) >= 1
<1>1. Cardinality(S) \in Nat /\ Cardinality(S) # 0
  BY FS_CardinalityType, FS_EmptySet
<1> QED
  BY <1>1, FS_RemoveElement

-----------------------------------------------------------------------------
(* The rows of the database *)

\* A job that was created is never absent again.
LEMMA CreatedStays ==
  ASSUME IInv, Translations!Next
  PROVE  \A j \in Translations!Ids : import[j].status # "absent" => import'[j].status # "absent"
<1> SUFFICES ASSUME NEW j \in Translations!Ids, import[j].status # "absent"
             PROVE  import'[j].status # "absent"
  OBVIOUS
<1> USE DEF IInv, RowsTyped, ImportRows
<1>1. ASSUME NEW r \in Requests, Translations!JoinOrExpire(r) PROVE import'[j].status # "absent"
  BY <1>1 DEF Translations!JoinOrExpire
<1>2. ASSUME NEW r \in Requests, Translations!Create(r) PROVE import'[j].status # "absent"
  BY <1>2 DEF Translations!Create
<1>3. ASSUME NEW r \in Requests, Translations!Reserve(r) PROVE import'[j].status # "absent"
  BY <1>3 DEF Translations!Reserve
<1>4. ASSUME NEW t \in Tasks, Translations!Start(t) PROVE import'[j].status # "absent"
  BY <1>4 DEF Translations!Start
<1>5. ASSUME NEW t \in Tasks, Translations!Complete(t) PROVE import'[j].status # "absent"
  BY <1>5 DEF Translations!Complete
<1>6. ASSUME NEW t \in Tasks, Translations!Fail(t) PROVE import'[j].status # "absent"
  BY <1>6 DEF Translations!Fail
<1>7. ASSUME NEW i \in Translations!Ids, Translations!BecomesStale(i) PROVE import'[j].status # "absent"
  BY <1>7 DEF Translations!BecomesStale
<1> QED
  BY <1>1, <1>2, <1>3, <1>4, <1>5, <1>6, <1>7
  DEF Translations!Next, Translations!Ask, Translations!Lookup, Translations!Admit, Translations!Winner,
      Translations!Recover, Translations!Background, Translations!ReadRecipe, Translations!Translate,
      Translations!Upsert, Translations!Settle, Translations!Reimport, Translations!Restart

LEMMA ReleaseTyped ==
  ASSUME RowsTyped, NEW u, Translations!Release(u)
  PROVE  slots' \in [Readers -> 0..SlotsPerReader]
<1>1. \A n \in 0..SlotsPerReader : (IF n = 0 THEN 0 ELSE n - 1) \in 0..SlotsPerReader
  BY Limits
<1> QED
  BY <1>1 DEF RowsTyped, Translations!Release

\* What the updates by id leave of the other fields and of the other jobs.
LEMMA MarkStep ==
  ASSUME RowsTyped, NEW j, NEW status \in Statuses, import' = [import EXCEPT ![j].status = status]
  PROVE  /\ import' \in [Translations!Ids -> ImportRows]
         /\ \A i \in Translations!Ids :
              /\ import'[i].lang = import[i].lang
              /\ import'[i].status = IF i = j THEN status ELSE import[i].status
<1>1. import \in [Translations!Ids -> ImportRows]
  BY DEF RowsTyped
<1>2. import' = [i \in Translations!Ids |->
                  IF i = j THEN [import[i] EXCEPT !.status = status] ELSE import[i]]
  BY <1>1
<1>3. \A i \in Translations!Ids :
        LET row == [import[i] EXCEPT !.status = status]
        IN  row \in ImportRows /\ row.lang = import[i].lang /\ row.status = status
  BY <1>1 DEF ImportRows
<1> QED
  BY <1>1, <1>2, <1>3

LEMMA RestartedStep ==
  ASSUME RowsTyped, NEW j, import' = [import EXCEPT ![j].status = "processing", ![j].stale = FALSE]
  PROVE  /\ import' \in [Translations!Ids -> ImportRows]
         /\ \A i \in Translations!Ids :
              /\ import'[i].lang = import[i].lang
              /\ import'[i].status = IF i = j THEN "processing" ELSE import[i].status
<1>1. import \in [Translations!Ids -> ImportRows]
  BY DEF RowsTyped
<1>2. \A i \in Translations!Ids :
        import'[i] = IF i = j THEN [[import[i] EXCEPT !.status = "processing"] EXCEPT !.stale = FALSE] ELSE import[i]
  BY <1>1
<1>3. \A i \in Translations!Ids :
        LET row == [[import[i] EXCEPT !.status = "processing"] EXCEPT !.stale = FALSE]
        IN  row \in ImportRows /\ row.lang = import[i].lang /\ row.status = "processing"
  BY <1>1 DEF ImportRows, Statuses
<1>4. import' = [i \in Translations!Ids |-> import'[i]]
  BY <1>1
<1> HIDE DEF ImportRows
<1> QED
  BY <1>1, <1>2, <1>3, <1>4

\* A step that sets the status of a job to one that is not active.
LEMMA EndedStep ==
  ASSUME IInv, NEW j, NEW status \in {"completed", "failed"},
         import' = [import EXCEPT ![j].status = status]
  PROVE  OneActiveTranslation'
  BY MarkStep DEF IInv, Statuses, OneActiveTranslation, Translations!OneActiveTranslation,
                  Translations!Active

LEMMA ImportTypedStep ==
  ASSUME IInv, Translations!Next
  PROVE  import' \in [Translations!Ids -> ImportRows] /\ OneActiveTranslation'
<1> DEFINE Goal == import' \in [Translations!Ids -> ImportRows] /\ OneActiveTranslation'
<1>0. RowsTyped /\ import \in [Translations!Ids -> ImportRows] /\ OneActiveTranslation
  BY DEF IInv, RowsTyped
<1>s. ASSUME import' = import PROVE Goal
  BY <1>0, <1>s DEF OneActiveTranslation, Translations!OneActiveTranslation, Translations!Active
<1>e. ASSUME NEW j, NEW status \in {"completed", "failed"},
             import' = [import EXCEPT ![j].status = status]
      PROVE  Goal
  BY <1>0, <1>e, MarkStep, EndedStep DEF Statuses
<1>1. ASSUME NEW r \in Requests, Translations!JoinOrExpire(r) PROVE Goal
  BY <1>1, <1>s, <1>e DEF Translations!JoinOrExpire
<1>2. ASSUME NEW r \in Requests, Translations!Create(r) PROVE Goal
  <2>1. asking[r].user \in Readers /\ asking[r].lang \in Languages
    BY <1>2 DEF Translations!Create, IInv, RequestShapes, GoodRequest, WorkTyped, AskingRows
  <2> DEFINE row == [status |-> "pending", owner |-> asking[r].user, lang |-> asking[r].lang, stale |-> FALSE]
  <2>2. ASSUME NEW j \in Translations!Ids, ~Translations!Taken(asking[r].lang),
               import' = [import EXCEPT ![j] = row]
        PROVE  Goal
    <3>1. row \in ImportRows
      BY <2>1 DEF ImportRows, Statuses
    <3>2. import' \in [Translations!Ids -> ImportRows]
      BY <1>0, <2>2, <3>1
    <3>3. import'[j] = row /\ \A i \in Translations!Ids : i # j => import'[i] = import[i]
      BY <1>0, <2>2
    <3> HIDE DEF row
    <3>4. row.lang = asking[r].lang
      BY DEF row
    <3> QED
      BY <1>0, <2>2, <3>2, <3>3, <3>4
      DEF OneActiveTranslation, Translations!OneActiveTranslation, Translations!Active, Translations!Taken
  <2> QED
    BY <1>2, <2>2, <1>s DEF Translations!Create
<1>3. ASSUME NEW r \in Requests, Translations!Reserve(r) PROVE Goal
  BY <1>3, <1>s, <1>e DEF Translations!Reserve
<1>4. ASSUME NEW t \in Tasks, Translations!Start(t) PROVE Goal
  <2> DEFINE j == background[t].job
  <2>1. ASSUME Translations!Active(j) \/ ~Translations!Taken(import[j].lang),
               import' = [import EXCEPT ![j].status = "processing", ![j].stale = FALSE]
        PROVE  Goal
    <3>1. j \in Translations!Ids
      BY <1>4 DEF IInv, TaskShapes, GoodTask, Exists, Translations!Start
    <3> HIDE DEF j
    <3>0. "processing" \in Statuses
      BY DEF Statuses
    <3>2. /\ import' \in [Translations!Ids -> ImportRows]
          /\ \A i \in Translations!Ids :
               /\ import'[i].lang = import[i].lang
               /\ import'[i].status = IF i = j THEN "processing" ELSE import[i].status
      BY <1>0, <2>1, <3>0, RestartedStep
    <3> QED
      BY <1>0, <2>1, <3>1, <3>2
      DEF OneActiveTranslation, Translations!OneActiveTranslation, Translations!Active,
        Translations!Taken
  <2> QED
    BY <1>4, <2>1, <1>s DEF Translations!Start
<1>5. ASSUME NEW t \in Tasks, Translations!Complete(t) PROVE Goal
  BY <1>5, <1>e DEF Translations!Complete
<1>6. ASSUME NEW t \in Tasks, Translations!Fail(t) PROVE Goal
  BY <1>6, <1>s, <1>e DEF Translations!Fail
<1>7. ASSUME NEW j \in Translations!Ids, Translations!BecomesStale(j) PROVE Goal
  <2>1. /\ \A i \in Translations!Ids : import'[i].lang = import[i].lang /\ import'[i].status = import[i].status
        /\ import' \in [Translations!Ids -> ImportRows]
    BY <1>0, <1>7 DEF Translations!BecomesStale, ImportRows
  <2> QED
    BY <1>0, <2>1 DEF OneActiveTranslation, Translations!OneActiveTranslation, Translations!Active
<1> QED
  BY <1>s, <1>1, <1>2, <1>3, <1>4, <1>5, <1>6, <1>7
  DEF Translations!Next, Translations!Ask, Translations!Lookup, Translations!Admit, Translations!Winner,
      Translations!Recover, Translations!Background, Translations!ReadRecipe, Translations!Translate,
      Translations!Upsert, Translations!Settle, Translations!Reimport, Translations!Restart

LEMMA SettledTyped ==
  ASSUME RowsTyped, NEW j, NEW status \in {"settled", "failed"}
  PROVE  Translations!Settled(j, status) \in [Translations!Ids -> {"none", "reserved", "settled", "failed"}]
  BY DEF RowsTyped, Translations!Settled

LEMMA OthersTypedStep ==
  ASSUME IInv, Translations!Next
  PROVE  /\ recipe' \in [version : Translations!Versions, lang : Languages]
         /\ translation' \in [Languages -> [text : 0..MaxVersions, fingerprint : 0..MaxVersions]]
         /\ ledger' \in [Translations!Ids -> {"none", "reserved", "settled", "failed"}]
         /\ slots' \in [Readers -> 0..SlotsPerReader]
<1> DEFINE Goal ==
         /\ recipe' \in [version : Translations!Versions, lang : Languages]
         /\ translation' \in [Languages -> [text : 0..MaxVersions, fingerprint : 0..MaxVersions]]
         /\ ledger' \in [Translations!Ids -> {"none", "reserved", "settled", "failed"}]
         /\ slots' \in [Readers -> 0..SlotsPerReader]
<1>0. RowsTyped
  BY DEF IInv
<1>s. UNCHANGED <<recipe, translation, ledger, slots>> => Goal
  BY <1>0 DEF RowsTyped
<1>1. ASSUME NEW r \in Requests, Translations!JoinOrExpire(r) PROVE Goal
  BY <1>0, <1>1, SettledTyped DEF Translations!JoinOrExpire, RowsTyped
<1>2. ASSUME NEW r \in Requests, Translations!Admit(r) PROVE Goal
  <2>1. asking[r].user \in Readers
    BY <1>2 DEF IInv, Translations!Admit, RequestShapes, GoodRequest
  <2> QED
    BY <1>0, <1>2, <2>1, Limits DEF RowsTyped, Translations!Admit, Translations!SlotFree
<1>3. ASSUME NEW r \in Requests, Translations!Reserve(r) PROVE Goal
  BY <1>0, <1>3, ReleaseTyped DEF RowsTyped, Translations!Reserve, Translations!GiveBackSlot
<1>4. ASSUME NEW r \in Requests, Translations!Recover(r) PROVE Goal
  BY <1>0, <1>4, ReleaseTyped DEF RowsTyped, Translations!Recover, Translations!GiveBackSlot
<1>5. ASSUME NEW t \in Tasks, Translations!Upsert(t) PROVE Goal
  <2>1. Translations!Stored(t) \in [text : 0..MaxVersions, fingerprint : 0..MaxVersions]
    BY DEF Translations!Stored, IInv, WorkTyped, BackgroundRows
  <2> QED
    BY <1>0, <1>5, <2>1 DEF RowsTyped, Translations!Upsert
<1>6. ASSUME NEW t \in Tasks, Translations!Settle(t) PROVE Goal
  BY <1>0, <1>6, ReleaseTyped, SettledTyped DEF RowsTyped, Translations!Settle
<1>7. ASSUME NEW t \in Tasks, Translations!Fail(t) PROVE Goal
  BY <1>0, <1>7, ReleaseTyped, SettledTyped DEF RowsTyped, Translations!Fail
<1>8. ASSUME NEW l \in Languages, Translations!Reimport(l) PROVE Goal
  BY <1>0, <1>8, Limits DEF RowsTyped, Translations!Reimport, Translations!Versions
<1>9. ASSUME Translations!Restart PROVE Goal
  BY <1>0, <1>9, Limits DEF RowsTyped, Translations!Restart
<1> QED
  BY <1>s, <1>1, <1>2, <1>3, <1>4, <1>5, <1>6, <1>7, <1>8, <1>9
  DEF Translations!Next, Translations!Ask, Translations!Lookup, Translations!Create, Translations!Winner,
      Translations!Background, Translations!Start, Translations!ReadRecipe, Translations!Translate,
      Translations!Complete, Translations!BecomesStale

LEMMA FingerprintedStep ==
  ASSUME IInv, Translations!Next
  PROVE  Fingerprinted'
<1> USE DEF IInv, RowsTyped, Fingerprinted
<1>1. ASSUME NEW t \in Tasks, Translations!Upsert(t) PROVE Fingerprinted'
  BY <1>1 DEF Translations!Upsert, Translations!Stored
<1> QED
  BY <1>1
  DEF Translations!Next, Translations!Ask, Translations!Lookup, Translations!JoinOrExpire,
      Translations!Admit, Translations!Create, Translations!Winner, Translations!Reserve,
      Translations!Recover, Translations!Background, Translations!Start, Translations!ReadRecipe,
      Translations!Translate, Translations!Complete, Translations!Settle, Translations!Fail,
      Translations!Reimport, Translations!BecomesStale, Translations!Restart

LEMMA LedgerShapesStep ==
  ASSUME IInv, Translations!Next
  PROVE  LedgerShapes'
<1> SUFFICES ASSUME NEW j \in Translations!Ids
             PROVE  (ledger'[j] = "none") \/ (import'[j].status # "absent")
  BY DEF LedgerShapes
<1>0. ledger[j] # "none" => import'[j].status # "absent"
  BY CreatedStays DEF IInv, LedgerShapes
<1>1. ASSUME ledger'[j] # "none", ledger[j] = "none" PROVE import'[j].status # "absent"
  <2>1. ASSUME NEW r \in Requests, Translations!Reserve(r) PROVE import'[j].status # "absent"
    <3>1. asking[r].job = j
      BY <1>1, <2>1 DEF IInv, RowsTyped, Translations!Reserve
    <3>2. import[j].status # "absent"
      BY <2>1, <3>1 DEF IInv, RequestShapes, GoodRequest, Exists, Translations!Reserve
    <3> QED
      BY <3>2, CreatedStays
  <2> QED
    BY <1>1, <2>1
    DEF IInv, RowsTyped, Translations!Next, Translations!Ask, Translations!Lookup,
        Translations!JoinOrExpire, Translations!Admit, Translations!Create, Translations!Winner,
        Translations!Recover, Translations!Background, Translations!Start, Translations!ReadRecipe,
        Translations!Translate, Translations!Upsert, Translations!Complete, Translations!Settle,
        Translations!Fail, Translations!Reimport, Translations!BecomesStale, Translations!Restart,
        Translations!Settled
<1> QED
  BY <1>0, <1>1

-----------------------------------------------------------------------------
(* Requests, tasks and their slots *)

LEMMA ShapesStay ==
  ASSUME IInv, Translations!Next
  PROVE  /\ \A j : Exists(j, import) => Exists(j, import')
         /\ \A row : GoodRequest(row, import) => GoodRequest(row, import')
         /\ \A row : GoodTask(row, import) => GoodTask(row, import')
<1>1. \A j : Exists(j, import) => Exists(j, import')
  BY CreatedStays DEF Exists
<1> QED
  BY <1>1 DEF GoodRequest, GoodTask

\* A step of a request that keeps its slot, or has none.
LEMMA RequestGoesOn ==
  ASSUME IInv, Translations!Next, NEW r \in Requests, NEW row \in AskingRows, GoodRequest(row, import'),
         asking' = [asking EXCEPT ![r] = row], UNCHANGED <<slots, background>>,
         row.claimed = asking[r].claimed, row.claimed => row.user = asking[r].user
  PROVE  WorkTyped' /\ RequestShapes' /\ TaskShapes' /\ SlotsCounted'
<1>1. WorkTyped /\ RequestShapes /\ TaskShapes /\ SlotsCounted
  BY DEF IInv
<1>2. WorkTyped'
  BY <1>1 DEF WorkTyped
<1>3. RequestShapes' /\ TaskShapes'
  BY <1>1, ShapesStay DEF WorkTyped, RequestShapes, TaskShapes
<1>4. \A u : Working(u)' = Working(u) /\ Claiming(u)' = Claiming(u)
  BY <1>1 DEF Working, Claiming, WorkTyped
<1> QED
  BY <1>1, <1>2, <1>3, <1>4 DEF SlotsCounted

\* A request takes a free slot.
LEMMA RequestClaims ==
  ASSUME IInv, Translations!Next, NEW r \in Requests, NEW row \in AskingRows, GoodRequest(row, import'),
         asking' = [asking EXCEPT ![r] = row], background' = background,
         ~asking[r].claimed, row.claimed, row.user \in Readers,
         slots' = [slots EXCEPT ![row.user] = @ + 1]
  PROVE  WorkTyped' /\ RequestShapes' /\ TaskShapes' /\ SlotsCounted'
<1>1. WorkTyped /\ RequestShapes /\ TaskShapes /\ SlotsCounted
  BY DEF IInv
<1>2. WorkTyped'
  BY <1>1 DEF WorkTyped
<1>3. RequestShapes' /\ TaskShapes'
  BY <1>1, ShapesStay DEF WorkTyped, RequestShapes, TaskShapes
<1>4. ASSUME NEW u \in Readers
      PROVE  /\ IsFiniteSet(Claiming(u)') /\ IsFiniteSet(Working(u)')
             /\ slots'[u] = Cardinality(Claiming(u)') + Cardinality(Working(u)')
  <2>1. /\ IsFiniteSet(Claiming(u)) /\ IsFiniteSet(Working(u))
        /\ slots[u] = Cardinality(Claiming(u)) + Cardinality(Working(u))
    BY <1>1 DEF SlotsCounted
  <2>2. Cardinality(Claiming(u)) \in Nat /\ Cardinality(Working(u)) \in Nat
    BY <2>1, FS_CardinalityType
  <2>3. Working(u)' = Working(u) /\ r \notin Claiming(u)
    BY DEF Working, Claiming
  <2>4. Claiming(u)' = IF row.user = u THEN Claiming(u) \cup {r} ELSE Claiming(u) \ {r}
    BY <1>1, ClaimingStep
  <2>5. slots'[u] = IF row.user = u THEN slots[u] + 1 ELSE slots[u]
    BY DEF IInv, RowsTyped
  <2>6. CASE row.user = u
    <3>1. IsFiniteSet(Claiming(u) \cup {r}) /\ Cardinality(Claiming(u) \cup {r}) = Cardinality(Claiming(u)) + 1
      BY <2>1, <2>3, OneMore
    <3> QED
      BY <2>1, <2>2, <2>3, <2>4, <2>5, <2>6, <3>1
  <2>7. CASE row.user # u
    <3>1. Claiming(u)' = Claiming(u)
      BY <2>3, <2>4, <2>7
    <3> QED
      BY <2>1, <2>3, <2>5, <2>7, <3>1
  <2> QED
    BY <2>6, <2>7
<1> QED
  BY <1>2, <1>3, <1>4 DEF SlotsCounted

\* A request gives its slot back.
LEMMA RequestReleases ==
  ASSUME IInv, Translations!Next, NEW r \in Requests, NEW row \in AskingRows, GoodRequest(row, import'),
         asking' = [asking EXCEPT ![r] = row], background' = background,
         asking[r].claimed, ~row.claimed, Translations!Release(asking[r].user)
  PROVE  WorkTyped' /\ RequestShapes' /\ TaskShapes' /\ SlotsCounted'
<1>1. WorkTyped /\ RequestShapes /\ TaskShapes /\ SlotsCounted
  BY DEF IInv
<1>2. WorkTyped'
  BY <1>1 DEF WorkTyped
<1>3. RequestShapes' /\ TaskShapes'
  BY <1>1, ShapesStay DEF WorkTyped, RequestShapes, TaskShapes
<1>4. ASSUME NEW u \in Readers
      PROVE  /\ IsFiniteSet(Claiming(u)') /\ IsFiniteSet(Working(u)')
             /\ slots'[u] = Cardinality(Claiming(u)') + Cardinality(Working(u)')
  <2>1. /\ IsFiniteSet(Claiming(u)) /\ IsFiniteSet(Working(u))
        /\ slots[u] = Cardinality(Claiming(u)) + Cardinality(Working(u))
    BY <1>1 DEF SlotsCounted
  <2>2. Cardinality(Claiming(u)) \in Nat /\ Cardinality(Working(u)) \in Nat
    BY <2>1, FS_CardinalityType
  <2>3. Working(u)' = Working(u) /\ (r \in Claiming(u) <=> asking[r].user = u)
    BY DEF Working, Claiming
  <2>4. Claiming(u)' = Claiming(u) \ {r}
    BY <1>1, ClaimingStep
  <2>5. slots'[u] = IF asking[r].user = u THEN (IF slots[u] = 0 THEN 0 ELSE slots[u] - 1) ELSE slots[u]
    BY DEF IInv, RowsTyped, Translations!Release
  <2>6. CASE asking[r].user = u
    <3>1. /\ IsFiniteSet(Claiming(u) \ {r})
          /\ Cardinality(Claiming(u) \ {r}) = Cardinality(Claiming(u)) - 1 /\ Cardinality(Claiming(u)) >= 1
      BY <2>1, <2>3, <2>6, OneLess
    <3> QED
      BY <2>1, <2>2, <2>3, <2>4, <2>5, <2>6, <3>1
  <2>7. CASE asking[r].user # u
    <3>1. Claiming(u)' = Claiming(u)
      BY <2>3, <2>4, <2>7
    <3> QED
      BY <2>1, <2>3, <2>5, <2>7, <3>1
  <2> QED
    BY <2>6, <2>7
<1> QED
  BY <1>2, <1>3, <1>4 DEF SlotsCounted

\* A request hands its slot over to a task.
LEMMA SlotHandedOver ==
  ASSUME IInv, Translations!Next, NEW r \in Requests, NEW row \in AskingRows, GoodRequest(row, import'),
         asking' = [asking EXCEPT ![r] = row], asking[r].claimed, ~row.claimed,
         NEW t \in Tasks, NEW work \in BackgroundRows, GoodTask(work, import'),
         background' = [background EXCEPT ![t] = work], background[t].pc = "idle",
         work.pc # "idle", work.user = asking[r].user, slots' = slots
  PROVE  WorkTyped' /\ RequestShapes' /\ TaskShapes' /\ SlotsCounted'
<1>1. WorkTyped /\ RequestShapes /\ TaskShapes /\ SlotsCounted
  BY DEF IInv
<1>2. WorkTyped'
  BY <1>1 DEF WorkTyped
<1>3. RequestShapes' /\ TaskShapes'
  BY <1>1, ShapesStay DEF WorkTyped, RequestShapes, TaskShapes
<1>4. ASSUME NEW u \in Readers
      PROVE  /\ IsFiniteSet(Claiming(u)') /\ IsFiniteSet(Working(u)')
             /\ slots'[u] = Cardinality(Claiming(u)') + Cardinality(Working(u)')
  <2>1. /\ IsFiniteSet(Claiming(u)) /\ IsFiniteSet(Working(u))
        /\ slots[u] = Cardinality(Claiming(u)) + Cardinality(Working(u))
    BY <1>1 DEF SlotsCounted
  <2>2. Cardinality(Claiming(u)) \in Nat /\ Cardinality(Working(u)) \in Nat
    BY <2>1, FS_CardinalityType
  <2>3. t \notin Working(u) /\ (r \in Claiming(u) <=> asking[r].user = u)
    BY DEF Working, Claiming
  <2>4. Claiming(u)' = Claiming(u) \ {r}
    BY <1>1, ClaimingStep
  <2>5. Working(u)' = IF asking[r].user = u THEN Working(u) \cup {t} ELSE Working(u) \ {t}
    BY <1>1, WorkingStep
  <2>6. CASE asking[r].user = u
    <3>1. /\ IsFiniteSet(Claiming(u) \ {r})
          /\ Cardinality(Claiming(u) \ {r}) = Cardinality(Claiming(u)) - 1
      BY <2>1, <2>3, <2>6, OneLess
    <3>2. IsFiniteSet(Working(u) \cup {t}) /\ Cardinality(Working(u) \cup {t}) = Cardinality(Working(u)) + 1
      BY <2>1, <2>3, OneMore
    <3> QED
      BY <2>1, <2>2, <2>4, <2>5, <2>6, <3>1, <3>2
  <2>7. CASE asking[r].user # u
    <3>1. Claiming(u)' = Claiming(u) /\ Working(u)' = Working(u)
      BY <2>3, <2>4, <2>5, <2>7
    <3> QED
      BY <2>1, <3>1
  <2> QED
    BY <2>6, <2>7
<1> QED
  BY <1>2, <1>3, <1>4 DEF SlotsCounted

\* A step of a task that goes on.
LEMMA TaskGoesOn ==
  ASSUME IInv, Translations!Next, NEW t \in Tasks, NEW work \in BackgroundRows, GoodTask(work, import'),
         background' = [background EXCEPT ![t] = work], UNCHANGED <<slots, asking>>,
         background[t].pc # "idle", work.pc # "idle", work.user = background[t].user
  PROVE  WorkTyped' /\ RequestShapes' /\ TaskShapes' /\ SlotsCounted'
<1>1. WorkTyped /\ RequestShapes /\ TaskShapes /\ SlotsCounted
  BY DEF IInv
<1>2. WorkTyped'
  BY <1>1 DEF WorkTyped
<1>3. RequestShapes' /\ TaskShapes'
  BY <1>1, ShapesStay DEF WorkTyped, RequestShapes, TaskShapes
<1>4. \A u : Working(u)' = Working(u) /\ Claiming(u)' = Claiming(u)
  BY <1>1 DEF Working, Claiming, WorkTyped
<1> QED
  BY <1>1, <1>2, <1>3, <1>4 DEF SlotsCounted

\* A task ends and gives its slot back.
LEMMA TaskReleases ==
  ASSUME IInv, Translations!Next, NEW t \in Tasks, background[t].pc # "idle",
         background' = [background EXCEPT ![t] = Translations!Asleep], asking' = asking,
         Translations!Release(background[t].user)
  PROVE  WorkTyped' /\ RequestShapes' /\ TaskShapes' /\ SlotsCounted'
<1>0. Translations!Asleep \in BackgroundRows /\ Translations!Asleep.pc = "idle"
  BY Limits DEF Translations!Asleep, BackgroundRows, Translations!NoJob, Translations!None
<1>1. WorkTyped /\ RequestShapes /\ TaskShapes /\ SlotsCounted
  BY DEF IInv
<1>2. WorkTyped'
  BY <1>0, <1>1 DEF WorkTyped
<1>3. RequestShapes' /\ TaskShapes'
  <2>1. GoodTask(Translations!Asleep, import')
    BY <1>0 DEF GoodTask
  <2> QED
    BY <1>1, <2>1, ShapesStay DEF WorkTyped, RequestShapes, TaskShapes
<1>4. ASSUME NEW u \in Readers
      PROVE  /\ IsFiniteSet(Claiming(u)') /\ IsFiniteSet(Working(u)')
             /\ slots'[u] = Cardinality(Claiming(u)') + Cardinality(Working(u)')
  <2>1. /\ IsFiniteSet(Claiming(u)) /\ IsFiniteSet(Working(u))
        /\ slots[u] = Cardinality(Claiming(u)) + Cardinality(Working(u))
    BY <1>1 DEF SlotsCounted
  <2>2. Cardinality(Claiming(u)) \in Nat /\ Cardinality(Working(u)) \in Nat
    BY <2>1, FS_CardinalityType
  <2>3. Claiming(u)' = Claiming(u) /\ (t \in Working(u) <=> background[t].user = u)
    BY DEF Working, Claiming
  <2>4. Working(u)' = Working(u) \ {t}
    BY <1>0, <1>1, WorkingStep
  <2>5. slots'[u] = IF background[t].user = u THEN (IF slots[u] = 0 THEN 0 ELSE slots[u] - 1) ELSE slots[u]
    BY DEF IInv, RowsTyped, Translations!Release
  <2>6. CASE background[t].user = u
    <3>1. /\ IsFiniteSet(Working(u) \ {t})
          /\ Cardinality(Working(u) \ {t}) = Cardinality(Working(u)) - 1 /\ Cardinality(Working(u)) >= 1
      BY <2>1, <2>3, <2>6, OneLess
    <3> QED
      BY <2>1, <2>2, <2>3, <2>4, <2>5, <2>6, <3>1
  <2>7. CASE background[t].user # u
    <3>1. Working(u)' = Working(u)
      BY <2>3, <2>4, <2>7
    <3> QED
      BY <2>1, <2>3, <2>5, <2>7, <3>1
  <2> QED
    BY <2>6, <2>7
<1> QED
  BY <1>2, <1>3, <1>4 DEF SlotsCounted

\* The rows a request leaves behind.
LEMMA AskingRow ==
  ASSUME IInv, NEW r \in Requests
  PROVE  /\ asking[r] \in AskingRows /\ GoodRequest(asking[r], import)
         /\ \A pc \in {"active", "admit", "winner", "recover", "reserve", "background"} :
              /\ [asking[r] EXCEPT !.pc = pc] \in AskingRows
              /\ Translations!Goto(r, pc) => asking' = [asking EXCEPT ![r] = [asking[r] EXCEPT !.pc = pc]]
<1>1. asking[r] \in AskingRows /\ GoodRequest(asking[r], import)
  BY DEF IInv, WorkTyped, RequestShapes
<1>2. ASSUME NEW pc \in {"active", "admit", "winner", "recover", "reserve", "background"}
      PROVE  [asking[r] EXCEPT !.pc = pc] \in AskingRows
  BY <1>1 DEF AskingRows
<1>3. ASSUME NEW pc, Translations!Goto(r, pc)
      PROVE  asking' = [asking EXCEPT ![r] = [asking[r] EXCEPT !.pc = pc]]
  BY <1>3 DEF Translations!Goto, IInv, WorkTyped
<1> QED
  BY <1>1, <1>2, <1>3

LEMMA IdleRows ==
  /\ Translations!Idle \in AskingRows
  /\ Translations!Idle.pc = "idle" /\ ~Translations!Idle.claimed
  /\ Translations!Asleep \in BackgroundRows /\ Translations!Asleep.pc = "idle"
  BY Limits DEF AskingRows, BackgroundRows, Translations!Idle, Translations!Asleep, Translations!NoJob,
                Translations!None

Answered(r, answer) == [Translations!Idle EXCEPT !.poll = asking[r].poll, !.answer = answer]

LEMMA AnsweredRow ==
  ASSUME IInv, NEW r \in Requests, NEW answer \in {"recipe", "job", "refused", "server_error"}
  PROVE  /\ Answered(r, answer) \in AskingRows /\ GoodRequest(Answered(r, answer), import')
         /\ ~Answered(r, answer).claimed
         /\ Translations!Reply(r, answer) => asking' = [asking EXCEPT ![r] = Answered(r, answer)]
<1>1. asking[r].poll \in BOOLEAN
  BY DEF IInv, WorkTyped, AskingRows
<1>2. Answered(r, answer) \in AskingRows /\ Answered(r, answer).pc = "idle" /\ ~Answered(r, answer).claimed
  BY <1>1, IdleRows DEF Answered, AskingRows
<1>3. GoodRequest(Answered(r, answer), import')
  BY <1>2 DEF GoodRequest, Holding
<1> QED
  BY <1>2, <1>3 DEF Answered, Translations!Reply

LEMMA RequestStep ==
  ASSUME IInv, Translations!Next, NEW r \in Requests,
         \/ \E u \in Readers, l \in Languages, poll \in BOOLEAN : Translations!Ask(r, u, l, poll)
         \/ Translations!Lookup(r) \/ Translations!JoinOrExpire(r) \/ Translations!Admit(r)
         \/ Translations!Create(r) \/ Translations!Winner(r) \/ Translations!Reserve(r)
         \/ Translations!Recover(r) \/ Translations!Background(r)
  PROVE  WorkTyped' /\ RequestShapes' /\ TaskShapes' /\ SlotsCounted'
<1> DEFINE Goal == WorkTyped' /\ RequestShapes' /\ TaskShapes' /\ SlotsCounted'
<1>0. asking[r] \in AskingRows /\ GoodRequest(asking[r], import)
  BY AskingRow
\* A request without a slot goes on, or is answered.
<1>g. ASSUME NEW pc \in {"active", "admit"}, Translations!Goto(r, pc), UNCHANGED <<slots, background>>,
             asking[r].pc \in {"lookup", "active"}
      PROVE  Goal
  <2> DEFINE row == [asking[r] EXCEPT !.pc = pc]
  <2>1. row \in AskingRows /\ asking' = [asking EXCEPT ![r] = row]
    BY <1>g, AskingRow
  <2>2. row.pc = pc /\ row.user = asking[r].user /\ row.claimed = asking[r].claimed
    BY <1>0 DEF AskingRows
  <2> HIDE DEF row
  <2>3. GoodRequest(row, import')
    BY <1>0, <1>g, <2>2 DEF GoodRequest, Holding
  <2> QED
    BY <1>g, <2>1, <2>2, <2>3, RequestGoesOn
<1>a. ASSUME NEW answer \in {"recipe", "job", "refused", "server_error"}, Translations!Reply(r, answer),
             UNCHANGED <<slots, background>>, asking[r].pc \in {"lookup", "active", "admit"}
      PROVE  Goal
  <2>1. ~asking[r].claimed /\ asking[r].claimed \in BOOLEAN /\ Answered(r, answer).claimed \in BOOLEAN
    BY <1>0, <1>a, AnsweredRow DEF GoodRequest, Holding, AskingRows
  <2>2. Answered(r, answer).claimed = asking[r].claimed
    BY <2>1, AnsweredRow
  <2> QED
    BY <1>a, <2>2, AnsweredRow, RequestGoesOn
\* A request that holds a slot goes on with it, or is answered and gives it back.
<1>h. ASSUME NEW row \in AskingRows, asking' = [asking EXCEPT ![r] = row], UNCHANGED <<slots, background>>,
             asking[r].pc \in Holding, row.pc \in Holding, row.claimed, row.user = asking[r].user,
             row.pc \in {"reserve", "background"} => Exists(row.job, import')
      PROVE  Goal
  <2>1. GoodRequest(row, import')
    BY <1>0, <1>h DEF GoodRequest, Holding
  <2>2. row.claimed = asking[r].claimed
    BY <1>0, <1>h DEF GoodRequest, AskingRows
  <2> QED
    BY <1>h, <2>1, <2>2, RequestGoesOn
<1>b. ASSUME NEW answer \in {"recipe", "job", "refused", "server_error"}, Translations!Reply(r, answer),
             Translations!GiveBackSlot(r), background' = background, asking[r].pc \in Holding
      PROVE  Goal
  <2>1. asking[r].claimed
    BY <1>0, <1>b DEF GoodRequest
  <2> QED
    BY <1>b, <2>1, AnsweredRow, RequestReleases DEF Translations!GiveBackSlot
<1>w. ASSUME NEW pc \in {"winner", "recover", "reserve", "background"}, Translations!Goto(r, pc),
             UNCHANGED <<slots, background>>, asking[r].pc \in Holding,
             pc \in {"reserve", "background"} => Exists(asking[r].job, import')
      PROVE  Goal
  <2> DEFINE row == [asking[r] EXCEPT !.pc = pc]
  <2>1. row \in AskingRows /\ asking' = [asking EXCEPT ![r] = row]
    BY <1>w, AskingRow
  <2>2. row.pc = pc /\ row.user = asking[r].user /\ row.claimed = asking[r].claimed /\ row.job = asking[r].job
    BY <1>0 DEF AskingRows
  <2> HIDE DEF row
  <2> QED
    BY <1>0, <1>w, <1>h, <2>1, <2>2 DEF GoodRequest, Holding
<1>j. ASSUME NEW j \in Translations!Ids, Exists(j, import'), UNCHANGED <<slots, background>>,
             asking[r].pc \in Holding,
             asking' = [asking EXCEPT ![r].pc = "reserve", ![r].job = j]
      PROVE  Goal
  <2> DEFINE row == [[asking[r] EXCEPT !.pc = "reserve"] EXCEPT !.job = j]
  <2>1. asking' = [asking EXCEPT ![r] = row]
    <3>1. asking' = [[asking EXCEPT ![r].pc = "reserve"] EXCEPT ![r].job = j]
      BY <1>j
    <3> QED
      BY <3>1 DEF IInv, WorkTyped
  <2>2. row.pc = "reserve" /\ row.user = asking[r].user /\ row.claimed = asking[r].claimed /\ row.job = j
    BY <1>0 DEF AskingRows
  <2>3. row \in AskingRows
    <3>1. j \in 0..MaxTranslations
      BY Limits DEF Translations!Ids
    <3> QED
      BY <1>0, <3>1 DEF AskingRows
  <2> HIDE DEF row
  <2> QED
    BY <1>0, <1>j, <1>h, <2>1, <2>2, <2>3 DEF GoodRequest, Holding
<1>1. ASSUME NEW u \in Readers, NEW l \in Languages, NEW poll \in BOOLEAN, Translations!Ask(r, u, l, poll)
      PROVE  Goal
  <2> DEFINE row == [Translations!Idle EXCEPT !.pc = "lookup", !.user = u, !.lang = l, !.poll = poll]
  <2>1. row \in AskingRows /\ row.pc = "lookup" /\ row.user = u /\ ~row.claimed
    BY IdleRows DEF AskingRows
  <2>2. asking' = [asking EXCEPT ![r] = row] /\ UNCHANGED <<slots, background>> /\ asking[r].pc = "idle"
    BY <1>1 DEF Translations!Ask
  <2> HIDE DEF row
  <2>3. GoodRequest(row, import')
    BY <2>1 DEF GoodRequest, Holding
  <2>4. row.claimed = asking[r].claimed
    BY <1>0, <2>1, <2>2 DEF GoodRequest, Holding, AskingRows
  <2> QED
    BY <2>1, <2>2, <2>3, <2>4, RequestGoesOn
<1>2. CASE Translations!Lookup(r)
  BY <1>2, <1>g, <1>a DEF Translations!Lookup
<1>3. CASE Translations!JoinOrExpire(r)
  BY <1>3, <1>g, <1>a DEF Translations!JoinOrExpire
<1>4. CASE Translations!Admit(r)
  <2> DEFINE row == [[asking[r] EXCEPT !.pc = "create"] EXCEPT !.claimed = TRUE]
  <2>1. row \in AskingRows /\ row.pc = "create" /\ row.user = asking[r].user /\ row.claimed
    BY <1>0 DEF AskingRows
  <2>2. asking[r].user \in Readers /\ ~asking[r].claimed
    BY <1>0, <1>4 DEF GoodRequest, Holding, Translations!Admit
  <2>3. ASSUME slots' = [slots EXCEPT ![asking[r].user] = @ + 1],
               asking' = [asking EXCEPT ![r].pc = "create", ![r].claimed = TRUE], background' = background
        PROVE  Goal
    <3>1. asking' = [asking EXCEPT ![r] = row]
      BY <2>3 DEF IInv, WorkTyped
    <3> HIDE DEF row
    <3>2. GoodRequest(row, import')
      BY <2>1, <2>2 DEF GoodRequest, Holding
    <3> QED
      BY <2>1, <2>2, <2>3, <3>1, <3>2, RequestClaims
  <2> HIDE DEF row
  <2> QED
    BY <1>4, <1>a, <2>3 DEF Translations!Admit
<1>5. CASE Translations!Create(r)
  <2>1. asking[r].pc \in Holding /\ UNCHANGED <<slots, background>>
    BY <1>5 DEF Translations!Create, Holding
  <2>2. ASSUME NEW j \in Translations!Ids,
               import' = [import EXCEPT ![j] = [status |-> "pending", owner |-> asking[r].user,
                                                lang |-> asking[r].lang, stale |-> FALSE]]
        PROVE  Exists(j, import')
    BY <2>2 DEF IInv, RowsTyped, Exists
  <2> QED
    BY <1>5, <1>j, <1>w, <2>1, <2>2 DEF Translations!Create
<1>6. CASE Translations!Winner(r)
  <2>1. asking[r].pc \in Holding /\ UNCHANGED <<slots, background>>
    BY <1>6 DEF Translations!Winner, Holding
  <2>2. \A j \in Translations!VisibleActive(r) : Exists(j, import) /\ j \in Translations!Ids
    BY DEF Translations!VisibleActive, Translations!Active, Exists
  <2> QED
    BY <1>6, <1>j, <1>w, <2>1, <2>2, ShapesStay DEF Translations!Winner
<1>7. CASE Translations!Reserve(r)
  <2>1. asking[r].pc \in Holding /\ Exists(asking[r].job, import')
    BY <1>0, <1>7, ShapesStay DEF Translations!Reserve, Holding, GoodRequest
  <2> QED
    BY <1>7, <1>b, <1>w, <2>1 DEF Translations!Reserve
<1>8. CASE Translations!Recover(r)
  BY <1>8, <1>b DEF Translations!Recover, Holding
<1>9. CASE Translations!Background(r)
  <2>1. PICK t \in Tasks :
          /\ background[t].pc = "idle"
          /\ background' = [background EXCEPT ![t] = [Translations!Asleep EXCEPT !.pc = "start",
                               !.user = asking[r].user, !.job = asking[r].job]]
    BY <1>9 DEF Translations!Background
  <2> DEFINE work == [Translations!Asleep EXCEPT !.pc = "start", !.user = asking[r].user, !.job = asking[r].job]
  <2>2. work \in BackgroundRows /\ work.pc = "start" /\ work.user = asking[r].user /\ work.job = asking[r].job
    BY <1>0, IdleRows DEF AskingRows, BackgroundRows
  <2>3. asking[r].claimed /\ asking[r].user \in Readers /\ Exists(asking[r].job, import')
    BY <1>0, <1>9, ShapesStay DEF Translations!Background, Holding, GoodRequest
  <2>4. background' = [background EXCEPT ![t] = work]
    BY <2>1
  <2> HIDE DEF work
  <2>5. GoodTask(work, import')
    BY <2>2, <2>3 DEF GoodTask
  <2>6. Translations!Reply(r, "job") /\ slots' = slots
    BY <1>9 DEF Translations!Background
  <2>7. /\ Answered(r, "job") \in AskingRows /\ GoodRequest(Answered(r, "job"), import')
        /\ ~Answered(r, "job").claimed /\ asking' = [asking EXCEPT ![r] = Answered(r, "job")]
    BY <2>6, AnsweredRow
  <2> QED
    BY <2>1, <2>2, <2>3, <2>4, <2>5, <2>6, <2>7, SlotHandedOver
<1> QED
  BY <1>1, <1>2, <1>3, <1>4, <1>5, <1>6, <1>7, <1>8, <1>9

LEMMA TaskWorks ==
  ASSUME IInv, Translations!Next, NEW t \in Tasks,
         \/ Translations!Start(t) \/ Translations!ReadRecipe(t) \/ Translations!Translate(t)
         \/ Translations!Upsert(t) \/ Translations!Complete(t) \/ Translations!Settle(t)
         \/ Translations!Fail(t)
  PROVE  WorkTyped' /\ RequestShapes' /\ TaskShapes' /\ SlotsCounted'
<1> DEFINE Goal == WorkTyped' /\ RequestShapes' /\ TaskShapes' /\ SlotsCounted'
           Pcs == {"read", "upsert", "translate", "complete", "settle", "fail"}
<1>0. background[t] \in BackgroundRows /\ GoodTask(background[t], import)
  BY DEF IInv, WorkTyped, TaskShapes
<1>k. ASSUME NEW work \in BackgroundRows, background' = [background EXCEPT ![t] = work],
             UNCHANGED <<slots, asking>>, background[t].pc # "idle", work.pc # "idle",
             work.user = background[t].user, work.job = background[t].job
      PROVE  Goal
  <2>1. GoodTask(work, import')
    BY <1>0, <1>k, ShapesStay DEF GoodTask
  <2> QED
    BY <1>k, <2>1, TaskGoesOn
<1>b. ASSUME NEW pc \in Pcs, Translations!Become(t, pc), UNCHANGED <<slots, asking>>,
             background[t].pc # "idle"
      PROVE  Goal
  <2> DEFINE work == [background[t] EXCEPT !.pc = pc]
  <2>1. background' = [background EXCEPT ![t] = work]
    BY <1>b DEF IInv, WorkTyped, Translations!Become
  <2>2. work \in BackgroundRows /\ work.pc = pc /\ work.user = background[t].user /\ work.job = background[t].job
    BY <1>0 DEF BackgroundRows
  <2> HIDE DEF work
  <2> QED
    BY <1>b, <1>k, <2>1, <2>2
<1>1. CASE Translations!Start(t)
  BY <1>1, <1>b DEF Translations!Start
<1>2. CASE Translations!ReadRecipe(t)
  <2>1. PICK pc \in {"upsert", "translate"} :
          background' = [background EXCEPT ![t].seen = recipe.version, ![t].pc = pc]
    BY <1>2 DEF Translations!ReadRecipe
  <2> DEFINE work == [[background[t] EXCEPT !.seen = recipe.version] EXCEPT !.pc = pc]
  <2>2. background' = [background EXCEPT ![t] = work]
    <3>1. background' = [[background EXCEPT ![t].seen = recipe.version] EXCEPT ![t].pc = pc]
      BY <2>1
    <3> QED
      BY <3>1 DEF IInv, WorkTyped
  <2>3. recipe.version \in 0..MaxVersions
    BY Limits DEF IInv, RowsTyped, Translations!Versions
  <2>4. work \in BackgroundRows /\ work.pc = pc /\ work.user = background[t].user /\ work.job = background[t].job
    BY <1>0, <2>3 DEF BackgroundRows
  <2> HIDE DEF work
  <2> QED
    BY <1>2, <1>k, <2>2, <2>4 DEF Translations!ReadRecipe
<1>3. CASE Translations!Translate(t)
  <2>1. UNCHANGED <<slots, asking>> /\ background[t].pc # "idle"
    BY <1>3 DEF Translations!Translate
  <2>2. ASSUME background' = [background EXCEPT ![t].pc = "upsert", ![t].called = TRUE]
        PROVE  Goal
    <3> DEFINE work == [[background[t] EXCEPT !.pc = "upsert"] EXCEPT !.called = TRUE]
    <3>1. background' = [background EXCEPT ![t] = work]
      <4>1. background' = [[background EXCEPT ![t].pc = "upsert"] EXCEPT ![t].called = TRUE]
        BY <2>2
      <4> QED
        BY <4>1 DEF IInv, WorkTyped
    <3>2. work \in BackgroundRows /\ work.pc = "upsert" /\ work.user = background[t].user
            /\ work.job = background[t].job
      BY <1>0 DEF BackgroundRows
    <3> HIDE DEF work
    <3> QED
      BY <1>k, <2>1, <3>1, <3>2
  <2> QED
    BY <1>3, <1>b, <2>1, <2>2 DEF Translations!Translate
<1>4. CASE Translations!Upsert(t)
  BY <1>4, <1>b DEF Translations!Upsert
<1>5. CASE Translations!Complete(t)
  BY <1>5, <1>b DEF Translations!Complete
<1>6. CASE Translations!Settle(t)
  BY <1>6, TaskReleases DEF Translations!Settle
<1>7. CASE Translations!Fail(t)
  BY <1>7, TaskReleases DEF Translations!Fail
<1> QED
  BY <1>1, <1>2, <1>3, <1>4, <1>5, <1>6, <1>7

\* After a restart nobody holds a slot.
LEMMA RestartStep ==
  ASSUME IInv, Translations!Restart
  PROVE  WorkTyped' /\ RequestShapes' /\ TaskShapes' /\ SlotsCounted'
<1>1. WorkTyped'
  BY IdleRows DEF WorkTyped, Translations!Restart
<1>2. RequestShapes' /\ TaskShapes'
  BY IdleRows DEF RequestShapes, TaskShapes, GoodRequest, GoodTask, Holding, Translations!Restart
<1>3. \A u \in Readers : Claiming(u)' = {} /\ Working(u)' = {} /\ slots'[u] = 0
  BY IdleRows DEF Claiming, Working, Translations!Restart
<1> QED
  BY <1>1, <1>2, <1>3, FS_EmptySet DEF SlotsCounted

LEMMA NextHolds ==
  ASSUME IInv, Translations!Next
  PROVE  IInv'
<1>1. RowsTyped' /\ OneActiveTranslation'
  BY ImportTypedStep, OthersTypedStep DEF RowsTyped
<1>2. LedgerShapes' /\ Fingerprinted'
  BY LedgerShapesStep, FingerprintedStep
<1>3. WorkTyped' /\ RequestShapes' /\ TaskShapes' /\ SlotsCounted'
  <2>1. UNCHANGED <<asking, background, slots>> =>
          WorkTyped' /\ RequestShapes' /\ TaskShapes' /\ SlotsCounted'
    BY ShapesStay DEF IInv, WorkTyped, RequestShapes, TaskShapes, SlotsCounted, Claiming, Working
  <2> QED
    BY <2>1, RequestStep, TaskWorks, RestartStep
    DEF Translations!Next, Translations!Reimport, Translations!BecomesStale
<1> QED
  BY <1>1, <1>2, <1>3 DEF IInv

LEMMA StutterHolds ==
  ASSUME IInv, UNCHANGED Translations!vars
  PROVE  IInv'
<1>1. RowsTyped' /\ OneActiveTranslation' /\ LedgerShapes' /\ Fingerprinted'
  BY DEF IInv, RowsTyped, OneActiveTranslation, Translations!OneActiveTranslation, Translations!Active,
         LedgerShapes, Fingerprinted, Translations!vars
<1>2. WorkTyped' /\ RequestShapes' /\ TaskShapes' /\ SlotsCounted'
  BY DEF IInv, WorkTyped, RequestShapes, TaskShapes, SlotsCounted, Claiming, Working, Translations!vars
<1> QED
  BY <1>1, <1>2 DEF IInv

THEOREM TranslationInvariant == Translations!Spec => []IInv
<1>1. IInv /\ [Translations!Next]_(Translations!vars) => IInv'
  BY NextHolds, StutterHolds
<1> QED
  BY <1>1, InitHolds, PTL DEF Translations!Spec

-----------------------------------------------------------------------------
(* What follows *)

LEMMA CurrentIsShown == IInv => ShownIsCurrent
  BY DEF IInv, Fingerprinted, ShownIsCurrent, Translations!ShownIsCurrent, Translations!Localized,
         Translations!Found

\* A behaviour of the background tasks is one of the translations.
LEMMA TranslationsRun == EverySpec => Translations!Spec
<1>1. EveryInit => Translations!Init
  BY DEF EveryInit
<1>2. [EveryNext]_<<part, vars, translationVars>> => [Translations!Next]_(Translations!vars)
  BY DEF EveryNext, Translations!vars, translationVars
<1> QED
  BY <1>1, <1>2, PTL DEF EverySpec, Translations!Spec

\* The values of the rows, requests and tasks keep their types, no reader holds more slots than
\* max_concurrent_jobs_per_user, and only a job that exists has a reservation.
THEOREM TranslationTypes == Translations!Spec => []Translations!TypeOK
<1>1. IInv => Translations!TypeOK
  BY DEF IInv, RowsTyped, ImportRows, Statuses, WorkTyped, AskingRows, BackgroundRows, TaskShapes, GoodTask,
         Exists, LedgerShapes, Translations!TypeOK
<1> QED
  BY <1>1, TranslationInvariant, PTL

\* On every path through _ensure_translation_job and run_translation_job a claimed slot of
\* app.job_guard is released exactly once: the slots of a reader are the requests and the
\* tasks that hold one (app/main.py:1037, app/pipeline.py:739).
THEOREM TranslationSlotsAreHeld == Translations!Spec => []Translations!SlotsAreHeld
<1>1. IInv => Translations!SlotsAreHeld
  <2>1. \A u \in Readers : Translations!Holders(u) = Cardinality(Claiming(u)) + Cardinality(Working(u))
    <3>1. ASSUME NEW u
          PROVE  /\ {r \in Requests : asking[r].claimed /\ asking[r].user = u} = Claiming(u)
                 /\ {t \in Tasks : background[t].pc # "idle" /\ background[t].user = u} = Working(u)
      BY DEF Claiming, Working
    <3>2. \A S : Translations!Cardinality(S) = Cardinality(S)
      BY DEF Translations!Cardinality, Cardinality
    <3> QED
      BY <3>1, <3>2 DEF Translations!Holders
  <2> QED
    BY <2>1 DEF IInv, SlotsCounted, Translations!SlotsAreHeld
<1> QED
  BY <1>1, TranslationInvariant, PTL

\* At most one active job per recipe and language (migrations/001_init.sql:212), whatever
\* requests race, jobs expire and late tasks set their job back to processing.
THEOREM TranslationsOneActive == EverySpec => []OneActiveTranslation
<1>1. IInv => OneActiveTranslation
  BY DEF IInv
<1> QED
  BY <1>1, TranslationsRun, TranslationInvariant, PTL

\* Whatever overlaps, a reader is shown the translation of what the recipe says now
\* (app/translation_cache.py:29), never of an earlier content.
THEOREM TranslationsShownAreCurrent == EverySpec => []ShownIsCurrent
  BY CurrentIsShown, TranslationsRun, TranslationInvariant, PTL
=============================================================================
