---------------------------- MODULE MCBackground ----------------------------
(***************************************************************************)
(* The background tasks of the API process: imports without a worker         *)
(* (InProcessQueue) and translations (TranslationJobs).  Here they share no    *)
(* state, so a behaviour runs one of them, its "part", and leaves the other in *)
(* its initial state.                                                          *)
(***************************************************************************)
EXTENDS InProcessQueue, TLC

CONSTANTS
  u1, u2, r1, r2, t1, t2, l1, l2,
  Readers, NoReader, Languages, Base,              \* TranslationJobs
  SlotsPerReader, MaxTranslations, MaxVersions

TwoUsers == {u1, u2}
TwoUrls == {l1, l2}
TwoRequests == {r1, r2}
TwoTasks == {t1, t2}

VARIABLES
  part,
  recipe, translation, import, ledger, slots, asking, background, made  \* TranslationJobs

translationVars == <<recipe, translation, import, ledger, slots, asking, background, made>>

Translations == INSTANCE TranslationJobs WITH
  Users <- Readers, NoUser <- NoReader, MaxPerUser <- SlotsPerReader, MaxJobs <- MaxTranslations,
  job <- import, request <- asking, task <- background

ASSUME InstancesAssumption == Translations!TranslationAssumption

(* Imports: not all requests and tasks are under way at one time.            *)
SomebodyRests == (\E r \in Requests : request[r] = Idle) \/ (\E t \in Tasks : task[t] = Asleep)

(* Two requests race for two jobs of one content, which is translated once; or *)
(* the recipe changes under one request.                                       *)
RequestsForOneContent ==
  /\ recipe.version = 1 /\ \A r \in Requests : ~asking[r].poll
  /\ \A l \in Languages : made[l][1] <= 1
OneRequestOneTranslation ==
  /\ \E r \in Requests : asking[r] = Translations!Idle
  /\ \A j \in Translations!Ids : j > 1 => import[j] = Translations!Absent

EveryInit == part \in {"queue", "races", "reimports"} /\ Init /\ Translations!Init

EveryNext ==
  /\ UNCHANGED part
  /\ \/ part = "queue" /\ Next /\ SomebodyRests' /\ UNCHANGED translationVars
     \/ part = "races" /\ Translations!Next /\ RequestsForOneContent' /\ UNCHANGED vars
     \/ part = "reimports" /\ Translations!Next /\ OneRequestOneTranslation' /\ UNCHANGED vars

EverySpec == EveryInit /\ [][EveryNext]_<<part, vars, translationVars>>

Interchangeable ==
  Permutations(Users) \cup Permutations(Urls) \cup Permutations(Requests) \cup Permutations(Tasks)

\* At most one active job per recipe and language (migrations/001_init.sql:212), also when a
\* late task sets its job back to processing.
OneActiveTranslation == Translations!OneActiveTranslation

\* Whatever overlaps, a reader is shown the translation of what the recipe says now
\* (app/translation_cache.py:29), never of an earlier content.
ShownIsCurrent == Translations!ShownIsCurrent
=============================================================================
