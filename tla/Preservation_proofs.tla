------------------------- MODULE Preservation_proofs -------------------------
(***************************************************************************)
(* Proofs about LibraryState, for any devices and any numbers of snapshots   *)
(* and lives of the account: the row of user_library_state is a window on    *)
(* the log of accepted saves, no update is lost within a life of the         *)
(* account, and the compare-and-set implements the abstract LibraryLog.       *)
(*                                                                         *)
(* The inductive invariant says in addition what a device may still believe:  *)
(* a revision it heard of in the present life of the open account is one of   *)
(* the log, with the snapshot the log has there.  Beliefs from earlier lives   *)
(* are unrestricted; that is why the run library_aba finds what it finds.      *)
(***************************************************************************)
EXTENDS MCPreservation, SequenceTheorems, TLAPS

Versions == [revision : Nat, snapshot : Nat]

\* The snapshot a device is shown with revision n of a log.
Shown(saves, n) == IF n = 0 THEN Empty ELSE saves[n].snapshot

\* Device d believes in revision n with snapshot s, heard in life l.
Believes(n, s, l) ==
  l \in 1..life /\ (~closed /\ l = life => n <= Len(log) /\ s = Shown(log, n))

DeviceOK(d) ==
  /\ dev[d].pc = "put" => dev[d].draft \in 1..MaxDrafts
  /\ Believes(dev[d].base, dev[d].seen, dev[d].life)
  /\ Believes(dev[d].answer.revision, dev[d].answer.snapshot, dev[d].heard)

\* The inductive invariant.
LInv ==
  /\ TypeOK
  /\ RowShowsLog
  /\ closed => log = << >>
  /\ \A i \in 1..Len(log) : log[i].life <= life
  /\ \A d \in Devices : DeviceOK(d)
  /\ NoLostUpdate

\* A closed account has no log, hence no row (delete_account_data).
LEMMA EmptyLogEmptyRow == ASSUME TypeOK, RowShowsLog, log = << >> PROVE row = NoState
<1>1. Len(log) = 0
  OBVIOUS
<1>2. row.revision = 0 /\ row.snapshot = Empty /\ Len(row.history) = 0
  BY <1>1 DEF RowShowsLog
<1>3. row \in [revision : Nat, snapshot : Nat, history : Seq(Versions)]
  BY DEF TypeOK, States, Versions
<1>4. row.history = << >>
  BY <1>2, <1>3, EmptySeq
<1> QED
  BY <1>2, <1>3, <1>4 DEF NoState

\* How many versions a full history loses when one is added.
Cut(history) == IF Len(history) = Kept THEN 1 ELSE 0

LEMMA CutValues ==
  ASSUME NEW history \in Seq(Versions), Len(history) <= Kept
  PROVE  /\ Len(history) \in 0..3 /\ Cut(history) \in {0, 1} /\ Cut(history) <= Len(history)
         /\ Len(history) + 1 - Cut(history) = IF Len(history) < Kept THEN Len(history) + 1 ELSE Kept
         /\ Cut(history) = IF Len(history) > Kept - 1 THEN Len(history) - (Kept - 1) ELSE 0
<1>1. Len(history) \in Nat /\ Len(history) <= 3
  BY LenProperties, SMT DEF Kept
<1>2. \A n \in Nat : n <= 3 =>
        LET c == IF n = 3 THEN 1 ELSE 0
        IN  /\ n \in 0..3 /\ c \in {0, 1} /\ c <= n
            /\ n + 1 - c = IF n < 3 THEN n + 1 ELSE 3
            /\ c = IF n > 3 - 1 THEN n - (3 - 1) ELSE 0
  OBVIOUS
<1> QED
  BY <1>1, <1>2 DEF Cut, Kept

\* history || replaced version, cut to the last three (library_state.py:65-69).
LEMMA KeepRecentWindow ==
  ASSUME NEW history \in Seq(Versions), NEW v \in Versions, Len(history) <= Kept
  PROVE  /\ KeepRecent(history, v) \in Seq(Versions)
         /\ Len(KeepRecent(history, v)) = Len(history) + 1 - Cut(history)
         /\ \A i \in 1..Len(history) + 1 - Cut(history) :
              KeepRecent(history, v)[i]
                = IF i + Cut(history) <= Len(history) THEN history[i + Cut(history)] ELSE v
<1> DEFINE all == Append(history, v)
           cut == Cut(history)
<1>1. /\ all \in Seq(Versions) /\ Len(all) = Len(history) + 1
      /\ \A i \in 1..Len(history) : all[i] = history[i]
      /\ all[Len(history) + 1] = v
  BY AppendProperties
<1>2. Len(history) \in 0..3 /\ cut \in {0, 1} /\ cut <= Len(history)
  BY CutValues
<1>3. KeepRecent(history, v) = SubSeq(all, cut + 1, Len(all))
  <2>1. (IF Len(history) > Kept - 1 THEN Len(history) - (Kept - 1) ELSE 0) = cut
    BY CutValues
  <2> QED
    BY <2>1, Zenon DEF KeepRecent
<1> HIDE DEF all, cut
<1>4. /\ SubSeq(all, cut + 1, Len(all)) \in Seq(Versions)
      /\ Len(SubSeq(all, cut + 1, Len(all))) = Len(history) + 1 - cut
      /\ \A i \in 1..Len(history) + 1 - cut : SubSeq(all, cut + 1, Len(all))[i] = all[cut + i]
  <2>1. \A i \in 1..Len(all) : all[i] \in Versions
    BY <1>1, ElementOfSeq
  <2>2. \A i \in cut + 1..Len(all) : all[i] \in Versions
    BY <1>2, <1>1, <2>1
  <2>3. cut + 1 \in Int /\ Len(all) \in Int /\ Len(all) - (cut + 1) + 1 = Len(history) + 1 - cut
    BY <1>1, <1>2
  <2>4. /\ SubSeq(all, cut + 1, Len(all)) \in Seq(Versions)
        /\ Len(SubSeq(all, cut + 1, Len(all)))
             = IF cut + 1 <= Len(all) THEN Len(all) - (cut + 1) + 1 ELSE 0
        /\ \A i \in 1..Len(all) - (cut + 1) + 1 :
             SubSeq(all, cut + 1, Len(all))[i] = all[cut + 1 + i - 1]
    BY <2>2, <2>3, SubSeqProperties
  <2>5. cut + 1 <= Len(all)
    BY <1>1, <1>2
  <2>6. \A i \in 1..Len(history) + 1 - cut : cut + 1 + i - 1 = cut + i
    BY <1>2
  <2> QED
    BY <2>3, <2>4, <2>5, <2>6
<1>5. \A i \in 1..Len(history) + 1 - cut :
        all[cut + i] = IF i + cut <= Len(history) THEN history[i + cut] ELSE v
  <2> SUFFICES ASSUME NEW i \in 1..Len(history) + 1 - cut
               PROVE  all[cut + i] = IF i + cut <= Len(history) THEN history[i + cut] ELSE v
    OBVIOUS
  <2>1. cut + i = i + cut /\ i + cut \in 1..Len(history) + 1
    BY <1>2
  <2>2. i + cut <= Len(history) \/ i + cut = Len(history) + 1
    BY <1>2, <2>1
  <2> QED
    BY <1>1, <1>2, <2>1, <2>2
<1>6. /\ KeepRecent(history, v) \in Seq(Versions)
      /\ Len(KeepRecent(history, v)) = Len(history) + 1 - cut
      /\ \A i \in 1..Len(history) + 1 - cut :
           KeepRecent(history, v)[i]
             = IF i + cut <= Len(history) THEN history[i + cut] ELSE v
  BY <1>3, <1>4, <1>5
<1> QED
  BY <1>6, Zenon DEF cut

\* The state before anything was saved.
LEMMA InitLInv == Init => LInv
<1> SUFFICES ASSUME Init PROVE LInv
  OBVIOUS
<1>1. TypeOK
  <2>1. NoState \in States /\ Len(NoState.history) <= Kept
    BY DEF NoState, States, Empty, Kept
  <2>2. 1 \in 1..MaxLives /\ 0 \in 0..MaxDrafts
    BY LibraryBounds
  <2>3. FreshDevice \in [pc : {"idle", "get", "put", "answer"}, base : Nat, seen : Nat,
                         life : 1..MaxLives, draft : 0..MaxDrafts, answer : States,
                         heard : 1..MaxLives]
    BY <2>1, <2>2 DEF FreshDevice, Empty
  <2>4. log \in Seq([snapshot : Nat \ {0}, over : Nat, life : 1..MaxLives])
    BY DEF Init
  <2>5. closed \in BOOLEAN /\ row = NoState /\ drafts = 0 /\ life = 1
        /\ dev = [d \in Devices |-> FreshDevice]
    BY DEF Init
  <2> QED
    BY <2>1, <2>2, <2>3, <2>4, <2>5 DEF TypeOK
<1>2. Len(log) = 0 /\ row.revision = 0 /\ row.snapshot = Empty /\ Len(row.history) = 0
  BY DEF Init, NoState
<1>3. RowShowsLog /\ NoLostUpdate
  BY <1>2 DEF RowShowsLog, NoLostUpdate
<1>4. ASSUME NEW d \in Devices PROVE DeviceOK(d)
  <2>1. dev[d] = FreshDevice /\ life = 1 /\ Len(log) = 0
    BY DEF Init
  <2>2. /\ FreshDevice.pc # "put" /\ FreshDevice.base = 0 /\ FreshDevice.seen = Empty
        /\ FreshDevice.life = 1 /\ FreshDevice.heard = 1
        /\ FreshDevice.answer.revision = 0 /\ FreshDevice.answer.snapshot = Empty
    BY DEF FreshDevice, NoState
  <2>3. Believes(0, Empty, 1)
    BY <2>1 DEF Believes, Shown
  <2> QED
    BY <2>1, <2>2, <2>3 DEF DeviceOK
<1> QED
  BY <1>1, <1>2, <1>3, <1>4 DEF LInv, Init

\* Steps of one device that leave the log, the row and the account alone.
LEMMA DeviceStep ==
  ASSUME LInv, NEW d \in Devices, NEW state, UNCHANGED <<closed, row, log, life>>,
         dev' = [dev EXCEPT ![d] = state], TypeOK',
         state.pc = "put" => state.draft \in 1..MaxDrafts,
         Believes(state.base, state.seen, state.life),
         Believes(state.answer.revision, state.answer.snapshot, state.heard)
  PROVE  LInv'
<1>1. RowShowsLog' /\ NoLostUpdate'
  BY DEF LInv, RowShowsLog, NoLostUpdate, Replaced
<1>2. (closed => log = << >>)' /\ (\A i \in 1..Len(log) : log[i].life <= life)'
  BY DEF LInv
<1>3. ASSUME NEW e \in Devices PROVE DeviceOK(e)'
  <2>1. dev'[e] = IF e = d THEN state ELSE dev[e]
    BY DEF LInv, TypeOK
  <2>2. DeviceOK(e)
    BY DEF LInv
  <2> QED
    BY <2>1, <2>2 DEF DeviceOK, Believes, Shown
<1> QED
  BY <1>1, <1>2, <1>3 DEF LInv

\* A save that is accepted extends the log by one and the window with it.
LEMMA PutWindow ==
  ASSUME LInv, NEW d \in Devices, Put(d)
  PROVE  RowShowsLog' /\ row' \in States /\ Len(row'.history) <= Kept
<1> DEFINE n == Len(log)
           draft == dev[d].draft
           v == Version(row)
<1>1. row \in States /\ Len(row.history) <= Kept /\ draft \in Nat /\ n \in Nat
  BY DEF LInv, TypeOK
<1>2. row.history \in Seq(Versions) /\ v \in Versions /\ row.revision = n
  BY <1>1 DEF States, Versions, Version, LInv, RowShowsLog
<1>3. /\ row'.revision = n + 1 /\ row'.snapshot = draft
      /\ row'.history = IF n = 0 THEN << >> ELSE KeepRecent(row.history, v)
      /\ row' = [revision |-> row'.revision, snapshot |-> row'.snapshot, history |-> row'.history]
  BY <1>2 DEF Put, Saved
<1>4. /\ Len(log') = n + 1 /\ log'[n + 1].snapshot = draft
      /\ \A i \in 1..n : log'[i] = log[i]
  <2> DEFINE entry == [snapshot |-> draft, over |-> dev[d].seen, life |-> dev[d].life]
  <2>1. log' = Append(log, entry)
    BY DEF Put
  <2>2. log \in Seq([snapshot : Nat \ {0}, over : Nat, life : 1..MaxLives])
    BY DEF LInv, TypeOK
  <2> QED
    BY <2>1, <2>2
<1>5. CASE n = 0
  <2>1. row'.history = << >> /\ Len(row'.history) = 0
    BY <1>3, <1>5
  <2>2. RowShowsLog'
    <3>1. Len(log') = 1 /\ row'.revision = 1 /\ row'.snapshot = log'[1].snapshot
      BY <1>3, <1>4, <1>5
    <3> QED
      BY <2>1, <3>1 DEF RowShowsLog, Kept
  <2>3. row' \in States
    <3>1. row'.history \in Seq([revision : Nat, snapshot : Nat])
      BY <2>1
    <3>2. row'.revision \in Nat /\ row'.snapshot \in Nat
      BY <1>1, <1>3
    <3> QED
      BY <1>3, <3>1, <3>2 DEF States
  <2> QED
    BY <2>1, <2>2, <2>3 DEF Kept
<1>6. CASE n > 0
  <2> DEFINE h == row.history
             k == Len(h)
             c == Cut(h)
  <2>1. /\ row'.history \in Seq(Versions)
        /\ Len(row'.history) = k + 1 - c
        /\ \A i \in 1..k + 1 - c : row'.history[i] = IF i + c <= k THEN h[i + c] ELSE v
    BY <1>1, <1>2, <1>3, <1>6, KeepRecentWindow
  <2>2. /\ k \in 0..3 /\ c \in {0, 1} /\ c <= k
        /\ k + 1 - c = IF k < Kept THEN k + 1 ELSE Kept
    BY <1>1, <1>2, CutValues
  <2>3. /\ k = (IF n - 1 < Kept THEN n - 1 ELSE Kept)
        /\ \A i \in 1..k : h[i] = [revision |-> n - 1 - k + i, snapshot |-> log[n - 1 - k + i].snapshot]
    BY <1>1, <1>6 DEF LInv, RowShowsLog
  <2>4. v = [revision |-> n, snapshot |-> log[n].snapshot]
    BY <1>1, <1>2, <1>6 DEF LInv, RowShowsLog, Version
  <2> HIDE DEF h, k, c, v, n
  <2>5. Len(row'.history) = (IF n < Kept THEN n ELSE Kept)
    BY <1>1, <1>6, <2>1, <2>2, <2>3 DEF Kept
  <2>6. ASSUME NEW i \in 1..Len(row'.history)
        PROVE  row'.history[i] = [revision |-> n - Len(row'.history) + i,
                                  snapshot |-> log'[n - Len(row'.history) + i].snapshot]
    <3>1. row'.history[i] = IF i + c <= k THEN h[i + c] ELSE v
      BY <2>1
    <3>2. n - Len(row'.history) + i = n - 1 - k + (i + c)
      BY <1>1, <2>1, <2>2
    <3>3. n - Len(row'.history) + i \in 1..n
      BY <1>1, <1>6, <2>5, <2>1, <2>2 DEF Kept
    <3>4. log'[n - Len(row'.history) + i] = log[n - Len(row'.history) + i]
      BY <1>4, <3>3
    <3>5. CASE i + c <= k
      <4>1. i + c \in 1..k
        BY <2>2, <2>1, <3>5
      <4>2. h[i + c] = [revision |-> n - 1 - k + (i + c), snapshot |-> log[n - 1 - k + (i + c)].snapshot]
        BY <2>3, <4>1
      <4> QED
        BY <3>1, <3>2, <3>4, <3>5, <4>2
    <3>6. CASE ~(i + c <= k)
      <4>1. n - Len(row'.history) + i = n
        BY <1>1, <2>1, <2>2, <3>6
      <4> QED
        BY <3>1, <3>4, <3>6, <4>1, <2>4
    <3> QED
      BY <3>5, <3>6
  <2>7. Len(log') = n + 1 /\ Len(log') - 1 = n /\ Len(log') # 0
    BY <1>1, <1>4
  <2>8. RowShowsLog'
    BY <1>3, <1>4, <2>5, <2>6, <2>7 DEF RowShowsLog
  <2>9. row' \in States
    <3>1. row'.revision \in Nat /\ row'.snapshot \in Nat
      BY <1>1, <1>3
    <3> QED
      BY <1>3, <2>1, <3>1 DEF States, Versions
  <2> QED
    BY <1>1, <1>6, <2>5, <2>8, <2>9 DEF Kept
<1> QED
  BY <1>1, <1>5, <1>6

\* What the steps of devices may write keeps its type.
LEMMA DeviceType ==
  ASSUME TypeOK, NEW d \in Devices, NEW state, dev' = [dev EXCEPT ![d] = state],
         UNCHANGED <<closed, life>>, drafts' \in drafts..MaxDrafts,
         row' \in States, Len(row'.history) <= Kept,
         log' \in Seq([snapshot : Nat \ {0}, over : Nat, life : 1..MaxLives]),
         state \in [pc : {"idle", "get", "put", "answer"}, base : Nat, seen : Nat,
                    life : 1..MaxLives, draft : 0..MaxDrafts, answer : States,
                    heard : 1..MaxLives]
  PROVE  TypeOK'
<1>1. drafts' \in 0..MaxDrafts
  BY LibraryBounds DEF TypeOK
<1> QED
  BY <1>1 DEF TypeOK

\* The save of a device keeps the invariant: what it believed was the end of the log.
LEMMA PutLInv == ASSUME LInv, NEW d \in Devices, Put(d) PROVE LInv'
<1> DEFINE n == Len(log)
           entry == [snapshot |-> dev[d].draft, over |-> dev[d].seen, life |-> dev[d].life]
           state == [dev[d] EXCEPT !.pc = "answer", !.answer = row', !.heard = life]
<1>1. RowShowsLog' /\ row' \in States /\ Len(row'.history) <= Kept
  BY PutWindow
<1>2. /\ TypeOK /\ RowShowsLog /\ NoLostUpdate /\ n \in Nat
      /\ \A i \in 1..n : log[i].life <= life
      /\ \A e \in Devices : DeviceOK(e)
  BY DEF LInv, TypeOK
<1>3. /\ log' = Append(log, entry) /\ dev' = [dev EXCEPT ![d] = state]
      /\ UNCHANGED <<closed, drafts, life>> /\ ~closed /\ row.revision = dev[d].base
      /\ dev[d].pc = "put"
  BY DEF Put, Accepts, Become
<1>4. /\ dev[d].draft \in 1..MaxDrafts /\ dev[d].seen \in Nat /\ dev[d].life \in 1..MaxLives
      /\ dev[d].life \in 1..life /\ life \in 1..MaxLives
      /\ dev[d].life = life => n = row.revision /\ dev[d].seen = Shown(log, n)
  BY <1>2, <1>3 DEF TypeOK, DeviceOK, Believes, RowShowsLog
<1>5. entry \in [snapshot : Nat \ {0}, over : Nat, life : 1..MaxLives]
  BY <1>4
<1>6. /\ log' \in Seq([snapshot : Nat \ {0}, over : Nat, life : 1..MaxLives])
      /\ Len(log') = n + 1 /\ log'[n + 1] = entry /\ \A i \in 1..n : log'[i] = log[i]
  BY <1>2, <1>3, <1>5 DEF TypeOK
<1> HIDE DEF entry, state, n
<1>7. TypeOK'
  <2>1. state \in [pc : {"idle", "get", "put", "answer"}, base : Nat, seen : Nat,
                   life : 1..MaxLives, draft : 0..MaxDrafts, answer : States,
                   heard : 1..MaxLives]
    BY <1>1, <1>2, <1>4 DEF TypeOK, state
  <2>2. drafts' \in drafts..MaxDrafts
    BY <1>2, <1>3 DEF TypeOK
  <2> QED
    BY <1>1, <1>2, <1>3, <1>6, <2>1, <2>2, DeviceType
<1>8. \A i \in 1..Len(log') : log'[i].life <= life'
  BY <1>2, <1>3, <1>4, <1>6 DEF entry
<1>9. ASSUME NEW m \in Nat, m <= n PROVE Shown(log', m) = Shown(log, m)
  <2>1. m = 0 \/ m \in 1..n
    BY <1>2, <1>9
  <2>2. m \in 1..n => log'[m] = log[m]
    BY <1>6
  <2> QED
    BY <2>1, <2>2 DEF Shown
<1>10. ASSUME NEW e \in Devices PROVE DeviceOK(e)'
  <2>1. dev'[e] = IF e = d THEN state ELSE dev[e]
    BY <1>2, <1>3 DEF TypeOK
  <2>2. ASSUME NEW m \in Nat, NEW s \in Nat, NEW l \in Nat, Believes(m, s, l)
        PROVE  l \in 1..life' /\ (~closed' /\ l = life' => m <= Len(log') /\ s = Shown(log', m))
    BY <1>2, <1>3, <1>6, <1>9, <2>2 DEF Believes
  <2>3. /\ dev[e].base \in Nat /\ dev[e].answer.revision \in Nat
        /\ dev[e].seen \in Nat /\ dev[e].answer.snapshot \in Nat
        /\ dev[e].life \in Nat /\ dev[e].heard \in Nat
    <3>1. dev[e] \in [pc : {"idle", "get", "put", "answer"}, base : Nat, seen : Nat,
                      life : 1..MaxLives, draft : 0..MaxDrafts, answer : States,
                      heard : 1..MaxLives]
      BY <1>2 DEF TypeOK
    <3>2. dev[e].answer \in States /\ dev[e].life \in 1..MaxLives /\ dev[e].heard \in 1..MaxLives
      BY <3>1
    <3>3. dev[e].answer.revision \in Nat /\ dev[e].answer.snapshot \in Nat
      BY <3>2 DEF States
    <3> QED
      BY <3>1, <3>2, <3>3
  <2>4. CASE e # d
    <3>1. DeviceOK(e) /\ dev'[e] = dev[e]
      BY <1>2, <2>1, <2>4
    <3>2. /\ dev[e].life \in 1..life'
          /\ ~closed' /\ dev[e].life = life' => dev[e].base <= Len(log') /\ dev[e].seen = Shown(log', dev[e].base)
      BY <2>2, <2>3, <3>1 DEF DeviceOK
    <3>3. /\ dev[e].heard \in 1..life'
          /\ ~closed' /\ dev[e].heard = life' =>
               dev[e].answer.revision <= Len(log') /\ dev[e].answer.snapshot = Shown(log', dev[e].answer.revision)
      BY <2>2, <2>3, <3>1 DEF DeviceOK
    <3> QED
      BY <3>1, <3>2, <3>3 DEF DeviceOK, Believes, Shown
  <2>5. CASE e = d
    <3>1. /\ state.pc = "answer" /\ state.base = dev[d].base /\ state.seen = dev[d].seen
          /\ state.life = dev[d].life /\ state.answer = row' /\ state.heard = life
      BY <1>2 DEF TypeOK, state
    <3>2. Believes(dev[d].base, dev[d].seen, dev[d].life)
      BY <1>2 DEF DeviceOK
    <3>3. /\ dev[d].life \in 1..life'
          /\ ~closed' /\ dev[d].life = life' => dev[d].base <= Len(log') /\ dev[d].seen = Shown(log', dev[d].base)
      <4>1. dev[d].base \in Nat /\ dev[d].seen \in Nat /\ dev[d].life \in Nat
        BY <2>3, <2>5
      <4> QED
        BY <2>2, <3>2, <4>1
    <3>4. row'.revision <= Len(log') /\ row'.snapshot = Shown(log', row'.revision)
      <4>1. n + 1 # 0 /\ n + 1 <= n + 1
        BY <1>2
      <4>2. row'.revision = n + 1 /\ row'.snapshot = log'[n + 1].snapshot
        BY <1>1, <1>6, <4>1 DEF RowShowsLog
      <4>3. Shown(log', n + 1) = log'[n + 1].snapshot
        BY <4>1 DEF Shown
      <4> QED
        BY <1>6, <4>1, <4>2, <4>3 DEF Shown
    <3>5. life \in 1..life'
      BY <1>3, <1>4
    <3> QED
      BY <2>1, <2>5, <3>1, <3>3, <3>4, <3>5 DEF DeviceOK, Believes, Shown
  <2> QED
    BY <2>4, <2>5
<1>11. NoLostUpdate'
  <2> SUFFICES ASSUME NEW i \in 1..n + 1, log'[i].life = life
               PROVE  log'[i].over = Replaced(i)'
    BY <1>3, <1>6 DEF NoLostUpdate
  <2>1. Replaced(i)' = IF i = 1 THEN Empty ELSE log[i - 1].snapshot
    <3>1. i # 1 => i - 1 \in 1..n
      BY <1>2
    <3>2. i - 1 \in 1..n => log'[i - 1] = log[i - 1]
      BY <1>6
    <3> QED
      BY <3>1, <3>2 DEF Replaced
  <2>2. CASE i <= n
    <3>1. i \in 1..Len(log) /\ log'[i] = log[i]
      <4>1. i \in 1..n
        BY <1>2, <2>2
      <4> QED
        BY <4>1, <1>6 DEF n
    <3>2. log[i].over = Replaced(i)
      BY <1>2, <3>1 DEF NoLostUpdate
    <3> QED
      BY <2>1, <3>1, <3>2 DEF Replaced
  <2>3. CASE i = n + 1
    <3>1. log'[i].over = dev[d].seen /\ dev[d].life = life
      BY <1>6, <2>3 DEF entry
    <3>2. dev[d].seen = IF n = 0 THEN Empty ELSE log[n].snapshot
      BY <1>4, <3>1 DEF Shown
    <3>3. (i = 1 <=> n = 0) /\ i - 1 = n
      BY <1>2, <2>3
    <3> QED
      BY <2>1, <3>1, <3>2, <3>3
  <2> QED
    BY <1>2, <2>2, <2>3
<1> QED
  BY <1>1, <1>3, <1>7, <1>8, <1>10, <1>11 DEF LInv

\* Every step keeps the invariant.
LEMMA StepLInv == LInv /\ [Next]_vars => LInv'
<1> SUFFICES ASSUME LInv, [Next]_vars PROVE LInv'
  OBVIOUS
<1>1. TypeOK /\ RowShowsLog /\ \A d \in Devices : DeviceOK(d)
  BY DEF LInv
<1> DEFINE Device == [pc : {"idle", "get", "put", "answer"}, base : Nat, seen : Nat,
                      life : 1..MaxLives, draft : 0..MaxDrafts, answer : States,
                      heard : 1..MaxLives]
<1>2. \A d \in Devices : dev[d] \in Device
  BY <1>1 DEF TypeOK
<1>3. /\ row \in States /\ Len(row.history) <= Kept
      /\ log \in Seq([snapshot : Nat \ {0}, over : Nat, life : 1..MaxLives])
      /\ life \in 1..MaxLives /\ drafts \in 0..MaxDrafts
  BY <1>1 DEF TypeOK
<1>4. NoState \in States /\ Len(NoState.history) <= Kept /\ 1 \in 1..MaxLives
  BY LibraryBounds DEF NoState, States, Empty, Kept
<1>5. Believes(0, Empty, 1)
  BY <1>3, LenProperties DEF Believes, Shown
<1>6. ASSUME NEW d \in Devices, NEW state \in Device, UNCHANGED <<closed, row, log, life>>,
             drafts' \in drafts..MaxDrafts, Become(d, state),
             state.pc = "put" => state.draft \in 1..MaxDrafts,
             Believes(state.base, state.seen, state.life),
             Believes(state.answer.revision, state.answer.snapshot, state.heard)
      PROVE  LInv'
  <2>1. TypeOK'
    BY <1>1, <1>3, <1>6, DeviceType DEF Become
  <2> QED
    BY <1>6, <2>1, DeviceStep DEF Become
<1>7. CASE CloseAccount
  <2>1. closed' = TRUE /\ row' = NoState /\ log' = << >> /\ UNCHANGED <<dev, drafts, life>>
    BY <1>7 DEF CloseAccount
  <2>2. TypeOK'
    BY <1>1, <1>4, <2>1 DEF TypeOK
  <2>3. Len(log') = 0 /\ row'.revision = 0 /\ row'.snapshot = Empty /\ Len(row'.history) = 0
    BY <2>1 DEF NoState
  <2>4. RowShowsLog' /\ NoLostUpdate'
    BY <2>3 DEF RowShowsLog, NoLostUpdate
  <2>5. \A d \in Devices : DeviceOK(d)'
    BY <1>1, <2>1 DEF DeviceOK, Believes
  <2> QED
    BY <2>1, <2>2, <2>3, <2>4, <2>5 DEF LInv
<1>8. CASE Reopen
  <2>1. /\ closed /\ life < MaxLives /\ closed' = FALSE /\ life' = life + 1
        /\ UNCHANGED <<row, dev, drafts, log>>
    BY <1>8 DEF Reopen
  <2>2. life' \in 1..MaxLives
    BY <1>3, <2>1, LibraryBounds
  <2>3. TypeOK'
    BY <1>1, <2>1, <2>2 DEF TypeOK
  <2>4. log = << >> /\ Len(log) = 0
    BY <2>1 DEF LInv
  <2>5. RowShowsLog'
    BY <1>1, <2>1 DEF RowShowsLog
  <2>6. NoLostUpdate'
    BY <2>1, <2>4 DEF NoLostUpdate
  <2>7. ASSUME NEW d \in Devices PROVE DeviceOK(d)'
    <3>1. DeviceOK(d)
      BY <1>1
    <3>2. dev[d].life \in 1..life /\ dev[d].heard \in 1..life
      BY <3>1 DEF DeviceOK, Believes
    <3>3. \A l \in 1..life : l \in 1..life' /\ l # life'
      BY <1>3, <2>1
    <3> QED
      BY <2>1, <3>1, <3>2, <3>3 DEF DeviceOK, Believes
  <2> QED
    BY <2>1, <2>3, <2>4, <2>5, <2>6, <2>7 DEF LInv
<1>9. ASSUME NEW d \in Devices,
             AskGet(d) \/ AskPut(d) \/ Get(d) \/ Put(d) \/ PutConflict(d) \/ Receive(d) \/ Lose(d)
      PROVE  LInv'
  <2>1. /\ Believes(dev[d].base, dev[d].seen, dev[d].life)
        /\ Believes(dev[d].answer.revision, dev[d].answer.snapshot, dev[d].heard)
        /\ dev[d].pc = "put" => dev[d].draft \in 1..MaxDrafts
    BY <1>1 DEF DeviceOK
  <2>2. dev[d] \in Device /\ drafts \in drafts..MaxDrafts
    BY <1>2, <1>3
  <2>3. CASE AskGet(d)
    <3> DEFINE state == [dev[d] EXCEPT !.pc = "get"]
    <3>1. /\ state \in Device /\ state.pc = "get"
          /\ state.base = dev[d].base /\ state.seen = dev[d].seen /\ state.life = dev[d].life
          /\ state.answer = dev[d].answer /\ state.heard = dev[d].heard
      BY <2>2
    <3>2. Become(d, state) /\ UNCHANGED <<closed, row, log, life, drafts>>
      BY <2>3 DEF AskGet
    <3> HIDE DEF state
    <3> QED
      BY <1>6, <2>1, <2>2, <3>1, <3>2
  <2>4. CASE AskPut(d)
    <3>1. CASE dev[d].draft # Empty /\ Become(d, [dev[d] EXCEPT !.pc = "put"]) /\ UNCHANGED drafts
      <4> DEFINE state == [dev[d] EXCEPT !.pc = "put"]
      <4>1. /\ state \in Device /\ state.draft = dev[d].draft
            /\ state.base = dev[d].base /\ state.seen = dev[d].seen /\ state.life = dev[d].life
            /\ state.answer = dev[d].answer /\ state.heard = dev[d].heard
        BY <2>2
      <4>2. state.draft \in 1..MaxDrafts
        <5>1. dev[d].draft \in 0..MaxDrafts /\ dev[d].draft # 0
          BY <2>2, <3>1 DEF Empty
        <5> QED
          BY <4>1, <5>1, LibraryBounds
      <4>3. Become(d, state) /\ UNCHANGED <<closed, row, log, life, drafts>>
        BY <2>4, <3>1 DEF AskPut
      <4> HIDE DEF state
      <4> QED
        BY <1>6, <2>1, <2>2, <4>1, <4>2, <4>3
    <3>2. CASE /\ drafts < MaxDrafts /\ drafts' = drafts + 1
               /\ Become(d, [dev[d] EXCEPT !.pc = "put", !.draft = drafts + 1])
      <4> DEFINE state == [dev[d] EXCEPT !.pc = "put", !.draft = drafts + 1]
      <4>1. drafts + 1 \in 1..MaxDrafts /\ drafts + 1 \in 0..MaxDrafts /\ drafts' \in drafts..MaxDrafts
        BY <1>3, <3>2, LibraryBounds
      <4>2. /\ state \in Device /\ state.draft = drafts + 1
            /\ state.base = dev[d].base /\ state.seen = dev[d].seen /\ state.life = dev[d].life
            /\ state.answer = dev[d].answer /\ state.heard = dev[d].heard
        BY <2>2, <4>1
      <4>3. Become(d, state) /\ UNCHANGED <<closed, row, log, life>>
        BY <2>4, <3>2 DEF AskPut
      <4> HIDE DEF state
      <4> QED
        BY <1>6, <2>1, <4>1, <4>2, <4>3
    <3> QED
      BY <2>4, <3>1, <3>2 DEF AskPut
  <2>5. CASE Get(d)
    <3> DEFINE state == [dev[d] EXCEPT !.pc = "answer", !.answer = row, !.heard = life]
    <3>1. /\ state \in Device /\ state.pc = "answer"
          /\ state.base = dev[d].base /\ state.seen = dev[d].seen /\ state.life = dev[d].life
          /\ state.answer = row /\ state.heard = life
      BY <1>3, <2>2
    <3>2. Become(d, state) /\ UNCHANGED <<closed, row, log, life, drafts>>
      BY <2>5 DEF Get
    <3>3. Believes(row.revision, row.snapshot, life)
      BY <1>1, <1>3 DEF Believes, Shown, RowShowsLog
    <3> HIDE DEF state
    <3> QED
      BY <1>6, <2>1, <2>2, <3>1, <3>2, <3>3
  <2>6. CASE Put(d)
    BY <2>6, PutLInv
  <2>7. CASE PutConflict(d)
    <3> DEFINE state == [dev[d] EXCEPT !.pc = "idle"]
    <3>1. /\ state \in Device /\ state.pc = "idle"
          /\ state.base = dev[d].base /\ state.seen = dev[d].seen /\ state.life = dev[d].life
          /\ state.answer = dev[d].answer /\ state.heard = dev[d].heard
      BY <2>2
    <3>2. Become(d, state) /\ UNCHANGED <<closed, row, log, life, drafts>>
      BY <2>7 DEF PutConflict
    <3> HIDE DEF state
    <3> QED
      BY <1>6, <2>1, <2>2, <3>1, <3>2
  <2>8. CASE Receive(d)
    <3> DEFINE state == [FreshDevice EXCEPT !.base = dev[d].answer.revision,
                                            !.seen = dev[d].answer.snapshot, !.life = dev[d].heard]
    <3>1. /\ dev[d].answer.revision \in Nat /\ dev[d].answer.snapshot \in Nat
          /\ dev[d].heard \in 1..MaxLives /\ 0 \in 0..MaxDrafts
      BY <2>2, LibraryBounds DEF States
    <3>2. FreshDevice \in Device /\ FreshDevice.pc = "idle"
          /\ FreshDevice.answer = NoState /\ FreshDevice.heard = 1
      BY <1>4, <3>1 DEF FreshDevice, Empty
    <3>3. Become(d, state) /\ UNCHANGED <<closed, row, log, life, drafts>>
      BY <2>8 DEF Receive
    <3>4. /\ state \in Device /\ state.pc = "idle"
          /\ state.base = dev[d].answer.revision /\ state.seen = dev[d].answer.snapshot
          /\ state.life = dev[d].heard /\ state.answer = NoState /\ state.heard = 1
      BY <3>1, <3>2
    <3> HIDE DEF state
    <3>5. Believes(state.answer.revision, state.answer.snapshot, state.heard)
      BY <1>5, <3>4 DEF NoState
    <3> QED
      BY <1>6, <2>1, <2>2, <3>3, <3>4, <3>5
  <2>9. CASE Lose(d)
    <3> DEFINE state == [dev[d] EXCEPT !.pc = "idle", !.answer = NoState]
    <3>1. /\ state \in Device /\ state.pc = "idle"
          /\ state.base = dev[d].base /\ state.seen = dev[d].seen /\ state.life = dev[d].life
          /\ state.answer = NoState /\ state.heard = dev[d].heard
      BY <1>4, <2>2
    <3>2. Become(d, state) /\ UNCHANGED <<closed, row, log, life, drafts>>
      BY <2>9 DEF Lose
    <3>3. Believes(0, Empty, dev[d].heard)
      BY <1>3, <2>1, LenProperties DEF Believes, Shown
    <3>4. NoState.revision = 0 /\ NoState.snapshot = Empty
      BY DEF NoState
    <3> HIDE DEF state
    <3> QED
      BY <1>6, <2>1, <2>2, <3>1, <3>2, <3>3, <3>4
  <2> QED
    BY <1>9, <2>3, <2>4, <2>5, <2>6, <2>7, <2>8, <2>9
<1>10. CASE UNCHANGED vars
  BY <1>10 DEF LInv, vars, TypeOK, RowShowsLog, NoLostUpdate, Replaced, DeviceOK, Believes, Shown
<1> QED
  BY <1>7, <1>8, <1>9, <1>10 DEF Next

\* Every reachable state satisfies the inductive invariant.
THEOREM Invariance == Spec => []LInv
<1> QED
  BY InitLInv, StepLInv, PTL DEF Spec

\* Every variable keeps its type, and the history column at most three versions.
THEOREM Typing == Spec => []TypeOK
<1>1. LInv => TypeOK
  BY DEF LInv
<1> QED
  BY <1>1, Invariance, PTL

\* The row is a window on the log of accepted saves (library_state.py:65-81): its revision
\* counts them, its history holds the up to three before the last, in order.
THEOREM Window == Spec => []RowShowsLog
<1>1. LInv => RowShowsLog
  BY DEF LInv
<1> QED
  BY <1>1, Invariance, PTL

\* Within a life of the account a save replaces what its writer had seen
\* (library_state.py:83).
THEOREM UpdatesKept == Spec => []NoLostUpdate
<1>1. LInv => NoLostUpdate
  BY DEF LInv
<1> QED
  BY <1>1, Invariance, PTL

\* A closed account keeps no personal library (store.py:578-597).
THEOREM NothingKept == Spec => []ClosedKeepsNothing
<1>1. LInv => ClosedKeepsNothing
  BY EmptyLogEmptyRow DEF LInv, ClosedKeepsNothing
<1> QED
  BY <1>1, Invariance, PTL

-----------------------------------------------------------------------------
(* The abstract log *)

\* The library starts as an empty log of an open account.
LEMMA InitAbstract == Init => Abstract!Init
<1> SUFFICES ASSUME Init PROVE Abstract!Init
  OBVIOUS
<1>1. log = << >> /\ closed = FALSE
  BY DEF Init
<1>2. Accepted = << >>
  BY <1>1 DEF Accepted
<1> QED
  BY <1>1, <1>2 DEF Abstract!Init

\* An accepted save appends its snapshot to the abstract log.
LEMMA PutAppends ==
  ASSUME LInv, NEW d \in Devices, Put(d)
  PROVE  Accepted' = Append(Accepted, dev[d].draft)
<1> DEFINE n == Len(log)
           draft == dev[d].draft
           entry == [snapshot |-> draft, over |-> dev[d].seen, life |-> dev[d].life]
<1>1. log \in Seq([snapshot : Nat \ {0}, over : Nat, life : 1..MaxLives]) /\ n \in Nat
  BY DEF LInv, TypeOK
<1>2. log' = Append(log, entry)
  BY DEF Put
<1>3. Len(log') = n + 1 /\ log'[n + 1].snapshot = draft /\ \A i \in 1..n : log'[i] = log[i]
  BY <1>1, <1>2
<1>4. draft \in Nat
  BY DEF LInv, TypeOK
<1>5. \A i \in 1..n : log[i].snapshot \in Nat
  <2> DEFINE Saves == [snapshot : Nat \ {0}, over : Nat, life : 1..MaxLives]
  <2>1. \A r \in Saves : r.snapshot \in Nat
    OBVIOUS
  <2> HIDE DEF Saves
  <2>2. \A i \in 1..n : log[i] \in Saves
    BY <1>1, ElementOfSeq DEF Saves
  <2> QED
    BY <2>1, <2>2
<1>6. /\ Accepted \in Seq(Nat) /\ Len(Accepted) = n
      /\ \A i \in 1..n : Accepted[i] = log[i].snapshot
  BY <1>5, <1>1, IsASeq DEF Accepted
<1>7. /\ Accepted' \in Seq(Nat) /\ Len(Accepted') = n + 1
      /\ \A i \in 1..n + 1 : Accepted'[i] = log'[i].snapshot
  <2>1. \A i \in 1..n + 1 : log'[i].snapshot \in Nat
    <3>1. \A i \in 1..n + 1 : i \in 1..n \/ i = n + 1
      BY <1>1
    <3>2. \A i \in 1..n : log'[i].snapshot \in Nat
      BY <1>5, <1>3
    <3> HIDE DEF n, draft
    <3> QED
      BY <1>3, <1>4, <3>1, <3>2
  <2>2. Accepted' = [i \in 1..n + 1 |-> log'[i].snapshot]
    BY <1>3 DEF Accepted
  <2>3. n + 1 \in Nat
    BY <1>1
  <2> HIDE DEF n
  <2> QED
    BY <2>1, <2>2, <2>3, IsASeq
<1>8. /\ Append(Accepted, draft) \in Seq(Nat) /\ Len(Append(Accepted, draft)) = n + 1
      /\ \A i \in 1..n : Append(Accepted, draft)[i] = Accepted[i]
      /\ Append(Accepted, draft)[n + 1] = draft
  BY <1>4, <1>6, AppendProperties
<1> HIDE DEF n, draft, entry
<1>9. \A i \in 1..n + 1 : Accepted'[i] = Append(Accepted, draft)[i]
  <2> SUFFICES ASSUME NEW i \in 1..n + 1 PROVE Accepted'[i] = Append(Accepted, draft)[i]
    OBVIOUS
  <2>1. i \in 1..n \/ i = n + 1
    BY <1>1
  <2> QED
    BY <1>3, <1>6, <1>7, <1>8, <2>1
<1>10. Accepted' = Append(Accepted, draft)
  BY <1>7, <1>8, <1>9, SeqEqual
<1> QED
  BY <1>10 DEF draft

\* Every step is a step of the abstract log or leaves it alone.
LEMMA StepAbstract == LInv /\ [Next]_vars => [Abstract!Next]_Abstract!vars
<1> SUFFICES ASSUME LInv, [Next]_vars PROVE [Abstract!Next]_Abstract!vars
  OBVIOUS
<1>1. ASSUME NEW d \in Devices, Put(d) PROVE Abstract!Save
  <2>1. dev[d].draft \in 1..MaxDrafts
    BY <1>1 DEF LInv, DeviceOK, Put
  <2>2. ~closed /\ UNCHANGED closed
    BY <1>1 DEF Put, Accepts
  <2>3. Accepted' = Append(Accepted, dev[d].draft)
    BY <1>1, PutAppends
  <2> QED
    BY <2>1, <2>2, <2>3 DEF Abstract!Save
<1>2. ASSUME CloseAccount PROVE Abstract!Close
  <2>1. closed' = TRUE /\ log' = << >>
    BY <1>2 DEF CloseAccount
  <2>2. Accepted' = << >>
    BY <2>1 DEF Accepted
  <2> QED
    BY <2>1, <2>2 DEF Abstract!Close
<1>3. ASSUME Reopen PROVE Abstract!Reopen
  BY <1>3 DEF Reopen, Abstract!Reopen, Accepted
<1>4. ASSUME UNCHANGED <<closed, log>> PROVE UNCHANGED Abstract!vars
  BY <1>4 DEF Abstract!vars, Accepted
<1>5. ASSUME NEW d \in Devices,
             AskGet(d) \/ AskPut(d) \/ Get(d) \/ PutConflict(d) \/ Receive(d) \/ Lose(d)
      PROVE  UNCHANGED <<closed, log>>
  BY <1>5 DEF AskGet, AskPut, Get, PutConflict, Receive, Lose
<1>6. UNCHANGED vars => UNCHANGED <<closed, log>>
  BY DEF vars
<1> QED
  BY <1>1, <1>2, <1>3, <1>4, <1>5, <1>6 DEF Next, Abstract!Next

\* GET and PUT /v1/me/library-state implement one append-only log per life of the account.
THEOREM Refinement == Spec => AppendOnlyLog
<1> QED
  BY InitAbstract, Invariance, StepAbstract, PTL DEF Spec, AppendOnlyLog, Abstract!Spec

(***************************************************************************)
(* The reset of production (ResetProcedure), for any tables, windows and      *)
(* numbers of receipts.                                                      *)
(*                                                                         *)
(* A reset is good because of what three receipts say of each other, and each  *)
(* was written when it held: the inductive invariant carries along the chain,  *)
(* from the preflight to the run of reset_execute that has passed its checks,  *)
(* that a rehearsal restored what the preflight counted and that every receipt  *)
(* lies within one window of the same observation of the frozen writers.       *)
(***************************************************************************)
Contents == SUBSET (Tables \X (1..MaxRows))
Settings == 0..MaxSettings
Snapshots == {Reset!Snapshot(some, kept) : some \in Contents, kept \in Settings}
PreflightReceipts == [observed : Int, snapshot : Snapshots]
BackupReceipts == [preflight : Nat, dump : Contents, settings : Settings, at : Int]
RehearsalReceipts == [backup : Nat, approved : BOOLEAN]
ResetRows == [rows : Contents, settings : Settings, backup : Nat, at : Int]

ResetTyped ==
  /\ now \in 0..MaxNow /\ settings \in Settings
  /\ written \in [Tables -> 1..MaxRows] /\ rows \in Contents /\ busy \subseteq rows
  /\ preflights \in Seq(PreflightReceipts) /\ backups \in Seq(BackupReceipts)
  /\ rehearsals \in Seq(RehearsalReceipts) /\ resets \in Seq(ResetRows)
  /\ databases \in [{"production", "disposable"} -> [marked : BOOLEAN, empty : BOOLEAN]]
  /\ checked \in [preflight : Nat, backup : Nat, at : Int]

Near(at, observed) == at - observed <= EvidenceWindow /\ observed - at <= EvidenceWindow
Approved(b) == \E r \in DOMAIN rehearsals : rehearsals[r].backup = b /\ rehearsals[r].approved
\* What was counted, what is in the dump.
Counted(b) == preflights[backups[b].preflight].snapshot
Dumped(b) == Reset!Snapshot(backups[b].dump, backups[b].settings)

BackupsFollow ==
  \A b \in DOMAIN backups :
    /\ backups[b].preflight \in DOMAIN preflights
    /\ Near(backups[b].at, preflights[backups[b].preflight].observed)
RehearsalsFollow ==
  \A r \in DOMAIN rehearsals :
    rehearsals[r].backup \in DOMAIN backups /\ Dumped(rehearsals[r].backup) = Counted(rehearsals[r].backup)
CheckedFollows ==
  checked # Reset!Idle =>
    /\ checked.backup \in DOMAIN backups /\ checked.preflight = backups[checked.backup].preflight
    /\ Near(checked.at, preflights[checked.preflight].observed)
    /\ Approved(checked.backup)
ResetsFollow ==
  \A i \in DOMAIN resets :
    LET b == resets[i].backup IN
    /\ b \in DOMAIN backups /\ Approved(b)
    /\ Dumped(b) = Reset!Snapshot(resets[i].rows, resets[i].settings)
    /\ Near(resets[i].at, preflights[backups[b].preflight].observed)

\* The production database is never marked as new and empty.
ProductionFull == ~databases["production"].empty

RInv == ResetTyped /\ BackupsFollow /\ RehearsalsFollow /\ CheckedFollows /\ ResetsFollow

LEMMA ResetBounds ==
  /\ {EvidenceWindow, MaxSettings, MaxNow, MaxPreflights, MaxBackups, MaxRehearsals, MaxResets} \subseteq Nat
  /\ MaxRows \in Nat \ {0}
  BY InstanceAssumption DEF InstanceAssumption, Reset!ResetAssumption

LEMMA ResetInit == Reset!Init => RInv
<1> SUFFICES ASSUME Reset!Init PROVE RInv
  OBVIOUS
<1> USE ResetBounds
<1>1. ResetTyped
  <2>1. rows \in Contents /\ written \in [Tables -> 1..MaxRows] /\ busy \subseteq rows
    BY DEF Reset!Init, Contents
  <2>2. now \in 0..MaxNow /\ settings \in Settings
    BY DEF Reset!Init, Settings
  <2>3. /\ preflights \in Seq(PreflightReceipts) /\ backups \in Seq(BackupReceipts)
        /\ rehearsals \in Seq(RehearsalReceipts) /\ resets \in Seq(ResetRows)
    BY DEF Reset!Init
  <2>4. databases \in [{"production", "disposable"} -> [marked : BOOLEAN, empty : BOOLEAN]]
    BY DEF Reset!Init
  <2>5. checked \in [preflight : Nat, backup : Nat, at : Int]
    BY DEF Reset!Init, Reset!Idle
  <2> QED
    BY <2>1, <2>2, <2>3, <2>4, <2>5 DEF ResetTyped
<1>2. DOMAIN backups = {} /\ DOMAIN rehearsals = {} /\ DOMAIN resets = {} /\ checked = Reset!Idle
  BY DEF Reset!Init
<1> QED
  BY <1>1, <1>2 DEF RInv, BackupsFollow, RehearsalsFollow, CheckedFollows, ResetsFollow

\* A receipt is added at the end and the earlier ones stay.
LEMMA ReceiptAdded ==
  ASSUME NEW S, NEW receipts \in Seq(S), NEW receipt \in S
  PROVE  /\ Append(receipts, receipt) \in Seq(S)
         /\ DOMAIN Append(receipts, receipt) = DOMAIN receipts \cup {Len(receipts) + 1}
         /\ \A i \in DOMAIN receipts : Append(receipts, receipt)[i] = receipts[i]
         /\ Append(receipts, receipt)[Len(receipts) + 1] = receipt
         /\ Len(receipts) + 1 \notin DOMAIN receipts
<1>1. Append(receipts, receipt) \in Seq(S) /\ Len(Append(receipts, receipt)) = Len(receipts) + 1
  BY AppendProperties
<1>2. DOMAIN receipts = 1..Len(receipts) /\ Len(receipts) \in Nat
  BY LenProperties
<1>3. DOMAIN Append(receipts, receipt) = 1..(Len(receipts) + 1)
  BY <1>1, LenProperties
<1>4. 1..(Len(receipts) + 1) = (1..Len(receipts)) \cup {Len(receipts) + 1}
  BY <1>2
<1> QED
  BY <1>1, <1>2, <1>3, <1>4, AppendProperties

LEMMA ReceiptsTyped ==
  ASSUME RInv
  PROVE  /\ \A p \in DOMAIN preflights : preflights[p] \in PreflightReceipts
         /\ \A b \in DOMAIN backups : backups[b] \in BackupReceipts
         /\ \A r \in DOMAIN rehearsals : rehearsals[r] \in RehearsalReceipts
         /\ \A i \in DOMAIN resets : resets[i] \in ResetRows
  BY ElementOfSeq, LenProperties DEF RInv, ResetTyped

\* Writers, time and the settings of production leave every receipt alone.
LEMMA NoReceiptStep ==
  ASSUME RInv, ResetTyped', UNCHANGED <<preflights, backups, rehearsals, checked, resets>>
  PROVE  RInv'
  BY DEF RInv, BackupsFollow, RehearsalsFollow, CheckedFollows, ResetsFollow, Near, Approved, Counted, Dumped

LEMMA WriteStep ==
  ASSUME RInv, Reset!Write \/ Reset!ChangeSettings \/ Reset!Tick
  PROVE  RInv'
<1>0. ResetTyped
  BY DEF RInv
<1>1. CASE Reset!Write
  <2>1. ASSUME NEW t \in Tables, written[t] < MaxRows, written' = [written EXCEPT ![t] = @ + 1],
               rows' = rows \cup {<<t, written'[t]>>}, busy' \in {busy, busy \cup {<<t, written'[t]>>}}
        PROVE  written' \in [Tables -> 1..MaxRows] /\ rows' \in Contents /\ busy' \subseteq rows'
    <3>1. written' \in [Tables -> 1..MaxRows] /\ written'[t] \in 1..MaxRows
      <4>1. written \in [Tables -> 1..MaxRows] /\ written[t] + 1 \in 1..MaxRows
        BY <1>0, <2>1, ResetBounds DEF ResetTyped
      <4>2. written' = [written EXCEPT ![t] = written[t] + 1]
        BY <2>1
      <4> HIDE DEF ResetTyped
      <4> QED
        BY <4>1, <4>2
    <3> DEFINE new == <<t, written'[t]>>
    <3>2. new \in Tables \X (1..MaxRows)
      BY <3>1
    <3>3. rows' = rows \cup {new} /\ busy' \in {busy, busy \cup {new}}
      BY <2>1
    <3> HIDE DEF new
    <3>4. rows \subseteq Tables \X (1..MaxRows) /\ busy \subseteq rows
      BY <1>0 DEF ResetTyped, Contents
    <3> QED
      BY <3>1, <3>2, <3>3, <3>4 DEF Contents
  <2>2. ASSUME NEW row1 \in rows, rows' = rows \ {row1}, busy' = busy \ {row1}, UNCHANGED written
        PROVE  written' \in [Tables -> 1..MaxRows] /\ rows' \in Contents /\ busy' \subseteq rows'
    BY <1>0, <2>2 DEF ResetTyped, Contents
  <2>3. written' \in [Tables -> 1..MaxRows] /\ rows' \in Contents /\ busy' \subseteq rows'
    BY <1>0, <1>1, <2>1, <2>2 DEF ResetTyped, Contents, Reset!Write
  <2>4. UNCHANGED <<now, settings, preflights, backups, rehearsals, databases, checked, resets>>
    BY <1>1 DEF Reset!Write
  <2> QED
    BY <1>0, <2>3, <2>4, NoReceiptStep DEF ResetTyped
<1>2. CASE Reset!ChangeSettings
  BY <1>0, <1>2, ResetBounds, NoReceiptStep DEF Reset!ChangeSettings, ResetTyped, Settings
<1>3. CASE Reset!Tick
  BY <1>0, <1>3, ResetBounds, NoReceiptStep DEF Reset!Tick, ResetTyped
<1> QED
  BY <1>1, <1>2, <1>3

-----------------------------------------------------------------------------
(* The scripts *)

\* An added receipt is of no earlier backup, so what was approved stays approved.
LEMMA PreflightStep == ASSUME RInv, Reset!Preflight PROVE RInv'
<1>0. ResetTyped
  BY DEF RInv
<1>1. PICK observed \in 0..MaxNow + EvidenceWindow :
        preflights' = Append(preflights, [observed |-> observed, snapshot |-> Reset!Snapshot(rows, settings)])
  BY DEF Reset!Preflight
<1> DEFINE receipt == [observed |-> observed, snapshot |-> Reset!Snapshot(rows, settings)]
<1>2. receipt \in PreflightReceipts
  BY <1>0, ResetBounds DEF ResetTyped, PreflightReceipts, Snapshots
<1>3. preflights' = Append(preflights, receipt)
  BY <1>1
<1> HIDE DEF receipt
<1>4. /\ preflights' \in Seq(PreflightReceipts) /\ DOMAIN preflights \subseteq DOMAIN preflights'
      /\ \A p \in DOMAIN preflights : preflights'[p] = preflights[p]
  BY <1>0, <1>2, <1>3, ReceiptAdded DEF ResetTyped
<1>5. UNCHANGED <<now, rows, written, busy, settings, backups, rehearsals, databases, checked, resets>>
  BY DEF Reset!Preflight
<1>6. ResetTyped'
  BY <1>0, <1>4, <1>5 DEF ResetTyped
<1>7. BackupsFollow'
  BY <1>4, <1>5 DEF RInv, BackupsFollow, Near
<1>8. \A b \in DOMAIN backups : Counted(b)' = Counted(b) /\ Dumped(b)' = Dumped(b) /\ Approved(b)' = Approved(b)
  BY <1>4, <1>5 DEF RInv, BackupsFollow, Counted, Dumped, Approved
<1>9. RehearsalsFollow'
  BY <1>5, <1>8 DEF RInv, RehearsalsFollow
<1>10. CheckedFollows'
  BY <1>4, <1>5, <1>8 DEF RInv, CheckedFollows, BackupsFollow, Near
<1>11. ResetsFollow'
  BY <1>4, <1>5, <1>8 DEF RInv, ResetsFollow, BackupsFollow, Near
<1> QED
  BY <1>6, <1>7, <1>9, <1>10, <1>11 DEF RInv

LEMMA BackupStep == ASSUME RInv, Reset!Backup PROVE RInv'
<1>0. ResetTyped
  BY DEF RInv
<1>1. PICK p \in DOMAIN preflights :
        /\ Reset!EvidenceHolds(p)
        /\ backups' = Append(backups, [preflight |-> p, dump |-> rows, settings |-> settings, at |-> now])
  BY DEF Reset!Backup
<1> DEFINE receipt == [preflight |-> p, dump |-> rows, settings |-> settings, at |-> now]
<1>2. receipt \in BackupReceipts /\ receipt.preflight = p /\ receipt.at = now
  <2>1. p \in Nat
    BY <1>0, LenProperties DEF ResetTyped
  <2>2. now \in Int
    BY <1>0, ResetBounds DEF ResetTyped
  <2> QED
    BY <1>0, <2>1, <2>2 DEF ResetTyped, BackupReceipts
<1>3. backups' = Append(backups, receipt)
  BY <1>1
<1> HIDE DEF receipt
<1> DEFINE n == Len(backups) + 1
<1>4. /\ backups' \in Seq(BackupReceipts) /\ DOMAIN backups' = DOMAIN backups \cup {n}
      /\ \A b \in DOMAIN backups : backups'[b] = backups[b]
      /\ backups'[n] = receipt /\ n \notin DOMAIN backups
  BY <1>0, <1>2, <1>3, ReceiptAdded DEF ResetTyped
<1> HIDE DEF n
<1>5. UNCHANGED <<now, rows, written, busy, settings, preflights, rehearsals, databases, checked, resets>>
  BY DEF Reset!Backup
<1>6. ResetTyped'
  BY <1>0, <1>4, <1>5 DEF ResetTyped
<1>7. Near(now, preflights[p].observed)
  <2>1. preflights[p].observed \in Int /\ now \in Int
    BY <1>0, ReceiptsTyped, ResetBounds DEF ResetTyped, PreflightReceipts
  <2> QED
    BY <1>1, <2>1, ResetBounds DEF Reset!EvidenceHolds, Reset!Fresh, Near
<1>8. BackupsFollow'
  BY <1>1, <1>2, <1>4, <1>5, <1>7 DEF RInv, BackupsFollow, Near
<1>9. \A b \in DOMAIN backups : Counted(b)' = Counted(b) /\ Dumped(b)' = Dumped(b) /\ Approved(b)' = Approved(b)
  BY <1>4, <1>5 DEF Counted, Dumped, Approved
<1>10. RehearsalsFollow'
  BY <1>4, <1>5, <1>9 DEF RInv, RehearsalsFollow
<1>11. CheckedFollows'
  BY <1>4, <1>5, <1>9 DEF RInv, CheckedFollows, Near
<1>12. ResetsFollow'
  BY <1>4, <1>5, <1>9 DEF RInv, ResetsFollow, Near
<1> QED
  BY <1>6, <1>8, <1>10, <1>11, <1>12 DEF RInv

\* The production server never becomes disposable, whatever name it is reached by.
LEMMA RehearseStep == ASSUME RInv, ProductionFull, Reset!Rehearse PROVE RInv' /\ rows' = rows
<1>0. ResetTyped
  BY DEF RInv
<1>1. PICK host \in Reset!Hosts, b \in DOMAIN backups :
        /\ Reset!Disposable(host)
        /\ databases' = [databases EXCEPT ![Reset!Server(host)].empty = FALSE]
        /\ rows' = IF Reset!Server(host) = "production" THEN backups[b].dump ELSE rows
        /\ rehearsals' = IF Reset!RestoredRight(b)
                         THEN Append(rehearsals, [backup |-> b, approved |-> FALSE]) ELSE rehearsals
  BY DEF Reset!Rehearse
<1>2. rows' = rows
  BY <1>1 DEF Reset!Disposable, Reset!Server, Reset!Hosts, ProductionFull
<1>3. UNCHANGED <<now, written, busy, settings, preflights, backups, checked, resets>>
  BY DEF Reset!Rehearse
<1>4. databases' \in [{"production", "disposable"} -> [marked : BOOLEAN, empty : BOOLEAN]]
  <2>1. \A server \in {"production", "disposable"} :
          [databases[server] EXCEPT !.empty = FALSE] \in [marked : BOOLEAN, empty : BOOLEAN]
    BY <1>0 DEF ResetTyped
  <2> QED
    BY <1>0, <1>1, <2>1 DEF ResetTyped
<1>5. CASE rehearsals' = rehearsals
  <2>1. ResetTyped'
    BY <1>0, <1>2, <1>3, <1>4, <1>5 DEF ResetTyped
  <2> QED
    BY <1>2, <1>3, <1>5, <2>1, NoReceiptStep
<1>6. CASE Reset!RestoredRight(b) /\ rehearsals' = Append(rehearsals, [backup |-> b, approved |-> FALSE])
  <2> DEFINE receipt == [backup |-> b, approved |-> FALSE]
             n == Len(rehearsals) + 1
  <2>1. receipt \in RehearsalReceipts /\ receipt.backup = b
    <3>1. b \in Nat
      BY <1>0, LenProperties DEF ResetTyped
    <3> QED
      BY <3>1 DEF RehearsalReceipts
  <2>2. rehearsals' = Append(rehearsals, receipt)
    BY <1>6
  <2> HIDE DEF receipt
  <2>3. /\ rehearsals' \in Seq(RehearsalReceipts) /\ DOMAIN rehearsals' = DOMAIN rehearsals \cup {n}
        /\ \A r \in DOMAIN rehearsals : rehearsals'[r] = rehearsals[r]
        /\ rehearsals'[n] = receipt /\ n \notin DOMAIN rehearsals
    BY <1>0, <2>1, <2>2, ReceiptAdded DEF ResetTyped
  <2> HIDE DEF n
  <2>4. ResetTyped'
    BY <1>0, <1>2, <1>3, <1>4, <2>3 DEF ResetTyped
  <2>5. \A k : Counted(k)' = Counted(k) /\ Dumped(k)' = Dumped(k) /\ (Approved(k) => Approved(k)')
    BY <1>3, <2>3 DEF Counted, Dumped, Approved
  <2>6. Dumped(b) = Counted(b)
    BY <1>6 DEF Reset!RestoredRight, Dumped, Counted
  <2>7. RehearsalsFollow'
    BY <1>3, <2>1, <2>3, <2>5, <2>6 DEF RInv, RehearsalsFollow
  <2>8. BackupsFollow' /\ CheckedFollows' /\ ResetsFollow'
    BY <1>3, <2>5 DEF RInv, BackupsFollow, CheckedFollows, ResetsFollow, Near
  <2> QED
    BY <1>2, <2>4, <2>7, <2>8 DEF RInv
<1> QED
  BY <1>1, <1>2, <1>5, <1>6

LEMMA ApproveStep == ASSUME RInv, Reset!Approve PROVE RInv'
<1>0. ResetTyped
  BY DEF RInv
<1>1. PICK r \in DOMAIN rehearsals : rehearsals' = [rehearsals EXCEPT ![r].approved = TRUE]
  BY DEF Reset!Approve
<1>2. UNCHANGED <<now, rows, written, busy, settings, preflights, backups, databases, checked, resets>>
  BY DEF Reset!Approve
<1>3. /\ rehearsals' \in Seq(RehearsalReceipts) /\ DOMAIN rehearsals' = DOMAIN rehearsals
      /\ \A q \in DOMAIN rehearsals :
           /\ rehearsals'[q].backup = rehearsals[q].backup
           /\ rehearsals[q].approved => rehearsals'[q].approved
  <2> DEFINE receipt == [rehearsals[r] EXCEPT !.approved = TRUE]
  <2>1. rehearsals' = [rehearsals EXCEPT ![r] = receipt]
    BY <1>1
  <2>2. receipt \in RehearsalReceipts /\ receipt.backup = rehearsals[r].backup /\ receipt.approved
    BY <1>1, ReceiptsTyped DEF RehearsalReceipts
  <2> HIDE DEF receipt
  <2>3. rehearsals \in Seq(RehearsalReceipts) /\ DOMAIN rehearsals = 1..Len(rehearsals)
    BY <1>0, LenProperties DEF ResetTyped
  <2>4. rehearsals' \in Seq(RehearsalReceipts)
    <3>1. r \in 1..Len(rehearsals)
      BY <1>1, <2>3
    <3>2. [rehearsals EXCEPT ![r] = receipt] \in Seq(RehearsalReceipts)
      BY <2>2, <2>3, <3>1, ExceptSeq, Zenon
    <3> QED
      BY <2>1, <3>2
  <2> QED
    BY <1>1, <2>1, <2>2, <2>3, <2>4
<1>4. ResetTyped'
  BY <1>0, <1>2, <1>3 DEF ResetTyped
<1>5. \A b : Counted(b)' = Counted(b) /\ Dumped(b)' = Dumped(b) /\ (Approved(b) => Approved(b)')
  BY <1>2, <1>3 DEF Counted, Dumped, Approved
<1>6. RehearsalsFollow' /\ BackupsFollow' /\ CheckedFollows' /\ ResetsFollow'
  BY <1>2, <1>3, <1>5 DEF RInv, RehearsalsFollow, BackupsFollow, CheckedFollows, ResetsFollow, Near
<1> QED
  BY <1>4, <1>6 DEF RInv

LEMMA CheckStep == ASSUME RInv, Reset!Check PROVE RInv'
<1>0. ResetTyped
  BY DEF RInv
<1>1. PICK p \in DOMAIN preflights, b \in DOMAIN backups, r \in DOMAIN rehearsals :
        /\ Reset!EvidenceHolds(p) /\ Reset!Chained(p, b, r) /\ rehearsals[r].approved
        /\ checked' = [preflight |-> p, backup |-> b, at |-> now]
  BY DEF Reset!Check
<1>2. UNCHANGED <<now, rows, written, busy, settings, preflights, backups, rehearsals, databases, resets>>
  BY DEF Reset!Check
<1>3. p \in Nat /\ b \in Nat /\ now \in Int
  <2>1. DOMAIN preflights = 1..Len(preflights) /\ DOMAIN backups = 1..Len(backups)
    BY <1>0, LenProperties DEF ResetTyped
  <2>2. p \in Nat /\ b \in Nat
    BY <1>1, <2>1
  <2>3. now \in Int
    BY <1>0, ResetBounds DEF ResetTyped
  <2> QED
    BY <2>2, <2>3
<1>4. ResetTyped'
  BY <1>0, <1>1, <1>2, <1>3 DEF ResetTyped
<1>5. Near(now, preflights[p].observed)
  <2>1. preflights[p].observed \in Int
    BY ReceiptsTyped DEF PreflightReceipts
  <2> QED
    BY <1>1, <1>3, <2>1, ResetBounds DEF Reset!EvidenceHolds, Reset!Fresh, Near
<1>6. CheckedFollows'
  BY <1>1, <1>2, <1>5 DEF CheckedFollows, Approved, Near, Reset!Chained
<1>7. RehearsalsFollow' /\ BackupsFollow' /\ ResetsFollow'
  BY <1>2 DEF RInv, RehearsalsFollow, BackupsFollow, ResetsFollow, Near, Approved, Counted, Dumped
<1> QED
  BY <1>4, <1>6, <1>7 DEF RInv

\* What is deleted is counted once more: it is what the preflight counted, so what was restored.
LEMMA TransactionStep == ASSUME RInv, Reset!Transaction PROVE RInv'
<1>0. ResetTyped
  BY DEF RInv
<1>1. /\ checked # Reset!Idle /\ checked' = Reset!Idle
      /\ UNCHANGED <<now, written, settings, preflights, backups, rehearsals, databases>>
  BY DEF Reset!Transaction
<1>2. Reset!Idle \in [preflight : Nat, backup : Nat, at : Int]
  BY DEF Reset!Idle
<1>3. CASE UNCHANGED <<rows, busy, resets>>
  <2>1. ResetTyped'
    BY <1>0, <1>1, <1>2, <1>3 DEF ResetTyped
  <2> QED
    BY <1>1, <1>3, <2>1
    DEF RInv, BackupsFollow, RehearsalsFollow, CheckedFollows, ResetsFollow, Near, Approved, Counted, Dumped
<1> DEFINE reset == [rows |-> rows, settings |-> settings, backup |-> checked.backup, at |-> checked.at]
           n == Len(resets) + 1
<1>4. CASE /\ Reset!StillAsApproved(checked.preflight)
           /\ rows' = {} /\ busy' = {} /\ resets' = Append(resets, reset)
  <2>1. /\ reset \in ResetRows /\ reset.backup = checked.backup /\ reset.at = checked.at
        /\ reset.rows = rows /\ reset.settings = settings
    BY <1>0 DEF ResetTyped, ResetRows
  <2> HIDE DEF reset
  <2>2. /\ resets' \in Seq(ResetRows) /\ DOMAIN resets' = DOMAIN resets \cup {n}
        /\ \A i \in DOMAIN resets : resets'[i] = resets[i]
        /\ resets'[n] = reset
    BY <1>0, <1>4, <2>1, ReceiptAdded DEF ResetTyped
  <2> HIDE DEF n
  <2>3. ResetTyped'
    BY <1>0, <1>1, <1>2, <1>4, <2>2 DEF ResetTyped, Contents
  <2>4. \A b : Counted(b)' = Counted(b) /\ Dumped(b)' = Dumped(b) /\ Approved(b)' = Approved(b)
    BY <1>1 DEF Counted, Dumped, Approved
  <2>5. RehearsalsFollow' /\ BackupsFollow' /\ CheckedFollows'
    BY <1>1, <2>4 DEF RInv, RehearsalsFollow, BackupsFollow, CheckedFollows, Near
  <2> DEFINE b == checked.backup
  <2>6. /\ b \in DOMAIN backups /\ checked.preflight = backups[b].preflight /\ Approved(b)
        /\ Near(checked.at, preflights[backups[b].preflight].observed)
    BY <1>1 DEF RInv, CheckedFollows
  <2>7. Dumped(b) = Counted(b)
    BY <2>6 DEF RInv, RehearsalsFollow, Approved
  <2>8. Dumped(b) = Reset!Snapshot(rows, settings)
    BY <1>4, <2>6, <2>7 DEF Counted, Reset!StillAsApproved
  <2> HIDE DEF b
  <2>9. \A i \in DOMAIN resets' :
          LET k == resets'[i].backup IN
          /\ k \in DOMAIN backups /\ Approved(k)
          /\ Dumped(k) = Reset!Snapshot(resets'[i].rows, resets'[i].settings)
          /\ Near(resets'[i].at, preflights[backups[k].preflight].observed)
    <3>1. reset.backup = b
      BY <2>1 DEF b
    <3>2. \A i \in DOMAIN resets :
            LET k == resets[i].backup IN
            /\ k \in DOMAIN backups /\ Approved(k)
            /\ Dumped(k) = Reset!Snapshot(resets[i].rows, resets[i].settings)
            /\ Near(resets[i].at, preflights[backups[k].preflight].observed)
      BY DEF RInv, ResetsFollow
    <3> QED
      BY <2>1, <2>2, <2>6, <2>8, <3>1, <3>2
  <2>10. ResetsFollow'
    BY <1>1, <2>4, <2>9 DEF ResetsFollow, Near
  <2> QED
    BY <2>3, <2>5, <2>10 DEF RInv
<1> QED
  BY <1>3, <1>4 DEF Reset!Transaction

ResetIInv == RInv /\ ProductionFull

LEMMA ResetStep == ResetIInv /\ [Reset!Next]_(Reset!vars) => ResetIInv'
<1> SUFFICES ASSUME RInv, ProductionFull, [Reset!Next]_(Reset!vars) PROVE RInv' /\ ProductionFull'
  BY DEF ResetIInv
<1>0. ResetTyped
  BY DEF RInv
<1>1. CASE Reset!Provision
  <2>1. databases' = [databases EXCEPT !["disposable"].empty = TRUE]
        /\ UNCHANGED <<now, rows, written, busy, settings, preflights, backups, rehearsals, checked, resets>>
    BY <1>1 DEF Reset!Provision
  <2>2. databases' \in [{"production", "disposable"} -> [marked : BOOLEAN, empty : BOOLEAN]]
    <3>1. \A server \in {"production", "disposable"} :
            [databases[server] EXCEPT !.empty = TRUE] \in [marked : BOOLEAN, empty : BOOLEAN]
      BY <1>0 DEF ResetTyped
    <3> QED
      BY <1>0, <2>1, <3>1 DEF ResetTyped
  <2>3. ResetTyped'
    BY <1>0, <2>1, <2>2 DEF ResetTyped
  <2>4. ProductionFull'
    BY <1>0, <2>1 DEF ResetTyped, ProductionFull
  <2> QED
    BY <2>1, <2>3, <2>4, NoReceiptStep
<1>2. CASE Reset!Rehearse
  <2>1. ProductionFull'
    BY <1>0, <1>2 DEF ResetTyped, ProductionFull, Reset!Rehearse, Reset!Server, Reset!Hosts
  <2> QED
    BY <1>2, <2>1, RehearseStep
<1>3. CASE Reset!Write \/ Reset!ChangeSettings \/ Reset!Tick
  BY <1>3, WriteStep DEF ProductionFull, Reset!Write, Reset!ChangeSettings, Reset!Tick
<1>4. CASE Reset!Preflight
  BY <1>4, PreflightStep DEF ProductionFull, Reset!Preflight
<1>5. CASE Reset!Backup
  BY <1>5, BackupStep DEF ProductionFull, Reset!Backup
<1>6. CASE Reset!Approve
  BY <1>6, ApproveStep DEF ProductionFull, Reset!Approve
<1>7. CASE Reset!Check
  BY <1>7, CheckStep DEF ProductionFull, Reset!Check
<1>8. CASE Reset!Transaction
  BY <1>8, TransactionStep DEF ProductionFull, Reset!Transaction
<1>9. CASE UNCHANGED Reset!vars
  <2>1. ResetTyped' /\ ProductionFull'
    BY <1>0, <1>9 DEF ResetTyped, ProductionFull, Reset!vars
  <2> QED
    BY <1>9, <2>1, NoReceiptStep DEF Reset!vars
<1> QED
  BY <1>1, <1>2, <1>3, <1>4, <1>5, <1>6, <1>7, <1>8, <1>9 DEF Reset!Next

THEOREM ResetInvariance == Reset!Spec => []ResetIInv
<1>1. Reset!Init => ResetIInv
  <2> SUFFICES ASSUME Reset!Init PROVE ProductionFull
    BY ResetInit DEF ResetIInv
  <2>1. PICK marked \in BOOLEAN :
          databases = [server \in {"production", "disposable"} |->
                         [marked |-> server = "disposable" \/ marked, empty |-> server = "disposable"]]
    BY DEF Reset!Init
  <2>2. databases["production"].empty = ("production" = "disposable")
    BY <2>1
  <2> QED
    BY <2>2 DEF ProductionFull
<1> QED
  BY <1>1, ResetStep, PTL DEF Reset!Spec

-----------------------------------------------------------------------------
(* What follows *)

\* A behaviour of what may not be lost is one of the reset.
LEMMA ResetRuns == EverySpec => Reset!Spec
<1>1. EveryInit => Reset!Init
  BY DEF EveryInit
<1>2. [EveryNext]_<<part, vars, resetVars>> => [Reset!Next]_(Reset!vars)
  BY DEF EveryNext, Reset!vars, resetVars
<1> QED
  BY <1>1, <1>2, PTL DEF EverySpec, Reset!Spec

\* Receipts only name receipts that exist, and what is in production keeps its type.
THEOREM ResetTyping == Reset!Spec => []Reset!TypeOK
<1>1. ResetIInv => Reset!TypeOK
  BY DEF ResetIInv, RInv, ResetTyped, Settings, Contents, BackupsFollow, RehearsalsFollow, Reset!TypeOK
<1> QED
  BY <1>1, ResetInvariance, PTL

\* Whatever receipts the operator mixes up and whoever writes in between
\* (scripts/reset_execute.py): what a reset deletes is as many rows of each table as a
\* backup holds that was restored and approved, under the same settings.
THEOREM ResetsAreRehearsed == EverySpec => []RehearsedBeforeReset
<1>1. ResetIInv => RehearsedBeforeReset
  BY DEF ResetIInv, RInv, ResetsFollow, Approved, Dumped, RehearsedBeforeReset, Reset!RehearsedBeforeReset
<1> QED
  BY <1>1, ResetRuns, ResetInvariance, PTL

\* Between the dump and the checks of the reset lie at most two windows
\* (scripts/reset_guard.py): both lie within one window of the same observation.
THEOREM ResetsAreSoon == EverySpec => []ResetSoonAfterBackup
<1>1. ASSUME ResetIInv, NEW i \in DOMAIN resets
      PROVE  resets[i].at - backups[resets[i].backup].at <= 2 * EvidenceWindow
  <2> DEFINE b == resets[i].backup
             seen == preflights[backups[b].preflight].observed
  <2>1. b \in DOMAIN backups /\ Near(resets[i].at, seen)
    BY <1>1 DEF ResetIInv, RInv, ResetsFollow
  <2>2. backups[b].preflight \in DOMAIN preflights /\ Near(backups[b].at, seen)
    BY <1>1, <2>1 DEF ResetIInv, RInv, BackupsFollow
  <2>3. resets[i].at \in Int /\ backups[b].at \in Int /\ seen \in Int
    BY <1>1, <2>1, <2>2, ReceiptsTyped DEF ResetIInv, ResetRows, BackupReceipts, PreflightReceipts
  <2> HIDE DEF b, seen
  <2>4. resets[i].at - backups[b].at <= 2 * EvidenceWindow
    BY <2>1, <2>2, <2>3, ResetBounds DEF Near
  <2> QED
    BY <2>4 DEF b
<1>2. ResetIInv => ResetSoonAfterBackup
  BY <1>1 DEF ResetSoonAfterBackup, Reset!ResetSoonAfterBackup
<1> QED
  BY <1>2, ResetRuns, ResetInvariance, PTL

\* A rehearsal never restores into production, be it reached by another name and marked as
\* disposable by mistake (scripts/reset_rehearsal.py): there are always relations in it.
THEOREM ProductionIsSpared == Reset!Spec => Reset!RehearsalSparesProduction
<1>1. ResetIInv /\ [Reset!Next]_(Reset!vars)
        => [rehearsals' # rehearsals \/ databases' # databases => rows' = rows]_(Reset!vars)
  BY RehearseStep
  DEF ResetIInv, Reset!Next, Reset!Write, Reset!ChangeSettings, Reset!Tick, Reset!Preflight, Reset!Backup,
      Reset!Provision, Reset!Approve, Reset!Check, Reset!Transaction
<1> QED
  BY <1>1, ResetInvariance, PTL DEF Reset!Spec, Reset!RehearsalSparesProduction
=============================================================================
