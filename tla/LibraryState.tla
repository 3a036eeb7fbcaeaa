---------------------------- MODULE LibraryState ----------------------------
(***************************************************************************)
(* The personal library of one account (folders, favourites, shopping list, *)
(* cooking progress): GET and PUT /v1/me/library-state over the table       *)
(* user_library_state, while the account is closed and opened again.        *)
(*                                                                         *)
(* Each device keeps the revision it last heard of and sends it back with   *)
(* its next snapshot.  A request is three steps: current_user reads the     *)
(* profile, the handler runs its one statement, the answer arrives or is    *)
(* lost; a lost answer is followed by the same request once more.           *)
(* Snapshots are numbered in the order the devices make them; 0 is the      *)
(* empty snapshot the server invents when there is no row.                  *)
(***************************************************************************)
EXTENDS Naturals, Sequences

CONSTANTS
  Devices,
  MaxDrafts,   \* bound: snapshots the devices ever make
  MaxLives     \* bound: times the account is opened

ASSUME LibraryBounds == MaxDrafts \in Nat \ {0} /\ MaxLives \in Nat \ {0}

VARIABLES
  closed,   \* profiles.deleted_at is set
  row,      \* the row of user_library_state; revision 0 stands for no row
  dev,      \* what each device knows (base, seen; life is history) and is doing
  drafts,   \* snapshots made so far
  log,      \* history: saves accepted since the account was opened
  life      \* history: how often the account was opened

vars == <<closed, row, dev, drafts, log, life>>

Empty == 0
Kept == 3    \* versions the history column keeps

NoState == [revision |-> 0, snapshot |-> Empty, history |-> << >>]
FreshDevice == [pc |-> "idle", base |-> 0, seen |-> Empty, life |-> 1, draft |-> Empty,
                answer |-> NoState, heard |-> 1]

Init ==
  /\ closed = FALSE /\ row = NoState /\ drafts = 0 /\ log = << >> /\ life = 1
  /\ dev = [d \in Devices |-> FreshDevice]

Become(d, state) == dev' = [dev EXCEPT ![d] = state]

-----------------------------------------------------------------------------
(* The device asks *)

\* A refresh passes current_user.
AskGet(d) ==
  /\ dev[d].pc = "idle" /\ ~closed
  /\ Become(d, [dev[d] EXCEPT !.pc = "get"])
  /\ UNCHANGED <<closed, row, drafts, log, life>>

\* A save passes current_user: of a new snapshot, or of one whose answer was lost.
AskPut(d) ==
  /\ dev[d].pc = "idle" /\ ~closed
  /\ \/ /\ dev[d].draft # Empty
        /\ Become(d, [dev[d] EXCEPT !.pc = "put"]) /\ UNCHANGED drafts
     \/ /\ drafts < MaxDrafts
        /\ drafts' = drafts + 1
        /\ Become(d, [dev[d] EXCEPT !.pc = "put", !.draft = drafts + 1])
  /\ UNCHANGED <<closed, row, log, life>>

-----------------------------------------------------------------------------
(* The statements of the handlers *)

\* Faulty: keeps one version too few.
KeepTwo(history, version) ==
  LET all == Append(history, version)
      first == IF Len(history) > 1 THEN Len(history) - 1 ELSE 0
  IN  SubSeq(all, first + 1, Len(all))

\* Faulty: keeps everything.
KeepAll(history, version) == Append(history, version)

\* history || the replaced version, without the elements up to greatest(length - 2, 0).
KeepRecent(history, version) ==
  LET all == Append(history, version)
      dropped == IF Len(history) > Kept - 1 THEN Len(history) - (Kept - 1) ELSE 0
  IN  SubSeq(all, dropped + 1, Len(all))

Version(state) == [revision |-> state.revision, snapshot |-> state.snapshot]

\* save_user_library_state: insert the first revision, or replace the expected one.
Saved(state, draft) ==
  [revision |-> state.revision + 1, snapshot |-> draft,
   history |-> IF state.revision = 0 THEN << >>
               ELSE KeepRecent(state.history, Version(state))]

\* Faulty: trusts the authentication of the request.
ExpectedOnly(base) == row.revision = base

\* Faulty: the update does not compare revisions.
AnyRevision(base) == ~closed /\ (base = 0 => row.revision = 0) /\ (base > 0 => row.revision > 0)

\* active_profile, and "on conflict do nothing" or "revision = expected".
Accepts(base) == ~closed /\ row.revision = base

Get(d) ==
  /\ dev[d].pc = "get"
  /\ Become(d, [dev[d] EXCEPT !.pc = "answer", !.answer = row, !.heard = life])
  /\ UNCHANGED <<closed, row, drafts, log, life>>

Put(d) ==
  /\ dev[d].pc = "put" /\ Accepts(dev[d].base)
  /\ row' = Saved(row, dev[d].draft)
  /\ log' = Append(log, [snapshot |-> dev[d].draft, over |-> dev[d].seen, life |-> dev[d].life])
  /\ Become(d, [dev[d] EXCEPT !.pc = "answer", !.answer = row', !.heard = life])
  /\ UNCHANGED <<closed, drafts, life>>

\* HTTP 409 LIBRARY_STATE_CONFLICT, which leaves the device to refresh.
PutConflict(d) ==
  /\ dev[d].pc = "put" /\ ~Accepts(dev[d].base)
  /\ Become(d, [dev[d] EXCEPT !.pc = "idle"])
  /\ UNCHANGED <<closed, row, drafts, log, life>>

-----------------------------------------------------------------------------
(* The answer, and the account *)

\* The device adopts the state it was sent.
Receive(d) ==
  /\ dev[d].pc = "answer"
  /\ Become(d, [FreshDevice EXCEPT !.base = dev[d].answer.revision,
                                   !.seen = dev[d].answer.snapshot, !.life = dev[d].heard])
  /\ UNCHANGED <<closed, row, drafts, log, life>>

\* HTTP 503 before the statement, or an answer that never arrives after it.
Lose(d) ==
  /\ dev[d].pc \in {"get", "put", "answer"}
  /\ Become(d, [dev[d] EXCEPT !.pc = "idle", !.answer = NoState])
  /\ UNCHANGED <<closed, row, drafts, log, life>>

\* Faulty: the account is closed and its library state stays.
CloseKeepsState ==
  /\ ~closed /\ closed' = TRUE /\ log' = << >>
  /\ UNCHANGED <<row, dev, drafts, life>>

\* delete_account_data: one transaction that locks the profile first.
CloseAccount ==
  /\ ~closed /\ closed' = TRUE /\ row' = NoState /\ log' = << >>
  /\ UNCHANGED <<dev, drafts, life>>

\* The same Apple ID signs in again.
Reopen ==
  /\ closed /\ life < MaxLives
  /\ closed' = FALSE /\ life' = life + 1
  /\ UNCHANGED <<row, dev, drafts, log>>

Next ==
  \/ CloseAccount \/ Reopen
  \/ \E d \in Devices :
       AskGet(d) \/ AskPut(d) \/ Get(d) \/ Put(d) \/ PutConflict(d) \/ Receive(d) \/ Lose(d)

Spec == Init /\ [][Next]_vars

-----------------------------------------------------------------------------
(* Properties *)

States == [revision : Nat, snapshot : Nat,
           history : Seq([revision : Nat, snapshot : Nat])]

\* Every variable keeps its type, and the history column keeps at most three versions.
TypeOK ==
  /\ closed \in BOOLEAN /\ row \in States /\ Len(row.history) <= Kept
  /\ drafts \in 0..MaxDrafts /\ life \in 1..MaxLives
  /\ log \in Seq([snapshot : Nat \ {0}, over : Nat, life : 1..MaxLives])
  /\ dev \in [Devices -> [pc : {"idle", "get", "put", "answer"}, base : Nat, seen : Nat,
                          life : 1..MaxLives, draft : 0..MaxDrafts, answer : States,
                          heard : 1..MaxLives]]

\* The row is a window on the log of accepted saves (library_state.py:65-81): revision
\* counts the saves, snapshot is the last one, history holds the up to three before it,
\* in order and with their revisions - whatever devices, retries and closures did.
RowShowsLog ==
  LET n == Len(log)
      kept == Len(row.history)
  IN  /\ row.revision = n
      /\ row.snapshot = (IF n = 0 THEN Empty ELSE log[n].snapshot)
      /\ kept = (IF n = 0 THEN 0 ELSE IF n - 1 < Kept THEN n - 1 ELSE Kept)
      /\ \A i \in 1..kept :
           row.history[i] = [revision |-> n - 1 - kept + i,
                             snapshot |-> log[n - 1 - kept + i].snapshot]

\* The snapshot that a save of the log replaced.
Replaced(i) == IF i = 1 THEN Empty ELSE log[i - 1].snapshot

\* No update is lost between devices (the compare-and-set of library_state.py:83): a
\* save whose writer read this account's present life replaced what its writer had seen.
NoLostUpdate ==
  \A i \in 1..Len(log) : log[i].life = life => log[i].over = Replaced(i)

\* A snapshot sent again after its answer was lost is not stored a second time: the
\* first save moved the revision on (library_state.py:52, 83).
SavedOnce ==
  \A i, j \in 1..Len(log) : log[i].snapshot = log[j].snapshot => i = j

\* A closed account keeps no personal library (store.py:578-597): the row lock orders a
\* save that was on its way before the deletion, or after it, where it finds the
\* profile closed.
ClosedKeepsNothing == closed => row = NoState

\* The account's library is the abstract log of LibraryLog.
Accepted == [i \in 1..Len(log) |-> log[i].snapshot]
Abstract == INSTANCE LibraryLog WITH log <- Accepted, open <- ~closed, Snapshots <- 1..MaxDrafts
AppendOnlyLog == Abstract!Spec

\* "PUT /v1/me/library-state usa revision CAS" (the integration audit, lines 52 and
\* 162), and the 409 that asks a device to refresh when the state has changed: no save
\* replaces a state its writer has not seen.  Revisions start again at 1 when an
\* account is opened again, so a revision of an earlier life is taken for the new one.
SavesOverWhatWasRead == \A i \in 1..Len(log) : log[i].over = Replaced(i)
=============================================================================
