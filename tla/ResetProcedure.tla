---------------------------- MODULE ResetProcedure ----------------------------
(***************************************************************************)
(* The reset of production by hand (scripts/reset_*.py): preflight, encrypted *)
(* backup, restoration rehearsal, approval, and the transaction that deletes.  *)
(* Each script leaves a receipt with a digest; which receipts the next one is  *)
(* given, and how much later, is up to the operator.  That nobody writes in    *)
(* the meantime is only attested, so the model lets writers go on.             *)
(*                                                                         *)
(* Fingerprints of settings, schema and Auth configuration are one value here. *)
(***************************************************************************)
EXTENDS Integers, Sequences, FiniteSets

CONSTANTS
  Tables,                          \* PUBLIC_DELETE_TABLES and AUTH_DELETE_TABLES
  Window,                          \* half an hour, how far evidence may be off
  MaxRows, MaxSettings, MaxNow,    \* bounds: rows ever written in a table, settings, time
  MaxPreflights, MaxBackups, MaxRehearsals, MaxResets \* bounds: how often each script runs

ResetAssumption ==
  /\ {Window, MaxSettings, MaxNow, MaxPreflights, MaxBackups, MaxRehearsals, MaxResets} \subseteq Nat
  /\ MaxRows \in Nat \ {0}

VARIABLES
  now,
  rows,       \* rows in production, a row in its table; an update is a new row
  written,    \* rows ever written, for each table
  busy,       \* rows that are jobs still pending, processing or leased
  settings,   \* what is preserved: app_settings, schema, Auth configuration
  preflights, \* receipts: observed (of the writer evidence) and snapshot
  backups,    \* receipts: preflight; the encrypted file: dump, its settings; history: at
  rehearsals, \* receipts: backup and whether a reviewer approved it
  databases,  \* for each server: marked as disposable, empty
  checked,    \* the run of reset_execute that has passed its checks, if any
  resets      \* history: committed resets

vars == <<now, rows, written, busy, settings, preflights, backups, rehearsals, databases, checked, resets>>

Hosts == {"production", "alias", "disposable"} \* alias: another name of production
Server(host) == IF host = "alias" THEN "production" ELSE host

Counts(some) == [t \in Tables |-> Cardinality({row \in some : row[1] = t})]
Snapshot(some, kept) == [counts |-> Counts(some), settings |-> kept]
Idle == [preflight |-> 0, backup |-> 0, at |-> 0]

Init ==
  /\ now = 0 /\ busy = {} /\ settings = 0
  /\ written = [t \in Tables |-> 1] /\ rows = Tables \X {1}
  /\ preflights = << >> /\ backups = << >> /\ rehearsals = << >> /\ resets = << >>
  /\ \E marked \in BOOLEAN :
       databases = [server \in {"production", "disposable"} |->
                      [marked |-> server = "disposable" \/ marked, empty |-> server = "disposable"]]
  /\ checked = Idle

-----------------------------------------------------------------------------
(* Writers, whatever the evidence says *)

Write ==
  /\ \/ \E t \in Tables :
          /\ written[t] < MaxRows
          /\ written' = [written EXCEPT ![t] = @ + 1]
          /\ rows' = rows \cup {<<t, written'[t]>>}
          /\ busy' \in {busy, busy \cup {<<t, written'[t]>>}}
     \/ \E row \in rows : rows' = rows \ {row} /\ busy' = busy \ {row} /\ UNCHANGED written
     \/ \E row \in busy : busy' = busy \ {row} /\ UNCHANGED <<rows, written>>
  /\ UNCHANGED <<now, settings, preflights, backups, rehearsals, databases, checked, resets>>

ChangeSettings ==
  /\ settings < MaxSettings /\ settings' = settings + 1
  /\ UNCHANGED <<now, rows, written, busy, preflights, backups, rehearsals, databases, checked, resets>>

Tick ==
  /\ now < MaxNow /\ now' = now + 1
  /\ UNCHANGED <<rows, written, busy, settings, preflights, backups, rehearsals, databases, checked, resets>>

-----------------------------------------------------------------------------
(* Scripts *)

\* validate_writer_evidence; evidence that lacks a control is refused by every script.
Fresh(observed) == observed - now <= Window /\ now - observed <= Window

\* Faulty: the freeze may be attested again.
EvidenceRenewed(p) == TRUE

\* The evidence must be the file of the preflight, and recent still.
EvidenceHolds(p) == Fresh(preflights[p].observed)

Preflight ==
  /\ Len(preflights) < MaxPreflights
  /\ busy = {}
  /\ \E observed \in 0..MaxNow + Window :
       /\ Fresh(observed)
       /\ preflights' = Append(preflights, [observed |-> observed, snapshot |-> Snapshot(rows, settings)])
  /\ UNCHANGED <<now, rows, written, busy, settings, backups, rehearsals, databases, checked, resets>>

\* The dump is taken now; the receipt repeats the snapshot of the preflight.
Backup ==
  /\ Len(backups) < MaxBackups
  /\ \E p \in DOMAIN preflights :
       /\ EvidenceHolds(p)
       /\ backups' = Append(backups, [preflight |-> p, dump |-> rows, settings |-> settings, at |-> now])
  /\ UNCHANGED <<now, rows, written, busy, settings, preflights, rehearsals, databases, checked, resets>>

\* Faulty: the marker is enough.
MarkedOnly(host) == host # "production" /\ databases[Server(host)].marked

\* The host must have another name than production; the database tells the marker, and that it is new.
Disposable(host) ==
  host # "production" /\ databases[Server(host)].marked /\ databases[Server(host)].empty

\* Faulty: a restore that ends without an error is good.
RestoredAtAll(b) == TRUE

\* What was restored is compared with the snapshot of the preflight.
RestoredRight(b) ==
  Snapshot(backups[b].dump, backups[b].settings) = preflights[backups[b].preflight].snapshot

\* The database is cleaned and filled; only if all compares equal there is a receipt.
Rehearse ==
  /\ Len(rehearsals) < MaxRehearsals
  /\ \E host \in Hosts, b \in DOMAIN backups :
       /\ Disposable(host)
       /\ databases' = [databases EXCEPT ![Server(host)].empty = FALSE]
       /\ rows' = IF Server(host) = "production" THEN backups[b].dump ELSE rows
       /\ rehearsals' = IF RestoredRight(b) THEN Append(rehearsals, [backup |-> b, approved |-> FALSE]) ELSE rehearsals
  /\ UNCHANGED <<now, written, busy, settings, preflights, backups, checked, resets>>

\* A new database for the next rehearsal.
Provision ==
  /\ databases' = [databases EXCEPT !["disposable"].empty = TRUE]
  /\ UNCHANGED <<now, rows, written, busy, settings, preflights, backups, rehearsals, checked, resets>>

\* reset_approve_rehearsal
Approve ==
  /\ \E r \in DOMAIN rehearsals : rehearsals' = [rehearsals EXCEPT ![r].approved = TRUE]
  /\ UNCHANGED <<now, rows, written, busy, settings, preflights, backups, databases, checked, resets>>

\* Faulty: the rehearsal may be that of another backup of the preflight.
SamePreflight(p, b, r) == backups[b].preflight = p /\ backups[rehearsals[r].backup].preflight = p

\* Faulty: the preflight may be another one than that of the backup.
AnyPreflight(p, b, r) == rehearsals[r].backup = b

\* validate_receipt_chain, validate_rehearsal_receipt
Chained(p, b, r) == backups[b].preflight = p /\ rehearsals[r].backup = b

\* The checks of reset_execute; without --execute and its confirmation it ends here.
Check ==
  /\ checked = Idle /\ Len(resets) < MaxResets
  /\ \E p \in DOMAIN preflights, b \in DOMAIN backups, r \in DOMAIN rehearsals :
       /\ EvidenceHolds(p)
       /\ Chained(p, b, r) /\ rehearsals[r].approved
       /\ busy = {} /\ Snapshot(rows, settings) = preflights[p].snapshot
       /\ checked' = [preflight |-> p, backup |-> b, at |-> now]
  /\ UNCHANGED <<now, rows, written, busy, settings, preflights, backups, rehearsals, databases, resets>>

\* Faulty: the transaction trusts the checks before it.
TrustsChecks(p) == settings = preflights[p].snapshot.settings

\* Counts before the first DELETE, what is preserved after the last.
StillAsApproved(p) == Snapshot(rows, settings) = preflights[p].snapshot

\* One transaction over locked tables: it deletes all or nothing. The operator may not
\* be told that it committed, and may try again.
Transaction ==
  /\ checked # Idle /\ checked' = Idle
  /\ \/ /\ StillAsApproved(checked.preflight)
        /\ rows' = {} /\ busy' = {}
        /\ resets' = Append(resets, [rows |-> rows, settings |-> settings, backup |-> checked.backup, at |-> checked.at])
     \/ UNCHANGED <<rows, busy, resets>>
  /\ UNCHANGED <<now, written, settings, preflights, backups, rehearsals, databases>>

Next ==
  \/ Write \/ ChangeSettings \/ Tick
  \/ Preflight \/ Backup \/ Rehearse \/ Provision \/ Approve \/ Check \/ Transaction

Spec == Init /\ [][Next]_vars

-----------------------------------------------------------------------------
(* Properties *)

\* Every variable keeps its type, and receipts only name receipts that exist.
TypeOK ==
  /\ now \in 0..MaxNow /\ settings \in 0..MaxSettings
  /\ rows \subseteq Tables \X (1..MaxRows) /\ busy \subseteq rows
  /\ \A b \in DOMAIN backups : backups[b].preflight \in DOMAIN preflights
  /\ \A r \in DOMAIN rehearsals : rehearsals[r].backup \in DOMAIN backups

\* Whatever receipts the operator mixes up and whoever writes in between: what a reset
\* deletes is as many rows of each table as a backup holds that was restored and
\* approved, under the same settings (the backup whose digest the operator confirmed).
RehearsedBeforeReset ==
  \A i \in DOMAIN resets :
    LET b == resets[i].backup IN
    /\ \E r \in DOMAIN rehearsals : rehearsals[r].backup = b /\ rehearsals[r].approved
    /\ Snapshot(backups[b].dump, backups[b].settings) = Snapshot(resets[i].rows, resets[i].settings)

\* Between the dump and the checks of the reset lie at most two windows: all of the
\* procedure has to fit around one observation of the frozen writers.
ResetSoonAfterBackup == \A i \in DOMAIN resets : resets[i].at - backups[resets[i].backup].at <= 2 * Window

\* A rehearsal never restores into production, be it reached by another name and marked
\* as disposable by mistake: there are always relations in it.
RehearsalSparesProduction == [][rehearsals' # rehearsals \/ databases' # databases => rows' = rows]_vars

\* "Any post-backup row aborts reset" (docs/RESET_RUNBOOK.md:142).  The code compares
\* counts: a row that came while another went, or was updated, is deleted unsaved.
PostBackupRowAborts == \A i \in DOMAIN resets : resets[i].rows \subseteq backups[resets[i].backup].dump
=============================================================================
