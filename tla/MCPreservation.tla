--------------------------- MODULE MCPreservation ---------------------------
(***************************************************************************)
(* What may not be lost: the personal library that several devices save        *)
(* (LibraryState), and the production database when it is reset                *)
(* (ResetProcedure).  They share no state, so a behaviour runs one of them,    *)
(* its "part", and leaves the other in its initial state.                      *)
(***************************************************************************)
EXTENDS LibraryState, TLC

CONSTANTS
  d1, d2, jobs, recipes,
  Tables, EvidenceWindow, MaxRows, MaxSettings, MaxNow,   \* ResetProcedure
  MaxPreflights, MaxBackups, MaxRehearsals, MaxResets

TwoDevices == {d1, d2}
TwoTables == {jobs, recipes}

VARIABLES
  part,
  now, rows, written, busy, settings,                    \* ResetProcedure
  preflights, backups, rehearsals, databases, checked, resets

resetVars ==
  <<now, rows, written, busy, settings, preflights, backups, rehearsals, databases, checked, resets>>

Reset == INSTANCE ResetProcedure WITH Window <- EvidenceWindow

ASSUME InstanceAssumption == Reset!ResetAssumption

(* A row may be written in one of the tables and rows deleted from both: over *)
(* the whole time with one receipt of each kind, or at one time with several   *)
(* receipts that can be mixed up.                                              *)
OneOfEach == Len(preflights) <= 1 /\ Len(backups) <= 1 /\ Len(rehearsals) <= 1
AtOnce == now = 0
SmallReset == written[recipes] = 1 /\ (OneOfEach \/ AtOnce)

EveryInit == part \in {"library", "reset"} /\ Init /\ Reset!Init

EveryNext ==
  /\ UNCHANGED part
  /\ \/ part = "library" /\ Next /\ UNCHANGED resetVars
     \/ part = "reset" /\ Reset!Next /\ SmallReset' /\ UNCHANGED vars

EverySpec == EveryInit /\ [][EveryNext]_<<part, vars, resetVars>>

Interchangeable == Permutations(Devices)

\* Whatever receipts the operator mixes up and whoever writes in between
\* (scripts/reset_execute.py): what a reset deletes is as many rows of each table as a
\* backup holds that was restored and approved, under the same settings.
RehearsedBeforeReset == Reset!RehearsedBeforeReset

\* Between the dump and the checks of the reset lie at most two windows
\* (scripts/reset_guard.py): the procedure fits around one observation of frozen writers.
ResetSoonAfterBackup == Reset!ResetSoonAfterBackup
=============================================================================
