----------------------------- MODULE LibraryLog -----------------------------
(***************************************************************************)
(* What GET and PUT /v1/me/library-state promise to the devices of an       *)
(* account: while the account is open its personal library is one growing   *)
(* log of snapshots, a save extends the log only from its end, and closing  *)
(* the account forgets the log.                                             *)
(***************************************************************************)
EXTENDS Sequences

CONSTANT Snapshots

VARIABLES
  log,   \* snapshots accepted since the account was opened, oldest first
  open   \* the account is open

vars == <<log, open>>

Init == log = << >> /\ open = TRUE

Save == open /\ open' = open /\ \E s \in Snapshots : log' = Append(log, s)
Close == open' = FALSE /\ log' = << >>
Reopen == ~open /\ open' = TRUE /\ log' = log

Next == Save \/ Close \/ Reopen
Spec == Init /\ [][Next]_vars
=============================================================================
