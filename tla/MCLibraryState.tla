--------------------------- MODULE MCLibraryState ---------------------------
(* Small instances of LibraryState for TLC. *)
EXTENDS LibraryState, TLC

CONSTANTS d1, d2

TwoDevices == {d1, d2}

Interchangeable == Permutations(Devices)
=============================================================================
