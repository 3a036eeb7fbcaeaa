--------------------------- MODULE MCTranslationJobs ---------------------------
(* Small instances of TranslationJobs for TLC. *)
EXTENDS TranslationJobs, TLC

CONSTANTS u1, u2, r1, r2, t1, t2, english, spanish

TwoUsers == {u1, u2}
OneUser == {u1}
TwoLanguages == {english, spanish}
OneRequest == {r1}
TwoRequests == {r1, r2}
TwoTasks == {t1, t2}
Interchangeable == Permutations(Users) \cup Permutations(Requests) \cup Permutations(Tasks)
=============================================================================
