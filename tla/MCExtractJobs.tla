--------------------------- MODULE MCExtractJobs ---------------------------
(***************************************************************************)
(* Small instances of ExtractJobs for TLC.                                   *)
(***************************************************************************)
EXTENDS ExtractJobsPromises

CONSTANTS u1, u2, v1, v2, d1, h1, h2, w1, w2

OneUser == {u1}
TwoUsers == {u1, u2}
OneUrl == {v1}
TwoUrls == {v1, v2}
NothingKnown == {}
SecondKnown == {v2}
NoDeliveries == {}
OneDelivery == {d1}
OneHandler == {h1}
TwoHandlers == {h1, h2}
OneWorker == {w1}
TwoWorkers == {w1, w2}

=============================================================================
