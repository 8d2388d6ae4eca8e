------------------------- MODULE MCDownloadScheduler --------------------------
(* Instances of DownloadScheduler for TLC.                                       *)
EXTENDS DownloadScheduler, TLC

CONSTANTS k1, h1, w1, w2

OneKey     == {k1}
OneRequest == {h1}
NoRequests == {}
TwoWorkers == {w1, w2}
OneWorker  == {w1}
=============================================================================
