------------------------------ MODULE MCScanJobs ------------------------------
(* An instance of ScanJobs for TLC.                                            *)
EXTENDS ScanJobs

CONSTANTS h1, h2
TwoRequests == {h1, h2}
=============================================================================
