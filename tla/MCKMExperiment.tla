--------------------------- MODULE MCKMExperiment ---------------------------
(* The experiment for TLC: two uids that are logged, and the one that the   *)
(* client sends beyond them.                                                *)
EXTENDS KMExperimentSafety
=============================================================================
