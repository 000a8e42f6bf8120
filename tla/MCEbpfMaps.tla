----------------------------- MODULE MCEbpfMaps -----------------------------
(* The eBPF maps for TLC.  CPUs are interchangeable, but a liveness property *)
(* is checked, so no symmetry is declared.                                   *)
EXTENDS EbpfMaps
=============================================================================
