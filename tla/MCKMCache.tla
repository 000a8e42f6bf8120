------------------------------ MODULE MCKMCache ------------------------------
EXTENDS KMCacheSafety, Sequences

(* Uids as they come off the network: out of order, one beyond the log, and *)
(* one datagram duplicated.                                                 *)
MCUid == [p \in Packets |-> <<1, 0, 2, 1, 3, 0>>[p]]
=============================================================================
