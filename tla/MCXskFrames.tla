---------------------------- MODULE MCXskFrames ----------------------------
(* The XDP measurement for TLC: the kernel keeps no frame and the uids are  *)
(* in order and go beyond the maps' last key, or it keeps one and the uids  *)
(* repeat.                                                                  *)
EXTENDS XskFramesSafety

MCCopies == [held |-> 0, uid |-> [p \in Packets |-> p - 1]]
MCKeeps == [held |-> 1, uid |-> [p \in Packets |-> p % 3]]
MCBoth == {MCCopies, MCKeeps}
MCKept == {MCKeeps}
=============================================================================
