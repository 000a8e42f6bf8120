--------------------------- MODULE XskFramesSafety ---------------------------
(***************************************************************************)
(* What the frame exchange and the logs of the XDP measurement promise.    *)
(***************************************************************************)
EXTENDS XskFrames

(* The entries of rx whose frames the process has not freed yet.            *)
Unfreed == IF user.pc = "process" THEN user.i + 1 .. Len(rx) ELSE 1 .. Len(rx)

Places(frame) ==
  Cardinality({k \in DOMAIN fq : fq[k] = frame})
    + Cardinality({k \in Unfreed : rx[k].addr = frame})
    + Cardinality({k \in DOMAIN umem_frame_addr : umem_frame_addr[k] = frame})
    + (IF frame \in held THEN 1 ELSE 0)

(* No frame is lost, and none is in two places: the kernel never receives   *)
(* into a frame the process still reads, though each side moves frames on   *)
(* its own and sees the other's index late (lines 375-411).  Nor can the    *)
(* free stack overflow, as line 181 asserts.                                *)
FrameInOnePlace == \A frame \in Frames : Places(frame) = 1

(* What is in the fill ring are frames, never INVALID_UMEM_FRAME, as long   *)
(* as the kernel keeps no frame between the rings: then the free stack has  *)
(* always enough for the free entries of the ring (lines 380-398).          *)
OnlyFramesPosted == HELD = 0 => \A k \in DOMAIN fq : fq[k] \in Frames

(* "Stuff the ring with as much frames as possible" (line 379), of which    *)
(* "we assume we have enough" (line 229), whatever the kernel keeps.        *)
AlwaysEnough == \A k \in DOMAIN fq : fq[k] \in Frames

(* The process restocks the fill ring only when it has received something.  *)
(* So when it has nothing to receive the kernel must still have a frame, or *)
(* the socket would be deaf for ever.                                       *)
NeverDeaf ==
  user.pc = "peek" /\ rx = <<>> =>
    held # {} \/ \E k \in DOMAIN fq : fq[k] \in Frames

(* The program's counter and the process's total, which the statistics      *)
(* thread prints, agree: each packet counted by the program was received    *)
(* once, waits in the ring, was dropped for lack of a frame or of room, or  *)
(* belonged to another queue.                                               *)
CountsAgree ==
  user.pc = "peek" /\ pkt = 0 =>
    xdp_stats_map = rx_packets + Len(rx) + rx_dropped + passed

(* No two packets carry the same uid.                                       *)
UidsDiffer == \A p, q \in Packets : Uid[p] = Uid[q] => p = q

(* A stamp of the process has an earlier one of the kernel, so the two logs *)
(* never give a negative latency (without duplicates).                      *)
KernelStampedFirst ==
  \A u \in LogUids : log_time_stamps[u] # 0 =>
    uid_timestamps[u] # 0 /\ (UidsDiffer => uid_timestamps[u] < log_time_stamps[u])

(* And so do the exported files, although uid_timestamps is exported while  *)
(* the program still runs.                                                  *)
FilesAgree ==
  user.pc = "detached" =>
    \A u \in LogUids : file_us[u] # 0 =>
      file_kern[u] # 0 /\ (UidsDiffer => file_kern[u] < file_us[u])

(* Every packet in the receive ring is taken out of it, unless the process  *)
(* is told to stop.                                                         *)
EventuallyReceived ==
  \A n \in Packets : redirected >= n ~> (rx_packets >= n \/ global_exit)

-----------------------------------------------------------------------------
(* Why it holds: the inductive invariants the proofs rest on.               *)

Valid(s) == \A k \in 1 .. Len(s) : s[k] \in Frames

XskType ==
  /\ setting \in Settings
  /\ uid_timestamps \in [Keys -> Nat] /\ xdp_stats_map \in Nat
  /\ arrivals \in 0 .. MaxPackets /\ pkt \in 0 .. arrivals
  /\ fq \in Seq(Frames \cup {INVALID_UMEM_FRAME}) /\ Len(fq) <= FQ_SIZE
  /\ rx \in Seq([addr : Frames, pkt : 1 .. arrivals]) /\ Len(rx) <= RX_SIZE
  /\ held \subseteq Frames /\ umem_frame_addr \in Seq(Frames)
  /\ fq_free = 0 /\ rx_known \in Nat
  /\ user \in [pc : {"peek", "stock", "process", "export", "detached"},
               rcvd : Nat, i : Nat]
  /\ global_exit \in BOOLEAN
  /\ log_time_stamps \in [LogUids -> Nat]
  /\ file_us \in [LogUids -> Nat] /\ file_kern \in [LogUids -> Nat]
  /\ {clock, rx_packets, redirected, rx_dropped, passed} \subseteq Nat

(* What the process peeked and what it knows of is in rx: only it releases. *)
InBatch == user.pc \in {"stock", "process"}
BatchInv ==
  /\ rx_known + (IF InBatch THEN user.rcvd ELSE 0) <= Len(rx)
  /\ user.pc = "stock" => user.i = 0
  /\ user.pc = "process" => user.i <= user.rcvd
  /\ user.pc = "export" => user.i <= MAX_LOG_ENTRY

CountInv ==
  xdp_stats_map = rx_packets + Len(rx) + rx_dropped + passed + (IF pkt = 0 THEN 0 ELSE 1)

(* If the kernel keeps nothing, what is not in fq or rx is on the stack:    *)
(* NUM_FRAMES >= FQ_SIZE + RX_SIZE makes that enough for the free entries.  *)
EnoughInv ==
  HELD = 0 =>
    /\ held = {} /\ Valid(fq)
    /\ Len(fq) + Len(umem_frame_addr) + Len(rx)
         = NUM_FRAMES + (IF user.pc = "process" THEN user.i ELSE 0)

Posted == {fq[k] : k \in 1 .. Len(fq)} \cap Frames
Received == {rx[k].addr : k \in Unfreed}
Free == {umem_frame_addr[k] : k \in 1 .. Len(umem_frame_addr)}

Apart(H, P, R, F) ==
  /\ H \cup P \cup R \cup F = Frames
  /\ H \cap P = {} /\ H \cap R = {} /\ H \cap F = {}
  /\ P \cap R = {} /\ P \cap F = {} /\ R \cap F = {}
OncePosted == \A j, k \in 1 .. Len(fq) : fq[j] = fq[k] /\ fq[j] \in Frames => j = k
OnceReceived == \A j, k \in Unfreed : rx[j].addr = rx[k].addr => j = k
OnceFree ==
  \A j, k \in 1 .. Len(umem_frame_addr) : umem_frame_addr[j] = umem_frame_addr[k] => j = k

PlacesInv ==
  Apart(held, Posted, Received, Free) /\ OncePosted /\ OnceReceived /\ OnceFree

(* A ring that is full of entries has a frame among them: INVALID addresses *)
(* are posted only behind a frame.  So there is room whenever the process   *)
(* has the last frames, and it posts one of them before it frees the rest.  *)
DeafInv ==
  /\ Len(fq) = FQ_SIZE => Posted # {}
  /\ (user.pc = "peek" /\ rx = <<>>) \/ (user.pc = "process" /\ Len(rx) = user.rcvd)
       => held # {} \/ Posted # {}

StampedBy(uid) == \E p \in 1 .. arrivals : Uid[p] = uid

(* Only packets with a stamp are on their way, and with different uids none *)
(* is stamped twice.                                                        *)
LogInv ==
  /\ \A u \in Keys : uid_timestamps[u] <= clock /\ (uid_timestamps[u] # 0 => StampedBy(u))
  /\ pkt # 0 => Uid[pkt] \in Keys /\ uid_timestamps[Uid[pkt]] # 0
  /\ \A k \in 1 .. Len(rx) :
       Uid[rx[k].pkt] \in Keys /\ uid_timestamps[Uid[rx[k].pkt]] # 0
  /\ KernelStampedFirst

ExportInv ==
  user.pc \in {"export", "detached"} =>
    \A u \in LogUids :
      /\ file_us[u] = log_time_stamps[u]
      /\ (u < user.i \/ user.pc = "detached") /\ file_us[u] # 0 =>
           file_kern[u] # 0 /\ (UidsDiffer => file_kern[u] < file_us[u])
=============================================================================
