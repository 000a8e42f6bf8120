------------------------------ MODULE XskFrames ------------------------------
(***************************************************************************)
(* The XDP measurement: the XDP program of xdp_measure_kern.c stamps a     *)
(* packet and redirects it to an AF_XDP socket; xdp_measure_user.c takes   *)
(* it from the socket's receive ring, stamps it in its own log and gives   *)
(* its frame back.  The process and the kernel share NUM_FRAMES frames and *)
(* pass them round through two single-producer single-consumer rings: the  *)
(* fill ring (process to kernel) and the receive ring (kernel to process). *)
(*                                                                         *)
(* A ring is the sequence of its entries between the consumer and the      *)
(* producer index; what one side knows of the other's index is a count of  *)
(* its own (fq_free, rx_known) that it refreshes only when it runs out, as *)
(* the accessors of xsk.h do.  Nothing is ever transmitted (the branch at  *)
(* line 317 is if (false)), so complete_tx returns at its first test.      *)
(***************************************************************************)
EXTENDS Integers, FiniteSets, Sequences

CONSTANTS
  NUM_FRAMES, RX_BATCH_SIZE, MAX_LOG_ENTRY,
  FQ_SIZE,      (* XSK_RING_PROD__DEFAULT_NUM_DESCS, 2048 *)
  RX_SIZE,      (* XSK_RING_CONS__DEFAULT_NUM_DESCS, 2048 *)
  MaxPackets,   (* bound: packets for the port that reach the program      *)
  Settings      (* what a run may begin with: held, the frames the kernel  *)
                (* may keep between the two rings (the driver's in         *)
                (* zero-copy mode, or one whose packet found rx full; 0 if *)
                (* one is taken only for a packet with room), and uid, the *)
                (* uid that each packet carries                            *)

Packets == 1 .. MaxPackets
Frames == 0 .. NUM_FRAMES - 1
INVALID_UMEM_FRAME == -1
LogUids == 0 .. MAX_LOG_ENTRY - 1
Keys == 0 .. MAX_LOG_ENTRY         (* uid_timestamps has 1+MAX_LOG_ENTRY entries *)

ASSUME XskSizes ==
  /\ MaxPackets \in Nat /\ MAX_LOG_ENTRY \in Nat \ {0}
  /\ {FQ_SIZE, RX_SIZE, RX_BATCH_SIZE} \subseteq Nat \ {0}
  /\ NUM_FRAMES \in Nat /\ NUM_FRAMES >= FQ_SIZE + RX_SIZE
  /\ Settings \subseteq [held : Nat, uid : [Packets -> Nat]]

VARIABLES
  setting,                           (* never changes: one of Settings    *)
  uid_timestamps, xdp_stats_map,     (* the maps                           *)
  pkt,          (* the packet between the program and the socket, or 0     *)
  fq, rx,       (* the rings; an entry of rx is a frame and its packet     *)
  held,         (* the frames the driver keeps                             *)
  umem_frame_addr,                   (* the stack of free frames           *)
  fq_free,      (* free entries of fq that the process knows of            *)
  rx_known,     (* entries of rx that it knows of and has not peeked       *)
  user,         (* its locals: pc, rcvd, i                                 *)
  global_exit, rx_packets, log_time_stamps, file_us, file_kern,
  clock,
  arrivals, redirected, rx_dropped, passed   (* history *)

Uid == setting.uid
HELD == setting.held

maps == <<setting, uid_timestamps, xdp_stats_map>>
socket == <<fq, rx, held>>
local == <<umem_frame_addr, fq_free, rx_known, user>>
logs == <<rx_packets, log_time_stamps, file_us, file_kern>>
history == <<arrivals, redirected, rx_dropped, passed>>
vars == <<maps, pkt, socket, local, global_exit, logs, clock, history>>

-----------------------------------------------------------------------------
(* The stack of free frames, and what n calls of xsk_alloc_umem_frame give: *)
(* INVALID_UMEM_FRAME once it is empty.                                     *)
Lesser(m, n) == IF m < n THEN m ELSE n

Allocated(stack, n) ==
  [k \in 1 .. n |-> IF k <= Len(stack) THEN stack[Len(stack) - k + 1]
                    ELSE INVALID_UMEM_FRAME]
KeepsLast(stack, n) ==                                         \* a mutant
  SubSeq(stack, 1, Len(stack) - Lesser(n, Len(stack)) + (IF n > 1 THEN 1 ELSE 0))
AfterAlloc(stack, n) == SubSeq(stack, 1, Len(stack) - Lesser(n, Len(stack)))

xsk_free_umem_frame(stack, frame) == Append(stack, frame)

AllFrames == [k \in 1 .. NUM_FRAMES |-> k - 1]

(* xsk_configure_socket: all frames are free, then the fill ring is filled. *)
Init ==
  /\ setting \in Settings
  /\ uid_timestamps = [k \in Keys |-> 0] /\ xdp_stats_map = 0
  /\ pkt = 0 /\ rx = <<>> /\ held = {}
  /\ fq = Allocated(AllFrames, FQ_SIZE)
  /\ umem_frame_addr = AfterAlloc(AllFrames, FQ_SIZE)
  /\ fq_free = 0 /\ rx_known = 0
  /\ user = [pc |-> "peek", rcvd |-> 0, i |-> 0]
  /\ global_exit = FALSE /\ rx_packets = 0
  /\ log_time_stamps = [u \in LogUids |-> 0]
  /\ file_us = [u \in LogUids |-> 0] /\ file_kern = [u \in LogUids |-> 0]
  /\ clock = 0
  /\ arrivals = 0 /\ redirected = 0 /\ rx_dropped = 0 /\ passed = 0

-----------------------------------------------------------------------------
(* The kernel.  One queue is bound to the socket; a packet of another queue *)
(* is stamped and counted too, and passed on (XDP_PASS).  Programs run one  *)
(* at a time here: what they share is one word per uid, and counters that   *)
(* are per CPU.                                                             *)

Attached == user.pc # "detached"

(* A uid beyond the map's last key: neither stamped nor counted.            *)
ProgPassesUnknown ==
  /\ Attached /\ pkt = 0 /\ arrivals < MaxPackets /\ Uid[arrivals + 1] \notin Keys
  /\ arrivals' = arrivals + 1
  /\ UNCHANGED <<maps, pkt, socket, local, global_exit, logs, clock,
                 redirected, rx_dropped, passed>>

ProgStampsOnlyFirst ==                                         \* a mutant
  /\ Attached /\ pkt = 0 /\ arrivals < MaxPackets /\ Uid[arrivals + 1] \in Keys
  /\ arrivals' = arrivals + 1
  /\ uid_timestamps' = IF Uid[arrivals + 1] = 0 THEN uid_timestamps
                       ELSE [uid_timestamps EXCEPT ![Uid[arrivals + 1]] = clock + 1]
  /\ clock' = clock + 1
  /\ xdp_stats_map' = xdp_stats_map + 1
  /\ pkt' = arrivals + 1
  /\ UNCHANGED <<setting, socket, local, global_exit, logs, redirected, rx_dropped, passed>>
xdp_sock_prog ==
  /\ Attached /\ pkt = 0 /\ arrivals < MaxPackets /\ Uid[arrivals + 1] \in Keys
  /\ arrivals' = arrivals + 1
  /\ uid_timestamps' = [uid_timestamps EXCEPT ![Uid[arrivals + 1]] = clock + 1]
  /\ clock' = clock + 1
  /\ xdp_stats_map' = xdp_stats_map + 1
  /\ pkt' = arrivals + 1
  /\ UNCHANGED <<setting, socket, local, global_exit, logs, redirected, rx_dropped, passed>>

OtherQueue ==
  /\ pkt # 0 /\ pkt' = 0 /\ passed' = passed + 1
  /\ UNCHANGED <<maps, socket, local, global_exit, logs, clock,
                 arrivals, redirected, rx_dropped>>

(* The kernel takes a frame ahead of the packet it will hold.               *)
DriverTakes ==
  /\ Cardinality(held) < HELD /\ fq # <<>> /\ Head(fq) \in Frames
  /\ held' = held \cup {Head(fq)} /\ fq' = Tail(fq)
  /\ UNCHANGED <<maps, pkt, rx, local, global_exit, logs, clock, history>>

(* The kernel counts an invalid address of the fill ring and skips it.      *)
SkipInvalid ==
  /\ fq # <<>> /\ Head(fq) \notin Frames
  /\ fq' = Tail(fq)
  /\ UNCHANGED <<maps, pkt, rx, held, local, global_exit, logs, clock, history>>

Redirect(frame) ==
  /\ pkt # 0 /\ Len(rx) < RX_SIZE
  /\ rx' = Append(rx, [addr |-> frame, pkt |-> pkt])
  /\ pkt' = 0 /\ redirected' = redirected + 1
  /\ UNCHANGED <<maps, local, global_exit, logs, clock, arrivals, rx_dropped, passed>>

RedirectCopied ==
  /\ HELD = 0 /\ fq # <<>> /\ Head(fq) \in Frames
  /\ Redirect(Head(fq)) /\ fq' = Tail(fq) /\ UNCHANGED held
RedirectHeld ==
  \E frame \in held : Redirect(frame) /\ held' = held \ {frame} /\ UNCHANGED fq

(* No frame, or no room in rx: the packet is lost.                          *)
RedirectFails ==
  /\ pkt # 0 /\ pkt' = 0
  /\ Len(rx) = RX_SIZE \/ (held = {} /\ fq = <<>>)
  /\ rx_dropped' = rx_dropped + 1
  /\ UNCHANGED <<maps, socket, local, global_exit, logs, clock,
                 arrivals, redirected, passed>>

kernel ==
  \/ ProgPassesUnknown \/ xdp_sock_prog \/ OtherQueue \/ DriverTakes \/ SkipInvalid
  \/ RedirectCopied \/ RedirectHeld \/ RedirectFails

-----------------------------------------------------------------------------
(* The process. *)

exit_application ==
  /\ ~global_exit /\ global_exit' = TRUE
  /\ UNCHANGED <<maps, pkt, socket, local, logs, clock, history>>

(* xsk_ring_cons__peek: refreshed only when nothing is known.               *)
NeverRefreshed == rx_known                                     \* a mutant
Avail == IF rx_known = 0 THEN Len(rx) ELSE rx_known

Peek ==
  /\ user.pc = "peek" /\ ~global_exit /\ Avail > 0
  /\ LET rcvd == Lesser(Avail, RX_BATCH_SIZE)
     IN /\ rx_known' = Avail - rcvd
        /\ user' = [pc |-> "stock", rcvd |-> rcvd, i |-> 0]
  /\ UNCHANGED <<maps, pkt, socket, umem_frame_addr, fq_free, global_exit, logs, clock,
                 history>>

(* xsk_prod_nb_free(fq, nb): refreshed only if fewer than nb are known.     *)
WholeRing(nb) == IF fq_free >= nb THEN fq_free ELSE FQ_SIZE    \* a mutant
xsk_prod_nb_free(nb) == IF fq_free >= nb THEN fq_free ELSE FQ_SIZE - Len(fq)

(* As many entries as the ring has room for are filled: there is no test    *)
(* that so many frames are free.                                            *)
StocksLazily == LET n == xsk_prod_nb_free(Len(umem_frame_addr)) \* a mutant
                IN IF n > RX_BATCH_SIZE THEN n ELSE 0
stock_frames == xsk_prod_nb_free(Len(umem_frame_addr))

Restock ==
  /\ user.pc = "stock"
  /\ fq' = fq \o Allocated(umem_frame_addr, stock_frames)
  /\ umem_frame_addr' = AfterAlloc(umem_frame_addr, stock_frames)
  /\ fq_free' = xsk_prod_nb_free(Len(umem_frame_addr)) - stock_frames
  /\ user' = [user EXCEPT !.pc = "process"]
  /\ UNCHANGED <<maps, pkt, rx, held, rx_known, global_exit, logs, clock, history>>

(* process_packet never keeps the frame: it is freed at once.               *)
process_packet ==
  /\ user.pc = "process" /\ user.i < user.rcvd
  /\ LET desc == rx[user.i + 1]
         uid == Uid[desc.pkt]
     IN /\ log_time_stamps' = IF uid < MAX_LOG_ENTRY
                              THEN [log_time_stamps EXCEPT ![uid] = clock + 1]
                              ELSE log_time_stamps
        /\ umem_frame_addr' = xsk_free_umem_frame(umem_frame_addr, desc.addr)
  /\ clock' = clock + 1
  /\ user' = [user EXCEPT !.i = @ + 1]
  /\ UNCHANGED <<maps, pkt, socket, fq_free, rx_known, global_exit, rx_packets,
                 file_us, file_kern, history>>

ReleasesBatch ==                                               \* a mutant
  /\ user.pc = "process" /\ user.i = user.rcvd
  /\ rx' = SubSeq(rx, user.rcvd + 1, Len(rx))
  /\ rx_packets' = rx_packets + RX_BATCH_SIZE
  /\ user' = [user EXCEPT !.pc = "peek"]
  /\ UNCHANGED <<maps, pkt, fq, held, umem_frame_addr, fq_free, rx_known, global_exit,
                 log_time_stamps, file_us, file_kern, clock, history>>
Release ==
  /\ user.pc = "process" /\ user.i = user.rcvd
  /\ rx' = SubSeq(rx, user.rcvd + 1, Len(rx))
  /\ rx_packets' = rx_packets + user.rcvd
  /\ user' = [user EXCEPT !.pc = "peek"]
  /\ UNCHANGED <<maps, pkt, fq, held, umem_frame_addr, fq_free, rx_known, global_exit,
                 log_time_stamps, file_us, file_kern, clock, history>>

handle_receive_packets == Peek \/ Restock \/ process_packet \/ Release

ExportUser ==
  /\ user.pc = "peek" /\ global_exit
  /\ file_us' = log_time_stamps
  /\ user' = [user EXCEPT !.pc = "export", !.i = 0]
  /\ UNCHANGED <<maps, pkt, socket, umem_frame_addr, fq_free, rx_known, global_exit,
                 rx_packets, log_time_stamps, file_kern, clock, history>>

ExportedTo == MAX_LOG_ENTRY - 1                                \* a mutant
Exported == MAX_LOG_ENTRY
ExportKern ==
  /\ user.pc = "export" /\ user.i < Exported
  /\ file_kern' = [file_kern EXCEPT ![user.i] = uid_timestamps[user.i]]
  /\ user' = [user EXCEPT !.i = @ + 1]
  /\ UNCHANGED <<maps, pkt, socket, umem_frame_addr, fq_free, rx_known, global_exit,
                 rx_packets, log_time_stamps, file_us, clock, history>>

Detach ==
  /\ user.pc = "export" /\ user.i = Exported
  /\ user' = [user EXCEPT !.pc = "detached"]
  /\ UNCHANGED <<maps, pkt, socket, umem_frame_addr, fq_free, rx_known, global_exit,
                 logs, clock, history>>

main == handle_receive_packets \/ ExportUser \/ ExportKern \/ Detach

Next == kernel \/ exit_application \/ main

Spec == Init /\ [][Next]_vars

(* The process is scheduled; that packets arrive is not promised.           *)
FairSpec == Spec /\ WF_vars(main)
=============================================================================
