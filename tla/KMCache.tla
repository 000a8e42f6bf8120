------------------------------- MODULE KMCache -------------------------------
(***************************************************************************)
(* The packet cache of kernel_module/intercept-module.c: the rx handler    *)
(* rxhPacketIn stores UDP payloads in a ring of MAX_PKT slots, the proc    *)
(* file's read() collects up to PKTS_PER_BUFFER of them.  Neither takes a  *)
(* lock; a slot changes hands through its word of status[] alone.          *)
(*                                                                         *)
(* A step is one access to a shared variable, or several that no other     *)
(* context can tell apart.  A copy is two accesses, so that a half-made    *)
(* one can be seen: "head" is the half of the payload that has the uid.    *)
(* Packets are numbered in the order in which the handler is entered, so a *)
(* packet's number is also its arrival time `now'; 0 is memset's zero in a *)
(* payload and "no stamp" in the log.  Datagrams that are not IPv4, UDP,   *)
(* port 8080 (lines 206-226) leave the handler before it touches anything. *)
(***************************************************************************)
EXTENDS LogBuffs, FiniteSets

CONSTANTS
  MaxPackets,       (* bound: packets that ever reach the handler          *)
  Uid,              (* the uid each packet carries                         *)
  MAX_PKT,          (* slots in buff_from_here                             *)
  PKTS_PER_BUFFER,  (* packets in the buffer one read() returns            *)
  Cpus,             (* CPUs that run the rx handler                        *)
  Readers,          (* threads inside read() of the proc file              *)
  UserFaults        (* whether copy_to_user may fail                       *)

Packets == 1 .. MaxPackets

ASSUME CacheSizes ==
  /\ MaxPackets \in Nat
  /\ Uid \in [Packets -> Nat]
  /\ MAX_PKT \in Nat \ {0}
  /\ PKTS_PER_BUFFER \in Nat \ {0}
  /\ UserFaults \in BOOLEAN

(* common.h gives both the same value, 200. *)
GivesUpEarly == MAX_PKT - 1                                    \* a mutant
KM_FIND_BUFF_SLOT_MAX_TRY == MAX_PKT

Slots == 0 .. MAX_PKT - 1
Entries == 0 .. PKTS_PER_BUFFER - 1
AfterUnwrapped(i) == i + 1                                     \* a mutant
After(i) == (i + 1) % MAX_PKT
Blank == [head |-> 0, tail |-> 0]

VARIABLES
  status, buff_from_here, current_index,      (* the ring                  *)
  buff_temp,                                  (* shared by all of read()   *)
  count_pkt, count_pkt_overflow, log_buffs,   (* the statistics            *)
  rx,   (* locals of rxhPacketIn per CPU; full: no slot was free when the   *)
        (* search for one began (history)                                  *)
  rd,   (* locals of read() per reader; seen: slots occupied when it began  *)
        (* (history)                                                       *)
  arrived,                           (* history: packets handled so far    *)
  dropped, delivered, redelivered,   (* history: packets discarded, handed *)
                                     (* to the process, and handed again,  *)
  halved                             (* or of which it was handed a part   *)

ring == <<status, buff_from_here, current_index>>
stats == <<count_pkt, count_pkt_overflow, log_buffs>>
reading == <<buff_temp, rd, delivered, redelivered, halved>>
handling == <<rx, arrived, dropped>>
vars == <<ring, stats, reading, handling>>

Occupied == {s \in Slots : status[s] # 0}
IsFree(s) == status[s] = 0

Init ==
  /\ status = [s \in Slots |-> 0] /\ current_index = 0
  /\ buff_from_here = [s \in Slots |-> Blank]
  /\ buff_temp = [k \in Entries |-> Blank]
  /\ count_pkt = 0 /\ count_pkt_overflow = 0
  /\ log_buffs = [l \in LogCells |-> 0]
  /\ rx = [c \in Cpus |-> [pc |-> "idle", pkt |-> 0, reg |-> 0,
                           write_index |-> 0, try |-> 0, full |-> FALSE]]
  /\ rd = [r \in Readers |-> [pc |-> "idle", ci |-> 0, try |-> 0, copied_pkts |-> 0,
                              copied_index |-> [k \in Entries |-> -1],
                              clean |-> 0, seen |-> {}]]
  /\ arrived = 0 /\ dropped = {} /\ delivered = {} /\ redelivered = {}
  /\ halved = {}

-----------------------------------------------------------------------------
(* rxhPacketIn on CPU c.  Softirqs do not nest: one call per CPU at a time. *)

(* log_buffs after a packet with this uid arrived now. *)
StampedFromOne(uid, now) ==                                    \* a mutant
  IF Loggable(uid) /\ uid > 0 THEN [log_buffs EXCEPT ![LogCell(uid)] = now] ELSE log_buffs
StampedOnce(uid, now) ==                                       \* a mutant
  IF Loggable(uid) /\ log_buffs[LogCell(uid)] = 0
  THEN [log_buffs EXCEPT ![LogCell(uid)] = now] ELSE log_buffs
Stamped(uid, now) ==
  IF Loggable(uid) THEN [log_buffs EXCEPT ![LogCell(uid)] = now] ELSE log_buffs

(* A packet arrives; count_pkt is loaded for count_pkt += 1. *)
RxEnter(c) ==
  /\ rx[c].pc = "idle" /\ arrived < MaxPackets
  /\ arrived' = arrived + 1
  /\ rx' = [rx EXCEPT ![c].pc = "count", ![c].pkt = arrived + 1, ![c].reg = count_pkt]
  /\ UNCHANGED <<ring, stats, reading, dropped>>

(* count_pkt is stored, the arrival logged; the search starts at the head.  *)
RxCount(c) ==
  /\ rx[c].pc = "count"
  /\ count_pkt' = rx[c].reg + 1
  /\ log_buffs' = Stamped(Uid[rx[c].pkt], rx[c].pkt)
  /\ rx' = [rx EXCEPT ![c].pc = "probe", ![c].write_index = current_index,
                      ![c].try = 0, ![c].full = (Occupied = Slots)]
  /\ UNCHANGED <<ring, reading, count_pkt_overflow, arrived, dropped>>

RxFreeMarksFirst(c) ==                                         \* a mutant
  /\ rx[c].pc = "probe" /\ IsFree(rx[c].write_index)
  /\ status' = [status EXCEPT ![rx[c].write_index] = 1]
  /\ rx' = [rx EXCEPT ![c].pc = "head"]
  /\ UNCHANGED <<buff_from_here, current_index, stats, reading, arrived, dropped>>
RxFree(c) ==
  /\ rx[c].pc = "probe" /\ IsFree(rx[c].write_index)
  /\ rx' = [rx EXCEPT ![c].pc = "head"]
  /\ UNCHANGED <<ring, stats, reading, arrived, dropped>>

(* The slot is taken: on to the next one. *)
RxBusy(c) ==
  /\ rx[c].pc = "probe" /\ ~IsFree(rx[c].write_index)
  /\ rx[c].try + 1 < KM_FIND_BUFF_SLOT_MAX_TRY
  /\ rx' = [rx EXCEPT ![c].write_index = After(@), ![c].try = @ + 1]
  /\ UNCHANGED <<ring, stats, reading, arrived, dropped>>

(* The last one is taken too; count_pkt_overflow is loaded for its += 1.    *)
RxNoSlot(c) ==
  /\ rx[c].pc = "probe" /\ ~IsFree(rx[c].write_index)
  /\ rx[c].try + 1 = KM_FIND_BUFF_SLOT_MAX_TRY
  /\ rx' = [rx EXCEPT ![c].pc = "overflow", ![c].write_index = After(@),
                      ![c].try = @ + 1, ![c].reg = count_pkt_overflow]
  /\ UNCHANGED <<ring, stats, reading, arrived, dropped>>

RxOverflowUncounted(c) ==                                      \* a mutant
  /\ rx[c].pc = "overflow"
  /\ dropped' = dropped \cup {rx[c].pkt}
  /\ rx' = [rx EXCEPT ![c].pc = "idle"]
  /\ UNCHANGED <<ring, reading, stats, arrived>>
RxOverflow(c) ==
  /\ rx[c].pc = "overflow"
  /\ count_pkt_overflow' = rx[c].reg + 1
  /\ dropped' = dropped \cup {rx[c].pkt}
  /\ rx' = [rx EXCEPT ![c].pc = "idle"]
  /\ UNCHANGED <<ring, reading, count_pkt, log_buffs, arrived>>

RxCopyHead(c) ==
  /\ rx[c].pc = "head"
  /\ buff_from_here' = [buff_from_here EXCEPT ![rx[c].write_index].head = rx[c].pkt]
  /\ rx' = [rx EXCEPT ![c].pc = "tail"]
  /\ UNCHANGED <<stats, reading, status, current_index, arrived, dropped>>

RxCopyTail(c) ==
  /\ rx[c].pc = "tail"
  /\ buff_from_here' = [buff_from_here EXCEPT ![rx[c].write_index].tail = rx[c].pkt]
  /\ rx' = [rx EXCEPT ![c].pc = "publish"]
  /\ UNCHANGED <<stats, reading, status, current_index, arrived, dropped>>

RxPublish(c) ==
  /\ rx[c].pc = "publish"
  /\ status' = [status EXCEPT ![rx[c].write_index] = 1]
  /\ rx' = [rx EXCEPT ![c].pc = "advance"]
  /\ UNCHANGED <<stats, reading, buff_from_here, current_index, arrived, dropped>>

RxAdvance(c) ==
  /\ rx[c].pc = "advance"
  /\ current_index' = After(rx[c].write_index)
  /\ rx' = [rx EXCEPT ![c].pc = "idle"]
  /\ UNCHANGED <<stats, reading, status, buff_from_here, arrived, dropped>>

rxhPacketIn(c) ==
  \/ RxEnter(c) \/ RxCount(c) \/ RxFree(c) \/ RxBusy(c) \/ RxNoSlot(c)
  \/ RxOverflow(c) \/ RxCopyHead(c) \/ RxCopyTail(c) \/ RxPublish(c) \/ RxAdvance(c)

-----------------------------------------------------------------------------
(* read() by reader r.  A call with *off >= BUFFER_SIZE touches nothing.    *)

ReadBegin(r) ==
  /\ rd[r].pc = "idle"
  /\ buff_temp' = [k \in Entries |-> Blank]
  /\ rd' = [rd EXCEPT ![r] = [rd[r] EXCEPT
              !.pc = "scan", !.ci = current_index, !.try = 0, !.copied_pkts = 0,
              !.copied_index = [k \in Entries |-> -1], !.seen = Occupied]]
  /\ UNCHANGED <<ring, stats, handling, delivered, redelivered, halved>>

ScanningShort(r) ==                                            \* a mutant
  rd[r].copied_pkts < PKTS_PER_BUFFER /\ rd[r].try < MAX_PKT - 1
Scanning(r) == rd[r].copied_pkts < PKTS_PER_BUFFER /\ rd[r].try < MAX_PKT

ReadSkip(r) ==
  /\ rd[r].pc = "scan" /\ Scanning(r) /\ IsFree(rd[r].ci)
  /\ rd' = [rd EXCEPT ![r].ci = After(@), ![r].try = @ + 1]
  /\ UNCHANGED <<ring, stats, handling, buff_temp, delivered, redelivered, halved>>

ReadGrabHead(r) ==
  /\ rd[r].pc = "scan" /\ Scanning(r) /\ ~IsFree(rd[r].ci)
  /\ buff_temp' = [buff_temp EXCEPT
                     ![rd[r].copied_pkts].head = buff_from_here[rd[r].ci].head]
  /\ rd' = [rd EXCEPT ![r].pc = "grab"]
  /\ UNCHANGED <<ring, stats, handling, delivered, redelivered, halved>>

ReadGrabTail(r) ==
  /\ rd[r].pc = "grab"
  /\ buff_temp' = [buff_temp EXCEPT
                     ![rd[r].copied_pkts].tail = buff_from_here[rd[r].ci].tail]
  /\ LET me == rd[r]
     IN rd' = [rd EXCEPT ![r] = [me EXCEPT
              !.pc = "scan", !.ci = After(me.ci), !.try = me.try + 1,
              !.copied_pkts = me.copied_pkts + 1,
              !.copied_index = [me.copied_index EXCEPT ![me.copied_pkts] = me.ci]]]
  /\ UNCHANGED <<ring, stats, handling, delivered, redelivered, halved>>

(* What the process gets of the first n entries of buff_temp: an entry left *)
(* blank carries no packet.                                                 *)
Handed(n) == {buff_temp[k].head : k \in {j \in Entries : j < n}} \ {0}

HandOver(n) ==
  /\ delivered' = delivered \cup Handed(n)
  /\ redelivered' = redelivered \cup {p \in Handed(n) :
       \/ p \in delivered
       \/ \E j, k \in Entries : /\ j < k /\ k < n
                                /\ buff_temp[j].head = p /\ buff_temp[k].head = p}

ReadDeliver(r) ==
  /\ rd[r].pc = "scan" /\ ~Scanning(r)
  /\ HandOver(PKTS_PER_BUFFER)
  /\ rd' = [rd EXCEPT ![r].pc = "clean", ![r].clean = 0]
  /\ UNCHANGED <<ring, stats, handling, buff_temp, halved>>

(* copy_to_user stops after n entries, and perhaps after the part of the    *)
(* next that has the uid; read() keeps the slots, and reports BUFFER_SIZE   *)
(* all the same.  If it stops earlier in an entry the process does not take *)
(* that for a packet: type or created_time is 0.                            *)
Stops ==
  \E n \in Entries :
    /\ HandOver(n)
    /\ halved' \in {halved, halved \cup ({buff_temp[n].head} \ {0})}
ReadFaultCleans(r) ==                                          \* a mutant
  /\ UserFaults
  /\ rd[r].pc = "scan" /\ ~Scanning(r)
  /\ Stops
  /\ rd' = [rd EXCEPT ![r].pc = "clean", ![r].clean = 0]
  /\ UNCHANGED <<ring, stats, handling, buff_temp>>
ReadFault(r) ==
  /\ UserFaults
  /\ rd[r].pc = "scan" /\ ~Scanning(r)
  /\ Stops
  /\ rd' = [rd EXCEPT ![r].pc = "idle"]
  /\ UNCHANGED <<ring, stats, handling, buff_temp>>

(* The slot the cleanup loop of read() has reached, -1 for none. *)
CleanedNone(r) == -1                                           \* a mutant
CleanedNext(r) ==                                              \* a mutant
  IF rd[r].clean < rd[r].copied_pkts
  THEN After(rd[r].copied_index[rd[r].clean]) ELSE -1
Cleaned(r) ==
  IF rd[r].clean \in Entries THEN rd[r].copied_index[rd[r].clean] ELSE -1

ReadFreeThenWipe(r) ==                                         \* a mutant
  /\ rd[r].pc = "clean" /\ Cleaned(r) # -1
  /\ status' = [status EXCEPT ![Cleaned(r)] = 0]
  /\ rd' = [rd EXCEPT ![r].pc = "wipe"]
  /\ UNCHANGED <<buff_from_here, current_index, stats, handling, buff_temp,
                 delivered, redelivered, halved>>
ReadWipeHead(r) ==
  /\ rd[r].pc = "clean" /\ Cleaned(r) # -1
  /\ buff_from_here' = [buff_from_here EXCEPT ![Cleaned(r)].head = 0]
  /\ rd' = [rd EXCEPT ![r].pc = "wipe"]
  /\ UNCHANGED <<status, current_index, stats, handling, buff_temp, delivered, redelivered, halved>>

ReadWipeTail(r) ==
  /\ rd[r].pc = "wipe"
  /\ buff_from_here' = [buff_from_here EXCEPT ![Cleaned(r)].tail = 0]
  /\ rd' = [rd EXCEPT ![r].pc = "free"]
  /\ UNCHANGED <<status, current_index, stats, handling, buff_temp, delivered, redelivered, halved>>

ReadFree(r) ==
  /\ rd[r].pc = "free"
  /\ status' = [status EXCEPT ![Cleaned(r)] = 0]
  /\ rd' = [rd EXCEPT ![r].pc = "clean", ![r].clean = @ + 1]
  /\ UNCHANGED <<buff_from_here, current_index, stats, handling, buff_temp,
                 delivered, redelivered, halved>>

(* Entries are filled in order: the rest of the cleanup loop skips -1s.     *)
ReadReturn(r) ==
  /\ rd[r].pc = "clean" /\ Cleaned(r) = -1
  /\ rd' = [rd EXCEPT ![r].pc = "idle"]
  /\ UNCHANGED <<ring, stats, handling, buff_temp, delivered, redelivered, halved>>

read(r) ==
  \/ ReadBegin(r) \/ ReadSkip(r) \/ ReadGrabHead(r) \/ ReadGrabTail(r)
  \/ ReadDeliver(r) \/ ReadFault(r)
  \/ ReadWipeHead(r) \/ ReadWipeTail(r) \/ ReadFree(r) \/ ReadReturn(r)

Next == (\E c \in Cpus : rxhPacketIn(c)) \/ (\E r \in Readers : read(r))

Spec == Init /\ [][Next]_vars

(* A softirq runs to its end and the process polls read() in a loop; that   *)
(* another packet arrives is not promised.                                  *)
FairSpec ==
  /\ Spec
  /\ \A c \in Cpus : WF_vars(rx[c].pc # "idle" /\ rxhPacketIn(c))
  /\ \A r \in Readers : WF_vars(read(r))
=============================================================================
