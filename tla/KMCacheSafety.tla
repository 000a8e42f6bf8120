---------------------------- MODULE KMCacheSafety ----------------------------
(***************************************************************************)
(* What the packet cache must guarantee.  The module has no lock, so most  *)
(* of it depends on how many contexts run: one CPU takes the interrupts of *)
(* the (single-queue) device and one process polls the file in the setup   *)
(* the repository describes; the runs with more show what is then lost.    *)
(***************************************************************************)
EXTENDS KMCache

OrZero(S) == S \cup {0}
Cells == [head : OrZero(Packets), tail : OrZero(Packets)]

TypeRing ==
  /\ status \in [Slots -> {0, 1}]
  /\ buff_from_here \in [Slots -> Cells]
  /\ current_index \in Slots

TypeStats ==
  /\ count_pkt \in Nat /\ count_pkt_overflow \in Nat
  /\ log_buffs \in [LogCells -> OrZero(Packets)]

RxState == [pc : {"idle", "count", "probe", "overflow", "head", "tail", "publish", "advance"},
            pkt : OrZero(Packets), reg : Nat, write_index : Slots, try : 0 .. MAX_PKT,
            full : BOOLEAN]

TypeRx ==
  /\ rx \in [Cpus -> RxState]
  /\ \A c \in Cpus : /\ rx[c].pc # "idle" => rx[c].pkt \in Packets
                     /\ rx[c].pc = "probe" => rx[c].try < MAX_PKT

RdState == [pc : {"idle", "scan", "grab", "clean", "wipe", "free"},
            ci : Slots, try : 0 .. MAX_PKT, copied_pkts : 0 .. PKTS_PER_BUFFER,
            copied_index : [Entries -> Slots \cup {-1}],
            clean : 0 .. PKTS_PER_BUFFER, seen : SUBSET Slots]

TypeRd ==
  /\ rd \in [Readers -> RdState]
  /\ \A r \in Readers : /\ rd[r].pc = "grab" => Scanning(r)
                        /\ rd[r].pc \in {"wipe", "free"} => Cleaned(r) # -1

TypeHistory ==
  /\ buff_temp \in [Entries -> Cells]
  /\ arrived \in 0 .. MaxPackets
  /\ dropped \subseteq Packets /\ delivered \subseteq Packets
  /\ redelivered \subseteq Packets /\ halved \subseteq Packets

TypeOK == TypeRing /\ TypeStats /\ TypeRx /\ TypeRd /\ TypeHistory

-----------------------------------------------------------------------------
OneCpu == \A c, d \in Cpus : c = d
OneReader == \A q, r \in Readers : q = r

Whole(p) == [head |-> p, tail |-> p]

(* Packet p can be read: some slot published as occupied holds all of it.   *)
Cached(p) == \E s \in Occupied : buff_from_here[s] = Whole(p)

(* Packet p is being handled and its fate is still open. *)
InHandler(p) == \E c \in Cpus : rx[c].pkt = p /\ rx[c].pc \notin {"idle", "advance"}

(* A packet the handler has taken is not lost without a trace: until it is  *)
(* handed to the process it is whole in an occupied slot, or the handler    *)
(* found no slot for it and counted it in count_pkt_overflow, as the        *)
(* comment at line 259 has it.                                              *)
NoSilentLoss ==
  \A p \in 1 .. arrived : InHandler(p) \/ Cached(p) \/ p \in dropped \cup delivered

(* No packet is handed to the process twice, and never a discarded one: a   *)
(* slot is wiped and freed after its packet was copied out and before the   *)
(* next read() looks at it.                                                 *)
AtMostOnce == redelivered = {} /\ delivered \cap dropped = {}

(* What read() gives to copy_to_user is made of whole packets and blanks: a *)
(* slot is never copied out while the handler is copying into it.  If       *)
(* copy_to_user stops inside an entry the process has half of it and is not *)
(* told; the packet then stays whole in its slot, for a later read(), until *)
(* the process has received all of it.                                      *)
NoTornDelivery ==
  /\ \A r \in Readers : rd[r].pc = "scan" =>
       \A k \in Entries : buff_temp[k].head = buff_temp[k].tail
  /\ \A p \in halved : Cached(p) \/ p \in delivered

(* The handler discards a packet only if all MAX_PKT slots were occupied    *)
(* when its search began, although the reader frees slots behind its back.  *)
DropOnlyWhenFull == \A c \in Cpus : rx[c].pc = "overflow" => rx[c].full

Copied(r) == {rd[r].copied_index[k] : k \in Entries} \ {-1}

(* A read() that returns fewer packets than fit has every packet that was   *)
(* in the cache when it began, wherever in the ring its scan started.       *)
ShortReadComplete ==
  \A r \in Readers :
    (rd[r].pc = "scan" /\ ~Scanning(r) /\ rd[r].copied_pkts < PKTS_PER_BUFFER)
      => rd[r].seen \subseteq Copied(r)

(* The numbers the module prints when it is unloaded add up: every packet   *)
(* counted is in the overflow count, in a slot, or with the process.        *)
CountersAddUp ==
  ( /\ \A c \in Cpus : rx[c].pc = "idle"
    /\ \A r \in Readers : rd[r].pc \notin {"clean", "wipe", "free"} )
  => count_pkt = count_pkt_overflow + Cardinality(Occupied) + Cardinality(delivered)

(* The cell of p's uid has the arrival time of a packet with that uid: p's  *)
(* own, unless the uid comes more than once.  Then the last to be handled   *)
(* stays, which with one CPU is p or a later one.                           *)
HasStamp(p) ==
  Loggable(Uid[p]) => LET stamp == log_buffs[LogCell(Uid[p])]
                      IN /\ stamp # 0 /\ Uid[stamp] = Uid[p]
                         /\ OneCpu => stamp >= p

(* A packet the process has received, even the half of it that has the uid, *)
(* has its stamp in the log before: the user-space log never has an entry   *)
(* that the kernel's log lacks, nor, with one CPU, one for a packet younger *)
(* than the kernel's stamp.                                                 *)
DeliveredIsStamped == \A p \in delivered \cup halved : HasStamp(p)

(* A slot is freed only after the packet in it reached the process: "Copy   *)
(* success. Clean up the KM bufffer slot(s)" (line 145).                    *)
FreedIsDelivered ==
  [][\A s \in Slots : buff_from_here[s].head # 0 /\ buff_from_here'[s].head = 0
       => buff_from_here[s].head \in delivered]_vars

(* Every packet that arrives is in the end discarded for lack of room or    *)
(* handed to the polling process.                                           *)
EventuallySettled ==
  \A p \in Packets : arrived >= p ~> p \in dropped \cup delivered

-----------------------------------------------------------------------------
(* One CPU and one reader: the cache is a PacketStore.  A packet leaves     *)
(* "stored" when copy_to_user returns, its room is free when status[] is 0. *)
Returned(r) == rd[r].pc \in {"clean", "wipe", "free"}

(* The entries of buff_temp whose slots the reader has still to free.       *)
Kept(r) == {k \in Entries : Returned(r) /\ k >= rd[r].clean /\ rd[r].copied_index[k] # -1}
Releasing == {buff_temp[k].head : k \in UNION {Kept(r) : r \in Readers}}
Arriving == {p \in Packets : InHandler(p)}
Roomless ==
  \E c \in Cpus : rx[c].full /\ rx[c].pc \in {"probe", "head", "tail", "publish", "overflow"}
Stored == {p \in Packets : Cached(p)} \ Releasing
Collecting(r) == rd[r].pc \in {"scan", "grab"}
Phase == IF \E r \in Readers : Returned(r) THEN "release"
         ELSE IF \E r \in Readers : Collecting(r) THEN "scan"
         ELSE "no"
Promised ==
  {buff_from_here[s].head : s \in UNION {rd[r].seen : r \in {q \in Readers : Collecting(q)}}}

Store == INSTANCE PacketStore WITH
  Arrivals  <- Packets,
  Capacity  <- MAX_PKT,
  BatchSize <- PKTS_PER_BUFFER,
  arriving  <- Arriving,
  roomless  <- Roomless,
  stored    <- Stored,
  releasing <- Releasing,
  reading   <- Phase,
  promised  <- Promised

(* The cache implements the abstract store. *)
ImplementsStore == Store!Spec

-----------------------------------------------------------------------------
(* Why it holds: the inductive invariants the proofs rest on.               *)

(* How many steps ago a scan that goes round the ring and stands at i was   *)
(* at s: a scan of n steps has passed the slots with Back(s, i) <= n.       *)
Back(s, i) == IF s < i THEN i - s ELSE i - s + MAX_PKT

(* A search that began with a free slot still has that slot before it.      *)
ProbeInv ==
  \A c \in Cpus :
    /\ rx[c].pc = "overflow" => rx[c].full
    /\ rx[c].pc = "probe" /\ ~rx[c].full =>
         \E s \in Slots : IsFree(s) /\ Back(s, rx[c].write_index) > rx[c].try

(* A slot occupied when read() began stays so until its packet is copied,   *)
(* and no such slot is behind the scan without having been copied.          *)
ScanInv ==
  \A r \in Readers : rd[r].pc \in {"scan", "grab"} =>
    /\ rd[r].seen \subseteq Occupied
    /\ \A s \in rd[r].seen : Back(s, rd[r].ci) <= rd[r].try => s \in Copied(r)
    /\ \A k \in Entries : k >= rd[r].copied_pkts => rd[r].copied_index[k] = -1

(* The slots the reader still has to wipe and free, and the one it is at.   *)
ToFree(r) ==
  IF Returned(r)
  THEN {rd[r].copied_index[k] : k \in {j \in Entries : j >= rd[r].clean}} \ {-1}
  ELSE {}
BeingWiped(r) == IF rd[r].pc \in {"wipe", "free"} THEN {Cleaned(r)} ELSE {}
Wiped == UNION {BeingWiped(r) : r \in Readers}

(* The handler fills a slot that is still free, with a packet that no one   *)
(* else has: the latest to arrive.                                          *)
WriterInv ==
  \A c \in Cpus :
    /\ rx[c].pkt = arrived
    /\ rx[c].pc \in {"head", "tail", "publish"} => IsFree(rx[c].write_index)
    /\ rx[c].pc \in {"tail", "publish"} =>
         buff_from_here[rx[c].write_index].head = rx[c].pkt
    /\ rx[c].pc = "publish" => buff_from_here[rx[c].write_index].tail = rx[c].pkt
    /\ rx[c].pc \notin {"idle", "advance"} =>
         /\ rx[c].pkt \notin delivered \cup dropped
         /\ \A s \in Occupied : buff_from_here[s].head # rx[c].pkt

(* An occupied slot holds one whole packet, no two the same, unless the     *)
(* reader is wiping it.                                                     *)
SlotInv ==
  /\ \A s \in Occupied \ Wiped :
       /\ buff_from_here[s].head \in 1 .. arrived
       /\ buff_from_here[s].tail = buff_from_here[s].head
       /\ buff_from_here[s].head \notin dropped
  /\ \A s \in Wiped : buff_from_here[s].head = 0
  /\ \A s, t \in Occupied :
       buff_from_here[s].head = buff_from_here[t].head /\ buff_from_here[s].head # 0
         => s = t

(* copied_index is filled from the front, each slot at most once.           *)
CollectedInv ==
  \A r \in Readers :
    /\ \A k \in Entries : rd[r].copied_index[k] # -1 <=> k < rd[r].copied_pkts
    /\ \A j, k \in Entries :
         rd[r].copied_index[j] = rd[r].copied_index[k] /\ rd[r].copied_index[j] # -1
           => j = k

(* While the scan runs, what it has collected mirrors occupied slots that   *)
(* are behind it; the rest of buff_temp is blank.                           *)
MirrorInv ==
  \A r \in Readers : rd[r].pc \in {"scan", "grab"} =>
    /\ \A k \in Entries : k < rd[r].copied_pkts =>
         /\ rd[r].copied_index[k] \in Occupied
         /\ buff_temp[k].head = buff_from_here[rd[r].copied_index[k]].head
         /\ buff_temp[k].tail = buff_from_here[rd[r].copied_index[k]].tail
         /\ Back(rd[r].copied_index[k], rd[r].ci) <= rd[r].try
    /\ \A k \in Entries :
         k > rd[r].copied_pkts \/ (k = rd[r].copied_pkts /\ rd[r].pc = "scan")
           => buff_temp[k].head = 0 /\ buff_temp[k].tail = 0
    /\ rd[r].pc = "grab" =>
         /\ rd[r].ci \in Occupied
         /\ buff_temp[rd[r].copied_pkts].head = buff_from_here[rd[r].ci].head

(* After the copy to the process, every slot still to be freed is occupied, *)
(* by a packet the process has.                                             *)
FreeingInv ==
  \A r \in Readers : \A s \in ToFree(r) :
    s \in Occupied /\ (s \in Wiped \/ buff_from_here[s].head \in delivered)

(* Conversely a packet that was handed over is in a slot only while the     *)
(* reader is about to free that slot (if copying to the process succeeds).  *)
DeliveredInv ==
  /\ delivered \cup dropped \subseteq 1 .. arrived /\ delivered \cap dropped = {}
  /\ ~UserFaults =>
       /\ redelivered = {}
       /\ \A s \in Occupied : buff_from_here[s].head \in delivered
            => \E r \in Readers : s \in ToFree(r)

CacheInv ==
  /\ WriterInv /\ SlotInv /\ CollectedInv /\ MirrorInv /\ FreeingInv /\ DeliveredInv
  /\ NoSilentLoss

(* What copy_to_user handed over in part is neither lost nor being handled. *)
HalvedInv ==
  /\ halved \subseteq 1 .. arrived /\ halved \cap dropped = {}
  /\ \A p \in halved : ~InHandler(p)

(* With one CPU the handler's packet is the latest: no stamp it leaves is   *)
(* older than a packet that went before it.                                 *)
AgeInv ==
  OneCpu =>
    /\ \A c \in Cpus : rx[c].pkt = arrived
    /\ \A s \in Slots : buff_from_here[s].head <= arrived
    /\ \A k \in Entries : buff_temp[k].head <= arrived
    /\ \A p \in delivered \cup halved : p <= arrived

(* Whatever is on its way to the process has its stamp.                     *)
StampInv ==
  /\ \A c \in Cpus : rx[c].pc \notin {"idle", "count"} => HasStamp(rx[c].pkt)
  /\ \A s \in Slots : buff_from_here[s].head # 0 => HasStamp(buff_from_here[s].head)
  /\ \A k \in Entries : buff_temp[k].head # 0 => HasStamp(buff_temp[k].head)
  /\ DeliveredIsStamped

(* However many CPUs: nobody else knows a packet that the handler has not   *)
(* copied yet, and then at most one slot has it.                            *)
Uncopied(c) == rx[c].pc \in {"count", "probe", "overflow", "head"}
Known ==
  {buff_from_here[s].head : s \in Slots} \cup {buff_temp[k].head : k \in Entries}
    \cup delivered

HeadsInv ==
  /\ \A c \in Cpus : rx[c].pc # "idle" => rx[c].pkt \in 1 .. arrived
  /\ \A c, d \in Cpus : rx[c].pc # "idle" /\ rx[d].pc # "idle" /\ rx[c].pkt = rx[d].pkt
                         => c = d
  /\ \A c \in Cpus : Uncopied(c) => rx[c].pkt \notin Known \cup dropped
  /\ Known \cup dropped \subseteq 0 .. arrived
  /\ Known \cap dropped = {}
  /\ \A s, t \in Slots :
       buff_from_here[s].head = buff_from_here[t].head /\ buff_from_here[s].head # 0
         => s = t

(* The slot that entry k was copied from, or is being copied from.          *)
SlotOf(r, k) == IF k < rd[r].copied_pkts THEN rd[r].copied_index[k] ELSE rd[r].ci

(* What a scan has collected is in no slot but the one it was copied from,  *)
(* even if that has been overwritten; what has been handed over is only in  *)
(* slots that the reader has still to wipe.                                 *)
Filled(r) == \A k \in Entries : rd[r].copied_index[k] # -1 <=> k < rd[r].copied_pkts
BatchOnce(r) ==
  rd[r].pc \in {"scan", "grab"} => \A k \in Entries :
    /\ k < rd[r].copied_pkts => Back(rd[r].copied_index[k], rd[r].ci) <= rd[r].try
    /\ k > rd[r].copied_pkts \/ (k = rd[r].copied_pkts /\ rd[r].pc = "scan")
         => buff_temp[k].head = 0
    /\ buff_temp[k].head # 0 =>
         /\ buff_temp[k].head \notin delivered
         /\ \A s \in Slots : buff_from_here[s].head = buff_temp[k].head => s = SlotOf(r, k)
         /\ \A j \in Entries : buff_temp[j].head = buff_temp[k].head => j = k
HandedOnce(r) ==
  \A s \in Slots : buff_from_here[s].head \in delivered => s \in ToFree(r) \ BeingWiped(r)

OnceInv ==
  redelivered = {} /\ \A r \in Readers : Filled(r) /\ BatchOnce(r) /\ HandedOnce(r)

(* Each entry whose slot is still to be freed has the packet of that slot,  *)
(* also after the slot was wiped, and no other entry has the same one.      *)
ReleaseInv ==
  \A r \in Readers : \A k \in Kept(r) :
    /\ buff_temp[k].head \in delivered
    /\ \/ k = rd[r].clean /\ rd[r].pc \in {"wipe", "free"}
       \/ buff_from_here[rd[r].copied_index[k]].head = buff_temp[k].head
    /\ \A j \in Kept(r) : buff_temp[j].head = buff_temp[k].head => j = k

(* The counters say how many packets arrived and how many were dropped,     *)
(* except while the handler is between load and store.                      *)
TallyInv ==
  /\ \A c \in Cpus : rx[c].pc = "count" => rx[c].reg = count_pkt /\ arrived = count_pkt + 1
  /\ (\A c \in Cpus : rx[c].pc # "count") => count_pkt = arrived
  /\ count_pkt_overflow = Cardinality(dropped)
  /\ \A c \in Cpus : rx[c].pc = "overflow" => rx[c].reg = count_pkt_overflow
=============================================================================
