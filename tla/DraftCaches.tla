---------------------------- MODULE DraftCaches ----------------------------
(***************************************************************************)
(* The packet caches that the present kernel module grew from, each with   *)
(* its handler, its read() and the process that polls it:                  *)
(*                                                                         *)
(*   legacy  legacy/intercept-module.c and legacy/user-processing.c.  A    *)
(*           ring and batches as now, but the handler stamps a packet      *)
(*           after it has published it, and finds the uid in the slot.     *)
(*   temp    legacy/temp-km.c.  No ring: packets go to the first free slot *)
(*           and come, one a read, from the first occupied one; the number *)
(*           of bytes to copy is a variable that was never set.            *)
(*                                                                         *)
(* One CPU handles packets and one process reads.  Then a slot is written  *)
(* only while its status is 0 and read only while it is 1 (but for the     *)
(* handler's second look), so filling or wiping it is one step with the    *)
(* change of its status.  A packet is known by the order of its arrival.   *)
(***************************************************************************)
EXTENDS Integers, Sequences, FiniteSets

CONSTANTS
  Drafts,           (* which of them                                       *)
  MAX_PKT,          (* slots                                               *)
  PKTS_PER_BUFFER,  (* packets in what the process reads at once           *)
  MAX_LOG_ENTRY,
  Uids              (* of the packets, each of which comes at most once    *)

VARIABLES
  draft, uid,       (* which; the uids of the packets that have come       *)
  slot,             (* the packet in each slot, 0 if its status is 0       *)
  current_index, count_pkt_overflow,
  log, user_log,    (* the packet whose stamp an entry has; how many had   *)
                    (* come when the process stamped it                    *)
  rx, rd,           (* the handler, and read() with its process            *)
  stored, handed,   (* history: packets that got a slot, that were read,   *)
  short, full       (* that a length too short lost, that met a full cache *)

cache == <<slot, current_index, count_pkt_overflow>>
past == <<stored, handed, short, full>>
vars == <<draft, uid, cache, log, user_log, rx, rd, past>>

Slots == 0 .. MAX_PKT - 1
LogUids == 0 .. MAX_LOG_ENTRY - 1
Elements(s) == {s[i] : i \in DOMAIN s}
NoRx == [at |-> "idle", pkt |-> 0, try |-> 0, index |-> 0]
NoRd == [at |-> "idle", ci |-> 0, try |-> 0, copied |-> <<>>, buff |-> <<>>, got |-> {}]

Init ==
  /\ draft \in Drafts /\ uid = <<>>
  /\ slot = [s \in Slots |-> 0] /\ current_index = 0 /\ count_pkt_overflow = 0
  /\ log = [u \in LogUids |-> 0] /\ user_log = [u \in LogUids |-> 0]
  /\ rx = NoRx /\ rd = NoRd
  /\ stored = {} /\ handed = {} /\ short = {} /\ full = {}

(* legacy searches once round the ring from current_index, temp from 0.     *)
First == IF draft = "legacy" THEN current_index ELSE 0
Batch == IF draft = "legacy" THEN PKTS_PER_BUFFER ELSE 1

-----------------------------------------------------------------------------
(* rxhPacketIn. *)

RxEnter ==
  /\ rx.at = "idle"
  /\ \E u \in Uids \ Elements(uid) : uid' = Append(uid, u)
  /\ rx' = [at |-> "search", pkt |-> Len(uid) + 1, try |-> 0, index |-> First]
  /\ full' = IF \E s \in Slots : slot[s] = 0 THEN full ELSE full \cup {Len(uid) + 1}
  /\ UNCHANGED <<draft, cache, log, user_log, rd, stored, handed, short>>

Stamped(u, n) == IF u \in LogUids THEN [log EXCEPT ![u] = n] ELSE log

(* The packet goes into the slot under test, if that is free.               *)
RxStore ==
  /\ rx.at = "search" /\ rx.try < MAX_PKT /\ slot[rx.index] = 0
  /\ slot' = [slot EXCEPT ![rx.index] = rx.pkt] /\ stored' = stored \cup {rx.pkt}
  /\ rx' = IF draft = "legacy" THEN [rx EXCEPT !.at = "advance"] ELSE NoRx
  /\ UNCHANGED <<draft, uid, current_index, count_pkt_overflow, log, user_log, rd, handed,
                 short, full>>
RxStampsFirst ==                                                \* a mutant
  /\ rx.at = "search" /\ rx.try < MAX_PKT /\ slot[rx.index] # 0
  /\ rx' = [rx EXCEPT !.index = (@ + 1) % MAX_PKT, !.try = @ + 1]
  /\ log' = Stamped(uid[rx.pkt], rx.pkt)
  /\ UNCHANGED <<draft, uid, cache, user_log, rd, past>>
RxTry ==
  /\ rx.at = "search" /\ rx.try < MAX_PKT /\ slot[rx.index] # 0
  /\ rx' = [rx EXCEPT !.index = (@ + 1) % MAX_PKT, !.try = @ + 1]
  /\ UNCHANGED <<draft, uid, cache, log, user_log, rd, past>>

(* Only legacy counts what it discards.                                     *)
RxOverflow ==
  /\ rx.at = "search" /\ rx.try = MAX_PKT /\ rx' = NoRx
  /\ count_pkt_overflow' = count_pkt_overflow + IF draft = "legacy" THEN 1 ELSE 0
  /\ UNCHANGED <<draft, uid, slot, current_index, log, user_log, rd, past>>

RxAdvance ==
  /\ rx.at = "advance" /\ rx' = [rx EXCEPT !.at = "stamp"]
  /\ current_index' = (rx.index + 1) % MAX_PKT
  /\ UNCHANGED <<draft, uid, slot, count_pkt_overflow, log, user_log, rd, past>>

(* The uid is read from the slot, which has uid 0 once it was wiped.        *)
RxStamp ==
  /\ rx.at = "stamp" /\ rx' = NoRx
  /\ log' = Stamped(IF slot[rx.index] = 0 THEN 0 ELSE uid[slot[rx.index]], rx.pkt)
  /\ UNCHANGED <<draft, uid, cache, user_log, rd, past>>

rxhPacketIn == RxEnter \/ RxStore \/ RxTry \/ RxOverflow \/ RxAdvance \/ RxStamp

-----------------------------------------------------------------------------
(* pread(): read(), then the process. *)

ReadBegin ==
  /\ rd.at = "idle" /\ rd' = [NoRd EXCEPT !.at = "scan", !.ci = First]
  /\ UNCHANGED <<draft, uid, cache, log, user_log, rx, past>>

ReadScan ==
  /\ rd.at = "scan" /\ Len(rd.copied) < Batch /\ rd.try < MAX_PKT
  /\ LET here == slot[rd.ci]
         on == [rd EXCEPT !.ci = (@ + 1) % MAX_PKT, !.try = @ + 1]
     IN rd' = IF here = 0 THEN on
              ELSE [on EXCEPT !.copied = Append(@, rd.ci), !.buff = Append(@, here)]
  /\ UNCHANGED <<draft, uid, cache, log, user_log, rx, past>>

Scanned == rd.at = "scan" /\ (Len(rd.copied) = Batch \/ rd.try = MAX_PKT)
ReadEmpty ==
  /\ Scanned /\ rd.copied = <<>> /\ rd' = NoRd
  /\ UNCHANGED <<draft, uid, cache, log, user_log, rx, past>>

(* What the process may find in its buffer.  If copy_to_user fails that is  *)
(* a part of the batch.  temp copies as much as the unset length says: it   *)
(* fails, or reaches over any number of slots from the one that was found.  *)
Got(n) ==
  IF draft = "legacy" THEN {rd.buff[i] : i \in 1 .. n}
  ELSE {slot[s] : s \in {t \in Slots : rd.copied[1] <= t /\ t < rd.copied[1] + n}} \ {0}
Reach == IF draft = "legacy" THEN Len(rd.buff) ELSE PKTS_PER_BUFFER

ReadDeliver ==
  /\ Scanned /\ rd.copied # <<>>
  /\ \E n \in (IF draft = "legacy" THEN {Len(rd.buff)} ELSE 0 .. Reach) :
       /\ rd' = [rd EXCEPT !.at = "free", !.buff = <<>>, !.got = Got(n)]
       /\ handed' = handed \cup Got(n)
       /\ short' = IF n = 0 THEN short \cup Elements(rd.buff) ELSE short
  /\ UNCHANGED <<draft, uid, cache, log, user_log, rx, stored, full>>
ReadFaultFrees ==                                               \* a mutant
  /\ Scanned /\ rd.copied # <<>>
  /\ \E n \in 0 .. Len(rd.buff) :
       /\ rd' = [rd EXCEPT !.at = "free", !.buff = <<>>, !.got = Got(n)]
       /\ handed' = handed \cup Got(n)
  /\ UNCHANGED <<draft, uid, cache, log, user_log, rx, stored, short, full>>
ReadFault ==
  /\ Scanned /\ rd.copied # <<>>
  /\ \E n \in 0 .. Reach :
       /\ rd' = [rd EXCEPT !.at = "free", !.buff = <<>>, !.copied = <<>>, !.got = Got(n)]
       /\ handed' = handed \cup Got(n)
  /\ UNCHANGED <<draft, uid, cache, log, user_log, rx, stored, short, full>>

ReadFree ==
  /\ rd.at = "free" /\ rd.copied # <<>>
  /\ slot' = [slot EXCEPT ![Head(rd.copied)] = 0] /\ rd' = [rd EXCEPT !.copied = Tail(@)]
  /\ UNCHANGED <<draft, uid, current_index, count_pkt_overflow, log, user_log, rx, past>>

(* One time for the whole batch, and no look at what pread returned.        *)
ProcessBatch ==
  /\ rd.at = "free" /\ rd.copied = <<>> /\ rd' = NoRd
  /\ user_log' = [u \in LogUids |-> IF \E p \in rd.got : uid[p] = u THEN Len(uid)
                                    ELSE user_log[u]]
  /\ UNCHANGED <<draft, uid, cache, log, rx, past>>

read == ReadBegin \/ ReadScan \/ ReadEmpty \/ ReadDeliver \/ ReadFault \/ ReadFree

Next == rxhPacketIn \/ read \/ ProcessBatch

Spec == Init /\ [][Next]_vars

-----------------------------------------------------------------------------
(* Properties. *)

(* legacy: only what was stored is stamped, under its own uid and before    *)
(* the process stamps it, or under uid 0 if the process was faster: the     *)
(* handler looks into the slot after publishing it (lines 239-249).         *)
StampsOwn ==
  \A u \in LogUids : log[u] # 0 =>
    /\ log[u] \in stored
    /\ \/ uid[log[u]] = u /\ (user_log[u] # 0 => log[u] <= user_log[u])
       \/ u = 0 /\ log[u] \in handed

(* A packet is in the cache, was read, or was discarded by a handler that   *)
(* found the cache full when it began; temp may lose it to a length of 0.   *)
(* What legacy discards it counts.                                          *)
Kept == Elements(slot) \cup handed
Gone == {p \in DOMAIN uid : p \notin Kept /\ p # rx.pkt}
LostOnlyWhenFull ==
  /\ \A p \in Gone : p \in full \/ (draft = "temp" /\ p \in short)
  /\ draft = "legacy" => Cardinality(Gone) = count_pkt_overflow

-----------------------------------------------------------------------------
(* Inductive invariants.  Back(s, i) is how many steps ago a search that     *)
(* stands at slot i was at s, from 1 to MAX_PKT.                             *)

Sizes ==
  /\ MAX_PKT \in Nat \ {0} /\ PKTS_PER_BUFFER \in Nat \ {0} /\ MAX_LOG_ENTRY \in Nat
  /\ Drafts \subseteq {"legacy", "temp"}

Back(s, i) == IF s < i THEN i - s ELSE i - s + MAX_PKT
Come == DOMAIN uid

TypeOK ==
  /\ draft \in {"legacy", "temp"} /\ uid \in Seq(Uids)
  /\ slot \in [Slots -> Nat] /\ current_index \in Slots /\ count_pkt_overflow \in Nat
  /\ log \in [LogUids -> Nat] /\ user_log \in [LogUids -> Nat]
  /\ rx \in [at : {"idle", "search", "advance", "stamp"}, pkt : Nat, try : 0 .. MAX_PKT,
              index : Slots]
  /\ rd \in [at : {"idle", "scan", "free"}, ci : Slots, try : 0 .. MAX_PKT,
              copied : Seq(Slots), buff : Seq(Nat), got : SUBSET Nat]
  /\ stored \subseteq Come /\ handed \subseteq stored /\ short \subseteq stored

(* A packet that arrives is the last that came, and nowhere before a slot   *)
(* has it; after that it is in its slot until the process got it.           *)
HandlerInv ==
  /\ \A p, q \in Come : uid[p] = uid[q] => p = q
  /\ \A s \in Slots : slot[s] # 0 => slot[s] \in stored
  /\ rx.at = "idle" <=> rx.pkt = 0
  /\ rx.at # "idle" => rx.pkt = Len(uid)
  /\ rx.at = "search" => rx.pkt \notin stored
  /\ rx.at \in {"advance", "stamp"} =>
       /\ draft = "legacy" /\ rx.pkt \in stored
       /\ slot[rx.index] = rx.pkt \/ (slot[rx.index] = 0 /\ rx.pkt \in handed)

(* A search that began with a free slot still has one before it.            *)
SearchInv ==
  rx.at = "search" =>
    rx.pkt \in full \/ \E s \in Slots : slot[s] = 0 /\ Back(s, rx.index) > rx.try

(* What the reader collected is still in the slots; what it is about to     *)
(* free, the process got, or temp has lost it.                              *)
ReaderInv ==
  /\ \A i, j \in DOMAIN rd.copied : rd.copied[i] = rd.copied[j] => i = j
  /\ rd.at = "idle" => rd = NoRd
  /\ rd.at = "scan" =>
       /\ Len(rd.buff) = Len(rd.copied)
       /\ \A i \in DOMAIN rd.copied :
            /\ slot[rd.copied[i]] = rd.buff[i] /\ rd.buff[i] # 0
            /\ Back(rd.copied[i], rd.ci) <= rd.try
  /\ rd.at = "free" => \A i \in DOMAIN rd.copied :
       \/ slot[rd.copied[i]] \in handed
       \/ draft = "temp" /\ slot[rd.copied[i]] \in short
  /\ rd.got \subseteq handed
  /\ draft = "temp" => Len(rd.copied) <= 1

StampInv ==
  /\ \A u \in LogUids : log[u] # 0 =>
       log[u] \in stored /\ (uid[log[u]] = u \/ (u = 0 /\ log[u] \in handed))
  /\ \A u \in LogUids : user_log[u] # 0 =>
       \E p \in Come : uid[p] = u /\ p <= user_log[u]

DraftInv == TypeOK /\ HandlerInv /\ SearchInv /\ ReaderInv /\ StampInv /\ LostOnlyWhenFull
=============================================================================
