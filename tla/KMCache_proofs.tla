--------------------------- MODULE KMCache_proofs ---------------------------
(***************************************************************************)
(* The packet cache, for any ring, batch, log and packets.  In three parts:*)
(* what needs one CPU or one reader at most; that CacheInv is inductive    *)
(* with one of each, and what follows for losses and torn packets; that    *)
(* the counters add up and the cache is a PacketStore if, besides, copying *)
(* to the process never fails.                                             *)
(***************************************************************************)
EXTENDS KMCacheSafety, LogBuffs_proofs, FiniteSetTheorems

LEMMA AfterIs ==
  ASSUME NEW i \in Slots
  PROVE  /\ After(i) \in Slots
         /\ After(i) = IF i = MAX_PKT - 1 THEN 0 ELSE i + 1
<1>1. MAX_PKT \in Nat \ {0} /\ i \in 0 .. MAX_PKT - 1
  BY CacheSizes DEF Slots
<1>2. CASE i = MAX_PKT - 1
  <2>1. (i + 1) % MAX_PKT = 0
    BY <1>1, <1>2, SMT
  <2>. QED BY <1>1, <1>2, <2>1 DEF After, Slots
<1>3. CASE i < MAX_PKT - 1
  <2>1. (i + 1) % MAX_PKT = i + 1
    BY <1>1, <1>3, SMT
  <2>. QED BY <1>1, <1>3, <2>1 DEF After, Slots
<1>. QED BY <1>1, <1>2, <1>3

LEMMA InitTypeOK == Init => TypeOK
<1>. SUFFICES ASSUME Init PROVE TypeOK
  OBVIOUS
<1>. USE CacheSizes DEF Init, Cells, OrZero, Blank, Slots, Entries, Packets
<1>1. TypeRing
  BY DEF TypeRing
<1>2. TypeStats
  BY DEF TypeStats
<1>3. TypeRx
  BY DEF TypeRx, RxState
<1>4. TypeRd
  BY DEF TypeRd, RdState
<1>5. TypeHistory
  BY DEF TypeHistory
<1>. QED BY <1>1, <1>2, <1>3, <1>4, <1>5 DEF TypeOK

(* A group of variables a step leaves alone keeps its type. *)
LEMMA KeepRing == TypeRing /\ UNCHANGED ring => TypeRing'
  BY DEF TypeRing, ring
LEMMA KeepStats == TypeStats /\ UNCHANGED stats => TypeStats'
  BY DEF TypeStats, stats
LEMMA KeepRx == TypeRx /\ UNCHANGED rx => TypeRx'
  BY DEF TypeRx
LEMMA KeepRd == TypeRd /\ UNCHANGED rd => TypeRd'
  BY DEF TypeRd, Scanning, Cleaned
LEMMA KeepHistory ==
  TypeHistory /\ UNCHANGED <<buff_temp, arrived, dropped, delivered, redelivered, halved>>
    => TypeHistory'
  BY DEF TypeHistory

(* Each step of the handler, and each of read(), keeps TypeOK. *)
LEMMA RxKeepsTypes ==
  ASSUME TypeOK, NEW c \in Cpus, rxhPacketIn(c)
  PROVE  TypeOK'
<1>. USE CacheSizes DEF TypeOK
<1>1. CASE RxEnter(c)
  <2>1. arrived + 1 \in Packets /\ arrived' \in 0 .. MaxPackets
    BY <1>1 DEF RxEnter, TypeHistory, Packets
  <2>. DEFINE new == [rx[c] EXCEPT !.pc = "count", !.pkt = arrived + 1, !.reg = count_pkt]
  <2>2. new \in RxState /\ new.pc = "count" /\ new.pkt = arrived + 1
    BY <2>1 DEF TypeRx, RxState, OrZero, TypeStats
  <2>3. rx' = [rx EXCEPT ![c] = new]
    BY <1>1 DEF RxEnter, TypeRx, RxState
  <2>. HIDE DEF new
  <2>4. TypeRx'
    BY <2>1, <2>2, <2>3 DEF TypeRx
  <2>5. TypeHistory'
    BY <1>1, <2>1 DEF RxEnter, TypeHistory, reading
  <2>. QED BY <1>1, <2>4, <2>5, KeepRing, KeepStats, KeepRd DEF RxEnter, ring, stats, reading, handling
<1>2. CASE RxCount(c)
  <2>1. rx[c].pkt \in Packets /\ rx[c].reg + 1 \in Nat
    BY <1>2 DEF RxCount, TypeRx, RxState
  <2>2. TypeStats'
    BY <1>2, <2>1 DEF RxCount, TypeStats, Stamped, OrZero
  <2>. DEFINE f == (Occupied = Slots)
              new == [rx[c] EXCEPT !.pc = "probe", !.write_index = current_index,
                                   !.try = 0, !.full = f]
  <2>3. f \in BOOLEAN /\ 0 \in 0 .. MAX_PKT /\ 0 < MAX_PKT
    OBVIOUS
  <2>. HIDE DEF f
  <2>4. new \in RxState /\ new.try < MAX_PKT /\ new.pkt \in Packets
    BY <2>1, <2>3 DEF TypeRx, RxState, TypeRing
  <2>5. rx' = [rx EXCEPT ![c] = new]
    BY <1>2 DEF RxCount, TypeRx, RxState, f
  <2>. HIDE DEF new
  <2>6. TypeRx'
    BY <2>4, <2>5 DEF TypeRx
  <2>. QED BY <1>2, <2>2, <2>6, KeepRing, KeepRd, KeepHistory DEF RxCount, ring, stats, reading, handling
<1>3. CASE RxFree(c)
  <2>1. TypeRx'
    BY <1>3, AfterIs DEF RxFree, TypeRx, RxState, OrZero
  <2>. QED BY <1>3, <2>1, KeepRing, KeepStats, KeepRd, KeepHistory DEF RxFree, ring, stats, reading, handling
<1>4. CASE RxBusy(c)
  <2>1. TypeRx'
    BY <1>4, AfterIs DEF RxBusy, TypeRx, RxState, OrZero, KM_FIND_BUFF_SLOT_MAX_TRY
  <2>. QED BY <1>4, <2>1, KeepRing, KeepStats, KeepRd, KeepHistory DEF RxBusy, ring, stats, reading, handling
<1>5. CASE RxNoSlot(c)
  <2>1. TypeRx'
    BY <1>5, AfterIs DEF RxNoSlot, TypeRx, RxState, OrZero, TypeStats, KM_FIND_BUFF_SLOT_MAX_TRY
  <2>. QED BY <1>5, <2>1, KeepRing, KeepStats, KeepRd, KeepHistory DEF RxNoSlot, ring, stats, reading, handling
<1>6. CASE RxOverflow(c)
  <2>1. rx[c].pkt \in Packets /\ rx[c].reg + 1 \in Nat
    BY <1>6 DEF RxOverflow, TypeRx, RxState
  <2>2. TypeStats'
    BY <1>6, <2>1 DEF RxOverflow, TypeStats
  <2>3. TypeRx'
    BY <1>6 DEF RxOverflow, TypeRx, RxState
  <2>4. TypeHistory'
    BY <1>6, <2>1 DEF RxOverflow, TypeHistory, reading
  <2>. QED BY <1>6, <2>1, <2>2, <2>3, <2>4, KeepRing, KeepRd DEF RxOverflow, ring, stats, reading, handling
<1>7. CASE RxCopyHead(c)
  <2>1. TypeRing'
    BY <1>7, AfterIs DEF RxCopyHead, TypeRing, Cells, OrZero, TypeRx, RxState
  <2>2. TypeRx'
    BY <1>7, AfterIs DEF RxCopyHead, TypeRx, RxState, OrZero
  <2>. QED BY <1>7, <2>1, <2>2, KeepStats, KeepRd, KeepHistory DEF RxCopyHead, ring, stats, reading, handling
<1>8. CASE RxCopyTail(c)
  <2>1. TypeRing'
    BY <1>8, AfterIs DEF RxCopyTail, TypeRing, Cells, OrZero, TypeRx, RxState
  <2>2. TypeRx'
    BY <1>8, AfterIs DEF RxCopyTail, TypeRx, RxState, OrZero
  <2>. QED BY <1>8, <2>1, <2>2, KeepStats, KeepRd, KeepHistory DEF RxCopyTail, ring, stats, reading, handling
<1>9. CASE RxPublish(c)
  <2>1. TypeRing'
    BY <1>9, AfterIs DEF RxPublish, TypeRing, Cells, OrZero, TypeRx, RxState
  <2>2. TypeRx'
    BY <1>9, AfterIs DEF RxPublish, TypeRx, RxState, OrZero
  <2>. QED BY <1>9, <2>1, <2>2, KeepStats, KeepRd, KeepHistory DEF RxPublish, ring, stats, reading, handling
<1>10. CASE RxAdvance(c)
  <2>1. TypeRing'
    BY <1>10, AfterIs DEF RxAdvance, TypeRing, Cells, OrZero, TypeRx, RxState
  <2>2. TypeRx'
    BY <1>10, AfterIs DEF RxAdvance, TypeRx, RxState, OrZero
  <2>. QED BY <1>10, <2>1, <2>2, KeepStats, KeepRd, KeepHistory DEF RxAdvance, ring, stats, reading, handling
<1>. QED BY <1>1, <1>2, <1>3, <1>4, <1>5, <1>6, <1>7, <1>8, <1>9, <1>10 DEF rxhPacketIn

(* What copy_to_user has given to the process when it stops. *)
LEMMA StopsIs ==
  ASSUME Stops
  PROVE  \E n \in Entries :
           /\ HandOver(n)
           /\ \A p \in halved' : p \in halved \/ (p = buff_temp[n].head /\ p # 0)
  BY DEF Stops

LEMMA HandOverTypes ==
  ASSUME TypeOK, NEW n \in Nat, HandOver(n)
  PROVE  delivered' \subseteq Packets /\ redelivered' \subseteq Packets
<1>1. Handed(n) \subseteq Packets
  BY DEF Handed, TypeOK, TypeHistory, Cells, OrZero
<1>. HIDE DEF Handed
<1>. QED BY <1>1 DEF TypeOK, TypeHistory, HandOver

(* "grab", "wipe" and "free" are the phases TypeRd says more about.         *)
LEMMA RdTypes ==
  ASSUME TypeRd, rd' \in [Readers -> RdState],
         \A q \in Readers : rd'[q] = rd[q] \/ rd'[q].pc \in {"idle", "scan", "clean"}
  PROVE  TypeRd'
  BY DEF TypeRd, Scanning, Cleaned

LEMMA ReadKeepsTypes ==
  ASSUME TypeOK, NEW r \in Readers, read(r)
  PROVE  TypeOK'
<1>. USE DEF TypeOK
<1>0. /\ MAX_PKT \in Nat /\ 0 \in 0 .. MAX_PKT
      /\ PKTS_PER_BUFFER \in Nat /\ 0 \in 0 .. PKTS_PER_BUFFER
      /\ Entries \subseteq Nat
  BY CacheSizes DEF Entries
<1>1. CASE ReadBegin(r)
  <2>. DEFINE none == [k \in Entries |-> -1]
              new == [rd[r] EXCEPT !.pc = "scan", !.ci = current_index, !.try = 0,
                        !.copied_pkts = 0, !.copied_index = none, !.seen = Occupied]
  <2>1. none \in [Entries -> Slots \cup {-1}] /\ Occupied \in SUBSET Slots
    BY DEF Occupied
  <2>. HIDE DEF none
  <2>2. new \in RdState /\ new.pc = "scan"
    BY <1>0, <2>1 DEF TypeRd, RdState, TypeRing
  <2>3. rd' = [rd EXCEPT ![r] = new]
    BY <1>1 DEF ReadBegin, none
  <2>. HIDE DEF new
  <2>4. rd' \in [Readers -> RdState]
    BY <2>2, <2>3 DEF TypeRd
  <2>5. \A q \in Readers : rd'[q].pc = "scan" \/ rd'[q] = rd[q]
    BY <2>2, <2>3 DEF TypeRd
  <2>6. TypeRd'
    BY <2>4, <2>5, RdTypes
  <2>7. Blank \in Cells
    BY DEF Blank, Cells, OrZero
  <2>8. TypeHistory'
    BY <1>1, <2>7 DEF ReadBegin, TypeHistory, handling
  <2>. QED BY <1>1, <2>6, <2>8, KeepRing, KeepStats, KeepRx DEF ReadBegin, handling
<1>2. CASE ReadSkip(r)
  <2>1. rd' \in [Readers -> RdState]
    BY <1>0, <1>2, AfterIs DEF ReadSkip, TypeRd, RdState, Scanning
  <2>2. TypeRd'
    <3>1. \A q \in Readers : rd'[q] = rd[q] \/ rd'[q].pc = "scan"
      BY <1>2 DEF ReadSkip, TypeRd, RdState
    <3>. QED BY <2>1, <3>1, RdTypes
  <2>. QED BY <1>2, <2>2, KeepRing, KeepStats, KeepRx, KeepHistory
       DEF ReadSkip, handling
<1>3. CASE ReadGrabHead(r)
  <2>1. rd[r].copied_pkts \in Entries /\ buff_from_here[rd[r].ci] \in Cells
    BY <1>0, <1>3 DEF ReadGrabHead, Scanning, Entries, TypeRd, RdState, TypeRing
  <2>2. buff_temp' \in [Entries -> Cells]
    BY <1>3, <2>1 DEF ReadGrabHead, TypeHistory, Cells
  <2>3. TypeHistory'
    BY <1>3, <2>2 DEF ReadGrabHead, TypeHistory, handling
  <2>4. TypeRd'
    BY <1>3 DEF ReadGrabHead, TypeRd, RdState, Scanning, Cleaned
  <2>. QED BY <1>3, <2>3, <2>4, KeepRing, KeepStats, KeepRx DEF ReadGrabHead, handling
<1>4. CASE ReadGrabTail(r)
  <2>1. rd[r].copied_pkts \in Entries /\ buff_from_here[rd[r].ci] \in Cells
    BY <1>0, <1>4 DEF ReadGrabTail, Scanning, Entries, TypeRd, RdState, TypeRing
  <2>2. buff_temp' \in [Entries -> Cells]
    BY <1>4, <2>1 DEF ReadGrabTail, TypeHistory, Cells
  <2>. DEFINE idx == [rd[r].copied_index EXCEPT ![rd[r].copied_pkts] = rd[r].ci]
              new == [rd[r] EXCEPT !.pc = "scan", !.ci = After(rd[r].ci),
                        !.try = rd[r].try + 1, !.copied_pkts = rd[r].copied_pkts + 1,
                        !.copied_index = idx]
  <2>3. rd[r].copied_pkts + 1 \in 0 .. PKTS_PER_BUFFER /\ rd[r].try + 1 \in 0 .. MAX_PKT
    BY <1>0, <1>4 DEF ReadGrabTail, Scanning, TypeRd, RdState
  <2>4. idx \in [Entries -> Slots \cup {-1}]
    BY DEF TypeRd, RdState
  <2>50. rd[r] \in RdState /\ After(rd[r].ci) \in Slots
    BY AfterIs DEF TypeRd, RdState
  <2>. HIDE DEF idx
  <2>5. new \in RdState
    BY <2>3, <2>4, <2>50 DEF RdState
  <2>6. rd' = [rd EXCEPT ![r] = new]
    BY <1>4 DEF ReadGrabTail, idx
  <2>. HIDE DEF new
  <2>7. rd' \in [Readers -> RdState]
    BY <2>5, <2>6 DEF TypeRd
  <2>8. TypeRd'
    <3>1. \A q \in Readers : rd'[q] = rd[q] \/ rd'[q].pc = "scan"
      BY <2>6 DEF new, TypeRd, RdState
    <3>. QED BY <2>7, <3>1, RdTypes
  <2>9. TypeHistory'
    BY <1>4, <2>2 DEF ReadGrabTail, TypeHistory, handling
  <2>. QED BY <1>4, <2>8, <2>9, KeepRing, KeepStats, KeepRx DEF ReadGrabTail, handling
<1>5. CASE ReadDeliver(r)
  <2>1. rd' \in [Readers -> RdState]
    <3>1. [rd[r] EXCEPT !.pc = "clean", !.clean = 0] \in RdState
      BY <1>0 DEF TypeRd, RdState
    <3>2. rd' = [rd EXCEPT ![r] = [rd[r] EXCEPT !.pc = "clean", !.clean = 0]]
      BY <1>5 DEF ReadDeliver, TypeRd, RdState
    <3>. QED BY <3>1, <3>2 DEF TypeRd
  <2>2. TypeRd'
    <3>1. \A q \in Readers : rd'[q] = rd[q] \/ rd'[q].pc = "clean"
      BY <1>5 DEF ReadDeliver, TypeRd, RdState
    <3>. QED BY <2>1, <3>1, RdTypes
  <2>3. delivered' \subseteq Packets /\ redelivered' \subseteq Packets
    BY <1>0, <1>5, HandOverTypes DEF ReadDeliver
  <2>4. TypeHistory'
    BY <1>5, <2>3 DEF ReadDeliver, TypeHistory, handling
  <2>. QED BY <1>5, <2>2, <2>4, KeepRing, KeepStats, KeepRx DEF ReadDeliver, handling
<1>6. CASE ReadFault(r)
  <2>1. TypeRd'
    BY <1>6 DEF ReadFault, TypeRd, RdState, Scanning, Cleaned
  <2>2. delivered' \subseteq Packets /\ redelivered' \subseteq Packets
    BY <1>0, <1>6, StopsIs, HandOverTypes DEF ReadFault
  <2>3. halved' \subseteq Packets
    BY <1>6, StopsIs DEF ReadFault, TypeHistory, Cells, OrZero
  <2>4. TypeHistory'
    BY <1>6, <2>2, <2>3 DEF ReadFault, TypeHistory, handling
  <2>. QED BY <1>6, <2>1, <2>4, KeepRing, KeepStats, KeepRx DEF ReadFault, handling
<1>7. CASE ReadWipeHead(r)
  <2>1. Cleaned(r) \in Slots
    BY <1>7 DEF ReadWipeHead, TypeRd, RdState, Cleaned
  <2>2. TypeRing'
    BY <1>7, <2>1 DEF ReadWipeHead, TypeRing, Cells, OrZero
  <2>3. TypeRd'
    BY <1>7 DEF ReadWipeHead, TypeRd, RdState, Scanning, Cleaned
  <2>. QED BY <1>7, <2>2, <2>3, KeepStats, KeepRx, KeepHistory DEF ReadWipeHead, handling
<1>8. CASE ReadWipeTail(r)
  <2>1. Cleaned(r) \in Slots
    BY <1>8 DEF ReadWipeTail, TypeRd, RdState, Cleaned
  <2>2. TypeRing'
    BY <1>8, <2>1 DEF ReadWipeTail, TypeRing, Cells, OrZero
  <2>3. TypeRd'
    BY <1>8 DEF ReadWipeTail, TypeRd, RdState, Scanning, Cleaned
  <2>. QED BY <1>8, <2>2, <2>3, KeepStats, KeepRx, KeepHistory DEF ReadWipeTail, handling
<1>9. CASE ReadFree(r)
  <2>1. Cleaned(r) \in Slots /\ rd[r].clean + 1 \in 0 .. PKTS_PER_BUFFER
    BY <1>0, <1>9 DEF ReadFree, TypeRd, RdState, Cleaned, Entries
  <2>2. TypeRing'
    BY <1>9, <2>1 DEF ReadFree, TypeRing
  <2>3. rd' \in [Readers -> RdState]
    BY <1>9, <2>1 DEF ReadFree, TypeRd, RdState
  <2>4. TypeRd'
    <3>1. \A q \in Readers : rd'[q] = rd[q] \/ rd'[q].pc = "clean"
      BY <1>9 DEF ReadFree, TypeRd, RdState
    <3>. QED BY <2>3, <3>1, RdTypes
  <2>. QED BY <1>9, <2>2, <2>4, KeepStats, KeepRx, KeepHistory DEF ReadFree, handling
<1>10. CASE ReadReturn(r)
  <2>1. TypeRd'
    BY <1>10 DEF ReadReturn, TypeRd, RdState, Scanning, Cleaned
  <2>. QED BY <1>10, <2>1, KeepRing, KeepStats, KeepRx, KeepHistory DEF ReadReturn, handling
<1>. QED BY <1>1, <1>2, <1>3, <1>4, <1>5, <1>6, <1>7, <1>8, <1>9, <1>10 DEF read

(* The variables keep their types for any number of CPUs and readers: in    *)
(* particular no search leaves the ring, and no stamp leaves the log.       *)
THEOREM TypeCorrect == Spec => []TypeOK
<1>1. TypeOK /\ [Next]_vars => TypeOK'
  <2>. SUFFICES ASSUME TypeOK, [Next]_vars PROVE TypeOK'
    OBVIOUS
  <2>1. CASE Next
    BY <2>1, RxKeepsTypes, ReadKeepsTypes DEF Next
  <2>2. CASE UNCHANGED vars
    BY <2>2, KeepRing, KeepStats, KeepRx, KeepRd, KeepHistory
       DEF TypeOK, vars, ring, stats, reading, handling
  <2>. QED BY <2>1, <2>2
<1>. QED BY InitTypeOK, <1>1, PTL DEF Spec

-----------------------------------------------------------------------------
LEMMA BackIs ==
  ASSUME NEW s \in Slots, NEW i \in Slots
  PROVE  /\ Back(s, i) \in 1 .. MAX_PKT
         /\ Back(s, i) = MAX_PKT => s = i
         /\ Back(i, After(i)) = 1
         /\ s # i => Back(s, After(i)) = Back(s, i) + 1
  BY CacheSizes, AfterIs DEF Back, Slots

(* ProbeInv is disturbed only by the handler's own steps and by a slot that *)
(* becomes occupied, which no other CPU can bring about.                    *)
LEMMA ProbeStep == OneCpu /\ TypeOK /\ ProbeInv /\ [Next]_vars => ProbeInv'
<1>. SUFFICES ASSUME OneCpu, TypeOK, ProbeInv, [Next]_vars PROVE ProbeInv'
  OBVIOUS
<1>. USE DEF TypeOK
<1>1. ASSUME UNCHANGED rx, \A s \in Slots : status'[s] = status[s] \/ status'[s] = 0
      PROVE  ProbeInv'
  BY <1>1 DEF ProbeInv, IsFree
<1>2. ASSUME NEW c \in Cpus, rxhPacketIn(c) PROVE ProbeInv'
  <2>0. \A d \in Cpus : d = c
    BY DEF OneCpu
  <2>1. CASE RxCount(c)
    <3>1. rx'[c].pc = "probe" /\ rx'[c].write_index = current_index /\ rx'[c].try = 0
          /\ rx'[c].full = (Occupied = Slots) /\ UNCHANGED status
      BY <2>1 DEF RxCount, TypeRx, RxState, ring
    <3>2. Occupied # Slots => \E s \in Slots : IsFree(s) /\ Back(s, current_index) > 0
      BY BackIs DEF Occupied, IsFree, TypeRing
    <3>. QED BY <2>0, <3>1, <3>2 DEF ProbeInv, IsFree
  <2>2. CASE RxBusy(c)
    <3>1. /\ rx'[c].pc = "probe" /\ rx'[c].write_index = After(rx[c].write_index)
          /\ rx'[c].try = rx[c].try + 1 /\ rx'[c].full = rx[c].full /\ UNCHANGED status
      BY <2>2 DEF RxBusy, TypeRx, RxState, ring
    <3>2. ASSUME NEW s \in Slots, IsFree(s), Back(s, rx[c].write_index) > rx[c].try
          PROVE  Back(s, After(rx[c].write_index)) > rx[c].try + 1
      <4>1. s # rx[c].write_index /\ rx[c].write_index \in Slots
        BY <2>2, <3>2 DEF RxBusy, TypeRx, RxState
      <4>2. Back(s, rx[c].write_index) \in Int /\ rx[c].try \in Int
        BY <4>1, BackIs DEF TypeRx, RxState
      <4>. QED BY <3>2, <4>1, <4>2, BackIs
    <3>. QED BY <2>0, <2>2, <3>1, <3>2 DEF ProbeInv, IsFree, RxBusy
  <2>3. CASE RxNoSlot(c)
    <3>1. rx'[c].pc = "overflow" /\ rx'[c].full = rx[c].full
      BY <2>3 DEF RxNoSlot, TypeRx, RxState
    <3>2. ~rx[c].full => \E s \in Slots : s # rx[c].write_index
                            /\ Back(s, rx[c].write_index) > MAX_PKT - 1
      BY <2>3 DEF RxNoSlot, ProbeInv, KM_FIND_BUFF_SLOT_MAX_TRY, TypeRx, RxState
    <3>3. rx[c].full
      BY <3>2, BackIs, CacheSizes DEF TypeRx, RxState
    <3>. QED BY <2>0, <3>1, <3>3 DEF ProbeInv
  <2>4. CASE \/ RxEnter(c) \/ RxFree(c) \/ RxOverflow(c) \/ RxCopyHead(c)
             \/ RxCopyTail(c) \/ RxPublish(c) \/ RxAdvance(c)
    <3>1. rx'[c].pc \notin {"probe", "overflow"}
      BY <2>4 DEF RxEnter, RxFree, RxOverflow, RxCopyHead, RxCopyTail, RxPublish,
                  RxAdvance, TypeRx, RxState
    <3>. QED BY <2>0, <3>1 DEF ProbeInv
  <2>. QED BY <1>2, <2>1, <2>2, <2>3, <2>4 DEF rxhPacketIn
<1>3. ASSUME NEW r \in Readers, read(r) PROVE ProbeInv'
  <2>1. UNCHANGED rx
    BY <1>3 DEF read, ReadBegin, ReadSkip, ReadGrabHead, ReadGrabTail, ReadDeliver,
                ReadFault, ReadWipeHead, ReadWipeTail, ReadFree, ReadReturn, handling
  <2>2. \A s \in Slots : status'[s] = status[s] \/ status'[s] = 0
    BY <1>3 DEF read, ReadBegin, ReadSkip, ReadGrabHead, ReadGrabTail, ReadDeliver,
                ReadFault, ReadWipeHead, ReadWipeTail, ReadFree, ReadReturn, ring, TypeRing
  <2>. QED BY <1>1, <2>1, <2>2
<1>4. CASE UNCHANGED vars
  BY <1>1, <1>4 DEF vars, ring, handling
<1>. QED BY <1>2, <1>3, <1>4 DEF Next

LEMMA ProbeInvHolds == ASSUME OneCpu PROVE Spec => []ProbeInv
<1>1. Init => ProbeInv
  BY DEF Init, ProbeInv
<1>. QED BY <1>1, ProbeStep, TypeCorrect, PTL DEF Spec

(* With one CPU in the handler a packet is discarded only if every slot was *)
(* occupied when the search for one began, for any number of readers that   *)
(* free slots meanwhile and any size of the ring.                           *)
THEOREM DropsOnlyWhenFull == OneCpu => (Spec => []DropOnlyWhenFull)
<1>. SUFFICES ASSUME OneCpu PROVE Spec => []DropOnlyWhenFull
  OBVIOUS
<1>1. ProbeInv => DropOnlyWhenFull
  BY DEF ProbeInv, DropOnlyWhenFull
<1>. QED BY <1>1, ProbeInvHolds, PTL

-----------------------------------------------------------------------------
(* The handler only ever occupies slots: no step of it frees one.           *)
LEMMA RxOnlyOccupies ==
  ASSUME TypeOK, NEW c \in Cpus, rxhPacketIn(c)
  PROVE  /\ Occupied \subseteq Occupied'
         /\ UNCHANGED <<rd, buff_temp, delivered, redelivered, halved>>
<1>1. rx[c].write_index \in Slots
  BY DEF TypeOK, TypeRx, RxState
<1>. QED BY <1>1
  DEF rxhPacketIn, RxEnter, RxCount, RxFree, RxBusy, RxNoSlot, RxOverflow, RxCopyHead,
      RxCopyTail, RxPublish, RxAdvance, ring, reading, Occupied, TypeOK, TypeRing

LEMMA ScanStep == OneReader /\ TypeOK /\ ScanInv /\ [Next]_vars => ScanInv'
<1>. SUFFICES ASSUME OneReader, TypeOK, ScanInv, [Next]_vars PROVE ScanInv'
  OBVIOUS
<1>. USE DEF TypeOK
<1>1. ASSUME UNCHANGED rd, Occupied \subseteq Occupied' PROVE ScanInv'
  BY <1>1 DEF ScanInv, Copied
<1>2. ASSUME NEW r \in Readers, read(r) PROVE ScanInv'
  <2>. DEFINE ScanInvOf(q) ==
         rd[q].pc \in {"scan", "grab"} =>
           /\ rd[q].seen \subseteq Occupied
           /\ \A s \in rd[q].seen : Back(s, rd[q].ci) <= rd[q].try => s \in Copied(q)
           /\ \A k \in Entries : k >= rd[q].copied_pkts => rd[q].copied_index[k] = -1
  <2>0. ScanInvOf(r) /\ (ScanInvOf(r)' => ScanInv')
    BY DEF ScanInv, OneReader
  <2>00. /\ rd[r].ci \in Slots /\ rd[r].try \in 0 .. MAX_PKT
         /\ rd[r].copied_pkts \in Nat /\ rd[r].seen \subseteq Slots
         /\ rd[r].copied_index \in [Entries -> Slots \cup {-1}]
    BY CacheSizes DEF TypeRd, RdState
  <2>1. CASE ReadBegin(r)
    <3>1. /\ rd'[r].seen = Occupied /\ rd'[r].ci = current_index /\ rd'[r].try = 0
          /\ rd'[r].copied_index = [k \in Entries |-> -1]
      BY <2>1 DEF ReadBegin, TypeRd, RdState
    <3>2. Occupied' = Occupied /\ Occupied \subseteq Slots
      BY <2>1 DEF ReadBegin, Occupied, ring
    <3>3. \A s \in Occupied : ~(Back(s, current_index) <= 0)
      BY <3>2, BackIs DEF TypeRing
    <3>. QED BY <2>0, <3>1, <3>2, <3>3
  <2>2. CASE ReadSkip(r)
    <3>1. /\ rd'[r].seen = rd[r].seen /\ rd'[r].ci = After(rd[r].ci)
          /\ rd'[r].try = rd[r].try + 1 /\ rd'[r].copied_index = rd[r].copied_index
          /\ rd'[r].copied_pkts = rd[r].copied_pkts /\ rd[r].pc = "scan"
      BY <2>2 DEF ReadSkip, TypeRd, RdState
    <3>2. Occupied' = Occupied /\ rd[r].ci \notin Occupied
      BY <2>2 DEF ReadSkip, Occupied, ring, IsFree
    <3>3. ASSUME NEW s \in rd[r].seen, Back(s, After(rd[r].ci)) <= rd[r].try + 1
          PROVE  Back(s, rd[r].ci) <= rd[r].try
      <4>1. s \in Slots /\ s # rd[r].ci
        BY <2>0, <2>00, <3>1, <3>2
      <4>. QED BY <2>00, <3>3, <4>1, BackIs
    <3>4. Copied(r)' = Copied(r)
      BY <3>1 DEF Copied
    <3>. QED BY <2>0, <3>1, <3>2, <3>3, <3>4
  <2>3. CASE ReadGrabHead(r)
    <3>1. /\ rd'[r].seen = rd[r].seen /\ rd'[r].ci = rd[r].ci
          /\ rd'[r].try = rd[r].try /\ rd'[r].copied_index = rd[r].copied_index
          /\ rd'[r].copied_pkts = rd[r].copied_pkts /\ rd[r].pc = "scan"
      BY <2>3 DEF ReadGrabHead, TypeRd, RdState
    <3>2. Occupied' = Occupied /\ Copied(r)' = Copied(r)
      BY <2>3, <3>1 DEF ReadGrabHead, Occupied, ring, Copied
    <3>. QED BY <2>0, <3>1, <3>2
  <2>4. CASE ReadGrabTail(r)
    <3>1. /\ rd'[r].seen = rd[r].seen /\ rd'[r].ci = After(rd[r].ci)
          /\ rd'[r].try = rd[r].try + 1
          /\ rd'[r].copied_index = [rd[r].copied_index EXCEPT ![rd[r].copied_pkts] = rd[r].ci]
          /\ rd'[r].copied_pkts = rd[r].copied_pkts + 1 /\ rd[r].pc = "grab"
      BY <2>4 DEF ReadGrabTail, TypeRd, RdState
    <3>2. Occupied' = Occupied
      BY <2>4 DEF ReadGrabTail, Occupied, ring
    <3>3. rd[r].copied_pkts \in Entries
      BY <2>00, <3>1, CacheSizes DEF TypeRd, Scanning, Entries
    <3>4. rd[r].copied_index[rd[r].copied_pkts] = -1
      BY <2>0, <2>00, <3>1, <3>3
    <3>5. rd[r].ci \in Copied(r)' /\ Copied(r) \subseteq Copied(r)'
      BY <2>00, <3>1, <3>3, <3>4 DEF Copied, Slots
    <3>6. ASSUME NEW s \in rd[r].seen, Back(s, After(rd[r].ci)) <= rd[r].try + 1
          PROVE  s = rd[r].ci \/ Back(s, rd[r].ci) <= rd[r].try
      <4>1. s \in Slots
        BY <2>00
      <4>. QED BY <2>00, <3>6, <4>1, BackIs
    <3>7. \A k \in Entries : k >= rd'[r].copied_pkts => rd'[r].copied_index[k] = -1
      BY <2>0, <2>00, <3>1, <3>3 DEF Entries
    <3>. QED BY <2>0, <3>1, <3>2, <3>5, <3>6, <3>7
  <2>5. CASE \/ ReadDeliver(r) \/ ReadFault(r) \/ ReadWipeHead(r) \/ ReadWipeTail(r)
             \/ ReadFree(r) \/ ReadReturn(r)
    <3>1. rd'[r].pc \notin {"scan", "grab"}
      BY <2>5 DEF ReadDeliver, ReadFault, ReadWipeHead, ReadWipeTail, ReadFree, ReadReturn,
                  TypeRd, RdState
    <3>. QED BY <2>0, <3>1
  <2>. QED BY <1>2, <2>1, <2>2, <2>3, <2>4, <2>5 DEF read
<1>3. CASE UNCHANGED vars
  BY <1>1, <1>3 DEF vars, ring, reading, Occupied
<1>. QED BY <1>1, <1>2, <1>3, RxOnlyOccupies DEF Next

LEMMA ScanInvHolds == ASSUME OneReader PROVE Spec => []ScanInv
<1>1. Init => ScanInv
  BY DEF Init, ScanInv
<1>. QED BY <1>1, ScanStep, TypeCorrect, PTL DEF Spec

LEMMA ScanIsComplete == ASSUME TypeOK, ScanInv PROVE ShortReadComplete
<1>. SUFFICES ASSUME NEW r \in Readers, rd[r].pc = "scan",
                     ~Scanning(r), rd[r].copied_pkts < PKTS_PER_BUFFER,
                     NEW s \in rd[r].seen
              PROVE  s \in Copied(r)
  BY DEF ShortReadComplete
<1>0. rd[r].ci \in Slots /\ rd[r].try \in 0 .. MAX_PKT /\ rd[r].seen \in SUBSET Slots
  BY DEF TypeOK, TypeRd, RdState
<1>1. rd[r].try = MAX_PKT /\ s \in Slots
  BY <1>0, CacheSizes DEF Scanning
<1>2. Back(s, rd[r].ci) <= rd[r].try
  BY <1>0, <1>1, BackIs, CacheSizes
<1>. QED BY <1>2 DEF ScanInv

(* With one reader, whatever the CPUs do: a read() that returns a batch not *)
(* full has every slot that was occupied when it began.                     *)
THEOREM ShortReadsComplete == OneReader => (Spec => []ShortReadComplete)
<1>. SUFFICES ASSUME OneReader PROVE Spec => []ShortReadComplete
  OBVIOUS
<1>. QED BY ScanIsComplete, ScanInvHolds, TypeCorrect, PTL

-----------------------------------------------------------------------------
(* The kernel's log has every packet the process receives.  Nothing here    *)
(* depends on how many CPUs and readers there are.                          *)

LEMMA ScanCell ==
  ASSUME TypeOK, NEW r \in Readers, rd[r].pc = "scan", Scanning(r)
  PROVE  rd[r].ci \in Slots /\ rd[r].copied_pkts \in Entries
  BY CacheSizes DEF TypeOK, TypeRd, RdState, Entries, Scanning

(* The packets on their way come from the handler through slots and         *)
(* buff_temp to the process: a step of read() finds none but those.         *)
LEMMA ReadMovesHeads ==
  ASSUME TypeOK, NEW r \in Readers, read(r)
  PROVE  /\ UNCHANGED <<rx, log_buffs, arrived, dropped>>
         /\ \A s \in Slots : buff_from_here'[s].head \in {buff_from_here[s].head, 0}
         /\ \A k \in Entries : \/ buff_temp'[k].head \in {buff_temp[k].head, 0}
                                \/ \E s \in Slots : buff_temp'[k].head = buff_from_here[s].head
         /\ \A p \in delivered' :
              p \in delivered \/ \E k \in Entries : buff_temp[k].head = p /\ p # 0
         /\ \A p \in halved' :
              p \in halved \/ \E k \in Entries : buff_temp[k].head = p /\ p # 0
<1>1. UNCHANGED <<rx, log_buffs, arrived, dropped>>
  BY DEF read, ReadBegin, ReadSkip, ReadGrabHead, ReadGrabTail, ReadDeliver, ReadFault,
         ReadWipeHead, ReadWipeTail, ReadFree, ReadReturn, stats, handling
<1>2. \A s \in Slots : buff_from_here'[s].head \in {buff_from_here[s].head, 0}
  BY DEF read, ReadBegin, ReadSkip, ReadGrabHead, ReadGrabTail, ReadDeliver, ReadFault,
         ReadWipeHead, ReadWipeTail, ReadFree, ReadReturn, ring, TypeOK, TypeRing, Cells
<1>3. \A k \in Entries : \/ buff_temp'[k].head \in {buff_temp[k].head, 0}
                         \/ \E s \in Slots : buff_temp'[k].head = buff_from_here[s].head
  <2>1. CASE ReadGrabHead(r)
    BY <2>1, ScanCell DEF ReadGrabHead, TypeOK, TypeHistory, Cells
  <2>2. CASE ~ReadGrabHead(r)
    BY <2>2 DEF read, ReadBegin, ReadSkip, ReadGrabTail, ReadDeliver, ReadFault,
         ReadWipeHead, ReadWipeTail, ReadFree, ReadReturn, Blank, TypeOK, TypeHistory, Cells
  <2>. QED BY <2>1, <2>2
<1>4. /\ \A p \in delivered' :
           p \in delivered \/ \E k \in Entries : buff_temp[k].head = p /\ p # 0
      /\ \A p \in halved' :
           p \in halved \/ \E k \in Entries : buff_temp[k].head = p /\ p # 0
  <2>1. CASE ReadDeliver(r)
    BY <2>1 DEF ReadDeliver, HandOver, Handed
  <2>2. CASE ReadFault(r)
    BY <2>2, StopsIs DEF ReadFault, HandOver, Handed
  <2>3. CASE ~(ReadDeliver(r) \/ ReadFault(r))
    <3>1. UNCHANGED <<delivered, halved>>
      BY <2>3 DEF read, ReadBegin, ReadSkip, ReadGrabHead, ReadGrabTail, ReadWipeHead,
           ReadWipeTail, ReadFree, ReadReturn
    <3>. QED BY <3>1
  <2>. QED BY <2>1, <2>2, <2>3
<1>. QED BY <1>1, <1>2, <1>3, <1>4

LEMMA AgeStep == TypeOK /\ AgeInv /\ [Next]_vars => AgeInv'
<1>. SUFFICES ASSUME OneCpu, TypeOK, AgeInv, [Next]_vars PROVE AgeInv'
  BY DEF AgeInv
<1>1. /\ arrived \in Nat
      /\ \A s \in Slots : buff_from_here[s].head \in Nat /\ buff_from_here[s].head <= arrived
      /\ \A k \in Entries : buff_temp[k].head \in Nat /\ buff_temp[k].head <= arrived
      /\ \A p \in delivered \cup halved : p \in Nat /\ p <= arrived
      /\ \A c \in Cpus : rx[c].pkt = arrived
  BY CacheSizes DEF AgeInv, TypeOK, TypeRing, TypeHistory, Cells, OrZero, Packets
<1>2. ASSUME NEW c \in Cpus, rxhPacketIn(c) PROVE AgeInv'
  <2>1. UNCHANGED <<buff_temp, delivered, halved>> /\ \A d \in Cpus : d = c
    BY <1>2, RxOnlyOccupies DEF OneCpu
  <2>2. CASE RxEnter(c)
    <3>1. arrived' = arrived + 1 /\ rx'[c].pkt = arrived' /\ UNCHANGED buff_from_here
      BY <2>2 DEF RxEnter, ring, TypeOK, TypeRx, RxState
    <3>2. \A x \in Nat : x <= arrived => x <= arrived'
      BY <1>1, <3>1
    <3>. HIDE DEF AgeInv
    <3>. QED BY <1>1, <2>1, <3>1, <3>2 DEF AgeInv
  <2>3. CASE ~RxEnter(c)
    <3>1. UNCHANGED arrived /\ rx'[c].pkt = rx[c].pkt
      BY <1>2, <2>3 DEF rxhPacketIn, RxCount, RxFree, RxBusy, RxNoSlot, RxOverflow, RxCopyHead,
           RxCopyTail, RxPublish, RxAdvance, TypeOK, TypeRx, RxState
    <3>2. \A s \in Slots : buff_from_here'[s].head \in {buff_from_here[s].head, rx[c].pkt}
      <4>1. CASE RxCopyHead(c) \/ RxCopyTail(c)
        BY <4>1 DEF RxCopyHead, RxCopyTail, TypeOK, TypeRing, Cells
      <4>2. CASE ~(RxCopyHead(c) \/ RxCopyTail(c))
        BY <1>2, <2>3, <4>2 DEF rxhPacketIn, RxCount, RxFree, RxBusy, RxNoSlot, RxOverflow,
             RxPublish, RxAdvance, ring
      <4>. QED BY <4>1, <4>2
    <3>3. arrived <= arrived
      BY <1>1
    <3>. QED BY <1>1, <2>1, <3>1, <3>2, <3>3 DEF AgeInv
  <2>. QED BY <2>2, <2>3
<1>3. ASSUME NEW r \in Readers, read(r) PROVE AgeInv'
  <2>1. 0 <= arrived
    BY <1>1
  <2>. QED BY <1>1, <1>3, <2>1, ReadMovesHeads DEF AgeInv
<1>4. CASE UNCHANGED vars
  BY <1>4 DEF AgeInv, vars, ring, reading, handling
<1>. QED BY <1>2, <1>3, <1>4 DEF Next

(* One step of the log: the uid just stamped keeps no other uid's cell, and *)
(* its own stamp is younger than the packets that have passed.              *)
LEMMA StampSteps ==
  ASSUME TypeOK, NEW c \in Cpus, RxCount(c)
  PROVE  /\ HasStamp(rx[c].pkt)'
         /\ \A p \in Packets :
              HasStamp(p) /\ (OneCpu => p <= rx[c].pkt) => HasStamp(p)'
<1> DEFINE pkt == rx[c].pkt
<1>1. /\ pkt \in Packets /\ pkt # 0 /\ Uid[pkt] \in Nat /\ rx'[c].pkt = pkt
      /\ log_buffs' = Stamped(Uid[pkt], pkt)
      /\ \A p \in Packets : Uid[p] \in Nat /\ p \in Nat
  BY CacheSizes DEF RxCount, TypeOK, TypeRx, RxState, Packets
<1>2. \A u \in Nat : Loggable(u) => LogCell(u) \in LogCells
  BY LogCellInBounds
<1>3. \A u, v \in Nat : Loggable(u) /\ Loggable(v) /\ LogCell(u) = LogCell(v) => u = v
  BY LogCellInjective
<1>4. /\ Loggable(Uid[pkt]) => log_buffs'[LogCell(Uid[pkt])] = pkt
      /\ \A cell \in LogCells :
           log_buffs'[cell] = log_buffs[cell]
             \/ (Loggable(Uid[pkt]) /\ cell = LogCell(Uid[pkt]) /\ log_buffs'[cell] = pkt)
  BY <1>1, <1>2 DEF Stamped, TypeOK, TypeStats
<1>5. \A p \in Packets : (p <= pkt <=> pkt >= p) /\ pkt >= pkt
  BY <1>1
<1>6. HasStamp(pkt)'
  BY <1>1, <1>4, <1>5 DEF HasStamp
<1>. HIDE DEF pkt
<1>7. ASSUME NEW p \in Packets, HasStamp(p), OneCpu => p <= pkt PROVE HasStamp(p)'
  BY <1>1, <1>2, <1>3, <1>4, <1>5, <1>7 DEF HasStamp
<1>. QED BY <1>6, <1>7 DEF pkt

LEMMA StampStep == TypeOK /\ AgeInv /\ StampInv /\ [Next]_vars => StampInv'
<1>. SUFFICES ASSUME TypeOK, AgeInv, StampInv, [Next]_vars PROVE StampInv'
  OBVIOUS
<1>1. /\ \A c \in Cpus : rx[c].pkt \in OrZero(Packets)
      /\ \A c \in Cpus : rx[c].pc # "idle" => rx[c].pkt \in Packets
      /\ \A s \in Slots : buff_from_here[s].head \in OrZero(Packets)
      /\ \A k \in Entries : buff_temp[k].head \in OrZero(Packets)
      /\ delivered \cup halved \subseteq Packets
  BY DEF TypeOK, TypeRx, RxState, TypeRing, TypeHistory, Cells
<1>2. ASSUME log_buffs' = log_buffs PROVE \A p : HasStamp(p)' = HasStamp(p)
  BY <1>2 DEF HasStamp
<1>3. ASSUME NEW c \in Cpus, rxhPacketIn(c) PROVE StampInv'
  <2>1. UNCHANGED <<rd, buff_temp, delivered, halved>>
    BY <1>3, RxOnlyOccupies
  <2>2. CASE RxCount(c)
    <3>1. /\ UNCHANGED buff_from_here /\ rx'[c].pkt = rx[c].pkt
          /\ \A d \in Cpus : d # c => rx'[d] = rx[d]
      BY <2>2 DEF RxCount, ring, TypeOK, TypeRx, RxState
    <3>2. HasStamp(rx[c].pkt)' /\ \A p \in Packets :
            HasStamp(p) /\ (OneCpu => p <= rx[c].pkt) => HasStamp(p)'
      BY <2>2, StampSteps
    <3>3. OneCpu => /\ \A d \in Cpus : d = c
                    /\ \A s \in Slots : buff_from_here[s].head <= rx[c].pkt
                    /\ \A k \in Entries : buff_temp[k].head <= rx[c].pkt
                    /\ \A p \in delivered \cup halved : p <= rx[c].pkt
      BY DEF AgeInv, OneCpu
    <3>4. \A d \in Cpus : (rx[d].pc \notin {"idle", "count"} => HasStamp(rx[d].pkt))'
      BY <1>1, <2>1, <3>1, <3>2, <3>3 DEF StampInv, OrZero
    <3>5. \A s \in Slots : (buff_from_here[s].head # 0 => HasStamp(buff_from_here[s].head))'
      BY <1>1, <3>1, <3>2, <3>3 DEF StampInv, OrZero
    <3>6. \A k \in Entries : (buff_temp[k].head # 0 => HasStamp(buff_temp[k].head))'
      BY <1>1, <2>1, <3>2, <3>3 DEF StampInv, OrZero
    <3>7. DeliveredIsStamped'
      BY <1>1, <2>1, <3>2, <3>3 DEF StampInv, DeliveredIsStamped
    <3>. QED BY <3>4, <3>5, <3>6, <3>7 DEF StampInv
  <2>3. CASE RxCopyHead(c)
    <3>1. /\ UNCHANGED log_buffs /\ rx'[c].pkt = rx[c].pkt /\ rx[c].pc = "head"
          /\ \A d \in Cpus : d # c => rx'[d] = rx[d]
          /\ \A s \in Slots : buff_from_here'[s].head \in {buff_from_here[s].head, rx[c].pkt}
      BY <2>3 DEF RxCopyHead, stats, TypeOK, TypeRx, RxState, TypeRing, Cells
    <3>. QED BY <1>2, <2>1, <3>1 DEF StampInv, DeliveredIsStamped
  <2>4. CASE ~(RxCount(c) \/ RxCopyHead(c))
    <3>1. /\ UNCHANGED log_buffs
          /\ \A d \in Cpus : d # c => rx'[d] = rx[d]
          /\ rx'[c].pc \in {"idle", "count"}
               \/ (rx[c].pc \notin {"idle", "count"} /\ rx'[c].pkt = rx[c].pkt)
          /\ \A s \in Slots : buff_from_here'[s].head = buff_from_here[s].head
      BY <1>3, <2>4 DEF rxhPacketIn, RxEnter, RxFree, RxBusy, RxNoSlot, RxOverflow,
           RxCopyTail, RxPublish, RxAdvance, stats, ring, TypeOK, TypeRx, RxState, TypeRing, Cells
    <3>. QED BY <1>2, <2>1, <3>1 DEF StampInv, DeliveredIsStamped
  <2>. QED BY <2>2, <2>3, <2>4
<1>4. ASSUME NEW r \in Readers, read(r) PROVE StampInv'
  BY <1>2, <1>4, ReadMovesHeads DEF StampInv, DeliveredIsStamped
<1>5. CASE UNCHANGED vars
  BY <1>2, <1>5 DEF StampInv, DeliveredIsStamped, vars, ring, stats, reading, handling
<1>. QED BY <1>3, <1>4, <1>5 DEF Next

(* A packet the process has received has a stamp in the kernel's log, in    *)
(* the cell of its uid and left by a packet of that uid, however many CPUs  *)
(* run the handler and however many processes read: the handler logs (lines *)
(* 234-237) before it looks for a slot (line 244), and no two uids share a  *)
(* cell.  With one CPU the stamp is not older than the packet; with more it *)
(* can be, if another packet has the same uid.                              *)
THEOREM DeliveredHasItsStamp == Spec => []DeliveredIsStamped
<1>1. Init => AgeInv /\ StampInv
  BY DEF Init, AgeInv, StampInv, DeliveredIsStamped, Blank
<1>2. StampInv => DeliveredIsStamped
  BY DEF StampInv
<1>. QED BY <1>1, <1>2, AgeStep, StampStep, TypeCorrect, PTL DEF Spec

-----------------------------------------------------------------------------
(***************************************************************************)
(* One CPU in the handler and one reader: CacheInv is inductive.           *)
(***************************************************************************)

LEMMA CleanedToFree ==
  ASSUME TypeOK, NEW r \in Readers, Returned(r), Cleaned(r) # -1
  PROVE  Cleaned(r) \in ToFree(r) /\ rd[r].clean \in Entries
<1>1. rd[r].clean \in Entries /\ Cleaned(r) = rd[r].copied_index[rd[r].clean]
  BY DEF Cleaned
<1>2. rd[r].clean >= rd[r].clean
  BY DEF TypeOK, TypeRd, RdState
<1>. QED BY <1>1, <1>2 DEF ToFree

LEMMA WipedOccupied ==
  ASSUME TypeOK, FreeingInv, NEW s \in Wiped
  PROVE  s \in Occupied
<1>1. PICK r \in Readers : s \in BeingWiped(r)
  BY DEF Wiped
<1>2. Returned(r) /\ Cleaned(r) # -1 /\ s = Cleaned(r)
  BY <1>1 DEF BeingWiped, Returned, TypeOK, TypeRd
<1>. QED BY <1>2, CleanedToFree DEF FreeingInv

-----------------------------------------------------------------------------
(* The steps of the handler.                                                *)

LEMMA SameReader ==
  ASSUME UNCHANGED rd
  PROVE  /\ Wiped' = Wiped
         /\ \A r : ToFree(r)' = ToFree(r)
  BY DEF Wiped, BeingWiped, ToFree, Returned, Cleaned

(* The handler writes only into a slot that is free: what is in an occupied *)
(* slot stays there.                                                        *)
LEMMA RxKeepsSlots ==
  ASSUME TypeOK, WriterInv, NEW c \in Cpus, rxhPacketIn(c)
  PROVE  \A s \in Occupied : s \in Occupied' /\ buff_from_here'[s] = buff_from_here[s]
<1>1. rx[c].write_index \in Slots
  BY DEF TypeOK, TypeRx, RxState
<1>2. \A s \in Occupied : s \in Occupied'
  BY RxOnlyOccupies
<1>3. CASE RxCopyHead(c) \/ RxCopyTail(c)
  <2>1. rx[c].write_index \notin Occupied
    BY <1>3 DEF RxCopyHead, RxCopyTail, WriterInv, IsFree, Occupied
  <2>2. \A s \in Slots : s # rx[c].write_index => buff_from_here'[s] = buff_from_here[s]
    BY <1>3 DEF RxCopyHead, RxCopyTail, TypeOK, TypeRing
  <2>. QED BY <1>2, <2>1, <2>2 DEF Occupied
<1>4. CASE ~(RxCopyHead(c) \/ RxCopyTail(c))
  <2>1. UNCHANGED buff_from_here
    BY <1>4 DEF rxhPacketIn, RxEnter, RxCount, RxFree, RxBusy, RxNoSlot, RxOverflow,
                RxPublish, RxAdvance, ring
  <2>. QED BY <1>2, <2>1
<1>. QED BY <1>3, <1>4

(* So whatever the reader relies on, it can still rely on.                  *)
LEMMA RxKeepsReader ==
  ASSUME TypeOK, CacheInv, NEW c \in Cpus, rxhPacketIn(c)
  PROVE  CollectedInv' /\ MirrorInv' /\ FreeingInv'
<1>1. UNCHANGED <<rd, buff_temp, delivered>>
  BY RxOnlyOccupies
<1>2. \A s \in Occupied : s \in Occupied' /\ buff_from_here'[s] = buff_from_here[s]
  BY RxKeepsSlots DEF CacheInv
<1>3. CollectedInv'
  BY <1>1 DEF CacheInv, CollectedInv
<1>4. MirrorInv'
  BY <1>1, <1>2 DEF CacheInv, MirrorInv
<1>5. FreeingInv'
  BY <1>1, <1>2, SameReader DEF CacheInv, FreeingInv
<1>. QED BY <1>3, <1>4, <1>5

(* A step of the handler that publishes nothing, and stays with the packet  *)
(* it has, changes nothing for the packets already cached.                  *)
LEMMA RxKeepsCached ==
  ASSUME TypeOK, CacheInv, NEW c \in Cpus, rxhPacketIn(c),
         UNCHANGED <<status, arrived, dropped>>
  PROVE  /\ Occupied' = Occupied
         /\ SlotInv' /\ DeliveredInv'
         /\ \A p : Cached(p) => Cached(p)'
<1>1. UNCHANGED <<rd, delivered, redelivered>>
  BY RxOnlyOccupies
<1>2. Occupied' = Occupied
  BY DEF Occupied
<1>3. \A s \in Occupied : buff_from_here'[s] = buff_from_here[s]
  BY RxKeepsSlots DEF CacheInv
<1>4. \A s \in Wiped : s \in Occupied
  BY WipedOccupied DEF CacheInv
<1>5. SlotInv'
  BY <1>1, <1>2, <1>3, <1>4, SameReader DEF CacheInv, SlotInv
<1>6. DeliveredInv'
  BY <1>1, <1>2, <1>3, SameReader DEF CacheInv, DeliveredInv
<1>7. \A p : Cached(p) => Cached(p)'
  BY <1>2, <1>3 DEF Cached, Whole
<1>. QED BY <1>2, <1>5, <1>6, <1>7

LEMMA WriterOnly ==
  ASSUME OneCpu, NEW c \in Cpus
  PROVE  \A d \in Cpus : d = c
  BY DEF OneCpu

LEMMA RxEnterStep ==
  ASSUME OneCpu, TypeOK, CacheInv, NEW c \in Cpus, RxEnter(c)
  PROVE  CacheInv'
<1>1. /\ rx[c].pc = "idle" /\ arrived' = arrived + 1 /\ arrived \in Nat
      /\ rx'[c].pc = "count" /\ rx'[c].pkt = arrived + 1
      /\ UNCHANGED <<status, buff_from_here, dropped, rd, delivered, redelivered>>
  BY CacheSizes DEF RxEnter, TypeOK, TypeRx, RxState, TypeHistory, ring, reading
<1>2. Occupied' = Occupied
  BY <1>1 DEF Occupied
<1>3. \A s \in Occupied : buff_from_here[s].head \in 0 .. arrived
  BY <1>1 DEF CacheInv, SlotInv
<1>4. WriterInv'
  BY <1>1, <1>2, <1>3, WriterOnly DEF WriterInv, CacheInv, DeliveredInv
<1>5. SlotInv'
  BY <1>1, <1>2, SameReader DEF CacheInv, SlotInv
<1>6. DeliveredInv'
  BY <1>1, <1>2, SameReader DEF CacheInv, DeliveredInv
<1>7. NoSilentLoss'
  <2>. SUFFICES ASSUME NEW p \in 1 .. arrived + 1
                PROVE  InHandler(p)' \/ Cached(p)' \/ p \in dropped \cup delivered
    BY <1>1 DEF NoSilentLoss
  <2>1. CASE p = arrived + 1
    BY <1>1, <2>1 DEF InHandler
  <2>2. CASE p # arrived + 1
    <3>1. p \in 1 .. arrived
      BY <1>1, <2>2
    <3>2. ~InHandler(p)
      BY <1>1, WriterOnly DEF InHandler
    <3>. QED BY <1>1, <1>2, <3>1, <3>2 DEF CacheInv, NoSilentLoss, Cached, Whole
  <2>. QED BY <2>1, <2>2
<1>8. rxhPacketIn(c)
  BY DEF rxhPacketIn
<1>. QED BY <1>4, <1>5, <1>6, <1>7, <1>8, RxKeepsReader DEF CacheInv

(* Searching, counting and moving the head: no packet changes hands.        *)
LEMMA RxSearchStep ==
  ASSUME OneCpu, TypeOK, CacheInv, NEW c \in Cpus,
         RxCount(c) \/ RxFree(c) \/ RxBusy(c) \/ RxNoSlot(c) \/ RxAdvance(c)
  PROVE  CacheInv'
<1>1. /\ UNCHANGED <<status, buff_from_here, arrived, dropped, delivered>>
      /\ rx'[c].pkt = rx[c].pkt
      /\ rx[c].pc \in {"idle", "advance"} <=> rx'[c].pc = "idle"
      /\ rx'[c].pc \notin {"tail", "publish", "advance"}
  BY DEF RxCount, RxFree, RxBusy, RxNoSlot, RxAdvance, TypeOK, TypeRx, RxState, ring, reading
<1>2. rx'[c].pc = "head" => IsFree(rx'[c].write_index)
  BY DEF RxCount, RxFree, RxBusy, RxNoSlot, RxAdvance, TypeOK, TypeRx, RxState
<1>3. rxhPacketIn(c)
  BY DEF rxhPacketIn
<1>4. SlotInv' /\ DeliveredInv' /\ Occupied' = Occupied /\ \A p : Cached(p) => Cached(p)'
  BY <1>1, <1>3, RxKeepsCached
<1>5. WriterInv'
  BY <1>1, <1>2, <1>4, WriterOnly DEF CacheInv, WriterInv, IsFree
<1>6. NoSilentLoss'
  <2>1. \A p : InHandler(p) => InHandler(p)'
    BY <1>1, WriterOnly DEF InHandler
  <2>. QED BY <1>1, <1>4, <2>1 DEF CacheInv, NoSilentLoss
<1>. QED BY <1>3, <1>4, <1>5, <1>6, RxKeepsReader DEF CacheInv

LEMMA RxOverflowStep ==
  ASSUME OneCpu, TypeOK, CacheInv, NEW c \in Cpus, RxOverflow(c)
  PROVE  CacheInv'
<1>1. /\ UNCHANGED <<status, buff_from_here, arrived, rd, delivered, redelivered>>
      /\ rx[c].pc = "overflow" /\ rx'[c].pc = "idle" /\ rx'[c].pkt = rx[c].pkt
      /\ dropped' = dropped \cup {rx[c].pkt}
  BY DEF RxOverflow, TypeOK, TypeRx, RxState, ring, reading
<1>2. rx[c].pkt \in 1 .. arrived /\ Occupied' = Occupied
  BY <1>1 DEF CacheInv, WriterInv, TypeOK, TypeRx, TypeHistory, Packets, Occupied
<1>3. rx[c].pkt \notin delivered /\ \A s \in Occupied : buff_from_here[s].head # rx[c].pkt
  BY <1>1 DEF CacheInv, WriterInv
<1>4. WriterInv'
  BY <1>1, WriterOnly DEF CacheInv, WriterInv
<1>5. SlotInv'
  BY <1>1, <1>2, <1>3, SameReader DEF CacheInv, SlotInv
<1>6. DeliveredInv'
  BY <1>1, <1>2, <1>3, SameReader DEF CacheInv, DeliveredInv
<1>7. NoSilentLoss'
  <2>1. \A p : InHandler(p) => p \in dropped'
    BY <1>1, WriterOnly DEF InHandler
  <2>2. \A p : Cached(p) => Cached(p)'
    BY <1>1, <1>2 DEF Cached, Whole
  <2>. QED BY <1>1, <2>1, <2>2 DEF CacheInv, NoSilentLoss
<1>8. rxhPacketIn(c)
  BY DEF rxhPacketIn
<1>. QED BY <1>4, <1>5, <1>6, <1>7, <1>8, RxKeepsReader DEF CacheInv

(* Copying: the slot is not occupied yet, so only the writer can tell.      *)
LEMMA RxCopyStep ==
  ASSUME OneCpu, TypeOK, CacheInv, NEW c \in Cpus, RxCopyHead(c) \/ RxCopyTail(c)
  PROVE  CacheInv'
<1>1. /\ UNCHANGED <<status, arrived, dropped, rd, delivered, redelivered>>
      /\ rx'[c].pkt = rx[c].pkt /\ rx'[c].write_index = rx[c].write_index
      /\ rx[c].write_index \in Slots
      /\ rx[c].pc \in {"head", "tail"}
      /\ rx'[c].pc \in {"tail", "publish"}
      /\ IsFree(rx[c].write_index)
  BY DEF RxCopyHead, RxCopyTail, TypeOK, TypeRx, RxState, CacheInv, WriterInv, reading
<1>2. rxhPacketIn(c)
  BY DEF rxhPacketIn
<1>3. SlotInv' /\ DeliveredInv' /\ Occupied' = Occupied /\ \A p : Cached(p) => Cached(p)'
  BY <1>1, <1>2, RxKeepsCached
<1>4. /\ buff_from_here'[rx[c].write_index].head = rx[c].pkt
      /\ rx'[c].pc = "publish" => buff_from_here'[rx[c].write_index].tail = rx[c].pkt
  <2>1. CASE RxCopyHead(c)
    BY <1>1, <2>1 DEF RxCopyHead, TypeOK, TypeRing, Cells, TypeRx, RxState
  <2>2. CASE RxCopyTail(c)
    BY <1>1, <2>2 DEF RxCopyTail, TypeOK, TypeRing, Cells, TypeRx, RxState, CacheInv, WriterInv
  <2>. QED BY <2>1, <2>2
<1>5. /\ \A s \in Occupied : buff_from_here'[s] = buff_from_here[s]
      /\ IsFree(rx[c].write_index)'
  BY <1>1, <1>2, RxKeepsSlots DEF CacheInv, IsFree
<1>6. WriterInv'
  BY <1>1, <1>3, <1>4, <1>5, WriterOnly DEF CacheInv, WriterInv
<1>7. NoSilentLoss'
  <2>1. \A p : InHandler(p) => InHandler(p)'
    BY <1>1, WriterOnly DEF InHandler
  <2>. QED BY <1>1, <1>3, <2>1 DEF CacheInv, NoSilentLoss
<1>. QED BY <1>2, <1>3, <1>6, <1>7, RxKeepsReader DEF CacheInv

LEMMA RxPublishStep ==
  ASSUME OneCpu, TypeOK, CacheInv, NEW c \in Cpus, RxPublish(c)
  PROVE  CacheInv'
<1> DEFINE w == rx[c].write_index
<1>1. /\ UNCHANGED <<buff_from_here, arrived, dropped, rd, delivered, redelivered>>
      /\ rx'[c].pkt = rx[c].pkt /\ rx[c].pc = "publish" /\ rx'[c].pc = "advance"
      /\ w \in Slots /\ IsFree(w) /\ rx[c].pkt = arrived /\ rx[c].pkt \in Packets
      /\ arrived \in Nat /\ status' = [status EXCEPT ![w] = 1]
  BY CacheSizes DEF RxPublish, TypeOK, TypeRx, RxState, TypeHistory, CacheInv, WriterInv, reading
<1>2. Occupied' = Occupied \cup {w} /\ w \notin Occupied
  BY <1>1 DEF Occupied, IsFree, TypeOK, TypeRing
<1>3. /\ buff_from_here[w].head = arrived /\ buff_from_here[w].tail = arrived
      /\ buff_from_here[w] = Whole(rx[c].pkt) /\ arrived \in 1 .. arrived
      /\ arrived \notin delivered \cup dropped
      /\ \A s \in Occupied : buff_from_here[s].head # arrived
  BY <1>1 DEF CacheInv, WriterInv, TypeOK, TypeRing, Cells, Whole, Packets
<1>4. WriterInv'
  BY <1>1, WriterOnly DEF CacheInv, WriterInv
<1>5. SlotInv'
  <2>1. Wiped' = Wiped
    BY <1>1, SameReader
  <2>. QED BY <1>1, <1>2, <1>3, <2>1 DEF CacheInv, SlotInv
<1>6. DeliveredInv'
  BY <1>1, <1>2, <1>3, SameReader DEF CacheInv, DeliveredInv
<1>7. NoSilentLoss'
  <2>1. \A p : InHandler(p) => Cached(p)'
    BY <1>1, <1>2, <1>3, WriterOnly DEF InHandler, Cached, Whole
  <2>2. \A p : Cached(p) => Cached(p)'
    BY <1>1, <1>2 DEF Cached, Whole
  <2>. QED BY <1>1, <2>1, <2>2 DEF CacheInv, NoSilentLoss
<1>8. rxhPacketIn(c)
  BY DEF rxhPacketIn
<1>. QED BY <1>4, <1>5, <1>6, <1>7, <1>8, RxKeepsReader DEF CacheInv

LEMMA RxKeepsCacheInv ==
  ASSUME OneCpu, TypeOK, CacheInv, NEW c \in Cpus, rxhPacketIn(c)
  PROVE  CacheInv'
BY RxEnterStep, RxSearchStep, RxOverflowStep, RxCopyStep, RxPublishStep DEF rxhPacketIn

-----------------------------------------------------------------------------
(* The steps of the reader.                                                 *)

LEMMA ReaderOnly ==
  ASSUME OneReader, NEW r \in Readers
  PROVE  (\A q \in Readers : q = r) /\ Wiped = BeingWiped(r)
  BY DEF OneReader, Wiped

LEMMA ScanTypes ==
  ASSUME TypeOK, NEW r \in Readers
  PROVE  /\ rd[r].ci \in Slots /\ rd[r].try \in Nat /\ rd[r].copied_pkts \in Nat
         /\ rd[r].clean \in Nat
         /\ \A k \in Entries : k \in Nat /\ rd[r].copied_index[k] \in Slots \cup {-1}
         /\ Scanning(r) => rd[r].copied_pkts \in Entries /\ rd[r].try < MAX_PKT
  BY CacheSizes DEF TypeOK, TypeRd, RdState, Entries, Scanning

(* Steps that collect nothing and free nothing.                             *)
LEMMA ReadKeepsRing ==
  ASSUME TypeOK, CacheInv, UNCHANGED <<ring, handling, delivered, redelivered>>,
         Wiped' = Wiped, \A r \in Readers : ToFree(r)' = ToFree(r)
  PROVE  WriterInv' /\ SlotInv' /\ FreeingInv' /\ DeliveredInv' /\ NoSilentLoss'
<1>1. Occupied' = Occupied /\ \A s : IsFree(s)' = IsFree(s)
  BY DEF Occupied, IsFree, ring
<1>2. WriterInv'
  BY <1>1 DEF CacheInv, WriterInv, ring, handling
<1>3. SlotInv' /\ FreeingInv'
  BY <1>1 DEF CacheInv, SlotInv, FreeingInv, ring, handling
<1>4. DeliveredInv'
  BY <1>1 DEF CacheInv, DeliveredInv, ring, handling
<1>5. NoSilentLoss'
  BY <1>1 DEF CacheInv, NoSilentLoss, InHandler, Cached, Whole, ring, handling
<1>. QED BY <1>2, <1>3, <1>4, <1>5

LEMMA ReadBeginStep ==
  ASSUME OneReader, TypeOK, CacheInv, NEW r \in Readers, ReadBegin(r)
  PROVE  CacheInv'
<1>1. /\ rd[r].pc = "idle" /\ rd'[r].pc = "scan" /\ rd'[r].copied_pkts = 0
      /\ rd'[r].copied_index = [k \in Entries |-> -1]
      /\ buff_temp' = [k \in Entries |-> Blank]
      /\ UNCHANGED <<ring, handling, delivered, redelivered>>
  BY DEF ReadBegin, TypeOK, TypeRd, RdState
<1>2. Wiped' = Wiped /\ \A q \in Readers : ToFree(q)' = ToFree(q)
  BY <1>1, ReaderOnly DEF Wiped, BeingWiped, ToFree, Returned
<1>3. \A k \in Entries : k \in Nat
  BY ScanTypes
<1>4. CollectedInv'
  BY <1>1, <1>3, ReaderOnly DEF CollectedInv
<1>5. MirrorInv'
  BY <1>1, <1>3, ReaderOnly DEF MirrorInv, Blank
<1>. QED BY <1>1, <1>2, <1>4, <1>5, ReadKeepsRing DEF CacheInv

LEMMA ReadSkipStep ==
  ASSUME OneReader, TypeOK, CacheInv, NEW r \in Readers, ReadSkip(r)
  PROVE  CacheInv'
<1>1. /\ rd[r].pc = "scan" /\ rd'[r].pc = "scan" /\ IsFree(rd[r].ci)
      /\ rd'[r].copied_pkts = rd[r].copied_pkts
      /\ rd'[r].copied_index = rd[r].copied_index
      /\ rd'[r].ci = After(rd[r].ci) /\ rd'[r].try = rd[r].try + 1
      /\ UNCHANGED <<ring, handling, buff_temp, delivered, redelivered>>
  BY DEF ReadSkip, TypeOK, TypeRd, RdState
<1>2. Wiped' = Wiped /\ \A q \in Readers : ToFree(q)' = ToFree(q)
  BY <1>1, ReaderOnly DEF Wiped, BeingWiped, ToFree, Returned
<1>3. CollectedInv'
  BY <1>1, ReaderOnly DEF CacheInv, CollectedInv
<1>4. \A s \in Occupied : Back(s, rd[r].ci) <= rd[r].try
                            => Back(s, After(rd[r].ci)) <= rd[r].try + 1
  <2>. SUFFICES ASSUME NEW s \in Occupied, Back(s, rd[r].ci) <= rd[r].try
                PROVE  Back(s, After(rd[r].ci)) <= rd[r].try + 1
    OBVIOUS
  <2>1. s \in Slots /\ rd[r].ci \in Slots /\ s # rd[r].ci /\ rd[r].try \in Nat
    BY <1>1, ScanTypes DEF Occupied, IsFree
  <2>2. Back(s, After(rd[r].ci)) = Back(s, rd[r].ci) + 1 /\ Back(s, rd[r].ci) \in 1 .. MAX_PKT
    BY <2>1, BackIs
  <2>. QED BY <2>1, <2>2, CacheSizes
<1>5. Occupied' = Occupied /\ \A s, i : Back(s, i)' = Back(s, i)
  BY <1>1 DEF Occupied, ring, Back
<1>6. MirrorInv'
  BY <1>1, <1>4, <1>5, ReaderOnly DEF CacheInv, MirrorInv, ring
<1>. QED BY <1>1, <1>2, <1>3, <1>6, ReadKeepsRing DEF CacheInv

LEMMA ReadGrabHeadStep ==
  ASSUME OneReader, TypeOK, CacheInv, NEW r \in Readers, ReadGrabHead(r)
  PROVE  CacheInv'
<1> DEFINE n == rd[r].copied_pkts
<1>1. /\ rd[r].pc = "scan" /\ rd'[r].pc = "grab" /\ ~IsFree(rd[r].ci) /\ Scanning(r)
      /\ rd'[r].copied_pkts = rd[r].copied_pkts
      /\ rd'[r].copied_index = rd[r].copied_index
      /\ rd'[r].ci = rd[r].ci /\ rd'[r].try = rd[r].try
      /\ UNCHANGED <<ring, handling, delivered, redelivered>>
  BY DEF ReadGrabHead, TypeOK, TypeRd, RdState
<1>2. Wiped' = Wiped /\ \A q \in Readers : ToFree(q)' = ToFree(q)
  BY <1>1, ReaderOnly DEF Wiped, BeingWiped, ToFree, Returned
<1>3. CollectedInv'
  BY <1>1, ReaderOnly DEF CacheInv, CollectedInv
<1>4. /\ rd[r].ci \in Occupied /\ n \in Entries
      /\ \A k \in Entries : k \in Nat
  BY <1>1, ScanTypes DEF Occupied, IsFree
<1>5. /\ buff_temp'[n].head = buff_from_here[rd[r].ci].head
      /\ \A k \in Entries : k # n => buff_temp'[k] = buff_temp[k]
  BY <1>4 DEF ReadGrabHead, TypeOK, TypeHistory, Cells
<1>6. Occupied' = Occupied /\ \A s, i : Back(s, i)' = Back(s, i)
  BY <1>1 DEF Occupied, ring, Back
<1>7. MirrorInv'
  BY <1>1, <1>4, <1>5, <1>6, ReaderOnly DEF CacheInv, MirrorInv, ring
<1>. QED BY <1>1, <1>2, <1>3, <1>7, ReadKeepsRing DEF CacheInv

(* The slot just copied is none of those behind the scan.                   *)
LEMMA ReadGrabTailStep ==
  ASSUME OneReader, TypeOK, CacheInv, NEW r \in Readers, ReadGrabTail(r)
  PROVE  CacheInv'
<1> DEFINE n == rd[r].copied_pkts
           i == rd[r].ci
<1>0. /\ rd[r].pc = "grab" /\ Scanning(r) /\ i \in Slots /\ n \in Entries
      /\ rd[r].try \in Nat /\ rd[r].try < MAX_PKT /\ n \in Nat /\ MAX_PKT \in Nat
      /\ \A k \in Entries : k \in Nat /\ rd[r].copied_index[k] \in Slots \cup {-1}
  BY ScanTypes, CacheSizes DEF ReadGrabTail, TypeOK, TypeRd
<1>1. /\ rd'[r].pc = "scan" /\ rd'[r].copied_pkts = n + 1
      /\ rd'[r].copied_index = [rd[r].copied_index EXCEPT ![n] = i]
      /\ rd'[r].ci = After(i) /\ rd'[r].try = rd[r].try + 1
      /\ UNCHANGED <<ring, handling, delivered, redelivered>>
  BY DEF ReadGrabTail, TypeOK, TypeRd, RdState
<1>2. Wiped' = Wiped /\ \A q \in Readers : ToFree(q)' = ToFree(q)
  BY <1>0, <1>1, ReaderOnly DEF Wiped, BeingWiped, ToFree, Returned
<1>3. /\ rd'[r].copied_index[n] = i /\ i # -1
      /\ \A k \in Entries : k # n => rd'[r].copied_index[k] = rd[r].copied_index[k]
  BY <1>0, <1>1, CacheSizes DEF TypeOK, TypeRd, RdState, Slots
<1>4. \A k \in Entries : k < n =>
        /\ rd[r].copied_index[k] \in Occupied
        /\ buff_temp[k].head = buff_from_here[rd[r].copied_index[k]].head
        /\ buff_temp[k].tail = buff_from_here[rd[r].copied_index[k]].tail
        /\ Back(rd[r].copied_index[k], i) <= rd[r].try
  BY <1>0 DEF CacheInv, MirrorInv
<1>5. \A k \in Entries : k < n => /\ rd[r].copied_index[k] # i
                                  /\ Back(rd[r].copied_index[k], After(i)) <= rd[r].try + 1
  <2>. SUFFICES ASSUME NEW k \in Entries, k < n
                PROVE  /\ rd[r].copied_index[k] # i
                       /\ Back(rd[r].copied_index[k], After(i)) <= rd[r].try + 1
    OBVIOUS
  <2>1. rd[r].copied_index[k] \in Slots /\ Back(rd[r].copied_index[k], i) <= rd[r].try
    BY <1>4 DEF Occupied
  <2>2. Back(i, i) = MAX_PKT
    BY <1>0 DEF Back, Slots
  <2>3. rd[r].copied_index[k] # i
    BY <1>0, <2>1, <2>2
  <2>4. /\ Back(rd[r].copied_index[k], After(i)) = Back(rd[r].copied_index[k], i) + 1
        /\ Back(rd[r].copied_index[k], i) \in 1 .. MAX_PKT
    BY <1>0, <2>1, <2>3, BackIs
  <2>. QED BY <1>0, <2>1, <2>3, <2>4
<1>6. /\ i \in Occupied /\ Back(i, After(i)) = 1
      /\ buff_temp[n].head = buff_from_here[i].head
      /\ \A k \in Entries : k > n => buff_temp[k].head = 0 /\ buff_temp[k].tail = 0
  BY <1>0, BackIs DEF CacheInv, MirrorInv
<1>7. /\ buff_temp'[n].head = buff_from_here[i].head
      /\ buff_temp'[n].tail = buff_from_here[i].tail
      /\ \A k \in Entries : k # n => buff_temp'[k] = buff_temp[k]
  BY <1>0, <1>6 DEF ReadGrabTail, TypeOK, TypeHistory, Cells
<1>8. Occupied' = Occupied /\ \A s, j : Back(s, j)' = Back(s, j)
  BY <1>1 DEF Occupied, ring, Back
<1>9. CollectedInv'
  <2>1. \A k \in Entries : rd[r].copied_index[k] # -1 <=> k < n
    BY DEF CacheInv, CollectedInv
  <2>2. \A k \in Entries : rd'[r].copied_index[k] # -1 <=> k < n + 1
    BY <1>0, <1>3, <2>1
  <2>3. \A j, k \in Entries :
           rd'[r].copied_index[j] = rd'[r].copied_index[k] /\ rd'[r].copied_index[j] # -1
             => j = k
    BY <1>0, <1>3, <1>5, <2>1 DEF CacheInv, CollectedInv
  <2>4. \A q \in Readers : q = r
    BY ReaderOnly
  <2>5. rd'[r].copied_pkts = n + 1
    BY <1>1
  <2>. HIDE DEF n, i
  <2>. QED BY <2>2, <2>3, <2>4, <2>5 DEF CollectedInv
<1>10. MirrorInv'
  <2>1. \A k \in Entries : k < n + 1 =>
         /\ rd'[r].copied_index[k] \in Occupied
         /\ buff_temp'[k].head = buff_from_here[rd'[r].copied_index[k]].head
         /\ buff_temp'[k].tail = buff_from_here[rd'[r].copied_index[k]].tail
         /\ Back(rd'[r].copied_index[k], After(i)) <= rd[r].try + 1
    BY <1>0, <1>3, <1>4, <1>5, <1>6, <1>7
  <2>2. \A k \in Entries : k >= n + 1 => buff_temp'[k].head = 0 /\ buff_temp'[k].tail = 0
    BY <1>0, <1>6, <1>7
  <2>3. \A k \in Entries : k \in Nat /\ n \in Nat
    BY <1>0
  <2>4. \A q \in Readers : q = r
    BY ReaderOnly
  <2>5. \A k \in Entries :
           k > n + 1 \/ (k = n + 1 /\ rd'[r].pc = "scan")
             => buff_temp'[k].head = 0 /\ buff_temp'[k].tail = 0
    BY <2>2, <2>3
  <2>. HIDE DEF n, i
  <2>6. \A k \in Entries : k < rd'[r].copied_pkts =>
         /\ rd'[r].copied_index[k] \in Occupied'
         /\ buff_temp'[k].head = buff_from_here'[rd'[r].copied_index[k]].head
         /\ buff_temp'[k].tail = buff_from_here'[rd'[r].copied_index[k]].tail
         /\ Back(rd'[r].copied_index[k], rd'[r].ci) <= rd'[r].try
    <3>1. UNCHANGED buff_from_here /\ rd'[r].copied_pkts = n + 1
          /\ rd'[r].ci = After(i) /\ rd'[r].try = rd[r].try + 1
      BY <1>1 DEF ring
    <3>. SUFFICES ASSUME NEW k \in Entries, k < rd'[r].copied_pkts
                  PROVE  /\ rd'[r].copied_index[k] \in Occupied'
                         /\ buff_temp'[k].head = buff_from_here'[rd'[r].copied_index[k]].head
                         /\ buff_temp'[k].tail = buff_from_here'[rd'[r].copied_index[k]].tail
                         /\ Back(rd'[r].copied_index[k], rd'[r].ci) <= rd'[r].try
      OBVIOUS
    <3>3. k < n + 1
      BY <3>1
    <3>. QED BY <1>8, <2>1, <3>1, <3>3
  <2>7. \A k \in Entries :
           k > rd'[r].copied_pkts \/ (k = rd'[r].copied_pkts /\ rd'[r].pc = "scan")
             => buff_temp'[k].head = 0 /\ buff_temp'[k].tail = 0
    <3>1. rd'[r].copied_pkts = n + 1
      BY <1>1
    <3>. QED BY <2>5, <3>1
  <2>8. rd'[r].pc # "grab"
    BY <1>1
  <2>. QED BY <2>4, <2>6, <2>7, <2>8 DEF MirrorInv
<1>. QED BY <1>1, <1>2, <1>9, <1>10, ReadKeepsRing DEF CacheInv

(* What a finished scan hands over are packets in occupied slots it copied. *)
LEMMA HandedIsCopied ==
  ASSUME OneReader, TypeOK, CacheInv, NEW r \in Readers, rd[r].pc = "scan",
         NEW k \in Entries, buff_temp[k].head # 0
  PROVE  /\ rd[r].copied_index[k] \in Occupied
         /\ buff_from_here[rd[r].copied_index[k]].head = buff_temp[k].head
         /\ buff_temp[k].head \in (1 .. arrived) \ dropped
<1>1. k < rd[r].copied_pkts
  BY ScanTypes DEF CacheInv, MirrorInv
<1>2. Wiped = {}
  BY ReaderOnly DEF BeingWiped
<1>3. /\ rd[r].copied_index[k] \in Occupied
      /\ buff_from_here[rd[r].copied_index[k]].head = buff_temp[k].head
  BY <1>1 DEF CacheInv, MirrorInv
<1>. QED BY <1>2, <1>3 DEF CacheInv, SlotInv

LEMMA HandOverInv ==
  ASSUME OneReader, TypeOK, CacheInv, NEW r \in Readers, rd[r].pc = "scan",
         NEW n \in Nat, HandOver(n), UNCHANGED <<ring, handling>>
  PROVE  /\ WriterInv' /\ NoSilentLoss' /\ Occupied' = Occupied
         /\ delivered \subseteq delivered'
         /\ delivered' \cup dropped \subseteq 1 .. arrived /\ delivered' \cap dropped = {}
<1>1. Occupied' = Occupied /\ \A s : IsFree(s)' = IsFree(s)
  BY DEF Occupied, IsFree, ring
<1>2. /\ delivered' = delivered \cup Handed(n)
      /\ UNCHANGED <<status, buff_from_here, rx, arrived, dropped>>
  BY DEF HandOver, ring, handling
<1>3. \A p \in Handed(n) : /\ p \in (1 .. arrived) \ dropped
                           /\ \E s \in Occupied : buff_from_here[s].head = p
  BY HandedIsCopied DEF Handed
<1>4. WriterInv'
  BY <1>1, <1>2, <1>3 DEF CacheInv, WriterInv
<1>5. NoSilentLoss'
  BY <1>1, <1>2 DEF CacheInv, NoSilentLoss, InHandler, Cached, Whole
<1>. QED BY <1>1, <1>2, <1>3, <1>4, <1>5 DEF CacheInv, DeliveredInv

LEMMA ReadDeliverStep ==
  ASSUME OneReader, TypeOK, CacheInv, NEW r \in Readers, ReadDeliver(r)
  PROVE  CacheInv'
<1>1. /\ rd[r].pc = "scan" /\ rd'[r].pc = "clean" /\ rd'[r].clean = 0
      /\ rd'[r].copied_index = rd[r].copied_index
      /\ rd'[r].copied_pkts = rd[r].copied_pkts
      /\ UNCHANGED <<ring, handling, buff_temp>> /\ HandOver(PKTS_PER_BUFFER)
      /\ PKTS_PER_BUFFER \in Nat
  BY CacheSizes DEF ReadDeliver, TypeOK, TypeRd, RdState
<1>2. /\ Wiped = {} /\ Wiped' = {} /\ ToFree(r) = {}
      /\ ToFree(r)' = Copied(r)
  BY <1>1, ReaderOnly, ScanTypes DEF Wiped, BeingWiped, ToFree, Returned, Copied, Entries
<1>3. /\ WriterInv' /\ NoSilentLoss' /\ Occupied' = Occupied
      /\ delivered' \cup dropped \subseteq 1 .. arrived /\ delivered' \cap dropped = {}
  BY <1>1, HandOverInv
<1>4. \A k \in Entries : buff_temp[k].head # 0 =>
        /\ rd[r].copied_index[k] \in Occupied
        /\ buff_from_here[rd[r].copied_index[k]].head = buff_temp[k].head
  BY <1>1, HandedIsCopied
<1>5. /\ delivered' = delivered \cup Handed(PKTS_PER_BUFFER)
      /\ \A k \in Entries : buff_temp[k].head # 0
           => buff_temp[k].head \in Handed(PKTS_PER_BUFFER)
      /\ \A p \in Handed(PKTS_PER_BUFFER) :
           \E k \in Entries : p = buff_temp[k].head /\ p # 0
  BY <1>1 DEF HandOver, Handed, Entries
<1>6. \A k \in Entries : rd[r].copied_index[k] # -1 =>
        /\ rd[r].copied_index[k] \in Occupied
        /\ buff_temp[k].head = buff_from_here[rd[r].copied_index[k]].head
        /\ buff_temp[k].head # 0
  <2>. SUFFICES ASSUME NEW k \in Entries, rd[r].copied_index[k] # -1
                PROVE  /\ rd[r].copied_index[k] \in Occupied
                       /\ buff_temp[k].head = buff_from_here[rd[r].copied_index[k]].head
                       /\ buff_temp[k].head # 0
    OBVIOUS
  <2>1. k < rd[r].copied_pkts
    BY DEF CacheInv, CollectedInv
  <2>2. /\ rd[r].copied_index[k] \in Occupied
        /\ buff_temp[k].head = buff_from_here[rd[r].copied_index[k]].head
    BY <1>1, <2>1 DEF CacheInv, MirrorInv
  <2>. QED BY <1>2, <2>2 DEF CacheInv, SlotInv
<1>7. SlotInv'
  BY <1>1, <1>2, <1>3 DEF CacheInv, SlotInv, ring, handling
<1>8. CollectedInv' /\ MirrorInv'
  BY <1>1, ReaderOnly DEF CacheInv, CollectedInv, MirrorInv
<1>9. FreeingInv'
  <2>1. \A s \in Copied(r) : s \in Occupied /\ buff_from_here[s].head \in delivered'
    BY <1>5, <1>6 DEF Copied
  <2>. QED BY <1>1, <1>2, <1>3, <2>1, ReaderOnly DEF FreeingInv, ring
<1>10. ~UserFaults => \A s \in Occupied : buff_from_here[s].head \notin delivered
  BY <1>2, ReaderOnly DEF CacheInv, DeliveredInv
<1>11. ASSUME ~UserFaults PROVE redelivered' = {}
  <2>1. \A p \in Handed(PKTS_PER_BUFFER) : p \notin delivered
    BY <1>4, <1>5, <1>10, <1>11
  <2>2. ASSUME NEW j \in Entries, NEW k \in Entries, j < k,
               buff_temp[j].head = buff_temp[k].head, buff_temp[j].head # 0
        PROVE  FALSE
    <3>1. rd[r].copied_index[j] = rd[r].copied_index[k] /\ rd[r].copied_index[j] # -1
      <4>1. rd[r].copied_index[j] \in Slots
        BY <1>4, <2>2 DEF Occupied
      <4>. QED BY <1>4, <2>2, <4>1, CacheSizes DEF CacheInv, SlotInv, Slots
    <3>2. j = k
      BY <3>1 DEF CacheInv, CollectedInv
    <3>. QED BY <2>2, <3>2, ScanTypes
  <2>. QED BY <1>1, <1>5, <1>11, <2>1, <2>2 DEF HandOver, CacheInv, DeliveredInv
<1>12. ASSUME ~UserFaults
       PROVE  \A s \in Occupied : buff_from_here[s].head \in delivered' => s \in Copied(r)
  <2>. SUFFICES ASSUME NEW s \in Occupied, buff_from_here[s].head \in delivered'
                PROVE  s \in Copied(r)
    OBVIOUS
  <2>1. PICK k \in Entries : buff_from_here[s].head = buff_temp[k].head /\ buff_temp[k].head # 0
    BY <1>5, <1>10, <1>12
  <2>2. rd[r].copied_index[k] = s
    BY <1>4, <2>1 DEF CacheInv, SlotInv
  <2>3. s # -1
    BY CacheSizes DEF Occupied, Slots
  <2>. QED BY <2>2, <2>3 DEF Copied
<1>13. DeliveredInv'
  BY <1>1, <1>2, <1>3, <1>11, <1>12 DEF DeliveredInv, ring, handling
<1>. QED BY <1>3, <1>7, <1>8, <1>9, <1>13 DEF CacheInv

LEMMA ReadFaultStep ==
  ASSUME OneReader, TypeOK, CacheInv, NEW r \in Readers, ReadFault(r)
  PROVE  CacheInv'
<1>1. PICK n \in Entries : HandOver(n)
  BY StopsIs DEF ReadFault
<1>2. /\ UserFaults /\ rd[r].pc = "scan" /\ rd'[r].pc = "idle"
      /\ rd'[r].copied_index = rd[r].copied_index
      /\ rd'[r].copied_pkts = rd[r].copied_pkts
      /\ UNCHANGED <<ring, handling, buff_temp>> /\ n \in Nat
  BY ScanTypes DEF ReadFault, TypeOK, TypeRd, RdState
<1>3. Wiped' = Wiped /\ \A q \in Readers : ToFree(q) = {} /\ ToFree(q)' = {}
  BY <1>2, ReaderOnly DEF Wiped, BeingWiped, ToFree, Returned
<1>4. /\ WriterInv' /\ NoSilentLoss' /\ Occupied' = Occupied
      /\ delivered' \cup dropped \subseteq 1 .. arrived /\ delivered' \cap dropped = {}
  BY <1>1, <1>2, HandOverInv
<1>5. SlotInv'
  BY <1>2, <1>3, <1>4 DEF CacheInv, SlotInv, ring, handling
<1>6. CollectedInv' /\ MirrorInv'
  BY <1>2, ReaderOnly DEF CacheInv, CollectedInv, MirrorInv
<1>7. FreeingInv' /\ DeliveredInv'
  BY <1>2, <1>3, <1>4 DEF FreeingInv, DeliveredInv, handling
<1>. QED BY <1>4, <1>5, <1>6, <1>7 DEF CacheInv

LEMMA ReadWipeHeadStep ==
  ASSUME OneReader, TypeOK, CacheInv, NEW r \in Readers, ReadWipeHead(r)
  PROVE  CacheInv'
<1> DEFINE s == Cleaned(r)
<1>1. /\ rd[r].pc = "clean" /\ rd'[r].pc = "wipe" /\ s # -1
      /\ rd'[r].copied_index = rd[r].copied_index
      /\ rd'[r].copied_pkts = rd[r].copied_pkts /\ rd'[r].clean = rd[r].clean
      /\ UNCHANGED <<status, handling, buff_temp, delivered, redelivered>>
      /\ buff_from_here' = [buff_from_here EXCEPT ![s].head = 0]
  BY DEF ReadWipeHead, TypeOK, TypeRd, RdState
<1>2. /\ Wiped = {} /\ Wiped' = {s}
      /\ \A q \in Readers : ToFree(q)' = ToFree(q)
  <2>1. Cleaned(r)' = Cleaned(r) /\ Returned(r) /\ Returned(r)'
    BY <1>1 DEF Cleaned, Returned
  <2>2. BeingWiped(r) = {} /\ BeingWiped(r)' = {s}
    BY <1>1, <2>1 DEF BeingWiped
  <2>3. ToFree(r)' = ToFree(r)
    BY <1>1, <2>1 DEF ToFree
  <2>4. Wiped = BeingWiped(r) /\ Wiped' = BeingWiped(r)' /\ \A q \in Readers : q = r
    BY ReaderOnly DEF Wiped
  <2>. QED BY <2>2, <2>3, <2>4
<1>3. s \in ToFree(r)
  BY <1>1, CleanedToFree DEF Returned
<1>4. s \in Occupied /\ s \in Slots /\ buff_from_here[s].head \in delivered
  BY <1>2, <1>3 DEF CacheInv, FreeingInv, Occupied
<1>5. /\ buff_from_here'[s].head = 0
      /\ \A t \in Slots : t # s => buff_from_here'[t] = buff_from_here[t]
  BY <1>1, <1>4 DEF TypeOK, TypeRing, Cells
<1>6. Occupied' = Occupied /\ (\A t : IsFree(t)' = IsFree(t)) /\ Occupied \subseteq Slots
  BY <1>1 DEF Occupied, IsFree
<1>. HIDE DEF s
<1>7. WriterInv'
  <2>1. \A c \in Cpus : /\ rx[c].write_index \in Slots
                        /\ rx[c].pc # "idle" => rx[c].pkt # 0
    BY DEF TypeOK, TypeRx, RxState, Packets
  <2>2. \A c \in Cpus : IsFree(rx[c].write_index) => rx[c].write_index # s
    BY <1>4 DEF Occupied, IsFree
  <2>3. rx' = rx /\ arrived' = arrived /\ delivered' = delivered /\ dropped' = dropped
    BY <1>1 DEF handling
  <2>. QED BY <1>5, <1>6, <2>1, <2>2, <2>3 DEF CacheInv, WriterInv
<1>8. SlotInv'
  BY <1>1, <1>2, <1>5, <1>6 DEF CacheInv, SlotInv, handling
<1>9. CollectedInv' /\ MirrorInv'
  BY <1>1, ReaderOnly DEF CacheInv, CollectedInv, MirrorInv
<1>10. FreeingInv'
  BY <1>1, <1>2, <1>5, <1>6 DEF CacheInv, FreeingInv
<1>11. DeliveredInv'
  <2>1. 0 \notin delivered
    BY DEF CacheInv, DeliveredInv
  <2>. QED BY <1>1, <1>2, <1>5, <1>6, <2>1 DEF CacheInv, DeliveredInv, handling
<1>12. NoSilentLoss'
  <2>1. \A p : Cached(p) => Cached(p)' \/ p \in delivered
    BY <1>4, <1>5, <1>6 DEF Cached, Whole
  <2>. QED BY <1>1, <2>1 DEF CacheInv, NoSilentLoss, InHandler, handling
<1>. QED BY <1>7, <1>8, <1>9, <1>10, <1>11, <1>12 DEF CacheInv

LEMMA ReadWipeTailStep ==
  ASSUME OneReader, TypeOK, CacheInv, NEW r \in Readers, ReadWipeTail(r)
  PROVE  CacheInv'
<1> DEFINE s == Cleaned(r)
<1>1. /\ rd[r].pc = "wipe" /\ rd'[r].pc = "free" /\ s # -1
      /\ rd'[r].copied_index = rd[r].copied_index
      /\ rd'[r].copied_pkts = rd[r].copied_pkts /\ rd'[r].clean = rd[r].clean
      /\ UNCHANGED <<status, handling, buff_temp, delivered, redelivered>>
      /\ buff_from_here' = [buff_from_here EXCEPT ![s].tail = 0]
  BY DEF ReadWipeTail, TypeOK, TypeRd, RdState
<1>2. /\ Wiped = {s} /\ Wiped' = {s}
      /\ \A q \in Readers : ToFree(q)' = ToFree(q)
  <2>1. Cleaned(r)' = Cleaned(r) /\ Returned(r) /\ Returned(r)'
    BY <1>1 DEF Cleaned, Returned
  <2>2. BeingWiped(r) = {s} /\ BeingWiped(r)' = {s}
    BY <1>1, <2>1 DEF BeingWiped
  <2>3. ToFree(r)' = ToFree(r)
    BY <1>1, <2>1 DEF ToFree
  <2>4. Wiped = BeingWiped(r) /\ Wiped' = BeingWiped(r)' /\ \A q \in Readers : q = r
    BY ReaderOnly DEF Wiped
  <2>. QED BY <2>2, <2>3, <2>4
<1>3. s \in ToFree(r)
  BY <1>1, CleanedToFree DEF Returned
<1>4. s \in Occupied /\ s \in Slots /\ buff_from_here[s].head = 0
  BY <1>2, <1>3 DEF CacheInv, FreeingInv, SlotInv, Occupied
<1>5. /\ \A t \in Slots : t # s => buff_from_here'[t] = buff_from_here[t]
      /\ \A t \in Slots : buff_from_here'[t].head = buff_from_here[t].head
  BY <1>1, <1>4 DEF TypeOK, TypeRing, Cells
<1>6. Occupied' = Occupied /\ (\A t : IsFree(t)' = IsFree(t)) /\ Occupied \subseteq Slots
  BY <1>1 DEF Occupied, IsFree
<1>. HIDE DEF s
<1>7. WriterInv'
  <2>1. \A c \in Cpus : rx[c].write_index \in Slots
    BY DEF TypeOK, TypeRx, RxState
  <2>2. \A c \in Cpus : IsFree(rx[c].write_index) => rx[c].write_index # s
    BY <1>4 DEF Occupied, IsFree
  <2>3. rx' = rx /\ arrived' = arrived /\ delivered' = delivered /\ dropped' = dropped
    BY <1>1 DEF handling
  <2>. QED BY <1>5, <1>6, <2>1, <2>2, <2>3 DEF CacheInv, WriterInv
<1>8. SlotInv'
  BY <1>1, <1>2, <1>5, <1>6 DEF CacheInv, SlotInv, handling
<1>9. CollectedInv' /\ MirrorInv'
  BY <1>1, ReaderOnly DEF CacheInv, CollectedInv, MirrorInv
<1>10. FreeingInv'
  BY <1>1, <1>2, <1>5, <1>6 DEF CacheInv, FreeingInv
<1>11. DeliveredInv'
  BY <1>1, <1>2, <1>5, <1>6 DEF CacheInv, DeliveredInv, handling
<1>12. NoSilentLoss'
  <2>1. \A p : Cached(p) /\ p # 0 => Cached(p)'
    BY <1>4, <1>5, <1>6 DEF Cached, Whole
  <2>. QED BY <1>1, <2>1 DEF CacheInv, NoSilentLoss, InHandler, handling
<1>. QED BY <1>7, <1>8, <1>9, <1>10, <1>11, <1>12 DEF CacheInv

(* The slot freed leaves ToFree, and no other slot does.                    *)
LEMMA ReadFreeStep ==
  ASSUME OneReader, TypeOK, CacheInv, NEW r \in Readers, ReadFree(r)
  PROVE  CacheInv'
<1> DEFINE s == Cleaned(r)
<1>1. /\ rd[r].pc = "free" /\ rd'[r].pc = "clean" /\ s # -1
      /\ rd'[r].copied_index = rd[r].copied_index
      /\ rd'[r].copied_pkts = rd[r].copied_pkts /\ rd'[r].clean = rd[r].clean + 1
      /\ UNCHANGED <<buff_from_here, handling, buff_temp, delivered, redelivered>>
      /\ status' = [status EXCEPT ![s] = 0]
  BY DEF ReadFree, TypeOK, TypeRd, RdState
<1>2. Wiped = {s} /\ Wiped' = {}
  BY <1>1, ReaderOnly DEF Wiped, BeingWiped
<1>3. s \in ToFree(r) /\ rd[r].clean \in Entries /\ s = rd[r].copied_index[rd[r].clean]
  BY <1>1, CleanedToFree DEF Returned, Cleaned
<1>4. s \in Occupied /\ s \in Slots /\ buff_from_here[s].head = 0
  BY <1>2, <1>3 DEF CacheInv, FreeingInv, SlotInv, Occupied
<1>. HIDE DEF s
<1>5. Occupied' = Occupied \ {s} /\ (\A t \in Slots : IsFree(t) => IsFree(t)')
  BY <1>1, <1>4 DEF Occupied, IsFree, TypeOK, TypeRing
<1>6. ToFree(r)' = ToFree(r) \ {s}
  <2>1. /\ ToFree(r) = {rd[r].copied_index[k] : k \in {j \in Entries : j >= rd[r].clean}} \ {-1}
        /\ ToFree(r)' = {rd[r].copied_index[k] : k \in {j \in Entries : j >= rd[r].clean + 1}} \ {-1}
    BY <1>1 DEF ToFree, Returned
  <2>2. \A k \in Entries : rd[r].copied_index[k] = s => k = rd[r].clean
    BY <1>1, <1>3 DEF CacheInv, CollectedInv
  <2>3. rd[r].clean \in Nat /\ \A k \in Entries : k \in Nat
    BY ScanTypes
  <2>. QED BY <1>3, <2>1, <2>2, <2>3
<1>7. WriterInv'
  <2>1. \A c \in Cpus : rx[c].write_index \in Slots
    BY DEF TypeOK, TypeRx, RxState
  <2>. QED BY <1>1, <1>5, <2>1 DEF CacheInv, WriterInv, handling
<1>8. SlotInv'
  BY <1>1, <1>2, <1>5 DEF CacheInv, SlotInv, handling
<1>9. CollectedInv' /\ MirrorInv'
  BY <1>1, ReaderOnly DEF CacheInv, CollectedInv, MirrorInv
<1>10. FreeingInv'
  BY <1>1, <1>2, <1>5, <1>6, ReaderOnly DEF CacheInv, FreeingInv
<1>11. DeliveredInv'
  BY <1>1, <1>5, <1>6, ReaderOnly DEF CacheInv, DeliveredInv, handling
<1>12. NoSilentLoss'
  <2>1. \A p : Cached(p) /\ p # 0 => Cached(p)'
    BY <1>1, <1>4, <1>5 DEF Cached, Whole
  <2>. QED BY <1>1, <2>1 DEF CacheInv, NoSilentLoss, InHandler, handling
<1>. QED BY <1>7, <1>8, <1>9, <1>10, <1>11, <1>12 DEF CacheInv

LEMMA ReadReturnStep ==
  ASSUME OneReader, TypeOK, CacheInv, NEW r \in Readers, ReadReturn(r)
  PROVE  CacheInv'
<1>1. /\ rd[r].pc = "clean" /\ rd'[r].pc = "idle" /\ Cleaned(r) = -1
      /\ rd'[r].copied_index = rd[r].copied_index
      /\ rd'[r].copied_pkts = rd[r].copied_pkts
      /\ UNCHANGED <<ring, handling, buff_temp, delivered, redelivered>>
  BY DEF ReadReturn, TypeOK, TypeRd, RdState
<1>2. Wiped' = Wiped
  BY <1>1, ReaderOnly DEF Wiped, BeingWiped
<1>3. \A k \in Entries : k >= rd[r].clean => rd[r].copied_index[k] = -1
  <2>1. rd[r].clean \in Nat /\ rd[r].copied_pkts \in Nat /\ \A k \in Entries : k \in Nat
    BY ScanTypes
  <2>2. \A k \in Entries : rd[r].copied_index[k] # -1 <=> k < rd[r].copied_pkts
    BY DEF CacheInv, CollectedInv
  <2>3. (\E k \in Entries : k >= rd[r].clean) => rd[r].clean \in Entries
    BY <2>1, CacheSizes DEF Entries
  <2>4. rd[r].clean \in Entries => rd[r].copied_index[rd[r].clean] = -1
    BY <1>1 DEF Cleaned
  <2>. QED BY <2>1, <2>2, <2>3, <2>4
<1>4. \A q \in Readers : ToFree(q)' = ToFree(q)
  BY <1>1, <1>3, ReaderOnly DEF ToFree, Returned
<1>5. CollectedInv' /\ MirrorInv'
  BY <1>1, ReaderOnly DEF CacheInv, CollectedInv, MirrorInv
<1>. QED BY <1>1, <1>2, <1>4, <1>5, ReadKeepsRing DEF CacheInv

LEMMA ReadKeepsCacheInv ==
  ASSUME OneReader, TypeOK, CacheInv, NEW r \in Readers, read(r)
  PROVE  CacheInv'
BY ReadBeginStep, ReadSkipStep, ReadGrabHeadStep, ReadGrabTailStep, ReadDeliverStep,
   ReadFaultStep, ReadWipeHeadStep, ReadWipeTailStep, ReadFreeStep, ReadReturnStep DEF read

-----------------------------------------------------------------------------
LEMMA CacheInvHolds == ASSUME OneCpu, OneReader PROVE Spec => []CacheInv
<1>1. Init => CacheInv
  <2>. SUFFICES ASSUME Init PROVE CacheInv
    OBVIOUS
  <2>. USE CacheSizes DEF Init
  <2>1. Occupied = {} /\ Wiped = {} /\ \A r \in Readers : ToFree(r) = {}
    BY DEF Occupied, Wiped, BeingWiped, ToFree, Returned
  <2>2. WriterInv
    BY <2>1 DEF WriterInv
  <2>3. SlotInv /\ FreeingInv /\ DeliveredInv
    BY <2>1 DEF SlotInv, FreeingInv, DeliveredInv
  <2>4. CollectedInv /\ MirrorInv
    BY DEF CollectedInv, MirrorInv, Entries
  <2>5. NoSilentLoss
    BY DEF NoSilentLoss
  <2>. QED BY <2>2, <2>3, <2>4, <2>5 DEF CacheInv
<1>2. TypeOK /\ CacheInv /\ [Next]_vars => CacheInv'
  <2>. SUFFICES ASSUME TypeOK, CacheInv, [Next]_vars PROVE CacheInv'
    OBVIOUS
  <2>1. ASSUME NEW c \in Cpus, rxhPacketIn(c) PROVE CacheInv'
    BY <2>1, RxKeepsCacheInv
  <2>2. ASSUME NEW r \in Readers, read(r) PROVE CacheInv'
    BY <2>2, ReadKeepsCacheInv
  <2>3. CASE UNCHANGED vars
    <3>1. UNCHANGED <<ring, rd, buff_temp, delivered, redelivered, handling>>
      BY <2>3 DEF vars, reading
    <3>2. CollectedInv' /\ MirrorInv'
      BY <3>1 DEF CacheInv, CollectedInv, MirrorInv, ring, Occupied
    <3>. QED BY <3>1, <3>2, SameReader, ReadKeepsRing DEF CacheInv
  <2>. QED BY <2>1, <2>2, <2>3 DEF Next
<1>. QED BY <1>1, <1>2, TypeCorrect, PTL DEF Spec

(* With one CPU in the handler and one process reading, no packet vanishes: *)
(* the slot the handler fills is published only once the copy is complete,  *)
(* and read() frees only slots whose packet the process has (lines 244-260, *)
(* 145-152).  Faults of copy_to_user included.                              *)
THEOREM NothingLostSilently == OneCpu /\ OneReader => (Spec => []NoSilentLoss)
<1>. SUFFICES ASSUME OneCpu, OneReader PROVE Spec => []NoSilentLoss
  OBVIOUS
<1>1. CacheInv => NoSilentLoss
  BY DEF CacheInv
<1>. QED BY <1>1, CacheInvHolds, PTL

(* The packet in an entry at which copy_to_user stops is one the handler    *)
(* has done with, and has not discarded; nor will it.                       *)
LEMMA HalvedStep ==
  ASSUME OneReader, TypeOK, CacheInv, HalvedInv, [Next]_vars
  PROVE  HalvedInv'
<1>1. /\ halved \subseteq 1 .. arrived /\ halved \cap dropped = {}
      /\ \A p \in halved : ~InHandler(p)
  BY DEF HalvedInv
<1>2. 1 .. arrived \subseteq 1 .. arrived + 1 /\ arrived + 1 \notin 1 .. arrived
  BY DEF TypeOK, TypeHistory
<1>3. ASSUME NEW c \in Cpus, rxhPacketIn(c) PROVE HalvedInv'
  <2>1. UNCHANGED halved
    BY <1>3, RxOnlyOccupies
  <2>2. CASE RxEnter(c)
    <3>1. /\ rx'[c].pkt = arrived + 1 /\ arrived' = arrived + 1 /\ UNCHANGED dropped
          /\ \A d \in Cpus : d # c => rx'[d] = rx[d]
      BY <2>2 DEF RxEnter, TypeOK, TypeRx, RxState
    <3>2. \A p \in halved : ~InHandler(p)'
      BY <1>1, <1>2, <3>1 DEF InHandler
    <3>. QED BY <1>1, <1>2, <2>1, <3>1, <3>2 DEF HalvedInv
  <2>3. CASE ~RxEnter(c)
    <3>1. /\ rx'[c].pkt = rx[c].pkt /\ UNCHANGED arrived
          /\ rx[c].pc \notin {"idle", "advance"} \/ rx'[c].pc \in {"idle", "advance"}
          /\ \A d \in Cpus : d # c => rx'[d] = rx[d]
      BY <1>3, <2>3 DEF rxhPacketIn, RxCount, RxFree, RxBusy, RxNoSlot, RxOverflow, RxCopyHead,
           RxCopyTail, RxPublish, RxAdvance, TypeOK, TypeRx, RxState
    <3>2. dropped' \subseteq dropped \cup {p \in Packets : InHandler(p)}
      <4>1. CASE RxOverflow(c)
        BY <4>1 DEF RxOverflow, InHandler, TypeOK, TypeRx
      <4>2. CASE ~RxOverflow(c)
        BY <1>3, <2>3, <4>2 DEF rxhPacketIn, RxCount, RxFree, RxBusy, RxNoSlot, RxCopyHead,
             RxCopyTail, RxPublish, RxAdvance
      <4>. QED BY <4>1, <4>2
    <3>3. \A p \in halved : ~InHandler(p)'
      BY <1>1, <3>1 DEF InHandler
    <3>4. halved \cap dropped' = {}
      BY <1>1, <3>2
    <3>. QED BY <1>1, <2>1, <3>1, <3>3, <3>4 DEF HalvedInv
  <2>. QED BY <2>2, <2>3
<1>4. ASSUME NEW r \in Readers, read(r) PROVE HalvedInv'
  <2>1. UNCHANGED <<rx, arrived, dropped>>
    BY <1>4 DEF read, ReadBegin, ReadSkip, ReadGrabHead, ReadGrabTail, ReadDeliver, ReadFault,
           ReadWipeHead, ReadWipeTail, ReadFree, ReadReturn, handling
  <2>2. \A p \in halved' : p \in halved \/ (p \in (1 .. arrived) \ dropped /\ ~InHandler(p))
    <3>1. CASE ReadFault(r)
      <4>1. PICK n \in Entries : \A p \in halved' : p \in halved \/ (p = buff_temp[n].head /\ p # 0)
        BY <3>1, StopsIs DEF ReadFault
      <4>2. rd[r].pc = "scan"
        BY <3>1 DEF ReadFault
      <4>3. buff_temp[n].head # 0 => /\ buff_temp[n].head \in (1 .. arrived) \ dropped
                                     /\ ~InHandler(buff_temp[n].head)
        BY <4>2, HandedIsCopied DEF CacheInv, WriterInv, InHandler
      <4>. QED BY <4>1, <4>3
    <3>2. CASE ~ReadFault(r)
      <4>1. UNCHANGED halved
        BY <1>4, <3>2 DEF read, ReadBegin, ReadSkip, ReadGrabHead, ReadGrabTail, ReadDeliver,
             ReadWipeHead, ReadWipeTail, ReadFree, ReadReturn
      <4>. QED BY <4>1
    <3>. QED BY <3>1, <3>2
  <2>. QED BY <1>1, <2>1, <2>2 DEF HalvedInv, InHandler
<1>5. CASE UNCHANGED vars
  BY <1>5 DEF HalvedInv, InHandler, vars, reading, handling
<1>. QED BY <1>3, <1>4, <1>5 DEF Next

(* Under the same conditions read() gives copy_to_user whole packets only:  *)
(* status is set after the copy into the slot and cleared after the wipe.   *)
(* And if copy_to_user stops inside a packet, so that the process has half  *)
(* of it, the packet stays whole in its slot until the process has it all.  *)
THEOREM NothingTorn == OneCpu /\ OneReader => (Spec => []NoTornDelivery)
<1>. SUFFICES ASSUME OneCpu, OneReader PROVE Spec => []NoTornDelivery
  OBVIOUS
<1>1. TypeOK /\ CacheInv /\ HalvedInv => NoTornDelivery
  <2>. SUFFICES ASSUME TypeOK, CacheInv, HalvedInv PROVE NoTornDelivery
    OBVIOUS
  <2>1. ASSUME NEW r \in Readers, rd[r].pc = "scan", NEW k \in Entries
        PROVE  buff_temp[k].head = buff_temp[k].tail
    <3>1. Wiped = {}
      BY <2>1, ReaderOnly DEF BeingWiped
    <3>2. CASE k < rd[r].copied_pkts
      BY <2>1, <3>1, <3>2 DEF CacheInv, MirrorInv, SlotInv
    <3>3. CASE ~(k < rd[r].copied_pkts)
      BY <2>1, <3>3, ScanTypes DEF CacheInv, MirrorInv
    <3>. QED BY <3>2, <3>3
  <2>2. \A p \in halved : Cached(p) \/ p \in delivered
    BY DEF CacheInv, NoSilentLoss, HalvedInv
  <2>. QED BY <2>1, <2>2 DEF NoTornDelivery
<1>2. Init => HalvedInv
  BY DEF Init, HalvedInv
<1>3. TypeOK /\ CacheInv /\ HalvedInv /\ [Next]_vars => HalvedInv'
  BY HalvedStep
<1>. QED BY <1>1, <1>2, <1>3, CacheInvHolds, TypeCorrect, PTL DEF Spec

(***************************************************************************)
(* One reader, and as many CPUs as there may be: if copying to the process *)
(* never fails no packet is handed over twice, although two CPUs may fill  *)
(* the same slot, and while it is copied, wiped and freed.                 *)
(***************************************************************************)

LEMMA KnownIs ==
  ASSUME TypeOK
  PROVE  /\ \A s \in Slots : buff_from_here[s].head \in Known /\ buff_from_here[s].head \in Nat
         /\ \A k \in Entries : buff_temp[k].head \in Known /\ buff_temp[k].head \in Nat
         /\ delivered \subseteq Known /\ 0 \notin delivered /\ 0 \notin dropped
         /\ arrived \in Nat
<1>1. Packets \subseteq Nat \ {0}
  BY CacheSizes DEF Packets
<1>2. /\ \A s \in Slots : buff_from_here[s].head \in OrZero(Packets)
      /\ \A k \in Entries : buff_temp[k].head \in OrZero(Packets)
  BY DEF TypeOK, TypeRing, TypeHistory, Cells
<1>3. delivered \subseteq Packets /\ dropped \subseteq Packets /\ arrived \in Nat
  BY CacheSizes DEF TypeOK, TypeHistory
<1>4. /\ \A s \in Slots : buff_from_here[s].head \in Nat
      /\ \A k \in Entries : buff_temp[k].head \in Nat
  <2>1. OrZero(Packets) \subseteq Nat
    BY <1>1 DEF OrZero
  <2>. QED BY <1>2, <2>1
<1>5. /\ \A s \in Slots : buff_from_here[s].head \in Known
      /\ \A k \in Entries : buff_temp[k].head \in Known
      /\ delivered \subseteq Known
  BY DEF Known
<1>. QED BY <1>1, <1>3, <1>4, <1>5

(* What a step of the handler does to the heads: only RxCopyHead writes one.*)
LEMMA RxHeads ==
  ASSUME TypeOK, NEW c \in Cpus, rxhPacketIn(c)
  PROVE  /\ UNCHANGED <<rd, buff_temp, delivered, redelivered>>
         /\ \A d \in Cpus : d # c => rx'[d] = rx[d]
         /\ \/ \A s \in Slots : buff_from_here'[s].head = buff_from_here[s].head
            \/ /\ rx[c].pc = "head" /\ rx'[c].pc = "tail" /\ rx'[c].pkt = rx[c].pkt
               /\ rx[c].write_index \in Slots
               /\ \A s \in Slots : buff_from_here'[s].head =
                    IF s = rx[c].write_index THEN rx[c].pkt ELSE buff_from_here[s].head
               /\ UNCHANGED <<arrived, dropped>>
<1>1. UNCHANGED <<rd, buff_temp, delivered, redelivered>>
  BY RxOnlyOccupies
<1>2. \A d \in Cpus : d # c => rx'[d] = rx[d]
  BY DEF rxhPacketIn, RxEnter, RxCount, RxFree, RxBusy, RxNoSlot, RxOverflow, RxCopyHead,
      RxCopyTail, RxPublish, RxAdvance, TypeOK, TypeRx
<1>3. CASE RxCopyHead(c)
  <2>1. /\ rx[c].pc = "head" /\ rx'[c].pc = "tail" /\ rx'[c].pkt = rx[c].pkt
        /\ rx[c].write_index \in Slots /\ UNCHANGED <<arrived, dropped>>
    BY <1>3 DEF RxCopyHead, TypeOK, TypeRx, RxState
  <2>2. \A s \in Slots : buff_from_here'[s].head =
          IF s = rx[c].write_index THEN rx[c].pkt ELSE buff_from_here[s].head
    BY <1>3, <2>1 DEF RxCopyHead, TypeOK, TypeRing, Cells
  <2>. QED BY <1>1, <1>2, <2>1, <2>2
<1>4. CASE RxCopyTail(c)
  <2>1. \A s \in Slots : buff_from_here'[s].head = buff_from_here[s].head
    BY <1>4 DEF RxCopyTail, TypeOK, TypeRing, Cells
  <2>. QED BY <1>1, <1>2, <2>1
<1>5. CASE ~(RxCopyHead(c) \/ RxCopyTail(c))
  <2>1. UNCHANGED buff_from_here
    BY <1>5 DEF rxhPacketIn, RxEnter, RxCount, RxFree, RxBusy, RxNoSlot, RxOverflow,
                RxPublish, RxAdvance, ring
  <2>. QED BY <1>1, <1>2, <2>1
<1>. QED BY <1>3, <1>4, <1>5

LEMMA HeadsRx ==
  ASSUME TypeOK, HeadsInv, NEW c \in Cpus, rxhPacketIn(c)
  PROVE  HeadsInv'
<1>1. /\ UNCHANGED <<buff_temp, delivered>>
      /\ \A d \in Cpus : d # c => rx'[d] = rx[d]
  BY RxHeads
<1>2. /\ arrived \in Nat /\ 0 \notin dropped
      /\ \A s \in Slots : buff_from_here[s].head \in Known
      /\ \A d \in Cpus : rx[d].pkt \in Nat
  BY KnownIs, CacheSizes DEF TypeOK, TypeRx, RxState, OrZero, Packets
<1>3. /\ \A d \in Cpus : rx[d].pc # "idle" => rx[d].pkt \in 1 .. arrived
      /\ \A d, e \in Cpus : rx[d].pc # "idle" /\ rx[e].pc # "idle" /\ rx[d].pkt = rx[e].pkt
                            => d = e
      /\ \A d \in Cpus : Uncopied(d) => rx[d].pkt \notin Known \cup dropped
      /\ Known \cup dropped \subseteq 0 .. arrived
      /\ Known \cap dropped = {}
      /\ \A s, t \in Slots :
           buff_from_here[s].head = buff_from_here[t].head /\ buff_from_here[s].head # 0 => s = t
  BY DEF HeadsInv
<1>4. \A d \in Cpus : d # c => Uncopied(d)' = Uncopied(d)
  BY <1>1 DEF Uncopied
<1>5. CASE \A s \in Slots : buff_from_here'[s].head = buff_from_here[s].head
  <2>1. Known' = Known
    BY <1>1, <1>5 DEF Known
  <2>2. CASE RxEnter(c)
    <3>1. /\ rx'[c].pkt = arrived + 1 /\ arrived' = arrived + 1 /\ dropped' = dropped
      BY <2>2 DEF RxEnter, TypeOK, TypeRx, RxState
    <3>2. arrived + 1 \notin Known \cup dropped
      BY <1>2, <1>3
    <3>3. Known \cup dropped \subseteq 0 .. arrived + 1
      BY <1>2, <1>3
    <3>4. \A d \in Cpus : d # c /\ rx[d].pc # "idle" => rx[d].pkt \in 1 .. arrived + 1
                                                      /\ rx[d].pkt # arrived + 1
      BY <1>2, <1>3
    <3>5. arrived + 1 \in 1 .. arrived + 1
      BY <1>2
    <3>. QED BY <1>1, <1>3, <1>4, <1>5, <2>1, <3>1, <3>2, <3>3, <3>4, <3>5 DEF HeadsInv
  <2>3. CASE RxOverflow(c)
    <3>1. /\ rx[c].pc = "overflow" /\ rx'[c].pc = "idle" /\ arrived' = arrived
          /\ dropped' = dropped \cup {rx[c].pkt}
      BY <2>3 DEF RxOverflow, TypeOK, TypeRx, RxState
    <3>2. rx[c].pkt \in 0 .. arrived /\ rx[c].pkt \notin Known
      BY <1>2, <1>3, <3>1 DEF Uncopied
    <3>3. ~Uncopied(c)'
      BY <3>1 DEF Uncopied
    <3>4. \A d \in Cpus : d # c /\ Uncopied(d) => rx[d].pkt # rx[c].pkt
      BY <1>3, <3>1 DEF Uncopied
    <3>. QED BY <1>1, <1>3, <1>4, <1>5, <2>1, <3>1, <3>2, <3>3, <3>4 DEF HeadsInv
  <2>4. CASE ~(RxEnter(c) \/ RxOverflow(c))
    <3>1. /\ UNCHANGED <<arrived, dropped>> /\ rx'[c].pkt = rx[c].pkt
          /\ rx[c].pc # "idle"
          /\ rx'[c].pc \in {"count", "probe", "overflow", "head"}
                => rx[c].pc \in {"count", "probe", "overflow", "head"}
      BY <2>4 DEF rxhPacketIn, RxCount, RxFree, RxBusy, RxNoSlot, RxCopyHead, RxCopyTail,
         RxPublish, RxAdvance, TypeOK, TypeRx, RxState
    <3>2. Uncopied(c)' => Uncopied(c)
      BY <3>1 DEF Uncopied
    <3>. QED BY <1>1, <1>3, <1>4, <1>5, <2>1, <3>1, <3>2 DEF HeadsInv
  <2>. QED BY <2>2, <2>3, <2>4
<1>6. ASSUME rx[c].pc = "head", rx'[c].pc = "tail", rx'[c].pkt = rx[c].pkt,
             rx[c].write_index \in Slots, UNCHANGED <<arrived, dropped>>,
             \A s \in Slots : buff_from_here'[s].head =
                IF s = rx[c].write_index THEN rx[c].pkt ELSE buff_from_here[s].head
      PROVE  HeadsInv'
  <2>. DEFINE p == rx[c].pkt
  <2>1. p \in 1 .. arrived /\ p \notin Known \cup dropped
    BY <1>3, <1>6 DEF Uncopied
  <2>2. Known' \subseteq Known \cup {p}
    BY <1>1, <1>6 DEF Known
  <2>3. ~Uncopied(c)' /\ \A d \in Cpus : d # c /\ Uncopied(d) => rx[d].pkt # p
    BY <1>3, <1>6 DEF Uncopied
  <2>4. \A s, t \in Slots :
          buff_from_here'[s].head = buff_from_here'[t].head /\ buff_from_here'[s].head # 0
            => s = t
    BY <1>2, <1>3, <1>6, <2>1
  <2>5. p \in 0 .. arrived
    BY <1>2, <2>1
  <2>. QED BY <1>1, <1>3, <1>4, <1>6, <2>1, <2>2, <2>3, <2>4, <2>5 DEF HeadsInv
<1>. QED BY <1>5, <1>6, RxHeads

(* A step of read() copies heads, or clears them.                           *)
LEMMA HeadsKept ==
  ASSUME TypeOK, HeadsInv, UNCHANGED <<rx, arrived, dropped>>, Known' \subseteq Known \cup {0},
         \A s \in Slots : buff_from_here'[s].head \in {buff_from_here[s].head, 0}
  PROVE  HeadsInv'
<1>1. 0 \notin dropped /\ arrived \in Nat
  BY KnownIs
<1>2. \A c \in Cpus : rx[c].pc # "idle" => rx[c].pkt # 0
  BY DEF HeadsInv
<1>3. \A c \in Cpus : Uncopied(c)' = Uncopied(c) /\ (Uncopied(c) => rx[c].pc # "idle")
  BY DEF Uncopied
<1>4. \A s, t \in Slots :
        buff_from_here'[s].head = buff_from_here'[t].head /\ buff_from_here'[s].head # 0
          => s = t
  BY DEF HeadsInv
<1>5. Known' \cup dropped \subseteq 0 .. arrived /\ Known' \cap dropped = {}
  BY <1>1 DEF HeadsInv
<1>. QED BY <1>2, <1>3, <1>4, <1>5 DEF HeadsInv

LEMMA HeadsRead ==
  ASSUME TypeOK, HeadsInv, NEW r \in Readers, read(r)
  PROVE  HeadsInv'
<1>1. Known' \subseteq Known \cup {0}
  BY ReadMovesHeads DEF Known
<1>. QED BY <1>1, ReadMovesHeads, HeadsKept

(* The handler writes only a packet that nobody knows yet.                  *)
LEMMA OnceRx ==
  ASSUME TypeOK, HeadsInv, OnceInv, NEW c \in Cpus, rxhPacketIn(c)
  PROVE  OnceInv'
<1>1. UNCHANGED <<rd, buff_temp, delivered, redelivered>>
  BY RxHeads
<1>2. \A s \in Slots : \/ buff_from_here'[s].head = buff_from_here[s].head
                       \/ buff_from_here'[s].head \notin Known
  BY RxHeads DEF HeadsInv, Uncopied
<1>3. \A r \in Readers : Filled(r)'
  BY <1>1 DEF OnceInv, Filled
<1>4. \A r \in Readers : BatchOnce(r)'
  <2>1. ASSUME NEW s \in Slots, NEW k \in Entries, buff_from_here'[s].head = buff_temp[k].head
        PROVE  buff_from_here[s].head = buff_temp[k].head
    BY <1>2, <2>1, KnownIs
  <2>2. \A r, k : SlotOf(r, k)' = SlotOf(r, k)
    BY <1>1 DEF SlotOf
  <2>. QED BY <1>1, <2>1, <2>2 DEF OnceInv, BatchOnce, Back
<1>5. \A r \in Readers : HandedOnce(r)'
  <2>1. ASSUME NEW s \in Slots, buff_from_here'[s].head \in delivered
        PROVE  buff_from_here[s].head \in delivered
    BY <1>2, <2>1, KnownIs
  <2>2. \A r \in Readers : ToFree(r)' = ToFree(r) /\ BeingWiped(r)' = BeingWiped(r)
    BY <1>1, SameReader DEF BeingWiped, Cleaned
  <2>. QED BY <1>1, <2>1, <2>2 DEF OnceInv, HandedOnce
<1>. QED BY <1>1, <1>3, <1>4, <1>5 DEF OnceInv

(* The steps of read().  What OnceInv says of the one reader is all it says.*)
LEMMA OnceOf ==
  ASSUME OneReader, NEW r \in Readers, redelivered' = {},
         Filled(r)', BatchOnce(r)', HandedOnce(r)'
  PROVE  OnceInv'
  BY ReaderOnly DEF OnceInv

LEMMA OnceBegin ==
  ASSUME OneReader, TypeOK, OnceInv, NEW r \in Readers, ReadBegin(r)
  PROVE  OnceInv'
<1>1. /\ rd[r].pc = "idle" /\ rd'[r].pc = "scan" /\ rd'[r].copied_pkts = 0
      /\ rd'[r].copied_index = [k \in Entries |-> -1]
      /\ buff_temp' = [k \in Entries |-> Blank]
      /\ UNCHANGED <<buff_from_here, delivered, redelivered>>
  BY DEF ReadBegin, TypeOK, TypeRd, RdState, ring
<1>2. \A k \in Entries : k \in Nat
  BY ScanTypes
<1>3. Filled(r)'
  BY <1>1, <1>2 DEF Filled
<1>4. BatchOnce(r)'
  BY <1>1, <1>2 DEF BatchOnce, Blank
<1>5. HandedOnce(r)'
  BY <1>1 DEF OnceInv, HandedOnce, ToFree, BeingWiped, Returned
<1>. QED BY <1>1, <1>3, <1>4, <1>5, OnceOf DEF OnceInv

(* A scan that goes on leaves the slots it has collected one step further   *)
(* behind.                                                                  *)
LEMMA BehindStep ==
  ASSUME NEW s \in Slots, NEW i \in Slots, NEW t \in Nat, t < MAX_PKT, Back(s, i) <= t
  PROVE  s # i /\ Back(s, After(i)) <= t + 1
<1>1. Back(i, i) = MAX_PKT /\ MAX_PKT \in Nat
  BY CacheSizes DEF Back, Slots
<1>2. s # i
  BY <1>1
<1>3. Back(s, After(i)) = Back(s, i) + 1 /\ Back(s, i) \in 1 .. MAX_PKT
  BY <1>2, BackIs
<1>. QED BY <1>1, <1>2, <1>3

LEMMA OnceSkip ==
  ASSUME OneReader, TypeOK, OnceInv, NEW r \in Readers, ReadSkip(r)
  PROVE  OnceInv'
<1>1. /\ rd[r].pc = "scan" /\ rd'[r].pc = "scan" /\ Scanning(r)
      /\ rd'[r].copied_pkts = rd[r].copied_pkts
      /\ rd'[r].copied_index = rd[r].copied_index
      /\ rd'[r].ci = After(rd[r].ci) /\ rd'[r].try = rd[r].try + 1
      /\ UNCHANGED <<buff_from_here, buff_temp, delivered, redelivered>>
  BY DEF ReadSkip, TypeOK, TypeRd, RdState, ring
<1>2. /\ rd[r].ci \in Slots /\ rd[r].try \in Nat /\ rd[r].try < MAX_PKT
      /\ \A k \in Entries : rd[r].copied_index[k] \in Slots \cup {-1}
  BY <1>1, ScanTypes
<1>3. Filled(r)'
  BY <1>1 DEF OnceInv, Filled
<1>4. ASSUME NEW k \in Entries, k < rd[r].copied_pkts
      PROVE  Back(rd[r].copied_index[k], After(rd[r].ci)) <= rd[r].try + 1
  <2>1. /\ rd[r].copied_index[k] \in Slots
        /\ Back(rd[r].copied_index[k], rd[r].ci) <= rd[r].try
    BY <1>1, <1>2, <1>4 DEF OnceInv, Filled, BatchOnce
  <2>. QED BY <1>2, <2>1, BehindStep
<1>5. ASSUME NEW k \in Entries, buff_temp[k].head # 0
      PROVE  SlotOf(r, k)' = SlotOf(r, k)
  <2>1. k < rd[r].copied_pkts
    BY <1>1, <1>5, ScanTypes DEF OnceInv, BatchOnce
  <2>. QED BY <1>1, <2>1 DEF SlotOf
<1>6. BatchOnce(r)'
  BY <1>1, <1>4, <1>5 DEF OnceInv, BatchOnce, Back
<1>7. HandedOnce(r)'
  BY <1>1 DEF OnceInv, HandedOnce, ToFree, BeingWiped, Returned
<1>. QED BY <1>1, <1>3, <1>6, <1>7, OnceOf DEF OnceInv

(* The packet now copied was not collected before: the slots it was         *)
(* collected from are behind the scan.                                      *)
LEMMA OnceGrabHead ==
  ASSUME OneReader, TypeOK, HeadsInv, OnceInv, NEW r \in Readers, ReadGrabHead(r)
  PROVE  OnceInv'
<1>. DEFINE n == rd[r].copied_pkts
            i == rd[r].ci
            p == buff_from_here[i].head
<1>1. /\ rd[r].pc = "scan" /\ rd'[r].pc = "grab" /\ Scanning(r)
      /\ rd'[r].copied_pkts = n /\ rd'[r].ci = i /\ rd'[r].try = rd[r].try
      /\ rd'[r].copied_index = rd[r].copied_index
      /\ UNCHANGED <<buff_from_here, delivered, redelivered>>
  BY DEF ReadGrabHead, TypeOK, TypeRd, RdState, ring
<1>2. /\ i \in Slots /\ n \in Entries /\ rd[r].try \in Nat /\ rd[r].try < MAX_PKT
      /\ \A k \in Entries : k \in Nat /\ rd[r].copied_index[k] \in Slots \cup {-1}
  BY <1>1, ScanTypes
<1>3. /\ buff_temp'[n].head = p
      /\ \A k \in Entries : k # n => buff_temp'[k] = buff_temp[k]
  BY <1>2 DEF ReadGrabHead, TypeOK, TypeHistory, Cells
<1>4. \A k \in Entries : k >= n => buff_temp[k].head = 0
  BY <1>1, <1>2 DEF OnceInv, BatchOnce
<1>5. p \notin delivered
  BY <1>1, <1>2 DEF OnceInv, HandedOnce, ToFree, Returned
<1>6. ASSUME p # 0, NEW k \in Entries, buff_temp[k].head = p
      PROVE  FALSE
  <2>1. k < n /\ i = SlotOf(r, k)
    BY <1>1, <1>2, <1>4, <1>6 DEF OnceInv, BatchOnce
  <2>2. i = rd[r].copied_index[k] /\ Back(rd[r].copied_index[k], i) <= rd[r].try
    BY <1>1, <2>1 DEF SlotOf, OnceInv, BatchOnce
  <2>. QED BY <1>2, <2>2, BehindStep
<1>7. \A s \in Slots : buff_from_here[s].head = p /\ p # 0 => s = i
  BY <1>2 DEF HeadsInv
<1>8. Filled(r)'
  BY <1>1 DEF OnceInv, Filled
<1>9. \A k : SlotOf(r, k)' = SlotOf(r, k) /\ SlotOf(r, n) = i
  BY <1>1, <1>2 DEF SlotOf
<1>10. \A s, j : Back(s, j)' = Back(s, j)
  BY DEF Back
<1>11. BatchOnce(r)'
  <2>1. ASSUME NEW k \in Entries
        PROVE  /\ k < n => Back(rd[r].copied_index[k], i) <= rd[r].try
               /\ k > n => buff_temp'[k].head = 0
               /\ buff_temp'[k].head # 0 =>
                    /\ buff_temp'[k].head \notin delivered
                    /\ \A s \in Slots :
                         buff_from_here[s].head = buff_temp'[k].head => s = SlotOf(r, k)
                    /\ \A j \in Entries : buff_temp'[j].head = buff_temp'[k].head => j = k
    <3>1. CASE k = n
      BY <1>2, <1>3, <1>5, <1>6, <1>7, <1>9, <3>1
    <3>2. CASE k # n
      BY <1>1, <1>2, <1>3, <1>4, <1>6, <3>2 DEF OnceInv, BatchOnce
    <3>. QED BY <3>1, <3>2
  <2>. HIDE DEF n, i, p
  <2>. QED BY <1>1, <1>9, <1>10, <2>1 DEF BatchOnce, n, i
<1>12. HandedOnce(r)'
  BY <1>1 DEF OnceInv, HandedOnce, ToFree, BeingWiped, Returned
<1>. QED BY <1>1, <1>8, <1>11, <1>12, OnceOf DEF OnceInv

LEMMA OnceGrabTail ==
  ASSUME OneReader, TypeOK, OnceInv, NEW r \in Readers, ReadGrabTail(r)
  PROVE  OnceInv'
<1>. DEFINE n == rd[r].copied_pkts
            i == rd[r].ci
<1>1. /\ rd[r].pc = "grab" /\ rd'[r].pc = "scan" /\ Scanning(r)
      /\ rd'[r].copied_pkts = n + 1 /\ rd'[r].ci = After(i) /\ rd'[r].try = rd[r].try + 1
      /\ rd'[r].copied_index = [rd[r].copied_index EXCEPT ![n] = i]
      /\ UNCHANGED <<buff_from_here, delivered, redelivered>>
  BY DEF ReadGrabTail, TypeOK, TypeRd, RdState, ring
<1>2. /\ i \in Slots /\ n \in Entries /\ n \in Nat /\ rd[r].try \in Nat /\ rd[r].try < MAX_PKT
      /\ \A k \in Entries : k \in Nat /\ rd[r].copied_index[k] \in Slots \cup {-1}
  BY <1>1, ScanTypes
<1>3. \A k \in Entries : buff_temp'[k].head = buff_temp[k].head
  BY <1>2 DEF ReadGrabTail, TypeOK, TypeHistory, Cells
<1>4. /\ rd'[r].copied_index[n] = i /\ i # -1
      /\ \A k \in Entries : k # n => rd'[r].copied_index[k] = rd[r].copied_index[k]
  BY <1>1, <1>2, CacheSizes DEF TypeOK, TypeRd, RdState, Slots
<1>. HIDE DEF n, i
<1>5. n \in Nat /\ \A k \in Entries : k \in Nat
  BY <1>2
<1>6. \A k \in Entries : (rd[r].copied_index[k] # -1 <=> k < n)
  BY DEF OnceInv, Filled, n
<1>7. Filled(r)'
  <2>1. \A k \in Entries : (rd'[r].copied_index[k] # -1 <=> k < n + 1)
    <3>. SUFFICES ASSUME NEW k \in Entries
                  PROVE  rd'[r].copied_index[k] # -1 <=> k < n + 1
      OBVIOUS
    <3>1. k \in Nat /\ n \in Nat
      BY <1>5
    <3>2. CASE k = n
      <4>1. k < n + 1
        BY <3>1, <3>2
      <4>2. rd'[r].copied_index[k] # -1
        BY <1>4, <3>2
      <4>. QED BY <4>1, <4>2
    <3>3. CASE k # n
      <4>1. k < n + 1 <=> k < n
        BY <3>1, <3>3
      <4>2. rd'[r].copied_index[k] = rd[r].copied_index[k]
        BY <1>4, <3>3
      <4>3. rd[r].copied_index[k] # -1 <=> k < n
        BY <1>6
      <4>. QED BY <4>1, <4>2, <4>3
    <3>. QED BY <3>2, <3>3
  <2>. QED BY <1>1, <2>1 DEF Filled
<1>8. ASSUME NEW k \in Entries, k < n + 1
      PROVE  Back(rd'[r].copied_index[k], After(i)) <= rd[r].try + 1
  <2>1. CASE k = n
    <3>1. Back(i, After(i)) = 1
      BY <1>2, BackIs
    <3>. QED BY <1>2, <1>4, <2>1, <3>1
  <2>2. CASE k # n
    <3>1. k < n
      BY <1>8, <1>5, <2>2
    <3>2. rd[r].copied_index[k] \in Slots /\ Back(rd[r].copied_index[k], i) <= rd[r].try
      BY <1>1, <1>2, <1>6, <3>1 DEF OnceInv, BatchOnce, n, i
    <3>. QED BY <1>2, <1>4, <2>2, <3>2, BehindStep
  <2>. QED BY <2>1, <2>2
<1>9. ASSUME NEW k \in Entries
      PROVE  /\ k > n => buff_temp[k].head = 0
             /\ buff_temp[k].head # 0 =>
                  /\ buff_temp[k].head \notin delivered
                  /\ \A s \in Slots :
                       buff_from_here[s].head = buff_temp[k].head => s = SlotOf(r, k)
                  /\ \A j \in Entries : buff_temp[j].head = buff_temp[k].head => j = k
  BY <1>1 DEF OnceInv, BatchOnce, n
<1>10. ASSUME NEW k \in Entries, buff_temp[k].head # 0
      PROVE  SlotOf(r, k)' = SlotOf(r, k)
  <2>1. ~(k > n)
    BY <1>9, <1>10
  <2>2. k < n + 1
    <3>1. k \in Nat /\ n \in Nat
      BY <1>10, <1>5
    <3>. QED BY <2>1, <3>1
  <2>3. SlotOf(r, k)' = rd'[r].copied_index[k]
    BY <1>1, <2>2 DEF SlotOf
  <2>4. CASE k = n
    <3>1. ~(k < n)
      BY <1>5, <2>4
    <3>. QED BY <1>4, <2>3, <2>4, <3>1 DEF SlotOf, n, i
  <2>5. CASE k # n
    <3>1. k < n
      BY <1>5, <2>1, <2>5
    <3>. QED BY <1>4, <2>3, <2>5, <3>1 DEF SlotOf, n
  <2>. QED BY <2>4, <2>5
<1>11. \A s, j : Back(s, j)' = Back(s, j)
  BY DEF Back
<1>12. BatchOnce(r)'
  <2>1. \A k \in Entries : k > n + 1 \/ k = n + 1 => k > n
    BY <1>5
  <2>. QED BY <1>1, <1>3, <1>8, <1>9, <1>10, <1>11, <2>1 DEF BatchOnce
<1>13. HandedOnce(r)'
  BY <1>1 DEF OnceInv, HandedOnce, ToFree, BeingWiped, Returned
<1>. QED BY <1>1, <1>7, <1>12, <1>13, OnceOf DEF OnceInv

(* Nothing in the batch was handed over before, nor is in it twice, and the *)
(* slots its packets are in are the ones to be wiped now.                   *)
LEMMA OnceDeliver ==
  ASSUME OneReader, TypeOK, OnceInv, NEW r \in Readers, ReadDeliver(r)
  PROVE  OnceInv'
<1>1. /\ rd[r].pc = "scan" /\ rd'[r].pc = "clean" /\ rd'[r].clean = 0
      /\ rd'[r].copied_pkts = rd[r].copied_pkts
      /\ rd'[r].copied_index = rd[r].copied_index
      /\ HandOver(PKTS_PER_BUFFER)
      /\ UNCHANGED <<buff_from_here, buff_temp>>
  BY DEF ReadDeliver, TypeOK, TypeRd, RdState, ring
<1>2. /\ rd[r].copied_pkts \in Nat
      /\ \A k \in Entries : k \in Nat /\ k < PKTS_PER_BUFFER
      /\ \A k \in Entries : rd[r].copied_index[k] \in Slots \cup {-1}
  BY ScanTypes, CacheSizes DEF Entries
<1>3. ASSUME NEW k \in Entries, buff_temp[k].head # 0
      PROVE  /\ k < rd[r].copied_pkts /\ rd[r].copied_index[k] # -1
             /\ buff_temp[k].head \notin delivered
             /\ \A s \in Slots :
                  buff_from_here[s].head = buff_temp[k].head => s = rd[r].copied_index[k]
             /\ \A j \in Entries : buff_temp[j].head = buff_temp[k].head => j = k
  <2>1. k < rd[r].copied_pkts
    BY <1>1, <1>2, <1>3 DEF OnceInv, BatchOnce
  <2>. QED BY <1>1, <1>3, <2>1 DEF OnceInv, BatchOnce, Filled, SlotOf
<1>4. \A p \in Handed(PKTS_PER_BUFFER) : p # 0 /\ \E k \in Entries : p = buff_temp[k].head
  BY DEF Handed
<1>5. redelivered' = {}
  <2>1. \A p \in Handed(PKTS_PER_BUFFER) : p \notin delivered
    BY <1>3, <1>4
  <2>2. ASSUME NEW p \in Handed(PKTS_PER_BUFFER), NEW j \in Entries, NEW k \in Entries,
               j < k, buff_temp[j].head = p, buff_temp[k].head = p
        PROVE  FALSE
    BY <1>2, <1>3, <1>4, <2>2
  <2>3. redelivered = {}
    BY DEF OnceInv
  <2>. QED BY <1>1, <2>1, <2>2, <2>3 DEF HandOver
<1>6. Filled(r)'
  BY <1>1 DEF OnceInv, Filled
<1>7. BatchOnce(r)'
  BY <1>1 DEF BatchOnce
<1>8. HandedOnce(r)'
  <2>1. /\ BeingWiped(r)' = {}
        /\ ToFree(r)' = {rd[r].copied_index[k] : k \in {j \in Entries : j >= 0}} \ {-1}
    BY <1>1 DEF BeingWiped, ToFree, Returned
  <2>2. ASSUME NEW s \in Slots, buff_from_here[s].head \in delivered'
        PROVE  s \in ToFree(r)'
    <3>1. buff_from_here[s].head \notin delivered
      BY <1>1 DEF OnceInv, HandedOnce, ToFree, Returned
    <3>2. PICK k \in Entries : buff_from_here[s].head = buff_temp[k].head /\ buff_temp[k].head # 0
      BY <1>1, <1>4, <2>2, <3>1 DEF HandOver
    <3>3. s = rd[r].copied_index[k] /\ s # -1 /\ k >= 0
      BY <1>2, <1>3, <3>2
    <3>. QED BY <2>1, <3>3
  <2>. QED BY <1>1, <2>1, <2>2 DEF HandedOnce
<1>. QED BY <1>5, <1>6, <1>7, <1>8, OnceOf

LEMMA OnceWipeHead ==
  ASSUME OneReader, TypeOK, OnceInv, NEW r \in Readers, ReadWipeHead(r)
  PROVE  OnceInv'
<1> DEFINE s == Cleaned(r)
<1>1. /\ rd[r].pc = "clean" /\ rd'[r].pc = "wipe" /\ s # -1
      /\ rd'[r].copied_index = rd[r].copied_index
      /\ rd'[r].copied_pkts = rd[r].copied_pkts /\ rd'[r].clean = rd[r].clean
      /\ UNCHANGED <<delivered, redelivered>>
      /\ buff_from_here' = [buff_from_here EXCEPT ![s].head = 0]
  BY DEF ReadWipeHead, TypeOK, TypeRd, RdState
<1>2. Cleaned(r)' = s /\ Returned(r) /\ Returned(r)'
  BY <1>1 DEF Cleaned, Returned
<1>3. ToFree(r)' = ToFree(r) /\ BeingWiped(r)' = {s}
  BY <1>1, <1>2 DEF ToFree, BeingWiped
<1>4. s \in Slots
  BY <1>1 DEF Cleaned, TypeOK, TypeRd, RdState
<1>5. /\ buff_from_here'[s].head = 0
      /\ \A t \in Slots : t # s => buff_from_here'[t] = buff_from_here[t]
  BY <1>1, <1>4 DEF TypeOK, TypeRing, Cells
<1>. HIDE DEF s
<1>6. HandedOnce(r)'
  BY <1>1, <1>3, <1>5, KnownIs DEF OnceInv, HandedOnce
<1>7. Filled(r)' /\ BatchOnce(r)'
  BY <1>1 DEF OnceInv, Filled, BatchOnce
<1>. QED BY <1>1, <1>6, <1>7, OnceOf DEF OnceInv

LEMMA OnceWipeTail ==
  ASSUME OneReader, TypeOK, OnceInv, NEW r \in Readers, ReadWipeTail(r)
  PROVE  OnceInv'
<1> DEFINE s == Cleaned(r)
<1>1. /\ rd[r].pc = "wipe" /\ rd'[r].pc = "free"
      /\ rd'[r].copied_index = rd[r].copied_index
      /\ rd'[r].copied_pkts = rd[r].copied_pkts /\ rd'[r].clean = rd[r].clean
      /\ UNCHANGED <<delivered, redelivered>>
      /\ buff_from_here' = [buff_from_here EXCEPT ![s].tail = 0]
  BY DEF ReadWipeTail, TypeOK, TypeRd, RdState
<1>2. Cleaned(r)' = s /\ Returned(r) /\ Returned(r)'
  BY <1>1 DEF Cleaned, Returned
<1>3. ToFree(r)' = ToFree(r) /\ BeingWiped(r)' = BeingWiped(r)
  BY <1>1, <1>2 DEF ToFree, BeingWiped
<1>4. \A t \in Slots : buff_from_here'[t].head = buff_from_here[t].head
  BY <1>1 DEF TypeOK, TypeRing, Cells
<1>. HIDE DEF s
<1>5. HandedOnce(r)'
  BY <1>1, <1>3, <1>4 DEF OnceInv, HandedOnce
<1>6. Filled(r)' /\ BatchOnce(r)'
  BY <1>1 DEF OnceInv, Filled, BatchOnce
<1>. QED BY <1>1, <1>5, <1>6, OnceOf DEF OnceInv

LEMMA OnceFree ==
  ASSUME OneReader, TypeOK, OnceInv, NEW r \in Readers, ReadFree(r)
  PROVE  OnceInv'
<1>1. /\ rd[r].pc = "free" /\ rd'[r].pc = "clean"
      /\ rd'[r].copied_index = rd[r].copied_index
      /\ rd'[r].copied_pkts = rd[r].copied_pkts /\ rd'[r].clean = rd[r].clean + 1
      /\ UNCHANGED <<buff_from_here, delivered, redelivered>>
  BY DEF ReadFree, TypeOK, TypeRd, RdState
<1>2. BeingWiped(r) = {Cleaned(r)} /\ BeingWiped(r)' = {}
  BY <1>1 DEF BeingWiped
<1>3. ToFree(r) \ {Cleaned(r)} \subseteq ToFree(r)'
  <2>1. /\ ToFree(r) = {rd[r].copied_index[k] : k \in {j \in Entries : j >= rd[r].clean}} \ {-1}
        /\ ToFree(r)' = {rd[r].copied_index[k] : k \in {j \in Entries : j >= rd[r].clean + 1}} \ {-1}
    BY <1>1 DEF ToFree, Returned
  <2>2. rd[r].clean \in Nat /\ \A k \in Entries : k \in Nat
    BY ScanTypes
  <2>3. \A k \in Entries : k >= rd[r].clean /\ k # rd[r].clean => k >= rd[r].clean + 1
    BY <2>2
  <2>4. rd[r].clean \in Entries => Cleaned(r) = rd[r].copied_index[rd[r].clean]
    BY DEF Cleaned
  <2>. QED BY <2>1, <2>3, <2>4
<1>4. HandedOnce(r)'
  BY <1>1, <1>2, <1>3 DEF OnceInv, HandedOnce
<1>5. Filled(r)' /\ BatchOnce(r)'
  BY <1>1 DEF OnceInv, Filled, BatchOnce
<1>. QED BY <1>1, <1>4, <1>5, OnceOf DEF OnceInv

(* The cleanup loop ends with every slot of the batch wiped.                *)
LEMMA OnceReturn ==
  ASSUME OneReader, TypeOK, OnceInv, NEW r \in Readers, ReadReturn(r)
  PROVE  OnceInv'
<1>1. /\ rd[r].pc = "clean" /\ rd'[r].pc = "idle" /\ Cleaned(r) = -1
      /\ rd'[r].copied_index = rd[r].copied_index
      /\ rd'[r].copied_pkts = rd[r].copied_pkts
      /\ UNCHANGED <<buff_from_here, delivered, redelivered>>
  BY DEF ReadReturn, TypeOK, TypeRd, RdState, ring
<1>2. \A k \in Entries : k >= rd[r].clean => rd[r].copied_index[k] = -1
  <2>1. rd[r].clean \in Nat /\ rd[r].copied_pkts \in Nat /\ \A k \in Entries : k \in Nat
    BY ScanTypes
  <2>2. \A k \in Entries : rd[r].copied_index[k] # -1 <=> k < rd[r].copied_pkts
    BY DEF OnceInv, Filled
  <2>3. (\E k \in Entries : k >= rd[r].clean) => rd[r].clean \in Entries
    BY <2>1, CacheSizes DEF Entries
  <2>4. rd[r].clean \in Entries => rd[r].copied_index[rd[r].clean] = -1
    BY <1>1 DEF Cleaned
  <2>. QED BY <2>1, <2>2, <2>3, <2>4
<1>3. ToFree(r) = {}
  BY <1>2 DEF ToFree
<1>4. HandedOnce(r)'
  BY <1>1, <1>3 DEF OnceInv, HandedOnce
<1>5. Filled(r)' /\ BatchOnce(r)'
  BY <1>1 DEF OnceInv, Filled, BatchOnce
<1>. QED BY <1>1, <1>4, <1>5, OnceOf DEF OnceInv

LEMMA OnceRead ==
  ASSUME OneReader, ~UserFaults, TypeOK, HeadsInv, OnceInv, NEW r \in Readers, read(r)
  PROVE  OnceInv'
<1>1. ~ReadFault(r)
  BY DEF ReadFault
<1>. QED BY <1>1, OnceBegin, OnceSkip, OnceGrabHead, OnceGrabTail, OnceDeliver, OnceWipeHead,
            OnceWipeTail, OnceFree, OnceReturn DEF read

LEMMA OnceInvHolds == ASSUME OneReader, ~UserFaults PROVE Spec => [](HeadsInv /\ OnceInv)
<1>1. Init => HeadsInv /\ OnceInv
  <2>. SUFFICES ASSUME Init PROVE HeadsInv /\ OnceInv
    OBVIOUS
  <2>. USE CacheSizes DEF Init
  <2>1. Known \subseteq {0} /\ dropped = {} /\ arrived = 0
    BY DEF Known, Blank
  <2>2. \A c \in Cpus : rx[c].pc = "idle"
    OBVIOUS
  <2>3. HeadsInv
    BY <2>1, <2>2 DEF HeadsInv, Uncopied, Blank
  <2>4. OnceInv
    BY DEF OnceInv, Filled, BatchOnce, HandedOnce, Entries
  <2>. QED BY <2>3, <2>4
<1>2. TypeOK /\ HeadsInv /\ OnceInv /\ [Next]_vars => (HeadsInv /\ OnceInv)'
  <2>. SUFFICES ASSUME TypeOK, HeadsInv, OnceInv, [Next]_vars PROVE (HeadsInv /\ OnceInv)'
    OBVIOUS
  <2>1. ASSUME NEW c \in Cpus, rxhPacketIn(c) PROVE (HeadsInv /\ OnceInv)'
    BY <2>1, HeadsRx, OnceRx
  <2>2. ASSUME NEW r \in Readers, read(r) PROVE (HeadsInv /\ OnceInv)'
    BY <2>2, HeadsRead, OnceRead
  <2>3. CASE UNCHANGED vars
    <3>1. UNCHANGED <<rx, rd, buff_from_here, buff_temp, arrived, dropped, delivered, redelivered>>
      BY <2>3 DEF vars, reading, handling, ring
    <3>2. HeadsInv'
      BY <3>1 DEF HeadsInv, Uncopied, Known
    <3>3. \A r \in Readers : ToFree(r)' = ToFree(r) /\ BeingWiped(r)' = BeingWiped(r)
      BY <3>1, SameReader DEF BeingWiped, Cleaned
    <3>4. \A r \in Readers : Filled(r)' /\ BatchOnce(r)' /\ HandedOnce(r)'
      <4>1. \A r, k : SlotOf(r, k)' = SlotOf(r, k)
        BY <3>1 DEF SlotOf
      <4>2. \A s, j : Back(s, j)' = Back(s, j)
        BY DEF Back
      <4>. QED BY <3>1, <3>3, <4>1, <4>2 DEF OnceInv, Filled, BatchOnce, HandedOnce
    <3>. QED BY <3>1, <3>2, <3>4 DEF OnceInv
  <2>. QED BY <2>1, <2>2, <2>3 DEF Next
<1>. QED BY <1>1, <1>2, TypeCorrect, PTL DEF Spec

(* With one process reading and copying to it that never fails, no packet   *)
(* reaches it twice and none that the handler gave up, on any number of     *)
(* CPUs: two that fill the same slot (lines 244-260) can lose a packet, but *)
(* never bring back one that read() has wiped (lines 145-152).              *)
THEOREM DeliveredOnce == OneReader /\ ~UserFaults => (Spec => []AtMostOnce)
<1>. SUFFICES ASSUME OneReader, ~UserFaults PROVE Spec => []AtMostOnce
  OBVIOUS
<1>1. HeadsInv /\ OnceInv => AtMostOnce
  BY DEF HeadsInv, OnceInv, AtMostOnce, Known
<1>. QED BY <1>1, OnceInvHolds, PTL

(* A slot is wiped only after its packet reached the process, even when the *)
(* copy to the process failed half-way the time before (lines 138-152).     *)
THEOREM NothingFreedTooEarly == OneCpu /\ OneReader => (Spec => FreedIsDelivered)
<1>. SUFFICES ASSUME OneCpu, OneReader PROVE Spec => FreedIsDelivered
  OBVIOUS
<1> DEFINE A == \A s \in Slots : buff_from_here[s].head # 0 /\ buff_from_here'[s].head = 0
                  => buff_from_here[s].head \in delivered
<1>1. TypeOK /\ CacheInv /\ [Next]_vars => [A]_vars
  <2>. SUFFICES ASSUME TypeOK, CacheInv, [Next]_vars,
                       NEW s \in Slots,
                       buff_from_here[s].head # 0, buff_from_here'[s].head = 0
                PROVE  buff_from_here[s].head \in delivered
    OBVIOUS
  <2>1. ASSUME NEW c \in Cpus, rxhPacketIn(c) PROVE FALSE
    <3>1. CASE RxCopyHead(c)
      <4>1. rx[c].pkt # 0 /\ rx[c].write_index \in Slots
        BY <3>1 DEF RxCopyHead, TypeOK, TypeRx, RxState, Packets
      <4>. QED BY <3>1, <4>1 DEF RxCopyHead, TypeOK, TypeRing, Cells
    <3>2. CASE ~RxCopyHead(c)
      <4>1. buff_from_here'[s].head = buff_from_here[s].head
        BY <2>1, <3>2 DEF rxhPacketIn, RxEnter, RxCount, RxFree, RxBusy, RxNoSlot, RxOverflow,
                     RxCopyTail, RxPublish, RxAdvance, ring, TypeOK, TypeRing, Cells
      <4>. QED BY <4>1
    <3>. QED BY <3>1, <3>2
  <2>2. ASSUME NEW r \in Readers, read(r) PROVE buff_from_here[s].head \in delivered
    <3>1. CASE ReadWipeHead(r)
      <4>1. rd[r].pc = "clean" /\ Cleaned(r) # -1 /\ Returned(r)
        BY <3>1 DEF ReadWipeHead, Returned
      <4>2. Cleaned(r) \in ToFree(r) /\ Wiped = {}
        BY <4>1, CleanedToFree, ReaderOnly DEF BeingWiped
      <4>3. buff_from_here[Cleaned(r)].head \in delivered
        BY <4>2 DEF CacheInv, FreeingInv
      <4>4. s # Cleaned(r) => buff_from_here'[s] = buff_from_here[s]
        BY <3>1 DEF ReadWipeHead, TypeOK, TypeRing
      <4>. QED BY <4>3, <4>4
    <3>2. CASE ~ReadWipeHead(r)
      <4>1. buff_from_here'[s].head = buff_from_here[s].head
        BY <2>2, <3>2 DEF read, ReadBegin, ReadSkip, ReadGrabHead, ReadGrabTail, ReadDeliver,
             ReadFault, ReadWipeTail, ReadFree, ReadReturn, ring, TypeOK, TypeRing, Cells
      <4>. QED BY <4>1
    <3>. QED BY <3>1, <3>2
  <2>3. CASE UNCHANGED vars
    BY <2>3 DEF vars, ring
  <2>. QED BY <2>1, <2>2, <2>3 DEF Next
<1>. QED BY <1>1, CacheInvHolds, TypeCorrect, PTL DEF Spec, FreedIsDelivered

-----------------------------------------------------------------------------
(***************************************************************************)
(* One CPU in the handler and one reader, and copying to the process never *)
(* fails: what the module prints adds up, and the cache is a PacketStore.  *)
(***************************************************************************)

OneSetup == OneCpu /\ OneReader /\ UserFaults = FALSE

LEMMA PacketsFinite ==
  /\ IsFiniteSet(Packets) /\ IsFiniteSet(Slots) /\ Cardinality(Slots) = MAX_PKT
  /\ MaxPackets \in Nat /\ MAX_PKT \in Nat \ {0} /\ PKTS_PER_BUFFER \in Nat \ {0}
<1>0. MaxPackets \in Nat /\ MAX_PKT \in Nat \ {0} /\ PKTS_PER_BUFFER \in Nat \ {0}
  BY CacheSizes
<1>1. IsFiniteSet(1 .. MaxPackets)
  BY <1>0, FS_Interval
<1>. DEFINE top == MAX_PKT - 1
<1>2. top \in Int /\ 0 \in Int /\ ~(0 > top) /\ top - 0 + 1 = MAX_PKT
  BY <1>0
<1>3. IsFiniteSet(0 .. top) /\ Cardinality(0 .. top) = IF 0 > top THEN 0 ELSE top - 0 + 1
  BY <1>2, FS_Interval
<1>. QED BY <1>0, <1>1, <1>2, <1>3 DEF Packets, Slots

LEMMA ReleasingIs ==
  \A p : p \in Releasing <=> \E r \in Readers : \E k \in Kept(r) : buff_temp[k].head = p
  BY DEF Releasing

LEMMA KeptIs ==
  ASSUME TypeOK, CacheInv, NEW r \in Readers, NEW k \in Kept(r)
  PROVE  /\ k \in Entries /\ Returned(r) /\ k >= rd[r].clean
         /\ rd[r].copied_index[k] \in ToFree(r)
         /\ rd[r].copied_index[k] \in Occupied /\ rd[r].copied_index[k] \in Slots
<1>1. k \in Entries /\ Returned(r) /\ k >= rd[r].clean /\ rd[r].copied_index[k] # -1
  BY DEF Kept
<1>2. rd[r].copied_index[k] \in ToFree(r)
  BY <1>1 DEF ToFree
<1>. QED BY <1>1, <1>2 DEF CacheInv, FreeingInv, Occupied

-----------------------------------------------------------------------------
(* What the reader still has to free.                                       *)

LEMMA KeptStays ==
  ASSUME UNCHANGED rd
  PROVE  \A r : Kept(r)' = Kept(r)
  BY DEF Kept, Returned

LEMMA ReleaseDeliver ==
  ASSUME OneReader, TypeOK, CacheInv, NEW r \in Readers, ReadDeliver(r)
  PROVE  ReleaseInv'
<1>1. /\ rd[r].pc = "scan" /\ rd'[r].copied_index = rd[r].copied_index
      /\ UNCHANGED <<ring, buff_temp>> /\ delivered' = delivered \cup Handed(PKTS_PER_BUFFER)
  BY DEF ReadDeliver, HandOver, TypeOK, TypeRd, RdState
<1>2. Wiped = {}
  BY <1>1, ReaderOnly DEF BeingWiped
<1>3. ASSUME NEW k \in Entries, rd[r].copied_index[k] # -1
      PROVE  /\ rd[r].copied_index[k] \in Occupied
             /\ buff_temp[k].head = buff_from_here[rd[r].copied_index[k]].head
             /\ buff_temp[k].head # 0 /\ buff_temp[k].head \in delivered'
  <2>1. k < rd[r].copied_pkts
    BY <1>3 DEF CacheInv, CollectedInv
  <2>2. /\ rd[r].copied_index[k] \in Occupied
        /\ buff_temp[k].head = buff_from_here[rd[r].copied_index[k]].head
    BY <1>1, <2>1 DEF CacheInv, MirrorInv
  <2>3. buff_temp[k].head # 0
    BY <1>2, <2>2 DEF CacheInv, SlotInv
  <2>4. k < PKTS_PER_BUFFER
    BY CacheSizes DEF Entries
  <2>. QED BY <1>1, <2>2, <2>3, <2>4 DEF Handed
<1>4. \A k \in Kept(r)' : k \in Entries /\ rd[r].copied_index[k] # -1
  BY <1>1 DEF Kept
<1>5. ASSUME NEW j \in Entries, NEW k \in Entries,
             rd[r].copied_index[j] # -1, rd[r].copied_index[k] # -1,
             buff_temp[j].head = buff_temp[k].head
      PROVE  j = k
  <2>1. rd[r].copied_index[j] = rd[r].copied_index[k]
    BY <1>3, <1>5 DEF CacheInv, SlotInv
  <2>. QED BY <1>5, <2>1 DEF CacheInv, CollectedInv
<1>6. /\ buff_temp' = buff_temp /\ buff_from_here' = buff_from_here
  BY <1>1 DEF ring
<1>7. \A q \in Readers : q = r
  BY ReaderOnly
<1>. QED BY <1>1, <1>3, <1>4, <1>5, <1>6, <1>7 DEF ReleaseInv

LEMMA ReleaseWipe ==
  ASSUME OneReader, TypeOK, CacheInv, ReleaseInv, NEW r \in Readers,
         ReadWipeHead(r) \/ ReadWipeTail(r)
  PROVE  ReleaseInv' /\ Kept(r)' = Kept(r) /\ Releasing' = Releasing
<1> DEFINE s == Cleaned(r)
<1>1. /\ rd[r].pc \in {"clean", "wipe"} /\ rd'[r].pc \in {"wipe", "free"} /\ s # -1
      /\ rd'[r].copied_index = rd[r].copied_index /\ rd'[r].clean = rd[r].clean
      /\ UNCHANGED <<status, buff_temp, delivered>>
      /\ \A t \in Slots : t # s => buff_from_here'[t] = buff_from_here[t]
  <2>1. CASE ReadWipeHead(r)
    BY <2>1 DEF ReadWipeHead, TypeOK, TypeRing, TypeRd, RdState
  <2>2. CASE ReadWipeTail(r)
    BY <2>2 DEF ReadWipeTail, TypeOK, TypeRing, TypeRd, RdState
  <2>. QED BY <2>1, <2>2
<1>2. Returned(r) /\ Returned(r)'
  BY <1>1 DEF Returned
<1>3. Kept(r)' = Kept(r)
  BY <1>1, <1>2 DEF Kept
<1>4. rd[r].clean \in Entries /\ s = rd[r].copied_index[rd[r].clean]
  BY <1>1, <1>2, CleanedToFree DEF Cleaned
<1>5. \A k \in Kept(r) : rd[r].copied_index[k] = s => k = rd[r].clean
  BY <1>1, <1>4, KeptIs DEF CacheInv, CollectedInv
<1>6. \A k \in Kept(r) : rd[r].copied_index[k] \in Slots
  BY KeptIs
<1>. HIDE DEF s
<1>7. \A q \in Readers : q = r
  BY ReaderOnly
<1>8. ASSUME NEW k \in Kept(r)
      PROVE  \/ k = rd[r].clean
             \/ buff_from_here'[rd[r].copied_index[k]].head = buff_temp[k].head
  BY <1>1, <1>5, <1>6 DEF ReleaseInv
<1>9. ReleaseInv'
  <2>1. \A k \in Kept(r) : /\ buff_temp[k].head \in delivered
                           /\ \A j \in Kept(r) : buff_temp[j].head = buff_temp[k].head => j = k
    BY DEF ReleaseInv
  <2>. QED BY <1>1, <1>3, <1>7, <1>8, <2>1 DEF ReleaseInv
<1>10. \A p : p \in Releasing' <=> \E q \in Readers : \E k \in Kept(q)' : buff_temp'[k].head = p
  BY DEF Releasing
<1>11. Releasing' = Releasing
  <2>1. \A p : p \in Releasing' <=> \E k \in Kept(r) : buff_temp[k].head = p
    BY <1>1, <1>3, <1>7, <1>10
  <2>2. \A p : p \in Releasing <=> \E k \in Kept(r) : buff_temp[k].head = p
    BY <1>7, ReleasingIs
  <2>. QED BY <2>1, <2>2
<1>. QED BY <1>3, <1>9, <1>11

LEMMA ReleaseFree ==
  ASSUME OneReader, TypeOK, CacheInv, ReleaseInv, NEW r \in Readers, ReadFree(r)
  PROVE  /\ ReleaseInv' /\ rd[r].clean \in Kept(r)
         /\ Releasing' = Releasing \ {buff_temp[rd[r].clean].head}
<1>1. /\ rd[r].pc = "free" /\ rd'[r].pc = "clean" /\ Cleaned(r) # -1
      /\ rd'[r].copied_index = rd[r].copied_index /\ rd'[r].clean = rd[r].clean + 1
      /\ UNCHANGED <<buff_from_here, buff_temp, delivered>>
  BY DEF ReadFree, TypeOK, TypeRd, RdState
<1>2. /\ rd[r].clean \in Entries /\ rd[r].copied_index[rd[r].clean] # -1
      /\ Returned(r) /\ Returned(r)'
  BY <1>1, CleanedToFree DEF Returned, Cleaned
<1>3. rd[r].clean \in Nat /\ \A k \in Entries : k \in Nat
  BY ScanTypes
<1>4. rd[r].clean \in Kept(r)
  BY <1>2, <1>3 DEF Kept
<1>5. Kept(r)' = Kept(r) \ {rd[r].clean}
  <2>. DEFINE n == rd[r].clean
  <2>1. Kept(r) = {k \in Entries : k >= n /\ rd[r].copied_index[k] # -1}
    BY <1>2 DEF Kept
  <2>2. Kept(r)' = {k \in Entries : k >= n + 1 /\ rd[r].copied_index[k] # -1}
    BY <1>1, <1>2 DEF Kept
  <2>3. n \in Nat
    BY <1>3
  <2>. HIDE DEF n
  <2>4. \A k \in Entries : k >= n + 1 <=> k >= n /\ k # n
    BY <1>3, <2>3
  <2>5. Kept(r)' = Kept(r) \ {n}
    BY <2>1, <2>2, <2>4
  <2>. QED BY <2>5 DEF n
<1>6. \A q \in Readers : q = r
  BY ReaderOnly
<1>7. \A k \in Kept(r) : /\ buff_temp[k].head \in delivered
                         /\ k # rd[r].clean =>
                              buff_from_here[rd[r].copied_index[k]].head = buff_temp[k].head
                         /\ \A j \in Kept(r) : buff_temp[j].head = buff_temp[k].head => j = k
  BY DEF ReleaseInv
<1>8. ReleaseInv'
  BY <1>1, <1>5, <1>6, <1>7 DEF ReleaseInv
<1>9. \A p : p \in Releasing' <=> \E q \in Readers : \E k \in Kept(q)' : buff_temp'[k].head = p
  BY DEF Releasing
<1>10. Releasing' = Releasing \ {buff_temp[rd[r].clean].head}
  BY <1>1, <1>4, <1>5, <1>6, <1>7, <1>9, ReleasingIs
<1>. QED BY <1>4, <1>8, <1>10

(* Steps before the copy to the process, or after the last slot is free.    *)
LEMMA NoneKept ==
  ASSUME TypeOK, OneReader, NEW r \in Readers,
         ReadBegin(r) \/ ReadSkip(r) \/ ReadGrabHead(r) \/ ReadGrabTail(r)
           \/ ReadFault(r) \/ ReadReturn(r)
  PROVE  ~Returned(r)' /\ Kept(r)' = {} /\ Releasing' = {} /\ ReleaseInv'
<1>1. rd'[r].pc \in {"scan", "grab", "idle"}
  <2>0. rd \in [Readers -> RdState]
    BY DEF TypeOK, TypeRd
  <2>1. CASE ReadBegin(r) \/ ReadFault(r) \/ ReadReturn(r)
    BY <2>0, <2>1 DEF ReadBegin, ReadFault, ReadReturn, RdState
  <2>2. CASE ReadSkip(r) \/ ReadGrabHead(r)
    BY <2>0, <2>2 DEF ReadSkip, ReadGrabHead, RdState
  <2>3. CASE ReadGrabTail(r)
    BY <2>0, <2>3 DEF ReadGrabTail, RdState
  <2>. QED BY <2>1, <2>2, <2>3
<1>2. ~Returned(r)'
  BY <1>1 DEF Returned
<1>3. Kept(r)' = {}
  BY <1>2 DEF Kept
<1>4. \A q \in Readers : q = r
  BY ReaderOnly
<1>5. Releasing' = {} /\ ReleaseInv'
  BY <1>3, <1>4 DEF Releasing, ReleaseInv
<1>. QED BY <1>2, <1>3, <1>5

LEMMA RxKeepsRelease ==
  ASSUME TypeOK, CacheInv, NEW c \in Cpus, rxhPacketIn(c)
  PROVE  Releasing' = Releasing /\ (ReleaseInv => ReleaseInv')
<1>1. UNCHANGED <<rd, buff_temp, delivered>>
  BY RxOnlyOccupies
<1>2. \A s \in Occupied : buff_from_here'[s] = buff_from_here[s]
  BY RxKeepsSlots DEF CacheInv
<1>3. \A r \in Readers : Kept(r)' = Kept(r)
  BY <1>1, KeptStays
<1>4. \A r \in Readers : \A k \in Kept(r) : rd[r].copied_index[k] \in Occupied
  BY KeptIs
<1>5. Releasing' = Releasing
  BY <1>1, <1>3 DEF Releasing
<1>6. ReleaseInv => ReleaseInv'
  BY <1>1, <1>2, <1>3, <1>4 DEF ReleaseInv
<1>. QED BY <1>5, <1>6

LEMMA ReleaseStep == OneReader /\ TypeOK /\ CacheInv /\ ReleaseInv /\ [Next]_vars => ReleaseInv'
<1>. SUFFICES ASSUME OneReader, TypeOK, CacheInv, ReleaseInv, [Next]_vars PROVE ReleaseInv'
  OBVIOUS
<1>1. ASSUME NEW r \in Readers, read(r) PROVE ReleaseInv'
  BY <1>1, ReleaseDeliver, ReleaseWipe, ReleaseFree, NoneKept DEF read
<1>2. CASE UNCHANGED vars
  <2>1. UNCHANGED <<rd, buff_temp, delivered, buff_from_here>>
    BY <1>2 DEF vars, reading, ring
  <2>. QED BY <2>1, KeptStays DEF ReleaseInv
<1>. QED BY <1>1, <1>2, RxKeepsRelease DEF Next

LEMMA ReleaseInvHolds == ASSUME OneCpu, OneReader PROVE Spec => []ReleaseInv
<1>1. Init => ReleaseInv
  BY DEF Init, ReleaseInv, Kept, Returned
<1>. QED BY <1>1, ReleaseStep, TypeCorrect, CacheInvHolds, PTL DEF Spec

-----------------------------------------------------------------------------
(* What the store has are the packets in the occupied slots.                *)

CachedPackets == {p \in Packets : Cached(p)}

LEMMA CachedIs ==
  ASSUME TypeOK, CacheInv, NEW p \in CachedPackets
  PROVE  /\ \E s \in Occupied \ Wiped : buff_from_here[s].head = p
         /\ p \in 1 .. arrived /\ p \notin dropped
<1>1. PICK s \in Occupied : buff_from_here[s] = Whole(p)
  BY DEF CachedPackets, Cached
<1>2. p # 0 /\ buff_from_here[s].head = p
  BY <1>1 DEF CachedPackets, Packets, Whole
<1>3. s \notin Wiped
  BY <1>2 DEF CacheInv, SlotInv
<1>. QED BY <1>1, <1>2, <1>3 DEF CacheInv, SlotInv

LEMMA OccupiedIsCached ==
  ASSUME TypeOK, CacheInv, NEW s \in Occupied \ Wiped
  PROVE  buff_from_here[s].head \in CachedPackets /\ buff_from_here[s].head \in 1 .. arrived
<1>1. /\ buff_from_here[s].head \in 1 .. arrived
      /\ buff_from_here[s].tail = buff_from_here[s].head
  BY DEF CacheInv, SlotInv
<1>2. arrived \in 0 .. MaxPackets /\ buff_from_here[s] \in Cells
  BY DEF TypeOK, TypeRing, TypeHistory, Occupied
<1>3. buff_from_here[s] = Whole(buff_from_here[s].head)
  BY <1>1, <1>2 DEF Cells, Whole
<1>4. buff_from_here[s].head \in Packets
  BY <1>1, <1>2, CacheSizes DEF Packets
<1>. QED BY <1>1, <1>3, <1>4 DEF CachedPackets, Cached

(* A packet the process has is still in a slot only while the reader has    *)
(* that slot to free.                                                       *)
LEMMA DeliveredReleasing ==
  ASSUME UserFaults = FALSE, TypeOK, CacheInv, ReleaseInv,
         NEW s \in Occupied \ Wiped, buff_from_here[s].head \in delivered
  PROVE  \E r \in Readers : \E k \in Kept(r) :
           /\ rd[r].copied_index[k] = s /\ buff_temp[k].head = buff_from_here[s].head
<1>1. PICK r \in Readers : s \in ToFree(r)
  BY DEF CacheInv, DeliveredInv
<1>2. PICK k \in Entries : Returned(r) /\ k >= rd[r].clean /\ rd[r].copied_index[k] = s /\ s # -1
  BY <1>1 DEF ToFree
<1>3. k \in Kept(r)
  BY <1>2 DEF Kept
<1>4. ~(k = rd[r].clean /\ rd[r].pc \in {"wipe", "free"})
  <2>. SUFFICES ASSUME k = rd[r].clean, rd[r].pc \in {"wipe", "free"} PROVE FALSE
    OBVIOUS
  <2>1. Cleaned(r) = s
    BY <1>2 DEF Cleaned
  <2>. QED BY <2>1 DEF Wiped, BeingWiped
<1>. QED BY <1>2, <1>3, <1>4 DEF ReleaseInv

LEMMA ReleasingDelivered ==
  ASSUME ReleaseInv, CacheInv
  PROVE  Releasing \subseteq delivered /\ delivered \subseteq 1 .. arrived
         /\ dropped \subseteq 1 .. arrived /\ delivered \cap dropped = {}
  BY ReleasingIs DEF ReleaseInv, CacheInv, DeliveredInv

(* A packet in the hands of the reader was cached or is in a wiped slot: as *)
(* many packets are stored as slots are occupied.                           *)
LEMMA StoreCount ==
  ASSUME OneReader, UserFaults = FALSE, TypeOK, CacheInv, ReleaseInv
  PROVE  /\ IsFiniteSet(Occupied) /\ Cardinality(CachedPackets \cup Releasing) = Cardinality(Occupied)
         /\ IsFiniteSet(CachedPackets \cup Releasing)
<1>. DEFINE Held(s) == {buff_temp[k].head : k \in {rd[r].clean : r \in {q \in Readers : s \in BeingWiped(q)}}}
            packet == [s \in Occupied |-> IF s \in Wiped THEN CHOOSE p \in Held(s) : TRUE
                                          ELSE buff_from_here[s].head]
            Both == CachedPackets \cup Releasing
<1>1. IsFiniteSet(Occupied)
  <2>1. Occupied \in SUBSET Slots
    BY DEF Occupied
  <2>. QED BY <2>1, PacketsFinite, FS_Subset
<1>2. ASSUME NEW r \in Readers, NEW s \in BeingWiped(r)
      PROVE  /\ rd[r].clean \in Kept(r) /\ s = rd[r].copied_index[rd[r].clean] /\ s \in Occupied
             /\ s \in Wiped /\ packet[s] = buff_temp[rd[r].clean].head
  <2>1. /\ rd[r].pc \in {"wipe", "free"} /\ s = Cleaned(r) /\ Cleaned(r) # -1 /\ Returned(r)
    BY DEF BeingWiped, Returned, TypeOK, TypeRd
  <2>2. rd[r].clean \in Entries /\ s = rd[r].copied_index[rd[r].clean] /\ rd[r].clean \in Nat
    BY <2>1, CleanedToFree, ScanTypes DEF Cleaned
  <2>3. rd[r].clean \in Kept(r)
    BY <2>1, <2>2 DEF Kept
  <2>4. s \in Wiped
    BY DEF Wiped
  <2>5. s \in Occupied
    BY <2>2, <2>3, KeptIs
  <2>6. Held(s) = {buff_temp[rd[r].clean].head}
    BY ReaderOnly
  <2>. QED BY <2>2, <2>3, <2>4, <2>5, <2>6
<1>3. \A s \in Occupied \ Wiped : packet[s] = buff_from_here[s].head
  OBVIOUS
<1>4. \A s \in Wiped : \E r \in Readers : s \in BeingWiped(r)
  BY DEF Wiped
<1>. HIDE DEF packet
<1>5. ASSUME NEW s \in Occupied PROVE packet[s] \in Both
  <2>1. CASE s \in Wiped
    BY <1>2, <1>4, <2>1, ReleasingIs
  <2>2. CASE s \notin Wiped
    BY <1>3, <2>2, OccupiedIsCached
  <2>. QED BY <2>1, <2>2
<1>6. packet \in [Occupied -> Both]
  BY <1>5 DEF packet
<1>7. ASSUME NEW p \in Both PROVE \E s \in Occupied : packet[s] = p
  <2>1. CASE p \in CachedPackets
    BY <1>3, <2>1, CachedIs
  <2>2. CASE p \in Releasing
    <3>0. PICK r \in Readers : \E k \in Kept(r) : buff_temp[k].head = p
      BY <2>2, ReleasingIs
    <3>1. PICK k \in Kept(r) : buff_temp[k].head = p
      BY <3>0
    <3>2. rd[r].copied_index[k] \in Occupied
      BY KeptIs
    <3>3. CASE rd[r].copied_index[k] \in Wiped
      <4>1. rd[r].copied_index[k] \in BeingWiped(r)
        BY <3>3, ReaderOnly
      <4>2. rd[r].copied_index[k] = rd[r].copied_index[rd[r].clean] /\ rd[r].clean \in Kept(r)
        BY <1>2, <4>1
      <4>3. k = rd[r].clean
        BY <4>2 DEF CacheInv, CollectedInv, Kept
      <4>. QED BY <1>2, <3>1, <3>2, <4>1, <4>3
    <3>4. CASE rd[r].copied_index[k] \notin Wiped
      <4>1. ~(k = rd[r].clean /\ rd[r].pc \in {"wipe", "free"})
        <5>. SUFFICES ASSUME k = rd[r].clean, rd[r].pc \in {"wipe", "free"} PROVE FALSE
          OBVIOUS
        <5>1. Cleaned(r) = rd[r].copied_index[k]
          BY DEF Cleaned, Kept
        <5>. QED BY <3>4, <5>1 DEF Wiped, BeingWiped
      <4>. QED BY <1>3, <3>1, <3>2, <3>4, <4>1 DEF ReleaseInv
    <3>. QED BY <3>3, <3>4
  <2>. QED BY <2>1, <2>2
<1>8. ASSUME NEW s \in Occupied, NEW t \in Occupied, packet[s] = packet[t] PROVE s = t
  <2>1. CASE s \in Wiped /\ t \in Wiped
    <3>1. PICK r \in Readers : s \in BeingWiped(r)
      BY <1>4, <2>1
    <3>2. t \in BeingWiped(r)
      BY <2>1, ReaderOnly
    <3>. QED BY <3>1, <3>2 DEF BeingWiped
  <2>2. CASE s \notin Wiped /\ t \notin Wiped
    BY <1>3, <1>8, <2>2 DEF CacheInv, SlotInv
  <2>3. ASSUME NEW v \in Occupied \cap Wiped, NEW u \in Occupied \ Wiped PROVE packet[v] # packet[u]
    <3>. SUFFICES ASSUME packet[v] = packet[u] PROVE FALSE
      OBVIOUS
    <3>1. PICK r \in Readers : v \in BeingWiped(r)
      BY <1>4
    <3>2. /\ rd[r].clean \in Kept(r) /\ packet[v] = buff_temp[rd[r].clean].head
          /\ v = rd[r].copied_index[rd[r].clean]
      BY <1>2, <3>1
    <3>3. packet[u] = buff_from_here[u].head /\ packet[u] \in delivered
      BY <1>3, <3>2 DEF ReleaseInv
    <3>4. PICK q \in Readers : \E k \in Kept(q) :
             rd[q].copied_index[k] = u /\ buff_temp[k].head = buff_from_here[u].head
      BY <3>3, DeliveredReleasing
    <3>5. PICK k \in Kept(q) :
             rd[q].copied_index[k] = u /\ buff_temp[k].head = buff_from_here[u].head
      BY <3>4
    <3>6. q = r /\ k = rd[r].clean
      <4>1. q = r
        BY ReaderOnly
      <4>2. k \in Kept(r) /\ buff_temp[k].head = buff_temp[rd[r].clean].head
        BY <3>2, <3>3, <3>5, <4>1
      <4>. QED BY <3>2, <4>1, <4>2 DEF ReleaseInv
    <3>. QED BY <3>2, <3>5, <3>6
  <2>. QED BY <1>8, <2>1, <2>2, <2>3
<1>9. packet \in Bijection(Occupied, Both)
  BY <1>6, <1>7, <1>8 DEF Bijection, Injection, Surjection, IsInjective
<1>10. ExistsBijection(Occupied, Both)
  BY <1>9 DEF ExistsBijection
<1>. HIDE DEF Both
<1>11. IsFiniteSet(Both) /\ Cardinality(Both) = Cardinality(Occupied)
  BY <1>1, <1>10, FS_Bijection
<1>. QED BY <1>1, <1>11 DEF Both

-----------------------------------------------------------------------------
(* The counters.                                                            *)

LEMMA DroppedFinite ==
  ASSUME TypeOK
  PROVE  IsFiniteSet(dropped) /\ Cardinality(dropped) \in Nat
<1>1. IsFiniteSet(dropped)
  BY PacketsFinite, FS_Subset DEF TypeOK, TypeHistory
<1>. QED BY <1>1, FS_CardinalityType

LEMMA DisjointUnion ==
  ASSUME NEW S, NEW T, IsFiniteSet(S), IsFiniteSet(T), S \cap T = {}
  PROVE  IsFiniteSet(S \cup T) /\ Cardinality(S \cup T) = Cardinality(S) + Cardinality(T)
<1>1. Cardinality(S) \in Nat /\ Cardinality(T) \in Nat /\ Cardinality({}) = 0
  BY FS_CardinalityType, FS_EmptySet
<1>2. /\ IsFiniteSet(S \cup T)
      /\ Cardinality(S \cup T) = Cardinality(S) + Cardinality(T) - Cardinality(S \cap T)
  BY FS_Union
<1>3. Cardinality(S \cap T) = 0
  BY <1>1
<1>. QED BY <1>1, <1>2, <1>3

LEMMA TallyKept ==
  ASSUME TallyInv, UNCHANGED <<rx, count_pkt, count_pkt_overflow, arrived, dropped>>
  PROVE  TallyInv'
  BY DEF TallyInv

LEMMA RxKeepsTally ==
  ASSUME OneCpu, TypeOK, CacheInv, TallyInv, NEW c \in Cpus, rxhPacketIn(c)
  PROVE  TallyInv'
<1>1. /\ \A d \in Cpus : d = c
      /\ rx \in [Cpus -> RxState] /\ arrived \in Nat /\ count_pkt \in Nat
  BY WriterOnly, CacheSizes DEF TypeOK, TypeRx, TypeHistory, TypeStats
<1>2. CASE RxEnter(c)
  <2>1. /\ rx[c].pc = "idle" /\ rx'[c].pc = "count" /\ rx'[c].reg = count_pkt
        /\ arrived' = arrived + 1 /\ UNCHANGED <<stats, dropped>>
    BY <1>1, <1>2 DEF RxEnter, RxState
  <2>2. count_pkt = arrived
    BY <1>1, <2>1 DEF TallyInv
  <2>. QED BY <1>1, <2>1, <2>2 DEF TallyInv, stats
<1>3. CASE RxCount(c)
  <2>1. /\ rx[c].pc = "count" /\ rx'[c].pc = "probe" /\ count_pkt' = rx[c].reg + 1
        /\ UNCHANGED <<arrived, dropped, count_pkt_overflow>>
    BY <1>1, <1>3 DEF RxCount, RxState
  <2>2. count_pkt' = arrived'
    BY <1>1, <2>1 DEF TallyInv
  <2>. QED BY <1>1, <2>1, <2>2 DEF TallyInv
<1>4. CASE RxNoSlot(c)
  <2>1. /\ rx[c].pc = "probe" /\ rx'[c].pc = "overflow" /\ rx'[c].reg = count_pkt_overflow
        /\ UNCHANGED <<stats, arrived, dropped>>
    BY <1>1, <1>4 DEF RxNoSlot, RxState
  <2>. QED BY <1>1, <2>1 DEF TallyInv, stats
<1>5. CASE RxOverflow(c)
  <2>1. /\ rx[c].pc = "overflow" /\ rx'[c].pc = "idle"
        /\ count_pkt_overflow' = rx[c].reg + 1 /\ dropped' = dropped \cup {rx[c].pkt}
        /\ UNCHANGED <<count_pkt, arrived>>
    BY <1>1, <1>5 DEF RxOverflow, RxState
  <2>2. rx[c].pkt \notin dropped
    BY <2>1 DEF CacheInv, WriterInv
  <2>3. Cardinality(dropped \cup {rx[c].pkt}) = Cardinality(dropped) + 1
    BY <2>2, DroppedFinite, FS_AddElement
  <2>. QED BY <1>1, <2>1, <2>3 DEF TallyInv
<1>6. ASSUME RxFree(c) \/ RxBusy(c) \/ RxCopyHead(c) \/ RxCopyTail(c) \/ RxPublish(c)
               \/ RxAdvance(c)
      PROVE  TallyInv'
  <2>1. /\ rx[c].pc \notin {"idle", "count"} /\ rx'[c].pc \notin {"count", "overflow"}
        /\ UNCHANGED <<stats, arrived, dropped>>
    BY <1>1, <1>6 DEF RxFree, RxBusy, RxCopyHead, RxCopyTail, RxPublish, RxAdvance, RxState
  <2>. QED BY <1>1, <2>1 DEF TallyInv, stats
<1>. QED BY <1>2, <1>3, <1>4, <1>5, <1>6 DEF rxhPacketIn

LEMMA ReadKeepsTally ==
  ASSUME TallyInv, NEW r \in Readers, read(r)
  PROVE  TallyInv'
<1>1. UNCHANGED <<stats, handling>>
  BY DEF read, ReadBegin, ReadSkip, ReadGrabHead, ReadGrabTail, ReadDeliver, ReadFault,
         ReadWipeHead, ReadWipeTail, ReadFree, ReadReturn
<1>. QED BY <1>1, TallyKept DEF stats, handling

LEMMA TallyStep == OneCpu /\ TypeOK /\ CacheInv /\ TallyInv /\ [Next]_vars => TallyInv'
<1>1. UNCHANGED vars => UNCHANGED <<rx, count_pkt, count_pkt_overflow, arrived, dropped>>
  BY DEF vars, stats, handling
<1>. QED BY <1>1, RxKeepsTally, ReadKeepsTally, TallyKept DEF Next

LEMMA TallyInvHolds == ASSUME OneCpu, OneReader PROVE Spec => []TallyInv
<1>1. Init => TallyInv
  BY FS_EmptySet DEF Init, TallyInv
<1>. QED BY <1>1, TallyStep, TypeCorrect, CacheInvHolds, PTL DEF Spec

(* CountersAddUp: in the setup of the experiment (one CPU takes the         *)
(* interrupts, one process reads, and copying to it does not fail) the      *)
(* numbers printed when the module is unloaded add up.                      *)
THEOREM StatisticsAddUp == OneSetup => (Spec => []CountersAddUp)
<1>. SUFFICES ASSUME OneCpu, OneReader, UserFaults = FALSE PROVE Spec => []CountersAddUp
  BY DEF OneSetup
<1>1. TypeOK /\ CacheInv /\ ReleaseInv /\ TallyInv => CountersAddUp
  <2>. SUFFICES ASSUME TypeOK, CacheInv, ReleaseInv, TallyInv,
                       \A c \in Cpus : rx[c].pc = "idle",
                       \A r \in Readers : rd[r].pc \notin {"clean", "wipe", "free"}
                PROVE  count_pkt = count_pkt_overflow + Cardinality(Occupied)
                                     + Cardinality(delivered)
    BY DEF CountersAddUp
  <2>1. Releasing = {} /\ Wiped = {}
    BY ReleasingIs DEF Kept, Returned, Wiped, BeingWiped
  <2>2. count_pkt = arrived /\ count_pkt_overflow = Cardinality(dropped)
    BY DEF TallyInv
  <2>3. \A p \in 1 .. arrived : p \in CachedPackets \/ p \in dropped \/ p \in delivered
    <3>1. 1 .. arrived \subseteq Packets
      BY CacheSizes DEF Packets, TypeOK, TypeHistory
    <3>. QED BY <3>1 DEF CacheInv, NoSilentLoss, InHandler, CachedPackets
  <2>4. CachedPackets \subseteq 1 .. arrived /\ CachedPackets \cap dropped = {}
    BY CachedIs
  <2>5. CachedPackets \cap delivered = {}
    <3>. SUFFICES ASSUME NEW p \in CachedPackets, p \in delivered PROVE FALSE
      OBVIOUS
    <3>1. PICK s \in Occupied \ Wiped : buff_from_here[s].head = p
      BY CachedIs
    <3>2. \E r \in Readers : \E k \in Kept(r) : TRUE
      BY <3>1, DeliveredReleasing
    <3>. QED BY <3>2 DEF Kept, Returned
  <2>6. /\ delivered \subseteq 1 .. arrived /\ dropped \subseteq 1 .. arrived
        /\ delivered \cap dropped = {}
    BY ReleasingDelivered
  <2>7. /\ IsFiniteSet(CachedPackets) /\ Cardinality(CachedPackets) = Cardinality(Occupied)
    BY <2>1, StoreCount
  <2>8. IsFiniteSet(dropped) /\ IsFiniteSet(delivered)
    BY PacketsFinite, FS_Subset DEF TypeOK, TypeHistory
  <2>. DEFINE kept == dropped \cup CachedPackets
  <2>9. /\ IsFiniteSet(kept) /\ kept \cap delivered = {}
        /\ Cardinality(kept) = Cardinality(dropped) + Cardinality(CachedPackets)
    <3>1. dropped \cap CachedPackets = {} /\ kept \cap delivered = {}
      BY <2>4, <2>5, <2>6
    <3>. QED BY <2>7, <2>8, <3>1, DisjointUnion
  <2>10. 1 .. arrived = kept \cup delivered
    BY <2>3, <2>4, <2>6
  <2>. HIDE DEF kept
  <2>11. Cardinality(kept \cup delivered) = Cardinality(kept) + Cardinality(delivered)
    BY <2>8, <2>9, DisjointUnion
  <2>12. Cardinality(1 .. arrived) = arrived
    <3>1. arrived \in Nat
      BY CacheSizes DEF TypeOK, TypeHistory
    <3>2. Cardinality(1 .. arrived) = IF 1 > arrived THEN 0 ELSE arrived - 1 + 1
      BY <3>1, FS_Interval
    <3>. QED BY <3>1, <3>2
  <2>. QED BY <2>2, <2>7, <2>9, <2>10, <2>11, <2>12
<1>. QED BY <1>1, TypeCorrect, CacheInvHolds, ReleaseInvHolds, TallyInvHolds, PTL

-----------------------------------------------------------------------------
(* The cache is a PacketStore.  What a step of one side leaves alone.       *)

LEMMA StoredIs ==
  /\ Stored = CachedPackets \ Releasing /\ Stored' = CachedPackets' \ Releasing'
  /\ Stored \cup Releasing = CachedPackets \cup Releasing
  BY DEF Stored, CachedPackets

(* INSTANCE gives PacketStore a Cardinality of its own. *)
LEMMA SameCardinality == \A S : Store!Cardinality(S) = Cardinality(S)
  BY DEF Store!Cardinality, Cardinality

LEMMA FullIs ==
  ASSUME OneReader, UserFaults = FALSE, TypeOK, CacheInv, ReleaseInv
  PROVE  Store!Full <=> Occupied = Slots
<1>1. Store!Full <=> Cardinality(Occupied) = MAX_PKT
  BY StoreCount, StoredIs, SameCardinality DEF Store!Full
<1>2. Occupied \subseteq Slots
  BY DEF Occupied
<1>3. Cardinality(Occupied) = Cardinality(Slots) => Occupied = Slots
  BY <1>2, PacketsFinite, FS_Subset
<1>. QED BY <1>1, <1>3, PacketsFinite

LEMMA HandlerIs ==
  ASSUME OneCpu, TypeOK, TypeOK', NEW c \in Cpus
  PROVE  /\ Arriving = IF rx[c].pc \in {"idle", "advance"} THEN {} ELSE {rx[c].pkt}
         /\ Arriving' = IF rx'[c].pc \in {"idle", "advance"} THEN {} ELSE {rx'[c].pkt}
         /\ Roomless <=> rx[c].full /\ rx[c].pc \in {"probe", "head", "tail", "publish", "overflow"}
         /\ Roomless' <=> rx'[c].full
                            /\ rx'[c].pc \in {"probe", "head", "tail", "publish", "overflow"}
<1>1. \A d \in Cpus : d = c
  BY WriterOnly
<1>2. /\ rx[c].pc # "idle" => rx[c].pkt \in Packets
      /\ rx'[c].pc # "idle" => rx'[c].pkt \in Packets
  BY DEF TypeOK, TypeRx
<1>3. /\ \A p \in Packets : InHandler(p) <=> rx[c].pkt = p /\ rx[c].pc \notin {"idle", "advance"}
      /\ \A p \in Packets : InHandler(p)' <=> rx'[c].pkt = p /\ rx'[c].pc \notin {"idle", "advance"}
  BY <1>1 DEF InHandler
<1>4. Arriving = IF rx[c].pc \in {"idle", "advance"} THEN {} ELSE {rx[c].pkt}
  BY <1>2, <1>3 DEF Arriving
<1>5. Arriving' = IF rx'[c].pc \in {"idle", "advance"} THEN {} ELSE {rx'[c].pkt}
  BY <1>2, <1>3 DEF Arriving
<1>. QED BY <1>1, <1>4, <1>5 DEF Roomless

LEMMA RxKeepsReading ==
  ASSUME TypeOK, CacheInv, ScanInv, NEW c \in Cpus, rxhPacketIn(c)
  PROVE  UNCHANGED <<Releasing, Phase, Promised, delivered>>
<1>1. UNCHANGED <<rd, buff_temp, delivered>> /\ Releasing' = Releasing
  BY RxOnlyOccupies, RxKeepsRelease
<1>2. \A s \in Occupied : buff_from_here'[s] = buff_from_here[s]
  BY RxKeepsSlots DEF CacheInv
<1>3. Phase' = Phase
  BY <1>1 DEF Phase, Returned, Collecting
<1>. DEFINE begun == UNION {rd[r].seen : r \in {q \in Readers : Collecting(q)}}
<1>4. begun' = begun
  BY <1>1 DEF Collecting
<1>5. \A s \in begun : s \in Occupied
  BY DEF Collecting, ScanInv
<1>6. Promised = {buff_from_here[s].head : s \in begun}
      /\ Promised' = {buff_from_here'[s].head : s \in begun'}
  BY DEF Promised
<1>. HIDE DEF begun
<1>7. Promised' = Promised
  BY <1>2, <1>4, <1>5, <1>6
<1>. QED BY <1>1, <1>3, <1>7

LEMMA RxKeepsStored ==
  ASSUME TypeOK, CacheInv, NEW c \in Cpus, rxhPacketIn(c), UNCHANGED status
  PROVE  CachedPackets' = CachedPackets /\ Stored' = Stored
<1>1. \A s \in Occupied : buff_from_here'[s] = buff_from_here[s]
  BY RxKeepsSlots DEF CacheInv
<1>2. Occupied' = Occupied
  BY DEF Occupied
<1>3. \A p \in Packets : Cached(p)' <=> Cached(p)
  BY <1>1, <1>2 DEF Cached, Whole
<1>4. CachedPackets' = CachedPackets
  BY <1>3 DEF CachedPackets
<1>. QED BY <1>4, RxKeepsRelease, StoredIs

LEMMA ReadKeepsHandler ==
  ASSUME NEW r \in Readers, read(r)
  PROVE  UNCHANGED <<Arriving, Roomless, dropped, arrived>>
<1>1. UNCHANGED <<rx, arrived, dropped>>
  BY DEF read, ReadBegin, ReadSkip, ReadGrabHead, ReadGrabTail, ReadDeliver, ReadFault,
         ReadWipeHead, ReadWipeTail, ReadFree, ReadReturn, handling
<1>. QED BY <1>1 DEF Arriving, InHandler, Roomless

LEMMA SameCached ==
  ASSUME UNCHANGED ring
  PROVE  CachedPackets' = CachedPackets
  BY DEF CachedPackets, Cached, Occupied, ring

LEMMA PhaseIs ==
  ASSUME OneReader, NEW r \in Readers
  PROVE  /\ Phase = IF Returned(r) THEN "release" ELSE IF Collecting(r) THEN "scan" ELSE "no"
         /\ Phase' = IF Returned(r)' THEN "release" ELSE IF Collecting(r)' THEN "scan" ELSE "no"
         /\ Promised = IF Collecting(r) THEN {buff_from_here[s].head : s \in rd[r].seen} ELSE {}
         /\ Promised' = IF Collecting(r)' THEN {buff_from_here'[s].head : s \in rd'[r].seen} ELSE {}
<1>1. \A q \in Readers : q = r
  BY ReaderOnly
<1>2. /\ (\E q \in Readers : Returned(q)) <=> Returned(r)
      /\ (\E q \in Readers : Returned(q)') <=> Returned(r)'
      /\ (\E q \in Readers : Collecting(q)) <=> Collecting(r)
      /\ (\E q \in Readers : Collecting(q)') <=> Collecting(r)'
  BY <1>1
<1>3. /\ Phase = IF Returned(r) THEN "release" ELSE IF Collecting(r) THEN "scan" ELSE "no"
      /\ Phase' = IF Returned(r)' THEN "release" ELSE IF Collecting(r)' THEN "scan" ELSE "no"
  BY <1>2 DEF Phase
<1>4. /\ UNION {rd[q].seen : q \in {n \in Readers : Collecting(n)}}
           = IF Collecting(r) THEN rd[r].seen ELSE {}
      /\ UNION {rd'[q].seen : q \in {n \in Readers : Collecting(n)'}}
           = IF Collecting(r)' THEN rd'[r].seen ELSE {}
  BY <1>1
<1>5. /\ Promised = {buff_from_here[s].head : s \in IF Collecting(r) THEN rd[r].seen ELSE {}}
      /\ Promised' = {buff_from_here'[s].head : s \in IF Collecting(r)' THEN rd'[r].seen ELSE {}}
  BY <1>4 DEF Promised
<1>. QED BY <1>3, <1>5

-----------------------------------------------------------------------------
(* The handler's steps.                                                     *)

StoreInv == TypeOK /\ CacheInv /\ ReleaseInv /\ ProbeInv /\ ScanInv

LEMMA Stutters ==
  ASSUME UNCHANGED <<Arriving, Roomless, Stored, Releasing, delivered, dropped, Phase, Promised>>
  PROVE  UNCHANGED Store!storeVars
  BY DEF Store!storeVars

LEMMA EnterArrives ==
  ASSUME OneSetup, StoreInv, TypeOK', NEW c \in Cpus, RxEnter(c)
  PROVE  Store!Arrive
<1>. USE DEF OneSetup, StoreInv
<1>1. /\ rx[c].pc = "idle" /\ rx'[c].pc = "count" /\ rx'[c].pkt = arrived + 1
      /\ arrived \in Nat /\ arrived + 1 \in Packets /\ UNCHANGED <<status, dropped>>
  BY CacheSizes DEF RxEnter, TypeOK, TypeRx, RxState, TypeHistory, Packets, ring
<1>2. rxhPacketIn(c)
  BY DEF rxhPacketIn
<1>3. UNCHANGED <<Stored, Releasing, Phase, Promised, delivered>>
  BY <1>1, <1>2, RxKeepsReading, RxKeepsStored
<1>4. Arriving = {} /\ Arriving' = {arrived + 1} /\ Roomless' = FALSE
  BY <1>1, HandlerIs DEF Roomless
<1>5. arrived + 1 \notin 1 .. arrived
  BY <1>1
<1>6. arrived + 1 \in Packets \ (Stored \cup Releasing \cup delivered \cup dropped)
  <2>1. Stored \subseteq 1 .. arrived
    BY StoredIs, CachedIs
  <2>. QED BY <1>1, <1>5, <2>1, ReleasingDelivered
<1>. QED BY <1>1, <1>3, <1>4, <1>6 DEF Store!Arrive

LEMMA CountLooks ==
  ASSUME OneSetup, StoreInv, TypeOK', NEW c \in Cpus, RxCount(c)
  PROVE  Store!Look
<1>. USE DEF OneSetup, StoreInv
<1>1. /\ rx[c].pc = "count" /\ rx'[c].pc = "probe" /\ rx'[c].pkt = rx[c].pkt
      /\ rx'[c].full = (Occupied = Slots) /\ UNCHANGED <<status, dropped>>
  BY DEF RxCount, TypeOK, TypeRx, RxState, ring
<1>2. rxhPacketIn(c)
  BY DEF rxhPacketIn
<1>3. UNCHANGED <<Stored, Releasing, Phase, Promised, delivered>>
  BY <1>1, <1>2, RxKeepsReading, RxKeepsStored
<1>4. Arriving # {} /\ Arriving' = Arriving
  BY <1>1, HandlerIs
<1>5. Roomless' <=> Store!Full
  BY <1>1, HandlerIs, FullIs
<1>6. Roomless' = Store!Full
  BY <1>5 DEF Roomless, Store!Full
<1>. QED BY <1>1, <1>3, <1>4, <1>6 DEF Store!Look

LEMMA PublishAccepts ==
  ASSUME OneSetup, StoreInv, TypeOK', CacheInv', NEW c \in Cpus, RxPublish(c)
  PROVE  Store!Accept
<1>. USE DEF OneSetup, StoreInv
<1>. DEFINE w == rx[c].write_index
            p == rx[c].pkt
<1>1. /\ rx[c].pc = "publish" /\ rx'[c].pc = "advance" /\ w \in Slots /\ p \in Packets
      /\ status' = [status EXCEPT ![w] = 1] /\ UNCHANGED <<buff_from_here, dropped>>
  BY DEF RxPublish, TypeOK, TypeRx, RxState
<1>2. rxhPacketIn(c)
  BY DEF rxhPacketIn
<1>3. UNCHANGED <<Releasing, Phase, Promised, delivered>>
  BY <1>2, RxKeepsReading
<1>4. Arriving = {p} /\ Arriving' = {} /\ ~Roomless'
  BY <1>1, HandlerIs
<1>5. IsFree(w) /\ buff_from_here[w].head = p /\ buff_from_here[w].tail = p /\ p \notin delivered
  BY <1>1 DEF CacheInv, WriterInv
<1>6. ~Store!Full
  <2>1. w \notin Occupied
    BY <1>5 DEF Occupied, IsFree
  <2>. QED BY <1>1, <2>1, FullIs
<1>7. Occupied' = Occupied \cup {w}
  BY <1>1 DEF Occupied, TypeOK, TypeRing
<1>8. buff_from_here[w] = Whole(p)
  BY <1>1, <1>5 DEF TypeOK, TypeRing, Cells, Whole
<1>. HIDE DEF w, p
<1>9. CachedPackets' = CachedPackets \cup {p}
  <2>1. \A q \in Packets : Cached(q)' <=> Cached(q) \/ q = p
    BY <1>1, <1>7, <1>8 DEF Cached, Whole
  <2>. QED BY <1>1, <2>1 DEF CachedPackets
<1>10. p \notin Releasing
  BY <1>5, ReleasingDelivered
<1>11. Stored' = Stored \cup {p}
  BY <1>3, <1>9, <1>10, StoredIs
<1>12. Roomless' = FALSE
  BY <1>4 DEF Roomless
<1>. QED BY <1>1, <1>3, <1>4, <1>6, <1>11, <1>12 DEF Store!Accept

LEMMA OverflowDrops ==
  ASSUME OneSetup, StoreInv, TypeOK', NEW c \in Cpus, RxOverflow(c)
  PROVE  Store!Drop
<1>. USE DEF OneSetup, StoreInv
<1>1. /\ rx[c].pc = "overflow" /\ rx'[c].pc = "idle"
      /\ dropped' = dropped \cup {rx[c].pkt} /\ UNCHANGED status
  BY DEF RxOverflow, TypeOK, TypeRx, RxState, ring
<1>2. rxhPacketIn(c)
  BY DEF rxhPacketIn
<1>3. UNCHANGED <<Stored, Releasing, Phase, Promised, delivered>>
  BY <1>1, <1>2, RxKeepsReading, RxKeepsStored
<1>4. rx[c].full
  BY <1>1 DEF ProbeInv
<1>5. Arriving = {rx[c].pkt} /\ Arriving' = {} /\ Roomless /\ ~Roomless'
  BY <1>1, <1>4, HandlerIs
<1>6. Roomless' = FALSE
  BY <1>5 DEF Roomless
<1>. QED BY <1>1, <1>3, <1>5, <1>6 DEF Store!Drop

(* The search, the two halves of the copy and the new current_index. *)
LEMMA OtherRxStutters ==
  ASSUME OneSetup, StoreInv, TypeOK', NEW c \in Cpus,
         RxFree(c) \/ RxBusy(c) \/ RxNoSlot(c) \/ RxCopyHead(c) \/ RxCopyTail(c) \/ RxAdvance(c)
  PROVE  UNCHANGED Store!storeVars
<1>. USE DEF OneSetup, StoreInv
<1>1. /\ rx'[c].pkt = rx[c].pkt /\ rx'[c].full = rx[c].full
      /\ \/ /\ rx[c].pc \in {"probe", "head", "tail"}
            /\ rx'[c].pc \in {"probe", "head", "tail", "publish", "overflow"}
         \/ rx[c].pc = "advance" /\ rx'[c].pc = "idle"
      /\ UNCHANGED <<status, dropped>>
  BY DEF RxFree, RxBusy, RxNoSlot, RxCopyHead, RxCopyTail, RxAdvance, TypeOK, TypeRx, RxState, ring
<1>2. rxhPacketIn(c)
  BY DEF rxhPacketIn
<1>3. UNCHANGED <<Stored, Releasing, Phase, Promised, delivered>>
  BY <1>1, <1>2, RxKeepsReading, RxKeepsStored
<1>4. Arriving' = Arriving /\ (Roomless' <=> Roomless)
  BY <1>1, HandlerIs
<1>5. Roomless' = Roomless
  BY <1>4 DEF Roomless
<1>. QED BY <1>1, <1>3, <1>4, <1>5, Stutters

-----------------------------------------------------------------------------
(* The reader's steps.                                                      *)

LEMMA NothingKept ==
  ASSUME OneReader, NEW r \in Readers, ~Returned(r)
  PROVE  Kept(r) = {} /\ Releasing = {} /\ Wiped = {}
<1>1. \A q \in Readers : q = r
  BY ReaderOnly
<1>. QED BY <1>1, ReleasingIs DEF Kept, Wiped, BeingWiped, Returned

LEMMA BeginStarts ==
  ASSUME OneSetup, StoreInv, NEW r \in Readers, ReadBegin(r)
  PROVE  Store!StartRead
<1>. USE DEF OneSetup, StoreInv
<1>1. /\ rd[r].pc = "idle" /\ rd'[r].pc = "scan" /\ rd'[r].seen = Occupied
      /\ UNCHANGED <<ring, delivered>>
  BY DEF ReadBegin, TypeOK, TypeRd, RdState
<1>2. read(r)
  BY DEF read
<1>3. ~Returned(r) /\ ~Collecting(r) /\ ~Returned(r)' /\ Collecting(r)'
  BY <1>1 DEF Returned, Collecting
<1>4. Releasing = {} /\ Releasing' = {} /\ Wiped = {}
  BY <1>3, NothingKept, NoneKept
<1>5. Stored' = Stored /\ Stored = CachedPackets
  BY <1>1, <1>4, StoredIs, SameCached
<1>6. Phase = "no" /\ Phase' = "scan" /\ Promised' = {buff_from_here'[s].head : s \in Occupied}
  BY <1>1, <1>3, PhaseIs
<1>7. buff_from_here' = buff_from_here
  BY <1>1 DEF ring
<1>8. Promised' = CachedPackets
  <2>1. \A s \in Occupied : buff_from_here[s].head \in CachedPackets
    BY <1>4, OccupiedIsCached
  <2>2. \A p \in CachedPackets : \E s \in Occupied : buff_from_here[s].head = p
    BY <1>4, CachedIs
  <2>. QED BY <1>6, <1>7, <2>1, <2>2
<1>. QED BY <1>1, <1>2, <1>4, <1>5, <1>6, <1>8, ReadKeepsHandler DEF Store!StartRead

LEMMA ScanStutters ==
  ASSUME OneSetup, StoreInv, NEW r \in Readers,
         ReadSkip(r) \/ ReadGrabHead(r) \/ ReadGrabTail(r)
  PROVE  UNCHANGED Store!storeVars
<1>. USE DEF OneSetup, StoreInv
<1>0. rd \in [Readers -> RdState]
  BY DEF TypeOK, TypeRd
<1>1. /\ rd[r].pc \in {"scan", "grab"} /\ rd'[r].pc \in {"scan", "grab"}
      /\ rd'[r].seen = rd[r].seen /\ UNCHANGED <<ring, delivered>>
  <2>1. CASE ReadSkip(r)
    BY <1>0, <2>1 DEF ReadSkip, RdState
  <2>2. CASE ReadGrabHead(r)
    BY <1>0, <2>2 DEF ReadGrabHead, RdState
  <2>3. CASE ReadGrabTail(r)
    BY <1>0, <2>3 DEF ReadGrabTail, RdState
  <2>. QED BY <2>1, <2>2, <2>3
<1>2. read(r)
  BY DEF read
<1>3. ~Returned(r) /\ Collecting(r) /\ ~Returned(r)' /\ Collecting(r)'
  BY <1>1 DEF Returned, Collecting
<1>4. Releasing = {} /\ Releasing' = {}
  BY <1>3, NothingKept, NoneKept
<1>5. Stored' = Stored
  BY <1>1, <1>4, StoredIs, SameCached
<1>6. buff_from_here' = buff_from_here
  BY <1>1 DEF ring
<1>7. Phase' = Phase /\ Promised' = Promised
  BY <1>1, <1>3, <1>6, PhaseIs
<1>. QED BY <1>1, <1>2, <1>4, <1>5, <1>7, ReadKeepsHandler, Stutters

(* What a read() that has ended its scan hands over: heads of occupied      *)
(* slots, as many as fit, or all that were occupied when it began.          *)
LEMMA BatchIs ==
  ASSUME OneReader, StoreInv, NEW r \in Readers, rd[r].pc = "scan", ~Scanning(r)
  PROVE  LET S == Handed(PKTS_PER_BUFFER)
         IN /\ S \subseteq CachedPackets
            /\ Cardinality(S) <= PKTS_PER_BUFFER
            /\ Cardinality(S) < PKTS_PER_BUFFER => Promised \subseteq S
<1>. USE DEF StoreInv
<1>. DEFINE S == Handed(PKTS_PER_BUFFER)
            Full(k) == rd[r].copied_index[k] # -1
<1>1. ~Returned(r) /\ Collecting(r) /\ Wiped = {}
  <2>1. ~Returned(r) /\ Collecting(r)
    BY DEF Returned, Collecting
  <2>. QED BY <2>1, NothingKept
<1>2. \A p : p \in S <=> p # 0 /\ \E k \in Entries : buff_temp[k].head = p
  <2>1. \A k \in Entries : k < PKTS_PER_BUFFER
    BY CacheSizes DEF Entries
  <2>. QED BY <2>1 DEF Handed
<1>3. ASSUME NEW k \in Entries, buff_temp[k].head # 0
      PROVE  buff_temp[k].head \in CachedPackets
  <2>1. /\ rd[r].copied_index[k] \in Occupied
        /\ buff_from_here[rd[r].copied_index[k]].head = buff_temp[k].head
    BY <1>3, HandedIsCopied
  <2>. QED BY <1>1, <2>1, OccupiedIsCached
<1>4. S \subseteq CachedPackets
  BY <1>2, <1>3
<1>5. IsFiniteSet(Entries) /\ Cardinality(Entries) = PKTS_PER_BUFFER
  <2>. DEFINE top == PKTS_PER_BUFFER - 1
  <2>1. PKTS_PER_BUFFER \in Nat \ {0} /\ top \in Int /\ 0 \in Int /\ ~(0 > top)
        /\ top - 0 + 1 = PKTS_PER_BUFFER
    BY CacheSizes
  <2>2. IsFiniteSet(0 .. top) /\ Cardinality(0 .. top) = IF 0 > top THEN 0 ELSE top - 0 + 1
    BY <2>1, FS_Interval
  <2>. QED BY <2>1, <2>2 DEF Entries
<1>. DEFINE All == {buff_temp[k].head : k \in Entries}
            f == [k \in Entries |-> buff_temp[k].head]
<1>6. IsFiniteSet(All) /\ Cardinality(All) <= Cardinality(Entries)
  <2>1. f \in Surjection(Entries, All)
    BY DEF Surjection
  <2>. HIDE DEF f, All
  <2>. QED BY <1>5, <2>1, FS_Surjection
<1>7. S \subseteq All
  BY <1>2
<1>8. /\ IsFiniteSet(S) /\ Cardinality(S) \in Nat /\ Cardinality(All) \in Nat
      /\ Cardinality(S) <= Cardinality(All)
  BY <1>6, <1>7, FS_Subset, FS_CardinalityType
<1>9. Cardinality(S) <= PKTS_PER_BUFFER
  BY <1>5, <1>6, <1>8, PacketsFinite
<1>10. \A k \in Entries : k < rd[r].copied_pkts =>
         /\ Full(k) /\ rd[r].copied_index[k] \in Occupied
         /\ buff_temp[k].head = buff_from_here[rd[r].copied_index[k]].head
         /\ buff_temp[k].head # 0
  <2>1. ASSUME NEW k \in Entries, k < rd[r].copied_pkts
        PROVE  /\ Full(k) /\ rd[r].copied_index[k] \in Occupied
               /\ buff_temp[k].head = buff_from_here[rd[r].copied_index[k]].head
               /\ buff_temp[k].head # 0
    <3>1. /\ Full(k) /\ rd[r].copied_index[k] \in Occupied
          /\ buff_temp[k].head = buff_from_here[rd[r].copied_index[k]].head
      BY <2>1 DEF CacheInv, CollectedInv, MirrorInv
    <3>2. buff_from_here[rd[r].copied_index[k]].head # 0
      BY <1>1, <3>1 DEF CacheInv, SlotInv
    <3>. QED BY <3>1, <3>2
  <2>. QED BY <2>1
<1>11. CASE rd[r].copied_pkts < PKTS_PER_BUFFER
  <2>1. rd[r].seen \subseteq Copied(r)
    BY <1>11, ScanIsComplete DEF ShortReadComplete
  <2>2. ASSUME NEW s \in rd[r].seen PROVE buff_from_here[s].head \in S
    <3>1. PICK k \in Entries : rd[r].copied_index[k] = s /\ s # -1
      BY <2>1 DEF Copied
    <3>2. k < rd[r].copied_pkts
      BY <3>1 DEF CacheInv, CollectedInv
    <3>. QED BY <1>2, <1>10, <3>1, <3>2
  <2>3. Promised = {buff_from_here[s].head : s \in rd[r].seen}
    <3>1. \A q \in Readers : q = r
      BY ReaderOnly
    <3>. QED BY <1>1, <3>1 DEF Promised
  <2>. QED BY <1>4, <1>9, <2>2, <2>3
<1>12. CASE ~(rd[r].copied_pkts < PKTS_PER_BUFFER)
  <2>1. \A k \in Entries : k < rd[r].copied_pkts
    BY <1>12, ScanTypes, CacheSizes DEF Entries
  <2>2. ASSUME NEW j \in Entries, NEW k \in Entries, buff_temp[j].head = buff_temp[k].head
        PROVE  j = k
    <3>1. rd[r].copied_index[j] = rd[r].copied_index[k]
      BY <1>10, <2>1, <2>2 DEF CacheInv, SlotInv
    <3>. QED BY <1>10, <2>1, <3>1 DEF CacheInv, CollectedInv
  <2>3. \A k \in Entries : buff_temp[k].head \in S
    BY <1>2, <1>10, <2>1
  <2>4. f \in Bijection(Entries, S)
    BY <1>2, <2>2, <2>3 DEF Bijection, Injection, Surjection, IsInjective
  <2>5. Cardinality(S) = PKTS_PER_BUFFER
    <3>1. ExistsBijection(Entries, S)
      BY <2>4 DEF ExistsBijection
    <3>. QED BY <1>5, <3>1, FS_Bijection
  <2>. QED BY <1>4, <2>5, PacketsFinite
<1>. QED BY <1>11, <1>12

LEMMA DeliverDelivers ==
  ASSUME OneSetup, StoreInv, NEW r \in Readers, ReadDeliver(r)
  PROVE  Store!Deliver
<1>. USE DEF OneSetup, StoreInv
<1>. DEFINE S == Handed(PKTS_PER_BUFFER)
<1>1. /\ rd[r].pc = "scan" /\ ~Scanning(r) /\ rd'[r].pc = "clean" /\ rd'[r].clean = 0
      /\ rd'[r].copied_index = rd[r].copied_index
      /\ delivered' = delivered \cup S /\ UNCHANGED <<ring, buff_temp>>
  BY DEF ReadDeliver, HandOver, TypeOK, TypeRd, RdState
<1>2. read(r)
  BY DEF read
<1>3. ~Returned(r) /\ Collecting(r) /\ Returned(r)' /\ ~Collecting(r)'
  BY <1>1 DEF Returned, Collecting
<1>4. Releasing = {} /\ Stored = CachedPackets
  BY <1>3, NothingKept, StoredIs
<1>5. /\ S \subseteq Stored
      /\ Cardinality(S) <= PKTS_PER_BUFFER
      /\ Cardinality(S) < PKTS_PER_BUFFER => Promised \subseteq S
  BY <1>1, <1>4, BatchIs
<1>6. Releasing' = S
  <2>1. Kept(r)' = {k \in Entries : rd[r].copied_index[k] # -1}
    <3>1. \A k \in Entries : k >= 0
      BY CacheSizes DEF Entries
    <3>. QED BY <1>1, <1>3, <3>1 DEF Kept
  <2>2. ASSUME NEW k \in Entries PROVE rd[r].copied_index[k] # -1 <=> buff_temp[k].head # 0
    <3>1. buff_temp[k].head # 0 => rd[r].copied_index[k] # -1
      <4>. SUFFICES ASSUME buff_temp[k].head # 0 PROVE rd[r].copied_index[k] \in Occupied
        BY DEF Occupied, Slots
      <4>. QED BY <1>1, HandedIsCopied
    <3>2. rd[r].copied_index[k] # -1 => buff_temp[k].head # 0
      <4>. SUFFICES ASSUME rd[r].copied_index[k] # -1 PROVE buff_temp[k].head # 0
        OBVIOUS
      <4>1. k < rd[r].copied_pkts
        BY DEF CacheInv, CollectedInv
      <4>2. /\ rd[r].copied_index[k] \in Occupied
            /\ buff_temp[k].head = buff_from_here[rd[r].copied_index[k]].head
        BY <1>1, <4>1 DEF CacheInv, MirrorInv
      <4>3. Wiped = {}
        BY <1>3, NothingKept
      <4>. QED BY <4>2, <4>3 DEF CacheInv, SlotInv
    <3>. QED BY <3>1, <3>2
  <2>3. \A p : p \in S <=> p # 0 /\ \E k \in Entries : buff_temp[k].head = p
    <3>1. \A k \in Entries : k < PKTS_PER_BUFFER
      BY CacheSizes DEF Entries
    <3>. QED BY <3>1 DEF Handed
  <2>4. \A p : p \in Releasing' <=> \E k \in Kept(r)' : buff_temp[k].head = p
    <3>1. \A p : p \in Releasing' <=> \E q \in Readers : \E k \in Kept(q)' : buff_temp'[k].head = p
      BY DEF Releasing
    <3>2. \A q \in Readers : q = r
      BY ReaderOnly
    <3>. QED BY <1>1, <3>1, <3>2
  <2>. QED BY <2>1, <2>2, <2>3, <2>4
<1>7. Stored' = Stored \ S
  BY <1>1, <1>4, <1>6, StoredIs, SameCached
<1>8. Phase = "scan" /\ Phase' = "release" /\ Promised' = {}
  BY <1>3, PhaseIs
<1>. HIDE DEF S
<1>9. S \in SUBSET Stored /\ Store!Cardinality(S) = Cardinality(S)
  BY <1>5, SameCardinality
<1>10. UNCHANGED <<Arriving, Roomless, dropped>>
  BY <1>2, ReadKeepsHandler
<1>. QED BY <1>1, <1>5, <1>6, <1>7, <1>8, <1>9, <1>10 DEF Store!Deliver

(* Between the copy to the process and the end of read() nothing is stored  *)
(* or promised but what is in slots the reader does not have to free.       *)
LEMMA WipeStutters ==
  ASSUME OneSetup, StoreInv, NEW r \in Readers, ReadWipeHead(r) \/ ReadWipeTail(r)
  PROVE  UNCHANGED Store!storeVars
<1>. USE DEF OneSetup, StoreInv
<1>. DEFINE s == Cleaned(r)
<1>1. /\ rd[r].pc \in {"clean", "wipe"} /\ rd'[r].pc \in {"wipe", "free"} /\ s # -1
      /\ UNCHANGED <<status, delivered>>
      /\ \A t \in Slots : t # s => buff_from_here'[t] = buff_from_here[t]
  <2>1. CASE ReadWipeHead(r)
    BY <2>1 DEF ReadWipeHead, TypeOK, TypeRing, TypeRd, RdState
  <2>2. CASE ReadWipeTail(r)
    BY <2>2 DEF ReadWipeTail, TypeOK, TypeRing, TypeRd, RdState
  <2>. QED BY <2>1, <2>2
<1>2. read(r)
  BY DEF read
<1>3. Returned(r) /\ ~Collecting(r) /\ Returned(r)' /\ ~Collecting(r)'
  BY <1>1 DEF Returned, Collecting
<1>4. Phase' = Phase /\ Promised' = Promised
  BY <1>3, PhaseIs
<1>5. Releasing' = Releasing
  BY ReleaseWipe
<1>6. /\ rd[r].clean \in Kept(r) /\ s = rd[r].copied_index[rd[r].clean] /\ s \in Slots
  <2>1. s \in ToFree(r) /\ rd[r].clean \in Entries
    BY <1>1, <1>3, CleanedToFree
  <2>2. s = rd[r].copied_index[rd[r].clean] /\ rd[r].clean \in Nat
    BY <2>1, ScanTypes DEF Cleaned
  <2>3. rd[r].clean \in Kept(r)
    BY <1>1, <1>3, <2>1, <2>2 DEF Kept
  <2>. QED BY <2>2, <2>3, KeptIs
<1>7. buff_from_here[s].head = 0 \/ buff_from_here[s].head \in Releasing
  <2>1. CASE ReadWipeHead(r)
    <3>1. rd[r].pc = "clean"
      BY <2>1 DEF ReadWipeHead
    <3>2. buff_from_here[s].head = buff_temp[rd[r].clean].head
      BY <1>6, <3>1 DEF ReleaseInv
    <3>. QED BY <1>6, <3>2, ReleasingIs
  <2>2. CASE ReadWipeTail(r)
    <3>1. s \in Wiped
      BY <2>2 DEF ReadWipeTail, Wiped, BeingWiped
    <3>. QED BY <3>1 DEF CacheInv, SlotInv
  <2>. QED BY <2>1, <2>2
<1>8. buff_from_here'[s].head = 0
  <2>1. CASE ReadWipeHead(r)
    BY <1>6, <2>1 DEF ReadWipeHead, TypeOK, TypeRing, Cells
  <2>2. CASE ReadWipeTail(r)
    <3>1. s \in Wiped
      BY <2>2 DEF ReadWipeTail, Wiped, BeingWiped
    <3>2. buff_from_here[s].head = 0
      BY <3>1 DEF CacheInv, SlotInv
    <3>. QED BY <1>6, <2>2, <3>2 DEF ReadWipeTail, TypeOK, TypeRing, Cells
  <2>. QED BY <2>1, <2>2
<1>9. Occupied' = Occupied /\ Occupied \subseteq Slots
  BY <1>1 DEF Occupied
<1>. HIDE DEF s
<1>10. ASSUME NEW p \in Packets \ Releasing PROVE Cached(p)' <=> Cached(p)
  <2>1. p # 0
    BY DEF Packets
  <2>2. \A t \in Occupied : buff_from_here'[t] = Whole(p) <=> buff_from_here[t] = Whole(p)
    BY <1>1, <1>7, <1>8, <1>9, <2>1 DEF Whole
  <2>. QED BY <1>9, <2>2 DEF Cached, Whole
<1>11. Stored' = Stored
  <2>1. Stored' = {p \in Packets : Cached(p)'} \ Releasing'
    BY DEF Stored
  <2>. QED BY <1>5, <1>10, <2>1 DEF Stored
<1>12. UNCHANGED <<Arriving, Roomless, dropped>>
  BY <1>2, ReadKeepsHandler
<1>. QED BY <1>1, <1>4, <1>5, <1>11, <1>12, Stutters

LEMMA FreeReleases ==
  ASSUME OneSetup, StoreInv, NEW r \in Readers, ReadFree(r)
  PROVE  Store!Release
<1>. USE DEF OneSetup, StoreInv
<1>. DEFINE s == Cleaned(r)
            p == buff_temp[rd[r].clean].head
<1>1. /\ rd[r].pc = "free" /\ rd'[r].pc = "clean" /\ s # -1
      /\ status' = [status EXCEPT ![s] = 0] /\ UNCHANGED <<delivered, buff_from_here>>
  BY DEF ReadFree, TypeOK, TypeRd, RdState
<1>2. read(r)
  BY DEF read
<1>3. Returned(r) /\ ~Collecting(r) /\ Returned(r)' /\ ~Collecting(r)'
  BY <1>1 DEF Returned, Collecting
<1>4. Phase = "release" /\ Phase' = Phase /\ Promised' = Promised
  BY <1>3, PhaseIs
<1>5. rd[r].clean \in Kept(r) /\ Releasing' = Releasing \ {p} /\ p \in Releasing
  BY ReleaseFree, ReleasingIs
<1>6. s \in Wiped /\ s = rd[r].copied_index[rd[r].clean] /\ buff_from_here[s].head = 0
  <2>1. s \in Wiped
    BY <1>1 DEF Wiped, BeingWiped
  <2>2. rd[r].clean \in Entries
    BY <1>5 DEF Kept
  <2>. QED BY <2>1, <2>2 DEF Cleaned, CacheInv, SlotInv
<1>7. Occupied' = Occupied \ {s}
  BY <1>1, CacheSizes DEF Occupied, TypeOK, TypeRing
<1>8. p \notin CachedPackets
  <2>. SUFFICES ASSUME p \in CachedPackets PROVE FALSE
    OBVIOUS
  <2>1. PICK t \in Occupied \ Wiped : buff_from_here[t].head = p
    BY CachedIs
  <2>2. p \in delivered
    BY <1>5 DEF ReleaseInv
  <2>3. PICK q \in Readers : \E k \in Kept(q) :
           rd[q].copied_index[k] = t /\ buff_temp[k].head = buff_from_here[t].head
    BY <2>1, <2>2, DeliveredReleasing
  <2>4. PICK k \in Kept(q) :
           rd[q].copied_index[k] = t /\ buff_temp[k].head = buff_from_here[t].head
    BY <2>3
  <2>5. q = r
    BY ReaderOnly
  <2>6. k \in Kept(r) /\ buff_temp[k].head = buff_temp[rd[r].clean].head
    BY <2>1, <2>4, <2>5
  <2>7. k = rd[r].clean
    BY <1>5, <2>6 DEF ReleaseInv
  <2>. QED BY <1>6, <2>1, <2>4, <2>5, <2>7
<1>. HIDE DEF s, p
<1>9. CachedPackets' = CachedPackets
  <2>1. ASSUME NEW q \in Packets PROVE Cached(q)' <=> Cached(q)
    <3>1. q # 0
      BY DEF Packets
    <3>. QED BY <1>1, <1>6, <1>7, <3>1 DEF Cached, Whole
  <2>. QED BY <2>1 DEF CachedPackets
<1>10. Stored' = Stored
  BY <1>5, <1>8, <1>9, StoredIs
<1>11. UNCHANGED <<Arriving, Roomless, dropped>>
  BY <1>2, ReadKeepsHandler
<1>. QED BY <1>1, <1>4, <1>5, <1>10, <1>11 DEF Store!Release

LEMMA ReturnEnds ==
  ASSUME OneSetup, StoreInv, NEW r \in Readers, ReadReturn(r)
  PROVE  Store!EndRead
<1>. USE DEF OneSetup, StoreInv
<1>1. /\ rd[r].pc = "clean" /\ Cleaned(r) = -1 /\ rd'[r].pc = "idle"
      /\ UNCHANGED <<ring, delivered>>
  BY DEF ReadReturn, TypeOK, TypeRd, RdState
<1>2. read(r)
  BY DEF read
<1>3. Returned(r) /\ ~Collecting(r) /\ ~Returned(r)' /\ ~Collecting(r)'
  BY <1>1 DEF Returned, Collecting
<1>4. Phase = "release" /\ Phase' = "no" /\ Promised = {} /\ Promised' = {}
  BY <1>3, PhaseIs
<1>5. ~\E k \in Entries : k >= rd[r].clean /\ rd[r].copied_index[k] # -1
  <2>. SUFFICES ASSUME NEW k \in Entries, k >= rd[r].clean, rd[r].copied_index[k] # -1
                PROVE  FALSE
    OBVIOUS
  <2>. DEFINE n == rd[r].clean
              m == rd[r].copied_pkts
  <2>1. n \in Nat /\ m \in Nat /\ k \in Nat /\ k >= n
    BY ScanTypes
  <2>2. k < m
    BY DEF CacheInv, CollectedInv
  <2>3. n \in Entries
    <3>. HIDE DEF n
    <3>. QED BY <2>1, CacheSizes DEF Entries
  <2>4. rd[r].copied_index[n] = -1
    BY <1>1, <2>3 DEF Cleaned
  <2>5. ~(n < m)
    BY <2>3, <2>4 DEF CacheInv, CollectedInv
  <2>. HIDE DEF n, m
  <2>. QED BY <2>1, <2>2, <2>5
<1>6. Releasing = {} /\ Releasing' = {}
  <2>1. \A q \in Readers : q = r
    BY ReaderOnly
  <2>2. Kept(r) = {}
    BY <1>5 DEF Kept
  <2>3. Releasing = {}
    BY <2>1, <2>2, ReleasingIs
  <2>. QED BY <2>3, NoneKept
<1>7. Stored' = Stored
  BY <1>1, <1>6, StoredIs, SameCached
<1>8. UNCHANGED <<Arriving, Roomless, dropped>>
  BY <1>2, ReadKeepsHandler
<1>. QED BY <1>1, <1>4, <1>6, <1>7, <1>8 DEF Store!EndRead

-----------------------------------------------------------------------------
LEMMA CacheStep ==
  ASSUME OneSetup, StoreInv, TypeOK', CacheInv', [Next]_vars
  PROVE  [Store!Next]_Store!storeVars
<1>. USE DEF Store!Next
<1>1. ASSUME NEW c \in Cpus, rxhPacketIn(c) PROVE [Store!Next]_Store!storeVars
  <2>1. RxEnter(c) => Store!Next
    BY EnterArrives
  <2>2. RxCount(c) => Store!Next
    BY CountLooks
  <2>3. RxPublish(c) => Store!Next
    BY PublishAccepts
  <2>4. RxOverflow(c) => Store!Next
    BY OverflowDrops
  <2>. QED BY <1>1, <2>1, <2>2, <2>3, <2>4, OtherRxStutters DEF rxhPacketIn
<1>2. ASSUME NEW r \in Readers, read(r) PROVE [Store!Next]_Store!storeVars
  <2>1. ReadBegin(r) => Store!Next
    BY BeginStarts
  <2>2. ReadDeliver(r) => Store!Next
    BY DeliverDelivers
  <2>3. ReadFree(r) => Store!Next
    BY FreeReleases
  <2>4. ReadReturn(r) => Store!Next
    BY ReturnEnds
  <2>5. ~ReadFault(r)
    BY DEF ReadFault, OneSetup
  <2>. QED BY <1>2, <2>1, <2>2, <2>3, <2>4, <2>5, ScanStutters, WipeStutters DEF read
<1>3. CASE UNCHANGED vars
  <2>1. UNCHANGED <<status, buff_from_here, buff_temp, rx, rd, arrived, dropped, delivered>>
    BY <1>3 DEF vars, ring, reading, handling
  <2>2. UNCHANGED <<Arriving, Roomless, Stored, Releasing, Phase, Promised>>
    BY <2>1 DEF Arriving, InHandler, Roomless, Stored, Cached, Occupied, Releasing, Kept,
                Returned, Collecting, Phase, Promised
  <2>. QED BY <2>1, <2>2, Stutters
<1>. QED BY <1>1, <1>2, <1>3 DEF Next

LEMMA CacheStarts == Init => Store!Init
<1>. SUFFICES ASSUME Init PROVE Store!Init
  OBVIOUS
<1>1. /\ \A c \in Cpus : rx[c].pc = "idle"
      /\ \A r \in Readers : rd[r].pc = "idle"
      /\ Occupied = {} /\ delivered = {} /\ dropped = {}
  BY DEF Init, Occupied
<1>2. Arriving = {} /\ Stored = {}
  BY <1>1 DEF Arriving, InHandler, Stored, Cached
<1>3. Roomless = FALSE
  BY <1>1 DEF Roomless
<1>4. \A r \in Readers : ~Returned(r) /\ ~Collecting(r) /\ Kept(r) = {}
  BY <1>1 DEF Returned, Collecting, Kept
<1>5. Releasing = {} /\ Phase = "no" /\ Promised = {}
  BY <1>4 DEF Releasing, Phase, Promised
<1>. QED BY <1>1, <1>2, <1>3, <1>5 DEF Store!Init

(* ImplementsStore: in that setup the ring of words and payloads that two   *)
(* contexts share without a lock behaves as a bounded store with atomic     *)
(* operations: room is refused only if there was none, no packet is handed  *)
(* out twice, and a batch that is not full left nothing behind.             *)
THEOREM CacheIsStore == OneSetup => (Spec => ImplementsStore)
<1>. SUFFICES ASSUME OneSetup PROVE Spec => ImplementsStore
  OBVIOUS
<1>1. OneCpu /\ OneReader
  BY DEF OneSetup
<1>2. Spec => []StoreInv
  BY <1>1, TypeCorrect, CacheInvHolds, ReleaseInvHolds, ProbeInvHolds, ScanInvHolds, PTL
     DEF StoreInv
<1>3. StoreInv /\ StoreInv' /\ [Next]_vars => [Store!Next]_Store!storeVars
  <2>1. StoreInv' => TypeOK' /\ CacheInv'
    BY DEF StoreInv
  <2>. QED BY <2>1, CacheStep
<1>. QED BY <1>2, <1>3, CacheStarts, PTL DEF Spec, ImplementsStore, Store!Spec
=============================================================================
