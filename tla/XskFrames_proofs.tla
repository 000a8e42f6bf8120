-------------------------- MODULE XskFrames_proofs --------------------------
(***************************************************************************)
(* The frame exchange and the logs of the XDP measurement, for any number  *)
(* of frames and any sizes of the rings, the batch and the maps, any uids  *)
(* and any number of frames the kernel keeps.                              *)
(***************************************************************************)
EXTENDS XskFramesSafety, SequenceTheorems, FiniteSetTheorems, TLAPS

Addrs == Frames \cup {INVALID_UMEM_FRAME}
Descs(n) == [addr : Frames, pkt : 1 .. n]

LEMMA Sizes ==
  /\ MaxPackets \in Nat /\ MAX_LOG_ENTRY \in Nat \ {0} /\ NUM_FRAMES \in Nat
  /\ FQ_SIZE \in Nat \ {0} /\ RX_SIZE \in Nat \ {0} /\ RX_BATCH_SIZE \in Nat \ {0}
  /\ NUM_FRAMES >= FQ_SIZE + RX_SIZE
  /\ 0 \in Keys /\ LogUids \subseteq Keys /\ Keys \subseteq Nat
  BY XskSizes DEF Keys, LogUids

LEMMA SettingType ==
  setting \in Settings => HELD \in Nat /\ \A p \in Packets : Uid[p] \in Nat
  BY XskSizes DEF HELD, Uid

-----------------------------------------------------------------------------
(* The stack of free frames. *)

LEMMA LesserIs ==
  ASSUME NEW m \in Nat, NEW n \in Nat
  PROVE  /\ Lesser(m, n) \in Nat /\ Lesser(m, n) <= m /\ Lesser(m, n) <= n
         /\ Lesser(m, n) \in {m, n}
  BY DEF Lesser

LEMMA AllocatedIs ==
  ASSUME NEW stack \in Seq(Frames), NEW n \in Nat
  PROVE  /\ Allocated(stack, n) \in Seq(Addrs)
         /\ Len(Allocated(stack, n)) = n
         /\ \A k \in 1 .. n : k <= Len(stack) => Allocated(stack, n)[k] = stack[Len(stack) - k + 1]
         /\ \A k \in 1 .. n : k > Len(stack) => Allocated(stack, n)[k] = INVALID_UMEM_FRAME
<1>. DEFINE a == Allocated(stack, n)
<1>1. Len(stack) \in Nat /\ \A k \in 1 .. Len(stack) : stack[k] \in Frames
  BY LenProperties, ElementOfSeq
<1>2. ASSUME NEW k \in 1 .. n, k <= Len(stack)
      PROVE  Len(stack) - k + 1 \in 1 .. Len(stack)
  BY <1>1, <1>2
<1>3. \A k \in 1 .. n : a[k] \in Addrs
  BY <1>1, <1>2 DEF Allocated, Addrs
<1>4. a \in [1 .. n -> Addrs]
  BY <1>3 DEF Allocated
<1>5. a \in Seq(Addrs)
  BY <1>4, SeqDef
<1>6. Len(a) = n
  BY <1>4, <1>5, LenProperties
<1>. QED BY <1>5, <1>6, <1>1 DEF Allocated

LEMMA AfterAllocIs ==
  ASSUME NEW stack \in Seq(Frames), NEW n \in Nat
  PROVE  /\ AfterAlloc(stack, n) \in Seq(Frames)
         /\ Len(AfterAlloc(stack, n)) = Len(stack) - Lesser(n, Len(stack))
         /\ \A k \in 1 .. Len(stack) - Lesser(n, Len(stack)) : AfterAlloc(stack, n)[k] = stack[k]
<1>. DEFINE l == Len(stack)
            m == l - Lesser(n, l)
<1>1. l \in Nat /\ \A k \in 1 .. l : stack[k] \in Frames
  BY LenProperties, ElementOfSeq
<1>2. m \in 0 .. l
  <2>1. Lesser(n, l) \in Nat /\ Lesser(n, l) <= l
    BY <1>1, LesserIs
  <2>. HIDE DEF l
  <2>. QED BY <1>1, <2>1
<1>. HIDE DEF m, l
<1>3. \A k \in 1 .. m : stack[k] \in Frames
  BY <1>1, <1>2
<1>4. /\ SubSeq(stack, 1, m) \in Seq(Frames)
      /\ Len(SubSeq(stack, 1, m)) = IF 1 <= m THEN m - 1 + 1 ELSE 0
      /\ \A k \in 1 .. m - 1 + 1 : SubSeq(stack, 1, m)[k] = stack[1 + k - 1]
  BY <1>2, <1>3, SubSeqProperties
<1>. QED BY <1>1, <1>2, <1>4 DEF AfterAlloc, m, l

LEMMA AllFramesIs ==
  /\ AllFrames \in Seq(Frames) /\ Len(AllFrames) = NUM_FRAMES
  /\ \A k \in 1 .. NUM_FRAMES : AllFrames[k] = k - 1
<1>1. AllFrames \in [1 .. NUM_FRAMES -> Frames]
  BY Sizes DEF AllFrames, Frames
<1>2. AllFrames \in Seq(Frames)
  BY <1>1, Sizes, SeqDef
<1>3. Len(AllFrames) = NUM_FRAMES
  BY <1>1, <1>2, Sizes, LenProperties
<1>. QED BY <1>2, <1>3 DEF AllFrames

-----------------------------------------------------------------------------
(* What the steps do to the rings and to the stack. *)

FlowInv == XskType /\ BatchInv

LEMMA Flow ==
  FlowInv =>
    /\ Len(fq) \in 0 .. FQ_SIZE /\ \A k \in 1 .. Len(fq) : fq[k] \in Addrs
    /\ Len(rx) \in 0 .. RX_SIZE
    /\ \A k \in 1 .. Len(rx) : rx[k].addr \in Frames /\ rx[k].pkt \in 1 .. arrivals
    /\ Len(umem_frame_addr) \in Nat
    /\ \A k \in 1 .. Len(umem_frame_addr) : umem_frame_addr[k] \in Frames
    /\ user.rcvd \in Nat /\ user.i \in Nat /\ rx_known \in Nat
<1>. SUFFICES ASSUME FlowInv PROVE
    /\ Len(fq) \in 0 .. FQ_SIZE /\ \A k \in 1 .. Len(fq) : fq[k] \in Addrs
    /\ Len(rx) \in 0 .. RX_SIZE
    /\ \A k \in 1 .. Len(rx) : rx[k].addr \in Frames /\ rx[k].pkt \in 1 .. arrivals
    /\ Len(umem_frame_addr) \in Nat
    /\ \A k \in 1 .. Len(umem_frame_addr) : umem_frame_addr[k] \in Frames
    /\ user.rcvd \in Nat /\ user.i \in Nat /\ rx_known \in Nat
  OBVIOUS
<1>1. /\ fq \in Seq(Addrs) /\ rx \in Seq(Descs(arrivals)) /\ umem_frame_addr \in Seq(Frames)
      /\ Len(fq) <= FQ_SIZE /\ Len(rx) <= RX_SIZE /\ user.rcvd \in Nat /\ user.i \in Nat
      /\ rx_known \in Nat
  BY DEF FlowInv, XskType, Addrs, Descs
<1>2. /\ Len(fq) \in Nat /\ Len(rx) \in Nat /\ Len(umem_frame_addr) \in Nat
  BY <1>1, LenProperties
<1>3. \A k \in 1 .. Len(rx) : rx[k] \in Descs(arrivals)
  BY <1>1, ElementOfSeq
<1>4. /\ \A k \in 1 .. Len(fq) : fq[k] \in Addrs
      /\ \A k \in 1 .. Len(umem_frame_addr) : umem_frame_addr[k] \in Frames
  BY <1>1, ElementOfSeq
<1>. QED BY <1>1, <1>2, <1>3, <1>4, Sizes DEF Descs

UserType == [pc : {"peek", "stock", "process", "export", "detached"}, rcvd : Nat, i : Nat]

LEMMA FlowTypes ==
  ASSUME FlowInv
  PROVE  /\ user \in UserType /\ arrivals \in Nat
         /\ clock \in Nat /\ rx_packets \in Nat /\ redirected \in Nat
         /\ rx_dropped \in Nat /\ passed \in Nat /\ xdp_stats_map \in Nat
         /\ uid_timestamps \in [Keys -> Nat] /\ log_time_stamps \in [LogUids -> Nat]
         /\ file_us \in [LogUids -> Nat] /\ file_kern \in [LogUids -> Nat]
  BY Sizes DEF FlowInv, XskType, UserType

(* The kernel consumes an entry of fq.                                      *)
LEMMA FqConsumed ==
  ASSUME FlowInv, fq # <<>>, fq' = Tail(fq)
  PROVE  /\ Head(fq) = fq[1] /\ Len(fq) >= 1
         /\ fq' \in Seq(Addrs) /\ Len(fq') = Len(fq) - 1
         /\ \A k \in 1 .. Len(fq) - 1 : fq'[k] = fq[k + 1]
<1>1. fq \in Seq(Addrs)
  BY DEF FlowInv, XskType, Addrs
<1>2. Head(fq) = fq[1]
  BY <1>1
<1>3. /\ Tail(fq) \in Seq(Addrs) /\ Len(Tail(fq)) = Len(fq) - 1
      /\ \A k \in 1 .. Len(Tail(fq)) : Tail(fq)[k] = fq[k + 1]
  BY <1>1, HeadTailProperties
<1>4. Len(fq) \in Nat \ {0}
  BY <1>1, EmptySeq
<1>. QED BY <1>2, <1>3, <1>4

(* The kernel produces an entry of rx.                                      *)
LEMMA RxProduced ==
  ASSUME FlowInv, NEW frame \in Frames, Redirect(frame)
  PROVE  /\ pkt \in 1 .. arrivals /\ pkt' = 0 /\ redirected' = redirected + 1
         /\ rx' \in Seq(Descs(arrivals))
         /\ Len(rx') = Len(rx) + 1 /\ Len(rx') <= RX_SIZE
         /\ \A k \in 1 .. Len(rx) : rx'[k] = rx[k]
         /\ rx'[Len(rx) + 1] = [addr |-> frame, pkt |-> pkt]
         /\ UNCHANGED <<maps, local, global_exit, logs, clock, arrivals, rx_dropped, passed>>
<1>1. /\ pkt # 0 /\ Len(rx) < RX_SIZE /\ pkt' = 0 /\ redirected' = redirected + 1
      /\ rx' = Append(rx, [addr |-> frame, pkt |-> pkt])
      /\ UNCHANGED <<maps, local, global_exit, logs, clock, arrivals, rx_dropped, passed>>
  BY DEF Redirect
<1>2. /\ rx \in Seq(Descs(arrivals)) /\ pkt \in 0 .. arrivals
      /\ Len(rx) \in Nat /\ arrivals \in Nat
  BY LenProperties, Sizes DEF FlowInv, XskType, Descs
<1>3. pkt \in 1 .. arrivals /\ [addr |-> frame, pkt |-> pkt] \in Descs(arrivals)
  BY <1>1, <1>2 DEF Descs
<1>4. /\ rx' \in Seq(Descs(arrivals)) /\ Len(rx') = Len(rx) + 1
      /\ \A k \in 1 .. Len(rx) : rx'[k] = rx[k]
      /\ rx'[Len(rx) + 1] = [addr |-> frame, pkt |-> pkt]
  BY <1>1, <1>2, <1>3, AppendProperties
<1>. QED BY <1>1, <1>2, <1>3, <1>4, Sizes

(* The process fills the fill ring: the number it asks for is all there is  *)
(* room for, or it has no frame and posts nothing.                          *)
LEMMA Restocked ==
  ASSUME FlowInv, Restock
  PROVE  \E n \in Nat :
         /\ IF Len(umem_frame_addr) = 0 THEN n = 0 ELSE n = FQ_SIZE - Len(fq)
         /\ stock_frames = n
         /\ fq' \in Seq(Addrs) /\ Len(fq') = Len(fq) + n /\ Len(fq') <= FQ_SIZE
         /\ \A k \in 1 .. Len(fq) : fq'[k] = fq[k]
         /\ \A k \in 1 .. n : fq'[Len(fq) + k] =
              IF k <= Len(umem_frame_addr) THEN umem_frame_addr[Len(umem_frame_addr) - k + 1]
              ELSE INVALID_UMEM_FRAME
         /\ umem_frame_addr' \in Seq(Frames)
         /\ Len(umem_frame_addr') = Len(umem_frame_addr) - Lesser(n, Len(umem_frame_addr))
         /\ \A k \in 1 .. Len(umem_frame_addr') : umem_frame_addr'[k] = umem_frame_addr[k]
         /\ fq_free' = 0
<1>. DEFINE n == stock_frames
            s == Len(umem_frame_addr)
<1>1. /\ fq \in Seq(Addrs) /\ umem_frame_addr \in Seq(Frames) /\ fq_free = 0
      /\ Len(fq) \in 0 .. FQ_SIZE /\ s \in Nat
  BY Flow DEF FlowInv, XskType, Addrs
<1>2. IF s = 0 THEN n = 0 ELSE n = FQ_SIZE - Len(fq)
  BY <1>1 DEF stock_frames, xsk_prod_nb_free
<1>3. n \in Nat /\ Len(fq) + n <= FQ_SIZE
  BY <1>1, <1>2, Sizes
<1>4. /\ fq' = fq \o Allocated(umem_frame_addr, n)
      /\ umem_frame_addr' = AfterAlloc(umem_frame_addr, n)
      /\ fq_free' = n - n
  BY DEF Restock, stock_frames
<1>. HIDE DEF n
<1>5. /\ Allocated(umem_frame_addr, n) \in Seq(Addrs) /\ Len(Allocated(umem_frame_addr, n)) = n
      /\ \A k \in 1 .. n : Allocated(umem_frame_addr, n)[k] =
              IF k <= s THEN umem_frame_addr[s - k + 1] ELSE INVALID_UMEM_FRAME
  <2>1. umem_frame_addr \in Seq(Frames) /\ n \in Nat /\ s = Len(umem_frame_addr)
    BY <1>1, <1>3
  <2>2. /\ Allocated(umem_frame_addr, n) \in Seq(Addrs)
        /\ Len(Allocated(umem_frame_addr, n)) = n
        /\ \A k \in 1 .. n : k <= Len(umem_frame_addr) =>
             Allocated(umem_frame_addr, n)[k] = umem_frame_addr[Len(umem_frame_addr) - k + 1]
        /\ \A k \in 1 .. n : k > Len(umem_frame_addr) =>
             Allocated(umem_frame_addr, n)[k] = INVALID_UMEM_FRAME
    BY <2>1, AllocatedIs, Zenon
  <2>3. s \in Nat
    BY <1>1
  <2>. HIDE DEF s
  <2>. QED BY <2>1, <2>2, <2>3
<1>6. /\ fq' \in Seq(Addrs) /\ Len(fq') = Len(fq) + n
      /\ \A k \in 1 .. Len(fq) + n : fq'[k] =
           IF k <= Len(fq) THEN fq[k] ELSE Allocated(umem_frame_addr, n)[k - Len(fq)]
  <2>. DEFINE a == Allocated(umem_frame_addr, n)
  <2>1. a \in Seq(Addrs) /\ Len(a) = n /\ fq' = fq \o a
    BY <1>4, <1>5
  <2>. HIDE DEF a
  <2>2. /\ fq \o a \in Seq(Addrs) /\ Len(fq \o a) = Len(fq) + Len(a)
        /\ \A k \in 1 .. Len(fq) + Len(a) :
             (fq \o a)[k] = IF k <= Len(fq) THEN fq[k] ELSE a[k - Len(fq)]
    BY <1>1, <2>1, ConcatProperties
  <2>. QED BY <2>1, <2>2 DEF a
<1>7. \A k \in 1 .. Len(fq) : fq'[k] = fq[k]
  BY <1>1, <1>3, <1>6
<1>8. ASSUME NEW k \in 1 .. n
      PROVE  fq'[Len(fq) + k] = IF k <= s THEN umem_frame_addr[s - k + 1]
                                ELSE INVALID_UMEM_FRAME
  <2>1. Len(fq) + k \in 1 .. Len(fq) + n /\ ~(Len(fq) + k <= Len(fq)) /\ (Len(fq) + k) - Len(fq) = k
    BY <1>1, <1>3
  <2>. QED BY <1>5, <1>6, <2>1
<1>9. /\ umem_frame_addr' \in Seq(Frames)
      /\ Len(umem_frame_addr') = s - Lesser(n, s)
      /\ \A k \in 1 .. Len(umem_frame_addr') : umem_frame_addr'[k] = umem_frame_addr[k]
  BY <1>1, <1>3, <1>4, AfterAllocIs
<1>10. fq_free' = 0
  BY <1>3, <1>4
<1>11. stock_frames = n
  BY DEF n
<1>. QED BY <1>2, <1>3, <1>6, <1>7, <1>8, <1>9, <1>10, <1>11

(* process_packet frees the frame of the next entry.                        *)
LEMMA Processed ==
  ASSUME FlowInv, process_packet
  PROVE  /\ user.pc = "process" /\ user.i + 1 \in 1 .. Len(rx)
         /\ rx[user.i + 1].addr \in Frames /\ rx[user.i + 1].pkt \in 1 .. arrivals
         /\ umem_frame_addr' \in Seq(Frames)
         /\ Len(umem_frame_addr') = Len(umem_frame_addr) + 1
         /\ \A k \in 1 .. Len(umem_frame_addr) : umem_frame_addr'[k] = umem_frame_addr[k]
         /\ umem_frame_addr'[Len(umem_frame_addr) + 1] = rx[user.i + 1].addr
         /\ user' = [user EXCEPT !.i = user.i + 1]
<1>1. /\ user.pc = "process" /\ user.i < user.rcvd
      /\ umem_frame_addr' = Append(umem_frame_addr, rx[user.i + 1].addr)
      /\ user' = [user EXCEPT !.i = user.i + 1]
  BY DEF process_packet, xsk_free_umem_frame
<1>2. user.i + 1 \in 1 .. Len(rx)
  BY <1>1, Flow DEF FlowInv, BatchInv, InBatch
<1>3. rx[user.i + 1].addr \in Frames /\ rx[user.i + 1].pkt \in 1 .. arrivals
  BY <1>2, Flow
<1>4. umem_frame_addr \in Seq(Frames)
  BY DEF FlowInv, XskType
<1>. QED BY <1>1, <1>2, <1>3, <1>4, AppendProperties

(* The process gives the entries it peeked back.                            *)
LEMMA Released ==
  ASSUME FlowInv, Release
  PROVE  /\ user.pc = "process" /\ user.i = user.rcvd /\ user.rcvd <= Len(rx)
         /\ rx' \in Seq(Descs(arrivals)) /\ Len(rx') = Len(rx) - user.rcvd
         /\ \A k \in 1 .. Len(rx') : rx'[k] = rx[user.rcvd + k]
         /\ user' = [user EXCEPT !.pc = "peek"] /\ rx_packets' = rx_packets + user.rcvd
<1>. DEFINE r == user.rcvd
            l == Len(rx)
<1>1. /\ user.pc = "process" /\ user.i = r /\ rx' = SubSeq(rx, r + 1, l)
      /\ user' = [user EXCEPT !.pc = "peek"] /\ rx_packets' = rx_packets + r
  BY DEF Release
<1>2. r \in Nat /\ l \in Nat /\ rx_known \in Nat /\ r <= l
  BY <1>1, Flow DEF FlowInv, BatchInv, InBatch
<1>3. rx \in Seq(Descs(arrivals))
  BY DEF FlowInv, XskType, Descs
<1>4. \A k \in r + 1 .. l : rx[k] \in Descs(arrivals)
  BY <1>2, <1>3, ElementOfSeq
<1>. HIDE DEF r, l
<1>5. /\ rx' \in Seq(Descs(arrivals))
      /\ Len(rx') = IF r + 1 <= l THEN l - (r + 1) + 1 ELSE 0
      /\ \A k \in 1 .. l - (r + 1) + 1 : rx'[k] = rx[(r + 1) + k - 1]
  BY <1>1, <1>2, <1>4, SubSeqProperties
<1>6. Len(rx') = l - r /\ \A k \in 1 .. l - r : (r + 1) + k - 1 = r + k
  BY <1>2, <1>5
<1>7. \A k \in 1 .. Len(rx') : rx'[k] = rx[r + k]
  BY <1>2, <1>5, <1>6
<1>. QED BY <1>1, <1>2, <1>5, <1>6, <1>7 DEF r, l

-----------------------------------------------------------------------------
(* Types, and what the process knows of rx.                                 *)

LEMMA InitRings ==
  ASSUME Init
  PROVE  /\ fq \in Seq(Addrs) /\ Len(fq) = FQ_SIZE
         /\ \A k \in 1 .. FQ_SIZE : fq[k] = NUM_FRAMES - k
         /\ umem_frame_addr \in Seq(Frames) /\ Len(umem_frame_addr) = NUM_FRAMES - FQ_SIZE
         /\ \A k \in 1 .. NUM_FRAMES - FQ_SIZE : umem_frame_addr[k] = k - 1
         /\ Len(rx) = 0
<1>1. /\ fq = Allocated(AllFrames, FQ_SIZE) /\ umem_frame_addr = AfterAlloc(AllFrames, FQ_SIZE)
      /\ rx = <<>>
  BY DEF Init
<1>2. Lesser(FQ_SIZE, NUM_FRAMES) = FQ_SIZE
  BY Sizes DEF Lesser
<1>3. /\ fq \in Seq(Addrs) /\ Len(fq) = FQ_SIZE
      /\ \A k \in 1 .. FQ_SIZE : k <= NUM_FRAMES => fq[k] = AllFrames[NUM_FRAMES - k + 1]
  BY <1>1, Sizes, AllFramesIs, AllocatedIs
<1>4. /\ umem_frame_addr \in Seq(Frames) /\ Len(umem_frame_addr) = NUM_FRAMES - FQ_SIZE
      /\ \A k \in 1 .. NUM_FRAMES - FQ_SIZE : umem_frame_addr[k] = AllFrames[k]
  <2>1. AllFrames \in Seq(Frames) /\ Lesser(FQ_SIZE, Len(AllFrames)) = FQ_SIZE
    BY <1>2, AllFramesIs
  <2>2. /\ AfterAlloc(AllFrames, FQ_SIZE) \in Seq(Frames)
        /\ Len(AfterAlloc(AllFrames, FQ_SIZE)) = Len(AllFrames) - FQ_SIZE
        /\ \A k \in 1 .. Len(AllFrames) - FQ_SIZE :
             AfterAlloc(AllFrames, FQ_SIZE)[k] = AllFrames[k]
    BY <2>1, Sizes, AfterAllocIs
  <2>. QED BY <1>1, <2>2, AllFramesIs
<1>5. ASSUME NEW k \in 1 .. FQ_SIZE
      PROVE  fq[k] = NUM_FRAMES - k
  <2>1. k <= NUM_FRAMES /\ NUM_FRAMES - k + 1 \in 1 .. NUM_FRAMES
    BY Sizes
  <2>2. AllFrames[NUM_FRAMES - k + 1] = (NUM_FRAMES - k + 1) - 1
    BY <2>1, AllFramesIs
  <2>. QED BY <1>3, <2>1, <2>2, Sizes
<1>6. \A k \in 1 .. NUM_FRAMES - FQ_SIZE : umem_frame_addr[k] = k - 1
  BY <1>4, Sizes, AllFramesIs
<1>. QED BY <1>1, <1>3, <1>4, <1>5, <1>6

LEMMA InitFlow == Init => FlowInv
<1>. SUFFICES ASSUME Init PROVE FlowInv
  OBVIOUS
<1>1. /\ fq \in Seq(Addrs) /\ Len(fq) = FQ_SIZE /\ umem_frame_addr \in Seq(Frames)
      /\ Len(rx) = 0
  BY InitRings
<1>2. /\ setting \in Settings /\ uid_timestamps = [k \in Keys |-> 0] /\ xdp_stats_map = 0
      /\ pkt = 0 /\ rx = <<>> /\ held = {} /\ fq_free = 0 /\ rx_known = 0
      /\ user = [pc |-> "peek", rcvd |-> 0, i |-> 0]
      /\ global_exit = FALSE /\ rx_packets = 0
      /\ log_time_stamps = [u \in LogUids |-> 0]
      /\ file_us = [u \in LogUids |-> 0] /\ file_kern = [u \in LogUids |-> 0]
      /\ clock = 0
      /\ arrivals = 0 /\ redirected = 0 /\ rx_dropped = 0 /\ passed = 0
  BY DEF Init
<1>3. rx \in Seq(Descs(arrivals))
  BY <1>2, EmptySeq
<1>4. XskType
  <2>1. /\ uid_timestamps \in [Keys -> Nat] /\ log_time_stamps \in [LogUids -> Nat]
        /\ file_us \in [LogUids -> Nat] /\ file_kern \in [LogUids -> Nat]
    BY <1>2
  <2>2. user \in UserType
    BY <1>2 DEF UserType
  <2>3. arrivals \in 0 .. MaxPackets /\ pkt \in 0 .. arrivals /\ FQ_SIZE <= FQ_SIZE /\ 0 <= RX_SIZE
    BY <1>2, Sizes
  <2>. QED BY <1>1, <1>2, <1>3, <2>1, <2>2, <2>3 DEF XskType, Addrs, Descs, UserType
<1>5. BatchInv
  BY <1>1, <1>2 DEF BatchInv, InBatch
<1>. QED BY <1>4, <1>5 DEF FlowInv

LEMMA FlowStutter ==
  ASSUME FlowInv, UNCHANGED <<maps, pkt, socket, local, logs, clock, history>>,
         global_exit' \in BOOLEAN
  PROVE  FlowInv'
<1>0. /\ UNCHANGED <<setting, uid_timestamps, xdp_stats_map>>
      /\ UNCHANGED <<pkt, fq, rx, held, umem_frame_addr, fq_free, rx_known, user>>
      /\ UNCHANGED <<rx_packets, log_time_stamps, file_us, file_kern, clock>>
      /\ UNCHANGED <<arrivals, redirected, rx_dropped, passed>>
  BY DEF maps, socket, local, logs, history
<1>1. XskType'
  BY <1>0 DEF FlowInv, XskType
<1>2. BatchInv'
  BY <1>0 DEF FlowInv, BatchInv, InBatch
<1>. QED BY <1>1, <1>2 DEF FlowInv

(* The program, and what becomes of a packet without a frame.               *)
LEMMA FlowProg ==
  ASSUME FlowInv,
         ProgPassesUnknown \/ xdp_sock_prog \/ OtherQueue \/ RedirectFails
  PROVE  FlowInv'
<1>1. UNCHANGED <<setting, fq, rx, held, umem_frame_addr, fq_free, rx_known, user,
                  global_exit, rx_packets, log_time_stamps, file_us, file_kern, redirected>>
  BY DEF ProgPassesUnknown, xdp_sock_prog, OtherQueue, RedirectFails,
         maps, socket, local, logs
<1>0. /\ arrivals \in Nat /\ arrivals <= MaxPackets /\ pkt \in 0 .. arrivals
      /\ uid_timestamps \in [Keys -> Nat] /\ xdp_stats_map \in Nat
      /\ clock \in Nat /\ rx_dropped \in Nat /\ passed \in Nat
  BY Sizes DEF FlowInv, XskType
<1>2. /\ arrivals' \in arrivals .. MaxPackets /\ pkt' \in 0 .. arrivals'
      /\ uid_timestamps' \in [Keys -> Nat] /\ xdp_stats_map' \in Nat
      /\ clock' \in Nat /\ rx_dropped' \in Nat /\ passed' \in Nat
  <2>1. CASE ProgPassesUnknown
    BY <2>1, <1>0, Sizes DEF ProgPassesUnknown, maps
  <2>2. CASE xdp_sock_prog
    BY <2>2, <1>0, Sizes DEF xdp_sock_prog
  <2>3. CASE OtherQueue
    BY <2>3, <1>0, Sizes DEF OtherQueue, maps
  <2>4. CASE RedirectFails
    BY <2>4, <1>0, Sizes DEF RedirectFails, maps
  <2>. QED BY <2>1, <2>2, <2>3, <2>4
<1>3. rx' \in Seq(Descs(arrivals'))
  <2>1. rx \in Seq(Descs(arrivals)) /\ arrivals \in Nat
    BY Sizes DEF FlowInv, XskType, Descs
  <2>2. Descs(arrivals) \subseteq Descs(arrivals')
    BY <1>2, <2>1 DEF Descs
  <2>. QED BY <1>1, <2>1, <2>2, SeqMonotonic
<1>4. arrivals' \in 0 .. MaxPackets
  BY <1>2, Sizes DEF FlowInv, XskType
<1>5. XskType'
  BY <1>1, <1>2, <1>3, <1>4 DEF FlowInv, XskType, Descs
<1>6. BatchInv'
  BY <1>1 DEF FlowInv, BatchInv, InBatch
<1>. QED BY <1>5, <1>6 DEF FlowInv

(* The kernel moves the first entry of fq.                                  *)
LEMMA FlowTakes ==
  ASSUME FlowInv, DriverTakes \/ SkipInvalid
  PROVE  FlowInv'
<1>1. /\ UNCHANGED <<setting, uid_timestamps, xdp_stats_map, pkt, rx, umem_frame_addr,
                     fq_free, rx_known, user>>
      /\ UNCHANGED <<global_exit, rx_packets, log_time_stamps, file_us, file_kern,
                     clock, arrivals, redirected, rx_dropped, passed>>
      /\ fq # <<>> /\ fq' = Tail(fq) /\ held' \subseteq Frames
  BY DEF DriverTakes, SkipInvalid, maps, local, logs, history, FlowInv, XskType
<1>2. fq' \in Seq(Addrs) /\ Len(fq') = Len(fq) - 1 /\ Len(fq) \in 0 .. FQ_SIZE
  BY <1>1, FqConsumed, Flow
<1>3. Len(fq') <= FQ_SIZE
  BY <1>2, Sizes
<1>4. XskType'
  BY <1>1, <1>2, <1>3 DEF FlowInv, XskType, Addrs
<1>5. BatchInv'
  BY <1>1 DEF FlowInv, BatchInv, InBatch
<1>. QED BY <1>4, <1>5 DEF FlowInv

LEMMA FlowRedirect ==
  ASSUME FlowInv, NEW frame \in Frames, Redirect(frame),
         \/ fq # <<>> /\ fq' = Tail(fq) /\ held' = held
         \/ fq' = fq /\ held' = held \ {frame}
  PROVE  FlowInv'
<1>1. /\ UNCHANGED <<setting, uid_timestamps, xdp_stats_map, umem_frame_addr,
                     fq_free, rx_known, user>>
      /\ UNCHANGED <<global_exit, rx_packets, log_time_stamps, file_us, file_kern,
                     clock, arrivals, rx_dropped, passed>>
      /\ pkt' = 0 /\ redirected' = redirected + 1
      /\ rx' \in Seq(Descs(arrivals)) /\ Len(rx') = Len(rx) + 1 /\ Len(rx') <= RX_SIZE
  BY RxProduced DEF maps, local, logs
<1>2. fq' \in Seq(Addrs) /\ Len(fq') <= FQ_SIZE
  <2>1. CASE fq # <<>> /\ fq' = Tail(fq)
    <3>1. fq' \in Seq(Addrs) /\ Len(fq') = Len(fq) - 1 /\ Len(fq) \in 0 .. FQ_SIZE
      BY <2>1, FqConsumed, Flow
    <3>. QED BY <3>1, Sizes
  <2>2. CASE fq' = fq
    BY <2>2 DEF FlowInv, XskType, Addrs
  <2>. QED BY <2>1, <2>2
<1>3. held' \subseteq Frames
  BY DEF FlowInv, XskType
<1>4. 0 \in 0 .. arrivals /\ redirected + 1 \in Nat
  BY DEF FlowInv, XskType
<1>5. XskType'
  BY <1>1, <1>2, <1>3, <1>4 DEF FlowInv, XskType, Addrs, Descs
<1>6. BatchInv'
  BY <1>1, Flow DEF FlowInv, BatchInv, InBatch
<1>. QED BY <1>5, <1>6 DEF FlowInv

LEMMA FlowPeek ==
  ASSUME FlowInv, Peek
  PROVE  FlowInv' /\ user'.pc = "stock" /\ user'.i = 0 /\ user'.rcvd \in Nat
<1>. DEFINE rcvd == Lesser(Avail, RX_BATCH_SIZE)
<1>1. /\ UNCHANGED <<maps, pkt, socket, umem_frame_addr, fq_free, global_exit, logs, clock,
                     history>>
      /\ rx_known' = Avail - rcvd
      /\ user' = [pc |-> "stock", rcvd |-> rcvd, i |-> 0] /\ user.pc = "peek"
  BY DEF Peek
<1>2. Avail \in 0 .. Len(rx) /\ Len(rx) \in Nat
  BY <1>1, Flow DEF Avail, FlowInv, BatchInv, InBatch
<1>3. rcvd \in Nat /\ rcvd <= Avail
  BY <1>2, Sizes, LesserIs, Avail \in Nat, RX_BATCH_SIZE \in Nat
<1>. HIDE DEF rcvd
<1>4. rx_known' \in Nat /\ rx_known' + rcvd <= Len(rx)
  BY <1>1, <1>2, <1>3
<1>5. XskType'
  BY <1>1, <1>3, <1>4 DEF FlowInv, XskType, maps, socket, logs, history
<1>6. BatchInv'
  BY <1>1, <1>4 DEF BatchInv, InBatch, socket
<1>. QED BY <1>1, <1>3, <1>5, <1>6 DEF FlowInv

LEMMA FlowRestock ==
  ASSUME FlowInv, Restock
  PROVE  FlowInv'
<1>1. /\ UNCHANGED <<maps, pkt, rx, held, rx_known, global_exit, logs, clock, history>>
      /\ user.pc = "stock" /\ user' = [user EXCEPT !.pc = "process"]
  BY DEF Restock
<1>2. /\ fq' \in Seq(Addrs) /\ Len(fq') <= FQ_SIZE /\ umem_frame_addr' \in Seq(Frames)
      /\ fq_free' = 0
  BY Restocked
<1>3. user' \in UserType /\ user'.pc = "process" /\ user'.rcvd = user.rcvd /\ user'.i = user.i
  BY <1>1 DEF FlowInv, XskType, UserType
<1>4. XskType'
  BY <1>1, <1>2, <1>3 DEF FlowInv, XskType, maps, logs, history, UserType, Addrs
<1>5. BatchInv'
  BY <1>1, <1>3, Flow DEF FlowInv, BatchInv, InBatch
<1>. QED BY <1>4, <1>5 DEF FlowInv

LEMMA FlowProcess ==
  ASSUME FlowInv, process_packet
  PROVE  FlowInv'
<1>. DEFINE uid == Uid[rx[user.i + 1].pkt]
<1>1. /\ UNCHANGED <<maps, pkt, socket, fq_free, rx_known, global_exit, rx_packets,
                     file_us, file_kern, history>>
      /\ user.pc = "process" /\ user.i < user.rcvd /\ clock' = clock + 1
      /\ log_time_stamps' = IF uid < MAX_LOG_ENTRY
                            THEN [log_time_stamps EXCEPT ![uid] = clock + 1]
                            ELSE log_time_stamps
  BY DEF process_packet
<1>2. umem_frame_addr' \in Seq(Frames) /\ user' = [user EXCEPT !.i = user.i + 1]
  BY Processed
<1>3. /\ user' \in UserType /\ user'.pc = "process" /\ user'.rcvd = user.rcvd
      /\ user'.i = user.i + 1
  <2>1. user \in UserType /\ user.i + 1 \in Nat /\ user.pc = "process"
    BY <1>1, FlowTypes DEF UserType
  <2>. QED BY <1>2, <2>1 DEF UserType
<1>. HIDE DEF uid
<1>4. log_time_stamps' \in [LogUids -> Nat] /\ clock' \in Nat
  <2>1. clock + 1 \in Nat /\ log_time_stamps \in [LogUids -> Nat]
    BY FlowTypes
  <2>2. [log_time_stamps EXCEPT ![uid] = clock + 1] \in [LogUids -> Nat]
    BY <2>1
  <2>. QED BY <1>1, <2>1, <2>2
<1>5. XskType'
  BY <1>1, <1>2, <1>3, <1>4 DEF FlowInv, XskType, maps, socket, history, UserType
<1>6. BatchInv'
  BY <1>1, <1>3, Flow DEF FlowInv, BatchInv, InBatch, socket
<1>. QED BY <1>5, <1>6 DEF FlowInv

LEMMA FlowRelease ==
  ASSUME FlowInv, Release
  PROVE  FlowInv'
<1>1. UNCHANGED <<maps, pkt, fq, held, umem_frame_addr, fq_free, rx_known, global_exit,
                  log_time_stamps, file_us, file_kern, clock, history>>
  BY DEF Release
<1>2. /\ user.pc = "process" /\ user.rcvd <= Len(rx)
      /\ rx' \in Seq(Descs(arrivals)) /\ Len(rx') = Len(rx) - user.rcvd
      /\ user' = [user EXCEPT !.pc = "peek"] /\ rx_packets' = rx_packets + user.rcvd
  BY Released
<1>3. Len(rx') <= RX_SIZE /\ rx_packets' \in Nat
  <2>1. user.rcvd \in Nat /\ Len(rx) \in 0 .. RX_SIZE /\ rx_packets \in Nat
    BY Flow, FlowTypes
  <2>2. /\ rx_packets' = rx_packets + user.rcvd /\ Len(rx') = Len(rx) - user.rcvd
        /\ user.rcvd <= Len(rx) /\ RX_SIZE \in Nat
    BY <1>2, Sizes
  <2>. DEFINE r == user.rcvd
              m == Len(rx')
  <2>3. /\ r \in Nat /\ Len(rx) \in 0 .. RX_SIZE /\ rx_packets \in Nat /\ RX_SIZE \in Nat
        /\ rx_packets' = rx_packets + r /\ m = Len(rx) - r
    BY <2>1, <2>2
  <2>. HIDE DEF r, m
  <2>4. m <= RX_SIZE /\ rx_packets' \in Nat
    BY <2>3
  <2>. QED BY <2>4 DEF m
<1>4. user' \in UserType /\ user'.pc = "peek"
  BY <1>2 DEF FlowInv, XskType, UserType
<1>5. XskType'
  BY <1>1, <1>2, <1>3, <1>4 DEF FlowInv, XskType, maps, history, UserType, Descs
<1>6. rx_known <= Len(rx) - user.rcvd
  BY <1>2, Flow DEF FlowInv, BatchInv, InBatch
<1>7. BatchInv'
  BY <1>1, <1>2, <1>4, <1>6, Flow DEF BatchInv, InBatch
<1>. QED BY <1>5, <1>7 DEF FlowInv

LEMMA FlowExport ==
  ASSUME FlowInv, ExportUser \/ ExportKern \/ Detach
  PROVE  /\ FlowInv' /\ user'.pc \in {"export", "detached"} /\ user.pc \in {"peek", "export"}
         /\ UNCHANGED <<maps, pkt, socket, umem_frame_addr, fq_free, rx_known, global_exit,
                         rx_packets, log_time_stamps, clock, history>>
<1>1. UNCHANGED <<maps, pkt, socket, umem_frame_addr, fq_free, rx_known, global_exit,
                  rx_packets, log_time_stamps, clock, history>>
  BY DEF ExportUser, ExportKern, Detach, logs
<1>2. /\ user.pc \in {"peek", "export"} /\ user' \in UserType
      /\ user'.pc \in {"export", "detached"}
      /\ user'.pc = "export" => user'.i <= MAX_LOG_ENTRY
      /\ file_us' \in [LogUids -> Nat] /\ file_kern' \in [LogUids -> Nat]
  <2>0. user \in UserType /\ user.i \in Nat
    BY DEF FlowInv, XskType, UserType
  <2>1. CASE ExportUser
    <3>1. user' \in UserType /\ user'.pc = "export" /\ user'.i = 0
      BY <2>0, <2>1 DEF ExportUser, UserType
    <3>. QED BY <2>1, <3>1, Sizes, FlowTypes DEF ExportUser
  <2>2. CASE ExportKern
    <3>1. /\ user.pc = "export" /\ user.i \in LogUids /\ file_us' = file_us
          /\ file_kern' = [file_kern EXCEPT ![user.i] = uid_timestamps[user.i]]
          /\ user' = [user EXCEPT !.i = user.i + 1]
      BY <2>0, <2>2, Sizes DEF ExportKern, Exported, LogUids
    <3>2. uid_timestamps[user.i] \in Nat
      BY <3>1, Sizes DEF FlowInv, XskType
    <3>3. user.i + 1 \in Nat /\ user.i + 1 <= MAX_LOG_ENTRY
      BY <3>1, Sizes DEF LogUids
    <3>4. user' \in UserType /\ user'.pc = "export" /\ user'.i = user.i + 1
      BY <2>0, <3>1, <3>3 DEF UserType
    <3>5. file_us' \in [LogUids -> Nat] /\ file_kern' \in [LogUids -> Nat]
      BY <3>1, <3>2 DEF FlowInv, XskType
    <3>. QED BY <3>1, <3>3, <3>4, <3>5
  <2>3. CASE Detach
    BY <2>0, <2>3 DEF Detach, logs, UserType, FlowInv, XskType
  <2>. QED BY <2>1, <2>2, <2>3
<1>3. XskType'
  BY <1>1, <1>2 DEF FlowInv, XskType, maps, socket, history, UserType
<1>4. BatchInv'
  BY <1>1, <1>2 DEF FlowInv, BatchInv, InBatch, socket
<1>. QED BY <1>1, <1>2, <1>3, <1>4 DEF FlowInv

LEMMA FlowStep == FlowInv /\ [Next]_vars => FlowInv'
<1>. SUFFICES ASSUME FlowInv, [Next]_vars PROVE FlowInv'
  OBVIOUS
<1>1. CASE kernel
  <2>1. CASE ProgPassesUnknown \/ xdp_sock_prog \/ OtherQueue \/ RedirectFails
    BY <2>1, FlowProg
  <2>2. CASE DriverTakes \/ SkipInvalid
    BY <2>2, FlowTakes
  <2>3. CASE RedirectCopied
    BY <2>3, FlowRedirect DEF RedirectCopied
  <2>4. CASE RedirectHeld
    <3>1. PICK frame \in held : Redirect(frame) /\ held' = held \ {frame} /\ UNCHANGED fq
      BY <2>4 DEF RedirectHeld
    <3>2. frame \in Frames
      BY DEF FlowInv, XskType
    <3>. QED BY <3>1, <3>2, FlowRedirect
  <2>. QED BY <1>1, <2>1, <2>2, <2>3, <2>4 DEF kernel
<1>2. CASE exit_application
  BY <1>2, FlowStutter DEF exit_application
<1>3. CASE main
  BY <1>3, FlowPeek, FlowRestock, FlowProcess, FlowRelease, FlowExport
     DEF main, handle_receive_packets
<1>4. CASE UNCHANGED vars
  <2>1. global_exit' \in BOOLEAN /\ UNCHANGED <<maps, pkt, socket, local, logs, clock, history>>
    BY <1>4 DEF vars, FlowInv, XskType
  <2>. QED BY <2>1, FlowStutter
<1>. QED BY <1>1, <1>2, <1>3, <1>4 DEF Next

LEMMA SettingKept == [Next]_vars => UNCHANGED setting
<1>. SUFFICES ASSUME [Next]_vars PROVE UNCHANGED setting
  OBVIOUS
<1>. USE DEF maps
<1>1. CASE kernel
  <2>1. CASE RedirectHeld \/ RedirectCopied
    BY <2>1 DEF RedirectHeld, RedirectCopied, Redirect
  <2>2. CASE ~(RedirectHeld \/ RedirectCopied)
    BY <1>1, <2>2 DEF kernel, ProgPassesUnknown, xdp_sock_prog, OtherQueue, DriverTakes,
       SkipInvalid, RedirectFails
  <2>. QED BY <2>1, <2>2
<1>2. CASE main
  BY <1>2 DEF main, handle_receive_packets, Peek, Restock, process_packet, Release,
     ExportUser, ExportKern, Detach
<1>3. CASE exit_application \/ UNCHANGED vars
  BY <1>3 DEF exit_application, vars
<1>. QED BY <1>1, <1>2, <1>3 DEF Next

LEMMA FlowInvariant == Spec => []FlowInv
  BY InitFlow, FlowStep, PTL DEF Spec

-----------------------------------------------------------------------------
(* The counters. *)

LEMMA Redirects ==
  ASSUME FlowInv, RedirectCopied \/ RedirectHeld
  PROVE  \E frame \in Frames :
           /\ Redirect(frame)
           /\ \/ /\ HELD = 0 /\ fq # <<>> /\ frame = Head(fq)
                 /\ fq' = Tail(fq) /\ held' = held
              \/ frame \in held /\ fq' = fq /\ held' = held \ {frame}
<1>1. CASE RedirectCopied
  BY <1>1 DEF RedirectCopied
<1>2. CASE RedirectHeld
  BY <1>2 DEF RedirectHeld, FlowInv, XskType
<1>. QED BY <1>1, <1>2

LEMMA InitCount == Init => CountInv
<1>. SUFFICES ASSUME Init PROVE CountInv
  OBVIOUS
<1>1. xdp_stats_map = 0 /\ rx_packets = 0 /\ rx_dropped = 0 /\ passed = 0 /\ pkt = 0
  BY DEF Init
<1>. QED BY <1>1, InitRings DEF CountInv

LEMMA CountStep == FlowInv /\ CountInv /\ [Next]_vars => CountInv'
<1>. SUFFICES ASSUME FlowInv, CountInv, [Next]_vars PROVE CountInv'
  OBVIOUS
<1>0. /\ Len(rx) \in Nat /\ rx_packets \in Nat /\ rx_dropped \in Nat /\ passed \in Nat
      /\ xdp_stats_map \in Nat /\ arrivals \in Nat /\ user.rcvd \in Nat
  BY Flow, FlowTypes
<1>1. CASE ProgPassesUnknown
  BY <1>1 DEF ProgPassesUnknown, maps, socket, logs, CountInv
<1>2. CASE xdp_sock_prog
  <2>1. /\ pkt = 0 /\ pkt' = arrivals + 1 /\ xdp_stats_map' = xdp_stats_map + 1
        /\ UNCHANGED <<rx, rx_packets, rx_dropped, passed>>
    BY <1>2 DEF xdp_sock_prog, socket, logs
  <2>. QED BY <1>0, <2>1 DEF CountInv
<1>3. CASE OtherQueue
  <2>1. /\ pkt # 0 /\ pkt' = 0 /\ passed' = passed + 1
        /\ UNCHANGED <<rx, rx_packets, rx_dropped, xdp_stats_map>>
    BY <1>3 DEF OtherQueue, maps, socket, logs
  <2>. QED BY <1>0, <2>1 DEF CountInv
<1>4. CASE RedirectFails
  <2>1. /\ pkt # 0 /\ pkt' = 0 /\ rx_dropped' = rx_dropped + 1
        /\ UNCHANGED <<rx, rx_packets, passed, xdp_stats_map>>
    BY <1>4 DEF RedirectFails, maps, socket, logs
  <2>. QED BY <1>0, <2>1 DEF CountInv
<1>5. CASE RedirectCopied \/ RedirectHeld
  <2>1. /\ pkt # 0 /\ pkt' = 0 /\ Len(rx') = Len(rx) + 1
        /\ UNCHANGED <<rx_packets, rx_dropped, passed, xdp_stats_map>>
    <3>1. PICK frame \in Frames : Redirect(frame)
      BY <1>5, Redirects
    <3>2. pkt \in 1 .. arrivals /\ pkt' = 0 /\ Len(rx') = Len(rx) + 1
      BY <3>1, RxProduced
    <3>3. UNCHANGED <<rx_packets, rx_dropped, passed, xdp_stats_map>>
      BY <3>1 DEF Redirect, maps, logs
    <3>. QED BY <1>0, <3>2, <3>3
  <2>. QED BY <1>0, <2>1 DEF CountInv
<1>6. CASE Release
  <2>1. /\ Len(rx') = Len(rx) - user.rcvd /\ rx_packets' = rx_packets + user.rcvd
        /\ UNCHANGED <<pkt, rx_dropped, passed, xdp_stats_map>>
    BY <1>6, Released DEF Release, maps, history
  <2>. DEFINE r == user.rcvd
              waiting == IF pkt = 0 THEN 0 ELSE 1
  <2>2. waiting \in Nat /\ waiting' = waiting
    BY <2>1
  <2>3. xdp_stats_map = rx_packets + Len(rx) + rx_dropped + passed + waiting
    BY DEF CountInv
  <2>. HIDE DEF waiting
  <2>4. xdp_stats_map' = rx_packets' + Len(rx') + rx_dropped' + passed' + waiting'
    <3>1. r \in Nat /\ Len(rx') = Len(rx) - r /\ rx_packets' = rx_packets + r
      BY <1>0, <2>1
    <3>2. /\ xdp_stats_map' = xdp_stats_map /\ rx_dropped' = rx_dropped
          /\ passed' = passed /\ waiting' = waiting
      BY <2>1, <2>2
    <3>3. /\ Len(rx) \in Nat /\ rx_packets \in Nat /\ rx_dropped \in Nat
          /\ passed \in Nat /\ waiting \in Nat
      BY <1>0, <2>2
    <3>. HIDE DEF r
    <3>. QED BY <2>3, <3>1, <3>2, <3>3
  <2>. QED BY <2>4 DEF CountInv, waiting
<1>7. CASE \/ DriverTakes \/ SkipInvalid \/ exit_application \/ Peek \/ Restock
           \/ process_packet \/ ExportUser \/ ExportKern \/ Detach \/ UNCHANGED vars
  <2>1. UNCHANGED <<xdp_stats_map, rx_packets, rx, rx_dropped, passed, pkt>>
    BY <1>7 DEF DriverTakes, SkipInvalid, exit_application, Peek, Restock, process_packet,
         ExportUser, ExportKern, Detach, vars, maps, socket, logs, history
  <2>. QED BY <2>1 DEF CountInv
<1>. QED BY <1>1, <1>2, <1>3, <1>4, <1>5, <1>6, <1>7
     DEF Next, kernel, main, handle_receive_packets

(* Every packet the program counts is accounted for.                        *)
THEOREM PacketsAddUp == Spec => []CountsAgree
<1>1. FlowInv /\ CountInv => CountsAgree
  <2>. SUFFICES ASSUME FlowInv, CountInv, pkt = 0
                PROVE  xdp_stats_map = rx_packets + Len(rx) + rx_dropped + passed
    BY DEF CountsAgree
  <2>. QED BY Flow, FlowTypes DEF CountInv
<1>. QED BY <1>1, InitCount, CountStep, FlowInvariant, PTL DEF Spec

-----------------------------------------------------------------------------
(* A kernel that keeps no frame is never given anything else.               *)

LEMMA InitEnough == Init => EnoughInv
<1>. SUFFICES ASSUME Init PROVE EnoughInv
  OBVIOUS
<1>1. /\ Len(fq) = FQ_SIZE /\ \A k \in 1 .. FQ_SIZE : fq[k] = NUM_FRAMES - k
      /\ Len(umem_frame_addr) = NUM_FRAMES - FQ_SIZE /\ Len(rx) = 0
  BY InitRings
<1>2. held = {} /\ user.pc = "peek"
  BY DEF Init
<1>3. Valid(fq)
  BY <1>1, Sizes DEF Valid, Frames
<1>. QED BY <1>1, <1>2, <1>3, Sizes DEF EnoughInv

LEMMA EnoughStep == FlowInv /\ EnoughInv /\ [Next]_vars => EnoughInv'
<1>. SUFFICES ASSUME FlowInv, EnoughInv, [Next]_vars PROVE EnoughInv'
  OBVIOUS
<1>a. HELD' = HELD
  BY SettingKept DEF HELD
<1>. SUFFICES ASSUME HELD = 0
              PROVE  /\ held' = {} /\ Valid(fq)'
                     /\ Len(fq') + Len(umem_frame_addr') + Len(rx')
                          = NUM_FRAMES + (IF user'.pc = "process" THEN user'.i ELSE 0)
  BY <1>a DEF EnoughInv
<1>0. /\ Len(rx) \in Nat /\ Len(fq) \in 0 .. FQ_SIZE /\ Len(umem_frame_addr) \in Nat
      /\ user.rcvd \in Nat /\ user.i \in Nat /\ user \in UserType /\ Len(rx) <= RX_SIZE
  BY Flow, FlowTypes
<1>1. /\ held = {} /\ Valid(fq)
      /\ Len(fq) + Len(umem_frame_addr) + Len(rx)
           = NUM_FRAMES + (IF user.pc = "process" THEN user.i ELSE 0)
  BY DEF EnoughInv
<1>2. CASE UNCHANGED <<held, fq, umem_frame_addr, rx, user>>
  BY <1>1, <1>2 DEF Valid
<1>3. CASE DriverTakes \/ SkipInvalid
  <2>1. ~DriverTakes
    BY <1>1, FS_EmptySet DEF DriverTakes
  <2>2. fq # <<>> /\ Head(fq) \notin Frames
    BY <1>3, <2>1 DEF SkipInvalid
  <2>3. Head(fq) = fq[1] /\ 1 \in 1 .. Len(fq)
    BY <1>3, <2>1, FqConsumed, <1>0 DEF SkipInvalid
  <2>. QED BY <1>1, <2>2, <2>3 DEF Valid
<1>4. CASE RedirectCopied \/ RedirectHeld
  <2>1. PICK frame \in Frames :
           /\ Redirect(frame)
           /\ \/ /\ HELD = 0 /\ fq # <<>> /\ frame = Head(fq)
                 /\ fq' = Tail(fq) /\ held' = held
              \/ frame \in held /\ fq' = fq /\ held' = held \ {frame}
    BY <1>4, Redirects
  <2>2. fq # <<>> /\ fq' = Tail(fq) /\ held' = held
    BY <1>1, <2>1
  <2>3. Len(rx') = Len(rx) + 1 /\ UNCHANGED <<umem_frame_addr, user>>
    BY <2>1, RxProduced DEF local
  <2>4. Len(fq) >= 1 /\ Len(fq') = Len(fq) - 1 /\ \A k \in 1 .. Len(fq) - 1 : fq'[k] = fq[k + 1]
    BY <2>2, FqConsumed
  <2>5. Valid(fq)'
    <3>1. Len(fq) \in Nat /\ \A k \in 1 .. Len(fq) : fq[k] \in Frames
      BY <1>0, <1>1 DEF Valid
    <3>2. \A k \in 1 .. Len(fq) - 1 : fq[k + 1] \in Frames
      BY <3>1
    <3>3. \A k \in 1 .. Len(fq') : fq'[k] \in Frames
      BY <2>4, <3>2
    <3>4. Frames' = Frames
      BY DEF Frames
    <3>. QED BY <3>3, <3>4 DEF Valid
  <2>. QED BY <1>0, <1>1, <2>2, <2>3, <2>4, <2>5
<1>5. CASE Peek
  <2>1. user.pc = "peek" /\ user'.pc = "stock" /\ UNCHANGED <<held, fq, umem_frame_addr, rx>>
    BY <1>5, FlowPeek DEF Peek, socket
  <2>. QED BY <1>1, <2>1 DEF Valid
<1>6. CASE Restock
  <2>0. /\ user.pc = "stock" /\ user.i = 0 /\ user' = [user EXCEPT !.pc = "process"]
        /\ UNCHANGED <<held, rx>>
    BY <1>6 DEF Restock, FlowInv, BatchInv
  <2>1. user'.pc = "process" /\ user'.i = 0
    BY <1>0, <2>0 DEF UserType
  <2>. DEFINE s == Len(umem_frame_addr)
  <2>2. PICK n \in Nat :
         /\ IF Len(umem_frame_addr) = 0 THEN n = 0 ELSE n = FQ_SIZE - Len(fq)
         /\ Len(fq') = Len(fq) + n
         /\ \A k \in 1 .. Len(fq) : fq'[k] = fq[k]
         /\ \A k \in 1 .. n : fq'[Len(fq) + k] =
              IF k <= s THEN umem_frame_addr[s - k + 1] ELSE INVALID_UMEM_FRAME
         /\ Len(umem_frame_addr') = s - Lesser(n, s)
    BY <1>6, Restocked
  <2>3. n <= s
    <3>0. user.pc # "process"
      BY <2>0
    <3>4. Len(fq) + Len(umem_frame_addr) + Len(rx) = NUM_FRAMES + 0
      BY <1>1, <3>0, Zenon
    <3>1. Len(fq) + s + Len(rx) = NUM_FRAMES
      BY <3>4, Sizes
    <3>2. /\ Len(fq) \in Nat /\ s \in Nat /\ Len(rx) \in Nat /\ Len(rx) <= RX_SIZE
          /\ NUM_FRAMES \in Nat /\ FQ_SIZE \in Nat /\ RX_SIZE \in Nat
          /\ NUM_FRAMES >= FQ_SIZE + RX_SIZE
      BY <1>0, Sizes
    <3>3. s >= FQ_SIZE - Len(fq)
      BY <3>1, <3>2
    <3>. QED BY <2>2, <3>2, <3>3
  <2>4. Lesser(n, s) = n
    BY <1>0, <2>3 DEF Lesser
  <2>5. ASSUME NEW k \in 1 .. Len(fq')
        PROVE  fq'[k] \in Frames
    <3>1. CASE k <= Len(fq)
      <4>1. k \in 1 .. Len(fq)
        BY <1>0, <2>2, <2>5, <3>1
      <4>2. fq'[k] = fq[k] /\ fq[k] \in Frames
        BY <1>1, <2>2, <4>1 DEF Valid
      <4>. QED BY <4>2
    <3>2. CASE ~(k <= Len(fq))
      <4>1. k - Len(fq) \in 1 .. n /\ k = Len(fq) + (k - Len(fq))
        BY <1>0, <2>2, <3>2
      <4>2. s - (k - Len(fq)) + 1 \in 1 .. s /\ k - Len(fq) <= s
        BY <1>0, <2>3, <4>1
      <4>3. fq'[k] = umem_frame_addr[s - (k - Len(fq)) + 1]
        BY <2>2, <4>1, <4>2
      <4>. QED BY <4>2, <4>3, Flow
    <3>. QED BY <3>1, <3>2
  <2>6. Len(fq') + Len(umem_frame_addr') + Len(rx') = NUM_FRAMES
    <3>1. Len(fq) + s + Len(rx) = NUM_FRAMES
      BY <1>1, <2>0, Sizes
    <3>2. Len(umem_frame_addr') = s - n /\ Len(fq') = Len(fq) + n /\ rx' = rx
      BY <2>0, <2>2, <2>4
    <3>. QED BY <1>0, <3>1, <3>2, Sizes
  <2>. QED BY <1>1, <2>0, <2>1, <2>5, <2>6, Sizes DEF Valid
<1>7. CASE process_packet
  <2>1. /\ user.pc = "process" /\ Len(umem_frame_addr') = Len(umem_frame_addr) + 1
        /\ user' = [user EXCEPT !.i = user.i + 1]
    BY <1>7, Processed
  <2>2. user'.pc = "process" /\ user'.i = user.i + 1 /\ UNCHANGED <<fq, rx, held>>
    <3>1. user'.pc = "process" /\ user'.i = user.i + 1
      BY <1>0, <2>1 DEF UserType
    <3>. QED BY <1>7, <3>1 DEF process_packet, socket
  <2>3. Len(fq) + Len(umem_frame_addr) + Len(rx) = NUM_FRAMES + user.i
    BY <1>1, <2>1
  <2>4. Len(fq') + Len(umem_frame_addr') + Len(rx') = NUM_FRAMES + user'.i
    <3>1. /\ Len(fq') = Len(fq) /\ Len(rx') = Len(rx) /\ user'.i = user.i + 1
          /\ Len(umem_frame_addr') = Len(umem_frame_addr) + 1
      BY <2>1, <2>2
    <3>2. /\ Len(fq) \in Nat /\ Len(rx) \in Nat /\ Len(umem_frame_addr) \in Nat
          /\ user.i \in Nat /\ NUM_FRAMES \in Nat
      BY <1>0, Sizes
    <3>. DEFINE i == user.i
    <3>3. /\ Len(fq) + Len(umem_frame_addr) + Len(rx) = NUM_FRAMES + i
          /\ user'.i = i + 1 /\ i \in Nat
      BY <2>3, <3>1, <3>2
    <3>. HIDE DEF i
    <3>. QED BY <3>1, <3>2, <3>3
  <2>. QED BY <1>1, <2>2, <2>4 DEF Valid
<1>8. CASE Release
  <2>1. /\ user.pc = "process" /\ user.i = user.rcvd /\ Len(rx') = Len(rx) - user.rcvd
        /\ user' = [user EXCEPT !.pc = "peek"]
    BY <1>8, Released
  <2>2. user'.pc = "peek" /\ UNCHANGED <<fq, held, umem_frame_addr>>
    <3>1. user'.pc = "peek"
      BY <1>0, <2>1 DEF UserType
    <3>. QED BY <1>8, <3>1 DEF Release
  <2>3. Len(fq) + Len(umem_frame_addr) + Len(rx) = NUM_FRAMES + user.rcvd
    BY <1>1, <2>1
  <2>4. Len(fq') + Len(umem_frame_addr') + Len(rx') = NUM_FRAMES + 0
    <3>1. /\ Len(fq') = Len(fq) /\ Len(umem_frame_addr') = Len(umem_frame_addr)
          /\ Len(rx') = Len(rx) - user.rcvd
      BY <2>1, <2>2
    <3>2. /\ Len(fq) \in Nat /\ Len(rx) \in Nat /\ Len(umem_frame_addr) \in Nat
          /\ user.rcvd \in Nat /\ NUM_FRAMES \in Nat
      BY <1>0, Sizes
    <3>. DEFINE r == user.rcvd
    <3>3. /\ Len(fq) + Len(umem_frame_addr) + Len(rx) = NUM_FRAMES + r
          /\ Len(rx') = Len(rx) - r /\ r \in Nat
      BY <2>3, <3>1, <3>2
    <3>. HIDE DEF r
    <3>. QED BY <3>1, <3>2, <3>3
  <2>. QED BY <1>1, <2>2, <2>4 DEF Valid
<1>9. CASE ExportUser \/ ExportKern \/ Detach
  <2>1. /\ user'.pc # "process" /\ user.pc # "process"
        /\ UNCHANGED <<held, fq, umem_frame_addr, rx>>
    BY <1>9, FlowExport DEF socket
  <2>. QED BY <1>1, <2>1 DEF Valid
<1>10. CASE \/ ProgPassesUnknown \/ xdp_sock_prog \/ OtherQueue \/ RedirectFails
            \/ exit_application \/ UNCHANGED vars
  BY <1>2, <1>10 DEF ProgPassesUnknown, xdp_sock_prog, OtherQueue, RedirectFails,
     exit_application, vars, socket, local
<1>. QED BY <1>3, <1>4, <1>5, <1>6, <1>7, <1>8, <1>9, <1>10
     DEF Next, kernel, main, handle_receive_packets

(* With the sizes the program has (NUM_FRAMES is FQ_SIZE + RX_SIZE) the     *)
(* free stack never runs out while the ring is refilled, if the kernel      *)
(* keeps no frame: the process never posts INVALID_UMEM_FRAME.              *)
THEOREM FramesSuffice == Spec => []OnlyFramesPosted
<1>1. FlowInv /\ EnoughInv => OnlyFramesPosted
  <2>. SUFFICES ASSUME FlowInv, EnoughInv, HELD = 0, NEW k \in DOMAIN fq
                PROVE  fq[k] \in Frames
    BY DEF OnlyFramesPosted
  <2>1. fq \in Seq(Addrs)
    BY DEF FlowInv, XskType, Addrs
  <2>2. k \in 1 .. Len(fq)
    BY <2>1, LenProperties
  <2>. QED BY <2>2 DEF EnoughInv, Valid
<1>. QED BY <1>1, InitEnough, EnoughStep, FlowInvariant, PTL DEF Spec

-----------------------------------------------------------------------------
(* The two logs. *)

LEMMA InitLog == Init => LogInv /\ ExportInv
<1>. SUFFICES ASSUME Init PROVE LogInv /\ ExportInv
  OBVIOUS
<1>1. /\ uid_timestamps = [k \in Keys |-> 0] /\ log_time_stamps = [u \in LogUids |-> 0]
      /\ pkt = 0 /\ clock = 0 /\ user = [pc |-> "peek", rcvd |-> 0, i |-> 0]
  BY DEF Init
<1>2. \A k \in 1 .. Len(rx) : FALSE
  BY InitRings
<1>3. LogInv
  BY <1>1, <1>2 DEF LogInv, KernelStampedFirst
<1>4. ExportInv
  BY <1>1 DEF ExportInv
<1>. QED BY <1>3, <1>4

(* Steps that neither stamp nor move a packet. *)
LEMMA LogStutter ==
  ASSUME LogInv,
         UNCHANGED <<setting, uid_timestamps, log_time_stamps, clock>>,
         pkt' \in {0, pkt}, arrivals \in Nat, arrivals' \in Nat, arrivals' >= arrivals,
         \A k \in 1 .. Len(rx') : \E j \in 1 .. Len(rx) : rx'[k] = rx[j]
  PROVE  LogInv'
<1>1. Uid' = Uid /\ UidsDiffer' = UidsDiffer
  BY DEF Uid, UidsDiffer
<1>2. ASSUME NEW u \in Keys, StampedBy(u) PROVE StampedBy(u)'
  BY <1>1, <1>2 DEF StampedBy
<1>3. KernelStampedFirst'
  BY <1>1 DEF LogInv, KernelStampedFirst
<1>. QED BY <1>1, <1>2, <1>3 DEF LogInv

LEMMA LogProg ==
  ASSUME FlowInv, LogInv, xdp_sock_prog
  PROVE  LogInv'
<1>. DEFINE new == Uid[arrivals + 1]
<1>1. /\ arrivals < MaxPackets /\ new \in Keys /\ arrivals' = arrivals + 1
      /\ uid_timestamps' = [uid_timestamps EXCEPT ![new] = clock + 1]
      /\ clock' = clock + 1 /\ pkt' = arrivals + 1
      /\ UNCHANGED <<setting, rx, log_time_stamps>>
  BY DEF xdp_sock_prog, socket, logs
<1>2. arrivals \in Nat /\ clock \in Nat /\ uid_timestamps \in [Keys -> Nat]
  BY FlowTypes
<1>3. Uid' = Uid /\ UidsDiffer' = UidsDiffer
  BY <1>1 DEF Uid, UidsDiffer
<1>4. \A u \in Keys : u = new => StampedBy(u)'
  <2>1. arrivals + 1 \in 1 .. arrivals' /\ Uid'[arrivals + 1] = new
    BY <1>1, <1>2, <1>3
  <2>. QED BY <2>1 DEF StampedBy
<1>5. StampedBy(new) => ~UidsDiffer
  <2>. SUFFICES ASSUME NEW p \in 1 .. arrivals, Uid[p] = new PROVE ~UidsDiffer
    BY DEF StampedBy
  <2>1. p \in Packets /\ arrivals + 1 \in Packets /\ p # arrivals + 1
    BY <1>1, <1>2, Sizes DEF Packets
  <2>. QED BY <2>1 DEF UidsDiffer
<1>6. \A u \in Keys : StampedBy(u) => StampedBy(u)'
  BY <1>1, <1>2, <1>3 DEF StampedBy
<1>. HIDE DEF new
<1>7. \A u \in Keys : uid_timestamps'[u] = IF u = new THEN clock + 1 ELSE uid_timestamps[u]
  BY <1>1, <1>2
<1>8. \A u \in Keys : uid_timestamps[u] # 0 => StampedBy(u)
  BY DEF LogInv
<1>9. \A u \in Keys : uid_timestamps'[u] <= clock' /\ (uid_timestamps'[u] # 0 => StampedBy(u)')
  <2>. SUFFICES ASSUME NEW u \in Keys
                PROVE  uid_timestamps'[u] <= clock' /\ (uid_timestamps'[u] # 0 => StampedBy(u)')
    OBVIOUS
  <2>1. uid_timestamps[u] \in Nat /\ uid_timestamps[u] <= clock
    BY <1>2 DEF LogInv
  <2>2. CASE u = new
    BY <1>1, <1>2, <1>4, <1>7, <2>2
  <2>3. CASE u # new
    <3>1. uid_timestamps'[u] = uid_timestamps[u]
      BY <1>7, <2>3
    <3>2. uid_timestamps'[u] <= clock'
      BY <1>1, <1>2, <2>1, <3>1
    <3>. QED BY <1>6, <1>8, <3>1, <3>2
  <2>. QED BY <2>2, <2>3
<1>10. \A u \in Keys : uid_timestamps[u] # 0 => uid_timestamps'[u] # 0
  BY <1>2, <1>7
<1>11. pkt' # 0 => Uid'[pkt'] \in Keys /\ uid_timestamps'[Uid'[pkt']] # 0
  BY <1>1, <1>2, <1>3, <1>7 DEF new
<1>12. \A k \in 1 .. Len(rx') :
         Uid'[rx'[k].pkt] \in Keys /\ uid_timestamps'[Uid'[rx'[k].pkt]] # 0
  BY <1>1, <1>3, <1>10 DEF LogInv
<1>13. KernelStampedFirst'
  <2>1. \A u \in LogUids : log_time_stamps'[u] = log_time_stamps[u]
    BY <1>1
  <2>2. ASSUME NEW u \in LogUids, log_time_stamps[u] # 0
        PROVE  /\ uid_timestamps'[u] # 0
               /\ UidsDiffer => uid_timestamps'[u] < log_time_stamps[u]
    <3>1. /\ u \in Keys /\ uid_timestamps[u] # 0
          /\ UidsDiffer => uid_timestamps[u] < log_time_stamps[u]
      BY <2>2, Sizes DEF LogInv, KernelStampedFirst
    <3>2. CASE u = new
      BY <1>5, <1>8, <1>10, <3>1, <3>2
    <3>3. CASE u # new
      BY <1>7, <3>1, <3>3
    <3>. QED BY <3>2, <3>3
  <2>. QED BY <1>3, <2>1, <2>2 DEF KernelStampedFirst
<1>. QED BY <1>9, <1>11, <1>12, <1>13 DEF LogInv

LEMMA LogRedirect ==
  ASSUME FlowInv, LogInv, RedirectCopied \/ RedirectHeld
  PROVE  LogInv'
<1>1. PICK frame \in Frames : Redirect(frame)
  BY Redirects
<1>2. /\ pkt # 0 /\ pkt' = 0 /\ Len(rx') = Len(rx) + 1
      /\ \A k \in 1 .. Len(rx) : rx'[k] = rx[k]
      /\ rx'[Len(rx) + 1] = [addr |-> frame, pkt |-> pkt]
      /\ UNCHANGED <<setting, uid_timestamps, log_time_stamps, clock, arrivals>>
  <2>1. /\ pkt \in 1 .. arrivals /\ pkt' = 0 /\ Len(rx') = Len(rx) + 1
        /\ \A k \in 1 .. Len(rx) : rx'[k] = rx[k]
        /\ rx'[Len(rx) + 1] = [addr |-> frame, pkt |-> pkt]
    BY <1>1, RxProduced
  <2>2. UNCHANGED <<setting, uid_timestamps, log_time_stamps, clock, arrivals>> /\ pkt # 0
    BY <1>1 DEF Redirect, maps, logs
  <2>. QED BY <2>1, <2>2
<1>3. Uid' = Uid /\ UidsDiffer' = UidsDiffer
  BY <1>2 DEF Uid, UidsDiffer
<1>4. Len(rx) \in Nat
  BY Flow
<1>5. \A u \in Keys : StampedBy(u)' = StampedBy(u)
  BY <1>2, <1>3 DEF StampedBy
<1>6. KernelStampedFirst'
  BY <1>2, <1>3 DEF LogInv, KernelStampedFirst
<1>7. ASSUME NEW k \in 1 .. Len(rx')
      PROVE  Uid'[rx'[k].pkt] \in Keys /\ uid_timestamps'[Uid'[rx'[k].pkt]] # 0
  <2>1. CASE k \in 1 .. Len(rx)
    BY <1>2, <1>3, <2>1 DEF LogInv
  <2>2. CASE k = Len(rx) + 1
    BY <1>2, <1>3, <2>2 DEF LogInv
  <2>. QED BY <1>2, <1>4, <2>1, <2>2
<1>. QED BY <1>2, <1>3, <1>5, <1>6, <1>7 DEF LogInv

LEMMA LogProcess ==
  ASSUME FlowInv, LogInv, process_packet
  PROVE  LogInv'
<1>. DEFINE uid == Uid[rx[user.i + 1].pkt]
<1>1. /\ UNCHANGED <<setting, uid_timestamps, pkt, rx, arrivals>> /\ clock' = clock + 1
      /\ log_time_stamps' = IF uid < MAX_LOG_ENTRY
                            THEN [log_time_stamps EXCEPT ![uid] = clock + 1]
                            ELSE log_time_stamps
  BY DEF process_packet, maps, socket, history
<1>2. uid \in Keys /\ uid_timestamps[uid] # 0
  BY Processed DEF LogInv
<1>3. Uid' = Uid /\ UidsDiffer' = UidsDiffer
  BY <1>1 DEF Uid, UidsDiffer
<1>4. \A u \in Keys : StampedBy(u)' = StampedBy(u)
  BY <1>1, <1>3 DEF StampedBy
<1>5. clock \in Nat /\ log_time_stamps \in [LogUids -> Nat] /\ uid_timestamps \in [Keys -> Nat]
  BY FlowTypes
<1>. HIDE DEF uid
<1>6. uid < MAX_LOG_ENTRY => uid \in LogUids
  BY <1>2, Sizes DEF Keys, LogUids
<1>7. KernelStampedFirst'
  <2>1. ASSUME NEW u \in LogUids, log_time_stamps'[u] # 0
        PROVE  /\ uid_timestamps[u] # 0
               /\ UidsDiffer => uid_timestamps[u] < log_time_stamps'[u]
    <3>1. CASE log_time_stamps'[u] = log_time_stamps[u]
      BY <2>1, <3>1 DEF LogInv, KernelStampedFirst
    <3>2. CASE log_time_stamps'[u] # log_time_stamps[u]
      <4>1. u = uid /\ log_time_stamps'[u] = clock + 1
        BY <1>1, <1>5, <1>6, <3>2
      <4>2. uid_timestamps[u] <= clock /\ uid_timestamps[u] \in Nat
        BY <1>2, <1>5, <4>1 DEF LogInv
      <4>. QED BY <1>2, <1>5, <4>1, <4>2
    <3>. QED BY <3>1, <3>2
  <2>. QED BY <1>1, <1>3, <2>1 DEF KernelStampedFirst
<1>8. \A u \in Keys : uid_timestamps'[u] <= clock'
  BY <1>1, <1>5 DEF LogInv
<1>. QED BY <1>1, <1>3, <1>4, <1>7, <1>8 DEF LogInv

LEMMA LogStep == FlowInv /\ LogInv /\ [Next]_vars => LogInv'
<1>. SUFFICES ASSUME FlowInv, LogInv, [Next]_vars PROVE LogInv'
  OBVIOUS
<1>0. arrivals \in Nat /\ Len(rx) \in Nat /\ user.rcvd \in Nat
  BY FlowTypes, Flow
<1>1. CASE \/ ProgPassesUnknown \/ OtherQueue \/ RedirectFails \/ DriverTakes \/ SkipInvalid
           \/ exit_application \/ Peek \/ Restock \/ ExportUser \/ ExportKern \/ Detach
           \/ UNCHANGED vars
  <2>1. /\ UNCHANGED <<setting, uid_timestamps, log_time_stamps, clock, rx>>
        /\ pkt' \in {0, pkt} /\ arrivals' \in {arrivals, arrivals + 1}
    BY <1>1 DEF ProgPassesUnknown, OtherQueue, RedirectFails, DriverTakes, SkipInvalid,
       exit_application, Peek, Restock, ExportUser, ExportKern, Detach, vars,
       maps, socket, logs, history
  <2>. QED BY <1>0, <2>1, LogStutter
<1>2. CASE Release
  <2>1. /\ UNCHANGED <<setting, uid_timestamps, log_time_stamps, clock, pkt, arrivals>>
        /\ Len(rx') = Len(rx) - user.rcvd /\ user.rcvd <= Len(rx)
        /\ \A k \in 1 .. Len(rx') : rx'[k] = rx[user.rcvd + k]
    BY <1>2, Released DEF Release, maps, history
  <2>2. \A k \in 1 .. Len(rx') : user.rcvd + k \in 1 .. Len(rx)
    <3>. DEFINE r == user.rcvd
    <3>1. r \in Nat /\ Len(rx') = Len(rx) - r
      BY <1>0, <2>1
    <3>. HIDE DEF r
    <3>2. \A k \in 1 .. Len(rx') : r + k \in 1 .. Len(rx)
      BY <1>0, <3>1
    <3>. QED BY <3>2 DEF r
  <2>. QED BY <1>0, <2>1, <2>2, LogStutter
<1>. QED BY <1>1, <1>2, LogProg, LogRedirect, LogProcess
     DEF Next, kernel, main, handle_receive_packets

(* Whatever the order of the packets, the kernel's stamp of a uid is there  *)
(* before the process's, and is smaller if no uid comes twice.              *)
THEOREM XdpStampsFirst == Spec => []KernelStampedFirst
<1>1. LogInv => KernelStampedFirst
  BY DEF LogInv
<1>. QED BY <1>1, InitLog, LogStep, FlowInvariant, PTL DEF Spec

LEMMA LogInvariant == Spec => []LogInv
  BY InitLog, LogStep, FlowInvariant, PTL DEF Spec

LEMMA ExportStep == FlowInv /\ LogInv /\ ExportInv /\ [Next]_vars => ExportInv'
<1>. SUFFICES ASSUME FlowInv, LogInv, ExportInv, [Next]_vars PROVE ExportInv'
  OBVIOUS
<1>0. UidsDiffer' = UidsDiffer
  BY SettingKept DEF UidsDiffer, Uid
<1>1. CASE ExportUser
  <2>0. user \in UserType
    BY FlowTypes
  <2>1. user'.pc = "export" /\ user'.i = 0 /\ UNCHANGED log_time_stamps /\ file_us' = log_time_stamps
    BY <1>1, <2>0 DEF ExportUser, UserType
  <2>. QED BY <2>1, Sizes DEF ExportInv, LogUids
<1>2. CASE ExportKern
  <2>. DEFINE i == user.i
  <2>1. /\ user.pc = "export"
        /\ file_kern' = [file_kern EXCEPT ![user.i] = uid_timestamps[user.i]]
        /\ user' = [user EXCEPT !.i = user.i + 1] /\ UNCHANGED <<file_us, log_time_stamps>>
    BY <1>2 DEF ExportKern, Exported
  <2>2. user \in UserType /\ i \in Nat /\ file_kern \in [LogUids -> Nat]
    BY FlowTypes, Flow
  <2>3. user'.pc = "export" /\ user'.i = i + 1
    BY <2>1, <2>2 DEF UserType
  <2>4. \A u \in LogUids : file_kern'[u] = IF u = i THEN uid_timestamps[i] ELSE file_kern[u]
    BY <2>1, <2>2
  <2>5. \A u \in LogUids : /\ file_us[u] = log_time_stamps[u]
                           /\ u < i /\ file_us[u] # 0 =>
                                file_kern[u] # 0 /\ (UidsDiffer => file_kern[u] < file_us[u])
    BY <2>1 DEF ExportInv
  <2>. HIDE DEF i
  <2>6. ASSUME NEW u \in LogUids, u < i + 1, file_us[u] # 0
        PROVE  file_kern'[u] # 0 /\ (UidsDiffer => file_kern'[u] < file_us[u])
    <3>. KernelStampedFirst
      BY DEF LogInv
    <3>a. log_time_stamps[u] = file_us[u] /\ file_us[u] # 0
      BY <2>5, <2>6
    <3>0. /\ file_us[u] # 0 /\ uid_timestamps[u] # 0
          /\ UidsDiffer => uid_timestamps[u] < file_us[u]
      BY <3>a DEF KernelStampedFirst
    <3>1. CASE u = i
      <4>1. file_kern'[u] = uid_timestamps[u]
        BY <2>4, <3>1
      <4>. QED BY <3>0, <4>1
    <3>2. CASE u # i
      <4>1. u \in Nat /\ file_kern'[u] = file_kern[u]
        BY <2>4, <3>2, Sizes DEF LogUids
      <4>2. i \in Nat /\ u < i + 1
        BY <2>2, <2>6
      <4>3. u < i
        BY <3>2, <4>1, <4>2
      <4>. QED BY <2>5, <2>6, <4>1, <4>3
    <3>. QED BY <3>1, <3>2
  <2>. QED BY <1>0, <2>1, <2>3, <2>5, <2>6 DEF ExportInv
<1>3. CASE Detach
  <2>1. /\ user.pc = "export" /\ user.i = MAX_LOG_ENTRY
        /\ UNCHANGED <<file_us, file_kern, log_time_stamps>>
    BY <1>3 DEF Detach, Exported, logs
  <2>2. \A u \in LogUids : u < user.i
    BY <2>1, Sizes DEF LogUids
  <2>. QED BY <1>0, <2>1, <2>2 DEF ExportInv
<1>4. CASE Peek \/ Restock \/ process_packet \/ Release
  <2>1. user \in UserType
    BY FlowTypes
  <2>2. user'.pc \notin {"export", "detached"}
    <3>1. CASE Peek
      BY <3>1, FlowPeek
    <3>2. CASE Restock
      BY <2>1, <3>2 DEF Restock, UserType
    <3>3. CASE process_packet
      BY <2>1, <3>3 DEF process_packet, UserType
    <3>4. CASE Release
      BY <2>1, <3>4 DEF Release, UserType
    <3>. QED BY <1>4, <3>1, <3>2, <3>3, <3>4
  <2>. QED BY <2>2 DEF ExportInv
<1>5. CASE kernel \/ exit_application \/ UNCHANGED vars
  <2>1. UNCHANGED <<user, file_us, file_kern, log_time_stamps>>
    <3>1. CASE RedirectCopied \/ RedirectHeld
      BY <3>1 DEF RedirectCopied, RedirectHeld, Redirect, local, logs
    <3>2. CASE ~(RedirectCopied \/ RedirectHeld)
      BY <1>5, <3>2 DEF kernel, ProgPassesUnknown, xdp_sock_prog, OtherQueue, DriverTakes,
         SkipInvalid, RedirectFails, exit_application, vars, local, logs
    <3>. QED BY <3>1, <3>2
  <2>. QED BY <1>0, <2>1 DEF ExportInv
<1>. QED BY <1>1, <1>2, <1>3, <1>4, <1>5 DEF Next, main, handle_receive_packets

(* The exported files fit together although the map changes meanwhile.      *)
THEOREM XdpFilesAgree == Spec => []FilesAgree
<1>1. ExportInv => FilesAgree
  BY DEF ExportInv, FilesAgree
<1>. QED BY <1>1, InitLog, ExportStep, LogInvariant, FlowInvariant, PTL DEF Spec

-----------------------------------------------------------------------------
(* Every frame is in one place. *)

LEMMA PostedIs == \A f : f \in Posted <=> f \in Frames /\ \E k \in 1 .. Len(fq) : fq[k] = f
  BY DEF Posted
LEMMA ReceivedIs == \A f : f \in Received <=> \E k \in Unfreed : rx[k].addr = f
  BY DEF Received
LEMMA FreeIs ==
  \A f : f \in Free <=> \E k \in 1 .. Len(umem_frame_addr) : umem_frame_addr[k] = f
  BY DEF Free

LEMMA UnfreedIs ==
  ASSUME FlowInv
  PROVE  /\ Unfreed \subseteq 1 .. Len(rx)
         /\ \A k \in 1 .. Len(rx) : k \in Unfreed <=> (user.pc = "process" => k > user.i)
<1>1. Len(rx) \in Nat /\ user.i \in Nat
  BY Flow
<1>. DEFINE i == user.i
<1>2. Unfreed = IF user.pc = "process" THEN i + 1 .. Len(rx) ELSE 1 .. Len(rx)
  BY DEF Unfreed
<1>3. Len(rx) \in Nat /\ i \in Nat
  BY <1>1
<1>. HIDE DEF i
<1>4. /\ Unfreed \subseteq 1 .. Len(rx)
      /\ \A k \in 1 .. Len(rx) : k \in Unfreed <=> (user.pc = "process" => k > i)
  BY <1>2, <1>3
<1>. QED BY <1>4 DEF i

LEMMA PlacesInit == FlowInv /\ Init => PlacesInv /\ DeafInv
<1>. SUFFICES ASSUME FlowInv, Init PROVE PlacesInv /\ DeafInv
  OBVIOUS
<1>1. /\ Len(fq) = FQ_SIZE /\ \A k \in 1 .. FQ_SIZE : fq[k] = NUM_FRAMES - k
      /\ Len(umem_frame_addr) = NUM_FRAMES - FQ_SIZE
      /\ \A k \in 1 .. NUM_FRAMES - FQ_SIZE : umem_frame_addr[k] = k - 1
      /\ Len(rx) = 0
  BY InitRings
<1>2. held = {}
  BY DEF Init
<1>3. Posted = NUM_FRAMES - FQ_SIZE .. NUM_FRAMES - 1
  <2>1. \A k \in 1 .. FQ_SIZE : fq[k] \in NUM_FRAMES - FQ_SIZE .. NUM_FRAMES - 1
    BY <1>1, Sizes
  <2>2. NUM_FRAMES - FQ_SIZE .. NUM_FRAMES - 1 \subseteq Frames
    BY Sizes DEF Frames
  <2>3. ASSUME NEW f \in NUM_FRAMES - FQ_SIZE .. NUM_FRAMES - 1
        PROVE  NUM_FRAMES - f \in 1 .. FQ_SIZE /\ fq[NUM_FRAMES - f] = f
    BY <1>1, Sizes
  <2>4. Posted \subseteq NUM_FRAMES - FQ_SIZE .. NUM_FRAMES - 1
    BY <1>1, <2>1, PostedIs
  <2>5. ASSUME NEW f \in NUM_FRAMES - FQ_SIZE .. NUM_FRAMES - 1 PROVE f \in Posted
    BY <1>1, <2>2, <2>3, PostedIs
  <2>. QED BY <2>4, <2>5
<1>4. Free = 0 .. NUM_FRAMES - FQ_SIZE - 1
  <2>1. \A k \in 1 .. NUM_FRAMES - FQ_SIZE : umem_frame_addr[k] \in 0 .. NUM_FRAMES - FQ_SIZE - 1
    BY <1>1, Sizes
  <2>2. ASSUME NEW f \in 0 .. NUM_FRAMES - FQ_SIZE - 1
        PROVE  f + 1 \in 1 .. NUM_FRAMES - FQ_SIZE /\ umem_frame_addr[f + 1] = f
    BY <1>1, Sizes
  <2>3. Free \subseteq 0 .. NUM_FRAMES - FQ_SIZE - 1
    BY <1>1, <2>1, FreeIs
  <2>4. ASSUME NEW f \in 0 .. NUM_FRAMES - FQ_SIZE - 1 PROVE f \in Free
    BY <1>1, <2>2, FreeIs
  <2>. QED BY <2>3, <2>4
<1>5. Unfreed = {} /\ Received = {}
  BY <1>1, UnfreedIs, ReceivedIs
<1>6. Apart(held, Posted, Received, Free)
  BY <1>2, <1>3, <1>4, <1>5, Sizes DEF Apart, Frames
<1>7. OncePosted
  BY <1>1, Sizes DEF OncePosted
<1>8. OnceFree
  BY <1>1, Sizes DEF OnceFree
<1>9. OnceReceived
  BY <1>5 DEF OnceReceived
<1>10. DeafInv
  <2>1. NUM_FRAMES - 1 \in Posted
    BY <1>3, Sizes
  <2>. QED BY <2>1 DEF DeafInv
<1>. QED BY <1>6, <1>7, <1>8, <1>9, <1>10 DEF PlacesInv

(* The kernel takes the first entry of fq: a frame in no other entry.       *)
LEMMA FirstTaken ==
  ASSUME FlowInv, OncePosted, fq # <<>>, fq' = Tail(fq)
  PROVE  /\ Posted' = Posted \ {Head(fq)} /\ OncePosted'
         /\ Head(fq) \in Frames => Head(fq) \in Posted
<1>1. /\ Head(fq) = fq[1] /\ Len(fq) >= 1 /\ Len(fq') = Len(fq) - 1 /\ Len(fq) \in Nat
      /\ \A k \in 1 .. Len(fq) - 1 : fq'[k] = fq[k + 1]
  BY FqConsumed, Flow
<1>2. \A k \in 1 .. Len(fq) - 1 : k + 1 \in 1 .. Len(fq) /\ k + 1 # 1
  BY <1>1
<1>3. \A k \in 1 .. Len(fq) : k # 1 => k - 1 \in 1 .. Len(fq) - 1 /\ (k - 1) + 1 = k
  BY <1>1
<1>4. 1 \in 1 .. Len(fq)
  BY <1>1
<1>5. OncePosted'
  <2>. SUFFICES ASSUME NEW j \in 1 .. Len(fq'), NEW k \in 1 .. Len(fq'),
                       fq'[j] = fq'[k], fq'[j] \in Frames
                PROVE  j = k
    BY DEF OncePosted, Frames
  <2>1. fq[j + 1] = fq[k + 1] /\ fq[j + 1] \in Frames /\ j + 1 \in 1 .. Len(fq) /\ k + 1 \in 1 .. Len(fq)
    BY <1>1, <1>2
  <2>2. j + 1 = k + 1
    BY <2>1 DEF OncePosted
  <2>. QED BY <1>1, <2>2
<1>6. \A f \in Posted' : f \in Posted /\ f # Head(fq)
  <2>. SUFFICES ASSUME NEW f \in Frames, NEW k \in 1 .. Len(fq'), fq'[k] = f
                PROVE  f \in Posted /\ f # Head(fq)
    BY DEF Posted, Frames
  <2>1. k + 1 \in 1 .. Len(fq) /\ k + 1 # 1 /\ fq[k + 1] = f
    BY <1>1, <1>2
  <2>. QED BY <1>1, <1>4, <2>1, PostedIs DEF OncePosted
<1>7. \A f \in Posted : f # Head(fq) => f \in Posted'
  <2>. SUFFICES ASSUME NEW f \in Frames, NEW k \in 1 .. Len(fq), fq[k] = f, f # fq[1]
                PROVE  f \in Posted'
    BY <1>1, PostedIs
  <2>1. k - 1 \in 1 .. Len(fq') /\ fq'[k - 1] = f
    BY <1>1, <1>3
  <2>. QED BY <2>1 DEF Posted, Frames
<1>. QED BY <1>1, <1>4, <1>5, <1>6, <1>7, PostedIs

(* It receives into a frame: one more that the process has not freed.       *)
LEMMA LastReceived ==
  ASSUME FlowInv, OnceReceived, NEW frame \in Frames, Redirect(frame), frame \notin Received
  PROVE  /\ Received' = Received \cup {frame} /\ OnceReceived'
         /\ UNCHANGED <<umem_frame_addr, user>> /\ Len(rx') = Len(rx) + 1
<1>1. /\ Len(rx') = Len(rx) + 1 /\ Len(rx) \in Nat /\ user.i \in Nat
      /\ \A k \in 1 .. Len(rx) : rx'[k] = rx[k]
      /\ rx'[Len(rx) + 1].addr = frame
      /\ UNCHANGED <<umem_frame_addr, user>>
  <2>1. /\ Len(rx') = Len(rx) + 1 /\ \A k \in 1 .. Len(rx) : rx'[k] = rx[k]
        /\ rx'[Len(rx) + 1] = [addr |-> frame, pkt |-> pkt] /\ UNCHANGED local
    BY RxProduced
  <2>. QED BY <2>1, Flow DEF local
<1>2. Unfreed' = Unfreed \cup {Len(rx) + 1}
  <2>. DEFINE i == user.i
              rcvd == user.rcvd
  <2>1. user.pc = "process" => i <= Len(rx)
    <3>1. user.pc = "process" => i <= rcvd /\ rx_known + rcvd <= Len(rx)
      BY DEF FlowInv, BatchInv, InBatch
    <3>2. rcvd \in Nat /\ rx_known \in Nat /\ i \in Nat
      BY Flow
    <3>. HIDE DEF i, rcvd
    <3>. QED BY <1>1, <3>1, <3>2
  <2>2. /\ Unfreed = IF user.pc = "process" THEN i + 1 .. Len(rx) ELSE 1 .. Len(rx)
        /\ Unfreed' = IF user.pc = "process" THEN i + 1 .. Len(rx') ELSE 1 .. Len(rx')
    BY <1>1 DEF Unfreed
  <2>3. i \in Nat
    BY <1>1
  <2>. HIDE DEF i
  <2>. QED BY <1>1, <2>1, <2>2, <2>3
<1>3. Unfreed \subseteq 1 .. Len(rx) /\ ~(Len(rx) + 1 \in 1 .. Len(rx))
  BY <1>1, UnfreedIs
<1>4. \A k \in Unfreed : rx'[k].addr = rx[k].addr /\ rx[k].addr # frame
  BY <1>1, <1>3, ReceivedIs
<1>5. Received' = Received \cup {frame}
  <2>1. \A f : f \in Received' <=> \E k \in Unfreed' : rx'[k].addr = f
    BY DEF Received
  <2>. QED BY <1>1, <1>2, <1>4, <2>1, ReceivedIs
<1>6. OnceReceived'
  BY <1>1, <1>2, <1>4 DEF OnceReceived
<1>. QED BY <1>1, <1>5, <1>6

(* The process posts the frames T at the top of its stack, and at least one *)
(* if there is one and there is room for it.                                *)
LEMMA TopPosted ==
  ASSUME FlowInv, PlacesInv, Restock
  PROVE  \E T \in SUBSET Free :
           /\ Posted' = Posted \cup T /\ Free' = Free \ T
           /\ OncePosted' /\ OnceFree'
           /\ Free # {} /\ Len(fq) < FQ_SIZE => T # {}
           /\ Free = {} => Len(fq') = Len(fq)
<1>. DEFINE s == Len(umem_frame_addr)
            l == Len(fq)
            stack == umem_frame_addr
<1>0. PICK n \in Nat :
         /\ IF s = 0 THEN n = 0 ELSE n = FQ_SIZE - l
         /\ Len(fq') = l + n
         /\ \A k \in 1 .. l : fq'[k] = fq[k]
         /\ \A k \in 1 .. n : fq'[l + k] =
              IF k <= s THEN stack[s - k + 1] ELSE INVALID_UMEM_FRAME
         /\ Len(stack') = s - Lesser(n, s)
         /\ \A k \in 1 .. Len(stack') : stack'[k] = stack[k]
  BY Restocked
<1>. DEFINE m == Lesser(n, s)
            T == {stack[s - d + 1] : d \in 1 .. m}
<1>1. l \in Nat /\ s \in Nat /\ \A k \in 1 .. s : stack[k] \in Frames
  BY Flow
<1>2. m \in Nat /\ m <= n /\ m <= s /\ (m = n \/ m = s)
  BY <1>1, LesserIs
<1>3. /\ \A f : f \in Posted <=> f \in Frames /\ \E k \in 1 .. l : fq[k] = f
      /\ \A f : f \in Free <=> \E k \in 1 .. s : stack[k] = f
      /\ \A f : f \in Posted' <=> f \in Frames /\ \E k \in 1 .. l + n : fq'[k] = f
      /\ \A f : f \in Free' <=> \E k \in 1 .. s - m : stack'[k] = f
  BY <1>0 DEF Posted, Free, Frames
<1>4. /\ \A j, k \in 1 .. l : fq[j] = fq[k] /\ fq[j] \in Frames => j = k
      /\ \A j, k \in 1 .. s : stack[j] = stack[k] => j = k
      /\ Posted \cap Free = {}
  BY DEF PlacesInv, OncePosted, OnceFree, Apart
<1>5. /\ \A k \in 1 .. s - m : stack'[k] = stack[k]
      /\ Len(stack') = s - m
  BY <1>0
<1>. HIDE DEF l, s, m, stack
<1>6. \A d \in 1 .. m : s - d + 1 \in 1 .. s /\ l + d \in 1 .. l + n /\ fq'[l + d] = stack[s - d + 1]
  BY <1>0, <1>1, <1>2
<1>7. \A k \in 1 .. l : fq'[k] = fq[k] /\ k \in 1 .. l + n
  BY <1>0, <1>1
(* A frame in an entry of the new ring was there or is one of the top ones. *)
<1>8. ASSUME NEW k \in 1 .. l + n, fq'[k] \in Frames, ~(k \in 1 .. l)
      PROVE  k - l \in 1 .. m /\ fq'[k] = stack[s - (k - l) + 1]
  <2>1. k - l \in 1 .. n /\ k = l + (k - l)
    BY <1>1, <1>8
  <2>2. k - l <= s
    BY <1>0, <1>8, <2>1 DEF Frames, INVALID_UMEM_FRAME
  <2>. DEFINE d == k - l
  <2>3. fq'[l + d] = stack[s - d + 1]
    BY <1>0, <2>1, <2>2
  <2>4. d \in 1 .. n /\ d <= s /\ k = l + d
    BY <2>1, <2>2
  <2>. HIDE DEF d
  <2>5. d \in 1 .. m
    BY <1>1, <1>2, <2>4
  <2>. QED BY <2>3, <2>4, <2>5 DEF d
<1>9. T \subseteq Free
  BY <1>3, <1>6
<1>10. Posted' = Posted \cup T
  <2>1. ASSUME NEW f \in Posted' PROVE f \in Posted \cup T
    <3>1. PICK k \in 1 .. l + n : fq'[k] = f /\ f \in Frames
      BY <1>3, <2>1
    <3>2. CASE k \in 1 .. l
      BY <1>3, <1>7, <3>1, <3>2
    <3>3. CASE ~(k \in 1 .. l)
      BY <1>8, <3>1, <3>3
    <3>. QED BY <3>2, <3>3
  <2>2. ASSUME NEW f \in Posted PROVE f \in Posted'
    BY <1>3, <1>7, <2>2
  <2>3. ASSUME NEW d \in 1 .. m PROVE stack[s - d + 1] \in Posted'
    BY <1>1, <1>3, <1>6
  <2>. QED BY <2>1, <2>2, <2>3
<1>11. OncePosted'
  <2>. SUFFICES ASSUME NEW j \in 1 .. l + n, NEW k \in 1 .. l + n,
                       fq'[j] = fq'[k], fq'[j] \in Frames
                PROVE  j = k
    BY <1>0 DEF OncePosted, Frames, l
  <2>1. CASE j \in 1 .. l /\ k \in 1 .. l
    BY <1>4, <1>7, <2>1
  <2>2. CASE j \in 1 .. l /\ ~(k \in 1 .. l)
    BY <1>3, <1>4, <1>6, <1>7, <1>8, <2>2
  <2>3. CASE ~(j \in 1 .. l) /\ k \in 1 .. l
    BY <1>3, <1>4, <1>6, <1>7, <1>8, <2>3
  <2>4. CASE ~(j \in 1 .. l) /\ ~(k \in 1 .. l)
    <3>1. /\ j - l \in 1 .. m /\ k - l \in 1 .. m
          /\ stack[s - (j - l) + 1] = stack[s - (k - l) + 1]
      BY <1>8, <2>4
    <3>2. s - (j - l) + 1 = s - (k - l) + 1
      BY <1>4, <1>6, <3>1
    <3>. QED BY <1>1, <3>2
  <2>. QED BY <2>1, <2>2, <2>3, <2>4
<1>12. Free' = Free \ T
  <2>1. \A k \in 1 .. s - m : k \in 1 .. s /\ \A d \in 1 .. m : k # s - d + 1
    BY <1>1, <1>2
  <2>2. ASSUME NEW f \in Free' PROVE f \in Free \ T
    BY <1>3, <1>4, <1>5, <1>6, <2>1, <2>2
  <2>3. ASSUME NEW f \in Free, f \notin T PROVE f \in Free'
    <3>1. PICK k \in 1 .. s : stack[k] = f
      BY <1>3, <2>3
    <3>2. CASE k \in 1 .. s - m
      BY <1>3, <1>5, <3>1, <3>2
    <3>3. CASE ~(k \in 1 .. s - m)
      <4>1. s - k + 1 \in 1 .. m /\ s - (s - k + 1) + 1 = k
        BY <1>1, <1>2, <3>3
      <4>. QED BY <2>3, <3>1, <4>1
    <3>. QED BY <3>2, <3>3
  <2>. QED BY <2>2, <2>3
<1>13. OnceFree'
  <2>1. \A j, k \in 1 .. s - m : stack'[j] = stack'[k] => j = k
    BY <1>1, <1>2, <1>4, <1>5
  <2>. QED BY <1>5, <2>1 DEF OnceFree, stack
<1>14. Free # {} /\ l < FQ_SIZE => T # {}
  <2>. SUFFICES ASSUME Free # {}, l < FQ_SIZE PROVE T # {}
    OBVIOUS
  <2>1. s # 0
    BY <1>3
  <2>2. 1 \in 1 .. m
    BY <1>0, <1>1, <1>2, <2>1, Sizes
  <2>. QED BY <2>2
<1>15. Free = {} => Len(fq') = l
  <2>. SUFFICES ASSUME Free = {} PROVE Len(fq') = l
    OBVIOUS
  <2>1. ~(1 \in 1 .. s)
    BY <1>3
  <2>. QED BY <1>0, <1>1, <2>1
<1>. QED BY <1>9, <1>10, <1>11, <1>12, <1>13, <1>14, <1>15 DEF l

(* The frame of the next entry goes to the stack.                           *)
LEMMA FirstFreed ==
  ASSUME FlowInv, PlacesInv, process_packet
  PROVE  \E frame \in Received :
           /\ Received' = Received \ {frame} /\ Free' = Free \cup {frame}
           /\ OnceReceived' /\ OnceFree'
<1>. DEFINE i == user.i
            s == Len(umem_frame_addr)
            frame == rx[i + 1].addr
<1>0. /\ user.pc = "process" /\ i + 1 \in 1 .. Len(rx)
      /\ Len(umem_frame_addr') = s + 1
      /\ \A k \in 1 .. s : umem_frame_addr'[k] = umem_frame_addr[k]
      /\ umem_frame_addr'[s + 1] = frame
      /\ user' = [user EXCEPT !.i = i + 1] /\ UNCHANGED rx
  BY Processed DEF process_packet, socket
<1>1. i \in Nat /\ s \in Nat /\ Len(rx) \in Nat
  BY Flow
<1>2. user'.pc = "process" /\ user'.i = i + 1
  BY <1>0, FlowTypes DEF UserType
<1>3. Unfreed = i + 1 .. Len(rx) /\ Unfreed' = (i + 1) + 1 .. Len(rx)
  BY <1>0, <1>2 DEF Unfreed
<1>4. \A j, k \in Unfreed : rx[j].addr = rx[k].addr => j = k
  BY DEF PlacesInv, OnceReceived
<1>5. /\ \A f : f \in Free <=> \E k \in 1 .. s : umem_frame_addr[k] = f
      /\ \A f : f \in Free' <=> \E k \in 1 .. s + 1 : umem_frame_addr'[k] = f
  BY <1>0 DEF Free
<1>6. /\ \A f : f \in Received <=> \E k \in Unfreed : rx[k].addr = f
      /\ \A f : f \in Received' <=> \E k \in Unfreed' : rx[k].addr = f
  BY <1>0 DEF Received
<1>7. /\ \A j, k \in 1 .. s : umem_frame_addr[j] = umem_frame_addr[k] => j = k
      /\ Received \cap Free = {}
  BY DEF PlacesInv, OnceFree, Apart
<1>8. frame = rx[i + 1].addr
  OBVIOUS
<1>. HIDE DEF frame, i, s
<1>9. i + 1 \in Unfreed /\ Unfreed' = Unfreed \ {i + 1}
  BY <1>0, <1>1, <1>3
<1>10. frame \in Received
  BY <1>6, <1>8, <1>9
<1>11. Received' = Received \ {frame}
  BY <1>4, <1>6, <1>8, <1>9
<1>12. OnceReceived'
  BY <1>0, <1>4, <1>9 DEF OnceReceived
<1>13. \A k \in 1 .. s + 1 : k \in 1 .. s \/ k = s + 1
  BY <1>1
<1>14. s + 1 \in 1 .. s + 1 /\ \A k \in 1 .. s : k \in 1 .. s + 1
  BY <1>1
<1>15. Free' = Free \cup {frame}
  BY <1>0, <1>5, <1>13, <1>14
<1>16. \A k \in 1 .. s : umem_frame_addr[k] # frame
  BY <1>5, <1>7, <1>10
<1>17. OnceFree'
  <2>1. \A j, k \in 1 .. s + 1 : umem_frame_addr'[j] = umem_frame_addr'[k] => j = k
    BY <1>0, <1>7, <1>13, <1>16
  <2>. QED BY <1>0, <2>1 DEF OnceFree
<1>. QED BY <1>10, <1>11, <1>12, <1>15, <1>17

(* Release gives back entries whose frames are freed already.               *)
LEMMA NothingUnfreed ==
  ASSUME FlowInv, PlacesInv, Release
  PROVE  Received' = Received /\ OnceReceived'
<1>. DEFINE r == user.rcvd
            l == Len(rx)
<1>0. /\ user.pc = "process" /\ user.i = r /\ r <= l
      /\ Len(rx') = l - r /\ \A k \in 1 .. Len(rx') : rx'[k] = rx[r + k]
      /\ user' = [user EXCEPT !.pc = "peek"]
  BY Released
<1>1. r \in Nat /\ l \in Nat
  BY Flow
<1>2. user'.pc = "peek"
  BY <1>0, FlowTypes DEF UserType
<1>3. Unfreed = r + 1 .. l /\ Unfreed' = 1 .. l - r
  BY <1>0, <1>2 DEF Unfreed
<1>4. \A j, k \in Unfreed : rx[j].addr = rx[k].addr => j = k
  BY DEF PlacesInv, OnceReceived
<1>. HIDE DEF r, l
<1>5. \A k \in 1 .. l - r : rx'[k] = rx[r + k] /\ r + k \in r + 1 .. l
  BY <1>0, <1>1
<1>6. \A k \in r + 1 .. l : k - r \in 1 .. l - r /\ r + (k - r) = k
  BY <1>1
<1>7. \A f : f \in Received' <=> \E k \in Unfreed' : rx'[k].addr = f
  BY DEF Received
<1>8. \A k \in r + 1 .. l : rx'[k - r] = rx[k]
  BY <1>5, <1>6
<1>9. \A f : f \in Received <=> f \in Received'
  BY <1>3, <1>5, <1>6, <1>7, <1>8, ReceivedIs
<1>10. OnceReceived'
  <2>. SUFFICES ASSUME NEW j \in 1 .. l - r, NEW k \in 1 .. l - r, rx'[j].addr = rx'[k].addr
                PROVE  j = k
    BY <1>3 DEF OnceReceived
  <2>1. r + j = r + k
    BY <1>3, <1>4, <1>5
  <2>. QED BY <1>1, <2>1
<1>. QED BY <1>9, <1>10

(* What does not touch the rings, the stack and the frames kept.            *)
LEMMA PlacesStutter ==
  ASSUME PlacesInv, UNCHANGED <<fq, rx, held, umem_frame_addr>>, Unfreed' = Unfreed
  PROVE  PlacesInv'
<1>1. /\ UNCHANGED <<Posted, Received, Free>>
      /\ OncePosted' /\ OnceReceived' /\ OnceFree'
  BY DEF PlacesInv, Posted, Received, Free, OncePosted, OnceReceived, OnceFree, Frames
<1>. QED BY <1>1 DEF PlacesInv, Apart, Frames

LEMMA PlacesStep == FlowInv /\ PlacesInv /\ [Next]_vars => PlacesInv'
<1>. SUFFICES ASSUME FlowInv, PlacesInv, [Next]_vars PROVE PlacesInv'
  OBVIOUS
<1>0. /\ Apart(held, Posted, Received, Free)
      /\ OncePosted /\ OnceReceived /\ OnceFree /\ user \in UserType
  BY FlowTypes DEF PlacesInv
<1>1. CASE DriverTakes \/ SkipInvalid
  <2>1. /\ fq # <<>> /\ fq' = Tail(fq) /\ UNCHANGED <<rx, umem_frame_addr, user>>
        /\ \/ Head(fq) \in Frames /\ held' = held \cup {Head(fq)}
           \/ Head(fq) \notin Frames /\ held' = held
    BY <1>1 DEF DriverTakes, SkipInvalid, local
  <2>2. /\ Posted' = Posted \ {Head(fq)} /\ OncePosted'
        /\ Head(fq) \in Frames => Head(fq) \in Posted
    BY <1>0, <2>1, FirstTaken
  <2>3. UNCHANGED <<Received, Free>> /\ OnceReceived' /\ OnceFree'
    BY <1>0, <2>1 DEF Received, Free, Unfreed, OnceReceived, OnceFree
  <2>4. Posted \subseteq Frames
    BY PostedIs
  <2>5. Apart(held', Posted', Received', Free')
    BY <1>0, <2>1, <2>2, <2>3, <2>4 DEF Apart
  <2>. QED BY <2>2, <2>3, <2>5 DEF PlacesInv, Apart, Frames
<1>2. CASE RedirectCopied
  <2>1. /\ fq # <<>> /\ Head(fq) \in Frames /\ Redirect(Head(fq)) /\ fq' = Tail(fq)
        /\ UNCHANGED held
    BY <1>2 DEF RedirectCopied
  <2>2. Posted' = Posted \ {Head(fq)} /\ OncePosted' /\ Head(fq) \in Posted
    BY <1>0, <2>1, FirstTaken
  <2>3. Head(fq) \notin Received
    BY <1>0, <2>2 DEF Apart
  <2>4. /\ Received' = Received \cup {Head(fq)} /\ OnceReceived'
        /\ UNCHANGED umem_frame_addr
    BY <1>0, <2>1, <2>3, LastReceived
  <2>5. Free' = Free /\ OnceFree'
    BY <1>0, <2>4 DEF Free, OnceFree
  <2>6. Apart(held', Posted', Received', Free')
    BY <1>0, <2>1, <2>2, <2>4, <2>5 DEF Apart
  <2>. QED BY <2>2, <2>4, <2>5, <2>6 DEF PlacesInv, Apart, Frames
<1>3. CASE RedirectHeld
  <2>1. PICK frame \in held : Redirect(frame) /\ held' = held \ {frame} /\ UNCHANGED fq
    BY <1>3 DEF RedirectHeld
  <2>2. frame \in Frames /\ frame \notin Received
    BY <1>0 DEF Apart
  <2>3. Received' = Received \cup {frame} /\ OnceReceived' /\ UNCHANGED umem_frame_addr
    BY <1>0, <2>1, <2>2, LastReceived
  <2>4. Free' = Free /\ OnceFree' /\ Posted' = Posted /\ OncePosted'
    BY <1>0, <2>1, <2>3 DEF Free, OnceFree, Posted, OncePosted, Frames
  <2>5. Apart(held', Posted', Received', Free')
    BY <1>0, <2>1, <2>3, <2>4 DEF Apart
  <2>. QED BY <2>3, <2>4, <2>5 DEF PlacesInv, Apart, Frames
<1>4. CASE Restock
  <2>1. PICK T \in SUBSET Free :
           Posted' = Posted \cup T /\ Free' = Free \ T /\ OncePosted' /\ OnceFree'
    BY <1>4, TopPosted
  <2>2. user.pc = "stock" /\ user'.pc = "process" /\ user'.i = user.i /\ UNCHANGED <<rx, held>>
    BY <1>0, <1>4 DEF Restock, UserType
  <2>3. user.i = 0
    BY <2>2 DEF FlowInv, BatchInv
  <2>4. Unfreed' = Unfreed
    BY <2>2, <2>3 DEF Unfreed
  <2>5. Received' = Received /\ OnceReceived'
    BY <1>0, <2>2, <2>4 DEF Received, OnceReceived
  <2>6. Apart(held', Posted', Received', Free')
    BY <1>0, <2>1, <2>2, <2>5 DEF Apart
  <2>. QED BY <2>1, <2>5, <2>6 DEF PlacesInv, Apart, Frames
<1>5. CASE process_packet
  <2>1. PICK frame \in Received :
           /\ Received' = Received \ {frame} /\ Free' = Free \cup {frame}
           /\ OnceReceived' /\ OnceFree'
    BY <1>5, FirstFreed
  <2>2. UNCHANGED <<fq, held>>
    BY <1>5 DEF process_packet, socket
  <2>3. Posted' = Posted /\ OncePosted'
    BY <1>0, <2>2 DEF Posted, OncePosted, Frames
  <2>4. Apart(held', Posted', Received', Free')
    BY <1>0, <2>1, <2>2, <2>3 DEF Apart
  <2>. QED BY <2>1, <2>3, <2>4 DEF PlacesInv, Apart, Frames
<1>6. CASE Release
  <2>1. Received' = Received /\ OnceReceived'
    BY <1>6, NothingUnfreed
  <2>2. UNCHANGED <<fq, held, umem_frame_addr>>
    BY <1>6 DEF Release
  <2>3. Posted' = Posted /\ OncePosted' /\ Free' = Free /\ OnceFree'
    BY <1>0, <2>2 DEF Posted, OncePosted, Free, OnceFree, Frames
  <2>4. Apart(held', Posted', Received', Free')
    BY <1>0, <2>1, <2>2, <2>3 DEF Apart
  <2>. QED BY <2>1, <2>3, <2>4 DEF PlacesInv, Apart, Frames
<1>7. CASE Peek \/ ExportUser \/ ExportKern \/ Detach
  <2>1. UNCHANGED <<fq, rx, held, umem_frame_addr>>
    BY <1>7 DEF Peek, ExportUser, ExportKern, Detach, socket
  <2>2. user.pc # "process" /\ user'.pc # "process"
    <3>1. CASE Peek
      <4>1. user.pc = "peek"
        BY <3>1 DEF Peek
      <4>. QED BY <3>1, <4>1, FlowPeek
    <3>2. CASE ExportUser \/ ExportKern \/ Detach
      BY <3>2, FlowExport
    <3>. QED BY <1>7, <3>1, <3>2
  <2>3. Unfreed' = Unfreed
    BY <2>1, <2>2 DEF Unfreed
  <2>. QED BY <2>1, <2>3, PlacesStutter
<1>8. CASE \/ ProgPassesUnknown \/ xdp_sock_prog \/ OtherQueue \/ RedirectFails
           \/ exit_application \/ UNCHANGED vars
  <2>1. UNCHANGED <<fq, rx, held, umem_frame_addr, user>>
    BY <1>8 DEF ProgPassesUnknown, xdp_sock_prog, OtherQueue, RedirectFails,
       exit_application, vars, socket, local
  <2>2. Unfreed' = Unfreed
    BY <2>1 DEF Unfreed
  <2>. QED BY <2>1, <2>2, PlacesStutter
<1>. QED BY <1>1, <1>2, <1>3, <1>4, <1>5, <1>6, <1>7, <1>8
     DEF Next, kernel, main, handle_receive_packets

LEMMA PlacesInvariant == Spec => []PlacesInv
<1>1. Init => PlacesInv
  BY InitFlow, PlacesInit
<1>. QED BY <1>1, PlacesStep, FlowInvariant, PTL DEF Spec

LEMMA OneOrNone ==
  ASSUME NEW S, \A j, k \in S : j = k
  PROVE  Cardinality(S) = IF S = {} THEN 0 ELSE 1
<1>1. CASE S = {}
  BY <1>1, FS_EmptySet
<1>2. CASE S # {}
  <2>1. PICK k : S = {k}
    BY <1>2
  <2>. QED BY <1>2, <2>1, FS_Singleton
<1>. QED BY <1>1, <1>2

(* Each frame is posted, or holds a packet, or is kept by the kernel, or is *)
(* free, and only one of these, however the two sides interleave.           *)
THEOREM FramesConserved == Spec => []FrameInOnePlace
<1>1. ASSUME FlowInv, PlacesInv PROVE FrameInOnePlace
  <2>. SUFFICES ASSUME NEW f \in Frames PROVE Places(f) = 1
    BY DEF FrameInOnePlace
  <2>. DEFINE P == {k \in DOMAIN fq : fq[k] = f}
              R == {k \in Unfreed : rx[k].addr = f}
              F == {k \in DOMAIN umem_frame_addr : umem_frame_addr[k] = f}
  <2>0. fq \in Seq(Addrs) /\ umem_frame_addr \in Seq(Frames)
    BY <1>1 DEF FlowInv, XskType, Addrs
  <2>1. DOMAIN fq = 1 .. Len(fq) /\ DOMAIN umem_frame_addr = 1 .. Len(umem_frame_addr)
    BY <2>0, LenProperties
  <2>2. /\ Apart(held, Posted, Received, Free) /\ OncePosted /\ OnceReceived /\ OnceFree
    BY <1>1 DEF PlacesInv
  <2>3. Cardinality(P) = IF f \in Posted THEN 1 ELSE 0
    <3>1. \A j, k \in P : j = k
      BY <2>1, <2>2 DEF OncePosted
    <3>2. P = {} <=> f \notin Posted
      BY <2>1, PostedIs
    <3>. HIDE DEF P
    <3>. QED BY <3>1, <3>2, OneOrNone
  <2>4. Cardinality(R) = IF f \in Received THEN 1 ELSE 0
    <3>1. \A j, k \in R : j = k
      BY <2>2 DEF OnceReceived
    <3>2. R = {} <=> f \notin Received
      BY ReceivedIs
    <3>. HIDE DEF R
    <3>. QED BY <3>1, <3>2, OneOrNone
  <2>5. Cardinality(F) = IF f \in Free THEN 1 ELSE 0
    <3>1. \A j, k \in F : j = k
      BY <2>1, <2>2 DEF OnceFree
    <3>2. F = {} <=> f \notin Free
      BY <2>1, FreeIs
    <3>. HIDE DEF F
    <3>. QED BY <3>1, <3>2, OneOrNone
  <2>6. Places(f) = Cardinality(P) + Cardinality(R) + Cardinality(F)
                      + (IF f \in held THEN 1 ELSE 0)
    BY DEF Places
  <2>. HIDE DEF P, R, F
  <2>. QED BY <2>2, <2>3, <2>4, <2>5, <2>6 DEF Apart
<1>. QED BY <1>1, PlacesInvariant, FlowInvariant, PTL

-----------------------------------------------------------------------------
(* The socket never goes deaf. *)

(* rx alone cannot hold all frames.                                         *)
LEMMA SomeElsewhere ==
  ASSUME FlowInv, PlacesInv
  PROVE  held # {} \/ Posted # {} \/ Free # {}
<1>. SUFFICES ASSUME held = {}, Posted = {}, Free = {} PROVE FALSE
  OBVIOUS
<1>1. Received = Frames
  BY DEF PlacesInv, Apart
<1>2. Len(rx) \in 0 .. RX_SIZE /\ Unfreed \subseteq 1 .. Len(rx)
  BY Flow, UnfreedIs
<1>3. /\ IsFiniteSet(1 .. Len(rx)) /\ Cardinality(1 .. Len(rx)) = Len(rx)
  <2>1. 1 \in Int /\ Len(rx) \in Int /\ Len(rx) >= 0
    BY <1>2, Sizes
  <2>. DEFINE l == Len(rx)
  <2>2. /\ IsFiniteSet(1 .. l)
        /\ Cardinality(1 .. l) = IF 1 > l THEN 0 ELSE l - 1 + 1
    BY <2>1, FS_Interval
  <2>. HIDE DEF l
  <2>3. l \in Nat => Cardinality(1 .. l) = l
    BY <2>2
  <2>. QED BY <1>2, <2>2, <2>3, Sizes DEF l
<1>4. IsFiniteSet(Unfreed) /\ Cardinality(Unfreed) <= Len(rx) /\ Cardinality(Unfreed) \in Nat
  BY <1>2, <1>3, FS_Subset, FS_CardinalityType
<1>5. IsFiniteSet(Frames) /\ Cardinality(Frames) = NUM_FRAMES
  <2>1. NUM_FRAMES \in Nat \ {0} /\ 0 \in Int /\ NUM_FRAMES - 1 \in Int
    BY Sizes
  <2>. DEFINE top == NUM_FRAMES - 1
  <2>2. /\ IsFiniteSet(0 .. top)
        /\ Cardinality(0 .. top) = IF 0 > top THEN 0 ELSE top - 0 + 1
    BY <2>1, FS_Interval
  <2>. QED BY <2>1, <2>2 DEF Frames
<1>6. Cardinality(Frames) <= Cardinality(Unfreed)
  <2>. DEFINE addr == [k \in Unfreed |-> rx[k].addr]
  <2>1. addr \in [Unfreed -> Frames]
    BY <1>1 DEF Received
  <2>2. \A f \in Frames : \E k \in Unfreed : addr[k] = f
    BY <1>1 DEF Received
  <2>3. addr \in Surjection(Unfreed, Frames)
    BY <2>1, <2>2 DEF Surjection
  <2>. QED BY <1>4, <2>3, FS_Surjection
<1>. QED BY <1>2, <1>4, <1>5, <1>6, Sizes

(* Steps after which the kernel has still a frame if it had one.            *)
LEMMA DeafKept ==
  ASSUME DeafInv, UNCHANGED <<fq, held>>,
         user'.pc = "peek" /\ rx' = <<>> =>
           \/ user.pc = "peek" /\ rx = <<>>
           \/ user.pc = "process" /\ Len(rx) = user.rcvd,
         user'.pc = "process" /\ Len(rx') = user'.rcvd =>
           user.pc = "process" /\ Len(rx) = user.rcvd
  PROVE  DeafInv'
<1>1. Posted' = Posted
  BY DEF Posted, Frames
<1>. QED BY <1>1 DEF DeafInv

LEMMA DeafStep == FlowInv /\ PlacesInv /\ DeafInv /\ [Next]_vars => DeafInv'
<1>. SUFFICES ASSUME FlowInv, PlacesInv, DeafInv, [Next]_vars PROVE DeafInv'
  OBVIOUS
<1>0. /\ user \in UserType /\ Len(fq) \in 0 .. FQ_SIZE /\ Len(rx) \in Nat /\ OncePosted
      /\ FlowInv'
  BY FlowTypes, Flow, FlowStep, Sizes DEF PlacesInv
<1>1. CASE DriverTakes \/ SkipInvalid
  <2>1. /\ fq # <<>> /\ fq' = Tail(fq) /\ UNCHANGED <<rx, user>>
        /\ \/ held' = held \cup {Head(fq)}
           \/ Head(fq) \notin Frames /\ held' = held
    BY <1>1 DEF DriverTakes, SkipInvalid, local
  <2>2. Len(fq') = Len(fq) - 1 /\ Posted' = Posted \ {Head(fq)}
    BY <1>0, <2>1, FqConsumed, FirstTaken
  <2>3. Len(fq') # FQ_SIZE
    BY <1>0, <2>2, Sizes
  <2>4. Head(fq) \notin Frames => Posted' = Posted
    BY <2>2, PostedIs
  <2>5. held # {} \/ Posted # {} => held' # {} \/ Posted' # {}
    BY <2>1, <2>4
  <2>. QED BY <2>1, <2>3, <2>5 DEF DeafInv
<1>2. CASE RedirectCopied \/ RedirectHeld
  <2>1. PICK frame \in Frames : Redirect(frame)
    BY <1>2, Redirects
  <2>2. Len(rx') = Len(rx) + 1 /\ UNCHANGED user /\ rx' \in Seq(Descs(arrivals))
    BY <2>1, RxProduced DEF local
  <2>3. rx' # <<>>
    BY <1>0, <2>2
  <2>4. user.pc = "process" => Len(rx') # user.rcvd
    <3>. DEFINE r == user.rcvd
    <3>1. user.pc = "process" => rx_known + r <= Len(rx)
      BY DEF FlowInv, BatchInv, InBatch
    <3>2. r \in Nat /\ rx_known \in Nat
      BY Flow
    <3>. HIDE DEF r
    <3>3. user.pc = "process" => Len(rx') # r
      BY <1>0, <2>2, <3>1, <3>2
    <3>. QED BY <3>3 DEF r
  <2>5. Len(fq') = FQ_SIZE => Posted' # {}
    <3>1. CASE RedirectCopied
      <4>1. fq # <<>> /\ fq' = Tail(fq)
        BY <3>1 DEF RedirectCopied
      <4>. QED BY <1>0, <4>1, FqConsumed, Sizes
    <3>2. CASE RedirectHeld
      <4>1. fq' = fq
        BY <3>2 DEF RedirectHeld
      <4>. QED BY <4>1 DEF DeafInv, Posted, Frames
    <3>. QED BY <1>2, <3>1, <3>2
  <2>. QED BY <2>2, <2>3, <2>4, <2>5 DEF DeafInv
<1>3. CASE Restock
  <2>1. PICK T \in SUBSET Free :
           /\ Posted' = Posted \cup T
           /\ Free # {} /\ Len(fq) < FQ_SIZE => T # {}
           /\ Free = {} => Len(fq') = Len(fq)
    BY <1>3, TopPosted
  <2>2. user'.pc = "process" /\ UNCHANGED held
    BY <1>0, <1>3 DEF Restock, UserType
  <2>3. Len(fq) = FQ_SIZE => Posted # {}
    BY DEF DeafInv
  <2>4. Len(fq') = FQ_SIZE => Posted' # {}
    BY <1>0, <2>1, <2>3, Sizes
  <2>5. held' # {} \/ Posted' # {}
    BY <1>0, <2>1, <2>2, <2>3, SomeElsewhere, Sizes
  <2>. QED BY <2>4, <2>5 DEF DeafInv
<1>4. CASE Release
  <2>1. /\ user.pc = "process" /\ user.i = user.rcvd /\ Len(rx') = Len(rx) - user.rcvd
        /\ user'.pc = "peek" /\ UNCHANGED <<fq, held>>
    <3>1. user' = [user EXCEPT !.pc = "peek"] /\ UNCHANGED <<fq, held>>
      BY <1>4 DEF Release
    <3>. QED BY <1>0, <1>4, <3>1, Released DEF UserType
  <2>2. rx' = <<>> => Len(rx) = user.rcvd
    <3>. DEFINE r == user.rcvd
    <3>1. r \in Nat /\ Len(rx') = Len(rx) - r
      BY <2>1, Flow
    <3>. HIDE DEF r
    <3>2. rx' = <<>> => Len(rx) = r
      BY <1>0, <3>1
    <3>. QED BY <3>2 DEF r
  <2>. QED BY <2>1, <2>2, DeafKept
<1>5. CASE process_packet
  <2>1. UNCHANGED <<fq, rx, held>> /\ user' = [user EXCEPT !.i = user.i + 1] /\ user.pc = "process"
    BY <1>5 DEF process_packet, socket
  <2>2. user'.pc = "process" /\ user'.rcvd = user.rcvd
    BY <1>0, <2>1 DEF UserType
  <2>. QED BY <2>1, <2>2, DeafKept
<1>6. CASE Peek \/ ExportUser \/ ExportKern \/ Detach
  <2>1. UNCHANGED <<fq, rx, held>>
    BY <1>6 DEF Peek, ExportUser, ExportKern, Detach, socket
  <2>2. user'.pc \notin {"peek", "process"}
    BY <1>6, FlowPeek, FlowExport
  <2>. QED BY <2>1, <2>2, DeafKept
<1>7. CASE \/ ProgPassesUnknown \/ xdp_sock_prog \/ OtherQueue \/ RedirectFails
           \/ exit_application \/ UNCHANGED vars
  <2>1. UNCHANGED <<fq, rx, held, user>>
    BY <1>7 DEF ProgPassesUnknown, xdp_sock_prog, OtherQueue, RedirectFails,
       exit_application, vars, socket, local
  <2>. QED BY <2>1, DeafKept
<1>. QED BY <1>1, <1>2, <1>3, <1>4, <1>5, <1>6, <1>7
     DEF Next, kernel, main, handle_receive_packets

(* When the process has nothing to receive the kernel has a frame to        *)
(* receive into, though only a receipt makes the process post frames.       *)
THEOREM SocketNotDeaf == Spec => []NeverDeaf
<1>1. ASSUME FlowInv, DeafInv PROVE NeverDeaf
  <2>1. fq \in Seq(Addrs)
    BY <1>1 DEF FlowInv, XskType, Addrs
  <2>2. DOMAIN fq = 1 .. Len(fq)
    BY <2>1, LenProperties
  <2>3. Posted # {} => \E k \in DOMAIN fq : fq[k] \in Frames
    BY <2>2, PostedIs
  <2>. QED BY <1>1, <2>3 DEF DeafInv, NeverDeaf
<1>2. Init => DeafInv
  BY InitFlow, PlacesInit
<1>. QED BY <1>1, <1>2, DeafStep, PlacesInvariant, FlowInvariant, PTL DEF Spec
=============================================================================
