------------------------- MODULE DraftCaches_proofs -------------------------
(***************************************************************************)
(* The two drafts' caches, for any number of slots, batch, log and uids:   *)
(* whose the stamps are, and what is lost.                                 *)
(***************************************************************************)
EXTENDS DraftCaches, FiniteSetTheorems, TLAPS

LEMMA RingStep ==
  ASSUME Sizes, NEW i \in Slots, NEW j, j = (i + 1) % MAX_PKT
  PROVE  /\ j \in Slots
         /\ \A s \in Slots : Back(s, i) \in 1 .. MAX_PKT
         /\ \A s \in Slots : s # i => Back(s, i) < MAX_PKT /\ Back(s, j) = Back(s, i) + 1
         /\ Back(i, i) = MAX_PKT /\ Back(i, j) = 1
<1>1. MAX_PKT \in Nat \ {0} /\ i \in 0 .. MAX_PKT - 1
  BY DEF Sizes, Slots
<1>2. j = IF i = MAX_PKT - 1 THEN 0 ELSE i + 1
  <2>1. CASE i = MAX_PKT - 1
    <3>1. (i + 1) % MAX_PKT = 0
      BY <1>1, <2>1, SMT
    <3>. QED BY <2>1, <3>1
  <2>2. CASE i < MAX_PKT - 1
    <3>1. (i + 1) % MAX_PKT = i + 1
      BY <1>1, <2>2, SMT
    <3>. QED BY <1>1, <2>2, <3>1
  <2>. QED BY <1>1, <2>1, <2>2
<1>3. j \in Slots
  BY <1>1, <1>2 DEF Slots
<1>4. ASSUME NEW s \in Slots
      PROVE  /\ Back(s, i) \in 1 .. MAX_PKT
             /\ s # i => Back(s, i) < MAX_PKT /\ Back(s, j) = Back(s, i) + 1
  <2>1. s \in 0 .. MAX_PKT - 1
    BY DEF Slots
  <2>. QED BY <1>1, <1>2, <2>1 DEF Back
<1>5. Back(i, i) = MAX_PKT /\ Back(i, j) = 1
  BY <1>1, <1>2 DEF Back
<1>. QED BY <1>3, <1>4, <1>5

LEMMA InitInv == Sizes /\ Init => DraftInv
<1>. SUFFICES ASSUME Sizes, Init PROVE DraftInv
  OBVIOUS
<1>1. /\ draft \in {"legacy", "temp"} /\ uid = <<>>
      /\ slot = [s \in Slots |-> 0] /\ current_index = 0 /\ count_pkt_overflow = 0
      /\ log = [u \in LogUids |-> 0] /\ user_log = [u \in LogUids |-> 0]
      /\ rx = NoRx /\ rd = NoRd
      /\ stored = {} /\ handed = {} /\ short = {} /\ full = {}
  BY DEF Init, Sizes
<1>2. 0 \in Slots /\ 0 \in 0 .. MAX_PKT /\ Come = {} /\ Len(uid) = 0
  BY <1>1 DEF Sizes, Slots, Come
<1>3. TypeOK
  BY <1>1, <1>2 DEF TypeOK, NoRx, NoRd
<1>4. HandlerInv /\ SearchInv
  BY <1>1, <1>2 DEF HandlerInv, SearchInv, NoRx
<1>5. ReaderInv
  <2>1. rd.copied = <<>> /\ rd.at = "idle" /\ rd.got = {} /\ Len(rd.copied) = 0
        /\ DOMAIN rd.copied = {}
    BY <1>1 DEF NoRd
  <2>. QED BY <1>1, <2>1 DEF ReaderInv
<1>6. StampInv
  BY <1>1 DEF StampInv
<1>7. LostOnlyWhenFull
  <2>1. Gone = {}
    BY <1>2 DEF Gone, Come
  <2>2. Cardinality({}) = 0
    BY FS_EmptySet
  <2>. QED BY <1>1, <2>1, <2>2 DEF LostOnlyWhenFull
<1>. QED BY <1>3, <1>4, <1>5, <1>6, <1>7 DEF DraftInv

(* Nothing is lost if what had come and was kept, or was in the handler's   *)
(* hands, is so still.                                                      *)
LEMMA SameLost ==
  ASSUME LostOnlyWhenFull, draft' = draft, count_pkt_overflow' = count_pkt_overflow,
         full \subseteq full', short \subseteq short', Gone' = Gone
  PROVE  LostOnlyWhenFull'
  BY DEF LostOnlyWhenFull

-----------------------------------------------------------------------------
(* The handler.                                                             *)

LEMMA RxEnterInv == Sizes /\ DraftInv /\ RxEnter => DraftInv'
<1>. SUFFICES ASSUME Sizes, DraftInv, RxEnter PROVE DraftInv'
  OBVIOUS
<1>. USE DEF DraftInv
<1>1. PICK u \in Uids \ Elements(uid) : uid' = Append(uid, u)
  BY DEF RxEnter
<1>2. /\ rx.at = "idle"
      /\ rx' = [at |-> "search", pkt |-> Len(uid) + 1, try |-> 0, index |-> First]
      /\ full' = IF \E s \in Slots : slot[s] = 0 THEN full ELSE full \cup {Len(uid) + 1}
      /\ UNCHANGED <<draft, slot, current_index, count_pkt_overflow, log, user_log, rd,
                     stored, handed, short>>
  BY DEF RxEnter, cache
<1>3. uid \in Seq(Uids) /\ Len(uid) \in Nat
  BY DEF TypeOK
<1>. DEFINE n == Len(uid) + 1
<1>4. /\ uid' \in Seq(Uids) /\ Len(uid') = n /\ Come' = Come \cup {n} /\ n \notin Come
      /\ n \in Nat \ {0} /\ \A p \in Come : uid'[p] = uid[p] /\ p \in Nat \ {0}
      /\ uid'[n] = u /\ Come = 1 .. Len(uid)
  BY <1>1, <1>3 DEF Come
<1>5. First \in Slots /\ 0 \in 0 .. MAX_PKT
  BY DEF First, TypeOK, Sizes, Slots
<1>6. /\ rx'.at = "search" /\ rx'.pkt = n /\ rx'.try = 0 /\ rx'.index = First
      /\ rx' \in [at : {"idle", "search", "advance", "stamp"}, pkt : Nat,
                  try : 0 .. MAX_PKT, index : Slots]
  BY <1>2, <1>4, <1>5
<1>. HIDE DEF n
<1>7. TypeOK'
  <2>1. stored' \subseteq Come' /\ handed' \subseteq stored' /\ short' \subseteq stored'
    BY <1>2, <1>4 DEF TypeOK
  <2>. QED BY <1>2, <1>4, <1>6, <2>1 DEF TypeOK
<1>8. HandlerInv'
  <2>1. \A p \in Come : uid[p] # u
    BY <1>1 DEF Elements, Come
  <2>2. \A p, q \in Come' : uid'[p] = uid'[q] => p = q
    BY <1>4, <2>1 DEF HandlerInv
  <2>3. n \notin stored
    BY <1>4 DEF TypeOK
  <2>. QED BY <1>2, <1>4, <1>6, <2>2, <2>3 DEF HandlerInv
<1>9. SearchInv'
  <2>1. CASE \E s \in Slots : slot[s] = 0
    <3>1. PICK s \in Slots : slot[s] = 0
      BY <2>1
    <3>2. Back(s, First) \in 1 .. MAX_PKT
      BY <1>5, RingStep
    <3>3. Back(s, First) > 0
      BY <3>2 DEF Sizes
    <3>. QED BY <1>2, <1>6, <3>1, <3>3 DEF SearchInv
  <2>2. CASE ~\E s \in Slots : slot[s] = 0
    BY <1>2, <1>6, <2>2 DEF SearchInv, n
  <2>. QED BY <2>1, <2>2
<1>10. ReaderInv'
  BY <1>2 DEF ReaderInv
<1>11. StampInv'
  <2>1. \A l \in LogUids : log[l] # 0 => log[l] \in Come
    BY DEF StampInv, TypeOK
  <2>. QED BY <1>2, <1>4, <2>1 DEF StampInv
<1>12. LostOnlyWhenFull'
  <2>1. rx.pkt = 0
    BY <1>2 DEF HandlerInv
  <2>2. Gone' = Gone
    BY <1>2, <1>4, <1>6, <2>1 DEF Gone, Kept, Come
  <2>3. full \subseteq full'
    BY <1>2
  <2>. QED BY <1>2, <2>2, <2>3, SameLost
<1>. QED BY <1>7, <1>8, <1>9, <1>10, <1>11, <1>12

(* Only a free slot is written, so the reader's slots stay as they are.     *)
LEMMA RxStoreInv == Sizes /\ DraftInv /\ RxStore => DraftInv'
<1>. SUFFICES ASSUME Sizes, DraftInv, RxStore PROVE DraftInv'
  OBVIOUS
<1>. USE DEF DraftInv
<1>1. /\ rx.at = "search" /\ slot[rx.index] = 0
      /\ slot' = [slot EXCEPT ![rx.index] = rx.pkt] /\ stored' = stored \cup {rx.pkt}
      /\ rx' = IF draft = "legacy" THEN [rx EXCEPT !.at = "advance"] ELSE NoRx
      /\ UNCHANGED <<draft, uid, current_index, count_pkt_overflow, log, user_log, rd,
                     handed, short, full>>
  BY DEF RxStore
<1>2. /\ rx.index \in Slots /\ slot \in [Slots -> Nat] /\ uid \in Seq(Uids)
      /\ rx.pkt = Len(uid) /\ rx.pkt # 0 /\ rx.pkt \in Nat /\ rx.pkt \notin stored
  BY <1>1 DEF TypeOK, HandlerInv
<1>3. rx.pkt \in Come /\ Come' = Come
  BY <1>1, <1>2 DEF Come
<1>4. /\ slot' \in [Slots -> Nat] /\ slot'[rx.index] = rx.pkt
      /\ \A s \in Slots : s # rx.index => slot'[s] = slot[s]
      /\ \A s \in Slots : slot[s] # 0 => slot'[s] = slot[s]
  BY <1>1, <1>2
<1>5. /\ rx' \in [at : {"idle", "search", "advance", "stamp"}, pkt : Nat,
                  try : 0 .. MAX_PKT, index : Slots]
      /\ draft = "legacy" => rx'.at = "advance" /\ rx'.pkt = rx.pkt /\ rx'.index = rx.index
      /\ draft # "legacy" => rx'.at = "idle" /\ rx'.pkt = 0
  <2>1. rx \in [at : {"idle", "search", "advance", "stamp"}, pkt : Nat,
                try : 0 .. MAX_PKT, index : Slots]
    BY DEF TypeOK
  <2>2. 0 \in Slots /\ 0 \in 0 .. MAX_PKT
    BY DEF Sizes, Slots
  <2>3. CASE draft = "legacy"
    BY <1>1, <2>1, <2>3
  <2>4. CASE draft # "legacy"
    BY <1>1, <2>2, <2>4 DEF NoRx
  <2>. QED BY <2>3, <2>4
<1>6. TypeOK'
  <2>1. stored' \subseteq Come' /\ handed' \subseteq stored' /\ short' \subseteq stored'
    BY <1>1, <1>3 DEF TypeOK
  <2>. QED BY <1>1, <1>4, <1>5, <2>1 DEF TypeOK
<1>7. HandlerInv'
  <2>1. \A s \in Slots : slot'[s] # 0 => slot'[s] \in stored'
    BY <1>1, <1>4 DEF HandlerInv
  <2>2. rx.pkt \in stored'
    BY <1>1
  <2>3. CASE draft = "legacy"
    BY <1>1, <1>2, <1>3, <1>4, <1>5, <2>1, <2>2, <2>3 DEF HandlerInv
  <2>4. CASE draft # "legacy"
    BY <1>1, <1>3, <1>5, <2>1, <2>4 DEF HandlerInv
  <2>. QED BY <2>3, <2>4
<1>8. SearchInv'
  BY <1>5 DEF SearchInv
<1>9. ReaderInv'
  <2>1. rd \in [at : {"idle", "scan", "free"}, ci : Slots, try : 0 .. MAX_PKT,
                copied : Seq(Slots), buff : Seq(Nat), got : SUBSET Nat]
    BY DEF TypeOK
  <2>2. \A i \in DOMAIN rd.copied : rd.copied[i] \in Slots
    BY <2>1
  <2>3. \A i \in DOMAIN rd.copied : rd.at \in {"scan", "free"} => slot[rd.copied[i]] # 0
    <3>1. 0 \notin handed /\ 0 \notin short
      BY DEF TypeOK, Come
    <3>. QED BY <3>1 DEF ReaderInv
  <2>4. \A i \in DOMAIN rd.copied :
          rd.at \in {"scan", "free"} => slot'[rd.copied[i]] = slot[rd.copied[i]]
    BY <1>4, <2>2, <2>3
  <2>. QED BY <1>1, <2>4 DEF ReaderInv
<1>10. StampInv'
  BY <1>1, <1>3 DEF StampInv
<1>11. LostOnlyWhenFull'
  <2>1. Elements(slot') \ {0} = (Elements(slot) \ {0}) \cup {rx.pkt}
    BY <1>1, <1>2, <1>4 DEF Elements
  <2>2. 0 \notin Come
    BY <1>2 DEF Come
  <2>3. Gone' = Gone
    BY <1>1, <1>3, <1>5, <2>1, <2>2 DEF Gone, Kept, Come
  <2>. QED BY <1>1, <2>3, SameLost
<1>. QED BY <1>6, <1>7, <1>8, <1>9, <1>10, <1>11

LEMMA RxTryInv == Sizes /\ DraftInv /\ RxTry => DraftInv'
<1>. SUFFICES ASSUME Sizes, DraftInv, RxTry PROVE DraftInv'
  OBVIOUS
<1>. USE DEF DraftInv
<1>1. /\ rx.at = "search" /\ rx.try < MAX_PKT /\ slot[rx.index] # 0
      /\ rx' = [rx EXCEPT !.index = (rx.index + 1) % MAX_PKT, !.try = rx.try + 1]
      /\ UNCHANGED <<draft, uid, slot, current_index, count_pkt_overflow, log, user_log,
                     rd, stored, handed, short, full>>
  BY DEF RxTry, cache, past
<1>2. /\ rx.index \in Slots /\ rx.try \in 0 .. MAX_PKT /\ rx.pkt \in Nat
      /\ MAX_PKT \in Nat
  BY DEF TypeOK, Sizes
<1>. DEFINE on == (rx.index + 1) % MAX_PKT
            more == rx.try + 1
<1>3. on \in Slots
  BY <1>2, RingStep
<1>4. more \in 0 .. MAX_PKT
  BY <1>1, <1>2
<1>. HIDE DEF on, more
<1>5. rx' = [rx EXCEPT !.index = on, !.try = more]
  BY <1>1 DEF on, more
<1>6. /\ rx' \in [at : {"idle", "search", "advance", "stamp"}, pkt : Nat,
                  try : 0 .. MAX_PKT, index : Slots]
      /\ rx'.at = rx.at /\ rx'.pkt = rx.pkt /\ rx'.try = more /\ rx'.index = on
  <2>1. rx \in [at : {"idle", "search", "advance", "stamp"}, pkt : Nat,
                try : 0 .. MAX_PKT, index : Slots]
    BY DEF TypeOK
  <2>. QED BY <1>3, <1>4, <1>5, <2>1
<1>7. Come' = Come
  BY <1>1 DEF Come
<1>8. TypeOK'
  BY <1>1, <1>6, <1>7 DEF TypeOK
<1>9. HandlerInv'
  BY <1>1, <1>6, <1>7 DEF HandlerInv
<1>10. SearchInv'
  <2>1. CASE rx.pkt \in full
    BY <1>1, <1>6, <2>1 DEF SearchInv
  <2>2. CASE rx.pkt \notin full
    <3>1. PICK s \in Slots : slot[s] = 0 /\ Back(s, rx.index) > rx.try
      BY <1>1, <2>2 DEF SearchInv
    <3>2. s # rx.index
      BY <1>1, <3>1
    <3>3. Back(s, on) = Back(s, rx.index) + 1 /\ Back(s, rx.index) \in 1 .. MAX_PKT
      BY <1>2, <3>2, RingStep DEF on
    <3>. DEFINE b == Back(s, rx.index)
    <3>4. b \in Nat /\ b > rx.try
      BY <1>2, <3>1, <3>3
    <3>. HIDE DEF b
    <3>5. b + 1 > more
      BY <1>2, <3>4 DEF more
    <3>6. Back(s, on) > more
      BY <3>3, <3>5 DEF b
    <3>. QED BY <1>1, <1>6, <3>1, <3>6 DEF SearchInv
  <2>. QED BY <2>1, <2>2
<1>11. ReaderInv'
  BY <1>1 DEF ReaderInv
<1>12. StampInv'
  BY <1>1, <1>7 DEF StampInv
<1>13. LostOnlyWhenFull'
  <2>1. Gone' = Gone
    BY <1>1, <1>6, <1>7 DEF Gone, Kept, Come
  <2>. QED BY <1>1, <2>1, SameLost
<1>. QED BY <1>8, <1>9, <1>10, <1>11, <1>12, <1>13

(* No slot is left to try: the cache was full when the handler began.       *)
LEMMA RxOverflowInv == Sizes /\ DraftInv /\ RxOverflow => DraftInv'
<1>. SUFFICES ASSUME Sizes, DraftInv, RxOverflow PROVE DraftInv'
  OBVIOUS
<1>. USE DEF DraftInv
<1>1. /\ rx.at = "search" /\ rx.try = MAX_PKT /\ rx' = NoRx
      /\ count_pkt_overflow' = count_pkt_overflow + IF draft = "legacy" THEN 1 ELSE 0
      /\ UNCHANGED <<draft, uid, slot, current_index, log, user_log, rd, stored, handed,
                     short, full>>
  BY DEF RxOverflow, past
<1>2. /\ rx.index \in Slots /\ MAX_PKT \in Nat \ {0} /\ uid \in Seq(Uids)
      /\ rx.pkt = Len(uid) /\ rx.pkt # 0 /\ rx.pkt \in Nat /\ rx.pkt \notin stored
      /\ count_pkt_overflow \in Nat
  BY <1>1 DEF TypeOK, HandlerInv, Sizes
<1>3. rx.pkt \in Come /\ Come' = Come /\ 0 \notin Come
  BY <1>1, <1>2 DEF Come
<1>4. rx'.at = "idle" /\ rx'.pkt = 0
      /\ rx' \in [at : {"idle", "search", "advance", "stamp"}, pkt : Nat,
                  try : 0 .. MAX_PKT, index : Slots]
  <2>1. 0 \in Slots /\ 0 \in 0 .. MAX_PKT
    BY DEF Sizes, Slots
  <2>. QED BY <1>1, <2>1 DEF NoRx
<1>5. rx.pkt \in full
  <2>1. \A s \in Slots : Back(s, rx.index) \in 1 .. MAX_PKT
    BY <1>2, RingStep
  <2>2. \A s \in Slots : ~(Back(s, rx.index) > MAX_PKT)
    BY <1>2, <2>1
  <2>. QED BY <1>1, <2>2 DEF SearchInv
<1>6. TypeOK'
  <2>1. count_pkt_overflow' \in Nat
    BY <1>1, <1>2
  <2>. QED BY <1>1, <1>3, <1>4, <2>1 DEF TypeOK
<1>7. HandlerInv'
  BY <1>1, <1>3, <1>4 DEF HandlerInv
<1>8. SearchInv'
  BY <1>4 DEF SearchInv
<1>9. ReaderInv'
  BY <1>1 DEF ReaderInv
<1>10. StampInv'
  BY <1>1, <1>3 DEF StampInv
<1>11. LostOnlyWhenFull'
  <2>1. rx.pkt \notin Kept
    BY <1>2 DEF Kept, Elements, HandlerInv, TypeOK
  <2>2. Gone' = Gone \cup {rx.pkt} /\ rx.pkt \notin Gone
    BY <1>1, <1>3, <1>4, <2>1 DEF Gone, Kept, Come
  <2>3. draft = "legacy" => Cardinality(Gone') = count_pkt_overflow'
    <3>1. IsFiniteSet(Come)
      <4>1. Come = 1 .. Len(uid) /\ 1 \in Int /\ Len(uid) \in Int
        BY <1>2 DEF Come
      <4>. QED BY <4>1, FS_Interval
    <3>2. Gone \subseteq Come
      BY DEF Gone, Come
    <3>3. IsFiniteSet(Gone)
      BY <3>1, <3>2, FS_Subset
    <3>4. Cardinality(Gone') = Cardinality(Gone) + 1
      BY <2>2, <3>3, FS_AddElement
    <3>. QED BY <1>1, <3>4 DEF LostOnlyWhenFull
  <2>4. \A p \in Gone' : p \in full' \/ (draft' = "temp" /\ p \in short')
    BY <1>1, <1>5, <2>2 DEF LostOnlyWhenFull
  <2>. QED BY <1>1, <2>3, <2>4 DEF LostOnlyWhenFull
<1>. QED BY <1>6, <1>7, <1>8, <1>9, <1>10, <1>11

LEMMA RxAdvanceInv == Sizes /\ DraftInv /\ RxAdvance => DraftInv'
<1>. SUFFICES ASSUME Sizes, DraftInv, RxAdvance PROVE DraftInv'
  OBVIOUS
<1>. USE DEF DraftInv
<1>1. /\ rx.at = "advance" /\ rx' = [rx EXCEPT !.at = "stamp"]
      /\ current_index' = (rx.index + 1) % MAX_PKT
      /\ UNCHANGED <<draft, uid, slot, count_pkt_overflow, log, user_log, rd, stored,
                     handed, short, full>>
  BY DEF RxAdvance, past
<1>2. /\ rx \in [at : {"idle", "search", "advance", "stamp"}, pkt : Nat,
                 try : 0 .. MAX_PKT, index : Slots]
  BY DEF TypeOK
<1>3. /\ rx' \in [at : {"idle", "search", "advance", "stamp"}, pkt : Nat,
                  try : 0 .. MAX_PKT, index : Slots]
      /\ rx'.at = "stamp" /\ rx'.pkt = rx.pkt /\ rx'.index = rx.index
  BY <1>1, <1>2
<1>4. current_index' \in Slots /\ Come' = Come
  BY <1>1, <1>2, RingStep DEF Come
<1>5. TypeOK'
  BY <1>1, <1>3, <1>4 DEF TypeOK
<1>6. HandlerInv'
  BY <1>1, <1>3, <1>4 DEF HandlerInv
<1>7. SearchInv'
  BY <1>3 DEF SearchInv
<1>8. ReaderInv' /\ StampInv'
  BY <1>1, <1>4 DEF ReaderInv, StampInv
<1>9. LostOnlyWhenFull'
  <2>1. Gone' = Gone
    BY <1>1, <1>3 DEF Gone, Kept
  <2>. QED BY <1>1, <2>1, SameLost
<1>. QED BY <1>5, <1>6, <1>7, <1>8, <1>9

(* The stamp finds its own packet, or a slot that was wiped because the     *)
(* process has it.                                                          *)
LEMMA RxStampInv == Sizes /\ DraftInv /\ RxStamp => DraftInv'
<1>. SUFFICES ASSUME Sizes, DraftInv, RxStamp PROVE DraftInv'
  OBVIOUS
<1>. USE DEF DraftInv
<1>. DEFINE found == IF slot[rx.index] = 0 THEN 0 ELSE uid[slot[rx.index]]
<1>1. /\ rx.at = "stamp" /\ rx' = NoRx
      /\ log' = IF found \in LogUids THEN [log EXCEPT ![found] = rx.pkt] ELSE log
      /\ UNCHANGED <<draft, uid, slot, current_index, count_pkt_overflow, user_log, rd,
                     stored, handed, short, full>>
  BY DEF RxStamp, Stamped, cache, past
<1>2. /\ rx.pkt \in stored /\ rx.pkt \in Nat /\ rx.pkt # 0 /\ log \in [LogUids -> Nat]
      /\ slot[rx.index] = rx.pkt \/ (slot[rx.index] = 0 /\ rx.pkt \in handed)
      /\ rx.index \in Slots /\ slot \in [Slots -> Nat]
  BY <1>1 DEF HandlerInv, TypeOK
<1>3. found = uid[rx.pkt] \/ (found = 0 /\ rx.pkt \in handed)
  BY <1>2
<1>. HIDE DEF found
<1>4. /\ log' \in [LogUids -> Nat]
      /\ \A u \in LogUids : log'[u] = IF u = found THEN rx.pkt ELSE log[u]
  BY <1>1, <1>2
<1>5. Come' = Come
  BY <1>1 DEF Come
<1>6. rx'.at = "idle" /\ rx'.pkt = 0
      /\ rx' \in [at : {"idle", "search", "advance", "stamp"}, pkt : Nat,
                  try : 0 .. MAX_PKT, index : Slots]
  <2>1. 0 \in Slots /\ 0 \in 0 .. MAX_PKT
    BY DEF Sizes, Slots
  <2>. QED BY <1>1, <2>1 DEF NoRx
<1>7. TypeOK'
  BY <1>1, <1>4, <1>5, <1>6 DEF TypeOK
<1>8. HandlerInv' /\ SearchInv'
  BY <1>1, <1>5, <1>6 DEF HandlerInv, SearchInv
<1>9. ReaderInv'
  BY <1>1 DEF ReaderInv
<1>10. StampInv'
  <2>1. ASSUME NEW u \in LogUids, log'[u] # 0
        PROVE  log'[u] \in stored /\ (uid[log'[u]] = u \/ (u = 0 /\ log'[u] \in handed))
    <3>1. CASE u = found
      BY <1>2, <1>3, <1>4, <3>1
    <3>2. CASE u # found
      BY <1>4, <2>1, <3>2 DEF StampInv
    <3>. QED BY <3>1, <3>2
  <2>. QED BY <1>1, <1>5, <2>1 DEF StampInv
<1>11. LostOnlyWhenFull'
  <2>1. rx.pkt \in Kept
    BY <1>2 DEF Kept, Elements
  <2>2. 0 \notin Come
    BY DEF Come, TypeOK
  <2>3. Gone' = Gone
    BY <1>1, <1>5, <1>6, <2>1, <2>2 DEF Gone, Kept, Come
  <2>. QED BY <1>1, <2>3, SameLost
<1>. QED BY <1>7, <1>8, <1>9, <1>10, <1>11

-----------------------------------------------------------------------------
(* read() and the process.                                                  *)

(* What a step of the reader that frees nothing has to show.                *)
LEMMA ReaderFrame ==
  ASSUME DraftInv, UNCHANGED <<draft, uid, slot, current_index, count_pkt_overflow, log, rx,
                               stored, full>>,
         rd' \in [at : {"idle", "scan", "free"}, ci : Slots, try : 0 .. MAX_PKT,
                  copied : Seq(Slots), buff : Seq(Nat), got : SUBSET Nat],
         user_log' \in [LogUids -> Nat],
         \A u \in LogUids : user_log'[u] # 0 => \E p \in Come : uid[p] = u /\ p <= user_log'[u],
         handed \subseteq handed', handed' \subseteq stored, handed' \subseteq Kept \cup {0},
         short \subseteq short', short' \subseteq stored, ReaderInv'
  PROVE  DraftInv'
<1>. USE DEF DraftInv
<1>1. Come' = Come
  BY DEF Come
<1>2. TypeOK'
  BY <1>1 DEF TypeOK
<1>3. HandlerInv' /\ SearchInv'
  BY <1>1 DEF HandlerInv, SearchInv
<1>4. StampInv'
  BY <1>1 DEF StampInv
<1>5. LostOnlyWhenFull'
  <2>1. 0 \notin Come
    BY DEF Come, TypeOK
  <2>2. Gone' = Gone
    BY <2>1 DEF Gone, Kept, Come
  <2>. QED BY <2>2, SameLost
<1>. QED BY <1>2, <1>3, <1>4, <1>5

LEMMA ReadBeginInv == Sizes /\ DraftInv /\ ReadBegin => DraftInv'
<1>. SUFFICES ASSUME Sizes, DraftInv, ReadBegin PROVE DraftInv'
  OBVIOUS
<1>1. /\ rd' = [NoRd EXCEPT !.at = "scan", !.ci = First]
      /\ UNCHANGED <<draft, uid, slot, current_index, count_pkt_overflow, log, user_log, rx,
                     stored, handed, short, full>>
  BY DEF ReadBegin, cache, past
<1>2. First \in Slots /\ 0 \in 0 .. MAX_PKT
  BY DEF First, DraftInv, TypeOK, Sizes, Slots
<1>3. /\ rd'.at = "scan" /\ rd'.copied = <<>> /\ rd'.buff = <<>> /\ rd'.got = {}
      /\ rd' \in [at : {"idle", "scan", "free"}, ci : Slots, try : 0 .. MAX_PKT,
                  copied : Seq(Slots), buff : Seq(Nat), got : SUBSET Nat]
      /\ DOMAIN rd'.copied = {} /\ Len(rd'.copied) = 0 /\ Len(rd'.buff) = 0
  <2>1. rd' = [at |-> "scan", ci |-> First, try |-> 0, copied |-> <<>>, buff |-> <<>>,
               got |-> {}]
    BY <1>1 DEF NoRd
  <2>2. <<>> \in Seq(Slots) /\ <<>> \in Seq(Nat) /\ {} \in SUBSET Nat
    OBVIOUS
  <2>3. rd' \in [at : {"idle", "scan", "free"}, ci : Slots, try : 0 .. MAX_PKT,
                 copied : Seq(Slots), buff : Seq(Nat), got : SUBSET Nat]
    BY <1>2, <2>1, <2>2
  <2>. QED BY <2>1, <2>3
<1>4. ReaderInv'
  BY <1>3 DEF ReaderInv
<1>5. handed \subseteq stored /\ handed \subseteq Kept /\ user_log \in [LogUids -> Nat]
      /\ short \subseteq stored
  BY DEF DraftInv, TypeOK, Kept
<1>6. \A u \in LogUids : user_log[u] # 0 => \E p \in Come : uid[p] = u /\ p <= user_log[u]
  BY DEF DraftInv, StampInv
<1>. QED BY <1>1, <1>3, <1>4, <1>5, <1>6, ReaderFrame

(* A slot is collected once: the scan goes round the ring once at most.     *)
LEMMA ReadScanInv == Sizes /\ DraftInv /\ ReadScan => DraftInv'
<1>. SUFFICES ASSUME Sizes, DraftInv, ReadScan PROVE DraftInv'
  OBVIOUS
<1>. DEFINE here == slot[rd.ci]
            next == (rd.ci + 1) % MAX_PKT
            more == rd.try + 1
            on == [rd EXCEPT !.ci = next, !.try = more]
<1>1. /\ rd.at = "scan" /\ Len(rd.copied) < Batch /\ rd.try < MAX_PKT
      /\ rd' = IF here = 0 THEN on
               ELSE [on EXCEPT !.copied = Append(rd.copied, rd.ci),
                               !.buff = Append(rd.buff, here)]
      /\ UNCHANGED <<draft, uid, slot, current_index, count_pkt_overflow, log, user_log, rx,
                     stored, handed, short, full>>
  BY DEF ReadScan, cache, past
<1>2. /\ rd \in [at : {"idle", "scan", "free"}, ci : Slots, try : 0 .. MAX_PKT,
                 copied : Seq(Slots), buff : Seq(Nat), got : SUBSET Nat]
      /\ slot \in [Slots -> Nat] /\ MAX_PKT \in Nat
  BY DEF DraftInv, TypeOK, Sizes
<1>3. rd.ci \in Slots /\ rd.try \in 0 .. MAX_PKT /\ rd.copied \in Seq(Slots)
      /\ rd.buff \in Seq(Nat)
  BY <1>2
<1>4. here \in Nat
  BY <1>2, <1>3
<1>5. /\ next \in Slots
      /\ \A s \in Slots : Back(s, rd.ci) \in 1 .. MAX_PKT
      /\ \A s \in Slots : s # rd.ci =>
           Back(s, rd.ci) < MAX_PKT /\ Back(s, next) = Back(s, rd.ci) + 1
      /\ Back(rd.ci, rd.ci) = MAX_PKT /\ Back(rd.ci, next) = 1
  BY <1>3, RingStep
<1>6. more \in 0 .. MAX_PKT /\ more >= 1
  BY <1>1, <1>2, <1>3
<1>. HIDE DEF here, next, more
<1>7. /\ on \in [at : {"idle", "scan", "free"}, ci : Slots, try : 0 .. MAX_PKT,
                 copied : Seq(Slots), buff : Seq(Nat), got : SUBSET Nat]
      /\ on.at = "scan" /\ on.ci = next /\ on.try = more /\ on.copied = rd.copied
      /\ on.buff = rd.buff /\ on.got = rd.got
  BY <1>1, <1>2, <1>5, <1>6
<1>. HIDE DEF on
<1>8. /\ Len(rd.buff) = Len(rd.copied) /\ DOMAIN rd.copied = 1 .. Len(rd.copied)
      /\ Len(rd.copied) \in Nat
      /\ \A i \in DOMAIN rd.copied :
           /\ rd.copied[i] \in Slots
           /\ slot[rd.copied[i]] = rd.buff[i] /\ rd.buff[i] # 0
           /\ Back(rd.copied[i], rd.ci) <= rd.try
  BY <1>1, <1>3 DEF DraftInv, ReaderInv
<1>9. \A i \in DOMAIN rd.copied :
        rd.copied[i] # rd.ci /\ Back(rd.copied[i], next) <= more
  <2>1. SUFFICES ASSUME NEW i \in DOMAIN rd.copied
                 PROVE  rd.copied[i] # rd.ci /\ Back(rd.copied[i], next) <= more
    OBVIOUS
  <2>. DEFINE s == rd.copied[i]
              b == Back(s, rd.ci)
  <2>2. s \in Slots /\ b <= rd.try /\ b \in 1 .. MAX_PKT
    BY <1>5, <1>8, <2>1
  <2>3. b # MAX_PKT
    BY <1>1, <1>2, <1>3, <2>2
  <2>4. s # rd.ci
    BY <1>5, <2>3
  <2>5. Back(s, next) = b + 1
    BY <1>5, <2>2, <2>4
  <2>. HIDE DEF b
  <2>6. b + 1 <= more
    BY <1>3, <2>2 DEF more
  <2>. QED BY <2>4, <2>5, <2>6
<1>10. rd'.got = rd.got /\ rd'.at = "scan"
       /\ rd' \in [at : {"idle", "scan", "free"}, ci : Slots, try : 0 .. MAX_PKT,
                   copied : Seq(Slots), buff : Seq(Nat), got : SUBSET Nat]
  <2>1. Append(rd.copied, rd.ci) \in Seq(Slots) /\ Append(rd.buff, here) \in Seq(Nat)
    BY <1>3, <1>4
  <2>2. CASE here = 0
    BY <1>1, <1>7, <2>2
  <2>3. CASE here # 0
    BY <1>1, <1>7, <2>1, <2>3
  <2>. QED BY <2>2, <2>3
<1>11. ReaderInv'
  <2>1. /\ \A i, j \in DOMAIN rd.copied : rd.copied[i] = rd.copied[j] => i = j
        /\ rd.got \subseteq handed
    BY DEF DraftInv, ReaderInv
  <2>2. draft = "temp" => Len(rd.copied) < 1
    BY <1>1 DEF Batch
  <2>3. CASE here = 0
    <3>1. rd'.copied = rd.copied /\ rd'.buff = rd.buff /\ rd'.ci = next /\ rd'.try = more
      BY <1>1, <1>7, <2>3
    <3>2. draft = "temp" => Len(rd.copied) <= 1
      BY <1>8, <2>2
    <3>3. rd'.got \subseteq handed' /\ rd'.at # "idle" /\ rd'.at # "free"
      BY <1>1, <1>10, <2>1
    <3>. DEFINE cs == rd.copied
                bs == rd.buff
    <3>4. /\ \A i, j \in DOMAIN cs : cs[i] = cs[j] => i = j
          /\ \A i \in DOMAIN cs : slot[cs[i]] = bs[i] /\ bs[i] # 0 /\ Back(cs[i], next) <= more
          /\ Len(bs) = Len(cs) /\ (draft = "temp" => Len(cs) <= 1)
      BY <1>8, <1>9, <2>1, <3>2
    <3>5. rd'.copied = cs /\ rd'.buff = bs /\ rd'.ci = next /\ rd'.try = more
      BY <3>1
    <3>6. UNCHANGED <<draft, slot, short, handed>>
      BY <1>1
    <3>. HIDE DEF cs, bs
    <3>. QED BY <3>3, <3>4, <3>5, <3>6 DEF ReaderInv
  <2>4. CASE here # 0
    <3>. DEFINE n == Len(rd.copied) + 1
                cs == Append(rd.copied, rd.ci)
                bs == Append(rd.buff, here)
    <3>1. rd'.copied = cs /\ rd'.buff = bs /\ rd'.ci = next /\ rd'.try = more
      BY <1>1, <1>7, <2>4
    <3>2. /\ Len(cs) = n /\ Len(bs) = n /\ DOMAIN cs = (DOMAIN rd.copied) \cup {n}
          /\ n \notin DOMAIN rd.copied
          /\ cs[n] = rd.ci /\ bs[n] = here
          /\ \A i \in DOMAIN rd.copied : cs[i] = rd.copied[i] /\ bs[i] = rd.buff[i]
      <4>1. /\ Len(cs) = n /\ DOMAIN cs = 1 .. n /\ cs[n] = rd.ci
            /\ \A i \in 1 .. Len(rd.copied) : cs[i] = rd.copied[i]
        BY <1>3
      <4>2. /\ Len(bs) = Len(rd.buff) + 1 /\ bs[Len(rd.buff) + 1] = here
            /\ \A i \in 1 .. Len(rd.buff) : bs[i] = rd.buff[i]
        BY <1>3, <1>4
      <4>3. 1 .. n = (1 .. Len(rd.copied)) \cup {n} /\ n \notin 1 .. Len(rd.copied)
        BY <1>8
      <4>. QED BY <1>8, <4>1, <4>2, <4>3
    <3>3. draft = "temp" => n <= 1
      BY <1>8, <2>2
    <3>. HIDE DEF n, cs, bs
    <3>4. \A i, j \in DOMAIN cs : cs[i] = cs[j] => i = j
      BY <1>9, <2>1, <3>2
    <3>5. \A i \in DOMAIN cs :
            slot[cs[i]] = bs[i] /\ bs[i] # 0 /\ Back(cs[i], next) <= more
      <4>1. slot[cs[n]] = bs[n] /\ bs[n] # 0 /\ Back(cs[n], next) <= more
        <5>1. Back(cs[n], next) = 1
          BY <1>5, <3>2
        <5>2. 1 <= more
          BY <1>6
        <5>. QED BY <2>4, <3>2, <5>1, <5>2 DEF here
      <4>2. \A i \in DOMAIN rd.copied :
              slot[cs[i]] = bs[i] /\ bs[i] # 0 /\ Back(cs[i], next) <= more
        BY <1>8, <1>9, <3>2
      <4>. QED BY <3>2, <4>1, <4>2
    <3>6. rd'.got \subseteq handed' /\ rd'.at # "idle" /\ rd'.at # "free"
      BY <1>1, <1>10, <2>1
    <3>7. UNCHANGED <<draft, slot, short, handed>>
      BY <1>1
    <3>. QED BY <3>1, <3>2, <3>3, <3>4, <3>5, <3>6, <3>7 DEF ReaderInv
  <2>. QED BY <2>3, <2>4
<1>12. handed \subseteq stored /\ handed \subseteq Kept /\ user_log \in [LogUids -> Nat]
      /\ short \subseteq stored
  BY DEF DraftInv, TypeOK, Kept
<1>13. \A u \in LogUids : user_log[u] # 0 => \E p \in Come : uid[p] = u /\ p <= user_log[u]
  BY DEF DraftInv, StampInv
<1>. QED BY <1>1, <1>10, <1>11, <1>12, <1>13, ReaderFrame

(* The reader starts over.                                                  *)
LEMMA NoRdInv ==
  ASSUME Sizes, DraftInv, rd' = NoRd,
         UNCHANGED <<draft, uid, slot, current_index, count_pkt_overflow, log, rx, stored,
                     handed, short, full>>,
         user_log' \in [LogUids -> Nat],
         \A u \in LogUids : user_log'[u] # 0 => \E p \in Come : uid[p] = u /\ p <= user_log'[u]
  PROVE  DraftInv'
<1>1. 0 \in Slots /\ 0 \in 0 .. MAX_PKT
  BY DEF Sizes, Slots
<1>2. /\ rd'.at = "idle" /\ rd'.copied = <<>> /\ rd'.got = {} /\ DOMAIN rd'.copied = {}
      /\ Len(rd'.copied) = 0
      /\ rd' \in [at : {"idle", "scan", "free"}, ci : Slots, try : 0 .. MAX_PKT,
                  copied : Seq(Slots), buff : Seq(Nat), got : SUBSET Nat]
  BY <1>1 DEF NoRd
<1>3. NoRd' = NoRd
  BY DEF NoRd
<1>4. ReaderInv'
  BY <1>2, <1>3 DEF ReaderInv
<1>5. handed \subseteq stored /\ handed \subseteq Kept /\ short \subseteq stored
  BY DEF DraftInv, TypeOK, Kept
<1>. QED BY <1>2, <1>4, <1>5, ReaderFrame

LEMMA ReadEmptyInv == Sizes /\ DraftInv /\ ReadEmpty => DraftInv'
<1>. SUFFICES ASSUME Sizes, DraftInv, ReadEmpty PROVE DraftInv'
  OBVIOUS
<1>1. /\ rd' = NoRd
      /\ UNCHANGED <<draft, uid, slot, current_index, count_pkt_overflow, log, user_log, rx,
                     stored, handed, short, full>>
  BY DEF ReadEmpty, cache, past
<1>2. user_log \in [LogUids -> Nat]
  BY DEF DraftInv, TypeOK
<1>3. \A u \in LogUids : user_log[u] # 0 => \E p \in Come : uid[p] = u /\ p <= user_log[u]
  BY DEF DraftInv, StampInv
<1>. QED BY <1>1, <1>2, <1>3, NoRdInv

(* Whatever the process finds is in a slot.                                 *)
LEMMA GotStored ==
  ASSUME Sizes, DraftInv, rd.at = "scan", NEW n \in 0 .. Reach
  PROVE  Got(n) \subseteq stored /\ Got(n) \subseteq Elements(slot)
<1>1. /\ slot \in [Slots -> Nat]
      /\ rd \in [at : {"idle", "scan", "free"}, ci : Slots, try : 0 .. MAX_PKT,
                 copied : Seq(Slots), buff : Seq(Nat), got : SUBSET Nat]
      /\ \A s \in Slots : slot[s] # 0 => slot[s] \in stored
  BY DEF DraftInv, TypeOK, HandlerInv
<1>2. CASE draft = "legacy"
  <2>1. Got(n) = {rd.buff[i] : i \in 1 .. n} /\ n \in 0 .. Len(rd.buff)
    BY <1>2 DEF Got, Reach
  <2>2. Len(rd.buff) = Len(rd.copied) /\ Len(rd.copied) \in Nat
        /\ DOMAIN rd.copied = 1 .. Len(rd.copied)
        /\ \A i \in DOMAIN rd.copied : rd.copied[i] \in Slots
                /\ slot[rd.copied[i]] = rd.buff[i] /\ rd.buff[i] # 0
    BY <1>1 DEF DraftInv, ReaderInv
  <2>3. \A i \in 1 .. n : i \in DOMAIN rd.copied
    BY <2>1, <2>2
  <2>4. \A i \in 1 .. n : rd.buff[i] \in stored /\ rd.buff[i] \in Elements(slot)
    BY <1>1, <2>2, <2>3 DEF Elements
  <2>. QED BY <2>1, <2>4
<1>3. CASE draft # "legacy"
  BY <1>1, <1>3 DEF Got, Elements
<1>. QED BY <1>2, <1>3

LEMMA ReadDeliverInv == Sizes /\ DraftInv /\ ReadDeliver => DraftInv'
<1>. SUFFICES ASSUME Sizes, DraftInv, ReadDeliver PROVE DraftInv'
  OBVIOUS
<1>1. PICK n \in (IF draft = "legacy" THEN {Len(rd.buff)} ELSE 0 .. Reach) :
        /\ rd' = [rd EXCEPT !.at = "free", !.buff = <<>>, !.got = Got(n)]
        /\ handed' = handed \cup Got(n)
        /\ short' = IF n = 0 THEN short \cup Elements(rd.buff) ELSE short
  BY DEF ReadDeliver
<1>2. /\ rd.at = "scan" /\ rd.copied # <<>>
      /\ UNCHANGED <<draft, uid, slot, current_index, count_pkt_overflow, log, user_log, rx,
                     stored, full>>
  BY DEF ReadDeliver, Scanned, cache
<1>3. /\ rd \in [at : {"idle", "scan", "free"}, ci : Slots, try : 0 .. MAX_PKT,
                 copied : Seq(Slots), buff : Seq(Nat), got : SUBSET Nat]
      /\ slot \in [Slots -> Nat] /\ draft \in {"legacy", "temp"}
  BY DEF DraftInv, TypeOK
<1>4. /\ Len(rd.buff) = Len(rd.copied) /\ DOMAIN rd.copied = 1 .. Len(rd.copied)
      /\ DOMAIN rd.buff = 1 .. Len(rd.buff) /\ Len(rd.copied) \in Nat
      /\ \A i \in DOMAIN rd.copied : /\ rd.copied[i] \in Slots
                                     /\ slot[rd.copied[i]] = rd.buff[i] /\ rd.buff[i] # 0
      /\ \A i, j \in DOMAIN rd.copied : rd.copied[i] = rd.copied[j] => i = j
      /\ draft = "temp" => Len(rd.copied) <= 1
  BY <1>2, <1>3 DEF DraftInv, ReaderInv
<1>5. n \in 0 .. Reach
  BY <1>1, <1>4 DEF Reach
<1>6. Got(n) \subseteq stored /\ Got(n) \subseteq Elements(slot)
  BY <1>2, <1>5, GotStored
<1>7. stored \subseteq Come /\ Come \subseteq Nat /\ handed \subseteq stored
  BY DEF DraftInv, TypeOK, Come
<1>8. /\ rd' \in [at : {"idle", "scan", "free"}, ci : Slots, try : 0 .. MAX_PKT,
                  copied : Seq(Slots), buff : Seq(Nat), got : SUBSET Nat]
      /\ rd'.at = "free" /\ rd'.copied = rd.copied /\ rd'.got = Got(n)
  <2>1. Got(n) \subseteq Nat
    BY <1>6, <1>7
  <2>2. <<>> \in Seq(Nat)
    OBVIOUS
  <2>. QED BY <1>1, <1>3, <2>1, <2>2
<1>9. ASSUME NEW i \in DOMAIN rd.copied
      PROVE  slot[rd.copied[i]] \in handed' \/ (draft = "temp" /\ slot[rd.copied[i]] \in short')
  <2>1. CASE draft = "legacy"
    <3>1. Got(n) = {rd.buff[k] : k \in 1 .. Len(rd.buff)}
      BY <1>1, <2>1 DEF Got
    <3>2. i \in 1 .. Len(rd.buff)
      BY <1>4, <1>9
    <3>. QED BY <1>1, <1>4, <1>9, <3>1, <3>2
  <2>2. CASE draft = "temp" /\ n = 0
    <3>1. rd.buff[i] \in Elements(rd.buff)
      BY <1>4, <1>9 DEF Elements
    <3>. QED BY <1>1, <1>4, <1>9, <2>2, <3>1
  <2>3. CASE draft = "temp" /\ n # 0
    <3>1. i = 1
      BY <1>4, <1>9, <2>3
    <3>2. rd.copied[1] \in Slots /\ slot[rd.copied[1]] # 0 /\ rd.copied[1] \in Int
      BY <1>4, <1>9, <3>1 DEF Slots
    <3>3. n \in Nat /\ n >= 1
      BY <1>1, <2>3 DEF Reach, Sizes
    <3>4. rd.copied[1] <= rd.copied[1] /\ rd.copied[1] < rd.copied[1] + n
      BY <3>2, <3>3
    <3>5. slot[rd.copied[1]] \in Got(n)
      BY <2>3, <3>2, <3>4 DEF Got
    <3>. QED BY <1>1, <3>1, <3>5
  <2>. QED BY <1>3, <2>1, <2>2, <2>3
<1>10. ReaderInv'
  <2>1. rd'.got \subseteq handed' /\ UNCHANGED <<draft, slot>>
    BY <1>1, <1>2, <1>8
  <2>2. \A i, j \in DOMAIN rd.copied : rd.copied[i] = rd.copied[j] => i = j
    BY <1>4
  <2>3. draft = "temp" => Len(rd.copied) <= 1
    BY <1>4
  <2>. QED BY <1>8, <1>9, <2>1, <2>2, <2>3 DEF ReaderInv
<1>11. /\ handed \subseteq handed' /\ handed' \subseteq stored /\ handed' \subseteq Kept \cup {0}
       /\ short \subseteq short' /\ short' \subseteq stored /\ user_log \in [LogUids -> Nat]
  <2>1. Elements(rd.buff) \subseteq stored
    BY <1>4 DEF Elements, DraftInv, HandlerInv
  <2>. QED BY <1>1, <1>6, <1>7, <2>1 DEF Kept, DraftInv, TypeOK
<1>12. \A u \in LogUids : user_log[u] # 0 => \E p \in Come : uid[p] = u /\ p <= user_log[u]
  BY DEF DraftInv, StampInv
<1>. QED BY <1>2, <1>8, <1>10, <1>11, <1>12, ReaderFrame

LEMMA ReadFaultInv == Sizes /\ DraftInv /\ ReadFault => DraftInv'
<1>. SUFFICES ASSUME Sizes, DraftInv, ReadFault PROVE DraftInv'
  OBVIOUS
<1>1. PICK n \in 0 .. Reach :
        /\ rd' = [rd EXCEPT !.at = "free", !.buff = <<>>, !.copied = <<>>, !.got = Got(n)]
        /\ handed' = handed \cup Got(n)
  BY DEF ReadFault
<1>2. /\ rd.at = "scan"
      /\ UNCHANGED <<draft, uid, slot, current_index, count_pkt_overflow, log, user_log, rx,
                     stored, short, full>>
  BY DEF ReadFault, Scanned, cache
<1>3. rd \in [at : {"idle", "scan", "free"}, ci : Slots, try : 0 .. MAX_PKT,
              copied : Seq(Slots), buff : Seq(Nat), got : SUBSET Nat]
  BY DEF DraftInv, TypeOK
<1>4. Got(n) \subseteq stored /\ Got(n) \subseteq Elements(slot)
  BY <1>2, GotStored
<1>5. stored \subseteq Come /\ Come \subseteq Nat /\ handed \subseteq stored
  BY DEF DraftInv, TypeOK, Come
<1>6. /\ rd' \in [at : {"idle", "scan", "free"}, ci : Slots, try : 0 .. MAX_PKT,
                  copied : Seq(Slots), buff : Seq(Nat), got : SUBSET Nat]
      /\ rd'.at = "free" /\ rd'.copied = <<>> /\ rd'.got = Got(n)
      /\ DOMAIN rd'.copied = {} /\ Len(rd'.copied) = 0
  <2>1. Got(n) \subseteq Nat
    BY <1>4, <1>5
  <2>3. <<>> \in Seq(Nat) /\ <<>> \in Seq(Slots)
    OBVIOUS
  <2>2. /\ rd' \in [at : {"idle", "scan", "free"}, ci : Slots, try : 0 .. MAX_PKT,
                    copied : Seq(Slots), buff : Seq(Nat), got : SUBSET Nat]
        /\ rd'.at = "free" /\ rd'.copied = <<>> /\ rd'.got = Got(n)
    BY <1>1, <1>3, <2>1, <2>3
  <2>. QED BY <2>2
<1>7. ReaderInv'
  BY <1>1, <1>6 DEF ReaderInv
<1>8. /\ handed \subseteq handed' /\ handed' \subseteq stored /\ handed' \subseteq Kept \cup {0}
      /\ short \subseteq stored /\ user_log \in [LogUids -> Nat]
  BY <1>1, <1>4, <1>5 DEF Kept, DraftInv, TypeOK
<1>9. \A u \in LogUids : user_log[u] # 0 => \E p \in Come : uid[p] = u /\ p <= user_log[u]
  BY DEF DraftInv, StampInv
<1>. QED BY <1>2, <1>6, <1>7, <1>8, <1>9, ReaderFrame

(* One clock reading for the batch: everything in it had come by then.      *)
LEMMA ProcessBatchInv == Sizes /\ DraftInv /\ ProcessBatch => DraftInv'
<1>. SUFFICES ASSUME Sizes, DraftInv, ProcessBatch PROVE DraftInv'
  OBVIOUS
<1>1. /\ rd' = NoRd
      /\ user_log' = [u \in LogUids |-> IF \E p \in rd.got : uid[p] = u THEN Len(uid)
                                        ELSE user_log[u]]
      /\ UNCHANGED <<draft, uid, slot, current_index, count_pkt_overflow, log, rx, stored,
                     handed, short, full>>
  BY DEF ProcessBatch, cache, past
<1>2. /\ uid \in Seq(Uids) /\ Come = 1 .. Len(uid) /\ Len(uid) \in Nat
      /\ user_log \in [LogUids -> Nat] /\ rd.got \subseteq Come
  BY DEF DraftInv, TypeOK, ReaderInv, Come
<1>3. user_log' \in [LogUids -> Nat]
  BY <1>1, <1>2
<1>4. ASSUME NEW u \in LogUids, user_log'[u] # 0
      PROVE  \E p \in Come : uid[p] = u /\ p <= user_log'[u]
  <2>1. CASE \E p \in rd.got : uid[p] = u
    <3>1. PICK p \in rd.got : uid[p] = u
      BY <2>1
    <3>2. p \in Come /\ p <= Len(uid) /\ user_log'[u] = Len(uid)
      BY <1>1, <1>2, <2>1
    <3>. QED BY <3>1, <3>2
  <2>2. CASE ~\E p \in rd.got : uid[p] = u
    BY <1>1, <1>4, <2>2 DEF DraftInv, StampInv
  <2>. QED BY <2>1, <2>2
<1>. QED BY <1>1, <1>3, <1>4, NoRdInv

(* What is wiped was delivered, or lost by temp; the handler's second look  *)
(* may find its slot empty then.                                            *)
LEMMA ReadFreeInv == Sizes /\ DraftInv /\ ReadFree => DraftInv'
<1>. SUFFICES ASSUME Sizes, DraftInv, ReadFree PROVE DraftInv'
  OBVIOUS
<1>. USE DEF DraftInv
<1>. DEFINE h == Head(rd.copied)
            tl == Tail(rd.copied)
<1>1. /\ rd.at = "free" /\ rd.copied # <<>>
      /\ slot' = [slot EXCEPT ![h] = 0] /\ rd' = [rd EXCEPT !.copied = tl]
      /\ UNCHANGED <<draft, uid, current_index, count_pkt_overflow, log, user_log, rx, stored,
                     handed, short, full>>
  BY DEF ReadFree, past
<1>2. /\ rd \in [at : {"idle", "scan", "free"}, ci : Slots, try : 0 .. MAX_PKT,
                 copied : Seq(Slots), buff : Seq(Nat), got : SUBSET Nat]
      /\ slot \in [Slots -> Nat]
  BY DEF TypeOK
<1>3. /\ h = rd.copied[1] /\ 1 \in DOMAIN rd.copied /\ h \in Slots /\ tl \in Seq(Slots)
      /\ Len(tl) <= Len(rd.copied)
      /\ \A i \in DOMAIN tl : i + 1 \in DOMAIN rd.copied /\ tl[i] = rd.copied[i + 1]
                              /\ i + 1 # 1 /\ i \in Nat
  BY <1>1, <1>2
<1>. HIDE DEF h, tl
<1>4. /\ slot' \in [Slots -> Nat] /\ slot'[h] = 0
      /\ \A s \in Slots : s # h => slot'[s] = slot[s]
  BY <1>1, <1>2, <1>3
<1>5. /\ rd' \in [at : {"idle", "scan", "free"}, ci : Slots, try : 0 .. MAX_PKT,
                  copied : Seq(Slots), buff : Seq(Nat), got : SUBSET Nat]
      /\ rd'.at = "free" /\ rd'.copied = tl /\ rd'.got = rd.got
  BY <1>1, <1>2, <1>3
<1>6. Come' = Come /\ 0 \notin Come
  BY <1>1 DEF Come, TypeOK
<1>7. slot[h] \in handed \/ (draft = "temp" /\ slot[h] \in short)
  BY <1>1, <1>3 DEF ReaderInv
<1>8. TypeOK'
  BY <1>1, <1>4, <1>5, <1>6 DEF TypeOK
<1>9. HandlerInv'
  <2>1. \A s \in Slots : slot'[s] # 0 => slot'[s] \in stored
    BY <1>4 DEF HandlerInv
  <2>2. rx.at \in {"advance", "stamp"} =>
          slot'[rx.index] = rx.pkt \/ (slot'[rx.index] = 0 /\ rx.pkt \in handed)
    <3>1. rx.index \in Slots
      BY DEF TypeOK
    <3>2. CASE rx.index = h
      BY <1>4, <1>7, <3>2 DEF HandlerInv
    <3>3. CASE rx.index # h
      BY <1>4, <3>1, <3>3 DEF HandlerInv
    <3>. QED BY <3>2, <3>3
  <2>. QED BY <1>1, <1>6, <2>1, <2>2 DEF HandlerInv
<1>10. SearchInv'
  <2>1. \A s \in Slots : slot[s] = 0 => slot'[s] = 0
    BY <1>4
  <2>. QED BY <1>1, <2>1 DEF SearchInv
<1>11. ReaderInv'
  <2>1. \A i, j \in DOMAIN rd.copied : rd.copied[i] = rd.copied[j] => i = j
    BY DEF ReaderInv
  <2>2. \A i \in DOMAIN tl : tl[i] \in Slots /\ tl[i] # h
    BY <1>3, <2>1
  <2>3. \A i, j \in DOMAIN tl : tl[i] = tl[j] => i = j
    <3>1. SUFFICES ASSUME NEW i \in DOMAIN tl, NEW j \in DOMAIN tl, tl[i] = tl[j]
                   PROVE  i = j
      OBVIOUS
    <3>2. i + 1 = j + 1 /\ i \in Nat /\ j \in Nat
      BY <1>3, <2>1, <3>1
    <3>. QED BY <3>2
  <2>4. \A i \in DOMAIN tl : slot'[tl[i]] \in handed \/ (draft = "temp" /\ slot'[tl[i]] \in short)
    BY <1>1, <1>3, <1>4, <2>2 DEF ReaderInv
  <2>5. draft = "temp" => Len(tl) <= 1
    <3>1. Len(tl) \in Nat /\ Len(rd.copied) \in Nat
      BY <1>2, <1>3
    <3>. QED BY <1>3, <3>1 DEF ReaderInv
  <2>6. rd'.got \subseteq handed'
    BY <1>1, <1>5 DEF ReaderInv
  <2>. QED BY <1>1, <1>5, <2>3, <2>4, <2>5, <2>6 DEF ReaderInv
<1>12. StampInv'
  BY <1>1, <1>6 DEF StampInv
<1>13. LostOnlyWhenFull'
  <2>1. /\ Elements(slot') \subseteq Elements(slot) \cup {0}
        /\ Elements(slot) \subseteq Elements(slot') \cup {slot[h]}
    BY <1>2, <1>4 DEF Elements
  <2>2. Gone' \subseteq Gone \cup {slot[h]} /\ Gone \subseteq Gone'
    BY <1>1, <1>6, <2>1 DEF Gone, Kept, Come
  <2>3. draft # "temp" => Gone' = Gone
    BY <1>1, <1>7, <2>2 DEF Gone, Kept
  <2>4. \A p \in Gone' : p \in full \/ (draft = "temp" /\ p \in short)
    BY <1>1, <1>7, <2>2 DEF LostOnlyWhenFull, Gone, Kept
  <2>. QED BY <1>1, <2>3, <2>4 DEF LostOnlyWhenFull
<1>. QED BY <1>8, <1>9, <1>10, <1>11, <1>12, <1>13

LEMMA StutterInv == Sizes /\ DraftInv /\ UNCHANGED vars => DraftInv'
<1>. SUFFICES ASSUME Sizes, DraftInv, UNCHANGED vars PROVE DraftInv'
  OBVIOUS
<1>1. UNCHANGED <<draft, uid, slot, current_index, count_pkt_overflow, log, user_log, rx, rd,
                  stored, handed, short, full>>
  BY DEF vars, cache, past
<1>2. Come' = Come
  BY <1>1 DEF Come
<1>3. Gone' = Gone
  BY <1>1 DEF Gone, Kept
<1>. QED BY <1>1, <1>2, <1>3 DEF DraftInv, TypeOK, HandlerInv, SearchInv, ReaderInv, StampInv,
                                 LostOnlyWhenFull

LEMMA NextInv == Sizes /\ DraftInv /\ [Next]_vars => DraftInv'
<1>. SUFFICES ASSUME Sizes, DraftInv, [Next]_vars PROVE DraftInv'
  OBVIOUS
<1>1. CASE rxhPacketIn
  BY <1>1, RxEnterInv, RxStoreInv, RxTryInv, RxOverflowInv, RxAdvanceInv, RxStampInv
     DEF rxhPacketIn
<1>2. CASE read
  BY <1>2, ReadBeginInv, ReadScanInv, ReadEmptyInv, ReadDeliverInv, ReadFaultInv, ReadFreeInv
     DEF read
<1>3. CASE ProcessBatch
  BY <1>3, ProcessBatchInv
<1>4. CASE UNCHANGED vars
  BY <1>4, StutterInv
<1>. QED BY <1>1, <1>2, <1>3, <1>4 DEF Next

LEMMA DraftInvariant ==
  ASSUME Sizes
  PROVE  Spec => []DraftInv
<1>1. Init => DraftInv
  BY InitInv
<1>2. DraftInv /\ [Next]_vars => DraftInv'
  BY NextInv
<1>. QED BY <1>1, <1>2, PTL DEF Spec

-----------------------------------------------------------------------------
(* legacy stamps a packet after it published it and looks its uid up in the *)
(* slot; still every stamp is of a stored packet, under its own uid and no  *)
(* later than the process's, or under 0 because the process was faster.     *)
THEOREM StampsAreOwn ==
  ASSUME Sizes
  PROVE  Spec => []StampsOwn
<1>1. DraftInv => StampsOwn
  <2>. SUFFICES ASSUME DraftInv, NEW u \in LogUids, log[u] # 0
                PROVE  /\ log[u] \in stored
                       /\ \/ uid[log[u]] = u /\ (user_log[u] # 0 => log[u] <= user_log[u])
                          \/ u = 0 /\ log[u] \in handed
    BY DEF StampsOwn
  <2>1. log[u] \in stored /\ (uid[log[u]] = u \/ (u = 0 /\ log[u] \in handed))
    BY DEF DraftInv, StampInv
  <2>2. ASSUME uid[log[u]] = u, user_log[u] # 0 PROVE log[u] <= user_log[u]
    <3>1. PICK p \in Come : uid[p] = u /\ p <= user_log[u]
      BY <2>2 DEF DraftInv, StampInv
    <3>2. p = log[u]
      BY <2>1, <2>2, <3>1 DEF DraftInv, HandlerInv, TypeOK
    <3>. QED BY <3>1, <3>2
  <2>. QED BY <2>1, <2>2
<1>. QED BY <1>1, DraftInvariant, PTL

(* A packet that is neither cached nor read met a full cache, or a length   *)
(* of 0 in temp; legacy counts every one it loses.                          *)
THEOREM LossNeedsFull ==
  ASSUME Sizes
  PROVE  Spec => []LostOnlyWhenFull
<1>1. DraftInv => LostOnlyWhenFull
  BY DEF DraftInv
<1>. QED BY <1>1, DraftInvariant, PTL
=============================================================================
