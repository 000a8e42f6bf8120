-------------------------- MODULE LogBuffs_proofs --------------------------
(***************************************************************************)
(* The two-level log never writes outside its buffers, and two uids never  *)
(* share a cell: the arithmetic every receiver of the repository repeats.  *)
(***************************************************************************)
EXTENDS LogBuffs, TLAPS

(* What C division gives for naturals. *)
LEMMA DivMod ==
  ASSUME NEW a \in Nat, NEW b \in Nat \ {0}
  PROVE  /\ a \div b \in Nat
         /\ a % b \in 0 .. b - 1
         /\ a = b * (a \div b) + (a % b)
  BY SMT

LEMMA QuotientBound ==
  ASSUME NEW n \in Nat, NEW m \in Nat \ {0}, NEW q \in Nat, NEW r \in Nat,
         m * q + r < n * m
  PROVE  q < n
<1>1. SUFFICES ASSUME q >= n PROVE FALSE
  OBVIOUS
<1>2. q - n \in Nat
  BY <1>1
<1>3. m * (q - n) >= 0
  BY <1>2, SMT
<1>4. m * q = n * m + m * (q - n)
  BY SMT
<1>. QED BY <1>3, <1>4

(* log_buffs[uid / MAX_ENTRIES_PER_LOG_BUFF][uid % MAX_ENTRIES_PER_LOG_BUFF] *)
(* stays inside the allocated buffers for every uid the guard lets through:  *)
(* the bounds of common.h and the guard at line 234 agree.                   *)
THEOREM LogCellInBounds ==
  ASSUME NEW uid \in Nat, Loggable(uid)
  PROVE  LogCell(uid) \in LogCells
<1>. DEFINE N == NUM_LOG_BUFF
            M == MAX_ENTRIES_PER_LOG_BUFF
            q == uid \div M
            r == uid % M
<1>1. /\ N \in Nat \ {0}
      /\ M \in Nat \ {0}
  BY LogSizes
<1>2. q \in Nat /\ r \in 0 .. M - 1 /\ uid = M * q + r
  BY <1>1, DivMod
<1>3. uid < N * M
  BY DEF Loggable, MAX_LOG_ENTRY
<1>. HIDE DEF q, r
<1>4. q < N
  BY <1>1, <1>2, <1>3, QuotientBound
<1>5. q \in 0 .. N - 1
  BY <1>1, <1>2, <1>4
<1>. QED BY <1>2, <1>5 DEF LogCell, LogCells, q, r

(* Two packets write the same cell only if they carry the same uid, so a    *)
(* stamp found at a uid is the stamp of a packet with that uid.             *)
THEOREM LogCellInjective ==
  ASSUME NEW u \in Nat, NEW v \in Nat, LogCell(u) = LogCell(v)
  PROVE  u = v
<1>1. /\ u = MAX_ENTRIES_PER_LOG_BUFF * (u \div MAX_ENTRIES_PER_LOG_BUFF)
             + (u % MAX_ENTRIES_PER_LOG_BUFF)
      /\ v = MAX_ENTRIES_PER_LOG_BUFF * (v \div MAX_ENTRIES_PER_LOG_BUFF)
             + (v % MAX_ENTRIES_PER_LOG_BUFF)
  BY LogSizes, DivMod
<1>2. /\ u \div MAX_ENTRIES_PER_LOG_BUFF = v \div MAX_ENTRIES_PER_LOG_BUFF
      /\ u % MAX_ENTRIES_PER_LOG_BUFF = v % MAX_ENTRIES_PER_LOG_BUFF
  BY DEF LogCell
<1>. QED BY <1>1, <1>2
=============================================================================
