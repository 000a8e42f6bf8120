-------------------------- MODULE EbpfMaps_proofs --------------------------
(***************************************************************************)
(* The two logs of the eBPF measurement, for any size of the maps and the  *)
(* logs, any number of CPUs and any number of arrivals.                    *)
(***************************************************************************)
EXTENDS EbpfMaps, LogBuffs_proofs, FiniteSetTheorems

LEMMA Sizes ==
  /\ MAX_LOG_ENTRY \in Nat \ {0} /\ 0 \in Keys /\ 0 \in LogUids
  /\ LogUids \subseteq Keys /\ Keys \subseteq Nat
<1>1. MAX_LOG_ENTRY \in Nat \ {0}
  BY LogSizes DEF MAX_LOG_ENTRY
<1>. QED BY <1>1 DEF LogUids, Keys

(* A stamp goes to the cell of its uid and changes no other.                *)
LEMMA StampWritten ==
  ASSUME TypeOK, NEW v \in LogUids, NEW t \in Nat,
         log_buffs' = [log_buffs EXCEPT ![LogCell(v)] = t]
  PROVE  /\ log_buffs' \in [LogCells -> Nat]
         /\ \A u \in LogUids : Stamp(u)' = IF u = v THEN t ELSE Stamp(u)
<1>1. \A u \in LogUids : u \in Nat /\ Loggable(u) /\ LogCell(u) \in LogCells
  BY Sizes, LogCellInBounds DEF LogUids, Loggable
<1>2. \A u \in LogUids : LogCell(u) = LogCell(v) => u = v
  BY <1>1, LogCellInjective
<1>3. log_buffs \in [LogCells -> Nat]
  BY DEF TypeOK
<1>. QED BY <1>1, <1>2, <1>3 DEF Stamp

LEMMA StampType == TypeOK => \A u \in LogUids : Stamp(u) \in Nat
<1>1. \A u \in LogUids : LogCell(u) \in LogCells
  BY Sizes, LogCellInBounds DEF LogUids, Loggable
<1>. QED BY <1>1 DEF TypeOK, Stamp

LEMMA InitEbpf == Init => EbpfInv
<1>. SUFFICES ASSUME Init PROVE EbpfInv
  OBVIOUS
<1>1. \A u \in LogUids : LogCell(u) \in LogCells
  BY Sizes, LogCellInBounds DEF LogUids, Loggable
<1>2. TypeOK
  <2>1. NoPayload \in PayloadType
    BY Sizes DEF NoPayload, PayloadType
  <2>2. 0 \in 0 .. MAX_LOG_ENTRY + 1
    BY Sizes
  <2>. QED BY <2>1, <2>2, Sizes DEF Init, TypeOK
<1>3. ProgInv
  BY DEF Init, ProgInv
<1>4. MapsInv
  BY Sizes DEF Init, MapsInv, Stored, NoPayload
<1>5. FetchInv
  BY DEF Init, FetchInv, Fetching, NoPayload
<1>6. LogInv
  BY <1>1, Sizes DEF Init, LogInv, Stamp
<1>7. ExportInv
  BY DEF Init, ExportInv
<1>. QED BY <1>2, <1>3, <1>4, <1>5, <1>6, <1>7 DEF EbpfInv

-----------------------------------------------------------------------------
(* The program. *)

LEMMA StutterStep == EbpfInv /\ UNCHANGED vars => EbpfInv'
<1>. SUFFICES ASSUME EbpfInv, UNCHANGED vars PROVE EbpfInv'
  OBVIOUS
<1>. USE DEF vars, maps, process, history
<1>1. TypeOK'
  BY DEF EbpfInv, TypeOK
<1>2. ProgInv'
  BY DEF EbpfInv, ProgInv
<1>3. MapsInv'
  BY DEF EbpfInv, MapsInv, Stored
<1>4. FetchInv'
  BY DEF EbpfInv, FetchInv, Fetching
<1>5. LogInv'
  BY DEF EbpfInv, LogInv, Stamp
<1>6. ExportInv'
  BY DEF EbpfInv, ExportInv, Stamp
<1>. QED BY <1>1, <1>2, <1>3, <1>4, <1>5, <1>6 DEF EbpfInv

LEMMA EnterStep ==
  ASSUME EbpfInv, NEW c \in Cpus, ProgEnter(c)
  PROVE  EbpfInv'
<1>1. PICK uid \in Keys :
        /\ prog' = [prog EXCEPT ![c] = [pc |-> "stamp", uid |-> uid, now |-> clock + 1]]
        /\ arrived' = arrived \cup {uid}
        /\ repeated' = repeated \cup ({uid} \cap arrived)
  BY DEF ProgEnter
<1>2. /\ clock' = clock + 1 /\ arrivals' = arrivals + 1
      /\ UNCHANGED <<uid_timestamps, pkt_payload, xdp_stats_map>>
      /\ UNCHANGED <<user, log_buffs, file_us, file_kern, global_exit>>
      /\ prog[c].pc = "idle"
  BY DEF ProgEnter, maps, process
<1>3. TypeOK'
  BY <1>1, <1>2 DEF EbpfInv, TypeOK
<1>4. ProgInv'
  <2>1. \A d \in Cpus \ {c} : prog'[d] = prog[d]
    BY <1>1 DEF EbpfInv, TypeOK
  <2>2. prog'[c] = [pc |-> "stamp", uid |-> uid, now |-> clock + 1]
    BY <1>1 DEF EbpfInv, TypeOK
  <2>3. \A d \in Cpus \ {c} : prog[d].pc # "idle" /\ prog[d].uid = uid => uid \in repeated'
    BY <1>1 DEF EbpfInv, ProgInv
  <2>4. uid_timestamps[uid] # 0 => uid \in repeated'
    BY <1>1 DEF EbpfInv, MapsInv
  <2>5. clock \in Nat
    BY DEF EbpfInv, TypeOK
  <2>. QED BY <1>1, <1>2, <2>1, <2>2, <2>3, <2>4, <2>5 DEF EbpfInv, ProgInv
<1>5. MapsInv'
  BY <1>1, <1>2, Sizes DEF EbpfInv, TypeOK, MapsInv, Stored
<1>6. FetchInv'
  BY <1>2 DEF EbpfInv, FetchInv, Fetching
<1>7. LogInv'
  <2>1. clock \in Nat /\ \A u \in LogUids : Stamp(u)' = Stamp(u) /\ Stamp(u) \in Nat
    BY <1>2, StampType DEF Stamp, EbpfInv, TypeOK
  <2>. QED BY <1>1, <1>2, <2>1 DEF EbpfInv, LogInv
<1>8. ExportInv'
  BY <1>1, <1>2 DEF EbpfInv, ExportInv, Stamp
<1>. QED BY <1>3, <1>4, <1>5, <1>6, <1>7, <1>8 DEF EbpfInv

LEMMA StampStep ==
  ASSUME EbpfInv, NEW c \in Cpus, ProgStamp(c)
  PROVE  EbpfInv'
<1>. DEFINE k == prog[c].uid
<1>1. /\ prog[c].pc = "stamp"
      /\ prog' = [prog EXCEPT ![c].pc = "head"]
      /\ uid_timestamps' = [uid_timestamps EXCEPT ![k] = prog[c].now]
      /\ UNCHANGED <<pkt_payload, xdp_stats_map, global_exit, clock>>
      /\ UNCHANGED <<user, log_buffs, file_us, file_kern>>
      /\ UNCHANGED <<arrived, repeated, arrivals>>
  BY DEF ProgStamp, ProgAt, process, history
<1>2. k \in Keys /\ k \in arrived /\ prog[c].now \in 1 .. clock /\ clock \in Nat
  BY <1>1 DEF EbpfInv, TypeOK, ProgInv
<1>3. \A l \in Keys : uid_timestamps'[l] = IF l = k THEN prog[c].now ELSE uid_timestamps[l]
  BY <1>1 DEF EbpfInv, TypeOK
<1>. HIDE DEF k
<1>4. TypeOK'
  BY <1>1, <1>2 DEF EbpfInv, TypeOK
<1>5. ProgInv'
  <2>1. \A d \in Cpus \ {c} : prog'[d] = prog[d]
    BY <1>1 DEF EbpfInv, TypeOK
  <2>2. prog'[c].pc = "head" /\ prog'[c].uid = k /\ prog'[c].now = prog[c].now
    BY <1>1 DEF EbpfInv, TypeOK, k
  <2>3. \A d \in Cpus \ {c} : prog[d].pc # "idle" /\ prog[d].uid = k => k \in repeated
    BY <1>1 DEF EbpfInv, ProgInv, k
  <2>4. \A d \in Cpus : prog[d].uid \in Keys
    BY DEF EbpfInv, TypeOK
  <2>. QED BY <1>1, <1>2, <1>3, <2>1, <2>2, <2>3, <2>4 DEF EbpfInv, ProgInv
<1>6. MapsInv'
  BY <1>1, <1>2, <1>3 DEF EbpfInv, MapsInv, Stored
<1>7. FetchInv'
  BY <1>1, <1>2, <1>3 DEF EbpfInv, FetchInv, Fetching
<1>8. LogInv'
  <2>1. \A u \in LogUids : Stamp(u)' = Stamp(u) /\ u \in Keys
    BY <1>1, Sizes DEF Stamp
  <2>2. uid_timestamps[k] # 0 => k \in repeated
    BY <1>1 DEF EbpfInv, ProgInv, k
  <2>3. \A u \in LogUids : Stamp(u) # 0 => uid_timestamps[u] # 0
    BY <2>1 DEF EbpfInv, LogInv
  <2>. QED BY <1>1, <1>2, <1>3, <2>1, <2>2, <2>3 DEF EbpfInv, LogInv
<1>9. ExportInv'
  BY <1>1 DEF EbpfInv, ExportInv, Stamp
<1>. QED BY <1>4, <1>5, <1>6, <1>7, <1>8, <1>9 DEF EbpfInv

(* A step of the copying, or of the counting: the program moves on, and the *)
(* words of its payload are its own.                                        *)
LEMMA CopyStep ==
  ASSUME EbpfInv, NEW c \in Cpus, prog[c].pc \in {"head", "uid", "rest", "count"},
         NEW next \in {"uid", "rest", "count", "idle"},
         prog' = [prog EXCEPT ![c].pc = next],
         UNCHANGED <<process, global_exit, clock, history, uid_timestamps>>,
         NEW pl \in PayloadType, pl.uid \in {0, prog[c].uid},
         pkt_payload' = [pkt_payload EXCEPT ![prog[c].uid] = pl],
         xdp_stats_map' \in [Cpus -> Nat]
  PROVE  EbpfInv'
<1>. DEFINE k == prog[c].uid
<1>1. /\ UNCHANGED <<user, log_buffs, file_us, file_kern>>
      /\ UNCHANGED <<arrived, repeated, arrivals, global_exit, clock, uid_timestamps>>
  BY DEF process, history
<1>2. k \in Keys /\ uid_timestamps[k] # 0
  BY DEF EbpfInv, TypeOK, ProgInv
<1>3. \A l \in Keys : pkt_payload'[l] = IF l = k THEN pl ELSE pkt_payload[l]
  BY DEF EbpfInv, TypeOK
<1>4. TypeOK'
  BY <1>1, <1>2 DEF EbpfInv, TypeOK
<1>5. ProgInv'
  <2>1. \A d \in Cpus \ {c} : prog'[d] = prog[d]
    BY DEF EbpfInv, TypeOK
  <2>2. prog'[c].pc = next /\ prog'[c].uid = prog[c].uid /\ prog'[c].now = prog[c].now
    BY DEF EbpfInv, TypeOK
  <2>. QED BY <1>1, <2>1, <2>2 DEF EbpfInv, ProgInv
<1>6. MapsInv'
  BY <1>1, <1>2, <1>3 DEF EbpfInv, MapsInv, Stored
<1>7. FetchInv'
  BY <1>1 DEF EbpfInv, FetchInv, Fetching
<1>8. LogInv'
  BY <1>1 DEF EbpfInv, LogInv, Stamp
<1>9. ExportInv'
  BY <1>1 DEF EbpfInv, ExportInv, Stamp
<1>. QED BY <1>4, <1>5, <1>6, <1>7, <1>8, <1>9 DEF EbpfInv

LEMMA CopySteps ==
  ASSUME EbpfInv, NEW c \in Cpus,
         ProgCopyHead(c) \/ ProgCopyUid(c) \/ ProgCopyRest(c) \/ ProgCount(c)
  PROVE  EbpfInv'
<1>. DEFINE k == prog[c].uid
            old == pkt_payload[k]
<1>1. /\ k \in Keys /\ old \in PayloadType /\ old.uid \in {0, k}
      /\ xdp_stats_map \in [Cpus -> Nat] /\ pkt_payload \in [Keys -> PayloadType]
  BY DEF EbpfInv, TypeOK, MapsInv
<1>2. CASE ProgCopyHead(c)
  <2>1. /\ prog[c].pc = "head" /\ prog' = [prog EXCEPT ![c].pc = "uid"]
        /\ UNCHANGED <<process, global_exit, clock, history, uid_timestamps, xdp_stats_map>>
    BY <1>2 DEF ProgCopyHead, ProgAt
  <2>2. /\ [old EXCEPT !.client_uid = 1] \in PayloadType
        /\ [old EXCEPT !.client_uid = 1].uid \in {0, k}
        /\ pkt_payload' = [pkt_payload EXCEPT ![k] = [old EXCEPT !.client_uid = 1]]
    BY <1>1, <1>2 DEF ProgCopyHead, PayloadType
  <2>. QED BY <1>1, <2>1, <2>2, CopyStep
<1>3. CASE ProgCopyUid(c)
  <2>1. /\ prog[c].pc = "uid" /\ prog' = [prog EXCEPT ![c].pc = "rest"]
        /\ UNCHANGED <<process, global_exit, clock, history, uid_timestamps, xdp_stats_map>>
    BY <1>3 DEF ProgCopyUid, ProgAt
  <2>2. /\ [old EXCEPT !.uid = k] \in PayloadType
        /\ [old EXCEPT !.uid = k].uid \in {0, k}
        /\ pkt_payload' = [pkt_payload EXCEPT ![k] = [old EXCEPT !.uid = k]]
    BY <1>1, <1>3 DEF ProgCopyUid, PayloadType
  <2>. QED BY <1>1, <2>1, <2>2, CopyStep
<1>4. CASE ProgCopyRest(c)
  <2>1. /\ prog[c].pc = "rest" /\ prog' = [prog EXCEPT ![c].pc = "count"]
        /\ UNCHANGED <<process, global_exit, clock, history, uid_timestamps, xdp_stats_map>>
    BY <1>4 DEF ProgCopyRest, ProgAt
  <2>2. /\ [old EXCEPT !.rest = 1] \in PayloadType
        /\ [old EXCEPT !.rest = 1].uid \in {0, k}
        /\ pkt_payload' = [pkt_payload EXCEPT ![k] = [old EXCEPT !.rest = 1]]
    BY <1>1, <1>4 DEF ProgCopyRest, PayloadType
  <2>. QED BY <1>1, <2>1, <2>2, CopyStep
<1>5. CASE ProgCount(c)
  <2>1. /\ prog[c].pc = "count" /\ prog' = [prog EXCEPT ![c].pc = "idle"]
        /\ UNCHANGED <<process, global_exit, clock, history, uid_timestamps, pkt_payload>>
    BY <1>5 DEF ProgCount, ProgAt
  <2>2. xdp_stats_map' \in [Cpus -> Nat] /\ pkt_payload' = [pkt_payload EXCEPT ![k] = old]
    BY <1>1, <1>5, <2>1 DEF ProgCount
  <2>. QED BY <1>1, <2>1, <2>2, CopyStep
<1>. QED BY <1>2, <1>3, <1>4, <1>5

-----------------------------------------------------------------------------
(* The process.  Its steps leave the maps and the program alone. *)

LEMMA ProcessKeeps ==
  ASSUME EbpfInv, UNCHANGED others, clock' \in Nat, clock' >= clock
  PROVE  ProgInv' /\ MapsInv'
<1>1. UNCHANGED <<uid_timestamps, pkt_payload, prog, arrived, repeated>>
  BY DEF others, maps, history
<1>2. \A c \in Cpus : prog[c].now \in Nat
  BY DEF EbpfInv, TypeOK
<1>3. clock \in Nat /\ \A k \in Keys : uid_timestamps[k] \in Nat
  BY DEF EbpfInv, TypeOK
<1>. QED BY <1>1, <1>2, <1>3 DEF EbpfInv, ProgInv, MapsInv, Stored

LEMMA InterruptStep ==
  ASSUME EbpfInv, exit_application
  PROVE  EbpfInv'
<1>. USE DEF exit_application, maps, process, history
<1>1. TypeOK'
  BY DEF EbpfInv, TypeOK
<1>2. ProgInv'
  BY DEF EbpfInv, ProgInv
<1>3. MapsInv'
  BY DEF EbpfInv, MapsInv, Stored
<1>4. FetchInv'
  BY DEF EbpfInv, FetchInv, Fetching
<1>5. LogInv'
  BY DEF EbpfInv, LogInv, Stamp
<1>6. ExportInv'
  BY DEF EbpfInv, ExportInv, Stamp
<1>. QED BY <1>1, <1>2, <1>3, <1>4, <1>5, <1>6 DEF EbpfInv

(* A step of the polling loop that logs nothing: it holds words of the      *)
(* payload it asked for, or none.                                           *)
LEMMA PollStep ==
  ASSUME EbpfInv, UNCHANGED <<others, log_buffs, file_us, file_kern, clock>>,
         user.pc \in {"head", "uid", "rest", "check"},
         user.next_uid \in Keys,
         NEW pc \in {"head", "uid", "rest", "check"}, NEW pl \in PayloadType,
         user' = [user EXCEPT !.pc = pc, !.map_pl = pl],
         pc = "head" => pl = NoPayload,
         pl # NoPayload => uid_timestamps[user.next_uid] # 0,
         pl.uid \in {0, user.next_uid}
  PROVE  EbpfInv'
<1>1. /\ UNCHANGED <<uid_timestamps, pkt_payload, xdp_stats_map, prog, global_exit>>
      /\ UNCHANGED <<arrived, repeated, arrivals>>
  BY DEF others, maps, history
<1>2. /\ user'.pc = pc /\ user'.map_pl = pl
      /\ user'.next_uid = user.next_uid /\ user'.i = user.i
  BY DEF EbpfInv, TypeOK
<1>3. TypeOK'
  BY <1>1 DEF EbpfInv, TypeOK
<1>4. ProgInv' /\ MapsInv'
  BY ProcessKeeps DEF EbpfInv, TypeOK
<1>5. FetchInv'
  BY <1>1, <1>2 DEF FetchInv, Fetching
<1>6. LogInv'
  BY <1>1, <1>2 DEF EbpfInv, LogInv, Stamp
<1>7. ExportInv'
  BY <1>2 DEF ExportInv
<1>. QED BY <1>3, <1>4, <1>5, <1>6, <1>7 DEF EbpfInv

LEMMA PollSteps ==
  ASSUME EbpfInv, FetchHead \/ FetchUid \/ FetchRest \/ NothingToProcess
  PROVE  EbpfInv'
<1>. DEFINE n == user.next_uid
            got == user.map_pl
<1>1. /\ user.pc \in {"head", "uid", "rest", "check"} /\ n \in Keys
      /\ UNCHANGED <<others, log_buffs, file_us, file_kern, clock>>
  BY DEF FetchHead, FetchUid, FetchRest, NothingToProcess, EbpfInv, FetchInv, Fetching
<1>2. /\ got \in PayloadType /\ got.uid \in {0, n}
      /\ got # NoPayload => uid_timestamps[n] # 0
  BY DEF EbpfInv, TypeOK, FetchInv
<1>3. /\ pkt_payload[n] \in PayloadType /\ pkt_payload[n].uid \in {0, n}
      /\ pkt_payload[n] # NoPayload => uid_timestamps[n] # 0
  BY <1>1 DEF EbpfInv, TypeOK, MapsInv, Stored
<1>4. user \in [pc : {"head", "uid", "rest", "check", "export", "detached"},
                next_uid : 0 .. MAX_LOG_ENTRY + 1, map_pl : PayloadType, i : Keys]
  BY DEF EbpfInv, TypeOK
<1>5. CASE FetchHead
  <2>. DEFINE pl == [got EXCEPT !.client_uid = pkt_payload[n].client_uid]
  <2>1. /\ pl \in PayloadType /\ pl.uid \in {0, n}
        /\ pl # NoPayload => uid_timestamps[n] # 0
    BY <1>2, <1>3 DEF PayloadType, NoPayload
  <2>2. user' = [user EXCEPT !.pc = "uid", !.map_pl = pl]
    BY <1>4, <1>5 DEF FetchHead
  <2>. QED BY <1>1, <2>1, <2>2, PollStep
<1>6. CASE FetchUid
  <2>. DEFINE pl == [got EXCEPT !.uid = pkt_payload[n].uid]
  <2>1. /\ pl \in PayloadType /\ pl.uid \in {0, n}
        /\ pl # NoPayload => uid_timestamps[n] # 0
    BY <1>2, <1>3 DEF PayloadType, NoPayload
  <2>2. user' = [user EXCEPT !.pc = "rest", !.map_pl = pl]
    BY <1>4, <1>6 DEF FetchUid
  <2>. QED BY <1>1, <2>1, <2>2, PollStep
<1>7. CASE FetchRest
  <2>. DEFINE pl == [got EXCEPT !.rest = pkt_payload[n].rest]
  <2>1. /\ pl \in PayloadType /\ pl.uid \in {0, n}
        /\ pl # NoPayload => uid_timestamps[n] # 0
    BY <1>2, <1>3 DEF PayloadType, NoPayload
  <2>2. user' = [user EXCEPT !.pc = "check", !.map_pl = pl]
    BY <1>4, <1>7 DEF FetchRest
  <2>. QED BY <1>1, <2>1, <2>2, PollStep
<1>8. CASE NothingToProcess
  <2>1. NoPayload \in PayloadType /\ NoPayload.uid \in {0, n}
    BY Sizes DEF PayloadType, NoPayload
  <2>2. user' = [user EXCEPT !.pc = "head", !.map_pl = NoPayload]
    BY <1>8 DEF NothingToProcess
  <2>. QED BY <1>1, <2>1, <2>2, PollStep
<1>. QED BY <1>5, <1>6, <1>7, <1>8

(* The process logs the uid it asked for, or 0; both are stamped already.   *)
LEMMA LoggedUid ==
  ASSUME EbpfInv, ProcessPacket
  PROVE  /\ user.map_pl.uid \in LogUids
         /\ user.map_pl.uid \in {0, user.next_uid} /\ user.next_uid \in Keys
         /\ uid_timestamps[user.next_uid] # 0
         /\ uid_timestamps[user.map_pl.uid] # 0
<1>. DEFINE v == user.map_pl.uid
            n == user.next_uid
<1>1. user.pc = "check" /\ Accepts(user.map_pl)
  BY DEF ProcessPacket
<1>2. v \in Keys /\ v < MAX_LOG_ENTRY /\ user.map_pl # NoPayload
  BY <1>1 DEF EbpfInv, TypeOK, PayloadType, Accepts, Loggable, NoPayload
<1>3. v \in {0, n} /\ n \in Keys /\ uid_timestamps[n] # 0
  BY <1>1, <1>2 DEF EbpfInv, FetchInv, Fetching
<1>4. uid_timestamps[v] # 0
  BY <1>2, <1>3, Sizes DEF EbpfInv, LogInv, Keys
<1>5. v \in LogUids
  BY <1>2, Sizes DEF Keys, LogUids
<1>. QED BY <1>3, <1>4, <1>5

LEMMA ProcessStep ==
  ASSUME EbpfInv, ProcessPacket
  PROVE  EbpfInv'
<1>. DEFINE v == user.map_pl.uid
            n == user.next_uid
<1>1. /\ user.pc = "check" /\ UNCHANGED others /\ UNCHANGED <<file_us, file_kern>>
      /\ clock' = clock + 1
      /\ user' = [user EXCEPT !.pc = "head", !.next_uid = n + 1, !.map_pl = NoPayload]
      /\ log_buffs' = [log_buffs EXCEPT ![LogCell(v)] = clock + 1]
  BY DEF ProcessPacket, NextUid
<1>2. /\ v \in LogUids /\ v \in {0, n} /\ n \in Keys
      /\ uid_timestamps[n] # 0 /\ uid_timestamps[v] # 0
  BY LoggedUid
<1>3. /\ UNCHANGED <<uid_timestamps, pkt_payload, xdp_stats_map, prog, global_exit>>
      /\ UNCHANGED <<arrived, repeated, arrivals>>
  BY <1>1 DEF others, maps, history
<1>4. clock \in Nat
  BY DEF EbpfInv, TypeOK
<1>5. /\ log_buffs' \in [LogCells -> Nat]
      /\ \A u \in LogUids : Stamp(u)' = IF u = v THEN clock + 1 ELSE Stamp(u)
  <2>1. clock + 1 \in Nat
    BY <1>4
  <2>. QED BY <1>1, <1>2, <2>1, StampWritten DEF EbpfInv
<1>6. /\ user'.pc = "head" /\ user'.next_uid = n + 1
      /\ user'.map_pl = NoPayload /\ user'.i = user.i
  BY <1>1 DEF EbpfInv, TypeOK
<1>. HIDE DEF v, n
<1>7. TypeOK'
  <2>1. NoPayload \in PayloadType /\ n + 1 \in 0 .. MAX_LOG_ENTRY + 1
    BY <1>2, Sizes DEF NoPayload, PayloadType, Keys
  <2>2. user' \in [pc : {"head", "uid", "rest", "check", "export", "detached"},
                   next_uid : 0 .. MAX_LOG_ENTRY + 1, map_pl : PayloadType, i : Keys]
    BY <1>1, <2>1 DEF EbpfInv, TypeOK
  <2>. QED BY <1>1, <1>3, <1>4, <1>5, <2>2 DEF EbpfInv, TypeOK
<1>8. ProgInv' /\ MapsInv'
  BY <1>1, <1>4, ProcessKeeps
<1>9. FetchInv'
  <2>1. NoPayload.uid = 0
    BY DEF NoPayload
  <2>. QED BY <1>6, <2>1 DEF FetchInv, Fetching
<1>10. LogInv'
  <2>0. n \in Nat /\ v \in Nat /\ \A k \in Keys : k \in Nat
    BY <1>2, Sizes
  <2>1. ASSUME NEW k \in Keys, k < n + 1
        PROVE  uid_timestamps[k] # 0
    <3>1. CASE k = n
      BY <1>2, <3>1
    <3>2. CASE k # n
      <4>1. k < n
        BY <2>0, <2>1, <3>2
      <4>. QED BY <4>1 DEF EbpfInv, LogInv, n
    <3>. QED BY <3>1, <3>2
  <2>2. \A u \in LogUids : Stamp(u) \in Nat /\ u \in Nat /\ u \in Keys
    BY StampType, Sizes DEF EbpfInv
  <2>3. v < n + 1 /\ uid_timestamps[v] < clock + 1
    BY <1>2, <1>4, <2>2, Sizes DEF EbpfInv, MapsInv, TypeOK
  <2>4. ASSUME NEW u \in LogUids, Stamp(u)' # 0
        PROVE  /\ u < n + 1 /\ Stamp(u)' <= clock + 1
               /\ u \notin repeated => uid_timestamps[u] < Stamp(u)'
    <3>1. CASE u = v
      BY <1>4, <1>5, <2>3, <3>1
    <3>2. CASE u # v
      <4>1. Stamp(u)' = Stamp(u) /\ Stamp(u) # 0
        BY <1>5, <2>4, <3>2
      <4>2. /\ u < n /\ Stamp(u) <= clock
            /\ u \notin repeated => uid_timestamps[u] < Stamp(u)
        BY <4>1 DEF EbpfInv, LogInv, n
      <4>. QED BY <1>4, <2>0, <2>2, <4>1, <4>2
    <3>. QED BY <3>1, <3>2
  <2>. QED BY <1>1, <1>3, <1>6, <2>1, <2>4 DEF LogInv
<1>11. ExportInv'
  BY <1>6 DEF ExportInv
<1>. QED BY <1>7, <1>8, <1>9, <1>10, <1>11 DEF EbpfInv

LEMMA ExportSteps ==
  ASSUME EbpfInv, ExportUser \/ ExportKern \/ Detach
  PROVE  EbpfInv'
<1>1. /\ UNCHANGED <<uid_timestamps, pkt_payload, xdp_stats_map, prog, global_exit>>
      /\ UNCHANGED <<arrived, repeated, arrivals, clock, log_buffs>>
  BY DEF ExportUser, ExportKern, Detach, others, maps, history
<1>2. \A u \in LogUids : Stamp(u)' = Stamp(u) /\ Stamp(u) \in Nat
  BY <1>1, StampType DEF Stamp, EbpfInv
<1>3. ProgInv' /\ MapsInv'
  BY <1>1, ProcessKeeps DEF EbpfInv, TypeOK, others, maps, history
<1>4. /\ user'.next_uid = user.next_uid /\ user'.map_pl = user.map_pl
      /\ user'.pc \in {"export", "detached"} /\ user.pc \in {"head", "export"}
  BY DEF ExportUser, ExportKern, Detach, EbpfInv, TypeOK
<1>5. FetchInv'
  BY <1>1, <1>4 DEF EbpfInv, FetchInv, Fetching
<1>6. LogInv'
  BY <1>1, <1>2, <1>4 DEF EbpfInv, LogInv
<1>7. TypeOK' /\ ExportInv'
  <2>1. CASE ExportUser
    <3>1. /\ file_us' \in [LogUids -> Nat] /\ file_kern' = file_kern
          /\ \A u \in LogUids : file_us'[u] = Stamp(u)
      BY <1>2, <2>1 DEF ExportUser, Stamp
    <3>2. user'.pc = "export" /\ user'.i = 0
      BY <2>1 DEF ExportUser, EbpfInv, TypeOK
    <3>3. TypeOK'
      BY <1>1, <2>1, <3>1, Sizes DEF ExportUser, EbpfInv, TypeOK
    <3>4. ExportInv'
      BY <1>2, <3>1, <3>2 DEF ExportInv, LogUids
    <3>. QED BY <3>3, <3>4
  <2>2. CASE ExportKern
    <3>1. /\ user.i \in LogUids /\ file_us' = file_us
          /\ file_kern' = [file_kern EXCEPT ![user.i] = uid_timestamps[user.i]]
          /\ user' = [user EXCEPT !.i = user.i + 1]
      BY <2>2, Sizes DEF ExportKern, EbpfInv, TypeOK, Exported, Keys, LogUids
    <3>2. user'.pc = "export" /\ user'.i = user.i + 1 /\ user.pc = "export"
      BY <2>2, <3>1 DEF ExportKern, EbpfInv, TypeOK
    <3>3. TypeOK'
      <4>1. user.i + 1 \in Keys
        BY <3>1, Sizes DEF LogUids, Keys
      <4>2. user.i \in Keys /\ uid_timestamps[user.i] \in Nat
        BY <3>1, Sizes DEF EbpfInv, TypeOK
      <4>. QED BY <1>1, <3>1, <4>1, <4>2 DEF EbpfInv, TypeOK
    <3>4. ASSUME NEW u \in LogUids, u < user.i + 1, Stamp(u) # 0
          PROVE  file_kern'[u] # 0 /\ (u \notin repeated => file_kern'[u] < Stamp(u))
      <4>1. CASE u = user.i
        <5>1. file_kern'[u] = uid_timestamps[u]
          BY <3>1, <4>1 DEF EbpfInv, TypeOK
        <5>2. u \in Keys /\ u < user.next_uid
          BY <3>4, Sizes DEF EbpfInv, LogInv
        <5>. QED BY <3>4, <5>1, <5>2 DEF EbpfInv, LogInv
      <4>2. CASE u # user.i
        <5>1. user.i \in Nat /\ u \in Nat /\ file_kern \in [LogUids -> Nat]
          BY <3>1, <3>4, Sizes DEF EbpfInv, TypeOK, LogUids
        <5>2. file_kern'[u] = file_kern[u]
          BY <3>1, <3>4, <4>2, <5>1
        <5>3. u < user.i
          BY <3>4, <4>2, <5>1
        <5>. QED BY <3>2, <3>4, <5>2, <5>3 DEF EbpfInv, ExportInv
      <4>. QED BY <4>1, <4>2
    <3>5. ExportInv'
      BY <1>1, <1>2, <3>1, <3>2, <3>4 DEF EbpfInv, ExportInv
    <3>. QED BY <3>3, <3>5
  <2>3. CASE Detach
    <3>1. /\ user.pc = "export" /\ user.i = MAX_LOG_ENTRY
          /\ user' = [user EXCEPT !.pc = "detached"] /\ UNCHANGED <<file_us, file_kern>>
      BY <2>3 DEF Detach, Exported
    <3>2. TypeOK'
      BY <1>1, <3>1 DEF EbpfInv, TypeOK
    <3>3. \A u \in LogUids : u < user.i
      BY <3>1, Sizes DEF LogUids
    <3>4. ExportInv'
      BY <1>1, <1>2, <3>1, <3>3 DEF EbpfInv, ExportInv
    <3>. QED BY <3>2, <3>4
  <2>. QED BY <2>1, <2>2, <2>3
<1>. QED BY <1>3, <1>5, <1>6, <1>7 DEF EbpfInv

-----------------------------------------------------------------------------
LEMMA EbpfStep == EbpfInv /\ [Next]_vars => EbpfInv'
<1>. SUFFICES ASSUME EbpfInv, [Next]_vars PROVE EbpfInv'
  OBVIOUS
<1>1. CASE \E c \in Cpus : xdp_sock_prog(c)
  BY <1>1, EnterStep, StampStep, CopySteps DEF xdp_sock_prog
<1>2. CASE exit_application
  BY <1>2, InterruptStep
<1>3. CASE main
  BY <1>3, PollSteps, ProcessStep, ExportSteps DEF main
<1>. QED BY <1>1, <1>2, <1>3, StutterStep DEF Next

LEMMA EbpfInvariant == Spec => []EbpfInv
  BY InitEbpf, EbpfStep, PTL DEF Spec

(* No index leaves a map, a log or a file: the process stops asking at the  *)
(* last key, although torn copies of the last packet may take next_uid one  *)
(* further, and the export of the maps ends with the log.                   *)
THEOREM EbpfTypeCorrect == Spec => []TypeOK
<1>1. EbpfInv => TypeOK
  BY DEF EbpfInv
<1>. QED BY <1>1, EbpfInvariant, PTL

(* The kernel's stamp comes first: what the process has stamped, the XDP    *)
(* program had stamped before it let the payload be seen.                   *)
THEOREM KernelFirst == Spec => []KernelStampedFirst
<1>1. EbpfInv => KernelStampedFirst
  <2>. SUFFICES ASSUME EbpfInv, NEW u \in LogUids, Stamp(u) # 0
                PROVE  /\ uid_timestamps[u] # 0
                       /\ u \notin repeated => uid_timestamps[u] < Stamp(u)
    BY DEF KernelStampedFirst
  <2>1. u \in Keys
    BY Sizes
  <2>. QED BY <2>1 DEF EbpfInv, LogInv
<1>. QED BY <1>1, EbpfInvariant, PTL

(* One packet that never arrives is the last the process looks for.         *)
THEOREM PrefixLogged == Spec => []LogsArrivedPrefix
<1>1. EbpfInv => LogsArrivedPrefix
  <2>. SUFFICES ASSUME EbpfInv, NEW u \in LogUids, Stamp(u) # 0, NEW k \in 0 .. u
                PROVE  k \in arrived
    BY DEF LogsArrivedPrefix
  <2>1. k \in Keys /\ u < user.next_uid /\ u \in Nat
    BY Sizes DEF EbpfInv, LogInv, LogUids, Keys
  <2>2. uid_timestamps[k] # 0
    BY <2>1 DEF EbpfInv, LogInv, TypeOK
  <2>. QED BY <2>1, <2>2 DEF EbpfInv, MapsInv
<1>. QED BY <1>1, EbpfInvariant, PTL

(* The two files fit together, however much the kernel's map changes while  *)
(* it is written out.                                                       *)
THEOREM ExportedFilesAgree == Spec => []FilesAgree
<1>1. EbpfInv => FilesAgree
  BY DEF EbpfInv, ExportInv, FilesAgree
<1>. QED BY <1>1, EbpfInvariant, PTL

(* A torn copy costs the stamp of uid 0, and never another one.             *)
THEOREM TornCopiesHitZeroOnly == Spec => OnlyZeroRestamped
<1>1. EbpfInv /\ [Next]_vars
        => [\A u \in LogUids \ {0} : Stamp(u) # 0 => Stamp(u)' = Stamp(u)]_vars
  <2>. SUFFICES ASSUME EbpfInv, Next, NEW u \in LogUids, u # 0, Stamp(u) # 0
                PROVE  Stamp(u)' = Stamp(u)
    OBVIOUS
  <2>1. CASE ProcessPacket
    <3>. DEFINE v == user.map_pl.uid
    <3>1. v \in LogUids /\ v \in {0, user.next_uid} /\ user.next_uid \in Keys
      BY <2>1, LoggedUid
    <3>2. u # v
      BY <3>1, Sizes DEF EbpfInv, LogInv, Keys
    <3>3. clock + 1 \in Nat /\ log_buffs' = [log_buffs EXCEPT ![LogCell(v)] = clock + 1]
      BY <2>1 DEF ProcessPacket, EbpfInv, TypeOK
    <3>. QED BY <3>1, <3>2, <3>3, StampWritten DEF EbpfInv
  <2>2. CASE ~ProcessPacket
    <3>1. log_buffs' = log_buffs
      BY <2>2 DEF Next, main, xdp_sock_prog, ProgEnter, ProgStamp, ProgCopyHead,
         ProgCopyUid, ProgCopyRest, ProgCount, ProgAt, exit_application, process,
         FetchHead, FetchUid, FetchRest, NothingToProcess, ExportUser, ExportKern, Detach
    <3>. QED BY <3>1 DEF Stamp
  <2>. QED BY <2>1, <2>2
<1>. QED BY <1>1, EbpfInvariant, PTL DEF Spec, OnlyZeroRestamped

-----------------------------------------------------------------------------
(* The statistics: a CPU that enters has reached one packet more, and has   *)
(* reached no more when it has counted it.                                  *)

LEMMA ReachedSame ==
  ASSUME \A c \in Cpus : Reached(c)' = Reached(c)
  PROVE  ReachedPackets' = ReachedPackets
  BY DEF ReachedPackets

LEMMA StatsEnter ==
  ASSUME TypeOK, StatsInv, NEW c \in Cpus, ProgEnter(c)
  PROVE  StatsInv'
<1>. DEFINE n == xdp_stats_map[c] + 1
<1>1. /\ xdp_stats_map' = xdp_stats_map /\ arrivals' = arrivals + 1
      /\ prog[c].pc = "idle" /\ prog'[c].pc = "stamp"
      /\ \A d \in Cpus \ {c} : prog'[d] = prog[d]
  BY DEF ProgEnter, TypeOK, maps
<1>2. \A d \in Cpus : xdp_stats_map[d] \in Nat
  BY DEF TypeOK
<1>3. Reached(c) = xdp_stats_map[c] /\ Reached(c)' = n
  BY <1>1 DEF Reached
<1>4. \A d \in Cpus \ {c} : Reached(d)' = Reached(d)
  BY <1>1 DEF Reached
<1>5. 1 .. n = (1 .. xdp_stats_map[c]) \cup {n} /\ n \notin 1 .. xdp_stats_map[c]
  BY <1>2
<1>6. /\ ReachedPackets' = ReachedPackets \cup {<<c, n>>}
      /\ <<c, n>> \notin ReachedPackets
  <2>. HIDE DEF n
  <2>. QED BY <1>3, <1>4, <1>5 DEF ReachedPackets
<1>. QED BY <1>1, <1>6, FS_AddElement DEF StatsInv

LEMMA StatsCount ==
  ASSUME TypeOK, StatsInv, NEW c \in Cpus, ProgCount(c)
  PROVE  StatsInv'
<1>1. /\ xdp_stats_map' = [xdp_stats_map EXCEPT ![c] = xdp_stats_map[c] + 1]
      /\ prog[c].pc = "count" /\ prog' = [prog EXCEPT ![c].pc = "idle"]
      /\ arrivals' = arrivals
  BY DEF ProgCount, ProgAt, history
<1>2. \A d \in Cpus : Reached(d)' = Reached(d)
  BY <1>1 DEF Reached, TypeOK
<1>. QED BY <1>1, <1>2, ReachedSame DEF StatsInv

LEMMA StatsStep ==
  ASSUME TypeOK, StatsInv, [Next]_vars
  PROVE  StatsInv'
<1>1. ASSUME NEW c \in Cpus, ProgEnter(c) PROVE StatsInv'
  BY <1>1, StatsEnter
<1>2. ASSUME NEW c \in Cpus, ProgCount(c) PROVE StatsInv'
  BY <1>2, StatsCount
<1>3. ASSUME NEW c \in Cpus,
             ProgStamp(c) \/ ProgCopyHead(c) \/ ProgCopyUid(c) \/ ProgCopyRest(c)
      PROVE  StatsInv'
  <2>1. /\ xdp_stats_map' = xdp_stats_map /\ arrivals' = arrivals
        /\ prog[c].pc # "idle" /\ \E next \in {"head", "uid", "rest", "count"} :
                                    prog' = [prog EXCEPT ![c].pc = next]
    BY <1>3 DEF ProgStamp, ProgCopyHead, ProgCopyUid, ProgCopyRest, ProgAt, history
  <2>2. \A d \in Cpus : Reached(d)' = Reached(d)
    BY <2>1 DEF Reached, TypeOK
  <2>. QED BY <2>1, <2>2, ReachedSame DEF StatsInv
<1>4. ASSUME UNCHANGED <<xdp_stats_map, prog, arrivals>> PROVE StatsInv'
  <2>1. \A d \in Cpus : Reached(d)' = Reached(d)
    BY <1>4 DEF Reached
  <2>. QED BY <1>4, <2>1, ReachedSame DEF StatsInv
<1>5. exit_application \/ main => UNCHANGED <<xdp_stats_map, prog, arrivals>>
  BY DEF exit_application, main, FetchHead, FetchUid, FetchRest, ProcessPacket,
         NothingToProcess, ExportUser, ExportKern, Detach, others, maps, history
<1>6. UNCHANGED vars => UNCHANGED <<xdp_stats_map, prog, arrivals>>
  BY DEF vars, maps, history
<1>. QED BY <1>1, <1>2, <1>3, <1>4, <1>5, <1>6 DEF Next, xdp_sock_prog

(* However many CPUs count at the same time, no increment is lost.          *)
THEOREM StatisticsExact == Spec => []StatsExact
<1>1. Init => StatsInv
  <2>. SUFFICES ASSUME Init PROVE StatsInv
    OBVIOUS
  <2>1. \A c \in Cpus : Reached(c) = 0
    BY DEF Init, Reached
  <2>2. ReachedPackets = {}
    BY <2>1 DEF ReachedPackets
  <2>. QED BY <2>2, FS_EmptySet DEF StatsInv, Init
<1>2. StatsInv => StatsExact
  BY DEF StatsInv, StatsExact, ReachedPackets, Reached
<1>. QED BY <1>1, <1>2, StatsStep, EbpfTypeCorrect, PTL DEF Spec
=============================================================================
