------------------------------ MODULE EbpfMaps ------------------------------
(***************************************************************************)
(* The eBPF measurement: the XDP program of ebpf_measure_kern.c stamps a   *)
(* packet in the array map uid_timestamps and copies its payload into the  *)
(* array map pkt_payload, both under the packet's uid; the process of      *)
(* ebpf_measure_user.c polls pkt_payload at next_uid, stamps what it finds *)
(* in its own log, and on SIGINT writes both logs to files.                *)
(*                                                                         *)
(* Array maps are memory without a lock: bpf_map_update_elem and           *)
(* bpf_map_lookup_elem copy a value word by word.  A payload is here the   *)
(* words client_uid, uid and "rest" (type and created_time), copied in     *)
(* that order on both sides.  The client numbers its packets from 0 to     *)
(* MAX_LOG_ENTRY, which are exactly the keys of the maps: the program's    *)
(* lookups and updates never fail, and the key, the low half of the uid,   *)
(* is the uid.  The network may lose, reorder and duplicate packets.       *)
(***************************************************************************)
EXTENDS LogBuffs, FiniteSets

CONSTANTS
  Cpus,         (* CPUs that run the XDP program                           *)
  MaxArrivals   (* bound: packets that reach it                            *)

ASSUME EbpfSizes == MaxArrivals \in Nat /\ IsFiniteSet(Cpus)

Keys == 0 .. MAX_LOG_ENTRY
LogUids == 0 .. MAX_LOG_ENTRY - 1

VARIABLES
  uid_timestamps, pkt_payload, xdp_stats_map, (* the maps                   *)
  prog,             (* locals of the XDP program, per CPU                   *)
  user,             (* locals of the process: pc, next_uid, map_pl, and the *)
                    (* entry i that the export has reached                  *)
  global_exit,
  log_buffs, file_us, file_kern,
  clock,            (* the monotonic clock both sides read                  *)
  arrived, repeated,    (* history: the uids that arrived, and arrived more *)
  arrivals              (* than once, and the number of arrivals            *)

maps == <<uid_timestamps, pkt_payload, xdp_stats_map>>
process == <<user, log_buffs, file_us, file_kern>>
history == <<arrived, repeated, arrivals>>
vars == <<maps, prog, process, global_exit, clock, history>>

NoPayload == [client_uid |-> 0, uid |-> 0, rest |-> 0]

(* The log is malloc'ed and not cleared, but one buffer has 256 KiB: malloc *)
(* maps such a block afresh, which gives zeros.                             *)
Init ==
  /\ uid_timestamps = [k \in Keys |-> 0]
  /\ pkt_payload = [k \in Keys |-> NoPayload]
  /\ xdp_stats_map = [c \in Cpus |-> 0]
  /\ prog = [c \in Cpus |-> [pc |-> "idle", uid |-> 0, now |-> 0]]
  /\ user = [pc |-> "head", next_uid |-> 0, map_pl |-> NoPayload, i |-> 0]
  /\ global_exit = FALSE
  /\ log_buffs = [l \in LogCells |-> 0]
  /\ file_us = [u \in LogUids |-> 0] /\ file_kern = [u \in LogUids |-> 0]
  /\ clock = 0 /\ arrived = {} /\ repeated = {} /\ arrivals = 0

-----------------------------------------------------------------------------
(* xdp_sock_prog on CPU c.  What is not a payload for the port is passed on *)
(* untouched, as every packet is in the end (XDP_PASS).                     *)

ProgEnter(c) ==
  /\ prog[c].pc = "idle" /\ user.pc # "detached" /\ arrivals < MaxArrivals
  /\ \E uid \in Keys :
       /\ prog' = [prog EXCEPT ![c] = [pc |-> "stamp", uid |-> uid, now |-> clock + 1]]
       /\ arrived' = arrived \cup {uid}
       /\ repeated' = repeated \cup ({uid} \cap arrived)
  /\ clock' = clock + 1 /\ arrivals' = arrivals + 1
  /\ UNCHANGED <<maps, process, global_exit>>

ProgAt(c, at, next) ==
  /\ prog[c].pc = at
  /\ prog' = [prog EXCEPT ![c].pc = next]
  /\ UNCHANGED <<process, global_exit, clock, history>>

ProgStampsNonZero(c) ==                                        \* a mutant
  /\ ProgAt(c, "stamp", "head")
  /\ uid_timestamps' = IF prog[c].uid = 0 THEN uid_timestamps
                       ELSE [uid_timestamps EXCEPT ![prog[c].uid] = prog[c].now]
  /\ UNCHANGED <<pkt_payload, xdp_stats_map>>
ProgStamp(c) ==
  /\ ProgAt(c, "stamp", "head")
  /\ uid_timestamps' = [uid_timestamps EXCEPT ![prog[c].uid] = prog[c].now]
  /\ UNCHANGED <<pkt_payload, xdp_stats_map>>

(* bpf_map_update_elem of pkt_payload, in three. *)
ProgCopyHead(c) ==
  /\ ProgAt(c, "head", "uid")
  /\ pkt_payload' = [pkt_payload EXCEPT ![prog[c].uid].client_uid = 1]
  /\ UNCHANGED <<uid_timestamps, xdp_stats_map>>
ProgCopyUid(c) ==
  /\ ProgAt(c, "uid", "rest")
  /\ pkt_payload' = [pkt_payload EXCEPT ![prog[c].uid].uid = prog[c].uid]
  /\ UNCHANGED <<uid_timestamps, xdp_stats_map>>
ProgCopyRest(c) ==
  /\ ProgAt(c, "rest", "count")
  /\ pkt_payload' = [pkt_payload EXCEPT ![prog[c].uid].rest = 1]
  /\ UNCHANGED <<uid_timestamps, xdp_stats_map>>

(* The counter is per CPU: its ++ races with no one. *)
ProgCount(c) ==
  /\ ProgAt(c, "count", "idle")
  /\ xdp_stats_map' = [xdp_stats_map EXCEPT ![c] = @ + 1]
  /\ UNCHANGED <<uid_timestamps, pkt_payload>>

xdp_sock_prog(c) ==
  \/ ProgEnter(c) \/ ProgStamp(c) \/ ProgCopyHead(c) \/ ProgCopyUid(c)
  \/ ProgCopyRest(c) \/ ProgCount(c)

-----------------------------------------------------------------------------
(* The process.  SIGINT may come at any time. *)

exit_application ==
  /\ ~global_exit
  /\ global_exit' = TRUE
  /\ UNCHANGED <<maps, prog, process, clock, history>>

others == <<maps, prog, global_exit, history>>

(* fetch_and_process_packet: bpf_map_lookup_elem of next_uid, in three.  It *)
(* fails beyond the last key, where a torn copy of the last packet can take *)
(* next_uid; the loop then spins until SIGINT.                              *)
FetchHead ==
  /\ user.pc = "head" /\ ~global_exit /\ user.next_uid \in Keys
  /\ user' = [user EXCEPT !.pc = "uid",
                          !.map_pl.client_uid = pkt_payload[user.next_uid].client_uid]
  /\ UNCHANGED <<others, log_buffs, file_us, file_kern, clock>>
FetchUid ==
  /\ user.pc = "uid"
  /\ user' = [user EXCEPT !.pc = "rest", !.map_pl.uid = pkt_payload[user.next_uid].uid]
  /\ UNCHANGED <<others, log_buffs, file_us, file_kern, clock>>
FetchRest ==
  /\ user.pc = "rest"
  /\ user' = [user EXCEPT !.pc = "check", !.map_pl.rest = pkt_payload[user.next_uid].rest]
  /\ UNCHANGED <<others, log_buffs, file_us, file_kern, clock>>

AcceptsNonZero(pl) ==                                          \* a mutant
  pl.client_uid # 0 /\ pl.rest # 0 /\ Loggable(pl.uid) /\ pl.uid > 0
Accepts(pl) == pl.client_uid # 0 /\ pl.rest # 0 /\ Loggable(pl.uid)

NextWraps(u) == (u + 1) % MAX_LOG_ENTRY                        \* a mutant
NextUid(u) == u + 1

ProcessPacket ==
  /\ user.pc = "check" /\ Accepts(user.map_pl)
  /\ log_buffs' = [log_buffs EXCEPT ![LogCell(user.map_pl.uid)] = clock + 1]
  /\ clock' = clock + 1
  /\ user' = [user EXCEPT !.pc = "head", !.next_uid = NextUid(@), !.map_pl = NoPayload]
  /\ UNCHANGED <<others, file_us, file_kern>>
SkipsMissing ==                                                \* a mutant
  /\ user.pc = "check" /\ ~Accepts(user.map_pl)
  /\ user' = [user EXCEPT !.pc = "head", !.map_pl = NoPayload,
                          !.next_uid = IF @ < MAX_LOG_ENTRY THEN @ + 1 ELSE @]
  /\ UNCHANGED <<others, log_buffs, file_us, file_kern, clock>>
NothingToProcess ==
  /\ user.pc = "check" /\ ~Accepts(user.map_pl)
  /\ user' = [user EXCEPT !.pc = "head", !.map_pl = NoPayload]
  /\ UNCHANGED <<others, log_buffs, file_us, file_kern, clock>>

(* The loop is left, and the process's own log exported: nobody writes it.  *)
ExportUser ==
  /\ user.pc = "head" /\ global_exit
  /\ file_us' = [u \in LogUids |-> log_buffs[LogCell(u)]]
  /\ user' = [user EXCEPT !.pc = "export", !.i = 0]
  /\ UNCHANGED <<others, log_buffs, file_kern, clock>>

(* uid_timestamps is exported entry by entry; the program still runs. *)
ExportedTo == MAX_LOG_ENTRY - 1                                \* a mutant
ExportedKeys == MAX_LOG_ENTRY + 1                              \* a mutant
Exported == MAX_LOG_ENTRY
ExportKern ==
  /\ user.pc = "export" /\ user.i < Exported
  /\ file_kern' = [file_kern EXCEPT ![user.i] = uid_timestamps[user.i]]
  /\ user' = [user EXCEPT !.i = @ + 1]
  /\ UNCHANGED <<others, log_buffs, file_us, clock>>

(* xdp_link_detach, and exit. *)
Detach ==
  /\ user.pc = "export" /\ user.i = Exported
  /\ user' = [user EXCEPT !.pc = "detached"]
  /\ UNCHANGED <<others, log_buffs, file_us, file_kern, clock>>

main ==
  \/ FetchHead \/ FetchUid \/ FetchRest \/ ProcessPacket \/ NothingToProcess
  \/ ExportUser \/ ExportKern \/ Detach

Next == (\E c \in Cpus : xdp_sock_prog(c)) \/ exit_application \/ main

Spec == Init /\ [][Next]_vars

(* The program runs to its end, and the process is scheduled.               *)
FairSpec ==
  /\ Spec
  /\ \A c \in Cpus : WF_vars(prog[c].pc # "idle" /\ xdp_sock_prog(c))
  /\ WF_vars(main)

-----------------------------------------------------------------------------
(* Properties *)

Stamp(u) == log_buffs[LogCell(u)]

PayloadType == [client_uid : {0, 1}, uid : Keys, rest : {0, 1}]

TypeOK ==
  /\ uid_timestamps \in [Keys -> Nat] /\ pkt_payload \in [Keys -> PayloadType]
  /\ xdp_stats_map \in [Cpus -> Nat]
  /\ prog \in [Cpus -> [pc : {"idle", "stamp", "head", "uid", "rest", "count"},
                        uid : Keys, now : Nat]]
  /\ user \in [pc : {"head", "uid", "rest", "check", "export", "detached"},
               next_uid : 0 .. MAX_LOG_ENTRY + 1, map_pl : PayloadType, i : Keys]
  /\ global_exit \in BOOLEAN
  /\ log_buffs \in [LogCells -> Nat]
  /\ file_us \in [LogUids -> Nat] /\ file_kern \in [LogUids -> Nat]
  /\ clock \in Nat /\ arrivals \in Nat
  /\ arrived \subseteq Keys /\ repeated \subseteq arrived

(* Wherever the process has a stamp the kernel has an earlier one, so that  *)
(* no latency computed from the two logs is negative or made of one stamp:  *)
(* the program stamps before it lets the payload be seen (lines 86-110).    *)
(* If the uid came twice the kernel's stamp may be the later one: the       *)
(* program overwrites it, the process never looks at an old uid again.      *)
KernelStampedFirst ==
  \A u \in LogUids : Stamp(u) # 0 =>
    uid_timestamps[u] # 0 /\ (u \notin repeated => uid_timestamps[u] < Stamp(u))

(* The process logs nothing beyond the first uid that never arrived: the    *)
(* log is a prefix, whatever the order of arrival and however reads and     *)
(* updates of the maps interleave.                                          *)
LogsArrivedPrefix == \A u \in LogUids : Stamp(u) # 0 => 0 .. u \subseteq arrived

(* A torn copy (client_uid and rest new, uid still 0) is taken for uid 0,   *)
(* and next_uid moves on: the stamp of 0 is overwritten.  No other stamp of *)
(* the process ever is.                                                     *)
OnlyZeroRestamped ==
  [][\A u \in LogUids \ {0} : Stamp(u) # 0 => Stamp(u)' = Stamp(u)]_vars

(* The counters of xdp_stats_map add up to the packets handled, on however  *)
(* many CPUs: <<c, n>> stands for the n-th packet that CPU c counted.       *)
StatsExact ==
  (\A c \in Cpus : prog[c].pc = "idle")
    => Cardinality(UNION {{c} \X (1 .. xdp_stats_map[c]) : c \in Cpus}) = arrivals

(* The two files agree, although uid_timestamps keeps changing while it is  *)
(* exported: a packet in the process's file is in the kernel's, and earlier *)
(* there unless it came twice.                                              *)
FilesAgree ==
  user.pc = "detached" =>
    \A u \in LogUids : file_us[u] # 0 =>
      file_kern[u] # 0 /\ (u \notin repeated => file_kern[u] < file_us[u])

(* If every uid up to u arrives, the process gets past u, or is told to     *)
(* stop: one missing payload holds up all later ones, nothing else does.    *)
EventuallyPast ==
  \A u \in LogUids : (0 .. u \subseteq arrived) ~> (user.next_uid > u \/ global_exit)

-----------------------------------------------------------------------------
(* Why it holds: the inductive invariant the proofs rest on.                *)

Fetching == user.pc \in {"uid", "rest", "check"}
Stored(k) == pkt_payload[k] # NoPayload

(* The program writes no word of a payload before the stamp of its uid, and *)
(* does not stamp again a uid that came once.                               *)
ProgInv ==
  \A c \in Cpus : prog[c].pc # "idle" =>
    /\ prog[c].uid \in arrived /\ prog[c].now \in 1 .. clock
    /\ prog[c].pc # "stamp" => uid_timestamps[prog[c].uid] # 0
    /\ prog[c].pc = "stamp" /\ uid_timestamps[prog[c].uid] # 0
         => prog[c].uid \in repeated
    /\ \A d \in Cpus \ {c} : prog[d].pc # "idle" /\ prog[d].uid = prog[c].uid
         => prog[c].uid \in repeated

MapsInv ==
  \A k \in Keys :
    /\ uid_timestamps[k] <= clock
    /\ uid_timestamps[k] # 0 => k \in arrived
    /\ Stored(k) => uid_timestamps[k] # 0
    /\ pkt_payload[k].uid \in {0, k}

(* The process holds words of one payload: its own copy may be torn, but    *)
(* then its uid is 0 or the one asked for.                                  *)
FetchInv ==
  /\ Fetching => user.next_uid \in Keys
  /\ ~Fetching => user.map_pl = NoPayload
  /\ user.map_pl # NoPayload => uid_timestamps[user.next_uid] # 0
  /\ user.map_pl.uid \in {0, user.next_uid}

LogInv ==
  /\ \A k \in Keys : k < user.next_uid => uid_timestamps[k] # 0
  /\ \A u \in LogUids : Stamp(u) # 0 =>
       /\ u < user.next_uid /\ Stamp(u) <= clock
       /\ u \notin repeated => uid_timestamps[u] < Stamp(u)

(* What is exported is what the log and the map said when it was copied.    *)
ExportInv ==
  user.pc \in {"export", "detached"} =>
    \A u \in LogUids :
      /\ file_us[u] = Stamp(u)
      /\ (u < user.i \/ user.pc = "detached") /\ Stamp(u) # 0 =>
           file_kern[u] # 0 /\ (u \notin repeated => file_kern[u] < Stamp(u))

EbpfInv == TypeOK /\ ProgInv /\ MapsInv /\ FetchInv /\ LogInv /\ ExportInv

(* What a CPU has counted, with the packet it is at.                        *)
Reached(c) == IF prog[c].pc = "idle" THEN xdp_stats_map[c] ELSE xdp_stats_map[c] + 1
ReachedPackets == UNION {{c} \X (1 .. Reached(c)) : c \in Cpus}
StatsInv == IsFiniteSet(ReachedPackets) /\ Cardinality(ReachedPackets) = arrivals
=============================================================================
