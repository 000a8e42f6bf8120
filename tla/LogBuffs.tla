------------------------------ MODULE LogBuffs ------------------------------
(***************************************************************************)
(* The two-level timestamp log every program of the repository keeps:      *)
(* NUM_LOG_BUFF separately allocated buffers of MAX_ENTRIES_PER_LOG_BUFF   *)
(* words each, addressed by the uid a packet carries.  The sizes come from *)
(* common.h; the addressing is the one of rxhPacketIn, which the two       *)
(* user-space receivers and the socket server repeat word for word.        *)
(***************************************************************************)
EXTENDS Integers

CONSTANTS
  NUM_LOG_BUFF,             (* how many log buffers are allocated          *)
  MAX_ENTRIES_PER_LOG_BUFF  (* how many timestamps one log buffer holds    *)

(* common.h derives NUM_LOG_BUFF = MAX_LOG_ENTRY / MAX_ENTRIES_PER_LOG_BUFF *)
(* from two powers of two, so the division is exact as long as one buffer   *)
(* is not larger than the whole log.                                        *)
ASSUME LogSizes ==
  /\ NUM_LOG_BUFF \in Nat \ {0}
  /\ MAX_ENTRIES_PER_LOG_BUFF \in Nat \ {0}

MAX_LOG_ENTRY == NUM_LOG_BUFF * MAX_ENTRIES_PER_LOG_BUFF

LogCells == (0 .. NUM_LOG_BUFF - 1) \X (0 .. MAX_ENTRIES_PER_LOG_BUFF - 1)

(* The guard uid<MAX_LOG_ENTRY: a packet with a larger uid is never logged. *)
Loggable(uid) == uid < MAX_LOG_ENTRY

(* log_buffs[uid / MAX_ENTRIES_PER_LOG_BUFF][uid % MAX_ENTRIES_PER_LOG_BUFF] *)
LogCell(uid) ==
  << uid \div MAX_ENTRIES_PER_LOG_BUFF, uid % MAX_ENTRIES_PER_LOG_BUFF >>
=============================================================================
