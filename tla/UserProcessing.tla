--------------------------- MODULE UserProcessing ---------------------------
(***************************************************************************)
(* kernel_module/user-processing.c: a process that polls the proc file of  *)
(* the kernel module, stamps every packet it gets in its own log, and      *)
(* writes the log to a file on SIGINT.  What a pread does in the kernel is *)
(* between EnterRead and LeaveRead.                                        *)
(*                                                                         *)
(* The file defines _XOPEN_SOURCE, with which signal() installs a one-shot *)
(* handler: a second SIGINT kills the process, in the middle of its export *)
(* too.                                                                    *)
(***************************************************************************)
EXTENDS LogBuffs

VARIABLES
  user_running,   (* keep_running                                           *)
  user_pc,        (* "loop", "read", "process", "done" or "killed"          *)
  batch,          (* uids of the packets in buff_read not yet looked at     *)
  user_log, file_user,
  wrong           (* history: uids reported as "Something wrong"            *)

Init ==
  /\ user_running = TRUE /\ user_pc = "loop" /\ batch = {} /\ wrong = {}
  /\ user_log = [l \in LogCells |-> 0]
  /\ file_user = [u \in 0 .. MAX_LOG_ENTRY - 1 |-> 0]

sig_handler ==
  /\ user_running /\ user_pc # "killed" /\ user_running' = FALSE
  /\ UNCHANGED <<user_pc, batch, user_log, file_user, wrong>>

Terminated ==
  /\ ~user_running /\ user_pc \in {"loop", "process"} /\ user_pc' = "killed"
  /\ UNCHANGED <<user_running, batch, user_log, file_user, wrong>>

(* pread: buff_read is cleared first. *)
EnterRead ==
  /\ user_pc = "loop" /\ user_running
  /\ user_pc' = "read" /\ batch' = {}
  /\ UNCHANGED <<user_running, user_log, file_user, wrong>>

Take(uids) ==
  /\ user_pc = "read" /\ batch' = uids
  /\ UNCHANGED <<user_running, user_pc, user_log, file_user, wrong>>

LeaveRead ==
  /\ user_pc = "read" /\ user_pc' = "process"
  /\ UNCHANGED <<user_running, batch, user_log, file_user, wrong>>

(* The next packet of the batch; which is next does not matter here.        *)
ProcessPacket(now) ==
  /\ user_pc = "process"
  /\ \E uid \in batch :
       /\ batch' = batch \ {uid}
       /\ IF Loggable(uid)
          THEN user_log' = [user_log EXCEPT ![LogCell(uid)] = now] /\ UNCHANGED wrong
          ELSE wrong' = wrong \cup {uid} /\ UNCHANGED user_log
  /\ UNCHANGED <<user_running, user_pc, file_user>>

LeavesBatch ==                                                 \* a mutant
  /\ user_pc = "process" /\ (batch = {} \/ ~user_running)
  /\ user_pc' = "loop"
  /\ UNCHANGED <<user_running, batch, user_log, file_user, wrong>>
EndOfBatch ==
  /\ user_pc = "process" /\ batch = {}
  /\ user_pc' = "loop"
  /\ UNCHANGED <<user_running, batch, user_log, file_user, wrong>>

Export ==
  /\ user_pc = "loop" /\ ~user_running
  /\ file_user' = [u \in 0 .. MAX_LOG_ENTRY - 1 |-> user_log[LogCell(u)]]
  /\ user_pc' = "done"
  /\ UNCHANGED <<user_running, batch, user_log, wrong>>
=============================================================================
