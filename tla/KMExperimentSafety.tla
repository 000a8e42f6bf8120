------------------------- MODULE KMExperimentSafety -------------------------
(***************************************************************************)
(* What the logs of one measurement with the kernel module are good for:   *)
(* the figures that scripts/ computes from the three files.                *)
(***************************************************************************)
EXTENDS KMExperiment

Zeroed(file) == Cardinality({u \in LogUids : file[u] = 0})

(* No latency computed from the files is negative, and none is computed     *)
(* from a stamp the kernel's file lacks: whatever the process has a stamp   *)
(* of was stamped by the handler before, and the server's stamp is no       *)
(* earlier where there are both.  And of the packets only the one that the  *)
(* client sends too many (client.c:56) has no place in the log.             *)
StampsInOrder ==
  /\ wrong \subseteq {MAX_LOG_ENTRY}
  /\ \A u \in LogUids : LET k == kern_log[LogCell(u)] IN
       /\ user_log[LogCell(u)] # 0 => k # 0 /\ k <= user_log[LogCell(u)]
       /\ server_log[LogCell(u)] # 0 /\ k # 0 => k <= server_log[LogCell(u)]

(* The difference of the two "Zeroed" figures is the loss: when both logs   *)
(* are exported, in either order, it is the number of packets the cache     *)
(* dropped or still held when the process stopped.                          *)
LossIsZeroDifference ==
  user_pc = "done" /\ km \in {"exported", "unloaded"} =>
    Zeroed(file_user) - Zeroed(file_kern) = Cardinality((dropped \cup stored) \cap LogUids)

StampedInFile == {u \in LogUids : file_server[u] # 0}

(* A server that was not interrupted has in its file the uid it takes for   *)
(* the last, and everything that reached its socket before that.            *)
ServerFileComplete ==
  server_pc = "done" /\ keep_running =>
    \E k \in DOMAIN queued :
      /\ queued[k] = MAX_LOG_ENTRY - 1
      /\ \A j \in 1 .. k : Loggable(queued[j]) => queued[j] \in StampedInFile

(* Once uid MAX_LOG_ENTRY - 1 is in its socket the server ends by itself.   *)
ServerEnds ==
  (\E k \in DOMAIN queued : queued[k] = MAX_LOG_ENTRY - 1)
    ~> server_pc \in {"done", "killed"}

-----------------------------------------------------------------------------
(* Inductive invariants.  Only uids that are no longer in flight have been   *)
(* seen by anyone, so a packet that arrives finds its cells empty in the two *)
(* logs that are stamped after the kernel's.                                 *)
Landed == (0 .. uid - 1) \ in_flight

TypeOK ==
  /\ uid \in Nat /\ uid <= MAX_LOG_ENTRY + 1 /\ in_flight \subseteq 0 .. uid - 1
  /\ clock \in Nat \ {0} /\ passing \in Keys \cup {None}
  /\ km \in {"loaded", "unhooked", "exported", "unloaded"}
  /\ reading \in {"no", "scan", "release"}
  /\ user_pc \in {"loop", "read", "process", "done", "killed"}
  /\ server_pc \in {"loop", "recv", "export", "done", "killed"}
  /\ user_running \in BOOLEAN /\ keep_running \in BOOLEAN
  /\ kern_log \in [LogCells -> Nat] /\ user_log \in [LogCells -> Nat]
  /\ server_log \in [LogCells -> Nat]
  /\ queue \in Seq(Keys) /\ queued \in Seq(Keys)

Taken == arriving \cup stored \cup delivered \cup dropped

FlowInv ==
  /\ Taken \subseteq Landed
  /\ passing # None => passing \in Landed
  /\ \A i \in 1 .. Len(queued) : queued[i] \in Landed
  /\ \A u \in LogUids : server_log[LogCell(u)] # 0 => u \in Landed

(* A packet has one fate, and the process's batch is what the read returned. *)
StoreInv ==
  /\ km # "loaded" => arriving = {}
  /\ arriving \cap (stored \cup delivered \cup dropped) = {}
  /\ stored \cap (delivered \cup dropped) = {} /\ delivered \cap dropped = {}
  /\ releasing \subseteq delivered /\ (reading # "release" => releasing = {})
  /\ user_pc = "read" <=> reading # "no"
  /\ batch \subseteq delivered
  /\ user_pc \in {"loop", "done"} \/ reading = "scan" => batch = {}

LogInv ==
  /\ wrong \subseteq {MAX_LOG_ENTRY}
  /\ \A u \in LogUids : LET k == kern_log[LogCell(u)] IN
       /\ k # 0 <=> u \in Taken
       /\ user_log[LogCell(u)] # 0 <=> u \in delivered \ batch
       /\ k <= clock
       /\ user_log[LogCell(u)] # 0 => k <= user_log[LogCell(u)]
       /\ server_log[LogCell(u)] # 0 /\ k # 0 => k <= server_log[LogCell(u)]

FileInv ==
  /\ km \in {"exported", "unloaded"} =>
       \A u \in LogUids : file_kern[u] = kern_log[LogCell(u)]
  /\ user_pc = "done" => \A u \in LogUids : file_user[u] = user_log[LogCell(u)]
  /\ server_pc = "done" => \A u \in LogUids : file_server[u] = server_log[LogCell(u)]

(* What the server has received is the part of queued before its queue.      *)
Received == Len(queued) - Len(queue)

QueueInv ==
  /\ Received \in Nat
  /\ \A i \in 1 .. Len(queue) : queue[i] = queued[Received + i]
  /\ \A j \in 1 .. Received :
       Loggable(queued[j]) => server_log[LogCell(queued[j])] # 0
  /\ server_pc \in {"export", "done"} /\ keep_running =>
       Received > 0 /\ queued[Received] = MAX_LOG_ENTRY - 1

ExperimentInv == TypeOK /\ FlowInv /\ StoreInv /\ LogInv /\ FileInv /\ QueueInv
=============================================================================
