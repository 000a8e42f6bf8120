---------------------------- MODULE SocketServer ----------------------------
(***************************************************************************)
(* helper/server.c, the baseline of both measurements: a process that      *)
(* receives the datagrams from a UDP socket, stamps each in its log under  *)
(* its uid, and writes the log to a file when it received the uid it takes *)
(* for the last one, or on SIGTSTP (Ctrl+Z).  SIGINT kills it.             *)
(*                                                                         *)
(* signal() gives SIGTSTP's handler SA_RESTART: a recvfrom that waits when *)
(* the signal comes is restarted, so keep_running is looked at only after  *)
(* another datagram.                                                       *)
(***************************************************************************)
EXTENDS LogBuffs, Sequences

CONSTANT QueueSize   (* datagrams the socket's receive buffer has room for  *)

VARIABLES
  queue,             (* the socket's receive buffer                         *)
  keep_running,
  server_pc,         (* "loop", "recv", "export", "done" or "killed"        *)
  server_log, file_server

LogUids == 0 .. MAX_LOG_ENTRY - 1

Init ==
  /\ queue = <<>> /\ keep_running = TRUE /\ server_pc = "loop"
  /\ server_log = [l \in LogCells |-> 0]
  /\ file_server = [u \in LogUids |-> 0]

(* A datagram reaches the socket; it is lost if there is no room for it, or *)
(* no socket any more.                                                      *)
Enqueue(uid) ==
  /\ queue' = IF server_pc \notin {"done", "killed"} /\ Len(queue) < QueueSize
              THEN Append(queue, uid) ELSE queue
  /\ UNCHANGED <<keep_running, server_pc, server_log, file_server>>

sig_handler ==
  /\ keep_running /\ server_pc \notin {"done", "killed"}
  /\ keep_running' = FALSE
  /\ UNCHANGED <<queue, server_pc, server_log, file_server>>

Terminated ==
  /\ server_pc \notin {"done", "killed"}
  /\ server_pc' = "killed"
  /\ UNCHANGED <<queue, keep_running, server_log, file_server>>

(* while(keep_running): the first test, and the one after each datagram.    *)
Continued == IF keep_running THEN "recv" ELSE "export"

While ==
  /\ server_pc = "loop"
  /\ server_pc' = Continued
  /\ UNCHANGED <<queue, keep_running, server_log, file_server>>

LastUid == MAX_LOG_ENTRY - 1

BreaksFirst(now) ==                                            \* a mutant
  /\ server_pc = "recv" /\ queue # <<>>
  /\ queue' = Tail(queue)
  /\ server_log' = IF Loggable(Head(queue)) /\ Head(queue) # LastUid
                   THEN [server_log EXCEPT ![LogCell(Head(queue))] = now]
                   ELSE server_log
  /\ server_pc' = IF Head(queue) = LastUid THEN "export" ELSE Continued
  /\ UNCHANGED <<keep_running, file_server>>
BreaksOnLarger(now) ==                                         \* a mutant
  /\ server_pc = "recv" /\ queue # <<>>
  /\ queue' = Tail(queue)
  /\ server_log' = IF Loggable(Head(queue))
                   THEN [server_log EXCEPT ![LogCell(Head(queue))] = now]
                   ELSE server_log
  /\ server_pc' = IF Head(queue) > LastUid THEN "export" ELSE Continued
  /\ UNCHANGED <<keep_running, file_server>>
recvfrom(now) ==
  /\ server_pc = "recv" /\ queue # <<>>
  /\ queue' = Tail(queue)
  /\ server_log' = IF Loggable(Head(queue))
                   THEN [server_log EXCEPT ![LogCell(Head(queue))] = now]
                   ELSE server_log
  /\ server_pc' = IF Head(queue) = LastUid THEN "export" ELSE Continued
  /\ UNCHANGED <<keep_running, file_server>>

Export ==
  /\ server_pc = "export"
  /\ file_server' = [u \in LogUids |-> server_log[LogCell(u)]]
  /\ server_pc' = "done"
  /\ UNCHANGED <<queue, keep_running, server_log>>

Main(now) == While \/ recvfrom(now) \/ Export
=============================================================================
