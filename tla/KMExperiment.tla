---------------------------- MODULE KMExperiment ----------------------------
(***************************************************************************)
(* One measurement with the kernel module, end to end: helper/client.c     *)
(* numbers its datagrams from 0, the network loses and reorders them (but  *)
(* duplicates none: the handler would stamp the copy over the original,    *)
(* lines 232-240, when the process may have stamped that one already), the *)
(* rx handler logs each and stores it in the packet cache, user-processing *)
(* polls the cache and logs what it gets, the datagram goes on to the      *)
(* socket server, and in the end all three write their logs to files; the  *)
(* module when it is unloaded.                                             *)
(*                                                                         *)
(* The cache is the store it is shown to implement (PacketStore), with one *)
(* CPU and one polling process.  The three clocks are one (CLOCK_MONOTONIC *)
(* and ktime_get_ns on one machine).  It ticks when an arrival is stamped; *)
(* later stamps may equal that reading, so an order between two stamps     *)
(* that differ is the order in which they were taken.                      *)
(***************************************************************************)
EXTENDS LogBuffs, FiniteSets, FiniteSetsExt, Sequences

CONSTANTS Capacity, BatchSize, QueueSize

Keys == 0 .. MAX_LOG_ENTRY
LogUids == 0 .. MAX_LOG_ENTRY - 1
None == -1

VARIABLES
  uid, in_flight,                                        (* client, network *)
  km,          (* the module: "loaded", then in myexit "unhooked",          *)
               (* "exported", and "unloaded"                                *)
  kern_log, file_kern, clock,
  passing,     (* the packet on its way from the handler to the socket      *)
  arriving, roomless, stored, releasing, delivered, dropped, reading, promised,
  user_running, user_pc, batch, user_log, file_user, wrong,
  queue, keep_running, server_pc, server_log, file_server,
  queued       (* history: the packets that reached the socket, in order    *)

Store == INSTANCE PacketStore WITH Arrivals <- Keys
User == INSTANCE UserProcessing
Server == INSTANCE SocketServer

network == <<uid, in_flight>>
kernel == <<km, kern_log, file_kern, clock, passing>>
store == <<arriving, roomless, stored, releasing, delivered, dropped, reading, promised>>
userprog == <<user_running, user_pc, batch, user_log, file_user, wrong>>
socket == <<queue, keep_running, server_pc, server_log, file_server>>
vars == <<network, kernel, store, userprog, socket, queued>>

Init ==
  /\ uid = 0 /\ in_flight = {}
  /\ km = "loaded" /\ clock = 1 /\ passing = None /\ queued = <<>>
  /\ kern_log = [l \in LogCells |-> 0] /\ file_kern = [u \in LogUids |-> 0]
  /\ Store!Init /\ User!Init /\ Server!Init

-----------------------------------------------------------------------------
(* The client leaves its loop when uid > MAX_LOG_ENTRY.  What the network   *)
(* loses stays in flight for ever: no arrival is promised.                  *)
Sendto ==
  /\ uid <= MAX_LOG_ENTRY
  /\ uid' = uid + 1 /\ in_flight' = in_flight \cup {uid}
  /\ UNCHANGED <<kernel, store, userprog, socket, queued>>

(* The handler: a packet is stamped and logged, then stored or dropped, and *)
(* passed on.  Its search for a slot (Look) is the store's.                 *)
StampsFromOne(u) ==                                            \* a mutant
  IF Loggable(u) /\ u > 0 THEN [kern_log EXCEPT ![LogCell(u)] = clock + 1] ELSE kern_log
Stamped(u) ==
  IF Loggable(u) THEN [kern_log EXCEPT ![LogCell(u)] = clock + 1] ELSE kern_log

(* A packet never arrives twice: it leaves in_flight, and the store wants a *)
(* new one.                                                                 *)
Arrive ==
  /\ km = "loaded" /\ passing = None /\ Store!Arrive
  /\ arriving' \subseteq in_flight
  /\ in_flight' = in_flight \ arriving'
  /\ \E u \in arriving' : kern_log' = Stamped(u)
  /\ clock' = clock + 1
  /\ UNCHANGED <<uid, km, file_kern, passing, userprog, socket, queued>>

Look ==
  /\ Store!Look
  /\ UNCHANGED <<network, kernel, userprog, socket, queued>>

Handled ==
  /\ Store!Accept \/ Store!Drop
  /\ \E u \in arriving : passing' = u
  /\ UNCHANGED <<network, km, kern_log, file_kern, clock,
                 userprog, socket, queued>>

(* With the handler unregistered packets go straight to the socket.         *)
ArriveUnhooked ==
  /\ km # "loaded" /\ passing = None
  /\ \E u \in in_flight : passing' = u /\ in_flight' = in_flight \ {u}
  /\ UNCHANGED <<uid, km, kern_log, file_kern, clock,
                 store, userprog, socket, queued>>

Pass ==
  /\ passing # None /\ passing' = None
  /\ Server!Enqueue(passing)
  /\ queued' = IF queue' # queue THEN Append(queued, passing) ELSE queued
  /\ UNCHANGED <<network, km, kern_log, file_kern, clock,
                 store, userprog>>

softirq == Look \/ Handled \/ Pass

-----------------------------------------------------------------------------
(* user-processing.  Once the proc entry is gone pread fails and leaves     *)
(* buff_read blank: the loop goes round without effect.                     *)
ReadStep == UNCHANGED <<network, kernel, socket, queued>>

StartRead == km # "unloaded" /\ User!EnterRead /\ Store!StartRead /\ ReadStep
Deliver == Store!Deliver /\ User!Take(releasing') /\ ReadStep
Release == Store!Release /\ UNCHANGED userprog /\ ReadStep
EndRead == Store!EndRead /\ User!LeaveRead /\ ReadStep

UserStep(A) == A /\ UNCHANGED <<network, kernel, store, socket, queued>>

user == \/ StartRead \/ Deliver \/ Release \/ EndRead
        \/ UserStep(User!ProcessPacket(clock)) \/ UserStep(User!EndOfBatch)
        \/ UserStep(User!Export)

ServerStep(A) == A /\ UNCHANGED <<network, kernel, store, userprog, queued>>

server == ServerStep(Server!Main(clock))

signals ==
  \/ UserStep(User!sig_handler) \/ UserStep(User!Terminated)
  \/ ServerStep(Server!sig_handler) \/ ServerStep(Server!Terminated)

-----------------------------------------------------------------------------
(* rmmod.  Unregistering waits for the handler, removing the proc entry for *)
(* the reads in progress; the log is exported in between.  That the file    *)
(* cannot be created (line 379) is not considered here.                     *)
MyexitStep ==
  UNCHANGED <<network, clock, passing, kern_log, store, userprog,
              socket, queued>>

unregisterRxHandlers ==
  /\ km = "loaded" /\ arriving = {}
  /\ km' = "unhooked" /\ UNCHANGED file_kern /\ MyexitStep
ExportKern ==
  /\ km = "unhooked"
  /\ file_kern' = [u \in LogUids |-> kern_log[LogCell(u)]]
  /\ km' = "exported" /\ MyexitStep
RemoveProc ==
  /\ km = "exported" /\ reading = "no"
  /\ km' = "unloaded" /\ UNCHANGED file_kern /\ MyexitStep

myexit == unregisterRxHandlers \/ ExportKern \/ RemoveProc

Next ==
  \/ Sendto \/ Arrive \/ ArriveUnhooked \/ softirq
  \/ user \/ server \/ signals \/ myexit

Spec == Init /\ [][Next]_vars

(* Softirqs run to their end and the server is scheduled.                   *)
FairSpec == Spec /\ WF_vars(softirq) /\ WF_vars(server)
=============================================================================
