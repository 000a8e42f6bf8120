------------------------- MODULE KMExperiment_proofs -------------------------
(***************************************************************************)
(* The three files of one measurement fit together, and the difference of  *)
(* their zeroes is the loss, for any log, store, batch and socket queue.   *)
(***************************************************************************)
EXTENDS KMExperimentSafety, LogBuffs_proofs, FiniteSetTheorems

LEMMA Cells ==
  /\ LogUids \subseteq Keys /\ LogUids \subseteq Nat /\ Keys \subseteq Nat
  /\ MAX_LOG_ENTRY \in Nat \ {0}
  /\ \A u \in Keys : Loggable(u) <=> u \in LogUids
  /\ \A u \in LogUids : LogCell(u) \in LogCells
  /\ \A u, v \in LogUids : LogCell(u) = LogCell(v) => u = v
<1>1. MAX_LOG_ENTRY \in Nat \ {0}
  BY LogSizes DEF MAX_LOG_ENTRY
<1>2. /\ LogUids \subseteq Keys /\ LogUids \subseteq Nat /\ Keys \subseteq Nat
      /\ \A u \in Keys : Loggable(u) <=> u \in LogUids
  BY <1>1 DEF LogUids, Keys, Loggable
<1>3. \A u \in LogUids : LogCell(u) \in LogCells
  BY <1>2, LogCellInBounds
<1>4. \A u, v \in LogUids : LogCell(u) = LogCell(v) => u = v
  BY <1>2, LogCellInjective
<1>. QED BY <1>1, <1>2, <1>3, <1>4

(* The processes' logs are addressed as the handler's.                      *)
LEMMA SameLog ==
  /\ \A u : User!LogCell(u) = LogCell(u) /\ Server!LogCell(u) = LogCell(u)
  /\ \A u : (User!Loggable(u) <=> Loggable(u)) /\ (Server!Loggable(u) <=> Loggable(u))
  /\ User!LogCells = LogCells /\ Server!LogCells = LogCells
  /\ 0 .. User!MAX_LOG_ENTRY - 1 = LogUids /\ Server!LogUids = LogUids
  /\ Server!LastUid = MAX_LOG_ENTRY - 1
  BY DEF User!LogCell, Server!LogCell, LogCell, User!Loggable, Server!Loggable, Loggable,
         User!LogCells, Server!LogCells, LogCells, User!MAX_LOG_ENTRY,
         Server!MAX_LOG_ENTRY, MAX_LOG_ENTRY, LogUids, Server!LogUids, Server!LastUid

(* Writing one entry of a log leaves the others.                            *)
LEMMA WriteEntry ==
  ASSUME NEW log \in [LogCells -> Nat], NEW u \in LogUids, NEW t \in Nat,
         NEW new, new = [log EXCEPT ![LogCell(u)] = t]
  PROVE  /\ new \in [LogCells -> Nat]
         /\ new[LogCell(u)] = t
         /\ \A v \in LogUids : v # u => new[LogCell(v)] = log[LogCell(v)]
  BY Cells

LEMMA InitInv == Init => ExperimentInv
<1>. SUFFICES ASSUME Init PROVE ExperimentInv
  OBVIOUS
<1>1. /\ uid = 0 /\ in_flight = {} /\ clock = 1 /\ km = "loaded" /\ passing = None
      /\ queued = <<>>
      /\ kern_log = [l \in LogCells |-> 0]
      /\ arriving = {} /\ stored = {} /\ releasing = {} /\ delivered = {} /\ dropped = {}
      /\ reading = "no"
  BY DEF Init, Store!Init
<1>2. /\ user_running = TRUE /\ user_pc = "loop" /\ batch = {} /\ wrong = {}
      /\ user_log = [l \in LogCells |-> 0]
  BY SameLog DEF Init, User!Init
<1>3. /\ queue = <<>> /\ keep_running = TRUE /\ server_pc = "loop"
      /\ server_log = [l \in LogCells |-> 0]
  BY SameLog DEF Init, Server!Init
<1>4. \A u \in LogUids : /\ kern_log[LogCell(u)] = 0 /\ user_log[LogCell(u)] = 0
                         /\ server_log[LogCell(u)] = 0
  BY <1>1, <1>2, <1>3, Cells
<1>5. TypeOK
  BY <1>1, <1>2, <1>3, Cells DEF TypeOK
<1>6. FlowInv
  BY <1>1, <1>4 DEF FlowInv, Taken
<1>7. StoreInv
  BY <1>1, <1>2 DEF StoreInv
<1>8. LogInv
  BY <1>1, <1>2, <1>4 DEF LogInv, Taken
<1>9. FileInv
  BY <1>1, <1>2, <1>3 DEF FileInv
<1>10. QueueInv
  BY <1>1, <1>3 DEF QueueInv, Received
<1>. QED BY <1>5, <1>6, <1>7, <1>8, <1>9, <1>10 DEF ExperimentInv

-----------------------------------------------------------------------------
(* Client, network, handler.                                                *)

LEMMA SendtoInv == ExperimentInv /\ Sendto => ExperimentInv'
<1>. SUFFICES ASSUME ExperimentInv, Sendto PROVE ExperimentInv'
  OBVIOUS
<1>. USE DEF ExperimentInv
<1>1. /\ uid <= MAX_LOG_ENTRY /\ uid' = uid + 1 /\ in_flight' = in_flight \cup {uid}
      /\ UNCHANGED <<kernel, store, userprog, socket, queued>>
  BY DEF Sendto
<1>2. /\ UNCHANGED <<km, kern_log, file_kern, clock, passing>>
      /\ UNCHANGED <<arriving, stored, releasing, delivered, dropped, reading>>
      /\ UNCHANGED <<user_running, user_pc, batch, user_log, file_user, wrong>>
      /\ UNCHANGED <<queue, keep_running, server_pc, server_log, file_server, queued>>
  BY <1>1 DEF kernel, store, userprog, socket
<1>3. uid \in Nat /\ in_flight \subseteq 0 .. uid - 1 /\ MAX_LOG_ENTRY \in Nat
  BY Cells DEF TypeOK
<1>4. Landed' = Landed
  BY <1>1, <1>3 DEF Landed
<1>5. TypeOK'
  <2>1. uid' \in Nat /\ uid' <= MAX_LOG_ENTRY + 1
    BY <1>1, <1>3
  <2>2. in_flight' \subseteq 0 .. uid' - 1
    BY <1>1, <1>3
  <2>3. /\ kern_log' \in [LogCells -> Nat] /\ user_log' \in [LogCells -> Nat]
        /\ server_log' \in [LogCells -> Nat]
        /\ queue' \in Seq(Keys) /\ queued' \in Seq(Keys)
    BY <1>2 DEF TypeOK
  <2>4. /\ clock' \in Nat \ {0} /\ passing' \in Keys \cup {None}
        /\ km' \in {"loaded", "unhooked", "exported", "unloaded"}
        /\ reading' \in {"no", "scan", "release"}
        /\ user_pc' \in {"loop", "read", "process", "done", "killed"}
        /\ server_pc' \in {"loop", "recv", "export", "done", "killed"}
        /\ user_running' \in BOOLEAN /\ keep_running' \in BOOLEAN
    BY <1>2 DEF TypeOK
  <2>. QED BY <2>1, <2>2, <2>3, <2>4 DEF TypeOK
<1>6. FlowInv'
  BY <1>2, <1>4 DEF FlowInv, Taken
<1>7. StoreInv' /\ LogInv' /\ FileInv' /\ QueueInv'
  BY <1>2 DEF StoreInv, LogInv, FileInv, QueueInv, Received, Taken
<1>. QED BY <1>5, <1>6, <1>7

(* The packet was in flight, so nobody has stamped its uid yet.             *)
LEMMA ArriveInv == ExperimentInv /\ Arrive => ExperimentInv'
<1>. SUFFICES ASSUME ExperimentInv, Arrive PROVE ExperimentInv'
  OBVIOUS
<1>. USE DEF ExperimentInv
<1>1. /\ km = "loaded" /\ arriving = {}
      /\ UNCHANGED <<stored, releasing, delivered, dropped, reading>>
      /\ in_flight' = in_flight \ arriving' /\ clock' = clock + 1
      /\ UNCHANGED <<uid, km, file_kern, passing>>
  BY DEF Arrive, Store!Arrive
<1>2. PICK p : arriving' = {p} /\ p \in in_flight /\ kern_log' = Stamped(p)
  BY DEF Arrive, Store!Arrive
<1>3. /\ UNCHANGED <<user_running, user_pc, batch, user_log, file_user, wrong>>
      /\ UNCHANGED <<queue, keep_running, server_pc, server_log, file_server, queued>>
  BY DEF Arrive, userprog, socket
<1>4. /\ uid \in Nat /\ uid <= MAX_LOG_ENTRY + 1 /\ in_flight \subseteq 0 .. uid - 1
      /\ clock \in Nat \ {0} /\ kern_log \in [LogCells -> Nat] /\ MAX_LOG_ENTRY \in Nat
  BY Cells DEF TypeOK
<1>5. p \in Keys /\ Landed' = Landed \cup {p} /\ p \notin Landed
  BY <1>1, <1>2, <1>4 DEF Landed, Keys
<1>6. /\ kern_log' \in [LogCells -> Nat]
      /\ p \in LogUids => kern_log'[LogCell(p)] = clock + 1
      /\ \A v \in LogUids : v # p => kern_log'[LogCell(v)] = kern_log[LogCell(v)]
  <2>1. CASE p \in LogUids
    <3>1. kern_log' = [kern_log EXCEPT ![LogCell(p)] = clock + 1]
      BY <1>2, <1>5, <2>1, Cells DEF Stamped
    <3>2. clock + 1 \in Nat /\ kern_log \in [LogCells -> Nat]
      BY <1>4
    <3>3. /\ kern_log' \in [LogCells -> Nat]
          /\ kern_log'[LogCell(p)] = clock + 1
          /\ \A v \in LogUids : v # p => kern_log'[LogCell(v)] = kern_log[LogCell(v)]
      BY <2>1, <3>1, <3>2, Cells
    <3>. QED BY <3>3
  <2>2. CASE p \notin LogUids
    <3>1. kern_log' = kern_log
      BY <1>2, <1>5, <2>2, Cells DEF Stamped
    <3>. QED BY <1>4, <2>2, <3>1
  <2>. QED BY <2>1, <2>2
<1>7. TypeOK'
  <2>1. clock' \in Nat \ {0}
    BY <1>1, <1>4
  <2>2. in_flight' \subseteq 0 .. uid - 1
    BY <1>1, <1>4
  <2>. QED BY <1>1, <1>3, <1>6, <2>1, <2>2 DEF TypeOK
<1>8. Taken' = Taken \cup {p} /\ p \notin Taken
  BY <1>1, <1>2, <1>5 DEF Taken, FlowInv
<1>9. FlowInv'
  BY <1>1, <1>3, <1>5, <1>8 DEF FlowInv
<1>10. StoreInv'
  BY <1>1, <1>2, <1>3, <1>8 DEF StoreInv, Taken
<1>11. LogInv'
  <2>1. p \in LogUids => user_log[LogCell(p)] = 0 /\ server_log[LogCell(p)] = 0
    BY <1>5, <1>8 DEF LogInv, FlowInv, Taken
  <2>2. ASSUME NEW u \in LogUids
        PROVE  LET k == kern_log'[LogCell(u)] IN
          /\ k # 0 <=> u \in Taken'
          /\ user_log'[LogCell(u)] # 0 <=> u \in delivered' \ batch'
          /\ k <= clock'
          /\ user_log'[LogCell(u)] # 0 => k <= user_log'[LogCell(u)]
          /\ server_log'[LogCell(u)] # 0 /\ k # 0 => k <= server_log'[LogCell(u)]
    <3>1. CASE u = p
      <4>1. kern_log'[LogCell(u)] = clock + 1 /\ user_log[LogCell(u)] = 0
            /\ server_log[LogCell(u)] = 0
        BY <1>6, <2>1, <3>1, <2>2
      <4>2. clock + 1 # 0 /\ clock + 1 <= clock'
        BY <1>1, <1>4
      <4>3. u \notin delivered \ batch
        BY <1>8, <3>1 DEF Taken
      <4>. QED BY <1>1, <1>3, <1>8, <3>1, <4>1, <4>2, <4>3
    <3>2. CASE u # p
      <4>1. kern_log'[LogCell(u)] = kern_log[LogCell(u)]
        BY <1>6, <2>2, <3>2
      <4>2. kern_log[LogCell(u)] \in Nat
        BY <1>4, <2>2, Cells
      <4>3. kern_log[LogCell(u)] <= clock
        BY <2>2 DEF LogInv
      <4>4. kern_log[LogCell(u)] <= clock'
        BY <1>1, <1>4, <4>2, <4>3
      <4>. QED BY <1>1, <1>3, <1>8, <2>2, <3>2, <4>1, <4>4 DEF LogInv
    <3>. QED BY <3>1, <3>2
  <2>. QED BY <1>3, <2>2 DEF LogInv
<1>12. FileInv'
  BY <1>1, <1>3 DEF FileInv
<1>13. QueueInv'
  BY <1>3 DEF QueueInv, Received
<1>. QED BY <1>7, <1>9, <1>10, <1>11, <1>12, <1>13

LEMMA LookInv == ExperimentInv /\ Look => ExperimentInv'
<1>. SUFFICES ASSUME ExperimentInv, Look PROVE ExperimentInv'
  OBVIOUS
<1>1. /\ UNCHANGED <<uid, in_flight, km, kern_log, file_kern, clock, passing>>
      /\ UNCHANGED <<arriving, stored, releasing, delivered, dropped, reading>>
      /\ UNCHANGED <<user_running, user_pc, batch, user_log, file_user, wrong>>
      /\ UNCHANGED <<queue, keep_running, server_pc, server_log, file_server, queued>>
  BY DEF Look, Store!Look, network, kernel, userprog, socket
<1>. QED BY <1>1 DEF ExperimentInv, TypeOK, FlowInv, StoreInv, LogInv, FileInv, QueueInv,
                     Received, Taken, Landed

(* Taken in or refused, the packet goes on to the socket.                   *)
LEMMA HandledInv == ExperimentInv /\ Handled => ExperimentInv'
<1>. SUFFICES ASSUME ExperimentInv, Handled PROVE ExperimentInv'
  OBVIOUS
<1>. USE DEF ExperimentInv
<1>1. /\ arriving # {} /\ arriving' = {}
      /\ \/ stored' = stored \cup arriving /\ dropped' = dropped
         \/ dropped' = dropped \cup arriving /\ stored' = stored
      /\ UNCHANGED <<releasing, delivered, reading>>
      /\ passing' \in arriving
  BY DEF Handled, Store!Accept, Store!Drop
<1>2. /\ UNCHANGED <<uid, in_flight, km, kern_log, file_kern, clock>>
      /\ UNCHANGED <<user_running, user_pc, batch, user_log, file_user, wrong>>
      /\ UNCHANGED <<queue, keep_running, server_pc, server_log, file_server, queued>>
  BY DEF Handled, network, userprog, socket
<1>3. Taken' = Taken /\ passing' \in Taken /\ Landed' = Landed
  BY <1>1, <1>2 DEF Taken, Landed
<1>4. passing' \in Landed /\ Landed \subseteq Keys
  BY <1>3, Cells DEF FlowInv, TypeOK, Landed, Keys
<1>5. TypeOK'
  BY <1>1, <1>2, <1>4 DEF TypeOK
<1>6. FlowInv'
  BY <1>2, <1>3, <1>4 DEF FlowInv
<1>7. StoreInv'
  <2>1. /\ arriving' \cap (stored' \cup delivered' \cup dropped') = {}
        /\ stored' \cap (delivered' \cup dropped') = {} /\ delivered' \cap dropped' = {}
    BY <1>1 DEF StoreInv
  <2>. QED BY <1>1, <1>2, <2>1 DEF StoreInv
<1>8. LogInv'
  BY <1>1, <1>2, <1>3 DEF LogInv
<1>9. FileInv' /\ QueueInv'
  BY <1>2 DEF FileInv, QueueInv, Received
<1>. QED BY <1>5, <1>6, <1>7, <1>8, <1>9

LEMMA ArriveUnhookedInv == ExperimentInv /\ ArriveUnhooked => ExperimentInv'
<1>. SUFFICES ASSUME ExperimentInv, ArriveUnhooked PROVE ExperimentInv'
  OBVIOUS
<1>. USE DEF ExperimentInv
<1>1. /\ passing' \in in_flight /\ in_flight' = in_flight \ {passing'}
      /\ UNCHANGED <<uid, km, kern_log, file_kern, clock>>
      /\ UNCHANGED <<arriving, stored, releasing, delivered, dropped, reading>>
      /\ UNCHANGED <<user_running, user_pc, batch, user_log, file_user, wrong>>
      /\ UNCHANGED <<queue, keep_running, server_pc, server_log, file_server, queued>>
  BY DEF ArriveUnhooked, store, userprog, socket
<1>2. /\ uid \in Nat /\ uid <= MAX_LOG_ENTRY + 1 /\ in_flight \subseteq 0 .. uid - 1
      /\ MAX_LOG_ENTRY \in Nat
  BY Cells DEF TypeOK
<1>3. /\ Landed' = Landed \cup {passing'} /\ passing' \in Keys
      /\ in_flight' \subseteq 0 .. uid - 1
  BY <1>1, <1>2 DEF Landed, Keys
<1>4. TypeOK'
  BY <1>1, <1>3 DEF TypeOK
<1>5. FlowInv'
  BY <1>1, <1>3 DEF FlowInv, Taken
<1>6. StoreInv' /\ LogInv' /\ FileInv' /\ QueueInv'
  BY <1>1 DEF StoreInv, LogInv, FileInv, QueueInv, Received, Taken
<1>. QED BY <1>4, <1>5, <1>6

(* A packet enters the socket's queue, or is lost there.                    *)
LEMMA PassInv == ExperimentInv /\ Pass => ExperimentInv'
<1>. SUFFICES ASSUME ExperimentInv, Pass PROVE ExperimentInv'
  OBVIOUS
<1>. USE DEF ExperimentInv
<1>1. /\ passing # None /\ passing' = None
      /\ queued' = IF queue' # queue THEN Append(queued, passing) ELSE queued
      /\ UNCHANGED <<uid, in_flight, km, kern_log, file_kern, clock>>
      /\ UNCHANGED <<arriving, stored, releasing, delivered, dropped, reading>>
      /\ UNCHANGED <<user_running, user_pc, batch, user_log, file_user, wrong>>
  BY DEF Pass, network, store, userprog
<1>2. /\ UNCHANGED <<keep_running, server_pc, server_log, file_server>>
      /\ \/ queue' = queue
         \/ queue' = Append(queue, passing) /\ server_pc \notin {"done", "killed"}
  BY DEF Pass, Server!Enqueue
<1>3. passing \in Keys /\ passing \in Landed /\ Landed' = Landed
  BY <1>1 DEF TypeOK, FlowInv, Landed
<1>4. queue \in Seq(Keys) /\ queued \in Seq(Keys)
  BY DEF TypeOK
<1>5. CASE queue' = queue
  <2>1. queued' = queued
    BY <1>1, <1>5
  <2>2. TypeOK' /\ FlowInv'
    BY <1>1, <1>2, <1>3, <1>5, <2>1 DEF TypeOK, FlowInv, Taken
  <2>3. StoreInv' /\ LogInv' /\ FileInv' /\ QueueInv'
    BY <1>1, <1>2, <1>5, <2>1 DEF StoreInv, LogInv, FileInv, QueueInv, Received, Taken
  <2>. QED BY <2>2, <2>3
<1>6. CASE queue' # queue
  <2>1. queue' = Append(queue, passing) /\ queued' = Append(queued, passing)
    BY <1>1, <1>2, <1>6
  <2>2. /\ queue' \in Seq(Keys) /\ Len(queue') = Len(queue) + 1
        /\ queued' \in Seq(Keys) /\ Len(queued') = Len(queued) + 1
        /\ Len(queue) \in Nat /\ Len(queued) \in Nat
    BY <1>3, <1>4, <2>1
  <2>3. /\ \A i \in 1 .. Len(queued) : queued'[i] = queued[i]
        /\ queued'[Len(queued) + 1] = passing
        /\ \A i \in 1 .. Len(queue) : queue'[i] = queue[i]
        /\ queue'[Len(queue) + 1] = passing
    BY <1>3, <1>4, <2>1
  <2>4. TypeOK'
    BY <1>1, <1>2, <2>2 DEF TypeOK
  <2>5. FlowInv'
    <3>1. \A i \in 1 .. Len(queued') : queued'[i] \in Landed
      BY <1>3, <2>2, <2>3 DEF FlowInv
    <3>. QED BY <1>1, <1>2, <1>3, <3>1 DEF FlowInv, Taken
  <2>6. StoreInv' /\ LogInv' /\ FileInv'
    BY <1>1, <1>2 DEF StoreInv, LogInv, FileInv, Taken
  <2>7. QueueInv'
    <3>1. Received' = Received /\ Received \in Nat
      BY <2>2 DEF Received, QueueInv
    <3>2. \A j \in 1 .. Received : queued'[j] = queued[j]
      BY <2>2, <2>3 DEF Received
    <3>3. ASSUME NEW i \in 1 .. Len(queue') PROVE queue'[i] = queued'[Received + i]
      <4>1. CASE i = Len(queue) + 1
        <5>1. Received + i = Len(queued) + 1
          BY <2>2, <4>1 DEF Received
        <5>. QED BY <2>3, <4>1, <5>1
      <4>2. CASE i # Len(queue) + 1
        <5>1. i \in 1 .. Len(queue)
          BY <2>2, <3>3, <4>2
        <5>2. Received + i \in 1 .. Len(queued)
          BY <2>2, <3>1, <5>1 DEF Received
        <5>. QED BY <2>3, <5>1, <5>2 DEF QueueInv
      <4>. QED BY <4>1, <4>2
    <3>4. \A i \in 1 .. Len(queue') : queue'[i] = queued'[Received' + i]
      BY <3>1, <3>3
    <3>5. \A j \in 1 .. Received' :
            Loggable(queued'[j]) => server_log'[LogCell(queued'[j])] # 0
      BY <1>2, <3>1, <3>2 DEF QueueInv
    <3>6. server_pc' \in {"export", "done"} /\ keep_running' =>
            Received' > 0 /\ queued'[Received'] = MAX_LOG_ENTRY - 1
      BY <1>2, <3>1, <3>2 DEF QueueInv
    <3>. QED BY <3>1, <3>4, <3>5, <3>6 DEF QueueInv
  <2>. QED BY <2>4, <2>5, <2>6, <2>7
<1>. QED BY <1>5, <1>6

-----------------------------------------------------------------------------
(* The polling process.  A read disturbs the store's and the process's parts *)
(* only, and takes no packet from any place where FlowInv sees it.           *)

LEMMA ReadFrame ==
  ASSUME ExperimentInv, ReadStep, UNCHANGED <<user_running, user_log, file_user, wrong>>,
         arriving' = arriving, Taken' = Taken, delivered' \ batch' = delivered \ batch,
         reading' \in {"no", "scan", "release"},
         user_pc' \in {"loop", "read", "process"}, StoreInv'
  PROVE  ExperimentInv'
<1>. USE DEF ExperimentInv
<1>1. /\ UNCHANGED <<uid, in_flight, km, kern_log, file_kern, clock, passing>>
      /\ UNCHANGED <<queue, keep_running, server_pc, server_log, file_server, queued>>
  BY DEF ReadStep, network, kernel, socket
<1>2. TypeOK'
  BY <1>1 DEF TypeOK
<1>3. FlowInv'
  BY <1>1 DEF FlowInv, Landed
<1>4. LogInv'
  BY <1>1 DEF LogInv
<1>5. FileInv' /\ QueueInv'
  BY <1>1 DEF FileInv, QueueInv, Received
<1>. QED BY <1>2, <1>3, <1>4, <1>5

LEMMA StartReadInv == ExperimentInv /\ StartRead => ExperimentInv'
<1>. SUFFICES ASSUME ExperimentInv, StartRead PROVE ExperimentInv'
  OBVIOUS
<1>1. /\ reading = "no" /\ reading' = "scan"
      /\ UNCHANGED <<arriving, stored, releasing, delivered, dropped>>
      /\ user_pc = "loop" /\ user_pc' = "read" /\ batch' = {}
      /\ UNCHANGED <<user_running, user_log, file_user, wrong>> /\ ReadStep /\ km' = km
  BY DEF StartRead, Store!StartRead, User!EnterRead, ReadStep, kernel
<1>2. batch = {}
  BY <1>1 DEF ExperimentInv, StoreInv
<1>3. StoreInv'
  BY <1>1 DEF ExperimentInv, StoreInv
<1>4. Taken' = Taken
  BY <1>1 DEF Taken
<1>. QED BY <1>1, <1>2, <1>3, <1>4, ReadFrame

(* What the read returns was not delivered before.                          *)
LEMMA DeliverInv == ExperimentInv /\ Deliver => ExperimentInv'
<1>. SUFFICES ASSUME ExperimentInv, Deliver PROVE ExperimentInv'
  OBVIOUS
<1>1. PICK S \in SUBSET stored :
        stored' = stored \ S /\ releasing' = S /\ delivered' = delivered \cup S
  BY DEF Deliver, Store!Deliver
<1>2. /\ reading = "scan" /\ reading' = "release" /\ UNCHANGED <<arriving, dropped>>
      /\ user_pc = "read" /\ batch' = releasing' /\ user_pc' = user_pc
      /\ UNCHANGED <<user_running, user_log, file_user, wrong>> /\ ReadStep /\ km' = km
  BY DEF Deliver, Store!Deliver, User!Take, ReadStep, kernel
<1>3. batch = {} /\ S \cap delivered = {}
  BY <1>1, <1>2 DEF ExperimentInv, StoreInv
<1>4. StoreInv'
  <2>1. StoreInv
    BY DEF ExperimentInv
  <2>2. /\ arriving' \cap (stored' \cup delivered' \cup dropped') = {}
        /\ stored' \cap (delivered' \cup dropped') = {} /\ delivered' \cap dropped' = {}
        /\ releasing' \subseteq delivered' /\ batch' \subseteq delivered'
    BY <1>1, <1>2, <2>1 DEF StoreInv
  <2>. QED BY <1>2, <2>1, <2>2 DEF StoreInv
<1>5. Taken' = Taken
  BY <1>1, <1>2 DEF Taken
<1>6. delivered' \ batch' = delivered \ batch
  BY <1>1, <1>2, <1>3
<1>. QED BY <1>2, <1>4, <1>5, <1>6, ReadFrame

LEMMA ReleaseInv == ExperimentInv /\ Release => ExperimentInv'
<1>. SUFFICES ASSUME ExperimentInv, Release PROVE ExperimentInv'
  OBVIOUS
<1>1. /\ reading = "release" /\ reading' = reading /\ releasing' \subseteq releasing
      /\ UNCHANGED <<arriving, stored, delivered, dropped>>
      /\ UNCHANGED <<user_running, user_pc, batch, user_log, file_user, wrong>>
      /\ ReadStep /\ km' = km
  BY DEF Release, Store!Release, ReadStep, kernel, userprog
<1>2. StoreInv' /\ user_pc = "read"
  BY <1>1 DEF ExperimentInv, StoreInv
<1>3. Taken' = Taken
  BY <1>1 DEF Taken
<1>. QED BY <1>1, <1>2, <1>3, ReadFrame

LEMMA EndReadInv == ExperimentInv /\ EndRead => ExperimentInv'
<1>. SUFFICES ASSUME ExperimentInv, EndRead PROVE ExperimentInv'
  OBVIOUS
<1>1. /\ reading = "release" /\ releasing = {} /\ reading' = "no"
      /\ UNCHANGED <<arriving, stored, releasing, delivered, dropped>>
      /\ user_pc = "read" /\ user_pc' = "process"
      /\ UNCHANGED <<user_running, batch, user_log, file_user, wrong>>
      /\ ReadStep /\ km' = km
  BY DEF EndRead, Store!EndRead, User!LeaveRead, ReadStep, kernel
<1>2. StoreInv'
  BY <1>1 DEF ExperimentInv, StoreInv
<1>3. Taken' = Taken
  BY <1>1 DEF Taken
<1>. QED BY <1>1, <1>2, <1>3, ReadFrame

(* The process stamps what it got: its clock is not behind the handler's.   *)
LEMMA ProcessPacketInv ==
  ExperimentInv /\ UserStep(User!ProcessPacket(clock)) => ExperimentInv'
<1>. SUFFICES ASSUME ExperimentInv, UserStep(User!ProcessPacket(clock))
              PROVE ExperimentInv'
  OBVIOUS
<1>. USE DEF ExperimentInv
<1>1. /\ UNCHANGED <<uid, in_flight, km, kern_log, file_kern, clock, passing>>
      /\ UNCHANGED <<arriving, stored, releasing, delivered, dropped, reading>>
      /\ UNCHANGED <<queue, keep_running, server_pc, server_log, file_server, queued>>
  BY DEF UserStep, network, kernel, store, socket
<1>2. PICK u \in batch :
        /\ batch' = batch \ {u}
        /\ IF Loggable(u)
           THEN user_log' = [user_log EXCEPT ![LogCell(u)] = clock] /\ UNCHANGED wrong
           ELSE wrong' = wrong \cup {u} /\ UNCHANGED user_log
  BY SameLog DEF UserStep, User!ProcessPacket
<1>3. user_pc = "process" /\ UNCHANGED <<user_running, user_pc, file_user>>
  BY DEF UserStep, User!ProcessPacket
<1>4. u \in delivered /\ u \in Taken /\ u \in Keys
  <2>1. u \in delivered /\ u \in Landed /\ u \in Taken
    BY DEF StoreInv, FlowInv, Taken
  <2>. QED BY <2>1, Cells DEF TypeOK, Landed, Keys
<1>5. user_log \in [LogCells -> Nat] /\ clock \in Nat \ {0}
  BY DEF TypeOK
<1>6. /\ user_log' \in [LogCells -> Nat]
      /\ u \in LogUids => user_log'[LogCell(u)] = clock
      /\ \A v \in LogUids : v # u => user_log'[LogCell(v)] = user_log[LogCell(v)]
  <2>1. CASE u \in LogUids
    BY <1>2, <1>4, <1>5, <2>1, Cells, WriteEntry
  <2>2. CASE u \notin LogUids
    BY <1>2, <1>4, <1>5, <2>2, Cells
  <2>. QED BY <2>1, <2>2
<1>7. wrong' \subseteq {MAX_LOG_ENTRY}
  <2>1. ~Loggable(u) => u = MAX_LOG_ENTRY
    BY <1>4, Cells DEF Loggable, Keys
  <2>. QED BY <1>2, <2>1 DEF LogInv
<1>8. TypeOK'
  BY <1>1, <1>3, <1>6 DEF TypeOK
<1>9. FlowInv'
  BY <1>1 DEF FlowInv, Taken, Landed
<1>10. StoreInv'
  BY <1>1, <1>2, <1>3 DEF StoreInv
<1>11. LogInv'
  <2>1. Taken' = Taken
    BY <1>1 DEF Taken
  <2>2. ASSUME NEW v \in LogUids
        PROVE  LET k == kern_log[LogCell(v)] IN
          /\ k # 0 <=> v \in Taken'
          /\ user_log'[LogCell(v)] # 0 <=> v \in delivered \ batch'
          /\ k <= clock
          /\ user_log'[LogCell(v)] # 0 => k <= user_log'[LogCell(v)]
          /\ server_log[LogCell(v)] # 0 /\ k # 0 => k <= server_log[LogCell(v)]
    <3>1. CASE v = u
      <4>1. user_log'[LogCell(v)] = clock /\ clock # 0
        BY <1>5, <1>6, <2>2, <3>1
      <4>2. v \in delivered \ batch'
        BY <1>2, <1>4, <3>1
      <4>. QED BY <2>1, <2>2, <4>1, <4>2 DEF LogInv
    <3>2. CASE v # u
      <4>1. user_log'[LogCell(v)] = user_log[LogCell(v)]
        BY <1>6, <2>2, <3>2
      <4>2. v \in delivered \ batch' <=> v \in delivered \ batch
        BY <1>2, <3>2
      <4>. QED BY <2>1, <2>2, <4>1, <4>2 DEF LogInv
    <3>. QED BY <3>1, <3>2
  <2>. QED BY <1>1, <1>7, <2>2 DEF LogInv
<1>12. FileInv' /\ QueueInv'
  BY <1>1, <1>3 DEF FileInv, QueueInv, Received
<1>. QED BY <1>8, <1>9, <1>10, <1>11, <1>12

(* The other steps of the process write nothing but its place and its file. *)
LEMMA UserFrame ==
  ASSUME ExperimentInv, UNCHANGED <<network, kernel, store, socket, queued>>,
         UNCHANGED <<batch, user_log, wrong>>, user_running' \in BOOLEAN,
         user_pc' \in {"loop", "process", "read", "done", "killed"},
         user_pc' = "read" <=> user_pc = "read",
         user_pc' \in {"loop", "done"} => batch = {},
         user_pc' = "done" => \A u \in LogUids : file_user'[u] = user_log[LogCell(u)]
  PROVE  ExperimentInv'
<1>. USE DEF ExperimentInv
<1>1. /\ UNCHANGED <<uid, in_flight, km, kern_log, file_kern, clock, passing>>
      /\ UNCHANGED <<arriving, stored, releasing, delivered, dropped, reading>>
      /\ UNCHANGED <<queue, keep_running, server_pc, server_log, file_server, queued>>
  BY DEF network, kernel, store, socket
<1>2. TypeOK'
  BY <1>1 DEF TypeOK
<1>3. StoreInv'
  BY <1>1 DEF StoreInv
<1>4. FlowInv' /\ LogInv' /\ QueueInv'
  BY <1>1 DEF FlowInv, LogInv, QueueInv, Received, Taken, Landed
<1>5. FileInv'
  BY <1>1 DEF FileInv
<1>. QED BY <1>2, <1>3, <1>4, <1>5

LEMMA EndOfBatchInv == ExperimentInv /\ UserStep(User!EndOfBatch) => ExperimentInv'
<1>. SUFFICES ASSUME ExperimentInv, UserStep(User!EndOfBatch) PROVE ExperimentInv'
  OBVIOUS
<1>1. /\ user_pc = "process" /\ batch = {} /\ user_pc' = "loop"
      /\ UNCHANGED <<user_running, batch, user_log, file_user, wrong>>
      /\ UNCHANGED <<network, kernel, store, socket, queued>>
  BY DEF UserStep, User!EndOfBatch
<1>2. user_running \in BOOLEAN
  BY DEF ExperimentInv, TypeOK
<1>. QED BY <1>1, <1>2, UserFrame

LEMMA UserExportInv == ExperimentInv /\ UserStep(User!Export) => ExperimentInv'
<1>. SUFFICES ASSUME ExperimentInv, UserStep(User!Export) PROVE ExperimentInv'
  OBVIOUS
<1>1. /\ user_pc = "loop" /\ user_pc' = "done"
      /\ file_user' = [u \in LogUids |-> user_log[LogCell(u)]]
      /\ UNCHANGED <<user_running, batch, user_log, wrong>>
      /\ UNCHANGED <<network, kernel, store, socket, queued>>
  BY SameLog DEF UserStep, User!Export
<1>2. user_running \in BOOLEAN /\ batch = {}
  BY <1>1 DEF ExperimentInv, TypeOK, StoreInv
<1>3. \A u \in LogUids : file_user'[u] = user_log[LogCell(u)]
  BY <1>1
<1>. QED BY <1>1, <1>2, <1>3, UserFrame

LEMMA UserSignalInv ==
  /\ ExperimentInv /\ UserStep(User!sig_handler) => ExperimentInv'
  /\ ExperimentInv /\ UserStep(User!Terminated) => ExperimentInv'
<1>1. ASSUME ExperimentInv, UserStep(User!sig_handler) PROVE ExperimentInv'
  <2>1. /\ user_running' = FALSE
        /\ UNCHANGED <<user_pc, batch, user_log, file_user, wrong>>
        /\ UNCHANGED <<network, kernel, store, socket, queued>>
    BY <1>1 DEF UserStep, User!sig_handler
  <2>2. /\ user_pc \in {"loop", "read", "process", "done", "killed"}
        /\ user_pc \in {"loop", "done"} => batch = {}
        /\ user_pc = "done" => \A u \in LogUids : file_user[u] = user_log[LogCell(u)]
    BY <1>1 DEF ExperimentInv, TypeOK, StoreInv, FileInv
  <2>. QED BY <1>1, <2>1, <2>2, UserFrame
<1>2. ASSUME ExperimentInv, UserStep(User!Terminated) PROVE ExperimentInv'
  <2>1. /\ user_pc \in {"loop", "process"} /\ user_pc' = "killed"
        /\ UNCHANGED <<user_running, batch, user_log, file_user, wrong>>
        /\ UNCHANGED <<network, kernel, store, socket, queued>>
    BY <1>2 DEF UserStep, User!Terminated
  <2>2. user_running \in BOOLEAN
    BY <1>2 DEF ExperimentInv, TypeOK
  <2>. QED BY <1>2, <2>1, <2>2, UserFrame
<1>. QED BY <1>1, <1>2

-----------------------------------------------------------------------------
(* The server.                                                              *)

LEMMA ServerFrame ==
  ASSUME ExperimentInv, UNCHANGED <<network, kernel, store, userprog, queued>>,
         UNCHANGED <<queue, server_log>>, keep_running' \in BOOLEAN,
         server_pc' \in {"loop", "recv", "export", "done", "killed"},
         keep_running' => keep_running,
         server_pc' \in {"export", "done"} /\ keep_running' =>
           server_pc \in {"export", "done"},
         server_pc' = "done" => \A u \in LogUids : file_server'[u] = server_log[LogCell(u)]
  PROVE  ExperimentInv'
<1>. USE DEF ExperimentInv
<1>1. /\ UNCHANGED <<uid, in_flight, km, kern_log, file_kern, clock, passing>>
      /\ UNCHANGED <<arriving, stored, releasing, delivered, dropped, reading>>
      /\ UNCHANGED <<user_running, user_pc, batch, user_log, file_user, wrong, queued>>
  BY DEF network, kernel, store, userprog
<1>2. TypeOK'
  BY <1>1 DEF TypeOK
<1>3. FlowInv' /\ StoreInv' /\ LogInv'
  BY <1>1 DEF FlowInv, StoreInv, LogInv, Taken, Landed
<1>4. QueueInv'
  BY <1>1 DEF QueueInv, Received
<1>5. FileInv'
  BY <1>1 DEF FileInv
<1>. QED BY <1>2, <1>3, <1>4, <1>5

LEMMA WhileInv == ExperimentInv /\ ServerStep(Server!While) => ExperimentInv'
<1>. SUFFICES ASSUME ExperimentInv, ServerStep(Server!While) PROVE ExperimentInv'
  OBVIOUS
<1>1. /\ server_pc' = IF keep_running THEN "recv" ELSE "export"
      /\ UNCHANGED <<queue, keep_running, server_log, file_server>>
      /\ UNCHANGED <<network, kernel, store, userprog, queued>>
  BY DEF ServerStep, Server!While, Server!Continued
<1>2. keep_running \in BOOLEAN
  BY DEF ExperimentInv, TypeOK
<1>3. server_pc' \in {"recv", "export"} /\ (server_pc' = "export" => ~keep_running)
  BY <1>1
<1>. QED BY <1>1, <1>2, <1>3, ServerFrame

(* The head of the queue is the first uid that has not been received.       *)
LEMMA RecvfromInv == ExperimentInv /\ ServerStep(Server!recvfrom(clock)) => ExperimentInv'
<1>. SUFFICES ASSUME ExperimentInv, ServerStep(Server!recvfrom(clock))
              PROVE ExperimentInv'
  OBVIOUS
<1>. USE DEF ExperimentInv
<1>1. /\ UNCHANGED <<uid, in_flight, km, kern_log, file_kern, clock, passing>>
      /\ UNCHANGED <<arriving, stored, releasing, delivered, dropped, reading>>
      /\ UNCHANGED <<user_running, user_pc, batch, user_log, file_user, wrong, queued>>
  BY DEF ServerStep, network, kernel, store, userprog
<1>. DEFINE u == Head(queue)
<1>2. /\ server_pc = "recv" /\ queue # <<>> /\ queue' = Tail(queue)
      /\ server_log' = IF Loggable(u)
                       THEN [server_log EXCEPT ![LogCell(u)] = clock] ELSE server_log
      /\ server_pc' = IF u = MAX_LOG_ENTRY - 1 THEN "export"
                      ELSE IF keep_running THEN "recv" ELSE "export"
      /\ UNCHANGED <<keep_running, file_server>>
  BY SameLog DEF ServerStep, Server!recvfrom, Server!Continued
<1>3. /\ queue \in Seq(Keys) /\ queued \in Seq(Keys) /\ server_log \in [LogCells -> Nat]
      /\ clock \in Nat \ {0}
  BY DEF TypeOK
<1>4. /\ Len(queue) \in Nat \ {0} /\ Len(queued) \in Nat
      /\ queue' \in Seq(Keys) /\ Len(queue') = Len(queue) - 1
      /\ u = queue[1] /\ u \in Keys
      /\ \A i \in 1 .. Len(queue') : queue'[i] = queue[i + 1]
  BY <1>2, <1>3
<1>5. /\ Received \in Nat /\ Received' = Received + 1
      /\ Received + 1 \in 1 .. Len(queued)
  BY <1>1, <1>4 DEF QueueInv, Received
<1>6. u = queued[Received + 1] /\ u \in Landed
  <2>1. 1 \in 1 .. Len(queue)
    BY <1>4
  <2>2. u = queued[Received + 1]
    BY <1>4, <2>1 DEF QueueInv
  <2>. QED BY <1>5, <2>2 DEF FlowInv
<1>. HIDE DEF u
<1>7. /\ server_log' \in [LogCells -> Nat]
      /\ u \in LogUids => server_log'[LogCell(u)] = clock
      /\ \A v \in LogUids : v # u => server_log'[LogCell(v)] = server_log[LogCell(v)]
  <2>1. CASE u \in LogUids
    BY <1>2, <1>3, <1>4, <2>1, Cells, WriteEntry
  <2>2. CASE u \notin LogUids
    BY <1>2, <1>3, <1>4, <2>2, Cells
  <2>. QED BY <2>1, <2>2
<1>8. TypeOK'
  BY <1>1, <1>2, <1>4, <1>7 DEF TypeOK
<1>9. FlowInv'
  <2>1. Landed' = Landed /\ Taken' = Taken
    BY <1>1 DEF Landed, Taken
  <2>2. \A v \in LogUids : server_log'[LogCell(v)] # 0 => v \in Landed
    BY <1>6, <1>7 DEF FlowInv
  <2>. QED BY <1>1, <2>1, <2>2 DEF FlowInv
<1>10. StoreInv'
  BY <1>1 DEF StoreInv
<1>11. LogInv'
  <2>1. Taken' = Taken
    BY <1>1 DEF Taken
  <2>2. ASSUME NEW v \in LogUids, server_log'[LogCell(v)] # 0, kern_log[LogCell(v)] # 0
        PROVE  kern_log[LogCell(v)] <= server_log'[LogCell(v)]
    <3>1. CASE v = u
      BY <1>7, <2>2, <3>1 DEF LogInv
    <3>2. CASE v # u
      BY <1>7, <2>2, <3>2 DEF LogInv
    <3>. QED BY <3>1, <3>2
  <2>. QED BY <1>1, <2>1, <2>2 DEF LogInv
<1>12. FileInv'
  BY <1>1, <1>2 DEF FileInv
<1>13. QueueInv'
  <2>1. ASSUME NEW i \in 1 .. Len(queue') PROVE queue'[i] = queued[Received' + i]
    <3>1. i + 1 \in 1 .. Len(queue) /\ Received' + i = Received + (i + 1)
      BY <1>4, <1>5
    <3>2. queue[i + 1] = queued[Received + (i + 1)]
      BY <3>1 DEF QueueInv
    <3>. QED BY <1>4, <3>1, <3>2
  <2>2. ASSUME NEW j \in 1 .. Received', Loggable(queued[j])
        PROVE  server_log'[LogCell(queued[j])] # 0
    <3>1. j \in 1 .. Len(queued)
      BY <1>5
    <3>2. queued[j] \in Keys
      BY <1>3, <3>1
    <3>3. queued[j] \in LogUids
      BY <2>2, <3>2, Cells
    <3>4. CASE queued[j] = u
      BY <1>3, <1>7, <3>3, <3>4
    <3>5. CASE queued[j] # u
      <4>1. j \in 1 .. Received
        BY <1>5, <1>6, <3>5
      <4>2. server_log[LogCell(queued[j])] # 0
        BY <2>2, <4>1 DEF QueueInv
      <4>. QED BY <1>7, <3>3, <3>5, <4>2
    <3>. QED BY <3>4, <3>5
  <2>3. server_pc' \in {"export", "done"} /\ keep_running' =>
          Received' > 0 /\ queued[Received'] = MAX_LOG_ENTRY - 1
    <3>1. server_pc' \in {"export", "done"} /\ keep_running' => u = MAX_LOG_ENTRY - 1
      BY <1>2
    <3>. QED BY <1>5, <1>6, <3>1
  <2>4. Received' \in Nat
    BY <1>5
  <2>. QED BY <1>1, <2>1, <2>2, <2>3, <2>4 DEF QueueInv
<1>. QED BY <1>8, <1>9, <1>10, <1>11, <1>12, <1>13

LEMMA ServerExportInv == ExperimentInv /\ ServerStep(Server!Export) => ExperimentInv'
<1>. SUFFICES ASSUME ExperimentInv, ServerStep(Server!Export) PROVE ExperimentInv'
  OBVIOUS
<1>1. /\ server_pc = "export" /\ server_pc' = "done"
      /\ file_server' = [u \in LogUids |-> server_log[LogCell(u)]]
      /\ UNCHANGED <<queue, keep_running, server_log>>
      /\ UNCHANGED <<network, kernel, store, userprog, queued>>
  BY SameLog DEF ServerStep, Server!Export
<1>2. keep_running \in BOOLEAN
  BY DEF ExperimentInv, TypeOK
<1>3. \A u \in LogUids : file_server'[u] = server_log[LogCell(u)]
  BY <1>1
<1>. QED BY <1>1, <1>2, <1>3, ServerFrame

LEMMA ServerSignalInv ==
  /\ ExperimentInv /\ ServerStep(Server!sig_handler) => ExperimentInv'
  /\ ExperimentInv /\ ServerStep(Server!Terminated) => ExperimentInv'
<1>1. ASSUME ExperimentInv, ServerStep(Server!sig_handler) PROVE ExperimentInv'
  <2>1. /\ server_pc \notin {"done", "killed"} /\ keep_running' = FALSE
        /\ UNCHANGED <<queue, server_pc, server_log, file_server>>
        /\ UNCHANGED <<network, kernel, store, userprog, queued>>
    BY <1>1 DEF ServerStep, Server!sig_handler
  <2>2. server_pc \in {"loop", "recv", "export", "done", "killed"}
    BY <1>1 DEF ExperimentInv, TypeOK
  <2>. QED BY <1>1, <2>1, <2>2, ServerFrame
<1>2. ASSUME ExperimentInv, ServerStep(Server!Terminated) PROVE ExperimentInv'
  <2>1. /\ server_pc' = "killed"
        /\ UNCHANGED <<queue, keep_running, server_log, file_server>>
        /\ UNCHANGED <<network, kernel, store, userprog, queued>>
    BY <1>2 DEF ServerStep, Server!Terminated
  <2>2. keep_running \in BOOLEAN
    BY <1>2 DEF ExperimentInv, TypeOK
  <2>. QED BY <1>2, <2>1, <2>2, ServerFrame
<1>. QED BY <1>1, <1>2

-----------------------------------------------------------------------------
(* rmmod: the log is exported after the last packet was stamped.            *)

LEMMA MyexitInv == ExperimentInv /\ myexit => ExperimentInv'
<1>. SUFFICES ASSUME ExperimentInv, myexit PROVE ExperimentInv'
  OBVIOUS
<1>. USE DEF ExperimentInv
<1>1. /\ UNCHANGED <<uid, in_flight, kern_log, clock, passing>>
      /\ UNCHANGED <<arriving, stored, releasing, delivered, dropped, reading>>
      /\ UNCHANGED <<user_running, user_pc, batch, user_log, file_user, wrong>>
      /\ UNCHANGED <<queue, keep_running, server_pc, server_log, file_server, queued>>
  BY DEF myexit, unregisterRxHandlers, ExportKern, RemoveProc, MyexitStep,
         network, store, userprog, socket
<1>2. /\ km' \in {"loaded", "unhooked", "exported", "unloaded"}
      /\ km' # "loaded" => arriving = {}
  BY DEF myexit, unregisterRxHandlers, ExportKern, RemoveProc, StoreInv
<1>3. km' \in {"exported", "unloaded"} =>
        \A u \in LogUids : file_kern'[u] = kern_log[LogCell(u)]
  <2>1. CASE unregisterRxHandlers
    BY <2>1 DEF unregisterRxHandlers
  <2>2. CASE ExportKern
    BY <2>2 DEF ExportKern
  <2>3. CASE RemoveProc
    BY <2>3 DEF RemoveProc, FileInv
  <2>. QED BY <2>1, <2>2, <2>3 DEF myexit
<1>4. TypeOK'
  BY <1>1, <1>2 DEF TypeOK
<1>5. StoreInv'
  BY <1>1, <1>2 DEF StoreInv
<1>6. FlowInv' /\ LogInv' /\ QueueInv'
  BY <1>1 DEF FlowInv, LogInv, QueueInv, Received, Taken, Landed
<1>7. FileInv'
  BY <1>1, <1>3 DEF FileInv
<1>. QED BY <1>4, <1>5, <1>6, <1>7

LEMMA StutterInv == ExperimentInv /\ UNCHANGED vars => ExperimentInv'
<1>. SUFFICES ASSUME ExperimentInv, UNCHANGED vars PROVE ExperimentInv'
  OBVIOUS
<1>1. /\ UNCHANGED <<uid, in_flight, km, kern_log, file_kern, clock, passing>>
      /\ UNCHANGED <<arriving, stored, releasing, delivered, dropped, reading>>
      /\ UNCHANGED <<user_running, user_pc, batch, user_log, file_user, wrong>>
      /\ UNCHANGED <<queue, keep_running, server_pc, server_log, file_server, queued>>
  BY DEF vars, network, kernel, store, userprog, socket
<1>. QED BY <1>1 DEF ExperimentInv, TypeOK, FlowInv, StoreInv, LogInv, FileInv, QueueInv,
                     Received, Taken, Landed

LEMMA NextInv == ExperimentInv /\ [Next]_vars => ExperimentInv'
<1>. SUFFICES ASSUME ExperimentInv, [Next]_vars PROVE ExperimentInv'
  OBVIOUS
<1>1. CASE Sendto \/ Arrive \/ ArriveUnhooked
  BY <1>1, SendtoInv, ArriveInv, ArriveUnhookedInv
<1>2. CASE softirq
  BY <1>2, LookInv, HandledInv, PassInv DEF softirq
<1>3. CASE user
  BY <1>3, StartReadInv, DeliverInv, ReleaseInv, EndReadInv, ProcessPacketInv,
     EndOfBatchInv, UserExportInv DEF user
<1>4. CASE server
  <2>1. ServerStep(Server!While) \/ ServerStep(Server!recvfrom(clock))
        \/ ServerStep(Server!Export)
    BY <1>4 DEF server, ServerStep, Server!Main
  <2>. QED BY <2>1, WhileInv, RecvfromInv, ServerExportInv
<1>5. CASE signals
  BY <1>5, UserSignalInv, ServerSignalInv DEF signals
<1>6. CASE myexit
  BY <1>6, MyexitInv
<1>7. CASE UNCHANGED vars
  BY <1>7, StutterInv
<1>. QED BY <1>1, <1>2, <1>3, <1>4, <1>5, <1>6, <1>7 DEF Next

LEMMA ExperimentInvariant == Spec => []ExperimentInv
  BY InitInv, NextInv, PTL DEF Spec

-----------------------------------------------------------------------------
(* No latency computed from two of the files is negative: whatever the      *)
(* process logged, the handler logged before, and the server's stamp is no  *)
(* earlier than the handler's where there are both.                         *)
THEOREM LogsInOrder == Spec => []StampsInOrder
<1>1. ExperimentInv => StampsInOrder
  <2>. SUFFICES ASSUME ExperimentInv PROVE StampsInOrder
    OBVIOUS
  <2>1. LogInv /\ StoreInv
    BY DEF ExperimentInv
  <2>2. delivered \subseteq Taken
    BY DEF Taken
  <2>. QED BY <2>1, <2>2 DEF StampsInOrder, LogInv
<1>. QED BY <1>1, ExperimentInvariant, PTL

(* The scripts take the difference of two "Zeroed" figures for the loss of  *)
(* the cache.  With both files written it is: what has a zero only in the   *)
(* process's file was dropped or is still in the cache.                     *)
THEOREM DifferenceIsLoss == Spec => []LossIsZeroDifference
<1>1. ExperimentInv => LossIsZeroDifference
  <2>. SUFFICES ASSUME ExperimentInv, user_pc = "done", km \in {"exported", "unloaded"}
                PROVE  Zeroed(file_user) - Zeroed(file_kern)
                         = Cardinality((dropped \cup stored) \cap LogUids)
    BY DEF LossIsZeroDifference
  <2>. DEFINE ZU == {u \in LogUids : file_user[u] = 0}
              ZK == {u \in LogUids : file_kern[u] = 0}
              Lost == (dropped \cup stored) \cap LogUids
  <2>1. /\ arriving = {} /\ batch = {}
        /\ stored \cap (delivered \cup dropped) = {} /\ delivered \cap dropped = {}
    BY DEF ExperimentInv, StoreInv
  <2>2. \A u \in LogUids : (file_user[u] = 0) <=> (u \notin delivered)
    BY <2>1 DEF ExperimentInv, LogInv, FileInv
  <2>3. \A u \in LogUids : (file_kern[u] = 0) <=> (u \notin stored \cup delivered \cup dropped)
    BY <2>1 DEF ExperimentInv, LogInv, FileInv, Taken
  <2>4. ZU \ ZK = Lost /\ ZU \cap ZK = ZK
    BY <2>1, <2>2, <2>3
  <2>5. IsFiniteSet(ZU) /\ IsFiniteSet(ZK)
    <3>1. IsFiniteSet(LogUids)
      <4>1. 0 \in Int /\ MAX_LOG_ENTRY - 1 \in Int
        BY Cells
      <4>. QED BY <4>1, FS_Interval DEF LogUids
    <3>. QED BY <3>1, FS_Subset
  <2>. HIDE DEF ZU, ZK, Lost
  <2>6. Cardinality(Lost) = Cardinality(ZU) - Cardinality(ZK)
    BY <2>4, <2>5, FS_Difference
  <2>. QED BY <2>6 DEF Zeroed, ZU, ZK, Lost
<1>. QED BY <1>1, ExperimentInvariant, PTL

(* A server that ended by itself received the uid it takes for the last,    *)
(* and its file has a stamp for everything that reached its socket before.  *)
THEOREM ServersFileComplete == Spec => []ServerFileComplete
<1>1. ExperimentInv => ServerFileComplete
  <2>. SUFFICES ASSUME ExperimentInv, server_pc = "done", keep_running
                PROVE  \E k \in DOMAIN queued :
                         /\ queued[k] = MAX_LOG_ENTRY - 1
                         /\ \A j \in 1 .. k :
                              Loggable(queued[j]) => queued[j] \in StampedInFile
    BY DEF ServerFileComplete
  <2>1. /\ Received \in Nat /\ Received > 0 /\ queued[Received] = MAX_LOG_ENTRY - 1
        /\ \A j \in 1 .. Received :
             Loggable(queued[j]) => server_log[LogCell(queued[j])] # 0
    BY DEF ExperimentInv, QueueInv
  <2>2. queued \in Seq(Keys) /\ queue \in Seq(Keys)
    BY DEF ExperimentInv, TypeOK
  <2>3. Received \in 1 .. Len(queued) /\ DOMAIN queued = 1 .. Len(queued)
    BY <2>1, <2>2 DEF Received
  <2>4. ASSUME NEW j \in 1 .. Received, Loggable(queued[j])
        PROVE  queued[j] \in StampedInFile
    <3>1. j \in 1 .. Len(queued)
      BY <2>3
    <3>2. queued[j] \in Keys
      BY <2>2, <3>1
    <3>3. queued[j] \in LogUids
      BY <2>4, <3>2, Cells
    <3>. QED BY <2>1, <2>4, <3>3 DEF ExperimentInv, FileInv, StampedInFile
  <2>. QED BY <2>1, <2>3, <2>4
<1>. QED BY <1>1, ExperimentInvariant, PTL
=============================================================================
