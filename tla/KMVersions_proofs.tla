------------------------- MODULE KMVersions_proofs --------------------------
(***************************************************************************)
(* For any number of loads, log buffers and processes, and any choice of   *)
(* the four modules and of the programs: what a load may leave in the      *)
(* kernel (LeaksInv), and that nothing that the handler, a call or a       *)
(* mapping uses goes while it is used (UseInv).  At the end, what          *)
(* DraftCaches_proofs shows of the drafts' caches.                         *)
(***************************************************************************)
EXTENDS KMVersions, SequenceTheorems, TLAPS

-----------------------------------------------------------------------------
(* What a load leaves: the tables. *)

LEMMA InitTables ==
  ASSUME km \in Modules, NEW i \in 1 .. Len(km.init)
  PROVE  /\ km.init[i] = "logs" => km \in {Current, Legacy} /\ i = 3
         /\ km.init[i] \in {"ring", "temp"} => km # Example
         /\ km \in {Current, Legacy} =>
              /\ km.init[i] = "ring" => i = 1
              /\ km.init[i] = "temp" => i = 2
              /\ km.init[i] \in {"entry", "hook"} => i > 3
<1>1. CASE km = Current
  BY <1>1 DEF Current, CurrentInit, Example, Legacy
<1>2. CASE km = Legacy
  BY <1>2 DEF Legacy, LegacyInit, Example
<1>3. CASE km = Temp
  BY <1>3 DEF Temp, TempInit, Example, Current, Legacy
<1>4. CASE km = Example
  BY <1>4 DEF Example, ExampleInit, Current, Legacy
<1>. QED BY <1>1, <1>2, <1>3, <1>4, ModulesAssumption

LEMMA ExitTables ==
  ASSUME km \in Modules
  PROVE  /\ Len(km.exit) \in Nat \ {0}
         /\ km # Example => km.exit[Len(km.exit)] = "free"
         /\ \A i \in 1 .. Len(km.exit) : km.exit[i] = "free" => i = Len(km.exit)
<1>1. CASE km = Current
  BY <1>1 DEF Current, CurrentExit
<1>2. CASE km = Legacy
  BY <1>2 DEF Legacy, LegacyExit
<1>3. CASE km = Temp
  BY <1>3 DEF Temp, TempExit
<1>4. CASE km = Example
  BY <1>4 DEF Example, ExampleExit
<1>. QED BY <1>1, <1>2, <1>3, <1>4, ModulesAssumption

-----------------------------------------------------------------------------
(* Steps that allocate and free nothing. *)

Parts == {"out", "init", "in", "exit", "hung"}

LEMMA LeaksStutter ==
  ASSUME LeaksInv, UNCHANGED <<km, load, pc, mem, outcome>>
  PROVE  LeaksInv'
  BY DEF LeaksInv, Explained, LeftBehind, Failed

LEMMA PcMoves ==
  ASSUME LeaksInv, UNCHANGED <<km, load, mem, outcome>>,
         pc' \in [part : {"in", "exit", "hung"}, i : Nat \ {0}],
         pc'.part \in {"in", "exit"} => pc.part \in {"init", "in", "exit"},
         pc'.part = "exit" /\ pc'.i > Len(km.exit) => LeftBehind(load) = {}
  PROVE  LeaksInv'
  BY DEF LeaksInv, Explained, LeftBehind, Failed

(* myexit past a step that is not the freeing. *)
LEMMA ExitMoves ==
  ASSUME LeaksInv, UNCHANGED <<km, load, mem, outcome>>, Onward,
         NEW step \in {"unhook", "sync", "export", "dead", "drain", "release", "removed"},
         InExit(step)
  PROVE  LeaksInv'
<1>1. /\ pc.part = "exit" /\ pc.i \in 1 .. Len(km.exit) /\ km.exit[pc.i] # "free"
      /\ pc' = [pc EXCEPT !.i = @ + 1]
  BY ExitTables DEF LeaksInv, InExit, Onward
<1>2. /\ pc' \in [part : {"in", "exit", "hung"}, i : Nat \ {0}]
      /\ pc'.part = "exit" /\ pc'.i = pc.i + 1
  BY <1>1 DEF LeaksInv
<1>3. km # Example => pc.i < Len(km.exit)
  BY <1>1, ExitTables DEF LeaksInv
<1>4. pc'.i > Len(km.exit) => LeftBehind(load) = {}
  BY <1>1, <1>2, <1>3, ExitTables DEF LeaksInv
<1>. QED BY <1>1, <1>2, <1>4, PcMoves

(* myinit past a step after the log buffers. *)
LEMMA InitMoves ==
  ASSUME LeaksInv, UNCHANGED <<km, load, mem, outcome>>, Onward,
         InInit("entry") \/ InInit("hook")
  PROVE  LeaksInv'
<1>1. /\ pc.part = "init" /\ pc.i \in 1 .. Len(km.init) /\ pc' = [pc EXCEPT !.i = @ + 1]
      /\ km \in {Current, Legacy} => pc.i > 3
  BY InitTables DEF LeaksInv, InInit, Onward
<1>2. pc' \in [part : Parts, i : Nat \ {0}] /\ pc'.part = "init" /\ pc'.i = pc.i + 1
  BY <1>1 DEF LeaksInv, Parts
<1>. QED BY <1>1, <1>2 DEF LeaksInv, Explained, LeftBehind, Failed, Parts

-----------------------------------------------------------------------------
(* Steps that do. *)

LEMMA NotYetExplained ==
  ASSUME LeaksInv, NEW l \in Loads, l # load
  PROVE  Explained(l)
  BY DEF LeaksInv, Explained, Loads

LEMMA LeaksInsmod == ASSUME LeaksInv, Insmod PROVE LeaksInv'
<1>1. /\ pc.part = "out" /\ load' = load + 1 /\ load' \in Loads
      /\ pc' = [part |-> "init", i |-> 1] /\ UNCHANGED <<km, mem, outcome>>
  BY LifecycleSizes DEF Insmod, To, LeaksInv, Loads
<1>2. \A l \in Loads : LeftBehind(l)' = LeftBehind(l) /\ Explained(l)' = Explained(l)
  BY <1>1 DEF Explained, LeftBehind, Failed
<1>3. LeftBehind(load') = {} /\ LeftBehind(load)' = LeftBehind(load')
  BY <1>1 DEF LeaksInv, LeftBehind
<1>. QED BY <1>1, <1>2, <1>3, LifecycleSizes DEF LeaksInv, Loads

LEMMA LeaksKmalloc == ASSUME LeaksInv, InitKmalloc PROVE LeaksInv'
<1>1. /\ pc.part = "init" /\ load \in Loads /\ UNCHANGED <<km, load, outcome>>
      /\ pc.i \in 1 .. Len(km.init) /\ km.init[pc.i] \in {"ring", "temp"}
  BY DEF InitKmalloc, InInit, LeaksInv
<1>2. CASE To("hung") /\ UNCHANGED mem
  BY <1>1, <1>2, PcMoves DEF To
<1>3. CASE mem' = mem \cup {<<load, km.init[pc.i], 0>>} /\ Onward
  <2>1. /\ pc' \in [part : Parts, i : Nat \ {0}] /\ pc'.part = "init"
        /\ pc'.i = pc.i + 1
    BY <1>1, <1>3 DEF LeaksInv, Onward, Parts
  <2>2. LeftBehind(load)' = LeftBehind(load) \cup {<<load, km.init[pc.i], 0>>}
    BY <1>1, <1>3 DEF LeftBehind
  <2>3. \A l \in Loads : l # load =>
          LeftBehind(l)' = LeftBehind(l) /\ Explained(l)' = Explained(l)
    BY <1>1, <1>3 DEF LeftBehind, Explained, Failed
  <2>4. km # Example /\ (km \in {Current, Legacy} =>
          \/ pc.i = 1 /\ km.init[pc.i] = "ring"
          \/ pc.i = 2 /\ km.init[pc.i] = "temp")
    BY <1>1, InitTables DEF LeaksInv
  <2>5. km' \in {Current, Legacy} =>
          /\ pc'.i = 2 => LeftBehind(load)' = {<<load, "ring", 0>>}
          /\ pc'.i = 3 => LeftBehind(load)' = {<<load, "ring", 0>>, <<load, "temp", 0>>}
    BY <1>1, <2>1, <2>2, <2>4 DEF LeaksInv
  <2>. QED BY <1>1, <2>1, <2>3, <2>4, <2>5 DEF LeaksInv, Parts, Loads
<1>. QED BY <1>2, <1>3 DEF InitKmalloc

LEMMA LeaksLogs == ASSUME LeaksInv, InitLogs PROVE LeaksInv'
<1>1. /\ pc.part = "init" /\ load \in Loads /\ UNCHANGED <<km, load>>
      /\ pc.i = 3 /\ km \in {Current, Legacy}
      /\ LeftBehind(load) = {<<load, "ring", 0>>, <<load, "temp", 0>>}
  BY InitTables DEF InitLogs, InInit, LeaksInv
<1>2. km # Example
  BY <1>1 DEF Current, Legacy, Example
<1>3. CASE /\ mem' = mem \cup {<<load, "log", n>> : n \in Logs}
           /\ Onward /\ UNCHANGED outcome
  <2>1. /\ pc' \in [part : Parts, i : Nat \ {0}] /\ pc'.part = "init" /\ pc'.i = 4
    BY <1>1, <1>3 DEF LeaksInv, Onward, Parts
  <2>2. \A l \in Loads : l # load =>
          LeftBehind(l)' = LeftBehind(l) /\ Explained(l)' = Explained(l)
    BY <1>1, <1>3 DEF LeftBehind, Explained, Failed
  <2>. QED BY <1>1, <1>2, <1>3, <2>1, <2>2 DEF LeaksInv, Parts, Loads
<1>4. CASE /\ mem' = mem /\ outcome' = [outcome EXCEPT ![load] = "noMem"] /\ To("out")
  <2>1. pc' = [part |-> "out", i |-> 1]
    BY <1>4 DEF To
  <2>2. \A l \in Loads : LeftBehind(l)' = LeftBehind(l)
    BY <1>4 DEF LeftBehind
  <2>3. \A l \in Loads : l # load => Explained(l)' = Explained(l)
    BY <1>4, <2>2 DEF Explained, Failed, LeaksInv
  <2>4. Explained(load)'
    BY <1>1, <1>4, <2>2 DEF Explained, Failed, LeaksInv
  <2>5. outcome' \in [Loads -> {"none", "noMem", "noFile", "ok"}]
    BY <1>4 DEF LeaksInv
  <2>6. \A l \in Loads : Explained(l)'
    BY <1>1, <2>3, <2>4, NotYetExplained DEF LeaksInv, Loads
  <2>. QED BY <1>1, <1>2, <2>1, <2>2, <2>5, <2>6 DEF LeaksInv
<1>. QED BY <1>3, <1>4 DEF InitLogs, KeptOnFailure

LEMMA LeaksExport == ASSUME LeaksInv, ExitExport PROVE LeaksInv'
<1>1. /\ pc.part = "exit" /\ load \in Loads /\ InExit("export") /\ UNCHANGED <<km, load, mem>>
  BY DEF ExitExport, InExit, LeaksInv
<1>2. CASE Onward /\ UNCHANGED outcome
  BY <1>1, <1>2, ExitMoves
<1>3. CASE To("out") /\ outcome' = [outcome EXCEPT ![load] = "noFile"]
  <2>1. pc' = [part |-> "out", i |-> 1]
    BY <1>3 DEF To
  <2>2. \A l \in Loads \cup {load} : LeftBehind(l)' = LeftBehind(l)
    BY <1>1 DEF LeftBehind
  <2>3. \A l \in Loads : l # load => Explained(l)' = Explained(l)
    BY <1>3, <2>2 DEF Explained, Failed, LeaksInv
  <2>4. Explained(load)'
    BY <1>1, <1>3 DEF Explained, Failed, LeaksInv
  <2>5. outcome' \in [Loads -> {"none", "noMem", "noFile", "ok"}]
    BY <1>3 DEF LeaksInv
  <2>6. \A l \in Loads : Explained(l)'
    BY <1>1, <2>3, <2>4, NotYetExplained DEF LeaksInv, Loads
  <2>. QED BY <1>1, <2>1, <2>2, <2>5, <2>6 DEF LeaksInv
<1>. QED BY <1>2, <1>3 DEF ExitExport

LEMMA LeaksFree == ASSUME LeaksInv, ExitFree PROVE LeaksInv'
<1>1. UNCHANGED <<km, load, outcome>> /\ Onward
  BY DEF ExitFree
<1>2. CASE InExit("removed") /\ UNCHANGED mem
  BY <1>1, <1>2, ExitMoves
<1>3. CASE InExit("free") /\ mem' = {m \in mem : m[1] # load}
  <2>1. /\ pc.part = "exit" /\ load \in Loads
        /\ pc' \in [part : Parts, i : Nat \ {0}] /\ pc'.part = "exit"
    BY <1>1, <1>3 DEF LeaksInv, InExit, Onward, Parts
  <2>2. LeftBehind(load)' = {}
    BY <1>1, <1>3 DEF LeftBehind
  <2>3. \A l \in Loads : l # load =>
          LeftBehind(l)' = LeftBehind(l) /\ Explained(l)' = Explained(l)
    BY <1>1, <1>3 DEF LeftBehind, Explained, Failed
  <2>. QED BY <1>1, <2>1, <2>2, <2>3 DEF LeaksInv, Parts, Loads
<1>. QED BY <1>2, <1>3 DEF ExitFree

LEMMA LeaksUnloaded == ASSUME LeaksInv, Unloaded PROVE LeaksInv'
<1>1. /\ pc.part = "exit" /\ load \in Loads /\ LeftBehind(load) = {}
      /\ UNCHANGED <<km, load, mem>> /\ pc' = [part |-> "out", i |-> 1]
      /\ outcome' = [outcome EXCEPT ![load] = "ok"]
  BY DEF Unloaded, To, LeaksInv
<1>2. \A l \in Loads \cup {load} : LeftBehind(l)' = LeftBehind(l)
  BY <1>1 DEF LeftBehind
<1>3. \A l \in Loads : l # load => Explained(l)' = Explained(l)
  BY <1>1, <1>2 DEF Explained, Failed, LeaksInv
<1>4. Explained(load)'
  BY <1>1, <1>2 DEF Explained
<1>5. outcome' \in [Loads -> {"none", "noMem", "noFile", "ok"}]
  BY <1>1 DEF LeaksInv
<1>6. \A l \in Loads : Explained(l)'
  BY <1>1, <1>3, <1>4, NotYetExplained DEF LeaksInv, Loads
<1>. QED BY <1>1, <1>2, <1>5, <1>6 DEF LeaksInv

-----------------------------------------------------------------------------
LEMMA LeaksInit == Init => LeaksInv
<1>. SUFFICES ASSUME Init PROVE LeaksInv
  OBVIOUS
<1>1. \A l : LeftBehind(l) = {}
  BY DEF Init, LeftBehind
<1>. QED BY <1>1, LifecycleSizes DEF Init, LeaksInv, Explained, Loads

LEMMA LeaksStep == LeaksInv /\ [Next]_vars => LeaksInv'
<1>. SUFFICES ASSUME LeaksInv, [Next]_vars PROVE LeaksInv'
  OBVIOUS
<1>1. CASE Insmod
  BY <1>1, LeaksInsmod
<1>2. CASE InitKmalloc \/ InitLogs
  BY <1>2, LeaksKmalloc, LeaksLogs
<1>3. CASE InitEntry \/ registerRxHandlers
  BY <1>3, InitMoves DEF InitEntry, registerRxHandlers
<1>4. CASE Loaded
  BY <1>4, PcMoves DEF Loaded, To
<1>5. CASE RmmodStarts
  BY <1>5, PcMoves, ExitTables DEF RmmodStarts, To, LeaksInv
<1>6. CASE unregisterRxHandlers \/ ExitRemove
  BY <1>6, ExitMoves DEF unregisterRxHandlers, ExitRemove
<1>7. CASE ExitWaits
  BY <1>7, ExitMoves DEF ExitWaits
<1>8. CASE ExitExport
  BY <1>8, LeaksExport
<1>9. CASE ExitRelease
  <2>1. UNCHANGED <<km, load, mem, outcome>> /\ InExit("release")
    BY <1>9 DEF ExitRelease
  <2>2. CASE Onward
    BY <2>1, <2>2, ExitMoves
  <2>3. CASE UNCHANGED pc
    BY <2>1, <2>3, LeaksStutter
  <2>4. CASE To("hung")
    BY <2>1, <2>4, PcMoves DEF To
  <2>. QED BY <1>9, <2>2, <2>3, <2>4 DEF ExitRelease
<1>10. CASE ExitFree \/ Unloaded
  BY <1>10, LeaksFree, LeaksUnloaded
<1>11. CASE PacketIn \/ rxhPacketIn
  BY <1>11, LeaksStutter DEF PacketIn, rxhPacketIn
<1>12. CASE \E p \in Procs : process(p)
  BY <1>12, LeaksStutter
  DEF process, Open, Syscall, Got, Access, Munmap, Close, Kill, Again, others
<1>13. CASE \E a \in Procs \cup {Rmmod} : thread(a)
  <2>1. PICK a \in Procs \cup {Rmmod} : thread(a)
    BY <1>13
  <2>2. UNCHANGED <<km, load, mem, outcome>> /\ (To("hung") \/ UNCHANGED pc)
    BY <2>1 DEF thread, Dies, FileStep, Returns, others
  <2>3. CASE To("hung")
    BY <2>2, <2>3, PcMoves DEF To
  <2>4. CASE UNCHANGED pc
    BY <2>2, <2>4, LeaksStutter
  <2>. QED BY <2>2, <2>3, <2>4
<1>14. CASE UNCHANGED vars
  BY <1>14, LeaksStutter DEF vars
<1>. QED
  BY <1>1, <1>2, <1>3, <1>4, <1>5, <1>6, <1>7, <1>8, <1>9, <1>10, <1>11, <1>12, <1>13,
     <1>14 DEF Next, myinit, myexit

(* Of a load that is gone only two returns leave anything allocated: that   *)
(* of myinit without log buffers (line 351), exactly ring and temp, and     *)
(* that of myexit without log file (line 382).                              *)
THEOREM OnlyTwoReturnsLeak == Spec => []LeaksExplained
<1>1. LeaksInv => LeaksExplained
  BY DEF LeaksInv, LeaksExplained, Explained, Present, Loads
<1>. QED BY LeaksInit, LeaksStep, <1>1, PTL DEF Spec

-----------------------------------------------------------------------------
(* What is in use: the tables again, in the form in which the steps use     *)
(* them: where each step stands, what has been taken and is to be given     *)
(* back.                                                                    *)

Long == km \in {Current, Legacy}
Part == pc.part
Place == pc.i
Inits == Len(km.init)
Exits == Len(km.exit)
InitAt(step, n) ==
  /\ InInit(step) <=> Part = "init" /\ Place = n
  /\ InitPast(step) <=> Part = "init" /\ Place > n
ExitAt(step, n) ==
  /\ InExit(step) <=> Part = "exit" /\ Place = n
  /\ ExitTill(step) <=> Part = "exit" /\ Place <= n
NotIn(step) == ~InInit(step) /\ ~InExit(step)

PcType == pc \in [part : {"out", "init", "in", "exit", "hung"}, i : Nat \ {0}]

LEMMA Modules4 ==
  ASSUME km \in Modules
  PROVE  \/ Long /\ km # Temp /\ km # Example
         \/ km = Temp /\ ~Long /\ km # Example
         \/ km = Example /\ ~Long /\ km # Temp
  BY ModulesAssumption DEF Long, Current, Legacy, Temp, Example

LEMMA LongPlaces ==
  ASSUME Long, PcType
  PROVE  /\ InitAt("ring", 1) /\ InitAt("temp", 2) /\ InitAt("logs", 3)
         /\ InitAt("entry", 4) /\ InitAt("hook", 5) /\ Len(km.init) = 5
         /\ ExitAt("unhook", 1) /\ ExitAt("sync", 2) /\ ExitAt("export", 3)
         /\ ExitAt("dead", 4) /\ ExitAt("drain", 5) /\ ExitAt("release", 6)
         /\ ExitAt("removed", 7) /\ ExitAt("free", 8) /\ Len(km.exit) = 8
<1>1. /\ km.init = <<"ring", "temp", "logs", "entry", "hook">>
      /\ km.exit = <<"unhook", "sync", "export", "dead", "drain", "release", "removed", "free">>
  BY DEF Long, Current, CurrentInit, CurrentExit, Legacy, LegacyInit, LegacyExit
<1>2. pc.i \in Nat \ {0} /\ Len(km.init) = 5 /\ Len(km.exit) = 8
  BY <1>1 DEF PcType
<1>3. \A i \in Nat \ {0} : i < 6 => i = 1 \/ i = 2 \/ i = 3 \/ i = 4 \/ i = 5
  OBVIOUS
<1>4. InitAt("ring", 1) /\ InitAt("temp", 2) /\ InitAt("logs", 3)
  BY <1>1, <1>2 DEF InitAt, InInit, InitPast, Part, Place
<1>5. InitAt("entry", 4) /\ InitAt("hook", 5)
  BY <1>1, <1>2 DEF InitAt, InInit, InitPast, Part, Place
<1>6. ExitAt("unhook", 1) /\ ExitAt("sync", 2)
  BY <1>1, <1>2 DEF ExitAt, InExit, ExitTill, Part, Place
<1>7. ExitAt("export", 3) /\ ExitAt("dead", 4)
  BY <1>1, <1>2 DEF ExitAt, InExit, ExitTill, Part, Place
<1>8. ExitAt("drain", 5) /\ ExitAt("release", 6)
  BY <1>1, <1>2 DEF ExitAt, InExit, ExitTill, Part, Place
<1>9. ExitAt("removed", 7) /\ ExitAt("free", 8)
  BY <1>1, <1>2 DEF ExitAt, InExit, ExitTill, Part, Place
<1>. QED BY <1>2, <1>4, <1>5, <1>6, <1>7, <1>8, <1>9

LEMMA TempPlaces ==
  ASSUME km = Temp, PcType
  PROVE  /\ InitAt("ring", 1) /\ NotIn("temp") /\ NotIn("logs")
         /\ InitAt("entry", 2) /\ InitAt("hook", 3) /\ Len(km.init) = 3
         /\ ExitAt("unhook", 1) /\ ExitAt("sync", 2) /\ NotIn("export")
         /\ ExitAt("dead", 3) /\ ExitAt("drain", 4) /\ ExitAt("release", 5)
         /\ ExitAt("removed", 6) /\ ExitAt("free", 7) /\ Len(km.exit) = 7
<1>1. /\ km.init = <<"ring", "entry", "hook">>
      /\ km.exit = <<"unhook", "sync", "dead", "drain", "release", "removed", "free">>
  BY DEF Temp, TempInit, TempExit
<1>2. pc.i \in Nat \ {0} /\ Len(km.init) = 3 /\ Len(km.exit) = 7
  BY <1>1 DEF PcType
<1>4. InitAt("ring", 1) /\ InitAt("entry", 2) /\ InitAt("hook", 3)
  BY <1>1, <1>2 DEF InitAt, InInit, InitPast, Part, Place
<1>5. NotIn("temp") /\ NotIn("logs") /\ NotIn("export")
  BY <1>1, <1>2 DEF NotIn, InInit, InExit
<1>6. ExitAt("unhook", 1) /\ ExitAt("sync", 2)
  BY <1>1, <1>2 DEF ExitAt, InExit, ExitTill, Part, Place
<1>7. ExitAt("dead", 3) /\ ExitAt("drain", 4)
  BY <1>1, <1>2 DEF ExitAt, InExit, ExitTill, Part, Place
<1>8. ExitAt("release", 5) /\ ExitAt("removed", 6) /\ ExitAt("free", 7)
  BY <1>1, <1>2 DEF ExitAt, InExit, ExitTill, Part, Place
<1>. QED BY <1>2, <1>4, <1>5, <1>6, <1>7, <1>8

LEMMA ExamplePlaces ==
  ASSUME km = Example, PcType
  PROVE  /\ NotIn("ring") /\ NotIn("temp") /\ NotIn("logs") /\ NotIn("hook")
         /\ InitAt("entry", 1) /\ Len(km.init) = 1
         /\ NotIn("unhook") /\ NotIn("sync") /\ NotIn("export") /\ NotIn("free")
         /\ ExitAt("dead", 1) /\ ExitAt("drain", 2) /\ ExitAt("release", 3)
         /\ ExitAt("removed", 4) /\ Len(km.exit) = 4
<1>1. km.init = <<"entry">> /\ km.exit = <<"dead", "drain", "release", "removed">>
  BY DEF Example, ExampleInit, ExampleExit
<1>2. pc.i \in Nat \ {0} /\ Len(km.init) = 1 /\ Len(km.exit) = 4
  BY <1>1 DEF PcType
<1>4. InitAt("entry", 1)
  BY <1>1, <1>2 DEF InitAt, InInit, InitPast, Part, Place
<1>5. /\ NotIn("ring") /\ NotIn("temp") /\ NotIn("logs") /\ NotIn("hook")
      /\ NotIn("unhook") /\ NotIn("sync") /\ NotIn("export") /\ NotIn("free")
  BY <1>1, <1>2 DEF NotIn, InInit, InExit
<1>6. ExitAt("dead", 1) /\ ExitAt("drain", 2) /\ ExitAt("release", 3) /\ ExitAt("removed", 4)
  BY <1>1, <1>2 DEF ExitAt, InExit, ExitTill, Part, Place
<1>. QED BY <1>2, <1>4, <1>5, <1>6

LEMMA OpsTables ==
  ASSUME km \in Modules
  PROVE  /\ km.ops.open = <<"info", "page", "fill">> \/ km.ops.open = <<>>
         /\ km.ops.mmap = <<"vma">> /\ km.ops.fault = <<"get">>
         /\ km.ops.read = <<"copy">> \/ (km.ops.read = <<"cache">> /\ km # Example)
         /\ km.ops.write = <<"copy">> /\ km.ops.release = <<"put", "kfree">>
         /\ km.text \in Texts
<1>1. CASE km = Current
  BY <1>1, Modules4 DEF Current, CurrentOps, Long, Texts
<1>2. CASE km = Legacy
  BY <1>2, Modules4 DEF Legacy, LegacyOps, Long, Texts
<1>3. CASE km = Temp
  BY <1>3, Modules4 DEF Temp, TempOps, Texts
<1>4. CASE km = Example
  BY <1>4 DEF Example, ExampleOps, Texts
<1>. QED BY <1>1, <1>2, <1>3, <1>4, ModulesAssumption

Ins == [do : {"open", "mmap", "read", "write", "got", "same", "store", "munmap", "close"},
        k : 0 .. 2, text : Texts]
Body == {s \in Ins : /\ s.do \in {"mmap", "read", "write", "got", "same", "store"}
                     /\ s.do \in {"mmap", "same", "store"} => s.k \in 1 .. 2}

LEMMA ProgramTable ==
  ASSUME NEW P \in Programs
  PROVE  /\ P \in Seq(Ins) /\ Len(P) \in Nat /\ Len(P) >= 2
         /\ P[1].do = "open" /\ \A i \in 2 .. Len(P) : P[i] \in Body
<1>1. ASSUME NEW first \in Texts, NEW third \in Texts, P = Demo(first, third)
      PROVE  /\ P \in Seq(Ins) /\ Len(P) \in Nat /\ Len(P) >= 2
             /\ P[1].do = "open" /\ \A i \in 2 .. Len(P) : P[i] \in Body
  <2>1. Len(P) = 12 /\ P \in Seq(Ins)
    BY <1>1 DEF Demo, Step, Ins, Texts
  <2>2. P[1].do = "open"
    BY <1>1 DEF Demo, Step
  <2>3. P[2] \in Body /\ P[3] \in Body /\ P[4] \in Body /\ P[5] \in Body
    BY <1>1 DEF Demo, Step, Body, Ins, Texts
  <2>4. P[6] \in Body /\ P[7] \in Body /\ P[8] \in Body /\ P[9] \in Body
    BY <1>1 DEF Demo, Step, Body, Ins, Texts
  <2>5. P[10] \in Body /\ P[11] \in Body /\ P[12] \in Body
    BY <1>1 DEF Demo, Step, Body, Ins, Texts
  <2>6. \A i \in 2 .. 12 : \/ i = 2 \/ i = 3 \/ i = 4 \/ i = 5 \/ i = 6 \/ i = 7 \/ i = 8
                           \/ i = 9 \/ i = 10 \/ i = 11 \/ i = 12
    OBVIOUS
  <2>. QED BY <2>1, <2>2, <2>3, <2>4, <2>5, <2>6
<1>2. CASE P = MmapU \/ P = Original
  BY <1>1, <1>2 DEF MmapU, Original, Texts
<1>3. CASE P = UserProcessing
  BY <1>3 DEF UserProcessing, Step, Body, Ins, Texts
<1>4. CASE P = Echo
  BY <1>4 DEF Echo, Step, Body, Ins, Texts
<1>. QED BY <1>2, <1>3, <1>4, ProgramsAssumption

LEMMA ScriptTable ==
  ASSUME NEW p \in Procs, program \in [Procs -> Programs]
  PROVE  /\ End(p) \in Nat /\ End(p) >= 2 /\ Len(Script(p)) = End(p) + 3
         /\ Script(p)[1].do = "open" /\ Script(p)[1].k \in 0 .. 2
         /\ \A i \in 2 .. End(p) : Script(p)[i] \in Body /\ program[p][i] \in Body
         /\ Script(p)[End(p) + 1].do = "munmap" /\ Script(p)[End(p) + 1].k = 1
         /\ Script(p)[End(p) + 2].do = "munmap" /\ Script(p)[End(p) + 2].k = 2
         /\ Script(p)[End(p) + 3].do = "close" /\ Script(p)[End(p) + 3].k = 0
<1>. DEFINE P == program[p]
            n == Len(P)
            C == P \o Leave
<1>1. /\ P \in Seq(Ins) /\ n \in Nat /\ n >= 2
      /\ P[1].do = "open" /\ \A i \in 2 .. n : P[i] \in Body
  BY ProgramTable
<1>2. /\ Leave \in Seq(Ins) /\ Len(Leave) = 3
      /\ Leave[1].do = "munmap" /\ Leave[1].k = 1 /\ Leave[2].do = "munmap" /\ Leave[2].k = 2
      /\ Leave[3].do = "close" /\ Leave[3].k = 0
  BY DEF Leave, Step, Ins, Texts
<1>3. /\ Len(C) = Len(P) + Len(Leave)
      /\ \A i \in 1 .. Len(P) + Len(Leave) : C[i] = IF i <= Len(P) THEN P[i] ELSE Leave[i - Len(P)]
  <2>. HIDE DEF P
  <2>. QED BY <1>1, <1>2, ConcatProperties, Zenon
<1>4. P[1] \in Ins
  BY <1>1
<1>5. Script(p) = C /\ End(p) = n
  BY DEF Script, End
<1>. HIDE DEF P, n, C
<1>6. /\ C[1] = P[1] /\ \A i \in 2 .. n : C[i] = P[i]
      /\ C[n + 1] = Leave[1] /\ C[n + 2] = Leave[2]
      /\ C[n + 3] = Leave[3] /\ Len(C) = n + 3
  <2>1. n \in Nat /\ n >= 2
    BY <1>1
  <2>2. Len(C) = n + 3 /\ \A i \in 1 .. n + 3 : C[i] = IF i <= n THEN P[i] ELSE Leave[i - n]
    BY <1>2, <1>3 DEF n
  <2>3. \A i \in 1 .. n : C[i] = P[i]
    BY <2>1, <2>2
  <2>4. \A j \in {1, 2, 3} : C[n + j] = Leave[j]
    BY <2>1, <2>2
  <2>. QED BY <2>1, <2>2, <2>3, <2>4
<1>7. P[1].k \in 0 .. 2
  BY <1>4 DEF Ins
<1>. QED BY <1>1, <1>2, <1>3, <1>5, <1>6, <1>7 DEF P

-----------------------------------------------------------------------------
(* insmod, rmmod and the packet handler. *)

FrameInv == HandlerInv /\ EntryInv

Tables ==
  \/ /\ Long /\ km # Example
     /\ InitAt("ring", 1) /\ InitAt("temp", 2) /\ InitAt("logs", 3)
     /\ InitAt("entry", 4) /\ InitAt("hook", 5) /\ Inits = 5
     /\ ExitAt("unhook", 1) /\ ExitAt("sync", 2) /\ ExitAt("export", 3)
     /\ ExitAt("dead", 4) /\ ExitAt("drain", 5) /\ ExitAt("release", 6)
     /\ ExitAt("removed", 7) /\ ExitAt("free", 8) /\ Exits = 8
  \/ /\ km = Temp /\ km # Example
     /\ InitAt("ring", 1) /\ NotIn("temp") /\ NotIn("logs")
     /\ InitAt("entry", 2) /\ InitAt("hook", 3) /\ Inits = 3
     /\ ExitAt("unhook", 1) /\ ExitAt("sync", 2) /\ NotIn("export")
     /\ ExitAt("dead", 3) /\ ExitAt("drain", 4) /\ ExitAt("release", 5)
     /\ ExitAt("removed", 6) /\ ExitAt("free", 7) /\ Exits = 7
  \/ /\ km = Example
     /\ NotIn("ring") /\ NotIn("temp") /\ NotIn("logs") /\ NotIn("hook")
     /\ InitAt("entry", 1) /\ Inits = 1
     /\ NotIn("unhook") /\ NotIn("sync") /\ NotIn("export") /\ NotIn("free")
     /\ ExitAt("dead", 1) /\ ExitAt("drain", 2) /\ ExitAt("release", 3)
     /\ ExitAt("removed", 4) /\ Exits = 4

Table ==
  /\ Part \in {"out", "init", "in", "exit", "hung"} /\ Place \in Nat \ {0}
  /\ Part # "exit" => \A s : ~InExit(s) /\ ~ExitTill(s)
  /\ Part # "init" => \A s : ~InInit(s) /\ ~InitPast(s)
  /\ Tables

LEMMA Places == km \in Modules /\ PcType => Table
<1>1. km \in Modules /\ PcType => Tables
  BY Modules4, LongPlaces, TempPlaces, ExamplePlaces DEF Tables, Inits, Exits
<1>. QED BY <1>1 DEF Table, PcType, Part, Place, InExit, ExitTill, InInit, InitPast

LEMMA PlacesNext == (km \in Modules /\ PcType)' => Table'
  BY Places, PTL

(* What the order of the steps in the tables comes to. *)
LEMMA Order ==
  ASSUME km \in Modules, PcType
  PROVE  /\ ExitTill("dead") => ExitTill("drain")
         /\ ExitTill("drain") => ExitTill("release")
         /\ ExitTill("release") => ExitTill("removed")
         /\ km # Example => /\ ExitTill("unhook") => ExitTill("sync")
                            /\ ExitTill("sync") => ExitTill("free")
                            /\ ExitTill("drain") => ExitTill("free")
                            /\ InitPast("hook") => InitPast("ring")
                            /\ InitPast("entry") => InitPast("ring")
<1>1. Table
  BY Places
<1>2. /\ ExitTill("dead") => ExitTill("drain")
      /\ ExitTill("drain") => ExitTill("release")
      /\ ExitTill("release") => ExitTill("removed")
  BY <1>1 DEF Table, Tables, ExitAt
<1>3. km # Example => /\ ExitTill("unhook") => ExitTill("sync")
                      /\ ExitTill("sync") => ExitTill("free")
                      /\ ExitTill("drain") => ExitTill("free")
                      /\ InitPast("hook") => InitPast("ring")
                      /\ InitPast("entry") => InitPast("ring")
  BY <1>1 DEF Table, Tables, ExitAt, InitAt
<1>. QED BY <1>2, <1>3

LEMMA InitOrder ==
  ASSUME km \in Modules, PcType
  PROVE  /\ InInit("ring") \/ InInit("temp") \/ InInit("logs") =>
              ~InitPast("entry") /\ (km # Example => ~InitPast("hook"))
         /\ InInit("ring") \/ InInit("temp") \/ InInit("logs") \/ InInit("hook") => km # Example
         /\ pc.part = "init" /\ pc.i > Len(km.init) /\ km # Example => InitPast("ring")
<1>1. Table
  BY Places
<1>2. /\ InInit("ring") \/ InInit("temp") \/ InInit("logs") =>
              ~InitPast("entry") /\ (km # Example => ~InitPast("hook"))
      /\ InInit("ring") \/ InInit("temp") \/ InInit("logs") \/ InInit("hook") => km # Example
  BY <1>1 DEF Table, Tables, InitAt, NotIn
<1>3. Part = "init" /\ Place > Inits /\ km # Example => InitPast("ring")
  BY <1>1 DEF Table, Tables, InitAt, NotIn
<1>. QED BY <1>2, <1>3 DEF Part, Place, Inits

LEMMA ExitOrder ==
  ASSUME km \in Modules, PcType
  PROVE  /\ InExit("export") => ExitTill("dead")
         /\ InExit("dead") => ExitTill("dead") /\ ExitTill("drain")
         /\ InExit("release") => ~ExitTill("dead") /\ ~ExitTill("drain")
         /\ InExit("removed") => ~ExitTill("dead") /\ ~ExitTill("release") /\ ~ExitTill("drain")
         /\ InExit("free") => ~ExitTill("removed")
         /\ km # Example /\ (InExit("export") \/ InExit("dead") \/ InExit("release")) =>
              ~ExitTill("unhook") /\ ~ExitTill("sync")
         /\ ~ExitTill("dead") /\ ExitTill("removed") => pc.i <= Len(km.exit)
         /\ InExit("drain") => ~ExitTill("dead")
         /\ InExit("release") => ExitTill("release")
<1>1. Table
  BY Places
<1>2. /\ InExit("export") => ExitTill("dead")
      /\ InExit("dead") => ExitTill("dead") /\ ExitTill("drain")
      /\ InExit("release") => ~ExitTill("dead") /\ ~ExitTill("drain")
  BY <1>1 DEF Table, Tables, ExitAt, NotIn
<1>3. /\ InExit("removed") => ~ExitTill("dead") /\ ~ExitTill("release") /\ ~ExitTill("drain")
      /\ InExit("free") => ~ExitTill("removed")
      /\ InExit("drain") => ~ExitTill("dead")
      /\ InExit("release") => ExitTill("release")
  BY <1>1 DEF Table, Tables, ExitAt, NotIn
<1>4. km # Example /\ (InExit("export") \/ InExit("dead") \/ InExit("release")) =>
              ~ExitTill("unhook") /\ ~ExitTill("sync")
  BY <1>1 DEF Table, Tables, ExitAt, NotIn
<1>5. ~ExitTill("dead") /\ ExitTill("removed") => Place <= Exits
  BY <1>1 DEF Table, Tables, ExitAt, NotIn
<1>. QED BY <1>2, <1>3, <1>4, <1>5 DEF Place, Exits

(* After its last step. *)
LEMMA ExitOver ==
  ASSUME km \in Modules, PcType, pc.part = "exit", pc.i > Len(km.exit)
  PROVE  /\ ~ExitTill("dead") /\ ~ExitTill("drain") /\ ~ExitTill("release") /\ ~ExitTill("removed")
         /\ km # Example => ~ExitTill("unhook") /\ ~ExitTill("sync") /\ ~ExitTill("free")
<1>1. Table /\ Part = "exit" /\ Place > Exits
  BY Places DEF Part, Place, Exits
<1>. QED BY <1>1 DEF Table, Tables, ExitAt

LEMMA InitOnward ==
  ASSUME km \in Modules, PcType, UNCHANGED km, pc.part = "init", pc.i <= Len(km.init), Onward
  PROVE  /\ pc'.part = "init" /\ PcType' /\ pc' # pc
         /\ \A s : InitPast(s)' <=> InitPast(s) \/ InInit(s)
         /\ \A s : ~ExitTill(s) /\ ~ExitTill(s)'
<1>1. pc'.part = "init" /\ pc'.i = pc.i + 1 /\ PcType' /\ pc.i \in Nat \ {0} /\ pc' # pc
  BY DEF Onward, PcType
<1>. DEFINE i == pc.i
<1>2. ASSUME NEW s PROVE InitPast(s)' <=> InitPast(s) \/ InInit(s)
  <2>1. i \in Nat \ {0} /\ (InitPast(s) <=> \E j \in 1 .. i - 1 : km.init[j] = s)
        /\ (InInit(s) <=> km.init[i] = s)
    BY <1>1 DEF InitPast, InInit
  <2>2. InitPast(s)' <=> \E j \in 1 .. i : km.init[j] = s
    <3>1. pc'.i - 1 = i
      BY <1>1
    <3>. QED BY <1>1, <3>1 DEF InitPast
  <2>. HIDE DEF i
  <2>. QED BY <2>1, <2>2
<1>3. \A s : ~ExitTill(s) /\ ~ExitTill(s)'
  BY <1>1 DEF ExitTill
<1>. QED BY <1>1, <1>2, <1>3

LEMMA ExitOnward ==
  ASSUME km \in Modules, PcType, UNCHANGED km, pc.part = "exit", pc.i <= Len(km.exit), Onward
  PROVE  /\ pc'.part = "exit" /\ PcType' /\ pc' # pc
         /\ \A s : ExitTill(s)' <=> ExitTill(s) /\ ~InExit(s)
         /\ \A s : ~InitPast(s) /\ ~InitPast(s)'
<1>1. pc'.part = "exit" /\ pc'.i = pc.i + 1 /\ PcType' /\ pc.i \in Nat \ {0} /\ pc' # pc
  BY DEF Onward, PcType
<1>. DEFINE i == pc.i
<1>2. ASSUME NEW s PROVE ExitTill(s)' <=> ExitTill(s) /\ ~InExit(s)
  <2>1. i \in Nat \ {0} /\ (ExitTill(s) <=> \A j \in 1 .. i - 1 : km.exit[j] # s)
        /\ (InExit(s) <=> km.exit[i] = s)
    BY <1>1 DEF ExitTill, InExit
  <2>2. ExitTill(s)' <=> \A j \in 1 .. i : km.exit[j] # s
    <3>1. pc'.i - 1 = i
      BY <1>1
    <3>. QED BY <1>1, <3>1 DEF ExitTill
  <2>. HIDE DEF i
  <2>. QED BY <2>1, <2>2
<1>3. \A s : ~InitPast(s) /\ ~InitPast(s)'
  BY <1>1 DEF InitPast
<1>. QED BY <1>1, <1>2, <1>3

(* The moves of pc that leave the tables.                                   *)
LEMMA Jump ==
  ASSUME NEW part, To(part)
  PROVE  /\ pc'.part = part
         /\ part = "init" => \A s : ~InitPast(s)' /\ ~ExitTill(s)'
         /\ part = "exit" => \A s : ~InitPast(s)' /\ ExitTill(s)'
         /\ part \notin {"init", "exit"} => \A s : ~InitPast(s)' /\ ~ExitTill(s)'
<1>1. pc'.part = part /\ pc'.i = 1
  BY DEF To
<1>. QED BY <1>1 DEF InitPast, ExitTill

LEMMA FrameInsmod == ASSUME TypeOK, FrameInv, Insmod PROVE FrameInv'
<1>1. /\ pc.part = "out" /\ To("init") /\ load' = load + 1
      /\ load \in Nat
      /\ UNCHANGED <<km, mem, entry, dying, hook, handler, outcome>>
  BY DEF Insmod, TypeOK
<1>2. /\ pc'.part = "init" /\ (\A s : ~InitPast(s)' /\ ~ExitTill(s)')
      /\ \A s : ~InitPast(s) /\ ~ExitTill(s)
  BY <1>1, Jump DEF InitPast, ExitTill
<1>3. hook \notin Nat \ {0} /\ handler = 0 /\ dying = 0 /\ (entry # 0 => Failed(entry, "noFile"))
      /\ \A l \in Loads : outcome[l] # "none" => l < load'
  BY <1>1, <1>2 DEF FrameInv, HandlerInv, EntryInv, Has, TypeOK, Loads
<1>4. HandlerInv'
  BY <1>1, <1>2, <1>3 DEF HandlerInv, Has, FrameInv, TypeOK
<1>5. EntryInv'
  BY <1>1, <1>2, <1>3 DEF EntryInv, Failed
<1>. QED BY <1>4, <1>5 DEF FrameInv

LEMMA FrameKmalloc == ASSUME TypeOK, FrameInv, InitKmalloc PROVE FrameInv'
<1>1. /\ pc.part = "init" /\ UNCHANGED <<km, load, entry, dying, hook, handler, outcome>>
      /\ PcType /\ km \in Modules /\ pc.i <= Len(km.init)
      /\ InInit("ring") \/ InInit("temp")
      /\ \A s : ~ExitTill(s)
  BY DEF InitKmalloc, InInit, TypeOK, PcType, ExitTill
<1>2. ~InitPast("entry") /\ ~InitPast("hook") /\ km # Example
  BY <1>1, InitOrder
<1>3. CASE To("hung") /\ UNCHANGED mem
  <2>1. pc'.part = "hung" /\ \A s : ~InitPast(s)' /\ ~ExitTill(s)'
    BY <1>3, Jump
  <2>2. HandlerInv'
    BY <1>1, <1>2, <1>3, <2>1 DEF FrameInv, HandlerInv, Has
  <2>3. EntryInv'
    BY <1>1, <1>2, <1>3, <2>1 DEF FrameInv, EntryInv, Failed
  <2>. QED BY <2>2, <2>3 DEF FrameInv
<1>4. CASE mem' = mem \cup {<<load, km.init[pc.i], 0>>} /\ Onward
  <2>1. /\ pc'.part = "init" /\ \A s : InitPast(s)' <=> InitPast(s) \/ InInit(s)
        /\ \A s : ~ExitTill(s)'
    BY <1>1, <1>4, InitOnward
  <2>2. InInit("ring") => <<load, "ring", 0>> \in mem'
    BY <1>4 DEF InInit
  <2>3. HandlerInv'
    BY <1>1, <1>2, <1>4, <2>1, <2>2 DEF FrameInv, HandlerInv, Has
  <2>4. EntryInv'
    BY <1>1, <1>2, <1>4, <2>1 DEF FrameInv, EntryInv, Failed
  <2>. QED BY <2>3, <2>4 DEF FrameInv
<1>. QED BY <1>3, <1>4 DEF InitKmalloc

LEMMA FrameLogs == ASSUME TypeOK, FrameInv, InitLogs PROVE FrameInv'
<1>1. /\ pc.part = "init" /\ UNCHANGED <<km, load, entry, dying, hook, handler>>
      /\ PcType /\ km \in Modules /\ pc.i <= Len(km.init) /\ InInit("logs")
      /\ \A s : ~ExitTill(s)
  BY DEF InitLogs, InInit, TypeOK, PcType, ExitTill
<1>2. ~InitPast("entry") /\ ~InitPast("hook") /\ km # Example
  BY <1>1, InitOrder
<1>3. mem \subseteq mem'
  BY DEF InitLogs
<1>4. CASE UNCHANGED outcome /\ Onward
  <2>1. /\ pc'.part = "init" /\ \A s : InitPast(s)' <=> InitPast(s) \/ InInit(s)
        /\ \A s : ~ExitTill(s)'
    BY <1>1, <1>4, InitOnward
  <2>2. ~InInit("ring")
    BY <1>1 DEF InInit
  <2>3. HandlerInv'
    BY <1>1, <1>2, <1>3, <1>4, <2>1, <2>2 DEF FrameInv, HandlerInv, Has
  <2>4. EntryInv'
    BY <1>1, <1>2, <1>4, <2>1 DEF FrameInv, EntryInv, Failed
  <2>. QED BY <2>3, <2>4 DEF FrameInv
<1>5. CASE To("out") /\ outcome' = [outcome EXCEPT ![load] = "noMem"]
  <2>1. pc'.part = "out" /\ \A s : ~InitPast(s)' /\ ~ExitTill(s)'
    BY <1>5, Jump
  <2>2. HandlerInv'
    BY <1>1, <1>2, <1>3, <1>5, <2>1 DEF FrameInv, HandlerInv, Has
  <2>3. \A l \in Loads : /\ outcome[l] # "none" => l < load
                         /\ outcome'[l] # "none" => l < load \/ l = load
                         /\ Failed(l, "noFile") => Failed(l, "noFile")'
    BY <1>1, <1>5 DEF FrameInv, EntryInv, TypeOK, Failed
  <2>4. dying = 0 /\ (entry # 0 => Failed(entry, "noFile"))
    BY <1>1, <1>2 DEF FrameInv, EntryInv
  <2>5. EntryInv'
    <3>1. entry # 0 => Failed(entry, "noFile")'
      BY <1>1, <2>3, <2>4 DEF Failed
    <3>. QED BY <1>1, <2>1, <2>3, <2>4, <3>1 DEF EntryInv, Failed
  <2>. QED BY <2>2, <2>5 DEF FrameInv
<1>. QED BY <1>4, <1>5 DEF InitLogs

LEMMA FrameEntry == ASSUME TypeOK, FrameInv, InitEntry PROVE FrameInv'
<1>1. /\ pc.part = "init" /\ UNCHANGED <<km, load, mem, dying, hook, handler, outcome>>
      /\ PcType /\ km \in Modules /\ pc.i <= Len(km.init) /\ InInit("entry")
      /\ entry' \in {entry, load} /\ Onward
      /\ \A s : ~ExitTill(s)
  BY DEF InitEntry, InInit, TypeOK, PcType, ExitTill
<1>2. /\ pc'.part = "init" /\ \A s : InitPast(s)' <=> InitPast(s) \/ InInit(s)
      /\ \A s : ~ExitTill(s)'
  BY <1>1, InitOnward
<1>3. ~InInit("ring") /\ ~InInit("hook")
  BY <1>1 DEF InInit
<1>4. HandlerInv'
  BY <1>1, <1>2, <1>3 DEF FrameInv, HandlerInv, Has
<1>5. EntryInv'
  BY <1>1, <1>2 DEF FrameInv, EntryInv, Failed
<1>. QED BY <1>4, <1>5 DEF FrameInv

LEMMA FrameHook == ASSUME TypeOK, FrameInv, registerRxHandlers PROVE FrameInv'
<1>1. /\ pc.part = "init" /\ UNCHANGED <<km, load, mem, entry, dying, handler, outcome>>
      /\ PcType /\ km \in Modules /\ pc.i <= Len(km.init) /\ InInit("hook")
      /\ hook' \in {hook, load} /\ Onward
      /\ \A s : ~ExitTill(s)
  BY DEF registerRxHandlers, InInit, TypeOK, PcType, ExitTill
<1>2. /\ pc'.part = "init" /\ \A s : InitPast(s)' <=> InitPast(s) \/ InInit(s)
      /\ \A s : ~ExitTill(s)'
  BY <1>1, InitOnward
<1>3. ~InInit("ring") /\ ~InInit("entry") /\ km # Example
  BY <1>1, InitOrder DEF InInit
<1>4. HandlerInv'
  BY <1>1, <1>2, <1>3 DEF FrameInv, HandlerInv, Has
<1>5. EntryInv'
  BY <1>1, <1>2, <1>3 DEF FrameInv, EntryInv, Failed
<1>. QED BY <1>4, <1>5 DEF FrameInv

LEMMA FrameLoaded == ASSUME TypeOK, FrameInv, Loaded PROVE FrameInv'
<1>1. /\ UNCHANGED <<km, load, mem, entry, dying, hook, handler, outcome>>
      /\ pc.part = "init" /\ pc.i > Len(km.init) /\ To("in")
      /\ PcType /\ km \in Modules /\ \A s : ~ExitTill(s)
  BY DEF Loaded, TypeOK, PcType, ExitTill
<1>2. pc'.part = "in" /\ \A s : ~InitPast(s)' /\ ~ExitTill(s)'
  BY <1>1, Jump
<1>3. km # Example => InitPast("ring")
  BY <1>1, InitOrder
<1>4. HandlerInv'
  BY <1>1, <1>2, <1>3 DEF FrameInv, HandlerInv, Has
<1>5. EntryInv'
  BY <1>1, <1>2 DEF FrameInv, EntryInv, Failed
<1>. QED BY <1>4, <1>5 DEF FrameInv

LEMMA FrameStarts == ASSUME TypeOK, FrameInv, RmmodStarts PROVE FrameInv'
<1>1. /\ UNCHANGED <<km, load, mem, entry, dying, hook, handler, outcome>>
      /\ pc.part = "in" /\ To("exit") /\ \A s : ~ExitTill(s) /\ ~InitPast(s)
  BY DEF RmmodStarts, ExitTill, InitPast
<1>2. pc'.part = "exit" /\ \A s : ~InitPast(s)' /\ ExitTill(s)'
  BY <1>1, Jump
<1>3. HandlerInv'
  BY <1>1, <1>2 DEF FrameInv, HandlerInv, Has
<1>4. EntryInv'
  BY <1>1, <1>2 DEF FrameInv, EntryInv, Failed
<1>. QED BY <1>3, <1>4 DEF FrameInv

LEMMA InExitFacts ==
  ASSUME TypeOK, NEW step, InExit(step)
  PROVE  /\ pc.part = "exit" /\ pc.i <= Len(km.exit) /\ PcType /\ km \in Modules
         /\ \A s : ~InitPast(s)
         /\ \A s : s # step => ~InExit(s)
  BY DEF InExit, TypeOK, PcType, InitPast

LEMMA FrameUnhook == ASSUME TypeOK, FrameInv, unregisterRxHandlers PROVE FrameInv'
<1>1. /\ UNCHANGED <<km, load, mem, entry, dying, handler, outcome>>
      /\ InExit("unhook") /\ hook' = 0 /\ Onward
  BY DEF unregisterRxHandlers
<1>2. /\ pc.part = "exit" /\ \A s : ~InitPast(s)
      /\ \A s : s # "unhook" => ~InExit(s)
  BY <1>1, InExitFacts
<1>3. /\ pc'.part = "exit" /\ \A s : ExitTill(s)' <=> ExitTill(s) /\ ~InExit(s)
      /\ \A s : ~InitPast(s)'
  BY <1>1, InExitFacts, ExitOnward
<1>4. HandlerInv'
  BY <1>1, <1>2, <1>3 DEF FrameInv, HandlerInv, Has
<1>5. EntryInv'
  BY <1>1, <1>2, <1>3 DEF FrameInv, EntryInv, Failed
<1>. QED BY <1>4, <1>5 DEF FrameInv

(* A step that only moves on: waiting, the export, the last release.        *)
LEMMA FrameOnward ==
  ASSUME TypeOK, FrameInv, Onward,
         UNCHANGED <<km, load, mem, entry, dying, hook, handler, outcome>>,
         NEW step \in {"sync", "drain", "export", "release"}, InExit(step),
         step = "sync" => handler = 0
  PROVE  FrameInv'
<1>1. /\ pc.part = "exit" /\ \A s : ~InitPast(s)
      /\ \A s : s # step => ~InExit(s)
  BY InExitFacts
<1>2. /\ pc'.part = "exit" /\ \A s : ExitTill(s)' <=> ExitTill(s) /\ ~InExit(s)
      /\ \A s : ~InitPast(s)'
  BY InExitFacts, ExitOnward
<1>3. HandlerInv'
  BY <1>1, <1>2 DEF FrameInv, HandlerInv, Has
<1>4. EntryInv'
  BY <1>1, <1>2 DEF FrameInv, EntryInv, Failed
<1>. QED BY <1>3, <1>4 DEF FrameInv

LEMMA FrameExport == ASSUME TypeOK, FrameInv, ExitExport PROVE FrameInv'
<1>1. /\ UNCHANGED <<km, load, mem, entry, dying, hook, handler>> /\ InExit("export")
  BY DEF ExitExport
<1>2. CASE Onward /\ UNCHANGED outcome
  BY <1>1, <1>2, FrameOnward
<1>3. CASE To("out") /\ outcome' = [outcome EXCEPT ![load] = "noFile"]
  <2>1. pc'.part = "out" /\ \A s : ~InitPast(s)' /\ ~ExitTill(s)'
    BY <1>3, Jump
  <2>2. /\ pc.part = "exit" /\ ExitTill("dead")
        /\ km # Example => ~ExitTill("unhook") /\ ~ExitTill("sync")
        /\ \A s : ~InitPast(s)
    BY <1>1, InExitFacts, ExitOrder
  <2>3. HandlerInv'
    BY <1>1, <1>3, <2>1, <2>2 DEF FrameInv, HandlerInv, Has
  <2>4. load \in Loads /\ Failed(load, "noFile")'
    BY <1>1, <1>3, <2>2 DEF TypeOK, Failed, Loads
  <2>5. \A l \in Loads : /\ outcome'[l] # "none" => l < load \/ l = load
                         /\ Failed(l, "noFile") => Failed(l, "noFile")'
    BY <1>1, <1>3, <2>2 DEF FrameInv, EntryInv, TypeOK, Failed
  <2>6. dying = 0 /\ (entry # 0 => Failed(entry, "noFile") \/ entry = load)
    BY <2>2 DEF FrameInv, EntryInv
  <2>7. entry # 0 => Failed(entry, "noFile")'
    BY <1>1, <2>4, <2>5, <2>6 DEF Failed
  <2>8. EntryInv'
    BY <1>1, <2>1, <2>5, <2>6, <2>7 DEF EntryInv
  <2>. QED BY <2>3, <2>8 DEF FrameInv
<1>. QED BY <1>2, <1>3 DEF ExitExport

LEMMA FrameRemove == ASSUME TypeOK, FrameInv, ExitRemove PROVE FrameInv'
<1>1. /\ UNCHANGED <<km, load, mem, hook, handler, outcome>>
      /\ InExit("dead") /\ dying' = entry /\ entry' = 0 /\ Onward
  BY DEF ExitRemove
<1>2. /\ pc.part = "exit" /\ \A s : ~InitPast(s)
      /\ \A s : s # "dead" => ~InExit(s)
  BY <1>1, InExitFacts
<1>3. /\ pc'.part = "exit" /\ \A s : ExitTill(s)' <=> ExitTill(s) /\ ~InExit(s)
      /\ \A s : ~InitPast(s)'
  BY <1>1, InExitFacts, ExitOnward
<1>4. ExitTill("removed") /\ InExit("dead")
  BY <1>1, InExitFacts, ExitOrder, Order
<1>5. HandlerInv'
  BY <1>1, <1>2, <1>3 DEF FrameInv, HandlerInv, Has
<1>6. EntryInv'
  BY <1>1, <1>2, <1>3, <1>4 DEF FrameInv, EntryInv, Failed
<1>. QED BY <1>5, <1>6 DEF FrameInv

LEMMA FrameFree == ASSUME TypeOK, FrameInv, ExitFree PROVE FrameInv'
<1>1. /\ UNCHANGED <<km, load, entry, hook, handler, outcome>> /\ Onward
      /\ \/ InExit("removed") /\ dying' = 0 /\ UNCHANGED mem
         \/ InExit("free") /\ UNCHANGED dying
  BY DEF ExitFree
<1>2. CASE InExit("removed") /\ dying' = 0 /\ UNCHANGED mem
  <2>1. /\ pc.part = "exit" /\ \A s : ~InitPast(s)
        /\ \A s : s # "removed" => ~InExit(s)
    BY <1>2, InExitFacts
  <2>2. /\ pc'.part = "exit" /\ \A s : ExitTill(s)' <=> ExitTill(s) /\ ~InExit(s)
        /\ \A s : ~InitPast(s)'
    BY <1>1, <1>2, InExitFacts, ExitOnward
  <2>3. HandlerInv'
    BY <1>1, <1>2, <2>1, <2>2 DEF FrameInv, HandlerInv, Has
  <2>4. EntryInv'
    BY <1>1, <1>2, <2>1, <2>2 DEF FrameInv, EntryInv, Failed
  <2>. QED BY <2>3, <2>4 DEF FrameInv
<1>3. CASE InExit("free") /\ UNCHANGED dying
  <2>1. /\ pc.part = "exit" /\ \A s : ~InitPast(s)
        /\ \A s : s # "free" => ~InExit(s)
    BY <1>3, InExitFacts
  <2>2. /\ pc'.part = "exit" /\ \A s : ExitTill(s)' <=> ExitTill(s) /\ ~InExit(s)
        /\ \A s : ~InitPast(s)'
    BY <1>1, <1>3, InExitFacts, ExitOnward
  <2>3. ~ExitTill("removed")
    BY <1>3, InExitFacts, ExitOrder
  <2>4. HandlerInv'
    BY <1>1, <1>3, <2>1, <2>2 DEF FrameInv, HandlerInv, Has
  <2>5. EntryInv'
    BY <1>1, <1>3, <2>1, <2>2, <2>3 DEF FrameInv, EntryInv, Failed
  <2>. QED BY <2>4, <2>5 DEF FrameInv
<1>. QED BY <1>1, <1>2, <1>3

LEMMA FrameUnloaded == ASSUME TypeOK, FrameInv, Unloaded PROVE FrameInv'
<1>1. /\ pc.part = "exit" /\ UNCHANGED <<km, load, mem, entry, dying, hook, handler>>
      /\ PcType /\ km \in Modules /\ pc.i > Len(km.exit)
      /\ To("out") /\ outcome' = [outcome EXCEPT ![load] = "ok"]
      /\ \A s : ~InitPast(s)
  BY DEF Unloaded, TypeOK, PcType, InitPast
<1>2. /\ ~ExitTill("dead") /\ ~ExitTill("removed")
      /\ km # Example => ~ExitTill("unhook") /\ ~ExitTill("sync")
  BY <1>1, ExitOver
<1>3. pc'.part = "out" /\ \A s : ~InitPast(s)' /\ ~ExitTill(s)'
  BY <1>1, Jump
<1>4. HandlerInv'
  BY <1>1, <1>2, <1>3 DEF FrameInv, HandlerInv, Has
<1>5. \A l \in Loads : /\ outcome'[l] # "none" => l < load \/ l = load
                       /\ Failed(l, "noFile") => Failed(l, "noFile")'
  BY <1>1 DEF FrameInv, EntryInv, TypeOK, Failed
<1>6. dying = 0 /\ (entry # 0 => Failed(entry, "noFile"))
  BY <1>1, <1>2 DEF FrameInv, EntryInv
<1>7. entry # 0 => Failed(entry, "noFile")'
  BY <1>1, <1>5, <1>6 DEF Failed
<1>8. EntryInv'
  BY <1>1, <1>3, <1>5, <1>6, <1>7 DEF EntryInv
<1>. QED BY <1>4, <1>8 DEF FrameInv

(* rmmod dies in release, with the entry off and what it waited for over.   *)
LEMMA FrameHung ==
  ASSUME TypeOK, FrameInv, InExit("release"), To("hung"),
         UNCHANGED <<km, load, mem, entry, dying, hook, handler, outcome>>
  PROVE  FrameInv'
<1>1. pc'.part = "hung" /\ \A s : ~InitPast(s)' /\ ~ExitTill(s)'
  BY Jump
<1>2. /\ pc.part = "exit" /\ ~ExitTill("dead") /\ \A s : ~InitPast(s)
      /\ km # Example => ~ExitTill("unhook") /\ ~ExitTill("sync")
  BY InExitFacts, ExitOrder
<1>3. HandlerInv'
  BY <1>1, <1>2 DEF FrameInv, HandlerInv, Has
<1>4. EntryInv'
  BY <1>1, <1>2 DEF FrameInv, EntryInv, Failed
<1>. QED BY <1>3, <1>4 DEF FrameInv

LEMMA FrameStutter ==
  ASSUME FrameInv, UNCHANGED <<km, load, pc, mem, entry, dying, hook, handler, outcome>>
  PROVE  FrameInv'
  BY DEF FrameInv, HandlerInv, EntryInv, Has, ExitTill, InitPast, Failed

LEMMA FramePacket == ASSUME TypeOK, FrameInv, PacketIn \/ rxhPacketIn PROVE FrameInv'
<1>1. /\ UNCHANGED <<km, load, pc, mem, entry, dying, hook, outcome>>
      /\ handler' \in {0, hook} /\ PcType /\ km \in Modules
      /\ handler' # 0 => hook > 0
  BY DEF PacketIn, rxhPacketIn, TypeOK, PcType
<1>2. \A s, t : Has(s, t)' = Has(s, t)
  BY <1>1 DEF Has, ExitTill, InitPast
<1>3. Has("hook", "unhook") => Has("hook", "sync")
  BY <1>1, Order DEF Has
<1>4. HandlerInv'
  BY <1>1, <1>2, <1>3 DEF FrameInv, HandlerInv
<1>5. EntryInv'
  BY <1>1 DEF FrameInv, EntryInv, ExitTill, InitPast, Failed
<1>. QED BY <1>4, <1>5 DEF FrameInv

-----------------------------------------------------------------------------
(* What they mean to the calls that are under way. *)

Kernel == Insmod \/ myinit \/ RmmodStarts \/ myexit \/ PacketIn \/ rxhPacketIn

LEMMA FrameKernel == ASSUME TypeOK, FrameInv, Kernel PROVE FrameInv'
<1>1. CASE ExitWaits
  BY <1>1, FrameOnward DEF ExitWaits
<1>2. CASE ExitRelease
  <2>1. UNCHANGED <<km, load, mem, entry, dying, hook, handler, outcome>> /\ InExit("release")
    BY <1>2 DEF ExitRelease
  <2>2. CASE Onward
    BY <2>1, <2>2, FrameOnward
  <2>3. CASE UNCHANGED pc
    BY <2>1, <2>3, FrameStutter
  <2>4. CASE To("hung")
    BY <2>1, <2>4, FrameHung
  <2>. QED BY <1>2, <2>2, <2>3, <2>4 DEF ExitRelease
<1>. QED
  BY <1>1, <1>2, FrameInsmod, FrameKmalloc, FrameLogs, FrameEntry, FrameHook, FrameLoaded,
     FrameStarts, FrameUnhook, FrameExport, FrameRemove, FrameFree, FrameUnloaded, FramePacket
  DEF Kernel, myinit, myexit

(* A load that failed has failed for good.                                  *)
LEMMA FailedKept ==
  ASSUME TypeOK, FrameInv, Kernel, NEW l, Failed(l, "noFile")
  PROVE  Failed(l, "noFile")'
<1>1. CASE UNCHANGED outcome
  BY <1>1 DEF Failed
<1>2. CASE \E how : outcome' = [outcome EXCEPT ![load] = how] /\ pc.part # "out"
  <2>1. l # load
    BY <1>2 DEF FrameInv, EntryInv, Failed, TypeOK
  <2>. QED BY <1>2, <2>1 DEF Failed, TypeOK
<1>3. UNCHANGED outcome \/ \E how : outcome' = [outcome EXCEPT ![load] = how] /\ pc.part # "out"
  BY DEF Kernel, Insmod, myinit, InitKmalloc, InitLogs, InitEntry, registerRxHandlers, Loaded,
         RmmodStarts, myexit, unregisterRxHandlers, ExitWaits, ExitExport, ExitRemove,
         ExitRelease, ExitFree, Unloaded, PacketIn, rxhPacketIn, InInit, InExit
<1>. QED BY <1>1, <1>2, <1>3

LEMMA EntryHeld ==
  ASSUME TypeOK, FrameInv, Kernel, NEW step \in {"drain", "release"}, NEW l, l = entry, l # 0
  PROVE  Held(l, step)'
<1>2. CASE entry' = entry
  BY <1>2 DEF Held
<1>3. CASE ExitRemove
  <2>1. InExit("dead") /\ Onward /\ UNCHANGED km /\ dying' = l /\ entry' = 0
    BY <1>3 DEF ExitRemove
  <2>2. ExitTill(step) /\ ~InExit(step)
    BY <2>1, InExitFacts, ExitOrder, Order
  <2>3. \A s : ExitTill(s)' <=> ExitTill(s) /\ ~InExit(s)
    BY <2>1, InExitFacts, ExitOnward
  <2>. QED BY <2>1, <2>2, <2>3 DEF Held
<1>4. entry' = entry \/ ExitRemove
  BY DEF Kernel, Insmod, myinit, InitKmalloc, InitLogs, InitEntry, registerRxHandlers, Loaded,
         RmmodStarts, myexit, unregisterRxHandlers, ExitWaits, ExitExport, ExitRelease,
         ExitFree, Unloaded, PacketIn, rxhPacketIn
<1>. QED BY <1>2, <1>3, <1>4

LEMMA DyingHeld ==
  ASSUME TypeOK, FrameInv, Kernel, NEW step \in {"drain", "release"}, NEW l, l = dying, l # 0,
         ExitTill(step) \/ (step = "release" /\ pc.part = "hung"),
         ~(InExit(step) /\ Onward)
  PROVE  Held(l, step)'
<1>0. PcType /\ km \in Modules
  BY DEF TypeOK, PcType
<1>1. CASE pc.part = "hung"
  <2>1. UNCHANGED <<dying, pc>>
    BY <1>1 DEF Kernel, Insmod, myinit, InitKmalloc, InitLogs, InitEntry, registerRxHandlers,
         Loaded, RmmodStarts, myexit, unregisterRxHandlers, ExitWaits, ExitExport, ExitRemove,
         ExitRelease, ExitFree, Unloaded, PacketIn, rxhPacketIn, InInit, InExit
  <2>2. step = "release"
    BY <1>1 DEF ExitTill
  <2>. QED BY <1>1, <2>1, <2>2 DEF Held
<1>2. CASE pc.part # "hung"
  <2>1. pc.part = "exit" /\ ~ExitTill("dead") /\ ExitTill(step) /\ ExitTill("removed")
    BY <1>2 DEF FrameInv, EntryInv
  <2>2. ~InExit("dead") /\ ~InExit("export") /\ ~InExit("removed") /\ pc.i <= Len(km.exit)
    BY <1>0, <2>1, ExitOrder
  <2>3. CASE UNCHANGED <<km, dying, pc>>
    <3>1. ExitTill(step)'
      BY <2>1, <2>3 DEF ExitTill
    <3>. QED BY <2>3, <3>1 DEF Held
  <2>4. CASE UNCHANGED <<km, dying>> /\ Onward
    <3>1. \A s : ExitTill(s)' <=> ExitTill(s) /\ ~InExit(s)
      BY <1>0, <2>1, <2>2, <2>4, ExitOnward
    <3>. QED BY <2>1, <2>4, <3>1 DEF Held
  <2>5. CASE InExit("release") /\ UNCHANGED dying /\ To("hung")
    <3>1. step = "release"
      BY <1>0, <2>1, <2>5, ExitOrder
    <3>2. pc'.part = "hung"
      BY <2>5, Jump
    <3>. QED BY <2>5, <3>1, <3>2 DEF Held
  <2>6. \/ UNCHANGED <<km, dying, pc>>
        \/ UNCHANGED <<km, dying>> /\ Onward
        \/ InExit("release") /\ UNCHANGED dying /\ To("hung")
    <3>1. CASE unregisterRxHandlers \/ ExitWaits \/ ExitRelease
      BY <3>1 DEF unregisterRxHandlers, ExitWaits, ExitRelease
    <3>2. CASE ExitExport \/ ExitRemove \/ ExitFree
      BY <2>2, <3>2 DEF ExitExport, ExitRemove, ExitFree
    <3>3. CASE Unloaded
      <4>1. pc.i > Len(km.exit) /\ pc.i \in Nat
        BY <1>0, <3>3 DEF Unloaded, PcType
      <4>. QED BY <1>0, <2>1, <4>1, ExitOver
    <3>4. CASE PacketIn \/ rxhPacketIn
      BY <3>4 DEF PacketIn, rxhPacketIn
    <3>5. CASE Insmod \/ myinit \/ RmmodStarts
      BY <2>1, <3>5 DEF Insmod, myinit, InitKmalloc, InitLogs, InitEntry, registerRxHandlers,
         Loaded, RmmodStarts, InInit
    <3>. QED BY <3>1, <3>2, <3>3, <3>4, <3>5 DEF Kernel, myexit
  <2>. QED BY <2>3, <2>4, <2>5, <2>6
<1>. QED BY <1>1, <1>2

LEMMA HeldKept ==
  ASSUME TypeOK, FrameInv, Kernel, NEW l, NEW step \in {"drain", "release"}, Held(l, step),
         InExit(step) /\ Onward => l # dying
  PROVE  Held(l, step)'
<1>1. CASE Failed(l, "noFile")
  BY <1>1, FailedKept DEF Held
<1>2. CASE l # 0 /\ l = entry
  BY <1>2, EntryHeld
<1>3. CASE l # 0 /\ l = dying /\ (ExitTill(step) \/ (step = "release" /\ pc.part = "hung"))
  BY <1>3, DyingHeld
<1>. QED BY <1>1, <1>2, <1>3 DEF Held

Locals == CallInv /\ PlaceInv /\ PageInv

LEMMA DrainWaits ==
  ASSUME TypeOK, Kernel, InExit("drain"), Onward
  PROVE  \A p \in Procs : call[p].op \in {"open", "read", "write", "mmap"} =>
           file[p].load # dying
<1>1. pc.part = "exit" /\ pc.i \in Nat /\ pc' # pc
  BY DEF TypeOK, InExit, Onward
<1>2. InExit("drain") => ~InExit("sync") /\ pc.i <= Len(km.exit)
  BY DEF InExit
<1>3. ExitWaits
  BY <1>1, <1>2
  DEF Kernel, Insmod, myinit, InitKmalloc, InitLogs, InitEntry, registerRxHandlers, Loaded,
      RmmodStarts, myexit, unregisterRxHandlers, ExitExport, ExitRemove, ExitRelease,
      ExitFree, Unloaded, PacketIn, rxhPacketIn, InInit, InExit
<1>. QED BY <1>2, <1>3 DEF ExitWaits

LEMMA ReleaseWaits ==
  ASSUME TypeOK, Kernel, InExit("release"), pc' # pc \/ call' # call
  PROVE  ExitRelease
<1>1. pc.part = "exit" /\ ~(pc.i > Len(km.exit))
  BY InExitFacts, ExitOrder, ExitOver
<1>. QED
  BY <1>1
  DEF Kernel, Insmod, myinit, InitKmalloc, InitLogs, InitEntry, registerRxHandlers, Loaded,
      RmmodStarts, myexit, unregisterRxHandlers, ExitWaits, ExitExport, ExitRemove,
      ExitFree, Unloaded, PacketIn, rxhPacketIn, InInit, InExit

LEMMA LoadKept ==
  ASSUME Kernel, pc.part = "exit" PROVE UNCHANGED load
  BY DEF Kernel, Insmod, myinit, InitKmalloc, InitLogs, InitEntry, registerRxHandlers, Loaded,
      RmmodStarts, myexit, unregisterRxHandlers, ExitWaits, ExitExport, ExitRemove,
      ExitRelease, ExitFree, Unloaded, PacketIn, rxhPacketIn, InInit, InExit

(* Steps that leave the calls and files alone.                              *)
LEMMA QuietKernel ==
  ASSUME TypeOK, FrameInv, Locals, Kernel, UNCHANGED <<km, program, procs, call>>
  PROVE  Locals'
<1>1. PlaceInv' /\ PageInv'
  BY DEF Locals, PlaceInv, PlaceOf, PageInv, PageOf, Touched, Shown, End, Inside, procs
<1>2. \/ call[Rmmod] = NoCall
      \/ call[Rmmod].op = "release" /\ InExit("release") /\ UNCHANGED <<load, pc>>
  <2>1. CASE call[Rmmod].op = "release" /\ InExit("release")
    <3>1. UNCHANGED load
      BY <2>1, LoadKept DEF InExit
    <3>2. Rmmod \in Releasing
      BY <2>1 DEF TypeOK, Releasing
    <3>3. UNCHANGED pc
      BY <2>1, <3>2, ReleaseWaits DEF ExitRelease
    <3>. QED BY <2>1, <3>1, <3>3
  <2>. QED BY <2>1 DEF Locals, CallInv
<1>3. call'[Rmmod] = NoCall \/ (/\ call'[Rmmod].op = "release"
                                /\ call'[Rmmod].on \in Procs /\ InExit("release")')
  BY <1>2 DEF Locals, CallInv, InExit
<1>4. ASSUME NEW p \in Procs PROVE CallOf(p)'
  <2>1. CallOf(p) /\ UNCHANGED <<file[p], call[p], call[Rmmod]>>
    BY DEF Locals, CallInv, procs
  <2>0. PICK l : l = file[p].load
    OBVIOUS
  <2>2. call[p].op \in {"open", "read", "write", "mmap"} => Held(file[p].load, "drain")'
    <3>1. SUFFICES ASSUME call[p].op \in {"open", "read", "write", "mmap"}
                   PROVE  Held(file[p].load, "drain")'
      OBVIOUS
    <3>2. Held(l, "drain") /\ (InExit("drain") /\ Onward => l # dying)
      BY <2>0, <2>1, <3>1, DrainWaits DEF CallOf
    <3>3. Held(l, "drain")'
      BY <3>2, HeldKept
    <3>. QED BY <2>0, <2>1, <3>3
  <2>3. Held(file[p].load, "release") /\ (call[p].op = "release" \/ (file[p].load # 0 /\ ~file[p].released))
          => Held(file[p].load, "release")'
    <3>1. SUFFICES ASSUME Held(l, "release"), InExit("release"), Onward, l = dying,
                          call[p].op = "release" \/ (file[p].load # 0 /\ ~file[p].released)
                   PROVE  FALSE
      <4>1. SUFFICES ASSUME Held(l, "release"),
                            call[p].op = "release" \/ (file[p].load # 0 /\ ~file[p].released)
                     PROVE  Held(l, "release")'
        BY <2>0, <2>1
      <4>. QED BY <4>1, HeldKept
    <3>2. pc' # pc /\ pc'.part = "exit"
      BY <3>1, InExitFacts DEF Onward, TypeOK
    <3>3. ExitRelease
      BY <3>1, <3>2, ReleaseWaits
    <3>4. ~To("hung")
      BY <3>2, Jump
    <3>5. Releasing = {} /\ Unreleased = {}
      BY <3>2, <3>3, <3>4 DEF ExitRelease
    <3>6. p \in DOMAIN call
      BY DEF TypeOK
    <3>. QED BY <2>0, <3>1, <3>5, <3>6 DEF Releasing, Unreleased
  <2>4. call'[Rmmod].on = p => /\ call'[p].op # "release" /\ file'[p].released
                               /\ file'[p].load = load'
    <3>1. CASE call[Rmmod] = NoCall
      <4>1. call'[Rmmod].on = Rmmod /\ Rmmod # p
        BY <2>1, <3>1, ThreadsAssumption DEF NoCall, Rmmod
      <4>. QED BY <4>1
    <3>2. CASE UNCHANGED load
      BY <2>1, <3>2 DEF CallOf
    <3>. QED BY <1>2, <3>1, <3>2
  <2>5. /\ call'[p].op # "none" => call'[p].on = p
        /\ call'[p].op \in {"mmap", "fault"} => call'[p].k \in 1 .. 2
    BY <2>1 DEF CallOf, Inside
  <2>6. UNCHANGED <<call[p], file[p].load, file[p].released>>
    BY <2>1
  <2>7. call[p].op = "release" => Held(file[p].load, "release") /\ file[p].released
    BY <2>1 DEF CallOf
  <2>8. file[p].load # 0 /\ ~file[p].released => Held(file[p].load, "release")
    BY <2>1 DEF CallOf
  <2>9. call'[p].op = "release" => Held(file[p].load, "release")'
    BY <2>3, <2>6, <2>7
  <2>12. call'[p].op = "release" => file'[p].released
    BY <2>1, <2>7, Zenon
  <2>10. file'[p].load # 0 /\ ~file'[p].released => Held(file[p].load, "release")'
    BY <2>3, <2>6, <2>8
  <2>11. call'[p].op \in {"open", "read", "write", "mmap"} => Held(file[p].load, "drain")'
    BY <2>2, <2>6
  <2>. QED BY <2>4, <2>5, <2>9, <2>10, <2>11, <2>12 DEF CallOf, Inside
<1>. QED BY <1>1, <1>3, <1>4 DEF Locals, CallInv

Local(p) == CallOf(p) /\ PlaceOf(p) /\ PageOf(p)

LEMMA LocalKept ==
  ASSUME NEW p \in Procs, Local(p),
         UNCHANGED <<km, program, load, pc, entry, dying, outcome>>,
         UNCHANGED <<file[p], vma[p], at[p], call[p]>>,
         call'[Rmmod] = call[Rmmod] \/ call'[Rmmod].on # p
  PROVE  Local(p)'
<1>1. \A l, s : Held(l, s)' = Held(l, s)
  BY DEF Held, Failed, ExitTill
<1>2. CallOf(p)'
  BY <1>1 DEF Local, CallOf, Inside
<1>3. PlaceOf(p)'
  BY DEF Local, PlaceOf, Inside, End
<1>4. PageOf(p)'
  BY DEF Local, PageOf, Touched, Shown
<1>. QED BY <1>2, <1>3, <1>4 DEF Local

AllLocal == \A p \in Procs : Local(p)
RmmodInv == \/ call[Rmmod] = NoCall
            \/ call[Rmmod].op = "release" /\ call[Rmmod].on \in Procs /\ InExit("release")

LEMMA LocalsAre == Locals <=> AllLocal /\ RmmodInv
  BY DEF Locals, AllLocal, RmmodInv, Local, CallInv, PlaceInv, PageInv

LEMMA LocalsNext ==
  ASSUME \A p \in Procs : Local(p)', RmmodInv'
  PROVE  Locals'
<1>1. Locals' <=> AllLocal' /\ RmmodInv'
  BY LocalsAre, PTL
<1>. QED BY <1>1 DEF AllLocal

LEMMA FileTypes ==
  ASSUME TypeOK, NEW p \in Procs
  PROVE  /\ file[p] \in Files /\ call[p] \in Calls
         /\ vma[p] \in [1 .. 2 -> {"none", "mapped", "touched"}]
         /\ at[p] \in Nat /\ Rmmod # p /\ p \in DOMAIN file /\ p \in DOMAIN call /\ p \in DOMAIN at
         /\ p \in DOMAIN vma /\ Touched(p) \in 0 .. 2 /\ file[p].page \in Int /\ file[p].load \in Nat
         /\ (Touched(p) = 0 <=> vma[p][1] # "touched" /\ vma[p][2] # "touched")
  BY ThreadsAssumption DEF TypeOK, Files, Touched, Shown, Rmmod

(* rmmod runs release for a file that is still open.                        *)
LEMMA RmmodReleases ==
  ASSUME TypeOK, FrameInv, Locals, InExit("release"), Releasing = {}, Present(dying),
         NEW p \in Unreleased,
         file' = [file EXCEPT ![p].released = TRUE],
         call' = [call EXCEPT ![Rmmod] = [op |-> "release", on |-> p, k |-> 0, i |-> 1]],
         UNCHANGED <<km, program, load, pc, entry, dying, hook, handler, outcome, vma, at>>
  PROVE  Locals' /\ TypeOK'
<1>1. /\ p \in Procs /\ file[p].load = dying /\ dying # 0 /\ ~file[p].released /\ dying = load
      /\ file[p] \in Files /\ Rmmod # p /\ call[p].op # "release"
  BY FileTypes DEF Unreleased, Present, Releasing, TypeOK
<1>2. /\ file'[p] = [file[p] EXCEPT !.released = TRUE] /\ UNCHANGED call[p]
      /\ call'[Rmmod] = [op |-> "release", on |-> p, k |-> 0, i |-> 1]
      /\ file' \in [Procs -> Files] /\ call' \in [Procs \cup {Rmmod} -> Calls]
  <2>1. /\ file'[p] = [file[p] EXCEPT !.released = TRUE] /\ UNCHANGED call[p]
        /\ call'[Rmmod] = [op |-> "release", on |-> p, k |-> 0, i |-> 1]
    BY <1>1 DEF TypeOK
  <2>2. [file[p] EXCEPT !.released = TRUE] \in Files
    BY <1>1 DEF Files
  <2>3. [op |-> "release", on |-> p, k |-> 0, i |-> 1] \in Calls
    BY <1>1 DEF Calls
  <2>4. file' \in [Procs -> Files]
    BY <2>2 DEF TypeOK
  <2>5. call' \in [Procs \cup {Rmmod} -> Calls]
    BY <2>3 DEF TypeOK
  <2>. QED BY <2>1, <2>4, <2>5
<1>3. file'[p].load = load /\ file'[p].released /\ file'[p].page = file[p].page
      /\ file'[p].private = file[p].private /\ file[p] # NoFile
  BY <1>1, <1>2 DEF Files, NoFile
<1>4. \A l, s : Held(l, s)' = Held(l, s)
  BY DEF Held, Failed, ExitTill
<1>5. Local(p)
  BY <1>1, LocalsAre DEF AllLocal
<1>6. CallOf(p)'
  BY <1>1, <1>2, <1>3, <1>4, <1>5 DEF Local, CallOf, Inside
<1>7. PlaceOf(p)'
  <2>1. ~((at[p] = 1 /\ ~Inside(p)) \/ at[p] > End(p) + 3)
    BY <1>3, <1>5 DEF Local, PlaceOf
  <2>. QED BY <1>2, <1>5, <2>1 DEF Local, PlaceOf, Inside, End
<1>8. PageOf(p)'
  <2>1. /\ Touched(p)' = Touched(p) /\ file[p].page >= Touched(p)
        /\ file[p].private => file[p].page > Touched(p)
    BY <1>1, <1>5 DEF Local, PageOf, Touched, Shown
  <2>2. call'[p].op = "fault" /\ call'[p].i = 1 => vma'[p][call'[p].k] # "touched"
    BY <1>2, <1>5 DEF Local, PageOf
  <2>. QED BY <1>3, <2>1, <2>2 DEF PageOf
<1>9. ASSUME NEW q \in Procs \ {p} PROVE Local(q)'
  <2>1. UNCHANGED <<file[q], vma[q], at[q], call[q]>> /\ call'[Rmmod].on # q
    BY <1>2, FileTypes DEF TypeOK
  <2>. QED BY <2>1, LocalKept, LocalsAre DEF AllLocal
<1>10. RmmodInv'
  <2>1. UNCHANGED <<km, pc>>
    OBVIOUS
  <2>2. InExit("release")'
    BY <2>1 DEF InExit
  <2>. QED BY <1>1, <1>2, <2>2 DEF RmmodInv
<1>11. TypeOK'
  BY <1>2 DEF TypeOK
<1>12. \A q \in Procs : Local(q)'
  BY <1>6, <1>7, <1>8, <1>9 DEF Local
<1>. QED BY <1>10, <1>11, <1>12, LocalsNext

LEMMA TypeKernel ==
  ASSUME TypeOK, FrameInv, Kernel, UNCHANGED <<program, procs, call>>
  PROVE  TypeOK'
<1>1. UNCHANGED <<km, program, file, vma, at, call>>
  BY DEF Kernel, Insmod, myinit, InitKmalloc, InitLogs, InitEntry, registerRxHandlers, Loaded,
      RmmodStarts, myexit, unregisterRxHandlers, ExitWaits, ExitExport, ExitRemove,
      ExitRelease, ExitFree, Unloaded, PacketIn, rxhPacketIn, procs
<1>2. /\ pc' \in [part : {"out", "init", "in", "exit", "hung"}, i : Nat \ {0}]
      /\ pc'.part # "out" => load' # 0
      /\ load' \in 0 .. MaxLoads
  <2>1. CASE UNCHANGED <<pc, load>>
    BY <2>1 DEF TypeOK
  <2>2. CASE Insmod
    BY <2>2, LifecycleSizes DEF Insmod, TypeOK, To
  <2>3. CASE Onward /\ UNCHANGED load /\ pc.part # "out"
    BY <2>3 DEF Onward, TypeOK
  <2>4. CASE (To("out") \/ To("in") \/ To("exit") \/ To("hung")) /\ UNCHANGED load /\ pc.part # "out"
    BY <2>4 DEF To, TypeOK
  <2>. QED BY <2>1, <2>2, <2>3, <2>4
       DEF Kernel, myinit, InitKmalloc, InitLogs, InitEntry, registerRxHandlers, Loaded,
      RmmodStarts, myexit, unregisterRxHandlers, ExitWaits, ExitExport, ExitRemove,
      ExitRelease, ExitFree, Unloaded, PacketIn, rxhPacketIn, InInit, InExit
<1>3. /\ entry' \in 0 .. MaxLoads /\ dying' \in 0 .. MaxLoads
      /\ hook' \in Int /\ handler' \in 0 .. MaxLoads
  <2>1. CASE PacketIn
    BY <2>1 DEF PacketIn, TypeOK, FrameInv, HandlerInv
  <2>2. CASE ~PacketIn
    <3>1. /\ entry' \in {0, entry, load} /\ dying' \in {0, entry, dying}
          /\ hook' \in {0, hook, load} /\ handler' \in {0, handler}
      BY <2>2
      DEF Kernel, Insmod, myinit, InitKmalloc, InitLogs, InitEntry, registerRxHandlers, Loaded,
      RmmodStarts, myexit, unregisterRxHandlers, ExitWaits, ExitExport, ExitRemove,
      ExitRelease, ExitFree, Unloaded, rxhPacketIn
    <3>. QED BY <3>1, LifecycleSizes DEF TypeOK
  <2>. QED BY <2>1, <2>2
<1>4. outcome' \in [Loads -> {"none", "noMem", "noFile", "ok"}]
  <2>1. \/ UNCHANGED outcome
        \/ \E how \in {"noMem", "noFile", "ok"} : outcome' = [outcome EXCEPT ![load] = how]
    BY DEF Kernel, Insmod, myinit, InitKmalloc, InitLogs, InitEntry, registerRxHandlers, Loaded,
      RmmodStarts, myexit, unregisterRxHandlers, ExitWaits, ExitExport, ExitRemove,
      ExitRelease, ExitFree, Unloaded, PacketIn, rxhPacketIn
  <2>. QED BY <2>1 DEF TypeOK
<1>. QED BY <1>1, <1>2, <1>3, <1>4 DEF TypeOK

LEMMA KernelKeeps == ASSUME TypeOK, FrameInv, Locals, Kernel PROVE TypeOK' /\ Locals'
<1>1. CASE UNCHANGED <<km, program, procs, call>>
  BY <1>1, TypeKernel, QuietKernel
<1>2. CASE ExitRelease /\ ~UNCHANGED <<km, program, procs, call>>
  <2>1. /\ InExit("release") /\ Releasing = {} /\ Present(dying)
        /\ UNCHANGED <<km, program, load, pc, entry, dying, hook, handler, outcome, vma, at>>
        /\ \E p \in Unreleased :
             /\ file' = [file EXCEPT ![p].released = TRUE]
             /\ call' = [call EXCEPT ![Rmmod] = [op |-> "release", on |-> p, k |-> 0, i |-> 1]]
    BY <1>2 DEF ExitRelease, procs
  <2>. QED BY <2>1, RmmodReleases
<1>3. UNCHANGED <<km, program, procs, call>> \/ ExitRelease
  BY DEF Kernel, Insmod, myinit, InitKmalloc, InitLogs, InitEntry, registerRxHandlers, Loaded,
      RmmodStarts, myexit, unregisterRxHandlers, ExitWaits, ExitExport, ExitRemove,
      ExitFree, Unloaded, PacketIn, rxhPacketIn
<1>. QED BY <1>1, <1>2, <1>3

-----------------------------------------------------------------------------
(* The processes.  What the invariant says of one process, as a relation of *)
(* the values that its steps change.                                        *)

Vmas == [1 .. 2 -> {"none", "mapped", "touched"}]
Maps(v) == Shown(v[1]) + Shown(v[2])
Goes(p, f, c) ==
  /\ c.op # "none" => c.on = p
  /\ c.op \in {"mmap", "fault"} => c.k \in 1 .. 2
  /\ c.op \in {"open", "read", "write", "mmap"} => Held(f.load, "drain")
  /\ c.op = "release" => Held(f.load, "release") /\ f.released
  /\ f.load # 0 /\ ~f.released => Held(f.load, "release")
Stands(p, f, v, n, c) ==
  /\ c.op = "open" => n = 1
  /\ c.op \in {"read", "write", "mmap", "fault"} => n \in 2 .. End(p)
  /\ c.op = "release" => n = End(p) + 3
  /\ (n = 1 /\ c.op = "none") \/ n > End(p) + 3 => f = NoFile
  /\ n = 1 \/ n > End(p) + 1 => v[1] # "touched"
  /\ n = 1 \/ n > End(p) + 2 => v[2] # "touched"
Counts(f, v, c) ==
  /\ f.page >= Maps(v)
  /\ f.private /\ ~f.released => f.page > Maps(v)
  /\ c.op = "release" /\ c.i = 1 /\ f.private => f.page > Maps(v)
  /\ c.op = "fault" /\ c.i = 1 => v[c.k] # "touched"
Rmmods(p, f, v, c, r) ==
  r.on = p => /\ c.op # "release" /\ f.released /\ f.load = load
              /\ r.op = "release" /\ r.i = 1 /\ f.private => f.page > Maps(v)
Fine(p, f, v, n, c, r) ==
  /\ Goes(p, f, c) /\ Stands(p, f, v, n, c)
  /\ Counts(f, v, c) /\ Rmmods(p, f, v, c, r)

LEMMA LocalIs ==
  ASSUME TypeOK, Locals, NEW p \in Procs
  PROVE  Fine(p, file[p], vma[p], at[p], call[p], call[Rmmod])
<1>1. Local(p) /\ file[p] \in Files
  BY LocalsAre, FileTypes DEF AllLocal
<1>2. Goes(p, file[p], call[p])
  BY <1>1 DEF Local, CallOf, Goes, Inside
<1>3. Stands(p, file[p], vma[p], at[p], call[p])
  BY <1>1 DEF Local, PlaceOf, Stands, Inside
<1>4. Counts(file[p], vma[p], call[p])
  <2>1. call[p].op = "release" => call[p].on = p
    BY <1>1 DEF Local, CallOf, Inside
  <2>. QED BY <1>1, <2>1 DEF Local, PageOf, Counts, Maps, Touched
<1>5. Rmmods(p, file[p], vma[p], call[p], call[Rmmod])
  BY <1>1 DEF Local, CallOf, PageOf, Rmmods, Maps, Touched
<1>. QED BY <1>2, <1>3, <1>4, <1>5 DEF Fine

LEMMA LocalNext ==
  ASSUME NEW p \in Procs, NEW f, NEW v, NEW n, NEW c, NEW r,
         UNCHANGED <<km, program, load, pc, entry, dying, outcome>>,
         file'[p] = f, vma'[p] = v, at'[p] = n, call'[p] = c, call'[Rmmod] = r,
         Fine(p, f, v, n, c, r)
  PROVE  Local(p)'
<1>1. \A l, s : Held(l, s)' = Held(l, s)
  BY DEF Held, Failed, ExitTill
<1>2. CallOf(p)'
  BY <1>1 DEF Fine, Goes, Rmmods, CallOf, Inside
<1>3. PlaceOf(p)'
  BY DEF Fine, Stands, PlaceOf, Inside, End
<1>4. PageOf(p)'
  BY DEF Fine, Counts, Rmmods, PageOf, Touched, Maps, Shown
<1>. QED BY <1>2, <1>3, <1>4 DEF Local

(* A step of process p, and one of rmmod in release of p's file.            *)
Moves(p, f, v, n, c) ==
  /\ file' = [file EXCEPT ![p] = f] /\ vma' = [vma EXCEPT ![p] = v]
  /\ at' = [at EXCEPT ![p] = n] /\ call' = [call EXCEPT ![p] = c]
Quiet == UNCHANGED <<km, program, load, entry, dying, hook, handler, outcome>>

LEMMA StepOf ==
  ASSUME TypeOK, Locals, NEW p \in Procs, NEW f \in Files, NEW v \in Vmas, NEW n \in Nat,
         NEW c \in Calls, Quiet, UNCHANGED pc, Moves(p, f, v, n, c),
         Fine(p, f, v, n, c, call[Rmmod])
  PROVE  TypeOK' /\ Locals'
<1>1. /\ file'[p] = f /\ vma'[p] = v /\ at'[p] = n /\ call'[p] = c
      /\ call'[Rmmod] = call[Rmmod]
  BY FileTypes DEF Moves, TypeOK, Vmas
<1>2. ASSUME NEW q \in Procs \ {p} PROVE Local(q)'
  <2>1. UNCHANGED <<file[q], vma[q], at[q], call[q]>>
    BY DEF Moves, TypeOK
  <2>. QED BY <1>1, <2>1, LocalKept, LocalsAre DEF AllLocal, Quiet
<1>3. Local(p)'
  BY <1>1, LocalNext DEF Quiet
<1>4. RmmodInv'
  BY <1>1, LocalsAre DEF RmmodInv, InExit, Quiet
<1>5. TypeOK'
  <2>1. /\ file' \in [Procs -> Files] /\ vma' \in [Procs -> Vmas]
        /\ at' \in [Procs -> Nat] /\ call' \in [Procs \cup {Rmmod} -> Calls]
    BY DEF Moves, TypeOK, Vmas
  <2>. QED BY <2>1 DEF TypeOK, Quiet, Vmas
<1>6. \A q \in Procs : Local(q)'
  BY <1>2, <1>3
<1>. QED BY <1>4, <1>5, <1>6, LocalsNext

LEMMA Same ==
  ASSUME TypeOK, NEW p \in Procs
  PROVE  /\ file = [file EXCEPT ![p] = file[p]] /\ vma = [vma EXCEPT ![p] = vma[p]]
         /\ at = [at EXCEPT ![p] = at[p]] /\ call = [call EXCEPT ![p] = call[p]]
         /\ file[p] \in Files /\ vma[p] \in Vmas /\ at[p] \in Nat /\ call[p] \in Calls
         /\ Maps(vma[p]) \in 0 .. 2
  BY DEF TypeOK, Vmas, Maps, Shown

LEMMA ArgPlaces ==
  ASSUME TypeOK, NEW p \in Procs, NEW do, Next_(p, do)
  PROVE  /\ call[p].op = "none" /\ at[p] \in Nat /\ Arg(p).do \in do
         /\ End(p) \in Nat /\ End(p) >= 2
         /\ \/ at[p] = 1 /\ Arg(p).do = "open" /\ Arg(p).k \in 0 .. 2
            \/ at[p] \in 2 .. End(p) /\ Arg(p) \in Body
            \/ at[p] = End(p) + 1 /\ Arg(p).do = "munmap" /\ Arg(p).k = 1
            \/ at[p] = End(p) + 2 /\ Arg(p).do = "munmap" /\ Arg(p).k = 2
            \/ at[p] = End(p) + 3 /\ Arg(p).do = "close" /\ Arg(p).k = 0
<1>1. at[p] \in 1 .. Len(Script(p)) /\ Arg(p).do \in do /\ call[p].op = "none"
  BY DEF Next_, Inside, Arg
<1>2. program \in [Procs -> Programs]
  BY DEF TypeOK
<1>3. at[p] \in Nat
  BY DEF TypeOK
<1>. DEFINE n == at[p]
            E == End(p)
            L == Len(Script(p))
<1>4. n \in 1 .. L /\ L = E + 3 /\ E \in Nat /\ E >= 2 /\ Arg(p) = Script(p)[n]
  BY <1>1, <1>2, ScriptTable DEF Arg
<1>. HIDE DEF n, E, L
<1>5. n = 1 \/ n \in 2 .. E \/ n = E + 1 \/ n = E + 2 \/ n = E + 3
  BY <1>4
<1>6. CASE n = 1
  BY <1>1, <1>2, <1>3, <1>4, <1>6, ScriptTable DEF n, E
<1>7. CASE n \in 2 .. E
  BY <1>1, <1>2, <1>3, <1>4, <1>7, ScriptTable DEF n, E
<1>8. CASE n = E + 1 \/ n = E + 2 \/ n = E + 3
  BY <1>1, <1>2, <1>3, <1>4, <1>8, ScriptTable DEF n, E
<1>. QED BY <1>5, <1>6, <1>7, <1>8

(* A process outside of a call moves within its program; its file may show  *)
(* another text.                                                            *)
LEMMA Within ==
  ASSUME TypeOK, Locals, NEW p \in Procs, call[p].op = "none", NEW n \in 2 .. End(p) + 1,
         NEW text \in Texts, Quiet, UNCHANGED <<pc, vma, call>>,
         file' = [file EXCEPT ![p] = [file[p] EXCEPT !.text = text]],
         at' = [at EXCEPT ![p] = n], at[p] <= End(p), at[p] # 1
  PROVE  TypeOK' /\ Locals'
<1>. DEFINE f == [file[p] EXCEPT !.text = text]
<1>1. file[p] \in Files /\ End(p) \in Nat /\ n \in Nat
  BY FileTypes, ScriptTable DEF TypeOK
<1>2. f \in Files /\ f.load = file[p].load /\ f.private = file[p].private /\ f.page = file[p].page
      /\ f.released = file[p].released
  BY <1>1 DEF Files
<1>3. Fine(p, file[p], vma[p], at[p], call[p], call[Rmmod])
  BY LocalIs
<1>4. Fine(p, f, vma[p], n, call[p], call[Rmmod])
  <2>. HIDE DEF f
  <2>1. Goes(p, f, call[p]) /\ Rmmods(p, f, vma[p], call[p], call[Rmmod])
    BY <1>2, <1>3 DEF Fine, Goes, Rmmods
  <2>2. Stands(p, f, vma[p], n, call[p])
    BY <1>1 DEF Stands
  <2>3. Counts(f, vma[p], call[p])
    BY <1>2, <1>3 DEF Fine, Counts
  <2>. QED BY <2>1, <2>2, <2>3 DEF Fine
<1>5. Moves(p, f, vma[p], n, call[p])
  BY Same DEF Moves
<1>. QED BY <1>1, <1>2, <1>4, <1>5, Same, StepOf

(* The first step of a process outside of its program's beginning.          *)
LEMMA NextStep ==
  ASSUME TypeOK, NEW p \in Procs, NEW do, Next_(p, do), "open" \notin do, "munmap" \notin do,
         "close" \notin do
  PROVE  /\ call[p].op = "none" /\ at[p] \in 2 .. End(p) /\ Arg(p) \in Body /\ Arg(p).do \in do
         /\ End(p) \in Nat /\ at[p] \in Nat /\ at[p] + 1 \in 2 .. End(p) + 1
         /\ End(p) + 1 \in 2 .. End(p) + 1
  BY ArgPlaces

LEMMA OpenKeeps ==
  ASSUME TypeOK, Locals, NEW p \in Procs, Open(p) PROVE TypeOK' /\ Locals'
<1>1. /\ Quiet /\ UNCHANGED <<pc, vma>>
      /\ call[p].op = "none" /\ at[p] = 1 /\ Arg(p).k \in 0 .. 2
      /\ End(p) \in Nat /\ End(p) >= 2
  <2>1. Next_(p, {"open"})
    BY DEF Open
  <2>. QED BY <2>1, ArgPlaces DEF Open, Quiet, others, Body
<1>2. Fine(p, file[p], vma[p], at[p], call[p], call[Rmmod]) /\ vma[p] \in Vmas
  BY LocalIs, Same
<1>3. file[p] = NoFile /\ vma[p][1] # "touched" /\ vma[p][2] # "touched"
  BY <1>1, <1>2 DEF Fine, Stands
<1>4. CASE entry # 0 /\ Enter(p, "open") /\ UNCHANGED at
           /\ file' = [file EXCEPT ![p] = [NoFile EXCEPT !.load = entry]]
  <2>. DEFINE f == [NoFile EXCEPT !.load = entry]
              c == [op |-> "open", on |-> p, k |-> Arg(p).k, i |-> 1]
  <2>1. f \in Files /\ c \in Calls
    <3>1. c \in Calls
      BY <1>1 DEF Calls
    <3>2. NoFile \in Files /\ entry \in 0 .. MaxLoads
      BY LifecycleSizes DEF Files, NoFile, Texts, TypeOK
    <3>3. f \in Files
      BY <3>2 DEF Files
    <3>. QED BY <3>1, <3>3
  <2>2. Moves(p, f, vma[p], at[p], c)
    BY <1>1, <1>4, Same DEF Moves, Enter
  <2>3. f.load = entry /\ f.page = 0 /\ ~f.private /\ ~f.released
    BY DEF NoFile
  <2>4. c.op = "open" /\ c.on = p
    OBVIOUS
  <2>. HIDE DEF f, c
  <2>5. call[Rmmod].on # p
    BY <1>2, <1>3 DEF Fine, Rmmods, NoFile
  <2>6. Held(f.load, "drain") /\ Held(f.load, "release")
    BY <1>4, <2>3 DEF Held
  <2>7. Goes(p, f, c) /\ Rmmods(p, f, vma[p], c, call[Rmmod])
    BY <2>4, <2>5, <2>6 DEF Goes, Rmmods
  <2>8. Stands(p, f, vma[p], at[p], c)
    BY <1>1, <1>3, <2>4 DEF Stands
  <2>9. Counts(f, vma[p], c)
    BY <1>3, <2>3, <2>4 DEF Counts, Maps, Shown
  <2>10. Fine(p, f, vma[p], at[p], c, call[Rmmod])
    BY <2>7, <2>8, <2>9 DEF Fine
  <2>. QED BY <1>1, <2>1, <2>2, <2>10, Same, StepOf
<1>5. CASE entry = 0 /\ Abort(p) /\ UNCHANGED <<file, call>>
  <2>. DEFINE n == End(p) + 1
  <2>1. Moves(p, file[p], vma[p], n, call[p])
    BY <1>1, <1>5, Same DEF Moves, Abort, End
  <2>2. n \in Nat /\ n > 1 /\ n < End(p) + 2
    BY <1>1
  <2>. HIDE DEF n
  <2>3. Stands(p, file[p], vma[p], n, call[p])
    BY <1>1, <1>3, <2>2 DEF Stands
  <2>4. Fine(p, file[p], vma[p], n, call[p], call[Rmmod])
    BY <1>2, <2>3 DEF Fine
  <2>. QED BY <1>1, <2>1, <2>2, <2>4, Same, StepOf
<1>. QED BY <1>4, <1>5 DEF Open

LEMMA SyscallKeeps ==
  ASSUME TypeOK, Locals, NEW p \in Procs, Syscall(p) PROVE TypeOK' /\ Locals'
<1>1. /\ Quiet /\ UNCHANGED <<pc, vma, file>>
      /\ call[p].op = "none" /\ at[p] \in 2 .. End(p) /\ Arg(p) \in Body
      /\ Arg(p).do \in {"mmap", "read", "write"}
      /\ End(p) \in Nat /\ at[p] \in Nat /\ at[p] + 1 \in 2 .. End(p) + 1
      /\ End(p) + 1 \in 2 .. End(p) + 1
  <2>1. Next_(p, {"mmap", "read", "write"})
    BY DEF Syscall
  <2>. QED BY <2>1, NextStep DEF Syscall, Quiet, others
<1>2. Fine(p, file[p], vma[p], at[p], call[p], call[Rmmod])
  BY LocalIs
<1>3. CASE Live(p) /\ Enter(p, Arg(p).do) /\ UNCHANGED at
  <2>. DEFINE c == [op |-> Arg(p).do, on |-> p, k |-> Arg(p).k, i |-> 1]
  <2>1. c \in Calls
    BY <1>1 DEF Body, Ins, Calls
  <2>2. Moves(p, file[p], vma[p], at[p], c)
    BY <1>1, <1>3, Same DEF Moves, Enter
  <2>3. c.op \in {"mmap", "read", "write"} /\ c.on = p /\ (c.op = "mmap" => c.k \in 1 .. 2)
    BY <1>1 DEF Body
  <2>. HIDE DEF c
  <2>4. Held(file[p].load, "drain")
    BY <1>3 DEF Held, Live
  <2>5. Goes(p, file[p], c)
    BY <1>2, <2>3, <2>4 DEF Fine, Goes
  <2>6. Stands(p, file[p], vma[p], at[p], c)
    BY <1>1, <2>3 DEF Stands
  <2>7. Counts(file[p], vma[p], c) /\ Rmmods(p, file[p], vma[p], c, call[Rmmod])
    BY <1>2, <2>3 DEF Fine, Counts, Rmmods
  <2>8. Fine(p, file[p], vma[p], at[p], c, call[Rmmod])
    BY <2>5, <2>6, <2>7 DEF Fine
  <2>. QED BY <1>1, <2>1, <2>2, <2>8, Same, StepOf
<1>4. CASE ~Live(p) /\ (IF Arg(p).do = "mmap" THEN Abort(p) ELSE Advance(p)) /\ UNCHANGED call
  <2>1. file' = [file EXCEPT ![p] = [file[p] EXCEPT !.text = file[p].text]]
        /\ file[p].text \in Texts
    BY <1>1, Same DEF Files
  <2>2. PICK n \in 2 .. End(p) + 1 : at' = [at EXCEPT ![p] = n]
    BY <1>1, <1>4 DEF Abort, Advance, End
  <2>3. at[p] <= End(p) /\ at[p] # 1
    BY <1>1
  <2>. QED BY <1>1, <1>4, <2>1, <2>2, <2>3, Within
<1>. QED BY <1>3, <1>4 DEF Syscall

LEMMA GotKeeps ==
  ASSUME TypeOK, Locals, NEW p \in Procs, Got(p) \/ Kill(p) PROVE TypeOK' /\ Locals'
<1>1. /\ Quiet /\ UNCHANGED <<pc, vma, file, call>>
      /\ call[p].op = "none" /\ at[p] \in 2 .. End(p)
      /\ End(p) \in Nat /\ at[p] \in Nat /\ at[p] + 1 \in 2 .. End(p) + 1
      /\ End(p) + 1 \in 2 .. End(p) + 1
  <2>1. CASE Got(p)
    <3>1. Next_(p, {"got"})
      BY <2>1 DEF Got
    <3>. QED BY <2>1, <3>1, NextStep DEF Got, Quiet, others
  <2>2. CASE Kill(p)
    <3>1. End(p) \in Nat /\ End(p) >= 2 /\ at[p] \in Nat
      BY ScriptTable DEF TypeOK
    <3>. QED BY <2>2, <3>1 DEF Kill, Quiet, others, Inside, End
  <2>. QED BY <2>1, <2>2
<1>2. file' = [file EXCEPT ![p] = [file[p] EXCEPT !.text = file[p].text]]
      /\ file[p].text \in Texts
  BY <1>1, Same DEF Files
<1>3. PICK n \in 2 .. End(p) + 1 : at' = [at EXCEPT ![p] = n]
  BY <1>1 DEF Got, Kill, Abort, Advance, End
<1>4. at[p] <= End(p) /\ at[p] # 1
  BY <1>1
<1>. QED BY <1>1, <1>2, <1>3, <1>4, Within

LEMMA AccessKeeps ==
  ASSUME TypeOK, Locals, NEW p \in Procs, Access(p) PROVE TypeOK' /\ Locals'
<1>1. /\ Quiet /\ UNCHANGED <<pc, vma>>
      /\ call[p].op = "none" /\ at[p] \in 2 .. End(p) /\ Arg(p) \in Body
      /\ Arg(p).do \in {"same", "store"}
      /\ End(p) \in Nat /\ at[p] \in Nat /\ at[p] + 1 \in 2 .. End(p) + 1
      /\ End(p) + 1 \in 2 .. End(p) + 1
  <2>1. Next_(p, {"same", "store"})
    BY DEF Access
  <2>. QED BY <2>1, NextStep DEF Access, Quiet, others
<1>2. Fine(p, file[p], vma[p], at[p], call[p], call[Rmmod])
  BY LocalIs
<1>3. Arg(p).k \in 1 .. 2 /\ Arg(p).text \in Texts /\ file[p].text \in Texts
      /\ at[p] <= End(p) /\ at[p] # 1
  BY <1>1, FileTypes DEF Body, Ins, Files
<1>4. CASE vma[p][Arg(p).k] # "touched" /\ Enter(p, "fault") /\ UNCHANGED <<file, at>>
  <2>. DEFINE c == [op |-> "fault", on |-> p, k |-> Arg(p).k, i |-> 1]
  <2>1. c \in Calls
    BY <1>3 DEF Calls
  <2>2. Moves(p, file[p], vma[p], at[p], c)
    BY <1>1, <1>4, Same DEF Moves, Enter
  <2>3. c.op = "fault" /\ c.on = p /\ c.k \in 1 .. 2 /\ vma[p][c.k] # "touched"
    BY <1>3, <1>4
  <2>. HIDE DEF c
  <2>4. Goes(p, file[p], c)
    BY <1>2, <2>3 DEF Fine, Goes
  <2>5. Stands(p, file[p], vma[p], at[p], c)
    BY <1>1, <2>3 DEF Stands
  <2>6. Counts(file[p], vma[p], c) /\ Rmmods(p, file[p], vma[p], c, call[Rmmod])
    BY <1>2, <2>3 DEF Fine, Counts, Rmmods
  <2>7. Fine(p, file[p], vma[p], at[p], c, call[Rmmod])
    BY <2>4, <2>5, <2>6 DEF Fine
  <2>. QED BY <1>1, <2>1, <2>2, <2>7, Same, StepOf
<1>5. CASE UNCHANGED <<file, call>> /\ IF file[p].text = Arg(p).text THEN Advance(p) ELSE Abort(p)
  <2>1. file' = [file EXCEPT ![p] = [file[p] EXCEPT !.text = file[p].text]]
    BY <1>5, Same DEF Files
  <2>2. PICK n \in 2 .. End(p) + 1 : at' = [at EXCEPT ![p] = n]
    BY <1>1, <1>5 DEF Abort, Advance, End
  <2>. QED BY <1>1, <1>3, <1>5, <2>1, <2>2, Within
<1>6. CASE UNCHANGED call /\ Advance(p) /\ file' = [file EXCEPT ![p].text = Arg(p).text]
  <2>1. file' = [file EXCEPT ![p] = [file[p] EXCEPT !.text = Arg(p).text]]
    BY <1>6
  <2>2. PICK n \in 2 .. End(p) + 1 : at' = [at EXCEPT ![p] = n]
    BY <1>1, <1>6 DEF Advance
  <2>. QED BY <1>1, <1>3, <1>6, <2>1, <2>2, Within
<1>7. LET touched == vma[p][Arg(p).k] = "touched"
      IN \/ ~touched /\ Enter(p, "fault") /\ UNCHANGED <<file, at>>
         \/ /\ touched /\ Arg(p).do = "same" /\ UNCHANGED <<file, call>>
            /\ IF file[p].text = Arg(p).text THEN Advance(p) ELSE Abort(p)
         \/ /\ touched /\ Arg(p).do = "store" /\ UNCHANGED call /\ Advance(p)
            /\ file' = [file EXCEPT ![p].text = Arg(p).text]
  BY DEF Access
<1>. QED BY <1>4, <1>5, <1>6, <1>7

LEMMA MunmapKeeps ==
  ASSUME TypeOK, Locals, NEW p \in Procs, Munmap(p) PROVE TypeOK' /\ Locals'
<1>. DEFINE k == Arg(p).k
            f == IF vma[p][k] = "touched" THEN [file[p] EXCEPT !.page = @ - 1] ELSE file[p]
            v == [vma[p] EXCEPT ![k] = "none"]
<1>1. /\ Quiet /\ UNCHANGED <<pc, call>>
      /\ call[p].op = "none" /\ at[p] \in Nat /\ End(p) \in Nat /\ End(p) >= 2
      /\ (at[p] = End(p) + 1 /\ k = 1) \/ (at[p] = End(p) + 2 /\ k = 2)
  <2>1. Next_(p, {"munmap"})
    BY DEF Munmap
  <2>. QED BY <2>1, ArgPlaces DEF Munmap, Quiet, others, Body
<1>2. Fine(p, file[p], vma[p], at[p], call[p], call[Rmmod])
  BY LocalIs
<1>3. /\ file[p] \in Files /\ vma[p] \in Vmas /\ k \in 1 .. 2 /\ Maps(vma[p]) \in 0 .. 2
  BY <1>1, Same
<1>4. PICK n \in {Dead, at[p] + 1} : at' = [at EXCEPT ![p] = n]
  BY DEF Munmap, Advance
<1>5. Moves(p, f, v, n, call[p])
  BY <1>1, <1>4, Same DEF Munmap, Moves
<1>6. /\ f \in Files /\ f.private = file[p].private /\ f.released = file[p].released
      /\ f.load = file[p].load /\ file[p].page \in Int
      /\ vma[p][k] = "touched" => f.page = file[p].page - 1
      /\ vma[p][k] # "touched" => f.page = file[p].page
  BY <1>3 DEF Files
<1>7. /\ v \in Vmas /\ Maps(v) \in 0 .. 2 /\ (k = 1 => v[1] = "none" /\ v[2] = vma[p][2])
      /\ (k = 2 => v[2] = "none" /\ v[1] = vma[p][1])
      /\ vma[p][k] = "touched" => Maps(v) = Maps(vma[p]) - 1
      /\ vma[p][k] # "touched" => Maps(v) = Maps(vma[p])
  BY <1>3 DEF Vmas, Maps, Shown
<1>. HIDE DEF k, f, v
<1>8. Goes(p, f, call[p])
  BY <1>1, <1>2, <1>6 DEF Fine, Goes
<1>9. Stands(p, f, v, n, call[p])
  BY <1>1, <1>2, <1>7 DEF Fine, Stands, Dead
<1>10. f.page - Maps(v) = file[p].page - Maps(vma[p]) /\ f.page \in Int
  BY <1>3, <1>6, <1>7
<1>11. Counts(f, v, call[p])
  BY <1>1, <1>2, <1>3, <1>6, <1>7, <1>10 DEF Fine, Counts
<1>12. Rmmods(p, f, v, call[p], call[Rmmod])
  BY <1>2, <1>3, <1>6, <1>7, <1>10 DEF Fine, Rmmods
<1>13. Fine(p, f, v, n, call[p], call[Rmmod]) /\ n \in Nat
  BY <1>1, <1>8, <1>9, <1>11, <1>12 DEF Fine, Dead
<1>. QED BY <1>1, <1>5, <1>6, <1>7, <1>13, Same, StepOf

LEMMA NoFileType == NoFile \in Files
  BY LifecycleSizes DEF Files, NoFile, Texts

LEMMA CloseKeeps ==
  ASSUME TypeOK, Locals, NEW p \in Procs, Close(p) PROVE TypeOK' /\ Locals'
<1>1. /\ Quiet /\ UNCHANGED <<pc, vma>> /\ call[Rmmod].on # p
      /\ call[p].op = "none" /\ at[p] \in Nat /\ End(p) \in Nat /\ End(p) >= 2
      /\ at[p] = End(p) + 3 /\ Arg(p).k = 0
  <2>1. Next_(p, {"close"})
    BY DEF Close
  <2>. QED BY <2>1, ArgPlaces DEF Close, Quiet, others, Body
<1>2. Fine(p, file[p], vma[p], at[p], call[p], call[Rmmod]) /\ file[p] \in Files
  BY LocalIs, Same
<1>3. vma[p][1] # "touched" /\ vma[p][2] # "touched"
  BY <1>1, <1>2 DEF Fine, Stands
<1>4. Maps(vma[p]) = 0
  BY <1>3 DEF Maps, Shown
<1>5. CASE file' = [file EXCEPT ![p] = NoFile] /\ Advance(p) /\ UNCHANGED call
  <2>. DEFINE n == at[p] + 1
  <2>1. Moves(p, NoFile, vma[p], n, call[p])
    BY <1>1, <1>5, Same DEF Moves, Advance
  <2>2. n \in Nat /\ n = End(p) + 4
    BY <1>1
  <2>. HIDE DEF n
  <2>3. Goes(p, NoFile, call[p]) /\ Rmmods(p, NoFile, vma[p], call[p], call[Rmmod])
    BY <1>1 DEF Goes, Rmmods, NoFile
  <2>4. Stands(p, NoFile, vma[p], n, call[p])
    BY <1>1, <1>3, <2>2 DEF Stands
  <2>5. Counts(NoFile, vma[p], call[p])
    BY <1>1, <1>4 DEF Counts, NoFile
  <2>6. Fine(p, NoFile, vma[p], n, call[p], call[Rmmod])
    BY <2>3, <2>4, <2>5 DEF Fine
  <2>. QED BY <1>1, <2>1, <2>2, <2>6, Same, StepOf, NoFileType
<1>6. CASE /\ file[p].load # 0 /\ ~file[p].released
           /\ file' = [file EXCEPT ![p].released = TRUE] /\ Enter(p, "release") /\ UNCHANGED at
  <2>. DEFINE f == [file[p] EXCEPT !.released = TRUE]
              c == [op |-> "release", on |-> p, k |-> Arg(p).k, i |-> 1]
  <2>1. Moves(p, f, vma[p], at[p], c)
    BY <1>1, <1>6, Same DEF Moves, Enter
  <2>2. /\ f \in Files /\ f.load = file[p].load /\ f.released /\ f.page = file[p].page
        /\ f.private = file[p].private
    BY <1>2 DEF Files
  <2>3. c \in Calls /\ c.op = "release" /\ c.on = p
    BY <1>1 DEF Calls
  <2>. HIDE DEF f, c
  <2>4. Goes(p, f, c)
    BY <1>2, <1>6, <2>2, <2>3 DEF Fine, Goes
  <2>5. Stands(p, f, vma[p], at[p], c)
    BY <1>1, <1>3, <2>3 DEF Stands
  <2>6. Counts(f, vma[p], c)
    BY <1>2, <1>6, <2>2, <2>3 DEF Fine, Counts
  <2>7. Rmmods(p, f, vma[p], c, call[Rmmod])
    BY <1>1 DEF Rmmods
  <2>8. Fine(p, f, vma[p], at[p], c, call[Rmmod])
    BY <2>4, <2>5, <2>6, <2>7 DEF Fine
  <2>. QED BY <1>1, <2>1, <2>2, <2>3, <2>8, Same, StepOf
<1>. QED BY <1>5, <1>6 DEF Close

LEMMA AgainKeeps ==
  ASSUME TypeOK, Locals, NEW p \in Procs, Again(p) PROVE TypeOK' /\ Locals'
<1>1. /\ Quiet /\ UNCHANGED <<pc, vma, file, call>> /\ at[p] > End(p) + 3
      /\ at' = [at EXCEPT ![p] = 1] /\ End(p) \in Nat /\ End(p) >= 2 /\ at[p] \in Nat
      /\ call[p].op \in {"none", "open", "mmap", "fault", "read", "write", "release"}
  BY ScriptTable DEF Again, Quiet, others, TypeOK, Calls
<1>2. Fine(p, file[p], vma[p], at[p], call[p], call[Rmmod])
  BY LocalIs
<1>3. /\ file[p] = NoFile /\ vma[p][1] # "touched" /\ vma[p][2] # "touched"
      /\ call[p].op = "none"
  BY <1>1, <1>2 DEF Fine, Stands
<1>4. Stands(p, file[p], vma[p], 1, call[p])
  BY <1>1, <1>3 DEF Stands
<1>5. Fine(p, file[p], vma[p], 1, call[p], call[Rmmod])
  BY <1>2, <1>4 DEF Fine
<1>6. Moves(p, file[p], vma[p], 1, call[p])
  BY <1>1, Same DEF Moves
<1>. QED BY <1>1, <1>5, <1>6, Same, StepOf

-----------------------------------------------------------------------------
(* The threads in a call. *)

LEMMA TroublesMean ==
  ASSUME NEW a, Troubles(a) = {}
  PROVE  /\ Present(file[call[a].on].load)
         /\ Doing(a, {"fill"}) => file[call[a].on].page # 0
         /\ Doing(a, {"copy", "put", "kfree"}) => file[call[a].on].private
<1>1. "strayVma" \notin Troubles(a) /\ "strayEntry" \notin Troubles(a) /\ "null" \notin Troubles(a)
  OBVIOUS
<1>2. ~(~Present(file[call[a].on].load) /\ call[a].op = "fault")
  BY <1>1 DEF Troubles
<1>3. ~(~Present(file[call[a].on].load) /\ call[a].op # "fault")
  BY <1>1 DEF Troubles
<1>4. ~(\/ Doing(a, {"page", "get"}) /\ file[call[a].on].info = "none"
        \/ Doing(a, {"fill"}) /\ file[call[a].on].page = 0
        \/ Doing(a, {"copy", "put", "kfree"}) /\ ~file[call[a].on].private)
  BY <1>1 DEF Troubles
<1>. QED BY <1>2, <1>3, <1>4

(* The steps of the operations, by their place.                             *)
Sheet ==
  {<<"open", 1, "info">>, <<"open", 2, "page">>, <<"open", 3, "fill">>, <<"mmap", 1, "vma">>,
   <<"fault", 1, "get">>, <<"read", 1, "copy">>, <<"read", 1, "cache">>, <<"write", 1, "copy">>,
   <<"release", 1, "put">>, <<"release", 2, "kfree">>}

LEMMA OpsAre ==
  ASSUME km \in Modules, NEW a, Inside(a), call[a] \in Calls, call[a].i <= Len(Ops(a))
  PROVE  <<call[a].op, call[a].i, Ops(a)[call[a].i]>> \in Sheet
<1>1. call[a].i \in Nat \ {0}
      /\ call[a].op \in {"open", "mmap", "fault", "read", "write", "release"}
  BY DEF Inside, Calls
<1>2. CASE call[a].op = "open"
  <2>1. Ops(a) = <<"info", "page", "fill">> \/ Ops(a) = <<>>
    BY <1>2, OpsTables DEF Ops
  <2>2. Ops(a) = <<"info", "page", "fill">>
    BY <1>1, <2>1
  <2>3. call[a].i = 1 \/ call[a].i = 2 \/ call[a].i = 3
    BY <1>1, <2>2
  <2>. QED BY <1>2, <2>2, <2>3 DEF Sheet
<1>3. CASE call[a].op = "mmap" \/ call[a].op = "fault" \/ call[a].op = "write"
  <2>1. \/ call[a].op = "mmap" /\ Ops(a) = <<"vma">>
        \/ call[a].op = "fault" /\ Ops(a) = <<"get">>
        \/ call[a].op = "write" /\ Ops(a) = <<"copy">>
    BY <1>3, OpsTables DEF Ops
  <2>2. Len(Ops(a)) = 1
    BY <2>1
  <2>3. call[a].i = 1
    BY <1>1, <2>2
  <2>. QED BY <2>1, <2>3 DEF Sheet
<1>4. CASE call[a].op = "read"
  <2>1. Ops(a) = <<"copy">> \/ Ops(a) = <<"cache">>
    BY <1>4, OpsTables DEF Ops
  <2>2. Len(Ops(a)) = 1
    BY <2>1
  <2>3. call[a].i = 1
    BY <1>1, <2>2
  <2>. QED BY <1>4, <2>1, <2>3 DEF Sheet
<1>5. CASE call[a].op = "release"
  <2>1. Ops(a) = <<"put", "kfree">>
    BY <1>5, OpsTables DEF Ops
  <2>2. call[a].i = 1 \/ call[a].i = 2
    BY <1>1, <2>1
  <2>. QED BY <1>5, <2>1, <2>2 DEF Sheet
<1>. QED BY <1>1, <1>2, <1>3, <1>4, <1>5

LEMMA AfterIs ==
  ASSUME km \in Modules, NEW f \in Files, NEW op, NEW i, NEW step, <<op, i, step>> \in Sheet,
         NEW text \in Texts, NEW g \in After(f, step, op, text)
  PROVE  /\ g \in Files /\ g.load = f.load /\ g.released = f.released
         /\ step \notin {"page", "get", "put"} => g.page = f.page
         /\ step \notin {"fill", "kfree"} => g.private = f.private
         /\ step = "page" => g.page \in {1, f.page}
         /\ step = "get" => g.page = f.page + 1
         /\ step = "put" => g.page = f.page - 1
         /\ step = "kfree" => ~g.private
<1>0. km.text \in Texts /\ f.page \in Int
  BY OpsTables DEF Files
<1>1. CASE step = "info"
  <2>1. g = f \/ g = [f EXCEPT !.info = "valid"]
    BY <1>1 DEF After
  <2>. QED BY <1>1, <2>1 DEF Files
<1>2. CASE step = "page"
  <2>1. g = f \/ g = [f EXCEPT !.page = 1]
    BY <1>2 DEF After
  <2>. QED BY <1>2, <2>1 DEF Files
<1>3. CASE step = "fill"
  <2>1. g = [f EXCEPT !.private = TRUE, !.text = km.text]
    BY <1>3 DEF After
  <2>. QED BY <1>0, <1>3, <2>1 DEF Files
<1>4. CASE step = "copy"
  <2>1. op = "read" \/ op = "write"
    BY <1>4 DEF Sheet
  <2>2. g = [f EXCEPT !.text = text] \/ g = [f EXCEPT !.got = f.text]
    BY <1>4, <2>1 DEF After
  <2>. QED BY <1>4, <2>2 DEF Files
<1>5. CASE step = "cache"
  <2>1. g = [f EXCEPT !.got = "packets"] /\ "packets" \in Texts
    BY <1>5 DEF After, Texts
  <2>. QED BY <1>5, <2>1 DEF Files
<1>6. CASE step = "get"
  <2>1. g = [f EXCEPT !.page = f.page + 1]
    BY <1>6 DEF After, get_page
  <2>. QED BY <1>0, <1>6, <2>1 DEF Files
<1>7. CASE step = "put"
  <2>1. g = [f EXCEPT !.page = f.page - 1]
    BY <1>7 DEF After
  <2>. QED BY <1>0, <1>7, <2>1 DEF Files
<1>8. CASE step = "kfree"
  <2>1. g = [f EXCEPT !.info = "freed", !.private = FALSE]
    BY <1>8 DEF After
  <2>. QED BY <1>8, <2>1 DEF Files
<1>9. CASE step = "vma"
  <2>1. g = f
    BY <1>9 DEF After
  <2>. QED BY <1>9, <2>1
<1>10. step \in {"info", "page", "fill", "copy", "cache", "get", "put", "kfree", "vma"}
  BY DEF Sheet
<1>. QED BY <1>1, <1>2, <1>3, <1>4, <1>5, <1>6, <1>7, <1>8, <1>9, <1>10

(* What a step does to the page of its file and to the mappings.            *)
MapsAs(v, k, step) ==
  IF step \in {"vma", "get"}
  THEN [v EXCEPT ![k] = IF step = "vma" THEN "mapped" ELSE "touched"] ELSE v

LEMMA MapsAfter ==
  ASSUME NEW v \in Vmas, NEW k, NEW step, step \in {"vma", "get"} => k \in 1 .. 2,
         step = "get" => v[k] # "touched"
  PROVE  /\ MapsAs(v, k, step) \in Vmas /\ Maps(MapsAs(v, k, step)) \in 0 .. 2
         /\ step \notin {"vma", "get"} => MapsAs(v, k, step) = v
         /\ step = "vma" => Maps(MapsAs(v, k, step)) <= Maps(v)
         /\ step = "get" => Maps(MapsAs(v, k, step)) = Maps(v) + 1
<1>1. CASE step = "vma"
  <2>1. k = 1 \/ k = 2
    BY <1>1
  <2>2. MapsAs(v, k, step) = [v EXCEPT ![k] = "mapped"]
    BY <1>1 DEF MapsAs
  <2>. QED BY <1>1, <2>1, <2>2 DEF Vmas, Maps, Shown
<1>2. CASE step = "get"
  <2>1. (k = 1 \/ k = 2) /\ v[k] # "touched"
    BY <1>2
  <2>2. MapsAs(v, k, step) = [v EXCEPT ![k] = "touched"]
    BY <1>2 DEF MapsAs
  <2>. QED BY <1>2, <2>1, <2>2 DEF Vmas, Maps, Shown
<1>3. CASE step \notin {"vma", "get"}
  <2>1. MapsAs(v, k, step) = v
    BY <1>3 DEF MapsAs
  <2>. QED BY <1>3, <2>1 DEF Vmas, Maps, Shown
<1>. QED BY <1>1, <1>2, <1>3

LEMMA FileStepKeeps ==
  ASSUME TypeOK, Locals, NEW p \in Procs, FileStep(p) PROVE TypeOK' /\ Locals'
<1>. DEFINE f == file[p]
            o == call[p].op
            i == call[p].i
            k == call[p].k
            n == at[p]
            step == Ops(p)[i]
            text == IF o = "write" THEN program[p][n].text ELSE "none"
            v == MapsAs(vma[p], k, step)
            c == [call[p] EXCEPT !.i = i + 1]
            r == call[Rmmod]
            b == Maps(vma[p])
<1>1. /\ Fine(p, f, vma[p], n, call[p], r) /\ f \in Files /\ vma[p] \in Vmas /\ n \in Nat
      /\ call[p] \in Calls /\ b \in 0 .. 2 /\ f.page \in Int
      /\ End(p) \in Nat /\ End(p) >= 2 /\ km \in Modules
  BY LocalIs, Same, FileTypes, ScriptTable DEF TypeOK
<1>2. Inside(p) /\ call[p].on = p /\ i <= Len(Ops(p)) /\ Troubles(p) = {} /\ o # "none"
  BY <1>1 DEF FileStep, Fine, Goes, Inside
<1>3. <<o, i, step>> \in Sheet
  BY <1>1, <1>2, OpsAre
<1>4. text \in Texts
  <2>1. CASE o = "write"
    <3>1. n \in 2 .. End(p)
      BY <1>1, <2>1 DEF Fine, Stands
    <3>2. program[p][n] \in Body
      BY <3>1, ScriptTable DEF TypeOK
    <3>. QED BY <2>1, <3>2 DEF Body, Ins
  <2>2. CASE o # "write"
    BY <2>2 DEF Texts
  <2>. QED BY <2>1, <2>2
<1>5. PICK g \in After(f, step, o, text) : file' = [file EXCEPT ![p] = g]
  BY <1>2 DEF FileStep
<1>6. /\ g \in Files /\ g.load = f.load /\ g.released = f.released
      /\ step \notin {"page", "get", "put"} => g.page = f.page
      /\ step \notin {"fill", "kfree"} => g.private = f.private
      /\ step = "page" => g.page \in {1, f.page}
      /\ step = "get" => g.page = f.page + 1
      /\ step = "put" => g.page = f.page - 1
      /\ step = "kfree" => ~g.private
  BY <1>1, <1>3, <1>4, AfterIs
<1>7. /\ step \in {"page", "fill"} => o = "open"
      /\ step \in {"put", "kfree"} => o = "release"
      /\ step = "put" => i = 1
      /\ step = "get" => o = "fault" /\ i = 1
      /\ step = "vma" => o = "mmap"
  BY <1>3 DEF Sheet
<1>8. /\ step \in {"vma", "get"} => k \in 1 .. 2
      /\ step = "get" => vma[p][k] # "touched"
  BY <1>1, <1>7 DEF Fine, Goes, Counts
<1>9. /\ v \in Vmas /\ Maps(v) \in 0 .. 2
      /\ step \notin {"vma", "get"} => v = vma[p]
      /\ step = "vma" => Maps(v) <= b
      /\ step = "get" => Maps(v) = b + 1
  BY <1>1, <1>8, MapsAfter
<1>10. Moves(p, g, v, n, c)
  <2>1. vma' = [vma EXCEPT ![p] = v]
    <3>1. CASE step \in {"vma", "get"}
      BY <1>2, <3>1 DEF FileStep, MapsAs
    <3>2. CASE step \notin {"vma", "get"}
      BY <1>2, <3>2, Same DEF FileStep, MapsAs
    <3>. QED BY <3>1, <3>2
  <2>2. call' = [call EXCEPT ![p] = c] /\ at' = at
    BY DEF FileStep
  <2>. QED BY <1>5, <2>1, <2>2, Same DEF Moves
<1>11. /\ c \in Calls /\ c.op = o /\ c.on = p /\ c.k = k /\ c.i = i + 1 /\ c.i # 1
  BY <1>1, <1>2 DEF Calls
<1>12. /\ step = "fill" => f.page # 0
       /\ step = "put" => f.private
  <2>1. /\ step = "fill" => Doing(p, {"fill"})
        /\ step = "put" => Doing(p, {"copy", "put", "kfree"})
    BY <1>2 DEF Doing
  <2>. QED BY <1>2, <2>1, TroublesMean
<1>13. o = "open" => b = 0
  <2>1. o = "open" => vma[p][1] # "touched" /\ vma[p][2] # "touched"
    BY <1>1 DEF Fine, Stands
  <2>. QED BY <2>1 DEF Maps, Shown
<1>14. Quiet /\ UNCHANGED pc
  BY DEF FileStep, Quiet, others
<1>15. /\ f.page >= b /\ (f.private /\ ~f.released => f.page > b)
       /\ o = "release" /\ i = 1 /\ f.private => f.page > b
       /\ o = "release" => f.released
       /\ r.on = p => /\ o # "release" /\ f.released /\ f.load = load
                      /\ r.op = "release" /\ r.i = 1 /\ f.private => f.page > b
  BY <1>1 DEF Fine, Counts, Rmmods, Goes
<1>. HIDE DEF f, o, i, k, n, step, text, v, c, r, b
<1>16. g.page >= Maps(v)
  <2>1. CASE step = "put" \/ step = "page" \/ step = "get"
    BY <1>1, <1>6, <1>7, <1>9, <1>12, <1>13, <1>15, <2>1 DEF b
  <2>2. CASE step \notin {"put", "page", "get"}
    BY <1>1, <1>6, <1>9, <1>15, <2>2 DEF b
  <2>. QED BY <2>1, <2>2
<1>17. o # "release" /\ (f.private => f.page > b) => (g.private => g.page > Maps(v))
  <2>1. g.page \in Int
    BY <1>6 DEF Files
  <2>2. CASE step = "page"
    <3>1. f.page > b => g.page > Maps(v)
      BY <1>1, <1>6, <1>7, <1>9, <1>13, <2>1, <2>2 DEF b
    <3>2. g.private = f.private
      BY <1>6, <2>2
    <3>. QED BY <3>1, <3>2, Zenon
  <2>3. CASE step = "fill"
    <3>1. g.page > Maps(v)
      BY <1>1, <1>6, <1>7, <1>9, <1>12, <1>13, <1>15, <2>1, <2>3 DEF b
    <3>. QED BY <3>1
  <2>4. CASE step \notin {"put", "page", "fill", "kfree"}
    <3>1. f.page > b => g.page > Maps(v)
      BY <1>1, <1>6, <1>9, <2>1, <2>4 DEF b
    <3>2. g.private = f.private
      BY <1>6, <2>4
    <3>. QED BY <3>1, <3>2, Zenon
  <2>. QED BY <1>7, <2>2, <2>3, <2>4
<1>18. Goes(p, g, c)
  BY <1>1, <1>6, <1>11 DEF Fine, Goes, o, f, k
<1>19. Stands(p, g, v, n, c)
  <2>1. /\ o \in {"open", "mmap", "fault", "read", "write", "release"}
        /\ n = 1 \/ n \in 2 .. End(p) \/ n = End(p) + 3
    BY <1>1, <1>2 DEF Fine, Stands, Calls, o
  <2>2. /\ o = "open" => n = 1
        /\ o \in {"read", "write", "mmap", "fault"} => n \in 2 .. End(p)
        /\ o = "release" => n = End(p) + 3
        /\ n = 1 \/ n > End(p) + 1 => vma[p][1] # "touched"
        /\ n = 1 \/ n > End(p) + 2 => vma[p][2] # "touched"
    BY <1>1 DEF Fine, Stands, o
  <2>3. step \in {"vma", "get"} => n \in 2 .. End(p)
    BY <1>7, <2>2
  <2>4. /\ n = 1 \/ n > End(p) + 1 => v[1] # "touched"
        /\ n = 1 \/ n > End(p) + 2 => v[2] # "touched"
    BY <1>1, <1>9, <2>2, <2>3
  <2>5. ~((n = 1 /\ c.op = "none") \/ n > End(p) + 3)
    BY <1>1, <1>2, <1>11, <2>1
  <2>. QED BY <1>11, <2>2, <2>4, <2>5 DEF Stands
<1>20. Counts(g, v, c)
  BY <1>6, <1>11, <1>15, <1>16, <1>17 DEF Counts
<1>21. Rmmods(p, g, v, c, r)
  BY <1>6, <1>11, <1>15, <1>17 DEF Rmmods
<1>22. Fine(p, g, v, n, c, r)
  BY <1>18, <1>19, <1>20, <1>21 DEF Fine
<1>. QED BY <1>1, <1>6, <1>9, <1>10, <1>11, <1>14, <1>22, StepOf DEF r

(* rmmod in release of q's file.                                            *)
LEMMA RmmodIs ==
  ASSUME TypeOK, Locals, Inside(Rmmod)
  PROVE  /\ call[Rmmod] \in Calls /\ call[Rmmod].op = "release" /\ call[Rmmod].on \in Procs
         /\ InExit("release")
<1>1. RmmodInv /\ call[Rmmod] \in Calls
  BY LocalsAre DEF TypeOK
<1>2. call[Rmmod] # NoCall
  BY DEF Inside, NoCall
<1>. QED BY <1>1, <1>2 DEF RmmodInv

LEMMA RmmodStepKeeps ==
  ASSUME TypeOK, Locals, FileStep(Rmmod) PROVE TypeOK' /\ Locals'
<1>1. /\ Inside(Rmmod) /\ call[Rmmod].i <= Len(Ops(Rmmod)) /\ Troubles(Rmmod) = {} /\ km \in Modules
  BY DEF FileStep, TypeOK
<1>0. PICK q \in Procs : q = call[Rmmod].on
  BY <1>1, RmmodIs
<1>. DEFINE f == file[q]
            i == call[Rmmod].i
            step == Ops(Rmmod)[i]
            r == [call[Rmmod] EXCEPT !.i = i + 1]
<1>2. /\ call[Rmmod] \in Calls /\ call[Rmmod].op = "release" /\ call[Rmmod].on = q
      /\ InExit("release") /\ Rmmod # q
  BY <1>0, <1>1, RmmodIs, ThreadsAssumption DEF Rmmod
<1>3. /\ Fine(q, f, vma[q], at[q], call[q], call[Rmmod]) /\ f \in Files /\ f.page \in Int
      /\ at[q] \in Nat /\ call[q] \in Calls /\ Maps(vma[q]) \in 0 .. 2
  BY <1>2, LocalIs, Same, FileTypes
<1>4. <<"release", i, step>> \in Sheet
  BY <1>1, <1>2, OpsAre
<1>5. step \in {"put", "kfree"} /\ (step = "put" => i = 1)
  BY <1>4 DEF Sheet
<1>6. PICK g \in After(f, step, "release", "none") : file' = [file EXCEPT ![q] = g]
  BY <1>1, <1>2 DEF FileStep
<1>7. /\ g \in Files /\ g.load = f.load /\ g.released = f.released
      /\ step = "kfree" => g.page = f.page /\ ~g.private
      /\ step = "put" => g.page = f.page - 1
  BY <1>1, <1>3, <1>4, <1>5, AfterIs DEF Texts
<1>8. UNCHANGED <<vma, at, pc>> /\ Quiet /\ call' = [call EXCEPT ![Rmmod] = r]
  BY <1>1, <1>5 DEF FileStep, Quiet, others
<1>9. r \in Calls /\ r.op = "release" /\ r.on = q /\ r.i # 1
  BY <1>2 DEF Calls
<1>10. step = "put" => f.private
  <2>1. step = "put" => Doing(Rmmod, {"copy", "put", "kfree"})
    BY <1>1 DEF Doing
  <2>. QED BY <1>0, <1>1, <2>1, TroublesMean
<1>11. call[q].op # "release" /\ f.released /\ f.load = load
       /\ (i = 1 /\ f.private => f.page > Maps(vma[q])) /\ f.page >= Maps(vma[q])
  BY <1>2, <1>3 DEF Fine, Rmmods, Counts
<1>12. /\ file'[q] = g /\ call'[q] = call[q] /\ call'[Rmmod] = r
       /\ vma'[q] = vma[q] /\ at'[q] = at[q]
  BY <1>2, <1>6, <1>8 DEF TypeOK
<1>13. TypeOK'
  BY <1>2, <1>6, <1>7, <1>8, <1>9 DEF TypeOK, Quiet
<1>14. RmmodInv'
  BY <1>2, <1>8, <1>9, <1>12 DEF RmmodInv, InExit, Quiet
<1>15. ASSUME NEW s \in Procs \ {q} PROVE Local(s)'
  <2>1. UNCHANGED <<file[s], vma[s], at[s], call[s]>> /\ call'[Rmmod].on # s
    BY <1>2, <1>6, <1>8, <1>9, <1>12, ThreadsAssumption DEF TypeOK, Rmmod
  <2>. QED BY <1>8, <2>1, LocalKept, LocalsAre DEF AllLocal, Quiet
<1>. DEFINE v == vma[q]
            n == at[q]
            c == call[q]
<1>16. Fine(q, f, v, n, c, call[Rmmod]) /\ c \in Calls /\ n \in Nat
  BY <1>3
<1>17. g.page >= Maps(v)
  BY <1>3, <1>5, <1>7, <1>10, <1>11
<1>. HIDE DEF f, i, step, r, v, n, c
<1>18. Goes(q, g, c)
  BY <1>7, <1>16 DEF Fine, Goes
<1>19. Stands(q, g, v, n, c)
  <2>1. f # NoFile
    BY <1>11 DEF NoFile
  <2>. QED BY <1>16, <2>1 DEF Fine, Stands
<1>20. Counts(g, v, c)
  BY <1>7, <1>11, <1>16, <1>17 DEF Fine, Counts, c
<1>21. Rmmods(q, g, v, c, r)
  BY <1>7, <1>9, <1>11 DEF Rmmods, c
<1>22. Fine(q, g, v, n, c, r)
  BY <1>18, <1>19, <1>20, <1>21 DEF Fine
<1>23. Local(q)'
  BY <1>2, <1>8, <1>12, <1>22, LocalNext DEF v, n, c, Quiet
<1>24. \A s \in Procs : Local(s)'
  BY <1>15, <1>23
<1>. QED BY <1>13, <1>14, <1>24, LocalsNext

LEMMA NoCallType == NoCall \in Calls
  BY DEF Calls, NoCall

LEMMA ReturnsKeeps ==
  ASSUME TypeOK, Locals, NEW p \in Procs, Returns(p) \/ Dies(p) PROVE TypeOK' /\ Locals'
<1>1. /\ Fine(p, file[p], vma[p], at[p], call[p], call[Rmmod]) /\ file[p] \in Files
      /\ vma[p] \in Vmas /\ at[p] \in Nat /\ call[p] \in Calls /\ Rmmod # p
      /\ End(p) \in Nat /\ End(p) >= 2 /\ Maps(vma[p]) \in 0 .. 2
  BY LocalIs, Same, FileTypes, ScriptTable DEF TypeOK
<1>2. Inside(p) /\ Quiet /\ UNCHANGED <<pc, vma>> /\ call' = [call EXCEPT ![p] = NoCall]
  BY <1>1 DEF Returns, Dies, Quiet, others
<1>3. call[p].op \in {"open", "mmap", "fault", "read", "write", "release"}
  BY <1>1, <1>2 DEF Inside, Calls
<1>4. CASE Dies(p)
  <2>1. PICK n \in {Dead, End(p) + 1} : at' = [at EXCEPT ![p] = n]
    BY <1>1, <1>4 DEF Dies, End
  <2>2. Moves(p, file[p], vma[p], n, NoCall) /\ n \in Nat /\ n # 1
    BY <1>1, <1>2, <1>4, <2>1, Same DEF Moves, Dies, Dead
  <2>3. Goes(p, file[p], NoCall) /\ Rmmods(p, file[p], vma[p], NoCall, call[Rmmod])
    BY <1>1 DEF Fine, Goes, Rmmods, NoCall
  <2>4. Stands(p, file[p], vma[p], n, NoCall)
    BY <1>1, <2>1, <2>2 DEF Stands, NoCall, Dead
  <2>5. Counts(file[p], vma[p], NoCall)
    BY <1>1 DEF Fine, Counts, NoCall
  <2>6. Fine(p, file[p], vma[p], n, NoCall, call[Rmmod])
    BY <2>3, <2>4, <2>5 DEF Fine
  <2>. QED BY <1>1, <1>2, <2>2, <2>6, NoCallType, StepOf
<1>5. CASE Returns(p) /\ call[p].op # "release"
  <2>1. PICK n \in {at[p], at[p] + 1} : at' = [at EXCEPT ![p] = n]
                                       /\ (call[p].op # "fault" => n = at[p] + 1)
    BY <1>1, <1>5, Same DEF Returns
  <2>2. Moves(p, file[p], vma[p], n, NoCall) /\ n \in 2 .. End(p) + 1
    <3>1. Moves(p, file[p], vma[p], n, NoCall)
      BY <1>1, <1>2, <1>5, <2>1, Same DEF Moves, Returns
    <3>2. call[p].op = "open" => at[p] = 1
      BY <1>1 DEF Fine, Stands
    <3>3. call[p].op # "open" => at[p] \in 2 .. End(p)
      BY <1>1, <1>3, <1>5 DEF Fine, Stands
    <3>4. n = at[p] + 1 \/ (n = at[p] /\ call[p].op = "fault")
      BY <2>1
    <3>5. n \in 2 .. End(p) + 1
      BY <1>1, <3>2, <3>3, <3>4
    <3>. QED BY <3>1, <3>5
  <2>3. Goes(p, file[p], NoCall) /\ Rmmods(p, file[p], vma[p], NoCall, call[Rmmod])
    BY <1>1 DEF Fine, Goes, Rmmods, NoCall
  <2>4. Stands(p, file[p], vma[p], n, NoCall)
    BY <1>1, <2>2 DEF Stands, NoCall
  <2>5. Counts(file[p], vma[p], NoCall)
    BY <1>1 DEF Fine, Counts, NoCall
  <2>6. Fine(p, file[p], vma[p], n, NoCall, call[Rmmod]) /\ n \in Nat
    BY <1>1, <2>2, <2>3, <2>4, <2>5 DEF Fine
  <2>. QED BY <1>1, <1>2, <2>2, <2>6, NoCallType, StepOf
<1>6. CASE Returns(p) /\ call[p].op = "release"
  <2>. DEFINE n == at[p] + 1
  <2>1. at[p] = End(p) + 3 /\ vma[p][1] # "touched" /\ vma[p][2] # "touched" /\ call[Rmmod].on # p
    BY <1>1, <1>6 DEF Fine, Stands, Rmmods
  <2>2. Moves(p, NoFile, vma[p], n, NoCall)
    BY <1>1, <1>2, <1>6, Same DEF Moves, Returns
  <2>3. n \in Nat /\ n = End(p) + 4 /\ n # 1
    BY <1>1, <2>1
  <2>. HIDE DEF n
  <2>4. Goes(p, NoFile, NoCall) /\ Rmmods(p, NoFile, vma[p], NoCall, call[Rmmod])
    BY <2>1 DEF Goes, Rmmods, NoCall, NoFile
  <2>5. Stands(p, NoFile, vma[p], n, NoCall)
    BY <1>1, <2>1, <2>3 DEF Stands, NoCall
  <2>6. Counts(NoFile, vma[p], NoCall)
    BY <2>1 DEF Counts, NoCall, NoFile, Maps, Shown
  <2>7. Fine(p, NoFile, vma[p], n, NoCall, call[Rmmod])
    BY <2>4, <2>5, <2>6 DEF Fine
  <2>. QED BY <1>1, <1>2, <2>2, <2>3, <2>7, NoCallType, NoFileType, StepOf
<1>. QED BY <1>4, <1>5, <1>6

LEMMA RmmodLeaves ==
  ASSUME TypeOK, Locals, FrameInv, Returns(Rmmod) \/ Dies(Rmmod)
  PROVE  TypeOK' /\ Locals' /\ FrameInv'
<1>1. Inside(Rmmod) /\ Quiet /\ UNCHANGED <<file, vma, at, mem>>
      /\ call' = [call EXCEPT ![Rmmod] = NoCall]
  BY DEF Returns, Dies, Quiet, others
<1>2. InExit("release") /\ km \in Modules /\ PcType
  BY <1>1, RmmodIs DEF TypeOK, PcType
<1>3. To("hung") \/ UNCHANGED pc
  BY DEF Returns, Dies
<1>4. /\ call'[Rmmod] = NoCall /\ \A p \in Procs : call'[p] = call[p] /\ p # Rmmod
      /\ NoCall.on = Rmmod /\ NoCall.op = "none"
  BY <1>1, ThreadsAssumption DEF TypeOK, NoCall, Rmmod
<1>5. TypeOK'
  <2>1. call' \in [Procs \cup {Rmmod} -> Calls]
    BY <1>1, NoCallType DEF TypeOK
  <2>2. pc' \in [part : {"out", "init", "in", "exit", "hung"}, i : Nat \ {0}]
        /\ (pc'.part # "out" => load' # 0)
    BY <1>1, <1>2, <1>3 DEF TypeOK, To, InExit, Quiet
  <2>. QED BY <1>1, <2>1, <2>2 DEF TypeOK, Quiet
<1>6. FrameInv'
  <2>1. CASE To("hung")
    BY <1>1, <1>2, <2>1, FrameHung DEF Quiet
  <2>2. CASE UNCHANGED pc
    BY <1>1, <2>2, FrameStutter DEF Quiet
  <2>. QED BY <1>3, <2>1, <2>2
<1>7. ASSUME NEW l, NEW step \in {"drain", "release"}, Held(l, step) PROVE Held(l, step)'
  <2>1. CASE UNCHANGED pc
    BY <1>1, <1>7, <2>1 DEF Held, Failed, ExitTill, Quiet
  <2>2. CASE To("hung")
    <3>1. pc'.part = "hung" /\ pc.part = "exit" /\ ~ExitTill("drain")
      BY <1>2, <2>2, Jump, ExitOrder DEF InExit
    <3>. QED BY <1>1, <1>7, <3>1 DEF Held, Failed, Quiet
  <2>. QED BY <1>3, <2>1, <2>2
<1>8. ASSUME NEW p \in Procs PROVE Local(p)'
  <2>1. Local(p) /\ file'[p] = file[p] /\ vma'[p] = vma[p] /\ at'[p] = at[p] /\ call'[p] = call[p]
    BY <1>1, <1>4, LocalsAre DEF AllLocal
  <2>0. PICK l : l = file[p].load
    OBVIOUS
  <2>2. CallOf(p)'
    <3>1. /\ Held(l, "drain") => Held(l, "drain")'
          /\ Held(l, "release") => Held(l, "release")'
      BY <1>7
    <3>2. /\ Held(file[p].load, "drain") => Held(file[p].load, "drain")'
          /\ Held(file[p].load, "release") => Held(file[p].load, "release")'
      BY <2>0, <2>1, <3>1
    <3>. QED BY <1>4, <2>1, <3>2 DEF Local, CallOf, Inside
  <2>3. PlaceOf(p)'
    BY <1>1, <2>1 DEF Local, PlaceOf, Inside, End, Quiet
  <2>4. PageOf(p)'
    BY <1>4, <2>1 DEF Local, PageOf, Touched, Shown
  <2>. QED BY <2>2, <2>3, <2>4 DEF Local
<1>9. RmmodInv'
  BY <1>4 DEF RmmodInv
<1>. QED BY <1>5, <1>6, <1>8, <1>9, LocalsNext

-----------------------------------------------------------------------------
(* Every step. *)

LEMMA ProcessKeeps ==
  ASSUME TypeOK, Locals, NEW p \in Procs, process(p) PROVE TypeOK' /\ Locals'
  BY OpenKeeps, SyscallKeeps, GotKeeps, AccessKeeps, MunmapKeeps, CloseKeeps, AgainKeeps
  DEF process

LEMMA ProcessQuiet ==
  ASSUME NEW p, process(p) \/ FileStep(p)
  PROVE  UNCHANGED <<km, load, pc, mem, entry, dying, hook, handler, outcome>>
  BY DEF process, Open, Syscall, Got, Access, Munmap, Close, Kill, Again, FileStep, others

LEMMA UseParts == UseInv <=> TypeOK /\ FrameInv /\ Locals
  BY DEF UseInv, FrameInv, Locals

LEMMA UseInit == Init => UseInv
<1>. SUFFICES ASSUME Init PROVE UseInv
  OBVIOUS
<1>1. /\ file = [p \in Procs |-> NoFile] /\ vma = [p \in Procs |-> [k \in 1 .. 2 |-> "none"]]
      /\ at \in [Procs -> {1, Dead}] /\ call = [a \in Procs \cup {Rmmod} |-> NoCall]
      /\ program \in [Procs -> Programs] /\ Rmmod \notin Procs
  BY ThreadsAssumption DEF Init, Rmmod
<1>2. TypeOK
  <2>1. file \in [Procs -> Files] /\ call \in [Procs \cup {Rmmod} -> Calls]
    BY <1>1, NoFileType, NoCallType
  <2>2. vma \in [Procs -> [1 .. 2 -> {"none", "mapped", "touched"}]] /\ at \in [Procs -> Nat]
    BY <1>1 DEF Dead
  <2>3. /\ km \in Modules /\ load = 0 /\ 0 \in 0 .. MaxLoads /\ pc = [part |-> "out", i |-> 1]
        /\ entry = 0 /\ dying = 0 /\ hook \in Int /\ handler = 0
        /\ outcome \in [Loads -> {"none", "noMem", "noFile", "ok"}]
    BY LifecycleSizes DEF Init, Foreign
  <2>. QED BY <1>1, <2>1, <2>2, <2>3 DEF TypeOK
<1>3. FrameInv
  BY DEF Init, FrameInv, HandlerInv, EntryInv, Has, InitPast, ExitTill, Foreign
<1>4. ASSUME NEW p \in Procs PROVE Local(p)
  <2>1. /\ file[p] = NoFile /\ call[p] = NoCall /\ call[Rmmod] = NoCall /\ Rmmod # p
        /\ vma[p][1] = "none" /\ vma[p][2] = "none" /\ at[p] \in {0, 1}
        /\ End(p) \in Nat /\ End(p) >= 2
    BY <1>1, ScriptTable DEF Dead
  <2>2. CallOf(p)
    BY <2>1 DEF CallOf, Inside, NoCall, NoFile
  <2>3. PlaceOf(p)
    BY <2>1 DEF PlaceOf, Inside, NoCall
  <2>4. PageOf(p)
    BY <2>1 DEF PageOf, Touched, Shown, NoCall, NoFile
  <2>. QED BY <2>2, <2>3, <2>4 DEF Local
<1>5. RmmodInv
  BY <1>1 DEF RmmodInv
<1>. QED BY <1>2, <1>3, <1>4, <1>5, LocalsAre, UseParts DEF AllLocal

LEMMA UseNext == UseInv /\ [Next]_vars => UseInv'
<1>. SUFFICES ASSUME TypeOK, FrameInv, Locals, [Next]_vars PROVE TypeOK' /\ FrameInv' /\ Locals'
  <2>1. UseInv' <=> TypeOK' /\ FrameInv' /\ Locals'
    BY UseParts, PTL
  <2>. QED BY <2>1, UseParts
<1>1. CASE Kernel
  BY <1>1, KernelKeeps, FrameKernel
<1>2. CASE \E p \in Procs : process(p)
  BY <1>2, ProcessKeeps, ProcessQuiet, FrameStutter
<1>3. CASE \E p \in Procs : thread(p)
  <2>1. PICK p \in Procs : FileStep(p) \/ Returns(p) \/ Dies(p)
    BY <1>3 DEF thread
  <2>2. TypeOK' /\ Locals'
    BY <2>1, FileStepKeeps, ReturnsKeeps
  <2>3. UNCHANGED <<km, load, pc, mem, entry, dying, hook, handler, outcome>>
    BY <2>1, ProcessQuiet, ThreadsAssumption DEF Returns, Dies, others, Rmmod
  <2>. QED BY <2>2, <2>3, FrameStutter
<1>4. CASE thread(Rmmod)
  BY <1>4, RmmodStepKeeps, RmmodLeaves, ProcessQuiet, FrameStutter DEF thread
<1>5. CASE UNCHANGED vars
  <2>1. UNCHANGED <<km, program, load, pc, mem, entry, dying, hook, handler, file, vma, at, call,
                    outcome>>
    BY <1>5 DEF vars, procs
  <2>2. FrameInv'
    BY <2>1, FrameStutter
  <2>3. TypeOK'
    BY <2>1 DEF TypeOK
  <2>4. \A p \in Procs : Local(p)'
    BY <2>1, LocalKept, LocalsAre DEF AllLocal
  <2>5. RmmodInv'
    BY <2>1, LocalsAre DEF RmmodInv, InExit
  <2>. QED BY <2>2, <2>3, <2>4, <2>5, LocalsNext
<1>. QED BY <1>1, <1>2, <1>3, <1>4, <1>5 DEF Next, Kernel

-----------------------------------------------------------------------------
(* What it says of the two properties. *)

(* What a call or a file holds is there, unless it ended without a log file. *)
LEMMA HeldThere ==
  ASSUME FrameInv, NEW l, NEW step, Held(l, step)
  PROVE  Failed(l, "noFile") \/ Present(l)
<1>1. CASE l # 0 /\ l = entry
  <2>1. \A s : (InitPast(s) => pc.part = "init") /\ (ExitTill(s) => pc.part = "exit")
    BY DEF InitPast, ExitTill
  <2>. QED BY <1>1, <2>1 DEF FrameInv, EntryInv, Present
<1>2. CASE l # 0 /\ l = dying
  BY <1>2 DEF FrameInv, EntryInv, Present
<1>. QED BY <1>1, <1>2 DEF Held

LEMMA FailedGone ==
  ASSUME FrameInv, TypeOK, NEW l, Failed(l, "noFile") PROVE ~Present(l)
  BY DEF FrameInv, EntryInv, Failed, Present, TypeOK, Loads

LEMMA InUseThere == UseInv => MemoryOutlivesUse
<1>. SUFFICES ASSUME UseInv PROVE MemoryOutlivesUse
  OBVIOUS
<1>0. TypeOK /\ FrameInv /\ Locals /\ km \in Modules /\ PcType
  BY UseParts DEF TypeOK, PcType
<1>1. handler # 0 => <<handler, "ring", 0>> \in mem
  <2>1. Has("hook", "sync") => Has("ring", "free")
    BY <1>0, Order DEF Has
  <2>. QED BY <1>0, <2>1 DEF FrameInv, HandlerInv
<1>2. ASSUME NEW p \in Procs, call[p].op = "read", Troubles(p) = {}, Doing(p, {"cache"})
      PROVE  <<file[p].load, "ring", 0>> \in mem
  <2>1. Fine(p, file[p], vma[p], at[p], call[p], call[Rmmod])
    BY <1>0, LocalIs
  <2>2. call[p].on = p /\ Held(file[p].load, "drain") /\ Present(file[p].load)
    BY <1>2, <2>1, TroublesMean DEF Fine, Goes
  <2>3. file[p].load = load /\ ~Failed(load, "noFile")
    BY <1>0, <2>2, FailedGone DEF Present
  <2>4. km # Example
    <3>1. km.ops.read = <<"copy">> \/ km # Example
      BY <1>0, OpsTables
    <3>2. km.ops.read # <<"copy">>
      <4>1. Ops(p) = km.ops.read /\ call[p].i <= Len(Ops(p)) /\ Ops(p)[call[p].i] = "cache"
        BY <1>2 DEF Ops, Doing
      <4>2. call[p].i \in Nat \ {0}
        BY <1>0, FileTypes DEF Calls
      <4>3. SUFFICES ASSUME km.ops.read = <<"copy">> PROVE FALSE
        OBVIOUS
      <4>4. Len(Ops(p)) = 1 /\ Ops(p)[1] = "copy"
        BY <4>1, <4>3
      <4>. QED BY <4>1, <4>2, <4>4
    <3>. QED BY <3>1, <3>2
  <2>5. Has("ring", "free")
    BY <1>0, <2>2, <2>3, <2>4, Order DEF Held, Has, FrameInv, EntryInv
  <2>. QED BY <1>0, <2>3, <2>5 DEF FrameInv, HandlerInv
<1>3. ASSUME NEW p \in Procs, \E k \in 1 .. 2 : vma[p][k] = "touched" PROVE file[p].page > 0
  <2>1. Touched(p) > 0 /\ Touched(p) \in 0 .. 2 /\ file[p].page \in Int
    BY <1>0, <1>3, FileTypes
  <2>2. file[p].page >= Touched(p)
    BY <1>0 DEF Locals, PageInv, PageOf
  <2>. QED BY <2>1, <2>2
<1>. QED BY <1>1, <1>2, <1>3 DEF MemoryOutlivesUse

(* An entry that led into code that is gone was of a load without log file. *)
StrayInv == "strayEntry" \in oops => \E l \in Loads : Failed(l, "noFile")

LEMMA StrayDies ==
  ASSUME TypeOK, FrameInv, Locals, NEW a \in Procs \cup {Rmmod}, Inside(a),
         "strayEntry" \in Troubles(a)
  PROVE  Failed(file[call[a].on].load, "noFile")
<1>1. ~Present(file[call[a].on].load) /\ call[a].op # "fault"
  BY DEF Troubles
<1>2. CASE a \in Procs
  <2>1. Fine(a, file[a], vma[a], at[a], call[a], call[Rmmod]) /\ call[a] \in Calls
    BY <1>2, LocalIs, Same
  <2>2. Held(file[a].load, "drain") \/ Held(file[a].load, "release")
    BY <1>1, <2>1 DEF Fine, Goes, Inside, Calls
  <2>. QED BY <1>1, <2>1, <2>2, HeldThere DEF Fine, Goes, Inside
<1>3. CASE a = Rmmod
  <2>1. PICK q \in Procs : q = call[Rmmod].on
    BY <1>3, RmmodIs
  <2>2. Fine(q, file[q], vma[q], at[q], call[q], call[Rmmod])
    BY LocalIs
  <2>3. file[q].load = load /\ pc.part = "exit"
    BY <1>3, <2>1, <2>2, RmmodIs DEF Fine, Rmmods, InExit
  <2>. QED BY <1>1, <1>3, <2>1, <2>3 DEF Present
<1>. QED BY <1>2, <1>3

LEMMA StrayNext == UseInv /\ StrayInv /\ [Next]_vars => StrayInv'
<1>. SUFFICES ASSUME TypeOK, FrameInv, Locals, StrayInv, [Next]_vars PROVE StrayInv'
  BY UseParts
<1>1. CASE Kernel
  <2>1. \A l \in Loads : Failed(l, "noFile") => Failed(l, "noFile")'
    BY <1>1, FailedKept
  <2>2. CASE "strayEntry" \in oops \/ "strayEntry" \notin oops'
    BY <2>1, <2>2 DEF StrayInv, Loads
  <2>3. CASE ~("strayEntry" \in oops \/ "strayEntry" \notin oops')
    <3>1. ExitRelease
      BY <1>1, <2>3
      DEF Kernel, Insmod, myinit, InitKmalloc, InitLogs, InitEntry, registerRxHandlers, Loaded,
          RmmodStarts, myexit, unregisterRxHandlers, ExitWaits, ExitExport, ExitRemove,
          ExitFree, Unloaded, PacketIn, rxhPacketIn
    <3>2. Unreleased # {} /\ ~Present(dying) /\ InExit("release")
      BY <2>3, <3>1 DEF ExitRelease
    <3>3. dying # 0 /\ pc.part = "exit"
      BY <3>2 DEF Unreleased, InExit
    <3>4. PICK l : l = dying
      OBVIOUS
    <3>5. Failed(l, "noFile") \/ l = load
      BY <3>3, <3>4 DEF FrameInv, EntryInv
    <3>6. l # load
      BY <3>2, <3>3, <3>4 DEF Present
    <3>7. l \in Loads /\ Failed(l, "noFile")'
      BY <1>1, <3>5, <3>6, FailedKept DEF Failed
    <3>. QED BY <3>7 DEF StrayInv, Loads
  <2>. QED BY <2>2, <2>3
<1>2. CASE \E p \in Procs : process(p)
  <2>1. UNCHANGED outcome /\ oops' \subseteq oops \cup {"strayVma"}
    BY <1>2 DEF process, Open, Syscall, Got, Access, Munmap, Close, Kill, Again, others
  <2>. QED BY <2>1 DEF StrayInv, Failed
<1>3. CASE \E a \in Procs \cup {Rmmod} : thread(a)
  <2>1. PICK a \in Procs \cup {Rmmod} : thread(a)
    BY <1>3
  <2>2. UNCHANGED outcome
    BY <2>1 DEF thread, Dies, FileStep, Returns, others
  <2>3. CASE UNCHANGED oops
    BY <2>2, <2>3 DEF StrayInv, Failed
  <2>4. CASE Inside(a) /\ oops' = oops \cup Troubles(a)
    <3>1. "strayEntry" \in Troubles(a) => \E l \in Loads : Failed(l, "noFile")
      BY <2>4, StrayDies DEF Failed
    <3>. QED BY <2>2, <2>4, <3>1 DEF StrayInv, Failed
  <2>. QED BY <2>1, <2>3, <2>4 DEF thread, Dies, FileStep, Returns
<1>4. CASE UNCHANGED vars
  BY <1>4 DEF vars, StrayInv, Failed
<1>. QED BY <1>1, <1>2, <1>3, <1>4 DEF Next, Kernel

LEMMA StrayParts == UseInv /\ StrayInv => OnlyMappingsStray
<1>. SUFFICES ASSUME FrameInv, StrayInv PROVE OnlyMappingsStray
  BY UseParts
<1>1. \A s : ExitTill(s) => pc.part = "exit"
  BY DEF ExitTill
<1>2. \A s : InitPast(s) => pc.part = "init"
  BY DEF InitPast
<1>. QED BY <1>1, <1>2 DEF OnlyMappingsStray, StrayInv, FrameInv, HandlerInv, Has, Present

LEMMA UseSpec == Spec => []UseInv
  BY UseInit, UseNext, PTL DEF Spec

(* Neither the ring that the handler and read() use without a reference of  *)
(* their own, nor a page that a process has mapped, is freed while it is in *)
(* use, whatever rmmod and the processes do (lines 55, 176, 370, 405-411).  *)
THEOREM NothingFreedInUse == Spec => []MemoryOutlivesUse
  BY UseSpec, InUseThere, PTL

(* Only a mapping, or the entry of a load whose log file could not be       *)
(* created, leads a thread into a module that is gone; the packet handler   *)
(* never runs without it (lines 77-79, 382).                                *)
THEOREM OnlyMappingsRunStray == Spec => []OnlyMappingsStray
<1>1. Init => StrayInv
  BY DEF Init, StrayInv
<1>. QED BY <1>1, UseSpec, StrayNext, StrayParts, PTL DEF Spec

-----------------------------------------------------------------------------
(* The drafts' caches, which DraftCaches_proofs proves about: their half of *)
(* VersionsSpec behaves as DraftCaches does by itself.                      *)

P == INSTANCE DraftCaches_proofs

LEMMA DraftsInit == VersionsInit => P!Init
  BY DEF VersionsInit, D!Init, P!Init, D!Slots, P!Slots, D!LogUids, P!LogUids, D!NoRx, P!NoRx,
         D!NoRd, P!NoRd

LEMMA DraftsRx == D!rxhPacketIn => P!rxhPacketIn
  BY DEF D!rxhPacketIn, P!rxhPacketIn, D!RxEnter, P!RxEnter, D!RxStore, P!RxStore, D!RxTry,
         P!RxTry, D!RxOverflow, P!RxOverflow, D!RxAdvance, P!RxAdvance, D!RxStamp, P!RxStamp,
         D!Stamped, P!Stamped, D!cache, P!cache, D!past, P!past, D!Elements, P!Elements,
         D!First, P!First, D!Slots, P!Slots, D!LogUids, P!LogUids, D!NoRx, P!NoRx

LEMMA DraftsRead == D!read => P!read
  BY DEF D!read, P!read, D!ReadBegin, P!ReadBegin, D!ReadScan, P!ReadScan, D!ReadEmpty,
         P!ReadEmpty, D!ReadDeliver, P!ReadDeliver, D!ReadFault, P!ReadFault, D!ReadFree,
         P!ReadFree, D!Scanned, P!Scanned, D!Got, P!Got, D!Reach, P!Reach, D!Batch, P!Batch,
         D!cache, P!cache, D!past, P!past, D!Elements, P!Elements, D!First, P!First, D!Slots,
         P!Slots, D!NoRd, P!NoRd

LEMMA DraftsProcess == D!ProcessBatch => P!ProcessBatch
<1>1. D!LogUids = P!LogUids /\ D!NoRd = P!NoRd /\ D!cache = P!cache /\ D!past = P!past
  BY DEF D!LogUids, P!LogUids, D!NoRd, P!NoRd, D!cache, P!cache, D!past, P!past
<1>2. [u \in D!LogUids |-> IF \E p \in rd.got : uid[p] = u THEN Len(uid) ELSE user_log[u]] =
      [u \in P!LogUids |-> IF \E p \in rd.got : uid[p] = u THEN Len(uid) ELSE user_log[u]]
  BY <1>1
<1>3. UNCHANGED D!cache /\ UNCHANGED D!past <=> UNCHANGED P!cache /\ UNCHANGED P!past
  BY DEF D!cache, P!cache, D!past, P!past
<1>. QED BY <1>1, <1>2, <1>3 DEF D!ProcessBatch, P!ProcessBatch

LEMMA DraftsBehave == VersionsSpec => P!Spec
<1>1. D!Next => P!Next
  BY DraftsRx, DraftsRead, DraftsProcess DEF D!Next, P!Next
<1>2. [VersionsNext]_<<half, vars, cache_vars>> => [P!Next]_(P!vars)
  <2>1. UNCHANGED cache_vars => UNCHANGED P!vars
    BY DEF cache_vars, P!vars, P!cache, P!past
  <2>. QED BY <1>1, <2>1 DEF VersionsNext
<1>. QED BY <1>2, DraftsInit, PTL DEF VersionsSpec, P!Spec

LEMMA DraftsSizes == P!Sizes
  BY DraftsAssumption DEF D!Sizes, P!Sizes

(* legacy stamps a packet after it published it and looks its uid up in the *)
(* slot; still every stamp is of a stored packet, under its own uid and no  *)
(* later than the process's, or under 0 because the process was faster.     *)
THEOREM StampsAreOwn == VersionsSpec => []StampsOwn
<1>1. P!StampsOwn => StampsOwn
  BY DEF StampsOwn, D!StampsOwn, P!StampsOwn, D!LogUids, P!LogUids
<1>2. P!Spec => []P!StampsOwn
  BY DraftsSizes, P!StampsAreOwn
<1>. QED BY <1>1, <1>2, DraftsBehave, PTL

(* A packet that is neither cached nor read met a full cache, or a length   *)
(* of 0 in temp; legacy counts every one it loses.                          *)
THEOREM LossNeedsFull == VersionsSpec => []LostOnlyWhenFull
<1>1. P!LostOnlyWhenFull => LostOnlyWhenFull
  <2>1. P!Gone = D!Gone
    BY DEF D!Gone, P!Gone, D!Kept, P!Kept, D!Elements, P!Elements
  <2>2. \A S : P!Cardinality(S) = D!Cardinality(S)
    BY DEF P!Cardinality, D!Cardinality
  <2>. QED BY <2>1, <2>2 DEF LostOnlyWhenFull, D!LostOnlyWhenFull, P!LostOnlyWhenFull
<1>2. P!Spec => []P!LostOnlyWhenFull
  BY DraftsSizes, P!LossNeedsFull
<1>. QED BY <1>1, <1>2, DraftsBehave, PTL
=============================================================================
