----------------------------- MODULE KMLifecycle -----------------------------
(***************************************************************************)
(* Loading and unloading the kernel module while processes use its proc    *)
(* file: what insmod allocates, publishes and hooks, what rmmod takes      *)
(* back, and what open, mmap, the page fault, read, write, release and the *)
(* packet handler touch in between.  The repository has four modules that  *)
(* are built alike: the present one and, under legacy/, its predecessor    *)
(* (intercept-module.c), its first draft (temp-km.c) and the example that  *)
(* both grew from (mmap-k.c).  Each is a table of the steps of its init,   *)
(* its exit and its file operations; one interpreter runs any of them.     *)
(*                                                                         *)
(* What the kernel does around the module is taken from how it is called:  *)
(* a call to the proc file holds the entry, so remove_proc_entry waits for *)
(* calls that are inside and runs release for the files still open; a page *)
(* fault and the end of a mapping hold nothing; unregistering the handler  *)
(* waits for one that runs.  An open file keeps no module loaded.          *)
(***************************************************************************)
EXTENDS Integers, Sequences, FiniteSets

CONSTANTS
  Procs,        (* processes that may use the proc file                    *)
  NUM_LOG_BUFF,
  MaxLoads,     (* bound: insmods                                          *)
  Modules,      (* which of the modules, and                               *)
  Programs      (* which programs the processes run                        *)

ASSUME LifecycleSizes == NUM_LOG_BUFF \in Nat \ {0} /\ MaxLoads \in Nat

-----------------------------------------------------------------------------
(* The modules. *)

CurrentInit == <<"ring", "temp", "logs", "entry", "hook">>
CurrentExit == <<"unhook", "sync", "export", "dead", "drain", "release", "removed",
                 "free">>
CurrentOps == [open |-> <<"info", "page", "fill">>, mmap |-> <<"vma">>,
               fault |-> <<"get">>, read |-> <<"cache">>, write |-> <<"copy">>,
               release |-> <<"put", "kfree">>]
Current == [name |-> "current", init |-> CurrentInit, exit |-> CurrentExit, ops |-> CurrentOps,
            text |-> "asdf"]

LegacyInit == <<"ring", "temp", "logs", "entry", "hook">>
LegacyExit == <<"unhook", "sync", "export", "dead", "drain", "release", "removed",
                "free">>
LegacyOps == [open |-> <<"info", "page", "fill">>, mmap |-> <<"vma">>,
              fault |-> <<"get">>, read |-> <<"cache">>, write |-> <<"copy">>,
              release |-> <<"put", "kfree">>]
Legacy == [name |-> "legacy", init |-> LegacyInit, exit |-> LegacyExit, ops |-> LegacyOps, text |-> "asdf"]

(* The draft's open is commented out: private_data stays NULL.              *)
TempInit == <<"ring", "entry", "hook">>
TempExit == <<"unhook", "sync", "dead", "drain", "release", "removed", "free">>
TempOps == [open |-> <<>>, mmap |-> <<"vma">>, fault |-> <<"get">>, read |-> <<"cache">>,
            write |-> <<"copy">>, release |-> <<"put", "kfree">>]
Temp == [name |-> "temp", init |-> TempInit, exit |-> TempExit, ops |-> TempOps, text |-> "none"]

ExampleInit == <<"entry">>
ExampleExit == <<"dead", "drain", "release", "removed">>
ExampleOps == [open |-> <<"info", "page", "fill">>, mmap |-> <<"vma">>,
               fault |-> <<"get">>, read |-> <<"copy">>, write |-> <<"copy">>,
               release |-> <<"put", "kfree">>]
Example == [name |-> "example", init |-> ExampleInit, exit |-> ExampleExit, ops |-> ExampleOps,
            text |-> "0123456789qwertyuiop"]

ASSUME ThreadsAssumption == "rmmod" \notin Procs
ASSUME ModulesAssumption == Modules \subseteq {Current, Legacy, Temp, Example}

(* The programs, up to where they unmap and close.  "same" is an assertion  *)
(* on what a mapping shows, "got" one on what read returned.                *)
Step(do, k, text) == [do |-> do, k |-> k, text |-> text]
Demo(first, third) ==
  <<Step("open", 0, "none"), Step("mmap", 1, "none"), Step("mmap", 2, "none"),
    Step("same", 1, first), Step("same", 2, first),
    Step("store", 1, "qwer"), Step("same", 2, "qwer"),
    Step("read", 0, "none"), Step("got", 0, "qwer"), Step("write", 0, "zxcv"),
    Step("same", 1, third), Step("same", 2, third)>>
MmapU == Demo("asdf1", "zxcv1")
Original == Demo("asdf", "zxcv")
UserProcessing == <<Step("open", 0, "none"), Step("mmap", 1, "none"),
                    Step("read", 0, "none"), Step("read", 0, "none")>>
(* echo zxcv > /proc/intercept_mmap, by root.                               *)
Echo == <<Step("open", 0, "none"), Step("write", 0, "zxcv")>>
ASSUME ProgramsAssumption == Programs \subseteq {MmapU, Original, UserProcessing, Echo}
Leave == <<Step("munmap", 1, "none"), Step("munmap", 2, "none"), Step("close", 0, "none")>>

-----------------------------------------------------------------------------
VARIABLES
  km, program,      (* never change: the module; each process's steps      *)
  load,             (* number of the insmod that runs or was the last      *)
  pc,               (* insmod and rmmod: a part and a place in its table   *)
  mem,              (* what the loads have allocated                       *)
  entry, dying,     (* the load whose proc entry there is, is being removed *)
  hook, handler,    (* the load whose handler is registered, is running    *)
  file,             (* each process's file and the page behind it          *)
  vma,              (* its two mappings                                    *)
  at,               (* its place in its program, or Dead                   *)
  call,             (* the file operation that it, or rmmod, is in         *)
  pinned,           (* loads whose entry a call that died still holds      *)
  oops, outcome     (* history: why threads died; how the loads ended      *)

procs == <<file, vma, at>>
vars == <<km, program, load, pc, mem, entry, dying, hook, handler, procs, call, pinned,
          oops, outcome>>

Rmmod == "rmmod"
Foreign == -1          \* another driver's handler on the device
Dead == 0
Loads == 1 .. MaxLoads
NoCall == [op |-> "none", on |-> Rmmod, k |-> 0, i |-> 1]
NoFile == [load |-> 0, private |-> FALSE, info |-> "none", page |-> 0, text |-> "none",
           got |-> "none", released |-> FALSE]
Logs == 0 .. NUM_LOG_BUFF - 1

Init ==
  /\ km \in Modules /\ program \in [Procs -> Programs]
  /\ load = 0 /\ pc = [part |-> "out", i |-> 1]
  /\ mem = {} /\ entry = 0 /\ dying = 0 /\ hook \in {0, Foreign} /\ handler = 0
  /\ file = [p \in Procs |-> NoFile] /\ vma = [p \in Procs |-> [k \in 1 .. 2 |-> "none"]]
  /\ at \in [Procs -> {1, Dead}] /\ call = [a \in Procs \cup {Rmmod} |-> NoCall]
  /\ pinned = {} /\ oops = {} /\ outcome = [l \in Loads |-> "none"]

(* The code of load l is in memory.                                         *)
Present(l) == l = load /\ pc.part # "out"

-----------------------------------------------------------------------------
(* insmod and rmmod. *)

InInit(step) == pc.part = "init" /\ pc.i <= Len(km.init) /\ km.init[pc.i] = step
InExit(step) == pc.part = "exit" /\ pc.i <= Len(km.exit) /\ km.exit[pc.i] = step
Onward == pc' = [pc EXCEPT !.i = @ + 1]
To(part) == pc' = [part |-> part, i |-> 1]

Insmod ==
  /\ pc.part = "out" /\ load < MaxLoads
  /\ load' = load + 1 /\ To("init")
  /\ UNCHANGED <<km, program, mem, entry, dying, hook, handler, procs, call, pinned, oops,
                 outcome>>

(* kmalloc is not checked: memset(NULL) kills insmod, and the module can    *)
(* neither be used nor removed.                                             *)
InitKmalloc ==
  /\ InInit("ring") \/ InInit("temp")
  /\ \/ mem' = mem \cup {<<load, km.init[pc.i], 0>>} /\ Onward /\ UNCHANGED oops
     \/ oops' = oops \cup {"null"} /\ To("hung") /\ UNCHANGED mem
  /\ UNCHANGED <<km, program, load, entry, dying, hook, handler, procs, call, pinned, outcome>>

(* If __get_free_pages fails for buffer n, those before it are freed and    *)
(* insmod fails; ring and temp are not.                                     *)
FreesAllButLast(n) == IF n > 0 THEN {<<load, "log", n - 1>>} ELSE {}   \* a mutant
KeptOnFailure(n) == {}
InitLogs ==
  /\ InInit("logs")
  /\ \/ mem' = mem \cup {<<load, "log", n>> : n \in Logs} /\ Onward /\ UNCHANGED outcome
     \/ \E n \in Logs :
          /\ mem' = mem \cup KeptOnFailure(n)
          /\ outcome' = [outcome EXCEPT ![load] = "noMem"] /\ To("out")
  /\ UNCHANGED <<km, program, load, entry, dying, hook, handler, procs, call, pinned, oops>>

(* proc_create is not checked: it may fail, and does if the name is taken.  *)
InitEntry ==
  /\ InInit("entry") /\ Onward
  /\ entry' \in IF entry = 0 THEN {0, load} ELSE {entry}
  /\ UNCHANGED <<km, program, load, mem, dying, hook, handler, procs, call, pinned, oops,
                 outcome>>

(* Nor is netdev_rx_handler_register: it fails if there is a handler, and   *)
(* is not called if there is no ens33.                                      *)
registerRxHandlers ==
  /\ InInit("hook") /\ Onward
  /\ hook' \in IF hook = 0 THEN {0, load} ELSE {hook}
  /\ UNCHANGED <<km, program, load, mem, entry, dying, handler, procs, call, pinned, oops,
                 outcome>>

Loaded ==
  /\ pc.part = "init" /\ pc.i > Len(km.init) /\ To("in")
  /\ UNCHANGED <<km, program, load, mem, entry, dying, hook, handler, procs, call, pinned,
                 oops, outcome>>

myinit == InitKmalloc \/ InitLogs \/ InitEntry \/ registerRxHandlers \/ Loaded

RmmodStarts ==
  /\ pc.part = "in" /\ To("exit")
  /\ UNCHANGED <<km, program, load, mem, entry, dying, hook, handler, procs, call, pinned,
                 oops, outcome>>

(* Whoever's handler it is.                                                 *)
unregisterRxHandlers ==
  /\ InExit("unhook") /\ Onward /\ hook' = 0
  /\ UNCHANGED <<km, program, load, mem, entry, dying, handler, procs, call, pinned, oops,
                 outcome>>

DrainsNothing ==                                                \* a mutant
  /\ InExit("drain") \/ (InExit("sync") /\ handler = 0)
  /\ Onward
  /\ UNCHANGED <<km, program, load, mem, entry, dying, hook, handler, procs, call, pinned,
                 oops, outcome>>
ExitWaits ==
  /\ \/ InExit("sync") /\ handler = 0
     \/ InExit("drain") /\ dying \notin pinned
        /\ \A p \in Procs : call[p].op \in {"open", "read", "write", "mmap"} =>
             file[p].load # dying
  /\ Onward
  /\ UNCHANGED <<km, program, load, mem, entry, dying, hook, handler, procs, call, pinned,
                 oops, outcome>>

(* If the log file cannot be created, myexit returns at once.               *)
ExitExport ==
  /\ InExit("export")
  /\ \/ Onward /\ UNCHANGED outcome
     \/ To("out") /\ outcome' = [outcome EXCEPT ![load] = "noFile"]
  /\ UNCHANGED <<km, program, load, mem, entry, dying, hook, handler, procs, call, pinned,
                 oops>>

ExitRemove ==
  /\ InExit("dead") /\ Onward /\ dying' = entry /\ entry' = 0
  /\ UNCHANGED <<km, program, load, mem, hook, handler, procs, call, pinned, oops, outcome>>

(* release is run once for each file: by the process that closes it or,     *)
(* while it is still open, by rmmod.                                        *)
Unreleased == {p \in Procs : file[p].load = dying /\ dying # 0 /\ ~file[p].released}
Releasing == {a \in DOMAIN call : call[a].op = "release"}

ExitRelease ==
  /\ InExit("release") /\ Releasing = {}
  /\ \/ Unreleased = {} /\ Onward /\ UNCHANGED <<file, call, oops>>
     \/ /\ Unreleased # {} /\ Present(dying)
        /\ \E p \in Unreleased :
             /\ file' = [file EXCEPT ![p].released = TRUE]
             /\ call' = [call EXCEPT ![Rmmod] = [op |-> "release", on |-> p, k |-> 0, i |-> 1]]
        /\ UNCHANGED <<pc, oops>>
     \/ /\ Unreleased # {} /\ ~Present(dying)
        /\ oops' = oops \cup {"strayEntry"} /\ To("hung") /\ UNCHANGED <<file, call>>
  /\ UNCHANGED <<km, program, load, mem, entry, dying, hook, handler, vma, at, pinned, outcome>>

ExitFree ==
  /\ \/ InExit("removed") /\ dying' = 0 /\ UNCHANGED mem
     \/ InExit("free") /\ mem' = {m \in mem : m[1] # load} /\ UNCHANGED dying
  /\ Onward
  /\ UNCHANGED <<km, program, load, entry, hook, handler, procs, call, pinned, oops, outcome>>

Unloaded ==
  /\ pc.part = "exit" /\ pc.i > Len(km.exit) /\ To("out")
  /\ outcome' = [outcome EXCEPT ![load] = "ok"]
  /\ UNCHANGED <<km, program, load, mem, entry, dying, hook, handler, procs, call, pinned,
                 oops>>

myexit == unregisterRxHandlers \/ ExitWaits \/ ExitExport \/ ExitRemove \/ ExitRelease
            \/ ExitFree \/ Unloaded

(* The handler, as far as load and unload see it.                           *)
PacketIn ==
  /\ handler = 0 /\ hook > 0 /\ handler' = hook
  /\ UNCHANGED <<km, program, load, pc, mem, entry, dying, hook, procs, call, pinned, oops,
                 outcome>>
WaitsForReader ==                                               \* a mutant
  /\ handler # 0 /\ (\E p \in Procs : call[p].op = "read") /\ handler' = 0
  /\ UNCHANGED <<km, program, load, pc, mem, entry, dying, hook, procs, call, pinned, oops,
                 outcome>>
rxhPacketIn ==
  /\ handler # 0 /\ handler' = 0
  /\ UNCHANGED <<km, program, load, pc, mem, entry, dying, hook, procs, call, pinned, oops,
                 outcome>>

-----------------------------------------------------------------------------
(* The file operations.  A thread a is in operation call[a]; each step of   *)
(* its table is one action.                                                 *)

others == <<km, program, load, mem, entry, dying, hook, handler, outcome>>

Ops(a) == km.ops[call[a].op]
Inside(a) == call[a].op # "none"
Doing(a, steps) == call[a].i <= Len(Ops(a)) /\ Ops(a)[call[a].i] \in steps

(* Why thread a dies at its next step: the code is gone (the entry or the   *)
(* mapping still led there), or the step follows a pointer that is NULL or  *)
(* freed: private_data, info->data or the mapping's copy of private_data.   *)
Troubles(a) ==
  LET f == file[call[a].on]
  IN {why \in {"strayVma", "strayEntry", "null", "freed"} :
        CASE why = "strayVma" -> ~Present(f.load) /\ call[a].op = "fault"
          [] why = "strayEntry" -> ~Present(f.load) /\ call[a].op # "fault"
          [] why = "null" -> \/ Doing(a, {"page", "get"}) /\ f.info = "none"
                             \/ Doing(a, {"fill"}) /\ f.page = 0
                             \/ Doing(a, {"copy", "put", "kfree"}) /\ ~f.private
          [] why = "freed" -> Doing(a, {"get"}) /\ f.info = "freed"}

(* A process that dies leaves its mappings and its file, unless it was in   *)
(* release; the entry that it had entered stays held (a fault enters none). *)
Dies(a) ==
  /\ Inside(a) /\ Troubles(a) # {}
  /\ oops' = oops \cup Troubles(a)
  /\ call' = [call EXCEPT ![a] = NoCall]
  /\ IF a = Rmmod THEN To("hung") /\ UNCHANGED at
     ELSE /\ at' = [at EXCEPT ![a] = IF call[a].op = "release" THEN Dead
                                     ELSE Len(program[a]) + 1]
          /\ UNCHANGED pc
  /\ pinned' = pinned \cup IF call[a].op = "fault" THEN {} ELSE {file[call[a].on].load}
  /\ UNCHANGED <<others, file, vma>>

(* What a step leaves of file f: kmalloc and get_zeroed_page may fail.      *)
NoGetPage(f) == f                                               \* a mutant
get_page(f) == [f EXCEPT !.page = @ + 1]
After(f, step, op, text) ==
  CASE step = "info" -> {f, [f EXCEPT !.info = "valid"]}
    [] step = "page" -> {f, [f EXCEPT !.page = 1]}
    [] step = "fill" -> {[f EXCEPT !.private = TRUE, !.text = km.text]}
    [] step = "copy" /\ op = "write" -> {[f EXCEPT !.text = text]}
    [] step = "copy" /\ op = "read" -> {[f EXCEPT !.got = f.text]}
    [] step = "cache" -> {[f EXCEPT !.got = "packets"]}
    [] step = "get" -> {get_page(f)}
    [] step = "put" -> {[f EXCEPT !.page = @ - 1]}
    [] step = "kfree" -> {[f EXCEPT !.info = "freed", !.private = FALSE]}
    [] step = "vma" -> {f}

FileStep(a) ==
  /\ Inside(a) /\ Troubles(a) = {} /\ call[a].i <= Len(Ops(a))
  /\ LET p == call[a].on
         step == Ops(a)[call[a].i]
         text == IF call[a].op = "write" THEN program[p][at[p]].text ELSE "none"
     IN /\ \E f \in After(file[p], step, call[a].op, text) : file' = [file EXCEPT ![p] = f]
        /\ vma' = IF step \in {"vma", "get"}
                  THEN [vma EXCEPT ![p][call[a].k] =
                          IF step = "vma" THEN "mapped" ELSE "touched"]
                  ELSE vma
  /\ call' = [call EXCEPT ![a].i = @ + 1]
  /\ UNCHANGED <<others, pc, at, pinned, oops>>

Returns(a) ==
  /\ Inside(a) /\ Troubles(a) = {} /\ call[a].i > Len(Ops(a))
  /\ call' = [call EXCEPT ![a] = NoCall]
  /\ at' = IF a = Rmmod \/ call[a].op = "fault" THEN at ELSE [at EXCEPT ![a] = @ + 1]
  /\ file' = IF a # Rmmod /\ call[a].op = "release" THEN [file EXCEPT ![a] = NoFile] ELSE file
  /\ UNCHANGED <<others, pc, vma, pinned, oops>>

-----------------------------------------------------------------------------
(* The processes. *)

Script(p) == program[p] \o Leave
Next_(p, do) ==
  /\ ~Inside(p) /\ at[p] \in 1 .. Len(Script(p)) /\ Script(p)[at[p]].do \in do
Arg(p) == Script(p)[at[p]]
Live(p) == file[p].load = entry /\ entry # 0
Enter(p, op) == call' = [call EXCEPT ![p] = [op |-> op, on |-> p, k |-> Arg(p).k, i |-> 1]]
Advance(p) == at' = [at EXCEPT ![p] = @ + 1]
Abort(p) == at' = [at EXCEPT ![p] = Len(program[p]) + 1]

Open(p) ==
  /\ Next_(p, {"open"})
  /\ \/ entry # 0 /\ Enter(p, "open") /\ UNCHANGED at
        /\ file' = [file EXCEPT ![p] = [NoFile EXCEPT !.load = entry]]
     \/ entry = 0 /\ Abort(p) /\ UNCHANGED <<file, call>>
  /\ UNCHANGED <<others, pc, vma, pinned, oops>>

(* On an entry that is gone mmap fails, which the programs assert it does   *)
(* not, and so do read and write, which they do not look at.                *)
Syscall(p) ==
  /\ Next_(p, {"mmap", "read", "write"})
  /\ \/ Live(p) /\ Enter(p, Arg(p).do) /\ UNCHANGED at
     \/ ~Live(p) /\ (IF Arg(p).do = "mmap" THEN Abort(p) ELSE Advance(p)) /\ UNCHANGED call
  /\ UNCHANGED <<others, pc, file, vma, pinned, oops>>

Got(p) ==
  /\ Next_(p, {"got"})
  /\ IF file[p].got = Arg(p).text THEN Advance(p) ELSE Abort(p)
  /\ UNCHANGED <<others, pc, file, vma, call, pinned, oops>>

(* The first access of a mapping faults.                                    *)
Access(p) ==
  /\ Next_(p, {"same", "store"})
  /\ LET touched == vma[p][Arg(p).k] = "touched"
     IN \/ ~touched /\ Enter(p, "fault") /\ UNCHANGED <<file, at>>
        \/ /\ touched /\ Arg(p).do = "same" /\ UNCHANGED <<file, call>>
           /\ IF file[p].text = Arg(p).text THEN Advance(p) ELSE Abort(p)
        \/ /\ touched /\ Arg(p).do = "store" /\ UNCHANGED call /\ Advance(p)
           /\ file' = [file EXCEPT ![p].text = Arg(p).text]
  /\ UNCHANGED <<others, pc, vma, pinned, oops>>

(* The page is let go, then vm_close is called.                             *)
Munmap(p) ==
  /\ Next_(p, {"munmap"})
  /\ LET v == vma[p][Arg(p).k]
         stray == v # "none" /\ ~Present(file[p].load)
     IN /\ file' = IF v = "touched" THEN [file EXCEPT ![p].page = @ - 1] ELSE file
        /\ vma' = [vma EXCEPT ![p][Arg(p).k] = "none"]
        /\ oops' = oops \cup IF stray THEN {"strayVma"} ELSE {}
        /\ IF stray THEN at' = [at EXCEPT ![p] = Dead] ELSE Advance(p)
  /\ UNCHANGED <<others, pc, call, pinned>>

(* release, unless rmmod has run it.                                        *)
Close(p) ==
  /\ Next_(p, {"close"}) /\ call[Rmmod].on # p
  /\ \/ /\ file[p].load = 0 \/ file[p].released
        /\ file' = [file EXCEPT ![p] = NoFile] /\ Advance(p) /\ UNCHANGED call
     \/ /\ file[p].load # 0 /\ ~file[p].released
        /\ file' = [file EXCEPT ![p].released = TRUE] /\ Enter(p, "release") /\ UNCHANGED at
  /\ UNCHANGED <<others, pc, vma, pinned, oops>>

(* A process may be killed, and another may run its program anew.           *)
Kill(p) ==
  /\ ~Inside(p) /\ at[p] \in 2 .. Len(program[p]) /\ Abort(p)
  /\ UNCHANGED <<others, pc, file, vma, call, pinned, oops>>
Again(p) ==
  /\ at[p] > Len(Script(p)) /\ at' = [at EXCEPT ![p] = 1]
  /\ UNCHANGED <<others, pc, file, vma, call, pinned, oops>>

process(p) == Open(p) \/ Syscall(p) \/ Got(p) \/ Access(p) \/ Munmap(p) \/ Close(p)
                \/ Kill(p) \/ Again(p)
thread(a) == Dies(a) \/ FileStep(a) \/ Returns(a)

Next ==
  \/ Insmod \/ myinit \/ RmmodStarts \/ myexit \/ PacketIn \/ rxhPacketIn
  \/ \E p \in Procs : process(p)
  \/ \E a \in Procs \cup {Rmmod} : thread(a)

Spec == Init /\ [][Next]_vars

(* What has entered the kernel goes on: rmmod, the handler and the calls.   *)
FairSpec ==
  /\ Spec /\ WF_vars(myexit) /\ WF_vars(rxhPacketIn)
  /\ \A a \in Procs \cup {Rmmod} : WF_vars(thread(a))

-----------------------------------------------------------------------------
(* Properties. *)

Failed(l, how) == l \in Loads /\ outcome[l] = how

(* The handler and read() use the ring and buff_temp without any reference  *)
(* of their own, and a page that a process has mapped belongs to a struct   *)
(* that release frees: none of them is freed while it is in use, whatever   *)
(* rmmod is doing (lines 55, 176, 370, 405-411).                            *)
MemoryOutlivesUse ==
  /\ handler # 0 => <<handler, "ring", 0>> \in mem
  /\ \A p \in Procs :
       /\ call[p].op = "read" /\ Troubles(p) = {} /\ Doing(p, {"cache"}) =>
            <<file[p].load, "ring", 0>> \in mem
       /\ (\E k \in 1 .. 2 : vma[p][k] = "touched") => file[p].page > 0

(* Nothing of a load outlives it, except what two returns leave behind:     *)
(* ring and temp when a log buffer cannot be had (line 351), everything     *)
(* when the log file cannot be created (line 382).                          *)
LeftBehind(l) == {m \in mem : m[1] = l}
Explained(l) ==
  \/ LeftBehind(l) = {}
  \/ Failed(l, "noFile")
  \/ Failed(l, "noMem") /\ LeftBehind(l) = {<<l, "ring", 0>>, <<l, "temp", 0>>}
LeaksExplained == \A l \in Loads : ~Present(l) => Explained(l)

(* The same as an invariant that every step keeps: a load that is not       *)
(* present is explained, one to come has nothing, and the present one has   *)
(* ring and temp when it comes to the log buffers, and nothing at its end.  *)
LeaksInv ==
  /\ km \in Modules /\ load \in 0 .. MaxLoads
  /\ pc \in [part : {"out", "init", "in", "exit", "hung"}, i : Nat \ {0}]
  /\ outcome \in [Loads -> {"none", "noMem", "noFile", "ok"}]
  /\ \A l \in Loads : l > load => LeftBehind(l) = {}
  /\ \A l \in Loads : l < load \/ pc.part = "out" => Explained(l)
  /\ pc.part \in {"init", "in", "exit"} => load \in Loads
  /\ km = Example => LeftBehind(load) = {}
  /\ pc.part = "init" /\ km \in {Current, Legacy} =>
       /\ pc.i = 1 => LeftBehind(load) = {}
       /\ pc.i = 2 => LeftBehind(load) = {<<load, "ring", 0>>}
       /\ pc.i = 3 => LeftBehind(load) = {<<load, "ring", 0>>, <<load, "temp", 0>>}
  /\ pc.part = "exit" /\ pc.i > Len(km.exit) => LeftBehind(load) = {}

(* A thread runs into code or memory that rmmod has taken away only through *)
(* a mapping, which holds neither the module nor the struct of its file     *)
(* (lines 77-79), or through the entry of a load whose log file could not   *)
(* be created (line 382); and the packet handler never does.                *)
OnlyMappingsStray ==
  /\ "strayEntry" \in oops => \E l \in Loads : Failed(l, "noFile")
  /\ handler # 0 => Present(handler)

(* Why these two hold.  What myinit takes at one step of its table myexit   *)
(* gives back at one of its own; in between the load has it.                *)
InitPast(step) == pc.part = "init" /\ \E i \in 1 .. pc.i - 1 : km.init[i] = step
ExitTill(step) == pc.part = "exit" /\ \A i \in 1 .. pc.i - 1 : km.exit[i] # step
Has(take, give) == km # Example /\ (InitPast(take) \/ pc.part = "in" \/ ExitTill(give))

(* The handler is registered and runs only while the ring is there: it is   *)
(* hooked last and waited for first.                                        *)
HandlerInv ==
  /\ Has("ring", "free") => <<load, "ring", 0>> \in mem
  /\ hook > 0 => hook = load /\ Has("hook", "unhook")
  /\ handler # 0 => handler = load /\ Has("hook", "sync")

(* The entry, and the one being removed, are the present load's, or those   *)
(* of one that ended without a log file.                                    *)
EntryInv ==
  /\ \A l \in Loads : outcome[l] # "none" => l < load \/ (l = load /\ pc.part = "out")
  /\ entry # 0 => \/ Failed(entry, "noFile")
                  \/ entry = load /\ (InitPast("entry") \/ pc.part = "in" \/ ExitTill("dead"))
  /\ dying # 0 => /\ Failed(dying, "noFile") \/ dying = load
                  /\ \/ pc.part = "hung"
                     \/ pc.part = "exit" /\ ~ExitTill("dead") /\ ExitTill("removed")

(* A call is inside the entry that it entered until rmmod has waited for    *)
(* it; a file is released by its process or by rmmod, by one of them only.  *)
Held(l, step) ==
  \/ Failed(l, "noFile")
  \/ l # 0 /\ l = entry
  \/ l # 0 /\ l = dying /\ (ExitTill(step) \/ (step = "release" /\ pc.part = "hung"))
CallOf(p) ==
  /\ Inside(p) => call[p].on = p
  /\ call[p].op \in {"mmap", "fault"} => call[p].k \in 1 .. 2
  /\ call[p].op \in {"open", "read", "write", "mmap"} => Held(file[p].load, "drain")
  /\ call[p].op = "release" => Held(file[p].load, "release") /\ file[p].released
  /\ file[p].load # 0 /\ ~file[p].released => Held(file[p].load, "release")
  /\ call[Rmmod].on = p => call[p].op # "release" /\ file[p].released /\ file[p].load = load
CallInv ==
  /\ \A p \in Procs : CallOf(p)
  /\ \/ call[Rmmod] = NoCall
     \/ call[Rmmod].op = "release" /\ call[Rmmod].on \in Procs /\ InExit("release")

(* Where a process is in its program when it is in a call, and when it has  *)
(* no file and no page mapped.                                              *)
End(p) == Len(program[p])
PlaceOf(p) ==
  /\ call[p].op = "open" => at[p] = 1
  /\ call[p].op \in {"read", "write", "mmap", "fault"} => at[p] \in 2 .. End(p)
  /\ call[p].op = "release" => at[p] = End(p) + 3
  /\ (at[p] = 1 /\ ~Inside(p)) \/ at[p] > End(p) + 3 => file[p] = NoFile
  /\ at[p] = 1 \/ at[p] > End(p) + 1 => vma[p][1] # "touched"
  /\ at[p] = 1 \/ at[p] > End(p) + 2 => vma[p][2] # "touched"
PlaceInv == \A p \in Procs : PlaceOf(p)

(* A page is counted once for each mapping that has it and, until release   *)
(* has put it, once for its struct.                                         *)
Shown(v) == IF v = "touched" THEN 1 ELSE 0
Touched(p) == Shown(vma[p][1]) + Shown(vma[p][2])
PageOf(p) ==
  /\ file[p].page >= Touched(p)
  /\ file[p].private /\ ~file[p].released => file[p].page > Touched(p)
  /\ \A a \in {p, Rmmod} :
       call[a].op = "release" /\ call[a].on = p /\ call[a].i = 1 /\ file[p].private =>
         file[p].page > Touched(p)
  /\ call[p].op = "fault" /\ call[p].i = 1 => vma[p][call[p].k] # "touched"
PageInv == \A p \in Procs : PageOf(p)

Texts == {"none", "asdf", "asdf1", "0123456789qwertyuiop", "qwer", "zxcv", "zxcv1", "packets"}
Calls == [op : {"none", "open", "mmap", "fault", "read", "write", "release"},
          on : Procs \cup {Rmmod}, k : 0 .. 2, i : Nat \ {0}]
Files == [load : 0 .. MaxLoads, private : BOOLEAN, info : {"none", "valid", "freed"},
          page : Int, text : Texts, got : Texts, released : BOOLEAN]
TypeOK ==
  /\ km \in Modules /\ program \in [Procs -> Programs] /\ load \in 0 .. MaxLoads
  /\ pc \in [part : {"out", "init", "in", "exit", "hung"}, i : Nat \ {0}]
  /\ pc.part # "out" => load # 0
  /\ entry \in 0 .. MaxLoads /\ dying \in 0 .. MaxLoads
  /\ hook \in Int /\ handler \in 0 .. MaxLoads
  /\ file \in [Procs -> Files] /\ vma \in [Procs -> [1 .. 2 -> {"none", "mapped", "touched"}]]
  /\ at \in [Procs -> Nat] /\ call \in [Procs \cup {Rmmod} -> Calls]
  /\ outcome \in [Loads -> {"none", "noMem", "noFile", "ok"}]

UseInv == TypeOK /\ HandlerInv /\ EntryInv /\ CallInv /\ PlaceInv /\ PageInv

(* rmmod ends, however many processes have the file open or are inside a    *)
(* call, unless a call or insmod died (on a pointer nobody checked).        *)
RmmodEnds == pc.part = "exit" ~> (pc.part # "exit" \/ pinned # {})
=============================================================================
