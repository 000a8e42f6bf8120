# A verification project for mymodule

The repository measures how long a UDP packet takes from the network driver to
a user-space process over three paths: a kernel module with a packet cache, an
eBPF/XDP program with array maps, and an XDP program with an AF_XDP socket. A
socket server on the same machine is the baseline. Each side of a path stamps
every packet in a log under the packet's `uid`, the logs are written to text
files, and scripts compute latencies and losses from them. What the figures are
worth depends on code without locks: a ring whose slots change hands through one
word, maps that are read while they are written, frames that pass through two
rings. That is what is modelled here.

All paths below are relative to `src/`.

## 1. Inventory

| Component | State | Operations | Talks to |
|---|---|---|---|
| **Packet cache** of the kernel module (`kernel_module/intercept-module.c`) | ring `buff_from_here` with `status[]` and `current_index`; `buff_temp`; `count_pkt`, `count_pkt_overflow`; `log_buffs` | `rxhPacketIn` (softirq), `read` (process), `mmap`/`open`/`write`/`release`, `myinit`, `myexit` | driver (rx handler), process (proc file), log file |
| **Processing** of its packets (`kernel_module/user-processing.c`) | `buff_read`, `log_buffs`, `keep_running` | poll with `pread`, stamp, signal handler, export | proc file, log file |
| **eBPF measurement** (`__eBPF_measure/ebpf_measure_{kern,user}.c`) | maps `uid_timestamps`, `pkt_payload`, `xdp_stats_map`; `next_uid`, `log_buffs`, `global_exit` | `xdp_sock_prog` on every CPU, `fetch_and_process_packet`, export of both logs, detach | each other, through the maps |
| **XDP measurement** (`__XDP_measure/xdp_measure_{kern,user}.c`) | maps `uid_timestamps`, `xdp_stats_map`; the fill and receive rings; the stack of free frames; counters, logs | `xdp_sock_prog`, `handle_receive_packets`, export, detach; a statistics thread | kernel (AF_XDP rings), maps |
| **Socket server** (`helper/server.c`) | socket queue, `log_buffs`, `keep_running` | receive, stamp, Ctrl+Z, export | client, through the kernel |
| **Test client** (`helper/client.c`) | `uid` | number and send | the network |
| **Load and unload**, **proc file** (`kernel_module/intercept-module.c`) | what insmod allocated; the proc entry; the registered handler; the struct, page and mappings behind each open file | `myinit`, `myexit`, `open`, `mmap`, `vm_fault`, `write`, `release`, `vm_close` | kernel (procfs, rx handler), processes |
| **Measuring programs' frame** (`main` of `*_measure_user.c`) | options, attached program, `global_exit`, `stats` | options, set-up, loop, `stats_poll`, cleanup | device, signals |
| **Sizes** (`common.h`) | – | `MAX_LOG_ENTRY`, `NUM_LOG_BUFF`, `MAX_PKT`, `PKTS_PER_BUFFER` | all |
| **Log analysis** (`scripts/*.py`) | `logs_zeroed`, `count_diffs`, `diffs_neg`, median, 99%, ranges | read logs, count, halve, figures, titles; plot | log files |
| **Earlier versions** (`legacy/`, `__*_user.c`, `*copy*`) | as their successors | a handler that stamps late, a cache without a ring, the same module frame and program frame | as their successors |
| `lkmc/`, Makefiles, shell scripts | – | – | not part of a measurement |

### Where it is hard, and what makes each part correct

* **Packet cache.** Handler and `read` share the ring without a lock. Correct
  means: a packet that was taken in is not lost without being counted; it is not
  delivered twice, nor made of two packets; a slot is freed only after its packet was
  delivered; a packet is discarded only when the ring is full; a batch that is
  not full contains everything that was there; the counters add up; everything
  cached reaches the process; the log has all the process receives. Hard: the
  order of payload and `status[]`, the snapshot of `current_index`, the wrapping
  ring, one static `buff_temp`, a `copy_to_user` that stops half way, perhaps
  inside a packet, CPUs that run the handler at the same time.
* **eBPF maps.** `bpf_map_lookup_elem` copies while `bpf_map_update_elem` writes.
  Correct means: the kernel's stamp exists and is earlier wherever the process
  has one, in the files too although one is written while the program runs; the
  process's log is a prefix of what arrived; a torn payload does no more harm
  than to stamp uid 0 again; the process does not hang while the next uid is
  there.
* **XDP frames.** Each side knows the other's ring index only late. Correct
  means: every frame is in one place; what is posted are frames; the socket never
  goes deaf; the totals agree.
* **A whole measurement.** Correct means: the files fit together (no negative
  latency), the difference of the "Zeroed" figures is the loss, a server that
  ended by itself has a complete file, and it does end.
* **Load and unload.** `rmmod` may come while the handler runs, while a process is
  inside `read`, and while files are open and mapped; every allocation may fail;
  two early returns skip what follows. Correct means: nothing is freed while it
  is in use, nothing outlives its load without a reason that can be named,
  nobody runs into unloaded code except where the code really lets him, and
  `rmmod` ends.
* **Programs around the measurement.** `exit` on every failure, a flag that a
  signal sets between a test and a `poll` without timeout, a record that one
  thread prints while another counts in it, logs that are written before the
  program detaches. Correct means: an XDP program stays behind only for a reason
  that can be named (a kill, a failure after the attaching, a log file that cannot
  be opened, a detach that fails), Ctrl+C ends the loop, no packet is shown twice.
* **Log analysis.** Zero entries are counted once per pair and then halved;
  counts are cumulated to a median, with 0 as "not set" and `int()` for half of an
  odd number. Correct means: the figures are those of the packets, of a rank that
  can be stated.

All hazards, with the line where each bites and the property that watches it,
are in `PROJECT.json`.

## 2. Modules

```
LogBuffs ──┬── KMCache ── KMCacheSafety ──┬── MCKMCache
           │        INSTANCE PacketStore  └── KMCache_proofs
           │        (refinement)
           ├── LogBuffs_proofs   (extended by the proofs of the three users of the log)
           ├── EbpfMaps ──┬── MCEbpfMaps
           │              └── EbpfMaps_proofs
           ├── SocketServer ─────┐
           ├── UserProcessing ───┤ INSTANCE
           │   PacketStore ──────┤
           └── KMExperiment ◄────┘ ── KMExperimentSafety ──┬── MCKMExperiment
                                                           └── KMExperiment_proofs
XskFrames ── XskFramesSafety ──┬── MCXskFrames
                               └── XskFrames_proofs
KMLifecycle ── KMVersions ────── KMVersions_proofs
   INSTANCE DraftCaches ┘            └ INSTANCE DraftCaches_proofs
DraftCaches ── DraftCaches_proofs
MeasureSetup ─┬── Measuring ── Measuring_proofs
LogAnalysis ──┘
```

A module `X_proofs` holds the theorems about `X` and the lemmas they rest on. The
inductive invariants are in the modules they are about, where TLC can check them
too.

* **`LogBuffs`** – the two-level log (`log_buffs[uid / n][uid % n]`) that the
  module, the two pollers and the server repeat word for word, with its guard.
* **`KMCache`** – `rxhPacketIn` (actions `Rx…`) and `read` (actions `Read…`), one
  action per access to shared memory. `rx[c]` holds the locals of the handler on
  CPU `c`, `rd[r]` those of the call by reader `r`; `pc` is the place in the
  source. A payload is two halves, so that a copy in progress is visible; a
  half's value is the number of the packet it belongs to. The number is also the
  packet's arrival time. `ReadFault` is `copy_to_user` failing (`Stops`)
  after any number of entries, and perhaps after the half of the next one that has
  the uid: the process, which is told nothing, takes that half for a packet (the
  packets in `halved`). If the copy stops earlier in an entry, `type` or
  `created_time` is still 0 there and the process rejects it, so nothing is
  handed over.
* **`PacketStore`** – what the cache promises its reader, without ring, slots or
  scan: a bounded set; full means dropped; a batch that is not full is complete;
  each packet at most once. The order is *not* promised: the scan starts at the
  head of the ring and the ring has holes, so packets may overtake each other,
  which is harmless since they carry their `uid`.
* **`KMCacheSafety`** – the properties of the cache, the refinement mapping to
  `PacketStore`, and the inductive invariants of the proofs.
* **`EbpfMaps`** – the XDP program per CPU (enter, stamp, copy in three words,
  count) and the process (fetch in three words, process or not, export entry by
  entry, detach).
* **`XskFrames`**, **`XskFramesSafety`** – the kernel's side (program, redirect,
  frames held between the rings, drops) and the process's (peek, restock, process
  each packet, release, export, detach). A ring is a sequence; the cached indices
  of `xsk.h` are `fq_free` and `rx_known`. Parts of `libbpf` and of the kernel
  are modelled from how the code uses them (marked external in `PROJECT.json`).
* **`SocketServer`**, **`UserProcessing`** – the two processes by themselves.
* **`KMExperiment`**, **`KMExperimentSafety`** – client, network, handler, cache
  (as the `PacketStore` it is checked to implement), polling process, socket and
  server, signals, and `myexit`, together.
* **`KMLifecycle`** – the frame of a kernel module. The present module, its
  predecessor (`legacy/intercept-module.c`), the first draft (`temp-km.c`) and the
  example they grew from (`mmap-k.c`) are four *tables*: the steps of `myinit`, of
  `myexit` and of each file operation, in source order. One action per kind of
  step interprets them, so that the four are held against the same properties.
  The programs that use the proc file (`mmap-u.c`, `user-processing_original.c`,
  `kernel_module/user-processing.c`, a shell's `echo`) are tables too. What the
  kernel does around the module is written down at the top of the module: a call
  holds the proc entry, a mapping and a page fault hold nothing, unregistering
  waits for a handler that runs.
* **`DraftCaches`** – handler, `read` and poller of the two drafts: `legacy` (a
  ring as now, but the stamp comes after the publication and looks for its uid in
  the slot) and `temp` (first free slot, first occupied slot, a length that was
  never set).
* **`MeasureSetup`** – `main` of the four measuring programs as a table of its
  steps; options, failures, the loop's flag and `poll`, `stats_poll`, cleanup, and
  what stays attached to the device.
* **`LogAnalysis`** – the three scripts as tables of the pairs they subtract and
  the figures they make; counting packet by packet and pair by pair.
* **`KMVersions`**, **`Measuring`** – each puts two of these that have nothing to
  do with each other into one run (`KMLifecycle` and `DraftCaches`, `MeasureSetup`
  and `LogAnalysis`). The variable `half` says, from the
  first state on, which of the two moves; the other stands still in an initial
  state. They add no behaviour.
* **`MC…`** – the small instances.

A definition marked `\* a mutant` is a wrong version of the one after it; it is
used by no specification, only to see that the property named for it in
`PROJECT.json` notices.

## 3. What the runs check

| Run | Instance | Question | Result |
|---|---|---|---|
| `KMOne` | 5 packets, ring of 3, batches of 2, one CPU, one reader; uids out of order, one duplicated, one beyond the log | Is the cache a `PacketStore` (`ImplementsStore`), dropping only when full (`DropOnlyWhenFull`), with counters that add up (`CountersAddUp`), and does every packet reach an end (`EventuallySettled`)? | holds |
| `KMFaults` | 4 packets, the same ring, `copy_to_user` may fail | Is anything lost, torn, or freed without having been delivered (`NoSilentLoss`, `NoTornDelivery`, `FreedIsDelivered`)? Is a stamp older than its packet (`DeliveredIsStamped`, a uid coming twice)? | holds: a failed batch is offered again, also the packet of which the process got half |
| `KMSmp` | 3 packets, ring of 2, two CPUs | What survives without the one-CPU assumption? (`AtMostOnce`, `ShortReadComplete`, `DeliveredIsStamped`) | holds, and is proved for any number of CPUs |
| `KMSmpLoss` | as `KMSmp` | `NoSilentLoss` with two CPUs | **violated** |
| `KMTwoReaders` | two readers, one CPU | `FreedIsDelivered` with two readers | **violated** |
| `EbpfTwoCpus` | 2 logged uids and the one beyond, two CPUs, 3 arrivals in any order, with losses and duplicates | The six properties of `EbpfMaps` that the run lists | holds |
| `Xsk` | 4 frames, rings of 2, batches of 2, 5 packets; once with no frame kept by the kernel, once with one kept and uids repeated | Only frames are posted, a frame is in one place, totals and files agree, stamps are in order, the socket is never deaf, what is in the ring is received | holds |
| `XskInvalid` | one frame kept, batches of 1 | `AlwaysEnough` | **violated** |
| `KMEndToEnd` | 2 logged uids and the one the client sends beyond them, a store of 1, a socket queue of 2 | Do the three files fit together, is the loss the difference of zeroes, is the server's file complete, does the server end? | holds |
| `KMVersions` | each of the four modules under any one of the four programs, and the present one under the polling process together with an `echo`; two loads, two log buffers, every failure; both drafts' caches with 2 slots and 3 uids | Is memory freed in use (`MemoryOutlivesUse`)? Does anything outlive its load (`LeaksExplained`)? Who runs into unloaded code (`OnlyMappingsStray`)? Does `rmmod` end (`RmmodEnds`)? Whose are the drafts' stamps (`StampsOwn`), what do they lose (`LostOnlyWhenFull`)? | holds |
| `Measuring` | the four programs with six choices of options, again and again, two packets each; the three scripts on all logs of three packets over two times and 0 | `LeftByWhom`, `IntervalsDisjoint`, `CtrlCEnds`; `ZeroedPerPair`, `FiguresOfRank` | holds |
| `AnalysisLoss` | the scripts' half of `Measuring`, two packets | `LossIsShown` | **violated** |

### What the violated ones say

* `KMSmpLoss` – two softirqs test the same `status[]` word (line 247), both find
  it free, and the second payload overwrites the first. No counter records it. It
  needs a multi-queue device or RPS.
* `KMTwoReaders` – a second `read` clears `buff_temp` (line 114) under the first,
  which then hands over blanks and frees the slots of the packets it had
  collected. One process polls in the documented set-up; nothing prevents two.
* `XskInvalid` – `stock_frames` is not limited to the free frames. With
  `NUM_FRAMES` = fill ring + receive ring there are always enough if every frame
  is in a ring or on the stack; as soon as the kernel keeps one between the rings
  the process posts `INVALID_UMEM_FRAME`. The kernel skips it, so nothing else
  breaks: `Xsk` shows that frames stay in one place all the same.
* `AnalysisLoss` – the titles' "Loss pkt" is `|2 Z0 - Z1|` of figures that have
  been halved. `Z0` was counted in two pairs and is right after the halving; `Z1`
  is in one pair and is half of what it should be. The loss would be
  `|Z0 - 2 Z1|`. `ZeroedPerPair` says exactly what the halved figures are.

What the passing runs *permit*, and a reader should know (nothing in the
repository claims the contrary, so these are no findings):

* With two CPUs `count_pkt` can lose increments, which is why `CountersAddUp` is
  checked with one.
* In the eBPF path a torn copy can make the process stamp uid 0 again and pass
  over the uid it was waiting for (`OnlyZeroRestamped`: no more than that).
* The client sends one datagram more than there are entries (`client.c:56` has
  `>` where `>=` would end at `MAX_LOG_ENTRY`); handler and poller guard their
  logs against it (`StampsInOrder` allows exactly this uid to be "wrong").
* Ctrl+Z ends a server only when another datagram comes: `signal()` in glibc
  restarts `recvfrom`.
* If the log file cannot be created, `myexit` returns with the proc entry,
  ring and logs in place (`LeaksExplained`, `OnlyMappingsStray` name the case).
* A process that still has the file mapped when the module goes dies at the next
  page fault or `munmap`: `release` has been run by `remove_proc_entry`, and the
  mapping's operations are in the unloaded module.
* An `open` whose `kmalloc` fails dies inside the entry; `rmmod` then waits for
  ever (`RmmodEnds` excepts it by `pinned`).
* In poll mode Ctrl+C can fall between the test of the flag and `poll(-1)`; the
  program then ends with the next packet (`CtrlCEnds` excepts it by `Waiting`).
* No demonstration program gets past its assertions on any of the modules as they
  are now: `mmap-u.c` wants "asdf1", `mmap-k.c` shows "0123456789qwertyuiop"; and
  `user-processing_original.c` wants its text back from a `read` that by now
  returns packets. The step after such an assertion is in the model and never taken.
* A program of the measurement that was stopped with Ctrl+C leaves its XDP program
  on the device if it cannot open one of its two log files (`fopen` is not checked
  at `xdp_measure_user.c:656`, `668` and `ebpf_measure_user.c:259`, `281`, and both
  come before the detach) or if the detach fails, which nobody looks at
  (`LeftByWhom` names both).
* The median of an odd number of differences is one rank too low (`int()`,
  `process_suit_combi_4.py:255`): of -3, 3, 3 the script shows -3. `FiguresOfRank`
  states the rank that the code takes, exactly. A median of 0 counts as not set, so
  the next difference above it may be shown instead.
* If `copy_to_user` fails inside an entry the process takes half a payload for a
  packet, for `read` reports `BUFFER_SIZE` all the same. The packet stays whole in
  its slot (`NoTornDelivery`), so it comes again.
* With several CPUs a handler that is overtaken can leave a stamp older than one of
  a later packet with the same uid (`DeliveredIsStamped` claims the order for one
  CPU only).
* A script divides by zero if a pair of logs has no packet in common, and its
  labels of the last two ranges are swapped (`process_suit_combi_4.py:64-65`;
  labels are not modelled).

### Bounds

`MaxPackets`, `MaxArrivals` and the sizes of the logs bound the runs; nothing
else does. They are chosen so that the cases at the edges occur: more packets
than slots (the ring wraps, and fills), a ring that is not a multiple of the
batch, scans that start anywhere, uids at `MAX_LOG_ENTRY - 1` and beyond, a
receive ring that overflows, a restock that wants more frames than are free. The
store of one slot in `KMEndToEnd` makes drops happen with three packets; the
behaviour of bigger caches is what the cache's own runs and proofs are about.
Safety does not rest on the bounds: every invariant and action property that a
passing run checks is also proved (section 4). Liveness does.

In `KMVersions` two loads are what it takes for something of one load to meet the
next (an entry or an allocation left behind, a mapping that outlived its module);
two log buffers are the least with which the loop that frees them after a failure
has one to free; one process runs any program and a second one an `echo`, which
is enough for a call to be inside an entry while `rmmod` releases another's file.
The caches of the drafts get more uids than slots, one of them beyond the log. In
`Measuring` two packets let one arrive between the print and the copy of the
statistics and one after; three iterations of one packet each give every multiset
of three packets, and the thresholds leave differences below, between, in and
above the ranges.

`CHECK_DEADLOCK FALSE` is used where processes exit: the server and the pollers
of the experiment, eBPF and XDP models, a module that hangs or has been loaded
`MaxLoads` times, and a script at its end. The cache's runs check deadlock.

### Fairness

* `KMCache`: a softirq that has begun runs to its end, and the process polls in a
  loop (`while(keep_running)`). That packets arrive is not promised.
* `EbpfMaps`, `XskFrames`: an XDP program runs to its end and the process is
  scheduled (`main` is enabled whenever its loop can do something).
* `KMExperiment`: softirqs run to their end, the server is scheduled. Neither the
  network nor the client, the signals or `rmmod` are fair; a packet that never
  arrives is a lost one.

* `KMVersions`: what has entered the kernel goes on (`rmmod`'s steps, a handler
  that runs, a thread inside a call). Processes, packets and `insmod` are not fair.
* `Measuring`: the measuring process is scheduled. Packets, signals and the
  statistics thread are not fair.

### Assumptions

* Payloads are the client's `struct Payload` and fit a slot (64 of 128 bytes);
  packets for other ports or protocols leave the handlers before any shared state
  is touched (lines 206–226), and `client_uid` is 1, so that a blank slot and a
  packet can be told apart by the first byte as `user-processing.c` does.
* Stores become visible in program order, as on the x86 machines the repository
  is run on; the module has no barriers, so another memory model needs a
  different one here.
* `copy_to_user` of one batch is one step, `ReadFault` aside: no one writes
  `buff_temp` meanwhile with one reader.
* The logs that come from `malloc` or `__get_free_pages` without being cleared
  start as zeros. That is so for `malloc` of 256 KiB (a fresh mapping), and is an
  assumption for the pages of the module.
* All clocks are one: `CLOCK_MONOTONIC` and `ktime_get_ns` on one machine.
* One CPU in the handler stands for a single-queue device, one reader for the one
  process of the set-up; every theorem or run that needs them says so.
* XDP programs of several queues run one at a time in `XskFrames`: they share a
  word per uid and per-CPU counters. `HELD` is how many frames the kernel may
  keep between the rings.
* In `KMExperiment` the network loses and reorders datagrams but duplicates none. A
  duplicate is stamped over the original (`intercept-module.c:232-240`), possibly
  after the process has stamped that one, and then the kernel's file has the later
  time: `StampsInOrder` and a latency are about uids that come once. `KMCache`,
  `EbpfMaps` and `XskFrames` have uids that come twice, and say what holds then.
* In `KMExperiment` `myexit` can create its log file; `KMLifecycle` has the other
  case.
* In `KMLifecycle` memory is what was allocated and not yet freed, per load; a page
  is its references and its text. Whether freed memory is reused at once is not
  modelled: an access to it counts as the end of the thread. The copy that a torn
  `temp` read takes from several slots is whole packets (`DraftCaches`); that `ret`
  may also end inside a slot, and the process get a part of a packet, is left out.
* `DraftCaches` has one CPU and one process, as the drafts' own use had.

## 4. What is proved

Every safety invariant and every action property that a passing run checks is a
theorem, and so is the refinement of `PacketStore`. The proofs hold for all values
of the constants that satisfy the assumptions the modules state:

* `LogSizes`, `CacheSizes`: any log, ring, batch, number of packets and assignment
  of uids; any sets of CPUs and readers. The experiment needs `LogSizes` only, so
  its store, batch and socket queue are arbitrary.
* `EbpfSizes`: any number of arrivals, finitely many CPUs.
* `XskSizes`: any rings, batch, packets and uids, any number of frames the kernel
  keeps, and at least as many frames as both rings have entries, as
  `__XDP_measure/xdp_measure_user.c:38` has it (4096 for two rings of 2048).
* `LifecycleSizes`, `ModulesAssumption`, `ThreadsAssumption` and the
  `ProgramsAssumption` of `KMLifecycle`: any number of loads, log buffers and
  processes, any of the four modules and of the four programs.
* `Sizes` of `DraftCaches`, which `KMVersions` assumes as `DraftsAssumption`: any
  ring, batch and log.
* `MaxPacketsAssumption` and the `ProgramsAssumption` of `MeasureSetup`: any of the
  four programs, any options, any number of packets.
* `InputsAssumption` of `LogAnalysis`: any logs of natural numbers, any number of
  iterations, ranges that are in ascending order and do not overlap, as those of
  the scripts are.

Where one CPU or one reader is needed, or a copy to the process that does not
fail, the theorem says so as its hypothesis; without it the property is false
(`KMSmpLoss`, `KMTwoReaders`) or not claimed. `OneSetup` is all three together.

| Theorem | Property | Needs |
|---|---|---|
| `LogBuffs_proofs` | | |
| `LogCellInBounds`, `LogCellInjective` | the log is never overrun, no two uids share a cell | – |
| `KMCache_proofs` | | |
| `TypeCorrect` | `TypeOK`: no index leaves the ring, the batch or the log | – |
| `DropsOnlyWhenFull` | `DropOnlyWhenFull` | one CPU |
| `ShortReadsComplete` | `ShortReadComplete` | one reader |
| `DeliveredHasItsStamp` | `DeliveredIsStamped` | – (its order of stamps: one CPU) |
| `NothingLostSilently` | `NoSilentLoss` | one CPU, one reader |
| `NothingTorn` | `NoTornDelivery` | one CPU, one reader |
| `NothingFreedTooEarly` | `FreedIsDelivered` | one CPU, one reader |
| `DeliveredOnce` | `AtMostOnce` | one reader, no failing copy |
| `StatisticsAddUp` | `CountersAddUp` | `OneSetup` |
| `CacheIsStore` | `ImplementsStore` | `OneSetup` |
| `EbpfMaps_proofs` | | |
| `EbpfTypeCorrect` | `TypeOK` | – |
| `KernelFirst` | `KernelStampedFirst` | – |
| `PrefixLogged` | `LogsArrivedPrefix` | – |
| `ExportedFilesAgree` | `FilesAgree` | – |
| `TornCopiesHitZeroOnly` | `OnlyZeroRestamped` | – |
| `StatisticsExact` | `StatsExact` (no run: the counters are per CPU, nothing races) | – |
| `XskFrames_proofs` | | |
| `PacketsAddUp` | `CountsAgree` | – |
| `FramesSuffice` | `OnlyFramesPosted` | – |
| `XdpStampsFirst` | `KernelStampedFirst` | – |
| `XdpFilesAgree` | `FilesAgree` | – |
| `FramesConserved` | `FrameInOnePlace` | – |
| `SocketNotDeaf` | `NeverDeaf` | – |
| `KMExperiment_proofs` | | |
| `LogsInOrder` | `StampsInOrder` | – |
| `DifferenceIsLoss` | `LossIsZeroDifference` | – |
| `ServersFileComplete` | `ServerFileComplete` | – |
| `KMVersions_proofs` (with `DraftCaches_proofs`) | | |
| `OnlyTwoReturnsLeak` | `LeaksExplained` | – |
| `NothingFreedInUse` | `MemoryOutlivesUse` | – |
| `OnlyMappingsRunStray` | `OnlyMappingsStray` | – |
| `StampsAreOwn` | `StampsOwn` | – |
| `LossNeedsFull` | `LostOnlyWhenFull` | – |
| `Measuring_proofs` | | |
| `IntervalsNeverOverlap` | `IntervalsDisjoint` | – |
| `LeftByKilledOrFailed` | `LeftByWhom` | – |
| `ZeroesPerPair` | `ZeroedPerPair` | – |
| `FiguresDescribePackets` | `FiguresOfRank` | – |

(`OnlyFramesPosted` itself speaks of a kernel that keeps no frame, `XskInvalid`
shows the other.)

Hardly any of these properties is inductive by itself. The invariants that are,
and why each part is there:

**The cache.** Both scans go round a ring, so the proofs measure distance:
`Back(s, i)` is how many steps ago a scan that stands at `i` was at `s`.

* `ProbeInv`: a search that began with a free slot still has a free slot before
  it (only this CPU occupies slots). Hence it cannot run out of tries.
* `ScanInv`: a slot that was occupied when `read` began stays so until it is
  copied (only this reader frees slots), and every such slot behind the scan has
  been copied.
* `CacheInv`: that a packet is not lost when a slot is filled needs the slot to be
  free (`WriterInv`); that it is not lost when a slot is freed needs its packet to
  have been delivered (`FreeingInv`); that needs the batch to mirror the slots it
  was copied from at the moment of the copy (`MirrorInv`), that slots are
  collected once (`CollectedInv`) and hold one whole packet each, no two the same
  (`SlotInv`); and `DeliveredInv` ties what was delivered to the slots still
  waiting to be freed.
* `HeadsInv`, `OnceInv`: with several CPUs `CacheInv` is false, since two handlers
  can fill one slot and a slot can be overwritten while it is copied or wiped. What
  remains is that nobody knows a packet its handler has not copied yet, and that
  afterwards at most one slot has it (`HeadsInv`). So what a scan has collected is
  in no slot but the one it came from, which is behind the scan; and what was
  handed over is only in slots that are still to be wiped (`OnceInv`). That is all
  `AtMostOnce` takes.
* `StampInv`: whatever is on its way to the process (in the handler past its
  stamp, in a slot, in the batch) has its stamp in the log, and a later stamp in
  the same cell is of the same uid – which is `LogCellInjective`. With one CPU the
  handler's packet is the latest of all (`AgeInv`), so no stamp is older than its
  packet.
* `HalvedInv`: a packet of which the process got half was collected from a slot, so
  the handler is done with it and has not dropped it; what is then left by
  `NoSilentLoss` is a slot or the process.
* `TallyInv`: the counters say how many packets came and were dropped, except
  between a load and its store. `ReleaseInv` says which packet is in which slot
  while slots are wiped. Then the occupied slots and the packets that are neither
  dropped nor delivered are equally many.
* The refinement goes action by action (`EnterArrives`, `CountLooks`,
  `PublishAccepts`, `OverflowDrops`, `BeginStarts`, `DeliverDelivers`,
  `FreeReleases`, `ReturnEnds`; all others are stutters): the store's packets are
  those in occupied slots that the process has not got yet, its room is the slots
  that are free, its full ring is `ProbeInv`'s, its promised batch `ScanInv`'s.

**The eBPF path.** `EbpfInv` has one part per piece of state. `ProgInv`: a program
that writes words of a payload has stamped its uid before, and stamps none again
that came once. `MapsInv`: so a payload is in the map only under a uid with a
stamp, and its uid word is that uid or still 0. `FetchInv`: hence the process's
copy may be torn, but its uid is 0 or the one asked for, and if there is anything
in it that uid has a stamp. `LogInv`: every uid before `next_uid` has a stamp in
the map, what the log has is before `next_uid` and, if it came once, later than in
the map.
`ExportInv`: a map entry stays once it is written, so the file that is written
while the map changes lacks nothing that the log has. `StatsInv` counts with a set
of pairs, the packets each CPU has reached: entering the program adds one to it,
counting one adds none.

**The XDP path.** `BatchInv`: what the process has peeked and what it knows of is in
the ring, since nobody else releases. `CountInv` is the balance of packets.
`EnoughInv`: if the kernel keeps no frame, what is in neither ring is on the stack,
which is enough for all free entries of the fill ring. `PlacesInv`: the frames the
kernel keeps, those posted, those received and the free ones are disjoint sets that
make up all frames, and each is in its sequence once; the frames of a batch in
progress are on the stack already or still count as received. `DeafInv`: a full
fill ring has a real frame among its entries, and when the process has nothing
(more) to receive the kernel has a frame, posted or kept. `LogInv` and `ExportInv`
are as for eBPF.

**The experiment.** `ExperimentInv` follows one packet: only uids that are no
longer in flight have been seen by anybody (`FlowInv`), so a packet that arrives
finds its cells in the later logs empty; it has one fate (`StoreInv`), on which it
depends in which logs its stamps are (`LogInv`); a file is its log, which no one
stamps any more (`FileInv`); and what the server received is a prefix of what
reached its socket (`QueueInv`).

**Load and unload.** The modules are tables, so the lemmas first read off the
tables where the steps stand that matter (allocating, registering, freeing), as
positions; the rest of the proof speaks of positions only.

* `LeaksInv` says of the present load what `LeaksExplained` says only of those that
  are gone: exactly ring and temp when it comes to the log buffers, nothing when
  it has freed.
* `UseInv`: a handler runs only between `registerRxHandlers` and the end of its
  unregistering (`HandlerInv`); an entry that can be called belongs to a load that
  is present or failed (`EntryInv`); a call holds its entry, and `rmmod` does not
  pass the removal while one is held (`CallInv`); a process's place in its program
  agrees with the call it is in and the file it has (`PlaceInv`); and a page counts
  its open file and its mapping (`PageInv`). There is one lemma per action.

**The drafts.** `DraftInv`: both scans measured by `Back`, as for the cache; the
packet whose stamp is still missing is in its slot or was handed over. It is
proved in `DraftCaches_proofs` and carried to `KMVersions` by an instance of that
module.

**The measuring programs.** `IntervalsInv`: while the statistics thread is not
between print and copy, all it has shown is in `previous_stats`; that the thread
is started once, and off between runs, keeps a second start from coming in
between. `AttachedInv`: the program's own XDP program is attached only between the
attaching and the last step of the cleanup, and what else is there was left by one
that was killed, gave up, died in the cleanup or failed to detach.

**The scripts.** `AnalysisInv` says what is counted half-way: `logs_zeroed` are the
pairs of a packet and a pair of logs gone through so far in which the log is zero;
`count_diffs` is the histogram of the packets gone through. From that come the
figures: the sum over a histogram is the number of packets (by a bijection), a
range's share is that of the packets whose difference is in it, and cumulating
stops at the rank asked for because every finite set of numbers has a least and a greatest
member.

**Model-checked only.** Liveness (`EventuallySettled`, `EventuallyPast`,
`EventuallyReceived`, `ServerEnds`, `RmmodEnds`, `CtrlCEnds`): it needs `ENABLED`
and well-founded arguments under fairness, which the installed provers do not have.

## 5. Not modelled

* Plotting, and the values of averages and deviations (only that they divide by
  the number of values): floating point and layout.
* The transmit path of `xdp_measure_user.c` (`if (false)`) and its
  checksum helpers, `complete_tx`, which has nothing to complete, and the layout
  of what the statistics thread prints.
* `__XDP_measure/__xdp_measure_user.c`: its loop calls `handle_receive_packets`,
  which the file has only inside a comment. Neither does it build for the names of
  its log files (`path_log_export_xdp_us`, `path_log_export_xdp_kern`), which nothing
  in the repository defines; the same holds for `xdp_measure_user copy.c` and
  `__ebpf_measure_user.c`, which are modelled as if the names were defined.
  The frame handling of `xdp_measure_user copy.c` and `__ebpf_measure_user.c` is
  that of `xdp_measure_user.c` and is modelled (and mapped) once, in `XskFrames`.
* Inside `libbpf`: creating umem, rings and sockets, loading and attaching is one
  step each, which succeeds or fails (`MeasureSetup`).
* `legacy/mmap-u copy` is a binary; `lkmc/` is vendored; Makefiles and shell
  scripts build and start the programs.
* The lock order of `rtnl_lock` under `dev_base_lock` (`intercept-module.c:296`):
  it is the network core's.
* Pages of the log that are not cleared by `__get_free_pages`
  (`intercept-module.c:344`): an assumption, see section 3.

## 6. Plan

The models are built: `LogBuffs`, `KMCache` with `PacketStore`, `EbpfMaps`,
`XskFrames`, `SocketServer`, `UserProcessing`, `KMExperiment`, `KMLifecycle`,
`DraftCaches`, `MeasureSetup`, `LogAnalysis`; every safety property of a passing
run is proved. What could still be proved:

1. What of the cache survives several readers, and which part of `NoSilentLoss`
   with several CPUs (a packet that is overwritten is the only one lost).
2. That the poller's and the server's abstract steps in `KMExperiment` follow from
   `UserProcessing` and `SocketServer` alone, as a theorem about each.
3. Shorter proofs: the lemmas that `EbpfMaps_proofs` and `XskFrames_proofs` have in
   common (export of a map that changes) stated once.
