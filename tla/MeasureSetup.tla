---------------------------- MODULE MeasureSetup ----------------------------
(***************************************************************************)
(* A measuring program from its first to its last line: options, the XDP   *)
(* program it attaches to the device, what it sets up before it receives,  *)
(* the loop it leaves on Ctrl+C, its statistics thread, the export, and    *)
(* the detaching, which may fail as well.  The tables are the mains of     *)
(* xdp_measure_user.c, of its earlier copy, of ebpf_measure_user.c and of  *)
(* the AF_XDP program that ebpf_measure_user.c grew from; what the loop    *)
(* does with a packet is in XskFrames and EbpfMaps.                        *)
(*                                                                         *)
(* A program is run again and again on one device.  Someone else may       *)
(* attach a program to it, or detach what is there, at any time: neither   *)
(* main checks whose it is.                                                *)
(***************************************************************************)
EXTENDS Integers, Sequences

CONSTANTS
  Programs,     (* the programs that may be run                            *)
  Options,      (* what may be given on the command line                   *)
  MaxPackets    (* bound: packets that a run is sent                       *)

ASSUME MaxPacketsAssumption == MaxPackets \in Nat

(* main as a table: its way to the loop, the loop, its way out.  What       *)
(* belongs to --filename is skipped if there is none.                       *)
XdpSetup == <<"malloc", "signal", "parse", "attach", "xsks_map", "uid_timestamps",
              "pkt_payload", "setrlimit", "memalign", "umem", "socket", "stats">>
XdpLoop == <<"flag", "poll", "handle">>
ForgetsDetach == <<"export_us", "export_kern", "delete">>       \* a mutant
XdpCleanup == <<"export_us", "export_kern", "delete", "detach">>
Xdp == [name |-> "xdp", setup |-> XdpSetup, loop |-> XdpLoop, cleanup |-> XdpCleanup]

CopySetup == <<"malloc", "signal", "parse", "attach", "xsks_map", "uid_timestamps",
               "setrlimit", "memalign", "umem", "socket", "stats">>
CopyLoop == <<"flag", "poll", "handle">>
CopyCleanup == <<"export_us", "export_kern", "delete", "detach">>
Copy == [name |-> "copy", setup |-> CopySetup, loop |-> CopyLoop, cleanup |-> CopyCleanup]

OldEbpfSetup == <<"malloc", "signal", "parse", "attach", "xsks_map", "uid_timestamps",
                  "pkt_payload", "setrlimit", "memalign", "umem", "socket", "stats">>
OldEbpfLoop == <<"flag", "poll", "handle">>
OldEbpfCleanup == <<"export_us", "export_kern", "delete", "detach">>
OldEbpf == [name |-> "oldebpf", setup |-> OldEbpfSetup, loop |-> OldEbpfLoop,
            cleanup |-> OldEbpfCleanup]

EbpfSetup == <<"signal", "parse", "attach", "uid_timestamps", "pkt_payload", "malloc">>
EbpfLoop == <<"flag", "fetch">>
EbpfCleanup == <<"export_us", "export_kern", "detach">>
Ebpf == [name |-> "ebpf", setup |-> EbpfSetup, loop |-> EbpfLoop, cleanup |-> EbpfCleanup]

OfFilename == {"attach", "xsks_map", "uid_timestamps", "pkt_payload"}
MayFail == OfFilename \cup {"malloc", "setrlimit", "memalign", "umem", "socket", "stats"}

ASSUME ProgramsAssumption == Programs \subseteq {Xdp, Copy, OldEbpf, Ebpf}

-----------------------------------------------------------------------------
VARIABLES
  program, cfg,     (* of this run                                         *)
  main,             (* its part (idle, setup, loop, cleanup) and place     *)
  attached,         (* whose XDP program the device has                    *)
  armed,            (* exit_application is installed                       *)
  global_exit,
  sent, rx_packets, (* packets for the program, and counted by it          *)
  stats,            (* the statistics thread: off, sleep, printed          *)
  previous_stats,
  shown,            (* history: the sum of the intervals it printed        *)
  ended             (* history: how the last run ended, and at which step  *)

counts == <<sent, rx_packets, stats, previous_stats, shown>>
vars == <<program, cfg, main, attached, armed, global_exit, counts, ended>>

NoOptions == [dev |-> FALSE, unload |-> FALSE, filename |-> FALSE, poll |-> FALSE,
              verbose |-> FALSE]
NotEnded == [how |-> "none", at |-> "none"]

Init ==
  /\ program \in Programs /\ cfg = NoOptions /\ main = [part |-> "idle", i |-> 1]
  /\ attached \in {"none", "other"} /\ armed = FALSE /\ global_exit = FALSE
  /\ sent = 0 /\ rx_packets = 0 /\ stats = "off" /\ previous_stats = 0 /\ shown = 0
  /\ ended = NotEnded

Running == main.part # "idle"
Table == IF main.part = "idle" THEN <<>> ELSE program[main.part]
At(step) == main.i <= Len(Table) /\ Table[main.i] = step
In(part) == main.part = part /\ main.i <= Len(Table)
Onward == main' = [main EXCEPT !.i = @ + 1]
To(part) == main' = [part |-> part, i |-> 1]

(* The process is gone, with its threads and whatever it had, except for    *)
(* the XDP program: that stays on the device until someone takes it off.    *)
Ends(how, device) ==
  /\ To("idle")
  /\ ended' = [how |-> how, at |-> IF main.i <= Len(Table) THEN Table[main.i] ELSE "end"]
  /\ attached' = IF device = "mine" THEN "left" ELSE device
  /\ cfg' = NoOptions /\ armed' = FALSE /\ global_exit' = FALSE
  /\ sent' = 0 /\ rx_packets' = 0 /\ stats' = "off" /\ previous_stats' = 0 /\ shown' = 0
  /\ UNCHANGED program

Start ==
  /\ ~Running /\ To("setup") /\ program' \in Programs
  /\ ended' = NotEnded
  /\ UNCHANGED <<cfg, attached, armed, global_exit, counts>>

Signal ==
  /\ In("setup") /\ At("signal") /\ Onward /\ armed' = TRUE
  /\ UNCHANGED <<program, cfg, attached, global_exit, counts, ended>>

(* The options; without --dev it returns, with --unload it detaches         *)
(* whatever there is, or fails to, and returns.                             *)
Parse ==
  /\ In("setup") /\ At("parse")
  /\ \E o \in Options :
       \/ ~o.dev /\ Ends("option", attached)
       \/ o.dev /\ o.unload /\ \E device \in {"none", attached} : Ends("unloaded", device)
       \/ /\ o.dev /\ ~o.unload /\ cfg' = o /\ Onward
          /\ UNCHANGED <<program, attached, armed, global_exit, counts, ended>>

Skipped == ~cfg.filename /\ \E step \in OfFilename : At(step)
Prepare ==
  /\ In("setup") /\ ~At("signal") /\ ~At("parse") /\ Onward
  /\ attached' = CASE At("attach") /\ cfg.filename -> "mine"
                   [] At("socket") /\ attached = "none" -> "mine"  \* libbpf's own program
                   [] OTHER -> attached
  /\ stats' = IF At("stats") /\ cfg.verbose THEN "sleep" ELSE stats
  /\ UNCHANGED <<program, cfg, armed, global_exit, sent, rx_packets, previous_stats, shown,
                 ended>>

(* Every failure is an exit on the spot.  xsk_configure_socket may fail     *)
(* before or after xsk_socket__create has attached its program.             *)
PrepareFails ==
  /\ In("setup") /\ (\E step \in MayFail : At(step)) /\ ~Skipped
  /\ At("stats") => cfg.verbose
  /\ \/ Ends("failure", attached)
     \/ At("socket") /\ attached = "none" /\ Ends("failure", "mine")

Prepared ==
  /\ main.part = "setup" /\ main.i > Len(Table) /\ To("loop")
  /\ UNCHANGED <<program, cfg, attached, armed, global_exit, counts, ended>>

-----------------------------------------------------------------------------
(* rx_and_process, and the loop of ebpf_measure_user.c. *)

WhileAlsoPolling ==                                             \* a mutant
  /\ In("loop") /\ At("flag")
  /\ IF global_exit /\ cfg.poll THEN To("cleanup") ELSE Onward
  /\ UNCHANGED <<program, cfg, attached, armed, global_exit, counts, ended>>
While ==
  /\ In("loop") /\ At("flag")
  /\ IF global_exit THEN To("cleanup") ELSE Onward
  /\ UNCHANGED <<program, cfg, attached, armed, global_exit, counts, ended>>

(* poll(-1) returns when there is a packet or a signal comes while it       *)
(* waits; a signal that came since the flag was tested does not wake it.    *)
Waiting == In("loop") /\ At("poll") /\ cfg.poll /\ sent = rx_packets
Poll ==
  /\ In("loop") /\ At("poll") /\ ~Waiting /\ Onward
  /\ UNCHANGED <<program, cfg, attached, armed, global_exit, counts, ended>>

(* handle_receive_packets: a batch, or nothing; fetch_and_process_packet:   *)
(* one, or nothing (EbpfMaps says when).                                    *)
Handle ==
  /\ In("loop") /\ main' = [main EXCEPT !.i = 1]
  /\ \E n \in 0 .. sent - rx_packets :
       /\ \/ At("handle") /\ (n = 0 => sent = rx_packets)
          \/ At("fetch") /\ n <= 1
       /\ rx_packets' = rx_packets + n
  /\ UNCHANGED <<program, cfg, attached, armed, global_exit, sent, stats, previous_stats,
                 shown, ended>>

exit_application ==
  /\ armed /\ ~global_exit /\ global_exit' = TRUE
  /\ IF Waiting THEN main' = [main EXCEPT !.i = 1] ELSE UNCHANGED main
  /\ UNCHANGED <<program, cfg, attached, armed, counts, ended>>

Cleanup ==
  /\ In("cleanup") /\ Onward
  /\ attached' = IF At("detach") THEN "none" ELSE attached
  /\ UNCHANGED <<program, cfg, armed, global_exit, counts, ended>>
(* fopen's result is not looked at: without a file the program dies in the  *)
(* first fprintf.  Neither is xdp_link_detach's, and after it main returns. *)
CleanupFails ==
  /\ In("cleanup")
  /\ \/ (At("export_us") \/ At("export_kern")) /\ Ends("crashed", attached)
     \/ At("detach") /\ Ends("undetached", attached)
Return ==
  /\ main.part = "cleanup" /\ main.i > Len(Table) /\ Ends("ok", attached)

(* stats_poll: it prints what came since previous_stats, then copies the    *)
(* record that main goes on counting in.                                    *)
StatsPrint ==
  /\ stats = "sleep" /\ stats' = "printed"
  /\ shown' = shown + (rx_packets - previous_stats)
  /\ UNCHANGED <<program, cfg, main, attached, armed, global_exit, sent, rx_packets,
                 previous_stats, ended>>
StatsForgets ==                                                 \* a mutant
  /\ stats = "printed" /\ stats' = IF global_exit THEN "off" ELSE "sleep"
  /\ UNCHANGED <<program, cfg, main, attached, armed, global_exit, sent, rx_packets,
                 shown, previous_stats, ended>>
StatsKeep ==
  /\ stats = "printed" /\ previous_stats' = rx_packets
  /\ stats' = IF global_exit THEN "off" ELSE "sleep"
  /\ UNCHANGED <<program, cfg, main, attached, armed, global_exit, sent, rx_packets,
                 shown, ended>>
stats_poll == StatsPrint \/ StatsKeep

-----------------------------------------------------------------------------
(* Around the program. *)

Packet ==
  /\ Running /\ attached = "mine" /\ sent < MaxPackets /\ sent' = sent + 1
  /\ UNCHANGED <<program, cfg, main, attached, armed, global_exit, rx_packets, stats,
                 previous_stats, shown, ended>>
Someone ==
  /\ attached' \in {"none", "other"} \ {attached}
  /\ UNCHANGED <<program, cfg, main, armed, global_exit, counts, ended>>
(* SIGKILL, or Ctrl+C before the handler is installed.                      *)
Killed == Running /\ Ends("killed", attached)

main_ == Signal \/ Parse \/ Prepare \/ PrepareFails \/ Prepared \/ While \/ Poll \/ Handle
           \/ Cleanup \/ CleanupFails \/ Return

Next == Start \/ main_ \/ exit_application \/ stats_poll \/ Packet \/ Someone \/ Killed

Spec == Init /\ [][Next]_vars
(* The process is scheduled. *)
FairSpec == Spec /\ WF_vars(main_)

-----------------------------------------------------------------------------
(* Properties. *)

AttachPlace == CHOOSE i \in DOMAIN program.setup : program.setup[i] = "attach"
AfterAttach(step) ==
  step \in {program.setup[i] : i \in AttachPlace + 1 .. Len(program.setup)}

(* A program that runs to its end leaves nothing on the device if           *)
(* xdp_link_detach succeeds (line 685), nor does one that gives up before   *)
(* the attaching.  It stays there if the program is killed, gives up after  *)
(* the attaching (lines 573-646), cannot open a file for one of the logs,   *)
(* which it writes before it detaches (lines 656, 668), or fails to detach. *)
LeftByWhom ==
  [][attached' = "left" /\ attached # "left" =>
       \/ ended'.how = "killed"
       \/ ended'.how = "failure" /\ AfterAttach(ended'.at)
       \/ ended'.how = "crashed" /\ ended'.at \in {"export_us", "export_kern"}
       \/ ended'.how = "undetached"]_vars

(* The intervals that the statistics thread prints do not overlap, although *)
(* main goes on counting between the print and the copy (lines 503-504): no *)
(* packet is shown twice, and the sum never passes the total.               *)
IntervalsDisjoint ==
  /\ shown <= rx_packets
  /\ stats = "sleep" => shown <= previous_stats

(* The same, as strong as every step keeps it: while the thread sleeps or   *)
(* is off, all that was shown is in previous_stats; it is started once.     *)
IntervalsInv ==
  /\ program \in Programs
  /\ main \in [part : {"idle", "setup", "loop", "cleanup"}, i : Nat \ {0}]
  /\ stats \in {"off", "sleep", "printed"}
  /\ sent \in Int /\ rx_packets \in Int /\ previous_stats \in Int /\ shown \in Int
  /\ shown <= rx_packets
  /\ stats # "printed" => shown <= previous_stats
  /\ main.part = "idle" => stats = "off"
  /\ main.part = "setup" /\ stats # "off" => main.i > Len(program.setup)

(* Whose program the device has, as every step keeps it: a main's own only  *)
(* from its "attach" on and until its cleanup is over.                      *)
AttachedInv ==
  /\ program \in Programs
  /\ main \in [part : {"idle", "setup", "loop", "cleanup"}, i : Nat \ {0}]
  /\ attached = "mine" =>
       /\ main.part # "idle"
       /\ main.part = "setup" => main.i > AttachPlace
       /\ main.part = "cleanup" => main.i <= Len(program.cleanup)

(* Ctrl+C ends the loop, if not in poll mode at once: the flag may be set   *)
(* after it was tested and before poll(-1) waits (lines 428-430), and then  *)
(* only a packet wakes the program.                                         *)
CtrlCEnds == (global_exit /\ main.part = "loop") ~> (main.part # "loop" \/ Waiting)
=============================================================================
