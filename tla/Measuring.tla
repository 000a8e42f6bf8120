----------------------------- MODULE Measuring -----------------------------
(* For TLC: either a measuring program is run, or a script analyses logs;  *)
(* the half that is not looked at stands still.                            *)
EXTENDS MeasureSetup, LogAnalysis

VARIABLE half

MeasuringInit ==
  /\ Init /\ LogsInit
  /\ \/ half = "setup" /\ script = Combi
     \/ half = "analysis" /\ program = Xdp /\ attached = "none"

MeasuringNext ==
  /\ half' = half
  /\ \/ half = "setup" /\ Next /\ UNCHANGED log_vars
     \/ half = "analysis" /\ LogsNext /\ UNCHANGED vars

MeasuringSpec ==
  /\ MeasuringInit /\ [][MeasuringNext]_<<half, vars, log_vars>>
  /\ WF_vars(main_)
AnalysisInit == MeasuringInit /\ half = "analysis"
AnalysisSpec == AnalysisInit /\ [][MeasuringNext]_<<half, vars, log_vars>>

MCPrograms == {Xdp, Copy, OldEbpf, Ebpf}
Dev == [NoOptions EXCEPT !.dev = TRUE]
Filename == [Dev EXCEPT !.filename = TRUE]
MCOptions == {NoOptions, [Dev EXCEPT !.unload = TRUE], Dev, Filename,
              [Filename EXCEPT !.poll = TRUE], [Filename EXCEPT !.verbose = TRUE]}
(* What a packet has in the kernel's log, the process's and the server's.   *)
Times == {2, 5}
Packets == {<<0, 0, 0>>} \cup (Times \X ({0} \cup Times) \X ({0} \cup Times))
Sextuple(p, q) == [k \in 0 .. 5 |-> IF k < 3 THEN <<p[k + 1]>> ELSE <<q[k - 2]>>]
MCLoads == {Sextuple(p, <<p[1], p[3], p[2]>>) : p \in Packets}
             \cup {[Sextuple(<<2, 2, 2>>, <<2, 2, 2>>) EXCEPT ![1] = <<>>]}
MCThresholds == <<<<0, 1>>, <<1, 3>>>>
=============================================================================
