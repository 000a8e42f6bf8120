---------------------------- MODULE LogAnalysis ----------------------------
(***************************************************************************)
(* The scripts that turn the exported logs into figures:                   *)
(* process_suit_combi_4.py and ps_combi_2_stress_non.py, which add up the  *)
(* logs of several iterations, and check_improved_plot.py, which looks at  *)
(* one.  Entry i of each of the six logs is the time of packet i there, or *)
(* 0; the scripts subtract the logs in pairs, skip a pair with a zero in   *)
(* it, and count zeroes and differences on the way.  Of the averages only  *)
(* the division is modelled; the drawing is left out, but for the loss     *)
(* that the titles show.                                                   *)
(***************************************************************************)
EXTENDS Integers, Sequences, FiniteSets, FiniteSetsExt

CONSTANTS
  Scripts,          (* the names of those that are looked at               *)
  Loads,            (* the sextuples of logs that an iteration may find    *)
  nbr_iteration,    (* bound for iterations * test cases                   *)
  thresholds        (* the ranges, in the unit of the logs                 *)

(* A script is the pairs it subtracts, how many iterations it adds up, and  *)
(* the figures it makes of them, in order.  km_log, up_log, km_s_log,       *)
(* ebpf_log, usebpf_log, ebpf_s_log are 0 .. 5.                             *)
CombiPairs == <<<<1, 0>>, <<2, 0>>, <<4, 3>>, <<5, 3>>>>
CombiFigures == <<"halve", "average", "median", "range">>
Combi == [name |-> "process_suit_combi_4", to_subtract |-> CombiPairs,
          iterations |-> nbr_iteration, figures |-> CombiFigures]

StressNonPairs == <<<<1, 0>>, <<2, 0>>, <<4, 3>>, <<5, 3>>>>
StressNonFigures == <<"halve", "average", "median", "range">>
StressNon == [name |-> "ps_combi_2_stress_non", to_subtract |-> StressNonPairs,
              iterations |-> nbr_iteration, figures |-> StressNonFigures]

ImprovedPairs == <<<<1, 0>>, <<2, 0>>, <<2, 1>>, <<4, 3>>, <<5, 3>>, <<5, 4>>>>
ImprovedFigures == <<"halve", "average", "range">>
Improved == [name |-> "check_improved_plot", to_subtract |-> ImprovedPairs,
             iterations |-> 1, figures |-> ImprovedFigures]

VARIABLES
  script, at,       (* which; where it is                                  *)
  iteration, logs,
  i, pair_th,       (* of the counting loops                               *)
  logs_zeroed, count_diffs, diffs_neg,
  diffs_median, diffs_99_procent,
  in_ranges,        (* diffs_count_in_threshold_ranges                     *)
  all               (* history: what each packet had in the six logs       *)

counters == <<logs_zeroed, count_diffs, diffs_neg>>
figures == <<diffs_median, diffs_99_procent, in_ranges>>
log_vars == <<script, at, iteration, logs, i, pair_th, counters, figures, all>>

Log == 0 .. 5
Pairs == DOMAIN script.to_subtract
Ranges == DOMAIN thresholds
Zero(S) == [x \in S |-> 0]
(* What comes after figure f; the titles are drawn when all are made.       *)
After(f) ==
  LET n == CHOOSE n \in DOMAIN script.figures : script.figures[n] = f
  IN IF n = Len(script.figures) THEN "done" ELSE script.figures[n + 1]
Shows(f) == \E n \in DOMAIN script.figures : script.figures[n] = f
NoDiffs == [d \in {} |-> 0]
(* sum(counts[d] for d in keys) *)
Sum(counts, keys) == Cardinality(UNION {{d} \X (1 .. counts[d]) : d \in keys})
Values(counts) == Sum(counts, DOMAIN counts)

LogsInit ==
  /\ script \in {Combi, StressNon, Improved} /\ script.name \in Scripts /\ at = "load" /\ iteration = 1
  /\ logs = [k \in Log |-> <<>>] /\ i = 1 /\ pair_th = 1
  /\ logs_zeroed = Zero(Log) /\ count_diffs = [p \in Pairs |-> NoDiffs]
  /\ diffs_neg = Zero(Pairs)
  /\ diffs_median = Zero(Pairs) /\ diffs_99_procent = Zero(Pairs)
  /\ in_ranges = [p \in Pairs |-> Zero(Ranges)] /\ all = <<>>

-----------------------------------------------------------------------------
(* Logs of different lengths end the script.                                *)
SameLengths(l) == \A k \in Log : Len(l[k]) = Len(l[0])

LoadLogs ==
  /\ at = "load" /\ iteration <= script.iterations
  /\ \E l \in Loads :
       \/ /\ SameLengths(l) /\ at' = "count" /\ logs' = l
          /\ all' = all \o [n \in DOMAIN l[0] |-> [k \in Log |-> l[k][n]]]
       \/ ~SameLengths(l) /\ at' = "aborted" /\ UNCHANGED <<logs, all>>
  /\ i' = 1 /\ pair_th' = 1
  /\ UNCHANGED <<script, iteration, counters, figures>>

(* Packet i, pair pair_th.                                                  *)
Pair == script.to_subtract[pair_th]
Entry(n) == logs[Pair[n]][i]
Skips == {n \in 1 .. 2 : Entry(n) = 0} # {}
SkipZero == Skips

CountPair ==
  /\ at = "count" /\ i <= Len(logs[0])
  /\ logs_zeroed' = [k \in Log |->
       logs_zeroed[k] + IF k \in {Pair[1], Pair[2]} /\ logs[k][i] = 0 THEN 1 ELSE 0]
  /\ IF SkipZero THEN UNCHANGED <<count_diffs, diffs_neg>>
     ELSE LET d == Entry(1) - Entry(2)
              counts == count_diffs[pair_th]
              g == IF d \in DOMAIN counts THEN counts[d] ELSE 0
          IN /\ diffs_neg' = [diffs_neg EXCEPT ![pair_th] = @ + IF d < 0 THEN 1 ELSE 0]
             /\ count_diffs' = [count_diffs EXCEPT ![pair_th] =
                  [e \in DOMAIN counts \cup {d} |-> IF e = d THEN g + 1 ELSE counts[e]]]
  /\ IF pair_th = Len(script.to_subtract) THEN pair_th' = 1 /\ i' = i + 1
     ELSE pair_th' = pair_th + 1 /\ i' = i
  /\ UNCHANGED <<script, at, iteration, logs, figures, all>>

NextIteration ==
  /\ at = "count" /\ i > Len(logs[0])
  /\ at' = "load" /\ iteration' = iteration + 1
  /\ UNCHANGED <<script, logs, i, pair_th, counters, figures, all>>

HalvedUp(z) == (z + 1) \div 2                                   \* a mutant
Halved(z) == z \div 2
Halve ==
  /\ at = "load" /\ iteration > script.iterations /\ at' = After("halve")
  /\ logs_zeroed' = [k \in Log |-> Halved(logs_zeroed[k])]
  /\ UNCHANGED <<script, iteration, logs, i, pair_th, count_diffs, diffs_neg, figures, all>>

(* A pair without any difference: a division by zero, or max of nothing.    *)
Average ==
  /\ at = "average"
  /\ at' = IF \E p \in Pairs : DOMAIN count_diffs[p] = {} THEN "crashed"
           ELSE After("average")
  /\ UNCHANGED <<script, iteration, logs, i, pair_th, counters, figures, all>>

(* The keys are gone through in order until 99% of the values are passed;   *)
(* a median of 0 is taken for one that is not set yet.                      *)
UpTo(counts, key) == Sum(counts, {d \in DOMAIN counts : d <= key})
PassedBy(counts, n) == {key \in DOMAIN counts : UpTo(counts, key) > n}  \* a mutant
Passed(counts, n) == {key \in DOMAIN counts : UpTo(counts, key) >= n}
NinetyNine(counts) == Min(Passed(counts, (99 * Values(counts)) \div 100))
Middle(counts) ==
  LET set == {key \in Passed(counts, Values(counts) \div 2) :
                key # 0 /\ key <= NinetyNine(counts)}
  IN IF set = {} THEN 0 ELSE Min(set)
Median ==
  /\ at = "median" /\ at' = After("median")
  /\ diffs_median' = [p \in Pairs |-> Middle(count_diffs[p])]
  /\ diffs_99_procent' = [p \in Pairs |-> NinetyNine(count_diffs[p])]
  /\ UNCHANGED <<script, iteration, logs, i, pair_th, counters, in_ranges, all>>

(* A difference is counted in the first range that has it, and taken out;   *)
(* what is left goes to out_range.txt.                                      *)
Has(r, d) == d >= thresholds[r][1] /\ d < thresholds[r][2]
FirstRange(r, d) == Has(r, d) /\ \A s \in 1 .. r - 1 : ~Has(s, d)
CountRanges ==
  /\ at = "range" /\ at' = After("range")
  /\ in_ranges' = [p \in Pairs |-> [r \in Ranges |->
       Sum(count_diffs[p], {d \in DOMAIN count_diffs[p] : FirstRange(r, d)})]]
  /\ count_diffs' = [p \in Pairs |->
       [d \in {e \in DOMAIN count_diffs[p] : \A r \in Ranges : ~Has(r, e)} |->
          count_diffs[p][d]]]
  /\ UNCHANGED <<script, iteration, logs, i, pair_th, logs_zeroed, diffs_neg, diffs_median,
                 diffs_99_procent, all>>

Abs(n) == IF n < 0 THEN -n ELSE n
(* What the titles of the two combi scripts show as lost between log first  *)
(* and log k.                                                               *)
LossText(first, k) == Abs(2 * logs_zeroed[first] - logs_zeroed[k])

LogsNext == LoadLogs \/ CountPair \/ NextIteration \/ Halve \/ Average \/ Median \/ CountRanges

LogsSpec == LogsInit /\ [][LogsNext]_log_vars

-----------------------------------------------------------------------------
(* Properties. *)

Zeroes(k) == Cardinality({n \in DOMAIN all : all[n][k] = 0})
PairsOf(k) == {p \in Pairs : k \in {script.to_subtract[p][1], script.to_subtract[p][2]}}

(* "Zeroed" is the number of packets missing in a log, if the log is in two *)
(* pairs; of a log in one pair it is half of that (line 212), although the  *)
(* comment says that each zero is counted twice.                            *)
ZeroedPerPair ==
  at \notin {"load", "count", "aborted"} =>
    \A k \in Log : logs_zeroed[k] = (Cardinality(PairsOf(k)) * Zeroes(k)) \div 2

(* The figures are what they are of the packets that neither log of a pair  *)
(* misses.  Each difference is in its range or in out_range.txt, once.  The *)
(* "99%" is the difference of rank 99 * total \div 100 from the lowest, and *)
(* "Median" that of rank total \div 2, of which line 255 makes one too low  *)
(* for an odd total: of -3, 3, 3 it shows -3.  If that difference is 0 line *)
(* 261 takes it for not yet set, and may go on to the next above it.        *)
DiffsOf(p) ==
  LET a == script.to_subtract[p][1]
      b == script.to_subtract[p][2]
  IN [n \in {m \in DOMAIN all : all[m][a] # 0 /\ all[m][b] # 0} |-> all[n][a] - all[n][b]]
Number(diffs, P(_)) == Cardinality({n \in DOMAIN diffs : P(diffs[n])})
OfRank(diffs, x, rank) ==
  /\ \E n \in DOMAIN diffs : diffs[n] = x
  /\ Number(diffs, LAMBDA d : d <= x) >= rank
  /\ Number(diffs, LAMBDA d : d < x) < rank \/ Number(diffs, LAMBDA d : d < x) = 0
FiguresOfRank ==
  at = "done" => \A p \in Pairs :
    LET diffs == DiffsOf(p)
        total == Cardinality(DOMAIN diffs)
        median == diffs_median[p]
    IN /\ \A r \in Ranges : in_ranges[p][r] = Number(diffs, LAMBDA d : Has(r, d))
       /\ Values(count_diffs[p]) = Number(diffs, LAMBDA d : \A r \in Ranges : ~Has(r, d))
       /\ diffs_neg[p] = Number(diffs, LAMBDA d : d < 0)
       /\ Shows("median") =>
            /\ OfRank(diffs, diffs_99_procent[p], (99 * total) \div 100)
            /\ \/ OfRank(diffs, median, total \div 2)
               \/ /\ OfRank(diffs, 0, total \div 2) /\ median > 0
                  /\ \E n \in DOMAIN diffs : diffs[n] = median
                  /\ \A n \in DOMAIN diffs : diffs[n] <= 0 \/ median <= diffs[n]

(* The title's "Loss pkt" is the number of packets that the kernel stamped  *)
(* and the process did not (lines 327, 331).                                *)
LossIsShown ==
  at = "done" /\ Shows("median") =>
    \A pair \in {<<0, 1>>, <<0, 2>>, <<3, 4>>, <<3, 5>>} :
      LossText(pair[1], pair[2]) =
        Cardinality({n \in DOMAIN all : all[n][pair[1]] # 0 /\ all[n][pair[2]] = 0})
-----------------------------------------------------------------------------
(* Inductive invariants.  Counted(p) are the packets that pair p has been    *)
(* through, Of(p, N) those among N that neither of its logs misses.         *)

Inputs ==
  /\ nbr_iteration \in Nat /\ Loads \subseteq [Log -> Seq(Nat)]
  /\ thresholds \in Seq(Int \X Int)
  /\ \A r, s \in Ranges : r < s => thresholds[r][2] <= thresholds[s][1]

ASSUME InputsAssumption == Inputs

Before == Len(all) - Len(logs[0])
Counted(p) == {n \in DOMAIN all : n < Before + i \/ (n = Before + i /\ p < pair_th)}
Diff(p, n) == all[n][script.to_subtract[p][1]] - all[n][script.to_subtract[p][2]]
Of(p, N) == {n \in N : \A s \in 1 .. 2 : all[n][script.to_subtract[p][s]] # 0}
Histogram(p, N) ==
  [d \in {Diff(p, n) : n \in Of(p, N)} |-> Cardinality({n \in Of(p, N) : Diff(p, n) = d})]
Negatives(p, N) == {n \in Of(p, N) : Diff(p, n) < 0}
Zeroed(k) == {v \in (DOMAIN all) \X PairsOf(k) : v[1] \in Counted(v[2]) /\ all[v[1]][k] = 0}

TypeOK ==
  /\ script \in {Combi, StressNon, Improved}
  /\ at \in {"load", "count", "average", "median", "range", "done", "aborted", "crashed"}
  /\ iteration \in Nat /\ logs \in [Log -> Seq(Nat)] /\ SameLengths(logs)
  /\ i \in 1 .. Len(logs[0]) + 1 /\ pair_th \in Pairs
  /\ all \in Seq([Log -> Nat]) /\ Len(logs[0]) <= Len(all)

(* The packets of this iteration are the last ones.                         *)
PlaceInv ==
  /\ \A n \in DOMAIN logs[0], k \in Log : all[Before + n][k] = logs[k][n]
  /\ i > Len(logs[0]) => pair_th = 1
  /\ at = "load" => i > Len(logs[0])

CountInv ==
  at \in {"load", "count"} =>
    /\ logs_zeroed = [k \in Log |-> Cardinality(Zeroed(k))]
    /\ count_diffs = [p \in Pairs |-> Histogram(p, Counted(p))]
    /\ diffs_neg = [p \in Pairs |-> Cardinality(Negatives(p, Counted(p)))]

(* median and most are what FiguresOfRank wants of median and 99%, in terms *)
(* of the packets.                                                          *)
Ranked(p, x, rank) ==
  LET S == Of(p, DOMAIN all)
      below == Cardinality({n \in S : Diff(p, n) < x})
  IN /\ \E n \in S : Diff(p, n) = x
     /\ Cardinality({n \in S : Diff(p, n) <= x}) >= rank
     /\ below < rank \/ below = 0
NextAbove(p, x) ==
  /\ x > 0 /\ \E n \in Of(p, DOMAIN all) : Diff(p, n) = x
  /\ \A n \in Of(p, DOMAIN all) : Diff(p, n) <= 0 \/ x <= Diff(p, n)
MediansFit(p, median, most) ==
  LET total == Cardinality(Of(p, DOMAIN all))
  IN /\ Ranked(p, most, (99 * total) \div 100)
     /\ \/ Ranked(p, median, total \div 2)
        \/ Ranked(p, 0, total \div 2) /\ NextAbove(p, median)

FiguresInv ==
  /\ at = "median" => Shows("median") /\ \A p \in Pairs : DOMAIN count_diffs[p] # {}
  /\ at \in {"average", "median", "range"} =>
       count_diffs = [p \in Pairs |-> Histogram(p, DOMAIN all)]
  /\ at \in {"average", "median", "range", "done"} =>
       diffs_neg = [p \in Pairs |-> Cardinality(Negatives(p, DOMAIN all))]
  /\ at \in {"range", "done"} /\ Shows("median") =>
       \A p \in Pairs : MediansFit(p, diffs_median[p], diffs_99_procent[p])
  /\ at = "done" => \A p \in Pairs :
       /\ \A r \in Ranges :
            in_ranges[p][r] = Cardinality({n \in Of(p, DOMAIN all) : Has(r, Diff(p, n))})
       /\ Values(count_diffs[p]) =
            Cardinality({n \in Of(p, DOMAIN all) : \A r \in Ranges : ~Has(r, Diff(p, n))})

AnalysisInv == TypeOK /\ PlaceInv /\ CountInv /\ ZeroedPerPair /\ FiguresInv
=============================================================================
