-------------------------- MODULE Measuring_proofs --------------------------
(***************************************************************************)
(* Of the programs that measure: the statistics thread never shows a       *)
(* packet twice, and what must have gone wrong if a program leaves its XDP *)
(* program on the device.  Of the scripts that analyse: what their figures *)
(* say of the packets, for any logs, ranges and number of iterations.      *)
(***************************************************************************)
EXTENDS Measuring, FiniteSetTheorems, FunctionTheorems, SequenceTheorems,
        NaturalsInduction, TLAPS

(* In every table the statistics thread is the last thing to be started,    *)
(* the options are parsed before the attaching, libbpf's own program comes  *)
(* after it, and the last thing undone is the attaching.                    *)
LEMMA Tables ==
  ASSUME program \in Programs
  PROVE  LET setup == program.setup  cleanup == program.cleanup
         IN /\ Len(setup) \in Nat /\ DOMAIN setup = 1 .. Len(setup)
            /\ Len(cleanup) \in Nat \ {0} /\ cleanup[Len(cleanup)] = "detach"
            /\ \A m \in 1 .. Len(setup) : setup[m] = "stats" => m = Len(setup)
            /\ AttachPlace \in 1 .. Len(setup) /\ setup[AttachPlace] = "attach"
            /\ \A m \in 1 .. Len(setup) :
                 /\ setup[m] = "attach" => m = AttachPlace
                 /\ setup[m] \in {"signal", "parse"} => m < AttachPlace
                 /\ setup[m] = "socket" => m > AttachPlace
<1>. DEFINE setup == program.setup
            Good(n) == /\ n \in 1 .. Len(setup) /\ setup[n] = "attach"
                       /\ \A m \in 1 .. Len(setup) :
                            /\ setup[m] = "attach" => m = n
                            /\ setup[m] \in {"signal", "parse"} => m < n
                            /\ setup[m] = "socket" => m > n
<1>1. CASE program = Xdp
  <2>1. Good(4)
    BY <1>1 DEF Xdp, XdpSetup
  <2>. QED BY <1>1, <2>1 DEF Xdp, XdpSetup, XdpCleanup, AttachPlace
<1>2. CASE program = Copy
  <2>1. Good(4)
    BY <1>2 DEF Copy, CopySetup
  <2>. QED BY <1>2, <2>1 DEF Copy, CopySetup, CopyCleanup, AttachPlace
<1>3. CASE program = OldEbpf
  <2>1. Good(4)
    BY <1>3 DEF OldEbpf, OldEbpfSetup
  <2>. QED BY <1>3, <2>1 DEF OldEbpf, OldEbpfSetup, OldEbpfCleanup, AttachPlace
<1>4. CASE program = Ebpf
  <2>1. Good(3)
    BY <1>4 DEF Ebpf, EbpfSetup
  <2>. QED BY <1>4, <2>1 DEF Ebpf, EbpfSetup, EbpfCleanup, AttachPlace
<1>. QED BY <1>1, <1>2, <1>3, <1>4, ProgramsAssumption

LEMMA IntervalsInit == Init => IntervalsInv
  BY DEF Init, IntervalsInv

(* A step of the set-up that is not yet done leaves the thread off, and     *)
(* after its own step, the last, there is no other.                         *)
LEMMA StatsIsLast ==
  ASSUME IntervalsInv, In("setup")
  PROVE  /\ stats = "off"
         /\ Table = program.setup
         /\ At("stats") => main.i = Len(program.setup)
  BY Tables DEF IntervalsInv, In, At, Table

LEMMA EndsKeeps ==
  ASSUME IntervalsInv, NEW how, NEW device, Ends(how, device)
  PROVE  IntervalsInv'
  BY DEF IntervalsInv, Ends, To

LEMMA IntervalsStep == IntervalsInv /\ [Next]_vars => IntervalsInv'
<1>. SUFFICES ASSUME IntervalsInv, [Next]_vars PROVE IntervalsInv'
  OBVIOUS
<1>1. CASE Start
  BY <1>1 DEF Start, Running, To, counts, IntervalsInv
<1>2. CASE Signal
  BY <1>2, StatsIsLast DEF Signal, Onward, counts, IntervalsInv
<1>3. CASE Parse
  <2>1. PICK o \in Options :
          \/ Ends("option", attached)
          \/ \E device \in {"none", attached} : Ends("unloaded", device)
          \/ Onward /\ UNCHANGED <<program, attached, armed, global_exit, counts, ended>>
    BY <1>3 DEF Parse
  <2>2. CASE Ends("option", attached) \/ \E device \in {"none", attached} : Ends("unloaded", device)
    BY <2>2, EndsKeeps
  <2>3. CASE Onward /\ UNCHANGED <<program, attached, armed, global_exit, counts, ended>>
    BY <1>3, <2>3, StatsIsLast DEF Parse, Onward, counts, IntervalsInv
  <2>. QED BY <2>1, <2>2, <2>3
<1>4. CASE Prepare
  <2>1. /\ stats = "off" /\ main.part = "setup" /\ main' = [main EXCEPT !.i = @ + 1]
        /\ stats' = IF At("stats") /\ cfg.verbose THEN "sleep" ELSE stats
        /\ UNCHANGED <<program, sent, rx_packets, previous_stats, shown>>
    BY <1>4, StatsIsLast DEF Prepare, In, Onward
  <2>2. CASE stats' = "off"
    BY <2>1, <2>2 DEF IntervalsInv
  <2>3. CASE At("stats") /\ stats' = "sleep"
    <3>1. main.i = Len(program.setup)
      BY <1>4, <2>3, StatsIsLast DEF Prepare
    <3>2. main'.i = main.i + 1 /\ main'.part = "setup" /\ main.i \in Nat
      BY <2>1 DEF IntervalsInv
    <3>3. main'.i > Len(program'.setup)
      BY <2>1, <3>1, <3>2
    <3>. QED BY <2>1, <2>3, <3>2, <3>3 DEF IntervalsInv
  <2>. QED BY <2>1, <2>2, <2>3
<1>5. CASE PrepareFails
  BY <1>5, EndsKeeps DEF PrepareFails
<1>6. CASE Prepared
  BY <1>6 DEF Prepared, To, counts, IntervalsInv
<1>7. CASE While \/ Poll
  BY <1>7 DEF While, Poll, In, To, Onward, counts, IntervalsInv
<1>8. CASE Handle
  <2>1. PICK n \in 0 .. sent - rx_packets : rx_packets' = rx_packets + n
    BY <1>8 DEF Handle
  <2>2. /\ main.part = "loop" /\ main' = [main EXCEPT !.i = 1]
        /\ UNCHANGED <<program, sent, stats, previous_stats, shown>>
    BY <1>8 DEF Handle, In
  <2>. QED BY <2>1, <2>2 DEF IntervalsInv
<1>9. CASE Cleanup
  BY <1>9 DEF Cleanup, In, Onward, counts, IntervalsInv
<1>10. CASE Return \/ Killed \/ CleanupFails
  BY <1>10, EndsKeeps DEF Return, Killed, CleanupFails
<1>11. CASE exit_application
  BY <1>11 DEF exit_application, Waiting, In, counts, IntervalsInv
<1>12. CASE StatsPrint
  BY <1>12 DEF StatsPrint, IntervalsInv
<1>13. CASE StatsKeep
  BY <1>13 DEF StatsKeep, IntervalsInv
<1>14. CASE Packet
  BY <1>14 DEF Packet, IntervalsInv
<1>15. CASE Someone
  BY <1>15 DEF Someone, counts, IntervalsInv
<1>16. CASE UNCHANGED vars
  BY <1>16 DEF vars, counts, IntervalsInv
<1>. QED
  BY <1>1, <1>2, <1>3, <1>4, <1>5, <1>6, <1>7, <1>8, <1>9, <1>10, <1>11, <1>12, <1>13,
     <1>14, <1>15, <1>16 DEF Next, main_, stats_poll

(* stats_poll copies xsk->stats after it has printed it, while main goes on *)
(* counting there (lines 502-504 of xdp_measure_user.c): its intervals do   *)
(* not overlap, and what they show never passes the total.                  *)
THEOREM IntervalsNeverOverlap == Spec => []IntervalsDisjoint
<1>1. IntervalsInv => IntervalsDisjoint
  BY DEF IntervalsInv, IntervalsDisjoint
<1>. QED BY IntervalsInit, IntervalsStep, <1>1, PTL DEF Spec

-----------------------------------------------------------------------------
(* What is left on the device.                                              *)

LEMMA SamePlace == UNCHANGED program => AttachPlace' = AttachPlace
  BY DEF AttachPlace

LEMMA AttachedStutter ==
  ASSUME AttachedInv, attached' \in {attached, "none", "other"},
         UNCHANGED <<program, main>>
  PROVE  AttachedInv'
  BY SamePlace DEF AttachedInv

LEMMA EndsDetached ==
  ASSUME AttachedInv, NEW how, NEW device, Ends(how, device)
  PROVE  /\ AttachedInv' /\ attached' # "mine" /\ ended'.how = how
         /\ ended'.at = IF main.i <= Len(Table) THEN Table[main.i] ELSE "end"
         /\ attached' = "left" => device \in {"mine", "left"}
  BY DEF AttachedInv, Ends, To

LEMMA SetupPlace ==
  ASSUME AttachedInv, In("setup")
  PROVE  /\ Table = program.setup /\ main.part = "setup"
         /\ main.i \in 1 .. Len(program.setup)
         /\ At("attach") => main.i = AttachPlace
         /\ At("signal") \/ At("parse") => main.i < AttachPlace
         /\ At("socket") => main.i > AttachPlace
         /\ AttachPlace \in Nat
<1>1. /\ Table = program.setup /\ main.part = "setup" /\ main.i \in Nat \ {0}
      /\ main.i <= Len(program.setup) /\ program \in Programs
  BY DEF AttachedInv, In, Table
<1>2. main.i \in 1 .. Len(program.setup) /\ AttachPlace \in Nat
  BY <1>1, Tables
<1>. QED BY <1>1, <1>2, Tables DEF At

LEMMA SetupOnward ==
  ASSUME AttachedInv, In("setup"), Onward, UNCHANGED program,
         attached' = "mine" => attached = "mine" \/ main.i >= AttachPlace
  PROVE  AttachedInv'
<1>1. /\ main' = [main EXCEPT !.i = @ + 1] /\ main.part = "setup" /\ AttachPlace \in Nat
      /\ program \in Programs
      /\ main \in [part : {"idle", "setup", "loop", "cleanup"}, i : Nat \ {0}]
  BY SetupPlace DEF Onward, AttachedInv
<1>2. /\ main'.part = "setup" /\ main'.i = main.i + 1 /\ main.i \in Nat
      /\ main' \in [part : {"idle", "setup", "loop", "cleanup"}, i : Nat \ {0}]
  BY <1>1
<1>3. attached' = "mine" => main'.i > AttachPlace
  BY <1>1, <1>2 DEF AttachedInv
<1>. QED BY <1>1, <1>2, <1>3, SamePlace DEF AttachedInv

LEMMA AttachedStep == AttachedInv /\ [Next]_vars => AttachedInv'
<1>. SUFFICES ASSUME AttachedInv, [Next]_vars PROVE AttachedInv'
  OBVIOUS
<1>1. CASE Start
  BY <1>1, Tables DEF Start, Running, To, AttachedInv
<1>2. CASE Signal
  BY <1>2, SetupOnward DEF Signal
<1>3. CASE Parse
  BY <1>3, EndsDetached, SetupOnward DEF Parse
<1>4. CASE Prepare
  <2>1. In("setup") /\ Onward /\ UNCHANGED program
    BY <1>4 DEF Prepare
  <2>2. /\ At("attach") => main.i = AttachPlace
        /\ At("socket") => main.i > AttachPlace
        /\ main.i \in Nat /\ AttachPlace \in Nat
    BY <2>1, SetupPlace
  <2>3. attached' = "mine" => attached = "mine" \/ At("attach") \/ At("socket")
    BY <1>4 DEF Prepare
  <2>4. attached' = "mine" => attached = "mine" \/ main.i >= AttachPlace
    BY <2>2, <2>3
  <2>. QED BY <2>1, <2>4, SetupOnward
<1>5. CASE PrepareFails
  BY <1>5, EndsDetached DEF PrepareFails
<1>6. CASE Prepared
  BY <1>6 DEF Prepared, To, AttachedInv
<1>7. CASE While \/ Poll \/ Handle
  <2>1. /\ main.part = "loop" /\ UNCHANGED <<program, attached>>
        /\ \/ main' = [main EXCEPT !.i = @ + 1]
           \/ main' = [main EXCEPT !.i = 1]
           \/ main' = [part |-> "cleanup", i |-> 1]
    BY <1>7 DEF While, Poll, Handle, In, To, Onward
  <2>2. /\ program' \in Programs /\ 1 <= Len(program'.cleanup)
        /\ main' \in [part : {"idle", "setup", "loop", "cleanup"}, i : Nat \ {0}]
        /\ main'.part = "loop" \/ (main'.part = "cleanup" /\ main'.i = 1)
    BY <2>1, Tables DEF AttachedInv
  <2>. QED BY <2>2 DEF AttachedInv
<1>8. CASE Cleanup
  <2>1. /\ main.part = "cleanup" /\ main.i <= Len(program.cleanup) /\ UNCHANGED program
        /\ main' = [main EXCEPT !.i = @ + 1] /\ Table = program.cleanup
        /\ attached' = IF At("detach") THEN "none" ELSE attached
    BY <1>8 DEF Cleanup, In, Onward, Table, AttachedInv
  <2>2. /\ program \in Programs
        /\ main'.part = "cleanup" /\ main'.i = main.i + 1 /\ main.i \in Nat
        /\ main' \in [part : {"idle", "setup", "loop", "cleanup"}, i : Nat \ {0}]
    BY <2>1 DEF AttachedInv
  <2>3. main.i = Len(program.cleanup) => attached' = "none"
    BY <2>1, <2>2, Tables DEF At
  <2>4. attached' = "mine" => main'.i <= Len(program'.cleanup)
    BY <2>1, <2>2, <2>3, Tables
  <2>. QED BY <2>1, <2>2, <2>4 DEF AttachedInv
<1>9. CASE Return \/ Killed \/ CleanupFails
  BY <1>9, EndsDetached DEF Return, Killed, CleanupFails
<1>10. CASE exit_application
  <2>1. /\ main' = main \/ (main.part = "loop" /\ main' = [main EXCEPT !.i = 1])
        /\ UNCHANGED <<program, attached>>
    BY <1>10 DEF exit_application, Waiting, In
  <2>. QED BY <2>1, SamePlace DEF AttachedInv
<1>11. CASE StatsPrint \/ StatsKeep \/ Packet \/ Someone
  BY <1>11, AttachedStutter DEF StatsPrint, StatsKeep, Packet, Someone
<1>12. CASE UNCHANGED vars
  BY <1>12, AttachedStutter DEF vars
<1>. QED
  BY <1>1, <1>2, <1>3, <1>4, <1>5, <1>6, <1>7, <1>8, <1>9, <1>10, <1>11, <1>12
  DEF Next, main_, stats_poll

(* LeftByWhom: of the four programs, however they are run one after the     *)
(* other and whatever others do with the device, one that leaves its XDP    *)
(* program there was killed, gave up at a step after the attaching, crashed *)
(* on a log file it could not open, or failed to detach.  In particular     *)
(* Ctrl+C leaves it only through the last two.                              *)
THEOREM LeftByKilledOrFailed == Spec => LeftByWhom
<1>1. Init => AttachedInv
  BY DEF Init, AttachedInv
<1>2. ASSUME AttachedInv, [Next]_vars, attached' = "left", attached # "left"
      PROVE  \/ ended'.how = "killed"
             \/ ended'.how = "failure" /\ AfterAttach(ended'.at)
             \/ ended'.how = "crashed" /\ ended'.at \in {"export_us", "export_kern"}
             \/ ended'.how = "undetached"
  <2>1. CASE Killed
    BY <1>2, <2>1, EndsDetached DEF Killed
  <2>2. CASE PrepareFails
    <3>1. In("setup")
      BY <2>2 DEF PrepareFails
    <3>2. /\ Table = program.setup /\ main.i \in 1 .. Len(program.setup)
          /\ AttachPlace \in Nat /\ (At("socket") => main.i > AttachPlace)
      BY <1>2, <3>1, SetupPlace
    <3>3. attached = "mine" => main.i > AttachPlace
      BY <1>2, <3>1, SetupPlace DEF AttachedInv
    <3>4. \/ Ends("failure", attached)
          \/ At("socket") /\ Ends("failure", "mine")
      BY <2>2 DEF PrepareFails
    <3>5. ended'.how = "failure" /\ main.i > AttachPlace
      BY <1>2, <3>2, <3>3, <3>4, EndsDetached
    <3>6. ended'.at = program.setup[main.i]
      BY <1>2, <3>2, <3>4, EndsDetached
    <3>. QED BY <3>2, <3>5, <3>6 DEF AfterAttach
  <2>3. CASE Parse
    <3>1. In("setup") /\ At("parse")
      BY <2>3 DEF Parse
    <3>2. attached # "mine"
      BY <1>2, <3>1, SetupPlace DEF AttachedInv
    <3>. QED BY <1>2, <2>3, <3>2, EndsDetached DEF Parse
  <2>4. CASE Return
    <3>1. main.part = "cleanup" /\ main.i > Len(program.cleanup)
      BY <1>2, <2>4 DEF Return, Table, AttachedInv
    <3>2. attached # "mine"
      BY <1>2, <3>1, Tables DEF AttachedInv
    <3>. QED BY <1>2, <2>4, <3>2, EndsDetached DEF Return
  <2>5. CASE CleanupFails
    <3>1. \/ /\ At("export_us") \/ At("export_kern")
             /\ Ends("crashed", attached)
          \/ Ends("undetached", attached)
      BY <2>5 DEF CleanupFails
    <3>. QED BY <1>2, <3>1, EndsDetached DEF At
  <2>6. ~(Killed \/ PrepareFails \/ Parse \/ Return \/ CleanupFails) => attached' \in {attached, "mine", "none", "other"}
    BY <1>2 DEF Next, main_, stats_poll, Start, Signal, Prepare, Prepared, While, Poll, Handle,
                Cleanup, exit_application, StatsPrint, StatsKeep, Packet, Someone, vars
  <2>. QED BY <1>2, <2>1, <2>2, <2>3, <2>4, <2>5, <2>6
<1>. QED BY <1>1, <1>2, AttachedStep, PTL DEF Spec, LeftByWhom

-----------------------------------------------------------------------------
(* The least and the greatest of a finite set of numbers exist. *)

LEMMA LeastOfNats ==
  ASSUME NEW T, T \subseteq Nat, T # {}
  PROVE  \E x \in T : \A y \in T : x <= y
<1>1. PICK x \in T : \A y \in T : ~ (<<y, x>> \in OpToRel(<, Nat))
  BY NatLessThanWellFounded, WFMin
<1>2. \A y \in T : ~ (y < x)
  BY <1>1 DEF OpToRel
<1>. QED BY <1>2

LEMMA LeastOfInts ==
  ASSUME NEW S, S \subseteq Int, IsFiniteSet(S), S # {}
  PROVE  /\ Min(S) \in S /\ \A y \in S : Min(S) <= y
         /\ \E x \in S : \A y \in S : y <= x
<1>. DEFINE below(x) == {y \in S : y < x}
            above(x) == {y \in S : y > x}
            b == [x \in S |-> Cardinality(below(x))]
            a == [x \in S |-> Cardinality(above(x))]
<1>1. \A x \in S : /\ IsFiniteSet(below(x)) /\ b[x] \in Nat
                   /\ IsFiniteSet(above(x)) /\ a[x] \in Nat
  BY FS_Subset, FS_CardinalityType
<1>2. ASSUME NEW x \in S, NEW y \in S, y < x PROVE b[y] < b[x]
  <2>1. x \in Int /\ y \in Int
    OBVIOUS
  <2>2. below(y) \in SUBSET below(x) /\ y \in below(x) /\ y \notin below(y)
    <3>1. ASSUME NEW u \in S, u < y PROVE u < x
      <4>1. u \in Int
        OBVIOUS
      <4>. QED BY <1>2, <2>1, <3>1, <4>1
    <3>2. y \in below(x)
      BY <1>2
    <3>3. y \notin below(y)
      BY <2>1
    <3>. QED BY <3>1, <3>2, <3>3
  <2>3. IsFiniteSet(below(x)) /\ below(x) # below(y)
    BY <1>1, <2>2
  <2>. HIDE DEF below
  <2>4. Cardinality(below(y)) <= Cardinality(below(x)) /\ Cardinality(below(y)) # Cardinality(below(x))
    BY <2>2, <2>3, FS_Subset
  <2>5. b[y] = Cardinality(below(y)) /\ b[x] = Cardinality(below(x))
    OBVIOUS
  <2>6. b[y] \in Nat /\ b[x] \in Nat
    BY <1>1
  <2>. HIDE DEF b
  <2>. QED BY <2>4, <2>5, <2>6
<1>3. ASSUME NEW x \in S, NEW y \in S, y > x PROVE a[y] < a[x]
  <2>1. x \in Int /\ y \in Int
    OBVIOUS
  <2>2. above(y) \in SUBSET above(x) /\ y \in above(x) /\ y \notin above(y)
    <3>1. ASSUME NEW u \in S, u > y PROVE u > x
      <4>1. u \in Int
        OBVIOUS
      <4>. QED BY <1>3, <2>1, <3>1, <4>1
    <3>2. y \in above(x)
      BY <1>3
    <3>3. y \notin above(y)
      BY <2>1
    <3>. QED BY <3>1, <3>2, <3>3
  <2>3. IsFiniteSet(above(x)) /\ above(x) # above(y)
    BY <1>1, <2>2
  <2>. HIDE DEF above
  <2>4. Cardinality(above(y)) <= Cardinality(above(x)) /\ Cardinality(above(y)) # Cardinality(above(x))
    BY <2>2, <2>3, FS_Subset
  <2>5. a[y] = Cardinality(above(y)) /\ a[x] = Cardinality(above(x))
    OBVIOUS
  <2>6. a[y] \in Nat /\ a[x] \in Nat
    BY <1>1
  <2>. HIDE DEF a
  <2>. QED BY <2>4, <2>5, <2>6
<1>. HIDE DEF a, b
<1>4. PICK x \in S : \A y \in S : b[x] <= b[y]
  <2>. DEFINE T == {b[v] : v \in S}
  <2>1. T \subseteq Nat /\ T # {}
    BY <1>1
  <2>. HIDE DEF T
  <2>2. PICK m \in T : \A n \in T : m <= n
    BY <2>1, LeastOfNats
  <2>. QED BY <2>2 DEF T
<1>5. PICK z \in S : \A y \in S : a[z] <= a[y]
  <2>. DEFINE T == {a[v] : v \in S}
  <2>1. T \subseteq Nat /\ T # {}
    BY <1>1
  <2>. HIDE DEF T
  <2>2. PICK m \in T : \A n \in T : m <= n
    BY <2>1, LeastOfNats
  <2>. QED BY <2>2 DEF T
<1>6. ASSUME NEW y \in S PROVE x <= y
  <2>1. x \in Int /\ y \in Int /\ b[x] <= b[y] /\ b[x] \in Nat /\ b[y] \in Nat
    BY <1>1, <1>4
  <2>2. ~ (b[y] < b[x])
    BY <2>1
  <2>3. ~ (y < x)
    BY <1>2, <2>2
  <2>. QED BY <2>1, <2>3
<1>7. ASSUME NEW y \in S PROVE y <= z
  <2>1. z \in Int /\ y \in Int /\ a[z] <= a[y] /\ a[z] \in Nat /\ a[y] \in Nat
    BY <1>1, <1>5
  <2>2. ~ (a[y] < a[z])
    BY <2>1
  <2>3. ~ (y > z)
    BY <1>3, <2>2
  <2>. QED BY <2>1, <2>3
<1>. QED BY <1>6, <1>7 DEF Min

-----------------------------------------------------------------------------
(* The sum over a histogram is the number of what was counted. *)

Mapped(S, f, K) == {n \in S : f[n] \in K}

LEMMA SumOfCounts ==
  ASSUME NEW S, IsFiniteSet(S), NEW f, NEW h, NEW K,
         \A d \in K : h[d] = Cardinality(Mapped(S, f, {d}))
  PROVE  Sum(h, K) = Cardinality(Mapped(S, f, K))
<1>. DEFINE class(d) == {n \in S : f[n] = d}
            U == UNION {{d} \X (1 .. h[d]) : d \in K}
            T == {n \in S : f[n] \in K}
            g == [d \in K |-> CHOOSE b : b \in Bijection(1 .. h[d], class(d))]
            m == [x \in U |-> g[x[1]][x[2]]]
<1>1. ASSUME NEW d \in K PROVE g[d] \in Bijection(1 .. h[d], class(d))
  <2>1. IsFiniteSet(class(d))
    BY FS_Subset
  <2>2. h[d] = Cardinality(class(d))
    <3>1. Mapped(S, f, {d}) = class(d)
      BY DEF Mapped
    <3>. QED BY <3>1
  <2>3. ExistsBijection(1 .. h[d], class(d))
    BY <2>1, <2>2, FS_CardinalityType
  <2>. QED BY <2>3 DEF ExistsBijection
<1>. HIDE DEF g
<1>2. \A x \in U : x[1] \in K /\ x[2] \in 1 .. h[x[1]] /\ x = <<x[1], x[2]>>
  OBVIOUS
<1>3. \A d \in K : \A j \in 1 .. h[d] : <<d, j>> \in U
  OBVIOUS
<1>. HIDE DEF U
<1>4. ASSUME NEW x \in U PROVE m[x] \in T /\ f[m[x]] = x[1] /\ m[x] = g[x[1]][x[2]]
  <2>1. g[x[1]] \in [1 .. h[x[1]] -> class(x[1])]
    BY <1>1, <1>2 DEF Bijection, Injection
  <2>2. m[x] \in class(x[1])
    BY <1>2, <2>1
  <2>. QED BY <1>2, <2>2
<1>. HIDE DEF m
<1>5. m \in [U -> T]
  BY <1>4 DEF m
<1>6. ASSUME NEW x \in U, NEW y \in U, m[x] = m[y] PROVE x = y
  <2>1. x[1] = y[1]
    BY <1>4, <1>6
  <2>2. \A j, k \in 1 .. h[x[1]] : g[x[1]][j] = g[x[1]][k] => j = k
    <3>1. g[x[1]] \in Bijection(1 .. h[x[1]], class(x[1]))
      BY <1>1, <1>2
    <3>. QED BY <3>1 DEF Bijection, Injection, IsInjective
  <2>3. x[2] = y[2]
    BY <1>2, <1>4, <1>6, <2>1, <2>2
  <2>. QED BY <1>2, <2>1, <2>3
<1>7. ASSUME NEW n \in T PROVE \E x \in U : m[x] = n
  <2>1. f[n] \in K /\ n \in class(f[n])
    OBVIOUS
  <2>2. PICK j \in 1 .. h[f[n]] : g[f[n]][j] = n
    BY <1>1, <2>1 DEF Bijection, Surjection
  <2>3. <<f[n], j>> \in U
    BY <1>3, <2>1
  <2>4. m[<<f[n], j>>] = n
    BY <1>4, <2>2, <2>3
  <2>. QED BY <2>3, <2>4
<1>8. m \in Bijection(U, T)
  BY <1>5, <1>6, <1>7 DEF Bijection, Injection, Surjection, IsInjective
<1>9. ExistsBijection(T, U)
  BY <1>8, Fun_ExistsBijSymmetric DEF ExistsBijection
<1>10. IsFiniteSet(T)
  BY FS_Subset
<1>11. Cardinality(U) = Cardinality(T)
  BY <1>9, <1>10, FS_Bijection
<1>. QED BY <1>11 DEF Sum, U, Mapped

-----------------------------------------------------------------------------
(* The tables of the three scripts. *)

LEMMA AfterFigure ==
  ASSUME NEW n \in DOMAIN script.figures,
         \A m \in DOMAIN script.figures : script.figures[m] = script.figures[n] => m = n
  PROVE  After(script.figures[n]) =
           IF n = Len(script.figures) THEN "done" ELSE script.figures[n + 1]
<1>1. (CHOOSE m \in DOMAIN script.figures : script.figures[m] = script.figures[n]) = n
  OBVIOUS
<1>. QED BY <1>1 DEF After

LEMMA ScriptShape ==
  ASSUME Inputs, script \in {Combi, StressNon, Improved}
  PROVE  /\ script.to_subtract \in Seq(Log \X Log) /\ Len(script.to_subtract) \in Nat \ {0}
         /\ Pairs = 1 .. Len(script.to_subtract) /\ script.iterations \in Nat
         /\ After("halve") = "average" /\ After("range") = "done"
         /\ After("average") = IF Shows("median") THEN "median" ELSE "range"
         /\ Shows("median") => After("median") = "range"
<1>1. CASE script = Combi \/ script = StressNon
  <2>1. /\ script.to_subtract = <<<<1, 0>>, <<2, 0>>, <<4, 3>>, <<5, 3>>>>
        /\ script.iterations = nbr_iteration
        /\ script.figures = <<"halve", "average", "median", "range">>
    BY <1>1 DEF Combi, StressNon, CombiPairs, StressNonPairs, CombiFigures, StressNonFigures
  <2>2. DOMAIN script.figures = 1 .. 4 /\ Len(script.figures) = 4
    BY <2>1
  <2>3. /\ script.figures[1] = "halve" /\ script.figures[2] = "average"
        /\ script.figures[3] = "median"
        /\ script.figures[4] = "range" /\ Shows("median")
    BY <2>1, <2>2 DEF Shows
  <2>4. /\ After("halve") = "average" /\ After("range") = "done"
        /\ After("average") = "median" /\ After("median") = "range"
    <3>1. \A n \in 1 .. 4 : After(script.figures[n]) = IF n = 4 THEN "done" ELSE script.figures[n + 1]
      BY <2>2, <2>3, AfterFigure
    <3>. QED BY <2>3, <3>1
  <2>5. script.to_subtract \in Seq(Log \X Log) /\ Len(script.to_subtract) = 4
    BY <2>1 DEF Log
  <2>. QED BY <2>1, <2>3, <2>4, <2>5 DEF Inputs, Pairs
<1>2. CASE script = Improved
  <2>1. /\ script.to_subtract = <<<<1, 0>>, <<2, 0>>, <<2, 1>>, <<4, 3>>, <<5, 3>>, <<5, 4>>>>
        /\ script.iterations = 1
        /\ script.figures = <<"halve", "average", "range">>
    BY <1>2 DEF Improved, ImprovedPairs, ImprovedFigures
  <2>2. DOMAIN script.figures = 1 .. 3 /\ Len(script.figures) = 3
    BY <2>1
  <2>3. /\ script.figures[1] = "halve" /\ script.figures[2] = "average"
        /\ script.figures[3] = "range" /\ ~Shows("median")
    BY <2>1, <2>2 DEF Shows
  <2>4. /\ After("halve") = "average" /\ After("range") = "done" /\ After("average") = "range"
    <3>1. \A n \in 1 .. 3 : After(script.figures[n]) = IF n = 3 THEN "done" ELSE script.figures[n + 1]
      BY <2>2, <2>3, AfterFigure
    <3>. QED BY <2>3, <3>1
  <2>5. script.to_subtract \in Seq(Log \X Log) /\ Len(script.to_subtract) = 6
    BY <2>1 DEF Log
  <2>. QED BY <2>1, <2>3, <2>4, <2>5 DEF Pairs
<1>. QED BY <1>1, <1>2

LEMMA PairShape ==
  ASSUME Inputs, TypeOK, NEW p \in Pairs
  PROVE  /\ script.to_subtract[p] \in Log \X Log
         /\ script.to_subtract[p][1] \in Log /\ script.to_subtract[p][2] \in Log
         /\ \A n \in DOMAIN all : Diff(p, n) \in Int
<1>1. script.to_subtract[p] \in Log \X Log
  BY ScriptShape DEF TypeOK
<1>2. \A n \in DOMAIN all : all[n] \in [Log -> Nat]
  BY DEF TypeOK
<1>. QED BY <1>1, <1>2 DEF Diff

-----------------------------------------------------------------------------
(* One packet more in a histogram. *)

LEMMA OfFinite ==
  ASSUME NEW N, IsFiniteSet(N), NEW p
  PROVE  /\ IsFiniteSet(Of(p, N)) /\ Cardinality(Of(p, N)) \in Nat
         /\ IsFiniteSet({n \in Of(p, N) : Diff(p, n) < 0})
         /\ Cardinality({n \in Of(p, N) : Diff(p, n) < 0}) \in Nat
         /\ \A d : /\ IsFiniteSet({n \in Of(p, N) : Diff(p, n) = d})
                   /\ Cardinality({n \in Of(p, N) : Diff(p, n) = d}) \in Nat
<1>1. IsFiniteSet(Of(p, N))
  BY FS_Subset DEF Of
<1>. QED BY <1>1, FS_Subset, FS_CardinalityType

LEMMA HistogramSame ==
  ASSUME NEW p, NEW N, NEW m, \E s \in 1 .. 2 : all[m][script.to_subtract[p][s]] = 0
  PROVE  /\ Histogram(p, N \cup {m}) = Histogram(p, N)
         /\ Negatives(p, N \cup {m}) = Negatives(p, N)
<1>1. Of(p, N \cup {m}) = Of(p, N)
  BY DEF Of
<1>. QED BY <1>1 DEF Histogram, Negatives

LEMMA HistogramAdd ==
  ASSUME NEW p, NEW N, IsFiniteSet(N), NEW m, m \notin N,
         \A s \in 1 .. 2 : all[m][script.to_subtract[p][s]] # 0,
         NEW d, d = Diff(p, m), NEW h, h = Histogram(p, N),
         NEW g, g = IF d \in DOMAIN h THEN h[d] ELSE 0
  PROVE  /\ Histogram(p, N \cup {m}) = [e \in DOMAIN h \cup {d} |-> IF e = d THEN g + 1 ELSE h[e]]
         /\ Cardinality(Negatives(p, N \cup {m})) =
              Cardinality(Negatives(p, N)) + IF d < 0 THEN 1 ELSE 0
<1>. DEFINE S == Of(p, N)
            class(e) == {n \in S : Diff(p, n) = e}
            more(e) == {n \in S \cup {m} : Diff(p, n) = e}
<1>1. Of(p, N \cup {m}) = S \cup {m} /\ m \notin S
  BY DEF Of
<1>2. IsFiniteSet(S)
  BY OfFinite
<1>3. ASSUME NEW e PROVE IsFiniteSet(class(e)) /\ Cardinality(class(e)) \in Nat
  BY <1>2, FS_Subset, FS_CardinalityType
<1>4. \A e : e # d => more(e) = class(e)
  OBVIOUS
<1>5. more(d) = class(d) \cup {m} /\ m \notin class(d)
  BY <1>1
<1>6. Cardinality(more(d)) = Cardinality(class(d)) + 1
  <2>1. IsFiniteSet(class(d))
    BY <1>3
  <2>. HIDE DEF class, more
  <2>. QED BY <1>5, <2>1, FS_AddElement
<1>7. h = [e \in {Diff(p, n) : n \in S} |-> Cardinality(class(e))]
  BY DEF Histogram
<1>8. g = Cardinality(class(d))
  <2>1. CASE d \in DOMAIN h
    BY <1>7, <2>1
  <2>2. CASE d \notin DOMAIN h
    <3>1. class(d) = {}
      BY <1>7, <2>2
    <3>. QED BY <2>2, <3>1, FS_EmptySet
  <2>. QED BY <2>1, <2>2
<1>9. Histogram(p, N \cup {m}) = [e \in {Diff(p, n) : n \in S \cup {m}} |-> Cardinality(more(e))]
  BY <1>1 DEF Histogram
<1>10. {Diff(p, n) : n \in S \cup {m}} = DOMAIN h \cup {d}
  BY <1>7
<1>11. ASSUME NEW e \in DOMAIN h \cup {d}
       PROVE  Cardinality(more(e)) = IF e = d THEN g + 1 ELSE h[e]
  <2>1. CASE e = d
    BY <1>6, <1>8, <2>1
  <2>2. CASE e # d
    BY <1>4, <1>7, <2>2
  <2>. QED BY <2>1, <2>2
<1>12. Cardinality(Negatives(p, N \cup {m})) =
         Cardinality(Negatives(p, N)) + IF d < 0 THEN 1 ELSE 0
  <2>1. IsFiniteSet(Negatives(p, N)) /\ Cardinality(Negatives(p, N)) \in Nat
    BY OfFinite DEF Negatives
  <2>2. CASE d < 0
    <3>1. Negatives(p, N \cup {m}) = Negatives(p, N) \cup {m} /\ m \notin Negatives(p, N)
      BY <1>1, <2>2 DEF Negatives
    <3>. QED BY <2>1, <2>2, <3>1, FS_AddElement
  <2>3. CASE ~ (d < 0)
    <3>1. Negatives(p, N \cup {m}) = Negatives(p, N)
      BY <1>1, <2>3 DEF Negatives
    <3>. QED BY <2>1, <2>3, <3>1
  <2>. QED BY <2>2, <2>3
<1>. QED BY <1>9, <1>10, <1>11, <1>12

-----------------------------------------------------------------------------
(* What is said of packets and pairs does not change with the rest. *)

LEMMA Frame ==
  ASSUME UNCHANGED <<script, all>>
  PROVE  /\ Pairs' = Pairs /\ \A k : PairsOf(k)' = PairsOf(k) /\ Zeroes(k)' = Zeroes(k)
         /\ \A p, n : Diff(p, n)' = Diff(p, n)
         /\ \A p, N : /\ Of(p, N)' = Of(p, N) /\ Histogram(p, N)' = Histogram(p, N)
                      /\ Negatives(p, N)' = Negatives(p, N)
<1>1. \A p, n : Diff(p, n)' = Diff(p, n)
  BY DEF Diff
<1>2. \A p, N : Of(p, N)' = Of(p, N)
  BY DEF Of
<1>3. \A p, N : Histogram(p, N)' = Histogram(p, N)
  BY <1>1, <1>2 DEF Histogram
<1>4. \A p, N : Negatives(p, N)' = Negatives(p, N)
  BY <1>1, <1>2 DEF Negatives
<1>5. Pairs' = Pairs
  BY DEF Pairs
<1>6. \A k : PairsOf(k)' = PairsOf(k)
  BY <1>5 DEF PairsOf
<1>7. \A k : Zeroes(k)' = Zeroes(k)
  BY DEF Zeroes
<1>. QED BY <1>1, <1>2, <1>3, <1>4, <1>5, <1>6, <1>7

-----------------------------------------------------------------------------
(* The counting loops. *)

LEMMA AllFinite ==
  ASSUME TypeOK
  PROVE  /\ Len(all) \in Nat /\ DOMAIN all = 1 .. Len(all) /\ IsFiniteSet(DOMAIN all)
         /\ Before \in Nat /\ Len(logs[0]) \in Nat /\ DOMAIN logs[0] = 1 .. Len(logs[0])
         /\ \A p : IsFiniteSet(Counted(p))
<1>1. Len(all) \in Nat /\ DOMAIN all = 1 .. Len(all)
  BY DEF TypeOK
<1>2. 0 \in Log
  BY DEF Log
<1>3. logs[0] \in Seq(Nat) /\ Len(logs[0]) <= Len(all)
  BY <1>2 DEF TypeOK
<1>4. Len(logs[0]) \in Nat /\ DOMAIN logs[0] = 1 .. Len(logs[0])
  BY <1>3
<1>5. IsFiniteSet(DOMAIN all)
  BY <1>1, FS_Interval
<1>6. \A p : IsFiniteSet(Counted(p))
  BY <1>5, FS_Subset DEF Counted
<1>. QED BY <1>1, <1>3, <1>4, <1>5, <1>6 DEF Before

(* Between two iterations everything has been counted.                      *)
LEMMA AllCounted ==
  ASSUME TypeOK, PlaceInv, i > Len(logs[0])
  PROVE  \A p \in Pairs : Counted(p) = DOMAIN all
<1>1. i = Len(logs[0]) + 1
  BY AllFinite DEF TypeOK
<1>. QED BY <1>1, AllFinite DEF Counted, Before

LEMMA PairsFinite ==
  ASSUME Inputs, TypeOK, NEW k
  PROVE  /\ IsFiniteSet(PairsOf(k)) /\ Cardinality(PairsOf(k)) \in Nat
         /\ IsFiniteSet(Zeroed(k)) /\ Cardinality(Zeroed(k)) \in Nat
         /\ IsFiniteSet({n \in DOMAIN all : all[n][k] = 0}) /\ Zeroes(k) \in Nat
<1>1. Pairs = 1 .. Len(script.to_subtract) /\ Len(script.to_subtract) \in Nat
  BY ScriptShape DEF TypeOK
<1>2. IsFiniteSet(Pairs)
  BY <1>1, FS_Interval
<1>3. IsFiniteSet(PairsOf(k))
  BY <1>2, FS_Subset DEF PairsOf
<1>4. IsFiniteSet((DOMAIN all) \X PairsOf(k))
  BY <1>3, AllFinite, FS_Product
<1>5. IsFiniteSet(Zeroed(k))
  BY <1>4, FS_Subset DEF Zeroed
<1>6. IsFiniteSet({n \in DOMAIN all : all[n][k] = 0})
  BY AllFinite, FS_Subset
<1>. QED BY <1>3, <1>5, <1>6, FS_CardinalityType DEF Zeroes

LEMMA AnalysisInitInv == Inputs /\ LogsInit => AnalysisInv
<1>. SUFFICES ASSUME Inputs, LogsInit PROVE AnalysisInv
  OBVIOUS
<1>1. logs = [k \in Log |-> <<>>] /\ logs[0] = <<>> /\ all = <<>>
  BY DEF LogsInit, Log
<1>2. Len(logs[0]) = 0 /\ Len(all) = 0 /\ DOMAIN all = {} /\ DOMAIN logs[0] = {}
  BY <1>1
<1>3. /\ Pairs = 1 .. Len(script.to_subtract) /\ Len(script.to_subtract) \in Nat \ {0}
  BY ScriptShape DEF LogsInit
<1>4. TypeOK
  <2>1. <<>> \in Seq(Nat) /\ <<>> \in Seq([Log -> Nat])
    OBVIOUS
  <2>2. logs \in [Log -> Seq(Nat)] /\ all \in Seq([Log -> Nat]) /\ SameLengths(logs)
    BY <1>1, <2>1 DEF SameLengths
  <2>3. i \in 1 .. Len(logs[0]) + 1 /\ Len(logs[0]) <= Len(all) /\ pair_th \in Pairs
    BY <1>2, <1>3 DEF LogsInit
  <2>. QED BY <2>2, <2>3 DEF TypeOK, LogsInit
<1>5. PlaceInv
  BY <1>2 DEF PlaceInv, LogsInit
<1>6. \A p : Counted(p) = {} /\ Of(p, Counted(p)) = {}
  BY <1>2 DEF Counted, Of
<1>7. CountInv
  <2>1. \A k \in Log : Zeroed(k) = {}
    BY <1>2 DEF Zeroed
  <2>2. \A p : Histogram(p, Counted(p)) = NoDiffs /\ Negatives(p, Counted(p)) = {}
    BY <1>6 DEF Histogram, Negatives, NoDiffs
  <2>. QED BY <2>1, <2>2, FS_EmptySet DEF CountInv, LogsInit, Zero
<1>8. ZeroedPerPair /\ FiguresInv
  BY DEF ZeroedPerPair, FiguresInv, LogsInit
<1>. QED BY <1>4, <1>5, <1>7, <1>8 DEF AnalysisInv

LEMMA LoadLogsInv == Inputs /\ AnalysisInv /\ LoadLogs => AnalysisInv'
<1>. SUFFICES ASSUME Inputs, AnalysisInv, LoadLogs PROVE AnalysisInv'
  OBVIOUS
<1>1. TypeOK /\ PlaceInv /\ CountInv /\ at = "load"
  BY DEF AnalysisInv, LoadLogs
<1>2. /\ i' = 1 /\ pair_th' = 1 /\ script' = script /\ iteration' = iteration
      /\ UNCHANGED <<logs_zeroed, count_diffs, diffs_neg>>
  BY DEF LoadLogs, counters
<1>3. Pairs' = Pairs /\ 1 \in Pairs /\ \A p \in Pairs : p \in Nat /\ 1 <= p
  <2>1. Pairs = 1 .. Len(script.to_subtract) /\ Len(script.to_subtract) \in Nat \ {0}
    BY <1>1, ScriptShape DEF TypeOK
  <2>. QED BY <1>2, <2>1 DEF Pairs
<1>4. PICK l \in Loads :
        \/ /\ SameLengths(l) /\ at' = "count" /\ logs' = l
           /\ all' = all \o [n \in DOMAIN l[0] |-> [k \in Log |-> l[k][n]]]
        \/ ~SameLengths(l) /\ at' = "aborted" /\ UNCHANGED <<logs, all>>
  BY DEF LoadLogs
<1>5. CASE at' = "aborted"
  <2>1. UNCHANGED <<logs, all>>
    BY <1>4, <1>5
  <2>2. Before' = Before
    BY <2>1 DEF Before
  <2>3. TypeOK'
    <3>1. 1 \in 1 .. Len(logs[0]) + 1
      BY <1>1, AllFinite
    <3>. QED BY <1>1, <1>2, <1>3, <1>5, <2>1, <3>1 DEF TypeOK, SameLengths
  <2>4. PlaceInv'
    BY <1>1, <1>2, <1>5, <2>1, <2>2 DEF PlaceInv
  <2>. QED BY <1>5, <2>3, <2>4 DEF AnalysisInv, CountInv, ZeroedPerPair, FiguresInv
<1>6. CASE at' # "aborted"
  <2>. DEFINE new == [n \in DOMAIN l[0] |-> [k \in Log |-> l[k][n]]]
  <2>1. SameLengths(l) /\ at' = "count" /\ logs' = l /\ all' = all \o new
    BY <1>4, <1>6
  <2>2. l \in [Log -> Seq(Nat)] /\ 0 \in Log
    BY DEF Inputs, Log
  <2>3. \A k \in Log : Len(l[k]) = Len(l[0]) /\ DOMAIN l[k] = 1 .. Len(l[0])
    BY <2>1, <2>2 DEF SameLengths
  <2>4. Len(l[0]) \in Nat /\ DOMAIN l[0] = 1 .. Len(l[0])
    BY <2>2
  <2>5. new \in Seq([Log -> Nat]) /\ Len(new) = Len(l[0])
    <3>1. ASSUME NEW n \in 1 .. Len(l[0]) PROVE [k \in Log |-> l[k][n]] \in [Log -> Nat]
      BY <2>2, <2>3, <3>1
    <3>. QED BY <2>4, <3>1
  <2>. HIDE DEF new
  <2>6. all \in Seq([Log -> Nat])
    BY <1>1 DEF TypeOK
  <2>7. /\ all' \in Seq([Log -> Nat]) /\ Len(all') = Len(all) + Len(l[0])
        /\ \A n \in 1 .. Len(all) : all'[n] = all[n]
        /\ \A n \in 1 .. Len(l[0]) : all'[Len(all) + n] = new[n]
    BY <2>1, <2>4, <2>5, <2>6
  <2>8. DOMAIN all = 1 .. Len(all) /\ Len(all) \in Nat /\ DOMAIN all' = 1 .. Len(all) + Len(l[0])
    BY <1>1, <2>4, <2>7, AllFinite
  <2>9. Before' = Len(all)
    BY <2>1, <2>4, <2>7, <2>8 DEF Before
  <2>10. TypeOK'
    BY <1>1, <1>2, <1>3, <2>1, <2>2, <2>4, <2>7, <2>8 DEF TypeOK, SameLengths
  <2>11. PlaceInv'
    <3>1. \A n \in DOMAIN l[0], k \in Log : new[n][k] = l[k][n]
      BY DEF new
    <3>2. ASSUME NEW n \in DOMAIN l[0], NEW k \in Log PROVE all'[Before' + n][k] = l[k][n]
      <4>1. all'[Len(all) + n] = new[n]
        BY <2>4, <2>7
      <4>. QED BY <2>9, <3>1, <4>1
    <3>3. pair_th' = 1 /\ at' # "load"
      BY <1>2, <2>1
    <3>. QED BY <2>1, <3>2, <3>3 DEF PlaceInv
  <2>12. \A p \in Pairs : Counted(p)' = DOMAIN all /\ Counted(p) = DOMAIN all
    <3>1. \A p \in Pairs : Counted(p) = DOMAIN all
      BY <1>1, AllCounted DEF PlaceInv
    <3>2. ASSUME NEW p \in Pairs PROVE Counted(p)' = DOMAIN all
      <4>1. Counted(p)' = {n \in DOMAIN all' : n < Len(all) + 1 \/ (n = Len(all) + 1 /\ p < 1)}
        BY <1>2, <2>9 DEF Counted
      <4>. QED BY <1>3, <2>4, <2>8, <4>1
    <3>. QED BY <3>1, <3>2
  <2>13. CountInv'
    <3>1. \A k \in Log : Zeroed(k)' = Zeroed(k)
      <4>1. \A k \in Log : PairsOf(k)' = PairsOf(k) /\ PairsOf(k) \subseteq Pairs
        BY <1>2, <1>3 DEF PairsOf
      <4>2. DOMAIN all \subseteq DOMAIN all'
        BY <2>4, <2>8
      <4>. QED BY <2>7, <2>8, <2>12, <4>1, <4>2 DEF Zeroed
    <3>2. ASSUME NEW p \in Pairs
          PROVE  /\ Histogram(p, Counted(p))' = Histogram(p, Counted(p))
                 /\ Negatives(p, Counted(p))' = Negatives(p, Counted(p))
      <4>1. \A n \in DOMAIN all : Diff(p, n)' = Diff(p, n)
        BY <1>2, <2>7, <2>8 DEF Diff
      <4>2. Of(p, Counted(p))' = Of(p, Counted(p))
        BY <1>2, <2>7, <2>8, <2>12 DEF Of
      <4>3. Of(p, Counted(p)) \subseteq DOMAIN all
        BY <2>12 DEF Of
      <4>. QED BY <4>1, <4>2, <4>3 DEF Histogram, Negatives
    <3>. QED BY <1>1, <1>2, <1>3, <3>1, <3>2 DEF CountInv
  <2>. QED BY <2>1, <2>10, <2>11, <2>13 DEF AnalysisInv, ZeroedPerPair, FiguresInv
<1>. QED BY <1>5, <1>6

LEMMA CountMoves ==
  ASSUME Inputs, TypeOK, PlaceInv, CountPair, NEW q, q = pair_th, NEW m, m = Before + i
  PROVE  /\ q \in Pairs /\ m \in DOMAIN all /\ m \notin Counted(q)
         /\ \A k \in Log : all[m][k] = logs[k][i]
         /\ \A p \in Pairs : Counted(p)' = IF p = q THEN Counted(p) \cup {m} ELSE Counted(p)
         /\ \A p \in Pairs : /\ Histogram(p, Counted(p))' =
                                  IF p = q THEN Histogram(p, Counted(p) \cup {m})
                                  ELSE Histogram(p, Counted(p))
                             /\ Negatives(p, Counted(p))' =
                                  IF p = q THEN Negatives(p, Counted(p) \cup {m})
                                  ELSE Negatives(p, Counted(p))
<1>. DEFINE A == Len(all)
            L == Len(logs[0])
<1>1. /\ L \in Nat /\ A \in Nat /\ L <= A /\ Before = A - L
      /\ DOMAIN all = 1 .. A /\ DOMAIN logs[0] = 1 .. L
  BY AllFinite DEF TypeOK, Before
<1>. HIDE DEF A
<1>2. i \in 1 .. L + 1 /\ i <= L
  BY DEF TypeOK, CountPair
<1>. HIDE DEF L
<1>3. /\ m \in DOMAIN all /\ m \in Nat /\ i \in DOMAIN logs[0] /\ i \in Nat /\ Before \in Nat
      /\ \A n \in DOMAIN all : n \in Nat
  BY <1>1, <1>2
<1>4. UNCHANGED <<script, logs, all>> /\ Before' = Before
  BY DEF CountPair, Before
<1>5. Pairs = 1 .. Len(script.to_subtract) /\ Len(script.to_subtract) \in Nat /\ q \in Pairs
  BY ScriptShape DEF TypeOK
<1>6. \A k \in Log : all[m][k] = logs[k][i]
  BY <1>3 DEF PlaceInv
<1>7. m \notin Counted(q)
  BY <1>3, <1>5 DEF Counted
<1>8. ASSUME NEW p \in Pairs
      PROVE  Counted(p)' = IF p = q THEN Counted(p) \cup {m} ELSE Counted(p)
  <2>1. Counted(p)' = {n \in DOMAIN all : n < Before + i' \/ (n = Before + i' /\ p < pair_th')}
    BY <1>4 DEF Counted
  <2>2. Counted(p) = {n \in DOMAIN all : n < m \/ (n = m /\ p < q)}
    BY DEF Counted
  <2>3. CASE q = Len(script.to_subtract)
    <3>1. pair_th' = 1 /\ i' = i + 1
      BY <2>3 DEF CountPair
    <3>2. Before + i' = m + 1
      BY <1>3, <3>1
    <3>3. Counted(p)' = {n \in DOMAIN all : n < m + 1 \/ (n = m + 1 /\ p < 1)}
      BY <2>1, <3>1, <3>2
    <3>4. p \in Nat /\ 1 <= p /\ p <= q
      BY <1>5, <2>3
    <3>5. q \in Nat
      BY <1>5
    <3>. QED BY <1>3, <2>2, <3>3, <3>4, <3>5
  <2>4. CASE q # Len(script.to_subtract)
    <3>1. pair_th' = q + 1 /\ i' = i
      BY <2>4 DEF CountPair
    <3>2. Counted(p)' = {n \in DOMAIN all : n < m \/ (n = m /\ p < q + 1)}
      BY <2>1, <3>1
    <3>3. p \in Nat /\ q \in Nat
      BY <1>5
    <3>. QED BY <1>3, <2>2, <3>3, <3>2
  <2>. QED BY <2>3, <2>4
<1>9. ASSUME NEW p \in Pairs
      PROVE  /\ Histogram(p, Counted(p))' =
                   IF p = q THEN Histogram(p, Counted(p) \cup {m}) ELSE Histogram(p, Counted(p))
             /\ Negatives(p, Counted(p))' =
                   IF p = q THEN Negatives(p, Counted(p) \cup {m}) ELSE Negatives(p, Counted(p))
  <2>1. \A n : Diff(p, n)' = Diff(p, n)
    BY <1>4 DEF Diff
  <2>2. Of(p, Counted(p))' = IF p = q THEN Of(p, Counted(p) \cup {m}) ELSE Of(p, Counted(p))
    <3>1. Of(p, Counted(p))' =
            {n \in Counted(p)' : \A s \in 1 .. 2 : all[n][script.to_subtract[p][s]] # 0}
      BY <1>4 DEF Of
    <3>. QED BY <1>8, <3>1 DEF Of
  <2>3. CASE p = q
    <3>1. Of(p, Counted(p))' = Of(p, Counted(p) \cup {m})
      BY <2>2, <2>3
    <3>2. /\ Histogram(p, Counted(p))' = Histogram(p, Counted(p) \cup {m})
          /\ Negatives(p, Counted(p))' = Negatives(p, Counted(p) \cup {m})
      BY <2>1, <3>1 DEF Histogram, Negatives
    <3>. QED BY <2>3, <3>2
  <2>4. CASE p # q
    <3>1. Of(p, Counted(p))' = Of(p, Counted(p))
      BY <2>2, <2>4
    <3>2. /\ Histogram(p, Counted(p))' = Histogram(p, Counted(p))
          /\ Negatives(p, Counted(p))' = Negatives(p, Counted(p))
      BY <2>1, <3>1 DEF Histogram, Negatives
    <3>. QED BY <2>4, <3>2
  <2>. QED BY <2>3, <2>4
<1>. QED BY <1>3, <1>5, <1>6, <1>7, <1>8, <1>9

LEMMA CountPairInv == Inputs /\ AnalysisInv /\ CountPair => AnalysisInv'
<1>. SUFFICES ASSUME Inputs, AnalysisInv, CountPair PROVE AnalysisInv'
  OBVIOUS
<1>1. TypeOK /\ PlaceInv /\ CountInv /\ at = "count" /\ at' = "count"
  BY DEF AnalysisInv, CountPair
<1>2. /\ UNCHANGED <<script, iteration, logs, all>> /\ Before' = Before /\ Pairs' = Pairs
      /\ \A k : PairsOf(k)' = PairsOf(k)
  BY DEF CountPair, Before, Pairs, PairsOf
<1>3. Pairs = 1 .. Len(script.to_subtract) /\ Len(script.to_subtract) \in Nat \ {0}
  BY <1>1, ScriptShape DEF TypeOK
<1>4. TypeOK' /\ PlaceInv'
  <2>. DEFINE L == Len(logs[0])
              P == Len(script.to_subtract)
  <2>1. /\ L \in Nat /\ i \in 1 .. L + 1 /\ i <= L /\ P \in Nat \ {0} /\ pair_th \in 1 .. P
        /\ Pairs = 1 .. P
    BY <1>1, <1>3, AllFinite DEF TypeOK, CountPair
  <2>2. IF pair_th = P THEN pair_th' = 1 /\ i' = i + 1 ELSE pair_th' = pair_th + 1 /\ i' = i
    BY DEF CountPair
  <2>3. L' = L
    BY <1>2
  <2>. HIDE DEF L, P
  <2>4. i' \in 1 .. L + 1 /\ pair_th' \in Pairs /\ (i' > L => pair_th' = 1)
    BY <2>1, <2>2
  <2>5. TypeOK'
    BY <1>1, <1>2, <2>4 DEF TypeOK, SameLengths, L
  <2>6. PlaceInv'
    BY <1>1, <1>2, <2>4 DEF PlaceInv, L
  <2>. QED BY <2>5, <2>6
<1>5. PICK q : q = pair_th
  OBVIOUS
<1>6. PICK m : m = Before + i
  OBVIOUS
<1>7. PICK a, b : script.to_subtract[q] = <<a, b>> /\ a \in Log /\ b \in Log
  <2>1. q \in Pairs
    BY <1>1, <1>5 DEF TypeOK
  <2>2. script.to_subtract[q] \in Log \X Log
    BY <1>1, <2>1, PairShape
  <2>. QED BY <2>2
<1>8. /\ q \in Pairs /\ m \in DOMAIN all /\ m \notin Counted(q)
      /\ \A k \in Log : all[m][k] = logs[k][i]
      /\ \A p \in Pairs : Counted(p)' = IF p = q THEN Counted(p) \cup {m} ELSE Counted(p)
  BY <1>1, <1>5, <1>6, CountMoves
<1>9. \A p \in Pairs :
        /\ Histogram(p, Counted(p))' = IF p = q THEN Histogram(p, Counted(p) \cup {m})
                                       ELSE Histogram(p, Counted(p))
        /\ Negatives(p, Counted(p))' = IF p = q THEN Negatives(p, Counted(p) \cup {m})
                                       ELSE Negatives(p, Counted(p))
  BY <1>1, <1>5, <1>6, CountMoves
<1>10. /\ logs_zeroed = [k \in Log |-> Cardinality(Zeroed(k))]
       /\ count_diffs = [p \in Pairs |-> Histogram(p, Counted(p))]
       /\ diffs_neg = [p \in Pairs |-> Cardinality(Negatives(p, Counted(p)))]
  BY <1>1 DEF CountInv
<1>11. Pair = <<a, b>> /\ Entry(1) = all[m][a] /\ Entry(2) = all[m][b]
  BY <1>5, <1>7, <1>8 DEF Pair, Entry
<1>12. logs_zeroed' = [k \in Log |-> Cardinality(Zeroed(k)')]
  <2>1. logs_zeroed' = [k \in Log |->
          Cardinality(Zeroed(k)) + IF k \in {a, b} /\ all[m][k] = 0 THEN 1 ELSE 0]
    <3>1. \A k \in Log : (k \in {Pair[1], Pair[2]} /\ logs[k][i] = 0)
                           <=> (k \in {a, b} /\ all[m][k] = 0)
      BY <1>8, <1>11
    <3>2. logs_zeroed' = [k \in Log |->
            logs_zeroed[k] + IF k \in {Pair[1], Pair[2]} /\ logs[k][i] = 0 THEN 1 ELSE 0]
      BY DEF CountPair
    <3>. QED BY <1>10, <3>1, <3>2
  <2>2. ASSUME NEW k \in Log
        PROVE  Cardinality(Zeroed(k)') =
                 Cardinality(Zeroed(k)) + IF k \in {a, b} /\ all[m][k] = 0 THEN 1 ELSE 0
    <3>1. q \in PairsOf(k) <=> k \in {a, b}
      BY <1>7, <1>8 DEF PairsOf
    <3>2. Zeroed(k)' = {v \in (DOMAIN all) \X PairsOf(k) : v[1] \in Counted(v[2])' /\ all[v[1]][k] = 0}
      BY <1>2 DEF Zeroed
    <3>3. PairsOf(k) \subseteq Pairs
      BY DEF PairsOf
    <3>4. IsFiniteSet(Zeroed(k)) /\ Cardinality(Zeroed(k)) \in Nat
      BY <1>1, PairsFinite
    <3>5. CASE k \in {a, b} /\ all[m][k] = 0
      <4>1. Zeroed(k)' = Zeroed(k) \cup {<<m, q>>}
        BY <1>8, <3>1, <3>2, <3>3, <3>5 DEF Zeroed
      <4>2. <<m, q>> \notin Zeroed(k)
        BY <1>8 DEF Zeroed
      <4>. QED BY <3>4, <3>5, <4>1, <4>2, FS_AddElement
    <3>6. CASE ~ (k \in {a, b} /\ all[m][k] = 0)
      <4>1. Zeroed(k)' = Zeroed(k)
        BY <1>8, <3>1, <3>2, <3>3, <3>6 DEF Zeroed
      <4>. QED BY <3>4, <3>6, <4>1
    <3>. QED BY <3>5, <3>6
  <2>. QED BY <2>1, <2>2
<1>13. SkipZero <=> \E s \in 1 .. 2 : all[m][script.to_subtract[q][s]] = 0
  <2>1. SkipZero <=> \E s \in 1 .. 2 : Entry(s) = 0
    BY DEF SkipZero, Skips
  <2>. QED BY <1>7, <1>11, <2>1
<1>14. /\ count_diffs' = [p \in Pairs |-> Histogram(p, Counted(p))']
       /\ diffs_neg' = [p \in Pairs |-> Cardinality(Negatives(p, Counted(p))')]
  <2>1. CASE SkipZero
    <3>1. UNCHANGED <<count_diffs, diffs_neg>>
      BY <2>1 DEF CountPair
    <3>2. /\ Histogram(q, Counted(q) \cup {m}) = Histogram(q, Counted(q))
          /\ Negatives(q, Counted(q) \cup {m}) = Negatives(q, Counted(q))
      BY <1>13, <2>1, HistogramSame
    <3>3. \A p \in Pairs : /\ Histogram(p, Counted(p))' = Histogram(p, Counted(p))
                           /\ Negatives(p, Counted(p))' = Negatives(p, Counted(p))
      BY <1>9, <3>2
    <3>. QED BY <1>10, <3>1, <3>3
  <2>2. CASE ~ SkipZero
    <3>1. PICK d : d = Diff(q, m)
      OBVIOUS
    <3>2. d = Entry(1) - Entry(2)
      BY <1>7, <1>11, <3>1 DEF Diff
    <3>3. PICK h : h = Histogram(q, Counted(q))
      OBVIOUS
    <3>4. PICK g : g = IF d \in DOMAIN h THEN h[d] ELSE 0
      OBVIOUS
    <3>5. h = count_diffs[pair_th] /\ q \in DOMAIN count_diffs /\ q \in DOMAIN diffs_neg
      BY <1>5, <1>8, <1>10, <3>3
    <3>6. /\ diffs_neg' = [diffs_neg EXCEPT ![q] = @ + IF d < 0 THEN 1 ELSE 0]
          /\ count_diffs' = [count_diffs EXCEPT ![q] =
               [e \in DOMAIN h \cup {d} |-> IF e = d THEN g + 1 ELSE h[e]]]
      BY <1>5, <2>2, <3>2, <3>4, <3>5 DEF CountPair
    <3>7. IsFiniteSet(Counted(q))
      BY <1>1, AllFinite
    <3>8. \A s \in 1 .. 2 : all[m][script.to_subtract[q][s]] # 0
      BY <1>13, <2>2
    <3>9. /\ Histogram(q, Counted(q) \cup {m}) =
               [e \in DOMAIN h \cup {d} |-> IF e = d THEN g + 1 ELSE h[e]]
          /\ Cardinality(Negatives(q, Counted(q) \cup {m})) =
               Cardinality(Negatives(q, Counted(q))) + IF d < 0 THEN 1 ELSE 0
      BY <1>8, <3>1, <3>3, <3>4, <3>7, <3>8, HistogramAdd
    <3>10. count_diffs' = [p \in Pairs |-> Histogram(p, Counted(p))']
      <4>1. ASSUME NEW p \in Pairs PROVE count_diffs'[p] = Histogram(p, Counted(p))'
        BY <1>9, <1>10, <3>6, <3>9
      <4>2. count_diffs' = [p \in Pairs |-> count_diffs'[p]]
        BY <1>10, <3>6
      <4>. QED BY <4>1, <4>2
    <3>11. diffs_neg' = [p \in Pairs |-> Cardinality(Negatives(p, Counted(p))')]
      <4>1. ASSUME NEW p \in Pairs
            PROVE  diffs_neg'[p] = Cardinality(Negatives(p, Counted(p))')
        <5>1. CASE p = q
          BY <1>8, <1>9, <1>10, <3>6, <3>9, <5>1
        <5>2. CASE p # q
          BY <1>9, <1>10, <3>6, <5>2
        <5>. QED BY <5>1, <5>2
      <4>2. diffs_neg' = [p \in Pairs |-> diffs_neg'[p]]
        BY <1>10, <3>6
      <4>. QED BY <4>1, <4>2
    <3>. QED BY <3>10, <3>11
  <2>. QED BY <2>1, <2>2
<1>15. CountInv'
  <2>1. \A S : Cardinality(S)' = Cardinality(S')
    OBVIOUS
  <2>. QED BY <1>2, <1>12, <1>14 DEF CountInv
<1>. QED BY <1>1, <1>4, <1>15 DEF AnalysisInv, ZeroedPerPair, FiguresInv

LEMMA NextIterationInv == Inputs /\ AnalysisInv /\ NextIteration => AnalysisInv'
<1>. SUFFICES ASSUME Inputs, AnalysisInv, NextIteration PROVE AnalysisInv'
  OBVIOUS
<1>1. /\ UNCHANGED <<script, logs, i, pair_th, logs_zeroed, count_diffs, diffs_neg, all>>
      /\ i > Len(logs[0]) /\ at = "count" /\ at' = "load" /\ iteration' = iteration + 1
  BY DEF NextIteration, counters, figures
<1>2. TypeOK'
  <2>1. iteration' \in Nat
    BY <1>1 DEF AnalysisInv, TypeOK
  <2>2. Pairs' = Pairs /\ (SameLengths(logs) => SameLengths(logs)')
    BY <1>1 DEF Pairs, SameLengths
  <2>. QED BY <1>1, <2>1, <2>2 DEF AnalysisInv, TypeOK
<1>3. PlaceInv'
  BY <1>1 DEF AnalysisInv, PlaceInv, Before
<1>4. CountInv'
  <2>1. \A p : Counted(p)' = Counted(p)
    BY <1>1 DEF Counted, Before
  <2>2. UNCHANGED <<script, all>>
    BY <1>1
  <2>3. \A k \in Log : Zeroed(k)' = Zeroed(k)
    BY <2>1, <2>2, Frame DEF Zeroed
  <2>4. Pairs' = Pairs
    BY <2>2, Frame
  <2>5. \A p : Of(p, Counted(p))' = Of(p, Counted(p))
    BY <2>1, <2>2 DEF Of
  <2>6. \A p, n : Diff(p, n)' = Diff(p, n)
    BY <2>2, Frame
  <2>7. \A p : /\ Histogram(p, Counted(p))' = Histogram(p, Counted(p))
               /\ Negatives(p, Counted(p))' = Negatives(p, Counted(p))
    BY <2>5, <2>6 DEF Histogram, Negatives
  <2>. QED BY <1>1, <2>3, <2>4, <2>7 DEF AnalysisInv, CountInv
<1>. QED BY <1>1, <1>2, <1>3, <1>4 DEF AnalysisInv, ZeroedPerPair, FiguresInv

LEMMA HalveInv == Inputs /\ AnalysisInv /\ Halve => AnalysisInv'
<1>. SUFFICES ASSUME Inputs, AnalysisInv, Halve PROVE AnalysisInv'
  OBVIOUS
<1>1. TypeOK /\ PlaceInv /\ CountInv /\ at = "load"
  BY DEF AnalysisInv, Halve
<1>2. /\ UNCHANGED <<script, iteration, logs, i, pair_th, count_diffs, diffs_neg, all>>
      /\ at' = "average"
  <2>1. After("halve") = "average"
    BY <1>1, ScriptShape DEF TypeOK
  <2>. QED BY <2>1 DEF Halve
<1>3. TypeOK' /\ PlaceInv'
  <2>1. Pairs' = Pairs /\ (SameLengths(logs) => SameLengths(logs)') /\ Before' = Before
    BY <1>2 DEF Pairs, SameLengths, Before
  <2>2. TypeOK'
    BY <1>1, <1>2, <2>1 DEF TypeOK
  <2>3. PlaceInv'
    BY <1>1, <1>2, <2>1 DEF PlaceInv
  <2>. QED BY <2>2, <2>3
<1>4. \A p \in Pairs : Counted(p) = DOMAIN all
  BY <1>1, AllCounted DEF PlaceInv
<1>5. ZeroedPerPair'
  <2>1. ASSUME NEW k \in Log
        PROVE  logs_zeroed'[k] = (Cardinality(PairsOf(k)) * Zeroes(k)) \div 2
    <3>. DEFINE Z == {n \in DOMAIN all : all[n][k] = 0}
    <3>1. Zeroed(k) = Z \X PairsOf(k)
      BY <1>4 DEF Zeroed, PairsOf
    <3>2. /\ IsFiniteSet(Z) /\ IsFiniteSet(PairsOf(k))
          /\ Cardinality(Z) \in Nat /\ Cardinality(PairsOf(k)) \in Nat
      BY <1>1, PairsFinite DEF Zeroes
    <3>. HIDE DEF Z
    <3>3. Cardinality(Zeroed(k)) = Cardinality(Z) * Cardinality(PairsOf(k))
      BY <3>1, <3>2, FS_Product
    <3>4. Cardinality(Zeroed(k)) = Cardinality(PairsOf(k)) * Cardinality(Z)
      BY <3>2, <3>3
    <3>5. logs_zeroed'[k] = Cardinality(Zeroed(k)) \div 2
      BY <1>1 DEF CountInv, Halve, Halved
    <3>6. Zeroes(k) = Cardinality(Z)
      BY DEF Zeroes, Z
    <3>. QED BY <3>4, <3>5, <3>6
  <2>2. \A k : Zeroes(k)' = Zeroes(k) /\ PairsOf(k)' = PairsOf(k)
    BY <1>2, Frame
  <2>. QED BY <2>1, <2>2 DEF ZeroedPerPair
<1>6. FiguresInv'
  <2>1. /\ count_diffs = [p \in Pairs |-> Histogram(p, DOMAIN all)]
        /\ diffs_neg = [p \in Pairs |-> Cardinality(Negatives(p, DOMAIN all))]
    BY <1>1, <1>4 DEF CountInv
  <2>2. /\ count_diffs' = [p \in Pairs' |-> Histogram(p, DOMAIN all)']
        /\ diffs_neg' = [p \in Pairs' |-> Cardinality(Negatives(p, DOMAIN all)')]
    <3>1. \A p, n : Diff(p, n)' = Diff(p, n)
      BY <1>2, Frame
    <3>2. \A p : Of(p, DOMAIN all)' = Of(p, DOMAIN all)
      BY <1>2 DEF Of
    <3>3. \A p : /\ Histogram(p, DOMAIN all)' = Histogram(p, DOMAIN all)
                 /\ Negatives(p, DOMAIN all)' = Negatives(p, DOMAIN all)
      BY <3>1, <3>2 DEF Histogram, Negatives
    <3>4. Pairs' = Pairs
      BY <1>2, Frame
    <3>. QED BY <1>2, <2>1, <3>3, <3>4
  <2>. QED BY <1>2, <2>2 DEF FiguresInv
<1>. QED BY <1>2, <1>3, <1>5, <1>6 DEF AnalysisInv, CountInv

-----------------------------------------------------------------------------
(* The figures.  From here on the packets and pairs stay as they are.       *)

LEMMA FiguresFrame ==
  ASSUME TypeOK, PlaceInv, ZeroedPerPair,
         UNCHANGED <<script, iteration, logs, i, pair_th, logs_zeroed, all>>,
         at \notin {"load", "count", "aborted"},
         at' \in {"median", "range", "done", "crashed"}
  PROVE  /\ TypeOK' /\ PlaceInv' /\ CountInv' /\ ZeroedPerPair' /\ Pairs' = Pairs
         /\ Shows("median")' = Shows("median")
         /\ \A p, n : Diff(p, n)' = Diff(p, n)
         /\ \A p : /\ Of(p, DOMAIN all)' = Of(p, DOMAIN all)
                   /\ Histogram(p, DOMAIN all)' = Histogram(p, DOMAIN all)
                   /\ Negatives(p, DOMAIN all)' = Negatives(p, DOMAIN all)
<1>1. Pairs' = Pairs /\ (SameLengths(logs) => SameLengths(logs)') /\ Before' = Before
  BY DEF Pairs, SameLengths, Before
<1>2. TypeOK'
  BY <1>1 DEF TypeOK
<1>3. PlaceInv'
  BY <1>1 DEF PlaceInv
<1>4. CountInv'
  BY DEF CountInv
<1>5. \A k : Zeroes(k)' = Zeroes(k) /\ PairsOf(k)' = PairsOf(k)
  BY Frame
<1>6. ZeroedPerPair'
  BY <1>5 DEF ZeroedPerPair
<1>7. \A p, n : Diff(p, n)' = Diff(p, n)
  BY DEF Diff
<1>8. \A p : Of(p, DOMAIN all)' = Of(p, DOMAIN all)
  BY DEF Of
<1>9. \A p : /\ Histogram(p, DOMAIN all)' = Histogram(p, DOMAIN all)
             /\ Negatives(p, DOMAIN all)' = Negatives(p, DOMAIN all)
  BY <1>7, <1>8 DEF Histogram, Negatives
<1>10. Shows("median")' = Shows("median")
  BY DEF Shows
<1>. QED BY <1>1, <1>2, <1>3, <1>4, <1>6, <1>7, <1>8, <1>9, <1>10

LEMMA AverageInv == Inputs /\ AnalysisInv /\ Average => AnalysisInv'
<1>. SUFFICES ASSUME Inputs, AnalysisInv, Average PROVE AnalysisInv'
  OBVIOUS
<1>1. TypeOK /\ PlaceInv /\ ZeroedPerPair /\ FiguresInv /\ at = "average"
  BY DEF AnalysisInv, Average
<1>2. UNCHANGED <<script, iteration, logs, i, pair_th, logs_zeroed, count_diffs, diffs_neg, all>>
  BY DEF Average, counters
<1>3. /\ at' = "crashed" \/ at' = IF Shows("median") THEN "median" ELSE "range"
      /\ at' # "crashed" => \A p \in Pairs : DOMAIN count_diffs[p] # {}
  <2>1. After("average") = IF Shows("median") THEN "median" ELSE "range"
    BY <1>1, ScriptShape DEF TypeOK
  <2>. QED BY <2>1 DEF Average
<1>4. /\ TypeOK' /\ PlaceInv' /\ CountInv' /\ ZeroedPerPair' /\ Pairs' = Pairs
      /\ Shows("median")' = Shows("median")
      /\ \A p : /\ Histogram(p, DOMAIN all)' = Histogram(p, DOMAIN all)
                /\ Negatives(p, DOMAIN all)' = Negatives(p, DOMAIN all)
  BY <1>1, <1>2, <1>3, FiguresFrame
<1>5. FiguresInv'
  <2>1. /\ count_diffs' = [p \in Pairs' |-> Histogram(p, DOMAIN all)']
        /\ diffs_neg' = [p \in Pairs' |-> Cardinality(Negatives(p, DOMAIN all)')]
    BY <1>1, <1>2, <1>4 DEF FiguresInv
  <2>2. at' = "median" => Shows("median")' /\ \A p \in Pairs' : DOMAIN count_diffs'[p] # {}
    BY <1>2, <1>3, <1>4
  <2>3. at' # "done" /\ (at' = "range" => ~ Shows("median")')
    BY <1>3, <1>4
  <2>. QED BY <2>1, <2>2, <2>3 DEF FiguresInv
<1>. QED BY <1>4, <1>5 DEF AnalysisInv

Within(p, K) == {n \in Of(p, DOMAIN all) : Diff(p, n) \in K}

LEMMA HistogramSum ==
  ASSUME Inputs, TypeOK, NEW p \in Pairs, NEW h, h = Histogram(p, DOMAIN all)
  PROVE  /\ DOMAIN h = {Diff(p, n) : n \in Of(p, DOMAIN all)} /\ DOMAIN h \subseteq Int
         /\ IsFiniteSet(DOMAIN h) /\ IsFiniteSet(Of(p, DOMAIN all))
<1>. DEFINE S == Of(p, DOMAIN all)
            f == [n \in S |-> Diff(p, n)]
<1>1. IsFiniteSet(S) /\ S \subseteq DOMAIN all
  <2>1. IsFiniteSet(DOMAIN all)
    BY AllFinite
  <2>. QED BY <2>1, OfFinite DEF Of
<1>2. h = [d \in {Diff(p, n) : n \in S} |-> Cardinality({n \in S : Diff(p, n) = d})]
  BY DEF Histogram
<1>3. DOMAIN h = {Diff(p, n) : n \in S} /\ DOMAIN h \subseteq Int
  BY <1>1, <1>2, PairShape
<1>4. IsFiniteSet(DOMAIN h)
  <2>1. f \in Surjection(S, DOMAIN h)
    BY <1>3 DEF Surjection
  <2>. QED BY <1>1, <2>1, FS_Surjection
<1>. QED BY <1>1, <1>3, <1>4

(* The values of some keys of a histogram add up to the packets with one of *)
(* these differences.                                                       *)
LEMMA HistogramCount ==
  ASSUME Inputs, TypeOK, NEW p \in Pairs, NEW h, h = Histogram(p, DOMAIN all),
         NEW g, NEW K, K \subseteq DOMAIN h, \A d \in K : g[d] = h[d]
  PROVE  Sum(g, K) = Cardinality(Within(p, K))
<1>. DEFINE S == Of(p, DOMAIN all)
            f == [n \in S |-> Diff(p, n)]
<1>1. IsFiniteSet(S)
  <2>1. IsFiniteSet(DOMAIN all)
    BY AllFinite
  <2>. QED BY <2>1, OfFinite DEF Of
<1>2. h = [d \in {Diff(p, n) : n \in S} |-> Cardinality({n \in S : Diff(p, n) = d})]
  BY DEF Histogram
<1>3. \A d \in K : Mapped(S, f, {d}) = {n \in S : Diff(p, n) = d}
  BY DEF Mapped
<1>4. \A d \in K : g[d] = Cardinality(Mapped(S, f, {d}))
  BY <1>2, <1>3
<1>5. Mapped(S, f, K) = Within(p, K)
  BY DEF Mapped, Within
<1>6. \A n \in S : f[n] = Diff(p, n)
  OBVIOUS
<1>. HIDE DEF S, f
<1>7. Sum(g, K) = Cardinality(Mapped(S, f, K))
  BY <1>1, <1>2, <1>4, SumOfCounts
<1>. QED BY <1>5, <1>7


(* The least key of a histogram whose cumulated count reaches rank.         *)
LEMMA LeastPassed ==
  ASSUME Inputs, TypeOK, NEW p \in Pairs, NEW h, h = Histogram(p, DOMAIN all),
         DOMAIN h # {}, NEW rank \in Nat, rank <= Cardinality(Of(p, DOMAIN all))
  PROVE  /\ Passed(h, rank) \subseteq DOMAIN h
         /\ Min(Passed(h, rank)) \in Passed(h, rank)
         /\ \A y \in Passed(h, rank) : Min(Passed(h, rank)) <= y
         /\ Ranked(p, Min(Passed(h, rank)), rank)
         /\ \A k, l \in DOMAIN h : k \in Passed(h, rank) /\ k <= l => l \in Passed(h, rank)
<1>. DEFINE S == Of(p, DOMAIN all)
            total == Cardinality(S)
            AtMost(key) == Cardinality({n \in S : Diff(p, n) <= key})
            Below(key) == Cardinality({n \in S : Diff(p, n) < key})
            T == Passed(h, rank)
            M == Min(T)
<1>1. /\ DOMAIN h = {Diff(p, n) : n \in S} /\ DOMAIN h \subseteq Int
      /\ IsFiniteSet(DOMAIN h) /\ IsFiniteSet(S)
  BY HistogramSum
<1>2. \A K : K \subseteq DOMAIN h => Sum(h, K) = Cardinality(Within(p, K))
  BY HistogramCount
<1>3. \A n \in S : Diff(p, n) \in DOMAIN h /\ Diff(p, n) \in Int
  BY <1>1
<1>. HIDE DEF S
<1>4. total \in Nat /\ \A key : AtMost(key) \in Nat /\ Below(key) \in Nat
  <2>1. ASSUME NEW key
        PROVE  /\ IsFiniteSet({n \in S : Diff(p, n) <= key})
               /\ IsFiniteSet({n \in S : Diff(p, n) < key})
    BY <1>1, FS_Subset
  <2>. QED BY <1>1, <2>1, FS_CardinalityType
<1>5. \A key \in Int : UpTo(h, key) = AtMost(key)
  <2>1. ASSUME NEW key \in Int
        PROVE  Within(p, {d \in DOMAIN h : d <= key}) = {n \in S : Diff(p, n) <= key}
    BY <1>3 DEF Within, S
  <2>. QED BY <1>2, <2>1 DEF UpTo
<1>6. T = {key \in DOMAIN h : AtMost(key) >= rank}
  BY <1>1, <1>5 DEF Passed
<1>7. PICK top \in DOMAIN h : \A d \in DOMAIN h : d <= top
  BY <1>1, LeastOfInts
<1>8. AtMost(top) = total
  <2>1. {n \in S : Diff(p, n) <= top} = S
    BY <1>3, <1>7
  <2>. QED BY <2>1
<1>9. rank <= total
  BY DEF S
<1>10. \A k, l \in DOMAIN h : k <= l => AtMost(k) <= AtMost(l)
  <2>1. ASSUME NEW k \in DOMAIN h, NEW l \in DOMAIN h, k <= l PROVE AtMost(k) <= AtMost(l)
    <3>1. k \in Int /\ l \in Int
      BY <1>1
    <3>2. \A n \in S : Diff(p, n) <= k => Diff(p, n) <= l
      BY <1>3, <2>1, <3>1
    <3>3. {n \in S : Diff(p, n) <= k} \in SUBSET {n \in S : Diff(p, n) <= l}
      BY <3>2
    <3>4. IsFiniteSet({n \in S : Diff(p, n) <= l})
      BY <1>1, FS_Subset
    <3>. QED BY <3>3, <3>4, FS_Subset
  <2>. QED BY <2>1
<1>. HIDE DEF total, AtMost, Below, T
<1>11. /\ T \subseteq DOMAIN h
       /\ \A k, l \in DOMAIN h : k \in T /\ k <= l => l \in T
  <2>1. T \subseteq DOMAIN h
    BY <1>6
  <2>2. ASSUME NEW k \in DOMAIN h, NEW l \in DOMAIN h, k \in T, k <= l PROVE l \in T
    <3>1. AtMost(k) >= rank /\ AtMost(k) <= AtMost(l)
      BY <1>6, <1>10, <2>2
    <3>2. AtMost(k) \in Nat /\ AtMost(l) \in Nat
      BY <1>4
    <3>3. AtMost(l) >= rank
      BY <3>1, <3>2
    <3>. QED BY <1>6, <3>3
  <2>. QED BY <2>1, <2>2
<1>12. M \in T /\ \A y \in T : M <= y
  <2>1. top \in T
    BY <1>4, <1>6, <1>7, <1>8, <1>9
  <2>2. IsFiniteSet(T) /\ T \subseteq Int /\ T # {}
    BY <1>1, <1>11, <2>1, FS_Subset
  <2>. QED BY <2>2, LeastOfInts
<1>. HIDE DEF M
<1>13. M \in DOMAIN h /\ M \in Int /\ AtMost(M) >= rank
  BY <1>1, <1>6, <1>12
<1>14. Below(M) < rank \/ Below(M) = 0
  <2>. DEFINE L == {key \in DOMAIN h : key < M}
  <2>1. CASE L = {}
    <3>1. {n \in S : Diff(p, n) < M} = {}
      BY <1>3, <2>1
    <3>2. Below(M) = 0
      BY <3>1, FS_EmptySet DEF Below
    <3>. QED BY <3>2
  <2>2. CASE L # {}
    <3>1. IsFiniteSet(L) /\ L \subseteq Int
      BY <1>1, FS_Subset
    <3>2. PICK k \in L : \A y \in L : y <= k
      BY <2>2, <3>1, LeastOfInts
    <3>3. k \in DOMAIN h /\ k \in Int /\ k < M
      BY <3>1
    <3>4. ~ (M <= k)
      BY <1>13, <3>3
    <3>5. k \notin T
      BY <1>12, <3>4
    <3>6. ~ (AtMost(k) >= rank)
      BY <1>6, <3>3, <3>5
    <3>7. {n \in S : Diff(p, n) < M} = {n \in S : Diff(p, n) <= k}
      BY <1>3, <1>13, <3>2, <3>3
    <3>8. Below(M) = AtMost(k)
      BY <3>7 DEF Below, AtMost
    <3>. QED BY <1>4, <3>6, <3>8
  <2>. QED BY <2>1, <2>2
<1>15. \E n \in S : Diff(p, n) = M
  BY <1>1, <1>13
<1>16. Ranked(p, M, rank)
  BY <1>13, <1>14, <1>15 DEF Ranked, S, AtMost, Below
<1>. QED BY <1>11, <1>12, <1>16 DEF T, M

(* What median and 99% are, of the histogram of one pair.                   *)
LEMMA MedianRight ==
  ASSUME Inputs, TypeOK, NEW p \in Pairs, NEW h, h = Histogram(p, DOMAIN all),
         DOMAIN h # {}
  PROVE  MediansFit(p, Middle(h), NinetyNine(h))
<1>. DEFINE S == Of(p, DOMAIN all)
            total == Cardinality(S)
            half2 == total \div 2
            most == (99 * total) \div 100
            N99 == NinetyNine(h)
            M == Middle(h)
            least == Min(Passed(h, half2))
<1>1. /\ DOMAIN h = {Diff(p, n) : n \in S} /\ DOMAIN h \subseteq Int
      /\ IsFiniteSet(DOMAIN h) /\ IsFiniteSet(S)
  BY HistogramSum
<1>2. total \in Nat
  BY <1>1, FS_CardinalityType
<1>3. Values(h) = total
  <2>1. Within(p, DOMAIN h) = S
    BY <1>1 DEF Within
  <2>2. Sum(h, DOMAIN h) = Cardinality(Within(p, DOMAIN h))
    BY HistogramCount
  <2>. QED BY <2>1, <2>2 DEF Values
<1>4. /\ half2 \in Nat /\ most \in Nat /\ half2 <= most /\ most <= total /\ half2 <= total
  <2>. HIDE DEF total
  <2>. QED BY <1>2, SMT
<1>. HIDE DEF half2, most
<1>5. N99 = Min(Passed(h, most))
  BY <1>3 DEF NinetyNine, most
<1>6. /\ N99 \in DOMAIN h /\ N99 \in Passed(h, most) /\ Ranked(p, N99, most)
  BY <1>4, <1>5, LeastPassed
<1>7. /\ Passed(h, half2) \subseteq DOMAIN h /\ least \in Passed(h, half2)
      /\ \A y \in Passed(h, half2) : least <= y
      /\ Ranked(p, least, half2)
      /\ \A k, l \in DOMAIN h : k \in Passed(h, half2) /\ k <= l => l \in Passed(h, half2)
  BY <1>4, LeastPassed
<1>8. N99 \in Passed(h, half2)
  <2>1. UpTo(h, N99) >= most /\ UpTo(h, N99) \in Nat
    <3>1. UpTo(h, N99) >= most
      BY <1>6 DEF Passed
    <3>2. UpTo(h, N99) = Cardinality(Within(p, {d \in DOMAIN h : d <= N99}))
      BY HistogramCount DEF UpTo
    <3>3. IsFiniteSet(Within(p, {d \in DOMAIN h : d <= N99}))
      BY <1>1, FS_Subset DEF Within
    <3>. QED BY <3>1, <3>2, <3>3, FS_CardinalityType
  <2>2. UpTo(h, N99) >= half2
    BY <1>4, <2>1
  <2>. QED BY <1>6, <2>2 DEF Passed
<1>. DEFINE E == {key \in Passed(h, half2) : key # 0 /\ key <= N99}
<1>9. M = IF E = {} THEN 0 ELSE Min(E)
  BY <1>3 DEF Middle, half2
<1>. HIDE DEF N99, M, least, total
<1>10. /\ E \subseteq Int /\ IsFiniteSet(E) /\ least \in Int /\ N99 \in Int
       /\ least \in DOMAIN h /\ least <= N99
  BY <1>1, <1>6, <1>7, <1>8, FS_Subset
<1>11. E # {} => Min(E) \in E /\ \A y \in E : Min(E) <= y
  BY <1>10, LeastOfInts
<1>12. CASE least # 0
  <2>1. least \in E
    BY <1>7, <1>10, <1>12
  <2>2. M \in E /\ M <= least /\ least <= M
    BY <1>7, <1>9, <1>11, <2>1
  <2>3. M = least
    BY <1>10, <2>2
  <2>. QED BY <1>6, <1>7, <2>3 DEF MediansFit, total, half2, most, M, N99
<1>13. CASE least = 0 /\ E = {}
  <2>1. M = least
    BY <1>9, <1>13
  <2>. QED BY <1>6, <1>7, <2>1 DEF MediansFit, total, half2, most, M, N99
<1>14. CASE least = 0 /\ E # {}
  <2>1. M \in E /\ \A y \in E : M <= y
    BY <1>9, <1>11, <1>14
  <2>2. M \in DOMAIN h /\ M \in Int /\ M <= N99 /\ M > 0
    BY <1>7, <1>10, <1>14, <2>1
  <2>3. \A n \in S : Diff(p, n) <= 0 \/ M <= Diff(p, n)
    <3>0. \A n \in S : Diff(p, n) \in Int
      BY <1>1
    <3>. HIDE DEF S
    <3>. SUFFICES ASSUME NEW n \in S, Diff(p, n) > 0 PROVE M <= Diff(p, n)
      BY <3>0
    <3>. DEFINE d == Diff(p, n)
    <3>1. d \in DOMAIN h /\ d \in Int /\ d > 0
      BY <1>1
    <3>. HIDE DEF d
    <3>2. d \in Passed(h, half2)
      BY <1>7, <1>10, <1>14, <3>1
    <3>3. CASE d <= N99
      <4>1. d \in E
        BY <3>1, <3>2, <3>3
      <4>. QED BY <2>1, <4>1 DEF d
    <3>4. CASE ~(d <= N99)
      <4>1. M <= d
        BY <1>10, <2>2, <3>1, <3>4
      <4>. QED BY <4>1 DEF d
    <3>. QED BY <3>3, <3>4
  <2>4. \E n \in S : Diff(p, n) = M
    BY <1>1, <2>2
  <2>5. NextAbove(p, M)
    BY <2>2, <2>3, <2>4 DEF NextAbove
  <2>. QED BY <1>6, <1>7, <1>14, <2>5 DEF MediansFit, total, half2, most, M, N99
<1>. QED BY <1>12, <1>13, <1>14

LEMMA MedianStepInv == Inputs /\ AnalysisInv /\ Median => AnalysisInv'
<1>. SUFFICES ASSUME Inputs, AnalysisInv, Median PROVE AnalysisInv'
  OBVIOUS
<1>1. TypeOK /\ PlaceInv /\ ZeroedPerPair /\ FiguresInv /\ at = "median"
  BY DEF AnalysisInv, Median
<1>2. /\ UNCHANGED <<script, iteration, logs, i, pair_th, logs_zeroed, count_diffs, diffs_neg, all>>
      /\ diffs_median' = [p \in Pairs |-> Middle(count_diffs[p])]
      /\ diffs_99_procent' = [p \in Pairs |-> NinetyNine(count_diffs[p])]
  BY DEF Median, counters
<1>3. at' = "range" /\ Shows("median") /\ \A p \in Pairs : DOMAIN count_diffs[p] # {}
  <2>1. Shows("median") /\ \A p \in Pairs : DOMAIN count_diffs[p] # {}
    BY <1>1 DEF FiguresInv
  <2>2. After("median") = "range"
    BY <1>1, <2>1, ScriptShape DEF TypeOK
  <2>. QED BY <2>1, <2>2 DEF Median
<1>4. /\ TypeOK' /\ PlaceInv' /\ CountInv' /\ ZeroedPerPair' /\ Pairs' = Pairs
      /\ \A p : /\ Histogram(p, DOMAIN all)' = Histogram(p, DOMAIN all)
                /\ Negatives(p, DOMAIN all)' = Negatives(p, DOMAIN all)
      /\ \A p : Of(p, DOMAIN all)' = Of(p, DOMAIN all)
      /\ \A p, n : Diff(p, n)' = Diff(p, n)
  BY <1>1, <1>2, <1>3, FiguresFrame
<1>5. ASSUME NEW p \in Pairs
      PROVE  MediansFit(p, diffs_median[p], diffs_99_procent[p])'
  <2>1. PICK h : h = Histogram(p, DOMAIN all)
    OBVIOUS
  <2>2. count_diffs[p] = h
    BY <1>1, <2>1 DEF FiguresInv
  <2>3. DOMAIN h # {} /\ diffs_median'[p] = Middle(h) /\ diffs_99_procent'[p] = NinetyNine(h)
    BY <1>2, <1>3, <2>2
  <2>4. MediansFit(p, Middle(h), NinetyNine(h))
    BY <1>1, <2>1, <2>3, MedianRight
  <2>. QED BY <1>4, <2>3, <2>4 DEF MediansFit, Ranked, NextAbove
<1>6. FiguresInv'
  <2>1. /\ count_diffs' = [p \in Pairs' |-> Histogram(p, DOMAIN all)']
        /\ diffs_neg' = [p \in Pairs' |-> Cardinality(Negatives(p, DOMAIN all)')]
    BY <1>1, <1>2, <1>4 DEF FiguresInv
  <2>. QED BY <1>3, <1>4, <1>5, <2>1 DEF FiguresInv
<1>. QED BY <1>4, <1>6 DEF AnalysisInv

LEMMA CountRangesInv == Inputs /\ AnalysisInv /\ CountRanges => AnalysisInv'
<1>. SUFFICES ASSUME Inputs, AnalysisInv, CountRanges PROVE AnalysisInv'
  OBVIOUS
<1>1. TypeOK /\ PlaceInv /\ ZeroedPerPair /\ FiguresInv /\ at = "range"
  BY DEF AnalysisInv, CountRanges
<1>2. /\ UNCHANGED <<script, iteration, logs, i, pair_th, logs_zeroed, diffs_neg, diffs_median,
                     diffs_99_procent, all>>
      /\ at' = "done"
  <2>1. After("range") = "done"
    BY <1>1, ScriptShape DEF TypeOK
  <2>. QED BY <2>1 DEF CountRanges
<1>3. /\ TypeOK' /\ PlaceInv' /\ CountInv' /\ ZeroedPerPair' /\ Pairs' = Pairs
      /\ Shows("median")' = Shows("median")
      /\ \A p : Negatives(p, DOMAIN all)' = Negatives(p, DOMAIN all)
      /\ \A p : Of(p, DOMAIN all)' = Of(p, DOMAIN all)
      /\ \A p, n : Diff(p, n)' = Diff(p, n)
  BY <1>1, <1>2, FiguresFrame
<1>4. \A r \in Ranges, d \in Int : FirstRange(r, d) <=> Has(r, d)
  <2>1. Ranges = 1 .. Len(thresholds) /\ \A r \in Ranges : thresholds[r] \in Int \X Int
    BY DEF Inputs, Ranges
  <2>2. ASSUME NEW r \in Ranges, NEW s \in Ranges, NEW d \in Int, s < r, Has(r, d)
        PROVE  ~ Has(s, d)
    <3>1. thresholds[s][2] <= thresholds[r][1]
      BY <2>2 DEF Inputs
    <3>2. thresholds[s][2] \in Int /\ thresholds[r][1] \in Int
      BY <2>1
    <3>. QED BY <2>2, <3>1, <3>2 DEF Has
  <2>3. \A r \in Ranges : \A s \in 1 .. r - 1 : s \in Ranges /\ s < r
    BY <2>1
  <2>. QED BY <2>2, <2>3 DEF FirstRange
<1>5. ASSUME NEW p \in Pairs
      PROVE  /\ \A r \in Ranges : in_ranges'[p][r] =
                  Cardinality({n \in Of(p, DOMAIN all) : Has(r, Diff(p, n))})
             /\ Values(count_diffs'[p]) =
                  Cardinality({n \in Of(p, DOMAIN all) : \A r \in Ranges : ~Has(r, Diff(p, n))})
  <2>1. PICK h : h = Histogram(p, DOMAIN all)
    OBVIOUS
  <2>2. count_diffs[p] = h
    BY <1>1, <2>1 DEF FiguresInv
  <2>3. DOMAIN h = {Diff(p, n) : n \in Of(p, DOMAIN all)} /\ DOMAIN h \subseteq Int
    BY <1>1, <2>1, HistogramSum
  <2>4. ASSUME NEW g, NEW K, K \subseteq DOMAIN h, \A d \in K : g[d] = h[d]
        PROVE  Sum(g, K) = Cardinality(Within(p, K))
    BY <1>1, <2>1, <2>4, HistogramCount
  <2>5. ASSUME NEW r \in Ranges
        PROVE  in_ranges'[p][r] = Cardinality({n \in Of(p, DOMAIN all) : Has(r, Diff(p, n))})
    <3>. DEFINE K == {d \in DOMAIN h : FirstRange(r, d)}
    <3>1. in_ranges'[p][r] = Sum(h, K)
      BY <2>2 DEF CountRanges
    <3>2. Within(p, K) = {n \in Of(p, DOMAIN all) : Has(r, Diff(p, n))}
      BY <1>4, <2>3 DEF Within
    <3>. HIDE DEF K
    <3>3. K \subseteq DOMAIN h
      BY DEF K
    <3>. QED BY <2>4, <3>1, <3>2, <3>3
  <2>6. Values(count_diffs'[p]) =
          Cardinality({n \in Of(p, DOMAIN all) : \A r \in Ranges : ~Has(r, Diff(p, n))})
    <3>. DEFINE K == {d \in DOMAIN h : \A r \in Ranges : ~Has(r, d)}
                g == count_diffs'[p]
    <3>1. g = [d \in K |-> h[d]]
      BY <2>2 DEF CountRanges
    <3>2. Within(p, K) = {n \in Of(p, DOMAIN all) : \A r \in Ranges : ~Has(r, Diff(p, n))}
      BY <2>3 DEF Within
    <3>3. K \subseteq DOMAIN h
      OBVIOUS
    <3>. HIDE DEF K, g
    <3>4. Values(g) = Sum(g, K)
      BY <3>1 DEF Values
    <3>5. Sum(g, K) = Cardinality(Within(p, K))
      BY <2>4, <3>1, <3>3
    <3>. QED BY <3>2, <3>4, <3>5 DEF g
  <2>. QED BY <2>5, <2>6
<1>6. \A p \in Pairs : Shows("median") => MediansFit(p, diffs_median[p], diffs_99_procent[p])'
  <2>1. ASSUME NEW p \in Pairs, Shows("median")
        PROVE  MediansFit(p, diffs_median[p], diffs_99_procent[p])'
    <3>1. MediansFit(p, diffs_median[p], diffs_99_procent[p])
      BY <1>1, <2>1 DEF FiguresInv
    <3>. QED BY <1>2, <1>3, <3>1 DEF MediansFit, Ranked, NextAbove
  <2>. QED BY <2>1
<1>7. FiguresInv'
  <2>1. diffs_neg' = [p \in Pairs' |-> Cardinality(Negatives(p, DOMAIN all)')]
    BY <1>1, <1>2, <1>3 DEF FiguresInv
  <2>. QED BY <1>2, <1>3, <1>5, <1>6, <2>1 DEF FiguresInv
<1>. QED BY <1>3, <1>7 DEF AnalysisInv

LEMMA AnalysisStutterInv == AnalysisInv /\ UNCHANGED log_vars => AnalysisInv'
<1>. SUFFICES ASSUME AnalysisInv, UNCHANGED log_vars PROVE AnalysisInv'
  OBVIOUS
<1>1. UNCHANGED <<script, at, iteration, logs, i, pair_th, logs_zeroed, count_diffs, diffs_neg,
                  diffs_median, diffs_99_procent, in_ranges, all>>
  BY DEF log_vars, counters, figures
<1>2. UNCHANGED <<script, all>>
  BY <1>1
<1>3. /\ Pairs' = Pairs /\ Before' = Before /\ (SameLengths(logs) => SameLengths(logs)')
      /\ Shows("median")' = Shows("median")
      /\ \A p : Counted(p)' = Counted(p)
      /\ \A p, n : Diff(p, n)' = Diff(p, n)
      /\ \A p : Of(p, DOMAIN all)' = Of(p, DOMAIN all)
  BY <1>1 DEF Pairs, Before, SameLengths, Shows, Counted, Diff, Of
<1>4. \A p : Of(p, Counted(p))' = Of(p, Counted(p))
  BY <1>1, <1>3 DEF Of
<1>5. TypeOK'
  BY <1>1, <1>3 DEF AnalysisInv, TypeOK
<1>6. PlaceInv'
  BY <1>1, <1>3 DEF AnalysisInv, PlaceInv
<1>7. CountInv'
  <2>1. \A k \in Log : Zeroed(k)' = Zeroed(k)
    BY <1>2, <1>3, Frame DEF Zeroed
  <2>2. \A p : /\ Histogram(p, Counted(p))' = Histogram(p, Counted(p))
               /\ Negatives(p, Counted(p))' = Negatives(p, Counted(p))
    BY <1>3, <1>4 DEF Histogram, Negatives
  <2>. QED BY <1>1, <1>3, <2>1, <2>2 DEF AnalysisInv, CountInv
<1>8. ZeroedPerPair'
  <2>1. \A k : Zeroes(k)' = Zeroes(k) /\ PairsOf(k)' = PairsOf(k)
    BY <1>2, Frame
  <2>. QED BY <1>1, <2>1 DEF AnalysisInv, ZeroedPerPair
<1>9. FiguresInv'
  <2>1. \A p : /\ Histogram(p, DOMAIN all)' = Histogram(p, DOMAIN all)
               /\ Negatives(p, DOMAIN all)' = Negatives(p, DOMAIN all)
    BY <1>3 DEF Histogram, Negatives
  <2>2. ASSUME NEW p
        PROVE  MediansFit(p, diffs_median[p], diffs_99_procent[p])'
                 = MediansFit(p, diffs_median[p], diffs_99_procent[p])
    <3>1. /\ diffs_median' = diffs_median /\ diffs_99_procent' = diffs_99_procent
          /\ Of(p, DOMAIN all)' = Of(p, DOMAIN all)
          /\ \A n : Diff(p, n)' = Diff(p, n)
      BY <1>1, <1>3
    <3>. QED BY <3>1 DEF MediansFit, Ranked, NextAbove
  <2>3. FiguresInv
    BY DEF AnalysisInv
  <2>4. /\ at' = "median" => Shows("median")' /\ \A p \in Pairs' : DOMAIN count_diffs'[p] # {}
        /\ at' \in {"average", "median", "range"} =>
             count_diffs' = [p \in Pairs' |-> Histogram(p, DOMAIN all)']
        /\ at' \in {"average", "median", "range", "done"} =>
             diffs_neg' = [p \in Pairs' |-> Cardinality(Negatives(p, DOMAIN all)')]
    BY <1>1, <1>3, <2>1, <2>3 DEF FiguresInv
  <2>5. at' \in {"range", "done"} /\ Shows("median")' =>
          \A p \in Pairs' : MediansFit(p, diffs_median[p], diffs_99_procent[p])'
    BY <1>1, <1>3, <2>2, <2>3 DEF FiguresInv
  <2>6. at' = "done" => \A p \in Pairs' :
          /\ \A r \in Ranges : in_ranges'[p][r] =
               Cardinality({n \in Of(p, DOMAIN all)' : Has(r, Diff(p, n)')})
          /\ Values(count_diffs'[p]) =
               Cardinality({n \in Of(p, DOMAIN all)' : \A r \in Ranges : ~Has(r, Diff(p, n)')})
    BY <1>1, <1>3, <2>3 DEF FiguresInv
  <2>. QED BY <2>4, <2>5, <2>6 DEF FiguresInv
<1>. QED BY <1>5, <1>6, <1>7, <1>8, <1>9 DEF AnalysisInv

LEMMA AnalysisInvariant ==
  ASSUME Inputs
  PROVE  LogsSpec => []AnalysisInv
<1>1. LogsInit => AnalysisInv
  BY AnalysisInitInv
<1>2. AnalysisInv /\ [LogsNext]_log_vars => AnalysisInv'
  BY LoadLogsInv, CountPairInv, NextIterationInv, HalveInv, AverageInv, MedianStepInv,
     CountRangesInv, AnalysisStutterInv DEF LogsNext
<1>. QED BY <1>1, <1>2, PTL DEF LogsSpec

(* AnalysisInv counts packets; FiguresOfRank counts the differences of those *)
(* that neither log misses.                                                 *)
LEMMA FiguresAreRight ==
  ASSUME Inputs, AnalysisInv
  PROVE  FiguresOfRank
<1>. SUFFICES ASSUME at = "done", NEW p \in Pairs
              PROVE  LET diffs == DiffsOf(p)
                         total == Cardinality(DOMAIN diffs)
                         median == diffs_median[p]
                     IN /\ \A r \in Ranges : in_ranges[p][r] = Number(diffs, LAMBDA d : Has(r, d))
                        /\ Values(count_diffs[p]) =
                             Number(diffs, LAMBDA d : \A r \in Ranges : ~Has(r, d))
                        /\ diffs_neg[p] = Number(diffs, LAMBDA d : d < 0)
                        /\ Shows("median") =>
                             /\ OfRank(diffs, diffs_99_procent[p], (99 * total) \div 100)
                             /\ \/ OfRank(diffs, median, total \div 2)
                                \/ /\ OfRank(diffs, 0, total \div 2) /\ median > 0
                                   /\ \E n \in DOMAIN diffs : diffs[n] = median
                                   /\ \A n \in DOMAIN diffs : diffs[n] <= 0 \/ median <= diffs[n]
  BY DEF FiguresOfRank
<1>. DEFINE diffs == DiffsOf(p)
            S == Of(p, DOMAIN all)
<1>1. FiguresInv /\ TypeOK
  BY DEF AnalysisInv
<1>2. DOMAIN diffs = S /\ \A n \in S : diffs[n] = Diff(p, n)
  BY DEF DiffsOf, Of, Diff
<1>. HIDE DEF diffs
<1>3. \A r \in Ranges : in_ranges[p][r] = Cardinality({n \in DOMAIN diffs : Has(r, diffs[n])})
  <2>1. \A r \in Ranges : {n \in DOMAIN diffs : Has(r, diffs[n])} = {n \in S : Has(r, Diff(p, n))}
    BY <1>2
  <2>. QED BY <1>1, <2>1 DEF FiguresInv
<1>4. Values(count_diffs[p]) =
        Cardinality({n \in DOMAIN diffs : \A r \in Ranges : ~Has(r, diffs[n])})
  <2>1. {n \in DOMAIN diffs : \A r \in Ranges : ~Has(r, diffs[n])}
          = {n \in S : \A r \in Ranges : ~Has(r, Diff(p, n))}
    BY <1>2
  <2>. QED BY <1>1, <2>1 DEF FiguresInv
<1>5. diffs_neg[p] = Cardinality({n \in DOMAIN diffs : diffs[n] < 0})
  <2>1. {n \in DOMAIN diffs : diffs[n] < 0} = Negatives(p, DOMAIN all)
    BY <1>2 DEF Negatives
  <2>. QED BY <1>1, <2>1 DEF FiguresInv
<1>6. \A x, rank : OfRank(diffs, x, rank) = Ranked(p, x, rank)
  <2>. SUFFICES ASSUME NEW x, NEW rank PROVE OfRank(diffs, x, rank) = Ranked(p, x, rank)
    OBVIOUS
  <2>1. /\ {n \in DOMAIN diffs : diffs[n] <= x} = {n \in S : Diff(p, n) <= x}
        /\ {n \in DOMAIN diffs : diffs[n] < x} = {n \in S : Diff(p, n) < x}
        /\ (\E n \in DOMAIN diffs : diffs[n] = x) = (\E n \in S : Diff(p, n) = x)
    BY <1>2
  <2>. QED BY <2>1 DEF OfRank, Ranked, Number
<1>7. ASSUME Shows("median")
      PROVE  /\ OfRank(diffs, diffs_99_procent[p], (99 * Cardinality(DOMAIN diffs)) \div 100)
             /\ \/ OfRank(diffs, diffs_median[p], Cardinality(DOMAIN diffs) \div 2)
                \/ /\ OfRank(diffs, 0, Cardinality(DOMAIN diffs) \div 2) /\ diffs_median[p] > 0
                   /\ \E n \in DOMAIN diffs : diffs[n] = diffs_median[p]
                   /\ \A n \in DOMAIN diffs : diffs[n] <= 0 \/ diffs_median[p] <= diffs[n]
  <2>1. MediansFit(p, diffs_median[p], diffs_99_procent[p])
    BY <1>1, <1>7 DEF FiguresInv
  <2>. QED BY <1>2, <1>6, <2>1 DEF MediansFit, NextAbove
<1>. QED BY <1>3, <1>4, <1>5, <1>7 DEF Number, diffs

(* The two halves of a run do not touch each other's variables.             *)
LEMMA AnalysisAlone == MeasuringSpec => LogsSpec
<1>1. MeasuringInit => LogsInit
  BY DEF MeasuringInit
<1>2. [MeasuringNext]_<<half, vars, log_vars>> => [LogsNext]_log_vars
  BY DEF MeasuringNext
<1>. QED BY <1>1, <1>2, PTL DEF MeasuringSpec, LogsSpec

(* A zero that the scripts count is a packet that one log misses, counted   *)
(* once for every pair the log is in, so half of a log's zeroes only if it  *)
(* is in two pairs (line 212).                                              *)
THEOREM ZeroesPerPair == MeasuringSpec => []ZeroedPerPair
<1>1. AnalysisInv => ZeroedPerPair
  BY DEF AnalysisInv
<1>. QED BY <1>1, AnalysisAlone, AnalysisInvariant, InputsAssumption, PTL

(* Ranges and negative differences are what they are of the packets that    *)
(* neither log of a pair misses, over all iterations; of these packets the  *)
(* "99%" is the difference of rank 99 * total \div 100 from the lowest, the *)
(* "Median" that of rank total \div 2 (one below the middle for an odd      *)
(* total), or the next above 0 where that is 0 (lines 255-265).             *)
THEOREM FiguresDescribePackets == MeasuringSpec => []FiguresOfRank
<1>1. AnalysisInv => FiguresOfRank
  BY FiguresAreRight, InputsAssumption
<1>. QED BY <1>1, AnalysisAlone, AnalysisInvariant, InputsAssumption, PTL
=============================================================================
