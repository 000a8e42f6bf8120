----------------------------- MODULE PacketStore -----------------------------
(***************************************************************************)
(* What the packet cache of the kernel module promises to the process that *)
(* reads it: a bounded store that drops a packet only if it was full while *)
(* the packet was arriving, hands every stored packet out at most once, in *)
(* batches, and returns a batch that is not full only if that batch holds  *)
(* everything the store held when the read began.                          *)
(***************************************************************************)
EXTENDS Naturals, FiniteSets

CONSTANTS
  Arrivals,   (* the packets that may arrive, each at most once            *)
  Capacity,   (* how many packets the store has room for                   *)
  BatchSize   (* how many packets one read returns at most                 *)

VARIABLES
  arriving,   (* the packet being taken in, if any: a set of at most one   *)
  roomless,   (* the store was seen full since that packet began to arrive *)
  stored,     (* packets that a read may return                            *)
  releasing,  (* packets returned already whose room is not yet free       *)
  delivered,  (* packets a read has returned                               *)
  dropped,    (* packets refused                                           *)
  reading,    (* "no", "scan" or "release": the phase of the read          *)
  promised    (* what the store held when the read began                   *)

storeVars == <<arriving, roomless, stored, releasing, delivered, dropped, reading, promised>>

Full == Cardinality(stored \cup releasing) = Capacity

Init ==
  /\ arriving = {} /\ roomless = FALSE
  /\ stored = {} /\ releasing = {} /\ delivered = {} /\ dropped = {}
  /\ reading = "no" /\ promised = {}

Arrive ==
  /\ arriving = {}
  /\ \E p \in Arrivals \ (stored \cup releasing \cup delivered \cup dropped) :
       arriving' = {p}
  /\ roomless' = FALSE
  /\ UNCHANGED <<stored, releasing, delivered, dropped, reading, promised>>

Look ==
  /\ arriving # {}
  /\ roomless' = Full
  /\ UNCHANGED <<arriving, stored, releasing, delivered, dropped, reading, promised>>

Accept ==
  /\ arriving # {} /\ ~Full
  /\ stored' = stored \cup arriving
  /\ arriving' = {} /\ roomless' = FALSE
  /\ UNCHANGED <<releasing, delivered, dropped, reading, promised>>

Drop ==
  /\ arriving # {} /\ roomless
  /\ dropped' = dropped \cup arriving
  /\ arriving' = {} /\ roomless' = FALSE
  /\ UNCHANGED <<stored, releasing, delivered, reading, promised>>

StartRead ==
  /\ reading = "no"
  /\ reading' = "scan" /\ promised' = stored
  /\ UNCHANGED <<arriving, roomless, stored, releasing, delivered, dropped>>

Deliver ==
  /\ reading = "scan"
  /\ \E S \in SUBSET stored :
       /\ Cardinality(S) <= BatchSize
       /\ Cardinality(S) < BatchSize => promised \subseteq S
       /\ stored' = stored \ S
       /\ releasing' = S
       /\ delivered' = delivered \cup S
  /\ reading' = "release" /\ promised' = {}
  /\ UNCHANGED <<arriving, roomless, dropped>>

Release ==
  /\ reading = "release"
  /\ \E p \in releasing : releasing' = releasing \ {p}
  /\ UNCHANGED <<arriving, roomless, stored, delivered, dropped, reading, promised>>

EndRead ==
  /\ reading = "release" /\ releasing = {}
  /\ reading' = "no"
  /\ UNCHANGED <<arriving, roomless, stored, releasing, delivered, dropped, promised>>

Next ==
  \/ Arrive \/ Look \/ Accept \/ Drop
  \/ StartRead \/ Deliver \/ Release \/ EndRead

Spec == Init /\ [][Next]_storeVars
=============================================================================
