----------------------------- MODULE KMVersions -----------------------------
(* For TLC: either the modules are loaded and unloaded, or one of the      *)
(* drafts' caches is at work; the half that is not looked at stands still. *)
EXTENDS KMLifecycle

CONSTANTS Drafts, MAX_PKT, PKTS_PER_BUFFER, MAX_LOG_ENTRY, Uids

VARIABLES half, draft, uid, slot, current_index, count_pkt_overflow, log, user_log, rx, rd,
          stored, handed, short, full

D == INSTANCE DraftCaches
ASSUME DraftsAssumption == D!Sizes
cache_vars == <<draft, uid, slot, current_index, count_pkt_overflow, log, user_log, rx, rd,
                stored, handed, short, full>>

(* Any module and program alone; the measuring process of the present       *)
(* module together with an echo.                                           *)
OneProcess == at["p1"] = 1 /\ at["p2"] = Dead /\ program["p2"] = Echo
TwoProcesses ==
  /\ km = Current /\ hook = 0 /\ at["p1"] = 1 /\ at["p2"] = 1
  /\ program["p1"] = UserProcessing /\ program["p2"] = Echo

VersionsInit ==
  /\ Init /\ D!Init
  /\ \/ half = "lifecycle" /\ draft = "legacy" /\ (OneProcess \/ TwoProcesses)
     \/ half = "caches" /\ km = Current /\ TwoProcesses

VersionsNext ==
  /\ half' = half
  /\ \/ half = "lifecycle" /\ Next /\ UNCHANGED cache_vars
     \/ half = "caches" /\ D!Next /\ UNCHANGED vars

VersionsSpec ==
  /\ VersionsInit /\ [][VersionsNext]_<<half, vars, cache_vars>>
  /\ WF_vars(myexit) /\ WF_vars(rxhPacketIn)
  /\ \A a \in Procs \cup {Rmmod} : WF_vars(thread(a))

(* Of DraftCaches: no stamp but of a stored packet (l. 239-249 of legacy).  *)
StampsOwn == D!StampsOwn
(* Of DraftCaches: what is neither cached nor read met a full cache.        *)
LostOnlyWhenFull == D!LostOnlyWhenFull

MCModules == {Current, Legacy, Temp, Example}
MCPrograms == {MmapU, Original, UserProcessing, Echo}
=============================================================================
