------------------------------- MODULE MCDays -------------------------------
(* What is kept for days, in two parts that share no state: the daily log   *)
(* files (DailyLogs) and the rows of the availability table (Availability). *)
(* A behaviour is about one part; the other stays in its initial state.     *)
(*                                                                          *)
(* DailyLogs: two ticks a day, so that a day ends between two calls or in   *)
(* one; two days of files old enough.                                       *)
EXTENDS DailyLogs

VARIABLE part  (* what this behaviour is about                              *)

(* Availability: one node, long enough for a silence no scan sees, for a    *)
(* row to outlive its retention and for a restart.                          *)
CONSTANTS Nodes, NoNode, Threshold, ScanPeriod, Retention, HandlingBound, LastTick,
          MaxCrashes

VARIABLES clock, lastHeard, online, frame, opening, closing, lastScan, log, reports,
          excuses, crashes
N == INSTANCE Availability WITH MaxTime <- LastTick

ASSUME NodesAssumption == N!AvailabilityAssumption
----------------------------------------------------------------------------
nodeVars == <<clock, lastHeard, online, frame, opening, closing, lastScan, log, reports,
              excuses, crashes>>
allVars  == <<part, vars, nodeVars>>

MCInit == part \in {"nodes", "logs"} /\ N!Init /\ Init

MCNext ==
  /\ UNCHANGED part
  /\ \/ part = "nodes" /\ N!Next /\ UNCHANGED vars
     \/ part = "logs" /\ Next /\ UNCHANGED nodeVars

MCSpec == MCInit /\ [][MCNext]_allVars
----------------------------------------------------------------------------
(* Type correctness of writers, directory and compressor, of table and      *)
(* tracker.                                                                 *)
TypesOK == TypeOK /\ N!TypeOK

(* Availability: no tick within the threshold of a report goes uncounted.   *)
UptimeCounted == N!UptimeCounted

(* Availability: no other tick is counted, but for short silences.          *)
UptimeNotInflated == N!UptimeNotInflated

(* Availability: the newest row of a node says what the tracker says.       *)
LogMatchesTracker == N!LogMatchesTracker
=============================================================================
