---------------------------- MODULE Availability ----------------------------
(***************************************************************************)
(* Online/offline history of the nodes.  The read loop decodes a frame,    *)
(* marks its sender heard in the in-memory tracker and inserts an "online" *)
(* row if that changed the sender's state; a scanner that wakes up every   *)
(* minute marks silent nodes offline and inserts back-dated "offline"      *)
(* rows; retention prunes the table; NodeUptime integrates what is left.   *)
(*                                                                         *)
(* The tracker is under s.mu, every SQL statement is a step of its own,    *)
(* and the loop and the scanner take their steps in any order.             *)
(***************************************************************************)
EXTENDS Integers, Sequences, SequencesExt, FiniteSets

CONSTANTS
  Nodes,         (* the nodes                                              *)
  Threshold,     (* offlineThresholdSecs, in clock ticks                   *)
  ScanPeriod,    (* the scanner's ticker                                   *)
  Retention,     (* age at which the cleanup deletes rows                  *)
  HandlingBound, (* bound: ticks from decoding a frame to its last insert  *)
  MaxTime,       (* bound: last value of the clock                         *)
  MaxCrashes,    (* bound: restarts of the process                         *)
  NoNode         (* no frame, no row                                       *)

(* What thresholds, periods and bounds have to be.                          *)
AvailabilityAssumption ==
  /\ Threshold \in Nat \ {0}
  /\ ScanPeriod \in Nat \ {0}
  /\ Retention \in Nat
  /\ HandlingBound \in Nat
  /\ HandlingBound < Threshold
  /\ MaxTime \in Nat
  /\ MaxCrashes \in Nat
  /\ NoNode \notin Nodes

VARIABLES
  clock,      (* time.Now().Unix()                                         *)
  lastHeard,  (* avail.nodes[n].lastHeard, 0 when n has no entry           *)
  online,     (* avail.nodes[n].isOnline                                   *)
  frame,      (* the decoded frame in the loop's hands                     *)
  opening,    (* the loop's "online" row waiting to be inserted            *)
  closing,    (* the scanner's "offline" rows waiting to be inserted       *)
  lastScan,   (* when the scanner last looked                              *)
  log,        (* the table node_availability, per node, in id order        *)
  reports,    (* history: the times at which each node was marked heard    *)
  excuses,    (* history: <<node, why>> once its rows stopped telling all  *)
  crashes     (* bound: restarts so far                                    *)

vars == <<clock, lastHeard, online, frame, opening, closing, lastScan, log,
          reports, excuses, crashes>>

----------------------------------------------------------------------------
Frame   == [node : Nodes, time : Nat]
NoFrame == [node |-> NoNode, time |-> 0]
Row     == [node : Nodes, time : Nat, event : {"online", "offline"}]
NoRow   == [node |-> NoNode, time |-> 0, event |-> "online"]

(* Why the rows of a node may not tell its whole story: an insert failed,   *)
(* the process died while the node was online or a row was on its way, the  *)
(* cleanup deleted the row its state rests on, or the loop overtook the     *)
(* scanner.                                                                 *)
Reasons == {"insert", "crash", "retention", "race"}

(* Faulty variant: the state before the window is forgotten.                *)
NodeUptimeFresh(rows, from, to) ==
  LET Step(acc, row) ==
        IF row.time < from \/ row.time > to THEN acc
        ELSE [on    |-> row.event = "online",
              since |-> row.time,
              total |-> acc.total + IF acc.on THEN row.time - acc.since ELSE 0]
      end == FoldLeft(Step, [on |-> FALSE, since |-> from, total |-> 0], rows)
  IN  end.total + IF end.on THEN to - end.since ELSE 0

(* One row in the loop of NodeUptime: it is done at the first row past the  *)
(* window; of a row before the window only the state counts.                *)
Walk(acc, row, from, to) ==
  IF acc.done \/ row.time > to THEN [acc EXCEPT !.done = TRUE]
  ELSE [on    |-> row.event = "online",
        since |-> IF row.time < from THEN from ELSE row.time,
        total |-> acc.total +
          IF acc.on /\ row.time >= from THEN row.time - acc.since ELSE 0,
        done  |-> FALSE]

(* NodeUptime: ticks spent online in a window, from a node's rows.          *)
NodeUptime(rows, from, to) ==
  LET walked[i \in 0 .. Len(rows)] ==
        IF i = 0 THEN [on |-> FALSE, since |-> from, total |-> 0, done |-> FALSE]
        ELSE Walk(walked[i - 1], rows[i], from, to)
      end == walked[Len(rows)]
      all == end.total + IF end.on THEN to - end.since ELSE 0
  IN  IF all > to - from THEN to - from ELSE all

(* The rows of a node that DELETE ... WHERE time < cutoff leaves.           *)
Pruned(rows, cutoff) ==
  LET kept[i \in 0 .. Len(rows)] ==
        IF i = 0 THEN <<>>
        ELSE IF rows[i].time < cutoff THEN kept[i - 1] ELSE Append(kept[i - 1], rows[i])
  IN  kept[Len(rows)]

----------------------------------------------------------------------------
Init ==
  /\ clock = 1
  /\ lastHeard = [n \in Nodes |-> 0]
  /\ online = [n \in Nodes |-> FALSE]
  /\ frame = NoFrame
  /\ opening = NoRow
  /\ closing = {}
  /\ lastScan = 1
  /\ log = [n \in Nodes |-> <<>>]
  /\ reports = [n \in Nodes |-> {}]
  /\ excuses = {}
  /\ crashes = 0

(* The read loop decodes a mesh packet from n, or n's entry of the NodeDB   *)
(* dump that follows every handshake.  Both are stamped with the time now.  *)
Decode(n) ==
  /\ frame = NoFrame
  /\ opening = NoRow
  /\ frame' = [node |-> n, time |-> clock]
  /\ UNCHANGED <<clock, lastHeard, online, opening, closing, lastScan, log,
                 reports, excuses, crashes>>

(* The scan may have closed the node between the decoding of its packet and *)
(* the marking: the offline row is then dated after the packet.             *)
Overtaken(n, t) == ~ online[n] /\ lastHeard[n] # 0 /\ t < lastHeard[n] + Threshold

(* Faulty variant: only a node never heard before opens a row.              *)
MarkFirst ==
  /\ frame # NoFrame
  /\ LET n == frame.node IN
       /\ lastHeard' = [lastHeard EXCEPT ![n] = frame.time]
       /\ online' = [online EXCEPT ![n] = TRUE]
       /\ opening' = IF lastHeard[n] # 0 THEN NoRow
                     ELSE [node |-> n, time |-> frame.time, event |-> "online"]
       /\ reports' = [reports EXCEPT ![n] = @ \cup {frame.time}]
       /\ excuses' = IF Overtaken(n, frame.time)
                     THEN excuses \cup {<<n, "race">>} ELSE excuses
  /\ frame' = NoFrame
  /\ UNCHANGED <<clock, closing, lastScan, log, crashes>>

(* MarkNodeHeard, inside Add or AddSilent.                                  *)
MarkNodeHeard ==
  /\ frame # NoFrame
  /\ LET n == frame.node IN
       /\ lastHeard' = [lastHeard EXCEPT ![n] = frame.time]
       /\ online' = [online EXCEPT ![n] = TRUE]
       /\ opening' = IF online[n] THEN NoRow
                     ELSE [node |-> n, time |-> frame.time, event |-> "online"]
       /\ reports' = [reports EXCEPT ![n] = @ \cup {frame.time}]
       /\ excuses' = IF Overtaken(n, frame.time)
                     THEN excuses \cup {<<n, "race">>} ELSE excuses
  /\ frame' = NoFrame
  /\ UNCHANGED <<clock, closing, lastScan, log, crashes>>

(* InsertAvailability of the loop's row.  It is out of order if the scanner *)
(* still holds the offline row that precedes it; a failure is only logged.  *)
InsertOnline ==
  /\ opening # NoRow
  /\ LET n == opening.node IN
       \/ /\ log' = [log EXCEPT ![n] = Append(@, opening)]
          /\ excuses' = IF \E row \in closing : row.node = n
                        THEN excuses \cup {<<n, "race">>} ELSE excuses
       \/ /\ UNCHANGED log
          /\ excuses' = excuses \cup {<<n, "insert">>}
  /\ opening' = NoRow
  /\ UNCHANGED <<clock, lastHeard, online, frame, closing, lastScan, reports,
                 crashes>>

(* Faulty variants: the row is dated when the scan ran; a sign is wrong.    *)
ScanUndated ==
  /\ closing = {}
  /\ clock > lastScan
  /\ LET expired == {n \in Nodes : online[n] /\ clock - lastHeard[n] > Threshold} IN
       /\ online' = [n \in Nodes |-> online[n] /\ n \notin expired]
       /\ closing' = {[node |-> n, time |-> clock, event |-> "offline"] : n \in expired}
  /\ lastScan' = clock
  /\ UNCHANGED <<clock, lastHeard, frame, opening, log, reports, excuses, crashes>>
ScanMisdated ==
  /\ closing = {}
  /\ clock > lastScan
  /\ LET expired == {n \in Nodes : online[n] /\ clock - lastHeard[n] > Threshold} IN
       /\ online' = [n \in Nodes |-> online[n] /\ n \notin expired]
       /\ closing' = {[node |-> n, time |-> lastHeard[n] - Threshold,
                       event |-> "offline"] : n \in expired}
  /\ lastScan' = clock
  /\ UNCHANGED <<clock, lastHeard, frame, opening, log, reports, excuses, crashes>>

(* ScanOffline, on the minute ticker.                                       *)
ScanOffline ==
  /\ closing = {}
  /\ clock > lastScan
  /\ LET expired == {n \in Nodes : online[n] /\ clock - lastHeard[n] > Threshold} IN
       /\ online' = [n \in Nodes |-> online[n] /\ n \notin expired]
       /\ closing' = {[node |-> n, time |-> lastHeard[n] + Threshold,
                       event |-> "offline"] : n \in expired}
  /\ lastScan' = clock
  /\ UNCHANGED <<clock, lastHeard, frame, opening, log, reports, excuses, crashes>>

(* InsertAvailability of one of the scanner's rows, in map order.           *)
InsertOffline(row) ==
  /\ row \in closing
  /\ \/ /\ log' = [log EXCEPT ![row.node] = Append(@, row)]
        /\ UNCHANGED excuses
     \/ /\ UNCHANGED log
        /\ excuses' = excuses \cup {<<row.node, "insert">>}
  /\ closing' = closing \ {row}
  /\ UNCHANGED <<clock, lastHeard, online, frame, opening, lastScan, reports,
                 crashes>>

(* CleanupOld, as far as this table goes.  When the newest of the rows that *)
(* go said online, the table has forgotten that the node was.               *)
Cleanup ==
  LET cutoff  == clock - Retention
      old(n)  == {i \in 1 .. Len(log[n]) : log[n][i].time < cutoff}
      lastOld(n, i) == i \in old(n) /\ \A j \in old(n) : j <= i
  IN  /\ \E n \in Nodes : old(n) # {}
      /\ log' = [n \in Nodes |-> Pruned(log[n], cutoff)]
      /\ excuses' = excuses \cup
           ({n \in Nodes : \E i \in old(n) : lastOld(n, i) /\ log[n][i].event = "online"}
              \X {"retention"})
      /\ UNCHANGED <<clock, lastHeard, online, frame, opening, closing, lastScan,
                     reports, crashes>>

(* The process dies and comes back later: the tracker and everything on its *)
(* way to the table are gone, the table is not.                             *)
Restart ==
  /\ crashes < MaxCrashes
  /\ crashes' = crashes + 1
  /\ clock' \in clock .. MaxTime
  /\ lastScan' = clock'
  /\ lastHeard' = [n \in Nodes |-> 0]
  /\ online' = [n \in Nodes |-> FALSE]
  /\ frame' = NoFrame
  /\ opening' = NoRow
  /\ closing' = {}
  /\ excuses' = excuses \cup
       ({n \in Nodes : online[n] \/ \E row \in closing : row.node = n} \X {"crash"})
  /\ UNCHANGED <<log, reports>>

(* The clock: the scanner is punctual and the loop handles a frame within   *)
(* HandlingBound ticks.                                                     *)
Tick ==
  /\ clock < MaxTime
  /\ clock < lastScan + ScanPeriod
  /\ frame # NoFrame => clock < frame.time + HandlingBound
  /\ opening # NoRow => clock < opening.time + HandlingBound
  /\ clock' = clock + 1
  /\ UNCHANGED <<lastHeard, online, frame, opening, closing, lastScan, log,
                 reports, excuses, crashes>>

ReadLoop ==
  \/ \E n \in Nodes : Decode(n)
  \/ MarkNodeHeard
  \/ InsertOnline

Scanner ==
  \/ ScanOffline
  \/ \E row \in closing : InsertOffline(row)

Next == ReadLoop \/ Scanner \/ Cleanup \/ Restart \/ Tick

Spec == Init /\ [][Next]_vars
----------------------------------------------------------------------------
(* Type correctness of the tracker, the rows in flight and the table.       *)
TypeOK ==
  /\ clock \in Nat /\ lastScan \in Nat /\ crashes \in 0 .. MaxCrashes
  /\ lastHeard \in [Nodes -> Nat] /\ online \in [Nodes -> BOOLEAN]
  /\ frame \in Frame \cup {NoFrame}
  /\ opening \in Row \cup {NoRow}
  /\ closing \subseteq Row
  /\ log \in [Nodes -> Seq(Row)]
  /\ reports \in [Nodes -> SUBSET Nat]
  /\ excuses \subseteq Nodes \X Reasons

(* All rows of n that the loop and the scanner owe have been inserted.      *)
Settled(n) == opening.node # n /\ \A row \in closing : row.node # n

Excused(n, whys) == \E why \in whys : <<n, why>> \in excuses

(* Ticks of a window in which n had been marked heard within the threshold. *)
Heard(n, from, to) ==
  {t \in from .. to - 1 : \E r \in reports[n] : r <= t /\ t < r + Threshold}

(* Ticks of a window in which n may be shown online although it was not     *)
(* heard: silences that ended before a scan could see them, and the one     *)
(* that no scan has seen yet.                                               *)
Bridged(n, from, to) ==
  {t \in from .. to - 1 :
     \E r \in reports[n] :
       /\ r <= t
       /\ \/ t < lastScan /\ \E s \in reports[n] :
               t < s /\ s - r <= Threshold + ScanPeriod
          \/ clock - r <= Threshold + ScanPeriod}

Windows == {w \in (1 .. clock) \X (1 .. clock) : w[1] < w[2] /\ w[1] >= clock - Retention}

NotInflatedExcept(whys) ==
  \A n \in Nodes : Settled(n) /\ ~ Excused(n, whys) =>
    \A w \in Windows :
      NodeUptime(log[n], w[1], w[2]) <=
        Cardinality(Heard(n, w[1], w[2]) \cup Bridged(n, w[1], w[2]))

(* Uptime never understated (diagnostics.go:84-129 over the rows of         *)
(* app.go:544-551 and 868-876): whatever the order in which loop, scanner   *)
(* and cleanup run, every tick of a window that falls within the threshold  *)
(* of a report is counted as online, unless a row of the node was lost or   *)
(* inserted out of order.                                                   *)
UptimeCounted ==
  \A n \in Nodes : Settled(n) /\ ~ Excused(n, Reasons) =>
    \A w \in Windows :
      NodeUptime(log[n], w[1], w[2]) >= Cardinality(Heard(n, w[1], w[2]))

(* Uptime never overstated: a tick counted as online is within the          *)
(* threshold of a report or in a silence too short for a scan to see.       *)
UptimeNotInflated == NotInflatedExcept(Reasons)

(* Tracker and table agree (diagnostics.go:39-58, 63-82): once the rows of  *)
(* a node are in, its newest row says what the tracker says.                *)
LogMatchesTracker ==
  \A n \in Nodes : Settled(n) /\ ~ Excused(n, Reasons) =>
    (online[n] <=> log[n] # <<>> /\ Last(log[n]).event = "online")

(* store/diagnostics.go:12: "a node not heard for this long is considered   *)
(* offline".  Here a restart is no excuse.                                  *)
SilentIsOffline == NotInflatedExcept(Reasons \ {"crash"})
=============================================================================
