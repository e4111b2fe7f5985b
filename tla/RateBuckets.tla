---------------------------- MODULE RateBuckets ----------------------------
(***************************************************************************)
(* The sliding windows behind the Misbehaving report.  The store keeps, per *)
(* node, the packets of each counted type and the hop_start values of all  *)
(* packets; every packet trims its own lists to the largest window of the  *)
(* configuration in force, the report looks at them through the windows in *)
(* force later.  After a restart the lists are rebuilt from the table      *)
(* events, before the saved configuration is read.                         *)
(*                                                                         *)
(* Everything here is under s.mu; the inserts are not.  A sample is the    *)
(* event it was taken from: the code keeps its time, and its hop_start.    *)
(***************************************************************************)
EXTENDS Integers, FiniteSets, FiniteSetsExt

CONSTANTS
  Nodes,          (* senders                                               *)
  Self,           (* our own node                                          *)
  Counted,        (* event types with a count bucket of their own          *)
  Packets,        (* packets that may arrive                               *)
  Configs,        (* sanitized configurations the operator may post        *)
  DefaultConfig,  (* the built-in configuration                            *)
  MinWindow,      (* minMisbehaveWindowSec                                 *)
  Cap,            (* maxBucketEntries                                      *)
  LoadLimit,      (* LoadRecentEvents(10000)                               *)
  Retention,      (* age at which the cleanup deletes rows                 *)
  MaxTime,        (* bound: last value of the clock                        *)
  MaxEvents,      (* bound: events ever received                           *)
  MaxRestarts     (* bound: restarts of the process                        *)

MaxHop  == 7
Types   == Counted \cup {"myinfo", "other"}
Metrics == Counted \cup {"hop"}
Packet  == [node : Nodes, type : Types, hop : Nat]
Config  == [enabled : [Metrics -> BOOLEAN], window : [Metrics -> Nat],
            limit : [Metrics -> Nat]]

ASSUME BucketsAssumption ==
  /\ Self \in Nodes
  /\ IsFiniteSet(Counted)
  /\ {"hop", "myinfo", "other"} \cap Counted = {}
  /\ Packets \subseteq Packet
  /\ \A p \in Packets : p.type = "myinfo" => p.node = Self
  /\ Configs \subseteq Config
  /\ DefaultConfig \in Configs
  /\ MinWindow \in Nat
  /\ \A c \in Configs, m \in Metrics : c.window[m] >= MinWindow
  /\ Cap \in Nat \ {0}
  /\ LoadLimit \in Nat
  /\ Retention \in Nat
  /\ MaxTime \in Nat
  /\ MaxEvents \in Nat
  /\ MaxRestarts \in Nat

VARIABLES
  clock,     (* time.Now().Unix()                                          *)
  cfg,       (* s.misbehaveCfg                                             *)
  saved,     (* the configuration file                                     *)
  known,     (* s.myNodeNum is set                                         *)
  buckets,   (* s.rateBuckets: per node and metric, the samples            *)
  owed,      (* the event between store.Add and InsertEvent                *)
  rows,      (* the table events                                           *)
  nextId,    (* order of arrival                                           *)
  received,  (* history: events this process received or loaded            *)
  since,     (* history: nextId when the node was last reset               *)
  told,      (* history: nextId when our own number became known           *)
  used,      (* history: configurations in force since the start           *)
  restarts   (* bound: restarts so far                                     *)

history == <<received, since, told, used>>
vars == <<clock, cfg, saved, known, buckets, owed, rows, nextId, history, restarts>>

----------------------------------------------------------------------------
Event == [id : 1 .. MaxEvents, node : Nodes, type : Types, hop : Nat, time : 0 .. MaxTime]
Empty == [m \in Metrics |-> {}]

(* The n samples that arrived last.                                         *)
Newest(S, n) == {e \in S : Cardinality({f \in S : f.id > e.id}) < n}

(* Faulty variant: the hop window is forgotten.                             *)
LargestCounted(c) ==
  Max({MinWindow} \cup {c.window[m] : m \in {x \in Counted : c.enabled[x]}})

(* largestWindow                                                            *)
LargestWindow(c) ==
  Max({MinWindow} \cup {c.window[m] : m \in {x \in Metrics : c.enabled[x]}})

(* The lists a packet is appended to.                                       *)
ListsOf(e) == {m \in Metrics : m = e.type \/ (m = "hop" /\ e.hop <= MaxHop)}

(* Faulty variant: the lists grow without limit.                            *)
TrackAll(bs, e, c) ==
  LET Pushed(m) == {s \in bs[e.node][m] : s.time >= e.time - LargestWindow(c)} \cup {e}
  IN  [bs EXCEPT ![e.node] =
         [m \in Metrics |-> IF m \in ListsOf(e) THEN Pushed(m) ELSE bs[e.node][m]]]

(* trackRate for a packet of another node: append to its lists, trim them   *)
(* to the largest window and to the cap.                                    *)
Track(bs, e, c) ==
  LET Pushed(m) == {s \in bs[e.node][m] : s.time >= e.time - LargestWindow(c)} \cup {e}
  IN  [bs EXCEPT ![e.node] =
         [m \in Metrics |-> IF m \in ListsOf(e) THEN Newest(Pushed(m), Cap)
                            ELSE bs[e.node][m]]]

(* The part of Add and of LoadEvents that matters here: MyInfo tells our    *)
(* own number, whose packets are skipped from then on.                      *)
Ingest(st, e, c) ==
  LET own == st.known \/ e.type = "myinfo"
  IN  [known   |-> own,
       buckets |-> IF own /\ e.node = Self THEN st.buckets ELSE Track(st.buckets, e, c)]

(* LoadEvents into a new store, oldest first.                               *)
Replay(events, c) ==
  LET after[i \in 0 .. MaxEvents] ==
        IF i = 0 THEN [known |-> FALSE, buckets |-> [n \in Nodes |-> Empty]]
        ELSE IF \E e \in events : e.id = i
             THEN Ingest(after[i - 1], CHOOSE e \in events : e.id = i, c)
             ELSE after[i - 1]
  IN  after[MaxEvents]

----------------------------------------------------------------------------
(* The report.                                                              *)

InWindow(n, m) == {s \in buckets[n][m] : s.time >= clock - cfg.window[m]}

(* hopStartModeAfter: the most frequent value, the larger of equals.        *)
HopMode(S) ==
  LET freq(v) == Cardinality({s \in S : s.hop = v})
  IN  IF S = {} THEN -1
      ELSE Max({v \in 0 .. MaxHop : \A u \in 0 .. MaxHop : freq(u) <= freq(v)})

(* Misbehaving(nil), as a set of nodes.                                     *)
Misbehaving ==
  {n \in Nodes :
     \/ \E m \in Counted : cfg.enabled[m] /\ Cardinality(InWindow(n, m)) > cfg.limit[m]
     \/ cfg.enabled["hop"] /\ HopMode(InWindow(n, "hop")) > cfg.limit["hop"]}

----------------------------------------------------------------------------
Init ==
  /\ clock = 0
  /\ cfg = DefaultConfig
  /\ saved = DefaultConfig
  /\ known = FALSE
  /\ buckets = [n \in Nodes |-> Empty]
  /\ owed = {}
  /\ rows = {}
  /\ nextId = 1
  /\ received = {}
  /\ since = [n \in Nodes |-> 1]
  /\ told = MaxEvents + 1
  /\ used = {DefaultConfig}
  /\ restarts = 0

(* store.Add of a live packet.                                              *)
Add(p) ==
  /\ owed = {}
  /\ nextId <= MaxEvents
  /\ LET e  == [id |-> nextId, node |-> p.node, type |-> p.type, hop |-> p.hop,
                time |-> clock]
         st == Ingest([known |-> known, buckets |-> buckets], e, cfg)
     IN  /\ known' = st.known
         /\ buckets' = st.buckets
         /\ told' = IF st.known /\ ~ known THEN nextId ELSE told
         /\ owed' = {e}
         /\ received' = received \cup {e}
  /\ nextId' = nextId + 1
  /\ UNCHANGED <<clock, cfg, saved, rows, since, used, restarts>>

(* InsertEvent; an SQL error is only logged.                                *)
InsertEvent ==
  /\ owed # {}
  /\ rows' \in {rows \cup owed, rows}
  /\ owed' = {}
  /\ UNCHANGED <<clock, cfg, saved, known, buckets, nextId, history, restarts>>

(* MyInfo in the config phase: AddSilent, no row.                           *)
Identify ==
  /\ ~ known
  /\ owed = {}
  /\ known' = TRUE
  /\ told' = nextId
  /\ UNCHANGED <<clock, cfg, saved, buckets, owed, rows, nextId, received, since,
                 used, restarts>>

(* POST config, with or without saving it.                                  *)
PostConfig(c) ==
  /\ c # cfg
  /\ cfg' = c
  /\ saved' \in {saved, c}
  /\ used' = used \cup {c}
  /\ UNCHANGED <<clock, known, buckets, owed, rows, nextId, received, since, told,
                 restarts>>

(* ResetMisbehaveForNode, as far as the samples go; a node without any is   *)
(* left as it is.                                                           *)
ResetNode(n) ==
  /\ buckets[n] # Empty
  /\ buckets' = [buckets EXCEPT ![n] = Empty]
  /\ since' = [since EXCEPT ![n] = nextId]
  /\ UNCHANGED <<clock, cfg, saved, known, owed, rows, nextId, received, told, used,
                 restarts>>

(* CleanupOld, as far as this table goes.                                   *)
Cleanup ==
  LET old == {e \in rows : e.time < clock - Retention}
  IN  /\ old # {}
      /\ rows' = rows \ old
      /\ UNCHANGED <<clock, cfg, saved, known, buckets, owed, nextId, history, restarts>>

(* The process ends and starts again: LoadRecentEvents and LoadEvents with  *)
(* the built-in configuration, and only then the saved one.                 *)
Restart ==
  /\ restarts < MaxRestarts
  /\ restarts' = restarts + 1
  /\ LET loaded == Newest(rows, LoadLimit)
         st     == Replay(loaded, DefaultConfig)
     IN  /\ known' = st.known
         /\ buckets' = st.buckets
         /\ received' = loaded
         /\ told' = Min({MaxEvents + 1} \cup {e.id : e \in {f \in loaded : f.type = "myinfo"}})
  /\ cfg' = saved
  /\ used' = {saved}
  /\ owed' = {}
  /\ since' = [n \in Nodes |-> 1]
  /\ UNCHANGED <<clock, saved, rows, nextId>>

(* An event is added in the tick it was decoded in.                         *)
Tick ==
  /\ clock < MaxTime
  /\ clock' = clock + 1
  /\ UNCHANGED <<cfg, saved, known, buckets, owed, rows, nextId, history, restarts>>

Next ==
  \/ \E p \in Packets : Add(p)
  \/ InsertEvent
  \/ Identify
  \/ \E c \in Configs : PostConfig(c)
  \/ \E n \in Nodes : ResetNode(n)
  \/ Cleanup
  \/ Restart
  \/ Tick

Spec == Init /\ [][Next]_vars
----------------------------------------------------------------------------
(* Type correctness of the samples, the table and the settings.             *)
TypeOK ==
  /\ clock \in 0 .. MaxTime
  /\ cfg \in Configs /\ saved \in Configs
  /\ known \in BOOLEAN
  /\ buckets \in [Nodes -> [Metrics -> SUBSET Event]]
  /\ \A n \in Nodes, m \in Metrics : Cardinality(buckets[n][m]) <= Cap
  /\ owed \subseteq Event /\ rows \subseteq Event
  /\ nextId \in 1 .. MaxEvents + 1
  /\ received \subseteq Event
  /\ since \in [Nodes -> 1 .. MaxEvents + 1]
  /\ told \in 1 .. MaxEvents + 1
  /\ used \subseteq Configs
  /\ restarts \in 0 .. MaxRestarts

(* The packets of n that count for m now: received since the last reset,    *)
(* inside the window, and for our own node before its number was known.     *)
(* More than the cap are not promised.                                      *)
Due(n, m) ==
  Newest({e \in received : /\ e.node = n
                           /\ m \in ListsOf(e)
                           /\ e.id >= since[n]
                           /\ n = Self => e.id < told
                           /\ e.time >= clock - cfg.window[m]}, Cap)

Offends(n) ==
  \E m \in Metrics :
    /\ cfg.enabled[m]
    /\ LET due == Due(n, m)
           With(v) == Cardinality({e \in due : e.hop = v})
       IN  IF m # "hop" THEN Cardinality(due) > cfg.limit[m]
           ELSE \E v \in 0 .. MaxHop : /\ v > cfg.limit[m]
                                       /\ With(v) > 0
                                       /\ \A u \in 0 .. MaxHop : With(u) <= With(v)

(* Every window in force now was within the longest enabled window of each  *)
(* configuration of C.                                                      *)
CoveredBy(C) ==
  \A m \in Metrics : cfg.enabled[m] =>
    \A c \in C : \/ cfg.window[m] <= MinWindow
                 \/ \E x \in Metrics : c.enabled[x] /\ cfg.window[m] <= c.window[x]

ExactUnless(C) == CoveredBy(C) => Misbehaving = {n \in Nodes : Offends(n)}

(* The report is exact (store.go:1794-1856, 1921-1964): whatever trims,     *)
(* caps, resets, threshold changes and restarts came between the packets,   *)
(* the nodes reported are those whose packets in the windows in force       *)
(* exceed a limit, unless a window is longer than all those of an earlier   *)
(* configuration; the backfill works with the built-in one.                 *)
ReportIsExact == ExactUnless(used \cup (IF restarts > 0 THEN {DefaultConfig} ELSE {}))

(* store.go:464-465: lists are trimmed "without losing data needed by any   *)
(* active check".  Here the built-in configuration of a restarted process   *)
(* with a saved one is no excuse.                                           *)
BackfillIsExact == ExactUnless(used)
=============================================================================
