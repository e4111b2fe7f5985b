----------------------------- MODULE AutoNotify -----------------------------
(***************************************************************************)
(* The auto-notify scheduler: the background loop that sends a polite DM   *)
(* to every node of the Misbehaving report, the audit table its cooldown   *)
(* and its hourly limit are computed from, and everything that runs beside *)
(* it: dashboard requests (notify now, reset, clear log, new thresholds),  *)
(* routing errors seen by the read loop, database retention, and crashes.  *)
(*                                                                         *)
(* One action is one critical section of the code: a store method under    *)
(* s.mu, one SQL statement (the pool has one connection), or one frame     *)
(* written to the radio.  Between two of them any other action may run.    *)
(***************************************************************************)
EXTENDS Integers, FiniteSets

CONSTANTS
  Nodes,          (* remote nodes that may be reported as misbehaving      *)
  Notifiers,      (* dashboard requests: POST notify/{id}                  *)
  Resetters,      (* dashboard requests: POST reset/{id}                   *)
  Posters,        (* dashboard requests: POST config                       *)
  Configs,        (* sanitized configurations the operator may post        *)
  DefaultConfig,  (* the built-in configuration                            *)
  Hour,           (* length of the rate-limit window, in clock ticks       *)
  NackWindow,     (* how old a DM a routing error may still mark           *)
  Retention,      (* age at which the cleanup deletes audit rows           *)
  PassBound,      (* bound: ticks from a pass reading the time to its end  *)
  MaxTime,        (* bound: last value of the clock                        *)
  MaxRows,        (* bound: audit rows ever allocated                      *)
  NoNode          (* no target                                             *)

Requests == Notifiers \cup Resetters \cup Posters

Config == [enabled : BOOLEAN, dry : BOOLEAN,
           cooldown : Nat, max : Nat, minAge : Nat]

ASSUME ConfigAssumption ==
  /\ Configs \subseteq Config
  /\ DefaultConfig \in Configs
  /\ NoNode \notin Nodes
  /\ \A c \in Configs : c.cooldown >= 1 /\ c.max >= 1

ASSUME BoundAssumption ==
  /\ Hour \in Nat \ {0}
  /\ NackWindow \in Nat
  /\ Retention \in Nat
  /\ PassBound \in Nat
  /\ MaxTime \in Nat
  /\ MaxRows \in Nat

VARIABLES
  clock,     (* time.Now().Unix()                                          *)
  cfg,       (* the active configuration, store.misbehaveCfg               *)
  saved,     (* what loading the configuration file yields                 *)
  over,      (* nodes over a threshold: what Misbehaving(nil) would list   *)
  flagged,   (* store.misbFirstFlagged, 0 when the node has no entry       *)
  rows,      (* the table misbehave_notifications                          *)
  pc,        (* where the scheduler loop is                                *)
  passCfg,   (* the pass's configuration snapshot                          *)
  todo,      (* the nodes of the pass's report not looked at yet           *)
  now,       (* the pass's time                                            *)
  count,     (* sentLastHour                                               *)
  target,    (* the node the pass is at                                    *)
  pending,   (* the row of the pass waiting to be inserted                 *)
  req,       (* the dashboard requests in flight                           *)
  nextId,    (* AUTOINCREMENT of the table                                 *)
  history,   (* history: every delivery, real or dry-run                   *)
  excuses,   (* history: <<id, why>> when a delivery's row stopped counting *)
  absentAt,  (* history: last minute tick (or start) without the node over *)
  missedAt   (* history: last such tick with the scheduler on, or start    *)

passVars  == <<pc, passCfg, todo, now, count, target, pending>>
ghostVars == <<history, excuses>>
vars == <<clock, cfg, saved, over, flagged, rows, pc, passCfg, todo, now,
          count, target, pending, req, nextId, history, excuses, absentAt, missedAt>>

----------------------------------------------------------------------------
Counted == {"sent", "dry-run"}   \* the statuses every query counts

Row      == [id : Nat, node : Nodes, time : Nat,
             status : Counted \cup {"failed", "nack"}]
NoRow    == [id |-> 0, node |-> NoNode, time |-> 0, status |-> "failed"]
Delivery == [id : Nat, node : Nodes, time : Nat, by : {"auto", "manual"},
             cooldown : Nat, max : Nat]
Idle     == [op |-> "idle", node |-> NoNode, row |-> NoRow, config |-> DefaultConfig]
Request  == [op : {"idle", "send", "insert", "delete", "save"},
             node : Nodes \cup {NoNode}, row : Row \cup {NoRow}, config : Configs]

(* Faulty variant: dry runs left out.                                        *)
CountSinceReal(since) ==
  Cardinality({r \in rows : r.status = "sent" /\ r.time >= since})

(* CountMisbehaveNotificationsSince: rows counted from `since` on.          *)
CountSince(since) ==
  Cardinality({r \in rows : r.status \in Counted /\ r.time >= since})

(* The test the loop makes of LastMisbehaveNotificationSent(n).             *)
CoolingDown(n) ==
  \E r \in rows : /\ r.node = n
                  /\ r.status \in Counted
                  /\ now - r.time < passCfg.cooldown

(* Why a counted row may be lost to the loop: its insert failed, the        *)
(* operator deleted it, a routing error marked it, the process died.  A     *)
(* failed query loses all rows to one check or one count.                   *)
Lost    == {"insert", "operator", "nack", "crash"}
Reasons == Lost \cup {"check", "count"}

(* The counted rows among gone stop counting for the reason why.            *)
Forgotten(gone, why) == {<<r.id, why>> : r \in {x \in gone : x.status \in Counted}}

(* InsertMisbehaveNotification; an SQL error is only logged.                *)
Insert(row) ==
  \/ /\ rows' = rows \cup {row}
     /\ UNCHANGED excuses
  \/ /\ UNCHANGED rows
     /\ excuses' = excuses \cup Forgotten({row}, "insert")

----------------------------------------------------------------------------
Init ==
  /\ clock = 1
  /\ cfg \in Configs
  /\ saved = cfg
  /\ over = {}
  /\ flagged = [n \in Nodes |-> 0]
  /\ rows = {}
  /\ pc = "wait"
  /\ passCfg = DefaultConfig
  /\ todo = {}
  /\ now = 0
  /\ count = 0
  /\ target = NoNode
  /\ pending = NoRow
  /\ req = [r \in Requests |-> Idle]
  /\ nextId = 1
  /\ history = {}
  /\ excuses = {}
  /\ absentAt = [n \in Nodes |-> 1]
  /\ missedAt = [n \in Nodes |-> 1]

----------------------------------------------------------------------------
(* The scheduler loop.                                                      *)

InPass == pc \in {"pick", "cooldown", "send", "insert"}

(* The minute ticker: snapshot the configuration, take the report.  A       *)
(* disabled scheduler goes back to waiting.                                 *)
Wake ==
  /\ pc = "wait"
  /\ clock > now
  /\ IF cfg.enabled
     THEN /\ pc' = "mark" /\ passCfg' = cfg /\ todo' = over
          /\ missedAt' = [n \in Nodes |-> IF n \in over THEN missedAt[n] ELSE clock]
     ELSE UNCHANGED <<pc, passCfg, todo, missedAt>>
  /\ now' = clock
  /\ absentAt' = [n \in Nodes |-> IF n \in over THEN absentAt[n] ELSE clock]
  /\ UNCHANGED <<clock, cfg, saved, over, flagged, rows, count, target,
                 pending, req, nextId, ghostVars>>

(* Faulty variant: MarkFlagged without UnflagAbsent.                        *)
MarkOnly ==
  /\ pc = "mark"
  /\ flagged' = [n \in Nodes |-> IF n \in todo /\ flagged[n] = 0 THEN clock
                                 ELSE flagged[n]]
  /\ pc' = "count"
  /\ UNCHANGED <<clock, cfg, saved, over, rows, passCfg, todo, now, count,
                 target, pending, req, nextId, ghostVars, absentAt, missedAt>>

(* MarkFlagged for each reported node, then UnflagAbsent for the others.    *)
(* The per-node calls touch one map entry each, so they commute with the    *)
(* Reset of another request and are taken together.                         *)
Mark ==
  /\ pc = "mark"
  /\ flagged' = [n \in Nodes |-> IF n \notin todo THEN 0
                                 ELSE IF flagged[n] = 0 THEN clock
                                 ELSE flagged[n]]
  /\ pc' = "count"
  /\ UNCHANGED <<clock, cfg, saved, over, rows, passCfg, todo, now, count,
                 target, pending, req, nextId, ghostVars, absentAt, missedAt>>

(* Fix the pass's time and read how much of the hourly budget is used.  A   *)
(* failing query counts nothing.                                            *)
CountSent ==
  /\ pc = "count"
  /\ now' = clock
  /\ \/ count' = CountSince(clock - Hour) /\ UNCHANGED excuses
     \/ /\ count' = 0
        /\ excuses' = excuses \cup
             Forgotten({r \in rows : r.time >= clock - Hour}, "count")
  /\ pc' = "pick"
  /\ UNCHANGED <<clock, cfg, saved, over, flagged, rows, passCfg, todo,
                 target, pending, req, nextId, history, absentAt, missedAt>>

(* Budget exhausted or report walked: back to the ticker.                   *)
EndPass ==
  /\ pc = "pick"
  /\ todo = {} \/ count >= passCfg.max
  /\ pc' = "wait"
  /\ passCfg' = DefaultConfig
  /\ todo' = {}
  /\ count' = 0
  /\ UNCHANGED <<clock, cfg, saved, over, flagged, rows, now, target,
                 pending, req, nextId, ghostVars, absentAt, missedAt>>

(* Faulty variant: the node is not remembered.                              *)
GraceAdrift(n) ==
  /\ pc = "pick"
  /\ n \in todo
  /\ count < passCfg.max
  /\ todo' = todo \ {n}
  /\ pc' = IF flagged[n] = 0 \/ now - flagged[n] < passCfg.minAge
           THEN pc ELSE "cooldown"
  /\ UNCHANGED <<clock, cfg, saved, over, flagged, rows, passCfg, now, count,
                 target, pending, req, nextId, ghostVars, absentAt, missedAt>>

(* The next node of the report: FirstFlaggedAt against the grace period.    *)
(* The report's order (worst offender first) is left open.                  *)
Grace(n) ==
  /\ pc = "pick"
  /\ n \in todo
  /\ count < passCfg.max
  /\ todo' = todo \ {n}
  /\ IF flagged[n] = 0 \/ now - flagged[n] < passCfg.minAge
     THEN UNCHANGED <<pc, target>>
     ELSE pc' = "cooldown" /\ target' = n
  /\ UNCHANGED <<clock, cfg, saved, over, flagged, rows, passCfg, now, count,
                 pending, req, nextId, ghostVars, absentAt, missedAt>>

(* LastMisbehaveNotificationSent against the cooldown.  A failing query     *)
(* answers as if the node had never been notified.                          *)
Cooldown ==
  /\ pc = "cooldown"
  /\ \/ /\ pc' = IF CoolingDown(target) THEN "pick" ELSE "send"
        /\ UNCHANGED excuses
     \/ /\ pc' = "send"
        /\ excuses' = excuses \cup Forgotten({r \in rows : r.node = target}, "check")
  /\ target' = IF pc' = "send" THEN target ELSE NoNode
  /\ UNCHANGED <<clock, cfg, saved, over, flagged, rows, passCfg, todo, now,
                 count, pending, req, nextId, history, absentAt, missedAt>>

(* Dry-run, or SendTextMessage, which fails or puts the DM on the air.      *)
Send(status) ==
  /\ pc = "send"
  /\ nextId <= MaxRows
  /\ passCfg.dry <=> status = "dry-run"
  /\ pending' = [id |-> nextId, node |-> target, time |-> now, status |-> status]
  /\ nextId' = nextId + 1
  /\ IF status \in Counted
     THEN /\ count' = count + 1
          /\ history' = history \cup
               {[id |-> nextId, node |-> target, time |-> now, by |-> "auto",
                 cooldown |-> passCfg.cooldown, max |-> passCfg.max]}
     ELSE UNCHANGED <<count, history>>
  /\ pc' = "insert"
  /\ UNCHANGED <<clock, cfg, saved, over, flagged, rows, passCfg, todo, now,
                 target, req, excuses, absentAt, missedAt>>

(* Record the attempt, whatever became of it, and go on with the report.    *)
InsertRow ==
  /\ pc = "insert"
  /\ Insert(pending)
  /\ pending' = NoRow
  /\ target' = NoNode
  /\ pc' = "pick"
  /\ UNCHANGED <<clock, cfg, saved, over, flagged, passCfg, todo, now, count,
                 req, nextId, history, absentAt, missedAt>>

Scheduler ==
  \/ Wake
  \/ Mark
  \/ CountSent
  \/ EndPass
  \/ \E n \in Nodes : Grace(n)
  \/ Cooldown
  \/ \E status \in Counted \cup {"failed"} : Send(status)
  \/ InsertRow

----------------------------------------------------------------------------
(* Dashboard requests.                                                      *)

(* POST notify/{id}: only a node that is flagged right now; the row is      *)
(* dated before the frame is written.  Cooldown and limit are bypassed.     *)
NotifyNow(r, n) ==
  /\ req[r].op = "idle"
  /\ n \in over
  /\ nextId <= MaxRows
  /\ req' = [req EXCEPT ![r] =
       [op |-> "send", node |-> n, config |-> cfg,
        row |-> [id |-> nextId, node |-> n, time |-> clock, status |-> "failed"]]]
  /\ nextId' = nextId + 1
  /\ UNCHANGED <<clock, cfg, saved, over, flagged, rows, passVars, ghostVars,
                 absentAt, missedAt>>

NotifySend(r, status) ==
  /\ req[r].op = "send"
  /\ req[r].config.dry <=> status = "dry-run"
  /\ req' = [req EXCEPT ![r].op = "insert", ![r].row.status = status]
  /\ IF status \in Counted
     THEN history' = history \cup
            {[id |-> req[r].row.id, node |-> req[r].node, time |-> req[r].row.time,
              by |-> "manual", cooldown |-> req[r].config.cooldown,
              max |-> req[r].config.max]}
     ELSE UNCHANGED history
  /\ UNCHANGED <<clock, cfg, saved, over, flagged, rows, passVars, nextId,
                 excuses, absentAt, missedAt>>

NotifyInsert(r) ==
  /\ req[r].op = "insert"
  /\ Insert(req[r].row)
  /\ req' = [req EXCEPT ![r] = Idle]
  /\ UNCHANGED <<clock, cfg, saved, over, flagged, passVars, nextId, history,
                 absentAt, missedAt>>

(* POST reset/{id}: the store forgets the node's samples and its flag ...   *)
ResetNode(r, n) ==
  /\ req[r].op = "idle"
  /\ over' = over \ {n}
  /\ flagged' = [flagged EXCEPT ![n] = 0]
  /\ req' = [req EXCEPT ![r] = [Idle EXCEPT !.op = "delete", !.node = n]]
  /\ UNCHANGED <<clock, cfg, saved, rows, passVars, nextId, ghostVars,
                 absentAt, missedAt>>

(* ... and then the node's audit rows are deleted, or the statement fails.  *)
ResetDelete(r) ==
  /\ req[r].op = "delete"
  /\ \E gone \in {{row \in rows : row.node = req[r].node}, {}} :
       /\ rows' = rows \ gone
       /\ excuses' = excuses \cup Forgotten(gone, "operator")
  /\ req' = [req EXCEPT ![r] = Idle]
  /\ UNCHANGED <<clock, cfg, saved, over, flagged, passVars, nextId, history,
                 absentAt, missedAt>>

(* DELETE notifications: the whole audit log.                               *)
ClearLog ==
  /\ rows # {}
  /\ rows' = {}
  /\ excuses' = excuses \cup Forgotten(rows, "operator")
  /\ UNCHANGED <<clock, cfg, saved, over, flagged, passVars, req, nextId,
                 history, absentAt, missedAt>>

(* POST config: applied at once, written to the file afterwards if asked.   *)
PostConfig(r, c, save) ==
  /\ req[r].op = "idle"
  /\ cfg' = c
  /\ req' = IF save THEN [req EXCEPT ![r] = [Idle EXCEPT !.op = "save", !.config = c]]
                    ELSE req
  /\ UNCHANGED <<clock, saved, over, flagged, rows, passVars, nextId, ghostVars,
                 absentAt, missedAt>>

(* os.WriteFile succeeds, fails before it truncates the file, or leaves a   *)
(* partial file, which the next start rejects in favour of the defaults.    *)
SaveConfig(r) ==
  /\ req[r].op = "save"
  /\ saved' \in {req[r].config, saved, DefaultConfig}
  /\ req' = [req EXCEPT ![r] = Idle]
  /\ UNCHANGED <<clock, cfg, over, flagged, rows, passVars, nextId, ghostVars,
                 absentAt, missedAt>>

Dashboard ==
  \/ \E r \in Notifiers, n \in Nodes : NotifyNow(r, n)
  \/ \E r \in Notifiers, status \in Counted \cup {"failed"} : NotifySend(r, status)
  \/ \E r \in Notifiers : NotifyInsert(r)
  \/ \E r \in Resetters, n \in Nodes : ResetNode(r, n)
  \/ \E r \in Resetters : ResetDelete(r)
  \/ \E r \in Posters, c \in Configs, save \in BOOLEAN : PostConfig(r, c, save)
  \/ \E r \in Posters : SaveConfig(r)
  \/ ClearLog

----------------------------------------------------------------------------
(* Everything else that runs beside the loop.                               *)

(* A routing error from n, answering whatever message: MarkNotificationNack *)
(* rewrites the newest sent row of n inside the window.                     *)
RoutingError(n) ==
  LET sent == {r \in rows : r.node = n /\ r.status = "sent"
                              /\ r.time >= clock - NackWindow}
  IN  \E r \in sent :
        /\ \A s \in sent : s.time <= r.time
        /\ rows' = (rows \ {r}) \cup {[r EXCEPT !.status = "nack"]}
        /\ excuses' = excuses \cup Forgotten({r}, "nack")
        /\ UNCHANGED <<clock, cfg, saved, over, flagged, passVars, req, nextId,
                       history, absentAt, missedAt>>

(* Faulty variant: only the rate window is kept.                            *)
CleanupHour ==
  LET old == {r \in rows : r.time < clock - Hour}
  IN  /\ old # {}
      /\ rows' = rows \ old
      /\ UNCHANGED <<clock, cfg, saved, over, flagged, passVars, req, nextId,
                     ghostVars, absentAt, missedAt>>

(* The retention loop's CleanupOld, as far as this table goes.              *)
Cleanup ==
  LET old == {r \in rows : r.time < clock - Retention}
  IN  /\ old # {}
      /\ rows' = rows \ old
      /\ UNCHANGED <<clock, cfg, saved, over, flagged, passVars, req, nextId,
                     ghostVars, absentAt, missedAt>>

(* Traffic, silence or a threshold change moves a node in or out of the     *)
(* report.                                                                  *)
Traffic(n) ==
  /\ over' = IF n \in over THEN over \ {n} ELSE over \cup {n}
  /\ UNCHANGED <<clock, cfg, saved, flagged, rows, passVars, req, nextId,
                 ghostVars, absentAt, missedAt>>

(* The process dies at any point and is started again: the table and the    *)
(* configuration file survive, a file being written may be cut short.       *)
Restart ==
  /\ saved' \in {saved} \cup
       (IF \E r \in Requests : req[r].op = "save" THEN {DefaultConfig} ELSE {})
  /\ cfg' = saved'
  /\ over' = {}
  /\ flagged' = [n \in Nodes |-> 0]
  /\ pc' = "wait" /\ passCfg' = DefaultConfig /\ todo' = {} /\ now' = clock
  /\ count' = 0 /\ target' = NoNode /\ pending' = NoRow
  /\ req' = [r \in Requests |-> Idle]
  /\ excuses' = excuses \cup Forgotten(
       {pending} \cup {req[r].row : r \in Requests}, "crash")
  /\ absentAt' = [n \in Nodes |-> clock]
  /\ missedAt' = absentAt'
  /\ UNCHANGED <<clock, rows, nextId, history>>

(* The clock: a pass ends within PassBound ticks of having read it.         *)
Tick ==
  /\ clock < MaxTime
  /\ InPass => clock < now + PassBound
  /\ clock' = clock + 1
  /\ UNCHANGED <<cfg, saved, over, flagged, rows, passVars, req, nextId,
                 ghostVars, absentAt, missedAt>>

Environment ==
  \/ \E n \in Nodes : RoutingError(n) \/ Traffic(n)
  \/ Cleanup
  \/ Restart
  \/ Tick

Next == Scheduler \/ Dashboard \/ Environment

Spec == Init /\ [][Next]_vars
----------------------------------------------------------------------------
(* Type correctness of the scheduler, the table and the requests.           *)
TypeOK ==
  /\ clock \in Nat /\ now \in Nat /\ count \in Nat /\ nextId \in Nat \ {0}
  /\ cfg \in Configs /\ saved \in Configs /\ passCfg \in Configs
  /\ over \subseteq Nodes /\ todo \subseteq Nodes
  /\ flagged \in [Nodes -> Nat] /\ absentAt \in [Nodes -> Nat]
  /\ missedAt \in [Nodes -> Nat]
  /\ rows \subseteq Row /\ IsFiniteSet(rows)
  /\ pc \in {"wait", "mark", "count", "pick", "cooldown", "send", "insert"}
  /\ target \in Nodes \cup {NoNode}
  /\ pc \in {"cooldown", "send"} => target \in Nodes
  /\ pending \in Row \cup {NoRow}
  /\ pc = "insert" => pending \in Row
  /\ req \in [Requests -> Request]
  /\ \A r \in Requests : req[r].op \in {"send", "insert"} =>
        req[r].row \in Row /\ req[r].node \in Nodes
  /\ history \subseteq Delivery
  /\ excuses \subseteq Nat \X Reasons

ByLoop == {d \in history : d.by = "auto"}
Excused(d, whys) == \E why \in whys : <<d.id, why>> \in excuses

(* A later delivery to the same node waits for the cooldown it was sent     *)
(* under, unless the row of the earlier one was lost for one of whys.       *)
CooldownExcept(whys) ==
  \A d, e \in ByLoop :
    (d.node = e.node /\ d.id < e.id) =>
      e.time - d.time >= e.cooldown \/ Excused(d, whys)

(* In the hour that ends with a delivery there are at most max deliveries   *)
(* whose rows were not lost for one of whys.                                *)
RateExcept(whys) ==
  \A e \in ByLoop :
    Cardinality({d \in ByLoop : /\ d.id <= e.id
                                /\ d.time >= e.time - Hour
                                /\ ~ Excused(d, whys)}) <= e.max

(* Per-node cooldown (app.go:721-724): whatever requests, routing errors,   *)
(* cleanups and threshold changes run between the loop's check and its      *)
(* insert, the scheduler delivers twice to a node inside the cooldown only  *)
(* if the first row was marked undelivered, erased by the operator, refused *)
(* by the database or never written because the process died, or if the     *)
(* check could not read the table.                                          *)
CooldownHolds == CooldownExcept(Lost \cup {"check"})

(* Global limit (app.go:708-713): with the same exceptions no trailing hour *)
(* holds more scheduler deliveries than the limit, dry runs included, even  *)
(* when the limit was changed or a pass straddles the hour's end.           *)
RateHolds == RateExcept(Lost \cup {"count"})

(* Grace period (store.go:2024-2050): when the scheduler is about to send   *)
(* to a node, every pass of the last minAge seconds found that node over a  *)
(* threshold, however often it left the report and came back, and whenever  *)
(* the scheduler was switched off and on.  A tick that finds the scheduler  *)
(* off is no pass: what happened to the node then is not asked, see         *)
(* GraceUnbroken.                                                           *)
GraceRestarts ==
  pc = "send" => now - missedAt[target] >= passCfg.minAge

(* "a node that resolves and then re-offends restarts its grace period"     *)
(* (store.go:2040-2041): every minute tick of the last minAge seconds found *)
(* the node over a threshold, those with the scheduler off included.        *)
GraceUnbroken ==
  pc = "send" => now - absentAt[target] >= passCfg.minAge
=============================================================================
