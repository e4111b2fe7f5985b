------------------------- MODULE AutoNotify_proofs -------------------------
(***************************************************************************)
(* Proofs about the scheduler, and about what the dashboard says of it,    *)
(* for every set of nodes, requests and configurations and every window    *)
(* length.                                                                 *)
(***************************************************************************)
EXTENDS NotifyStatus, TLAPS, FiniteSetTheorems, WellFoundedInduction

----------------------------------------------------------------------------
(* A row of the table with the fields given is a row.                       *)
LEMMA RowType ==
  ASSUME NEW i \in Nat, NEW n \in Nodes, NEW t \in Nat,
         NEW s \in Counted \cup {"failed"}
  PROVE  [id |-> i, node |-> n, time |-> t, status |-> s] \in Row
BY DEF Row, Counted

(* An idle request, whatever row it remembers.                              *)
LEMMA IdleType == Idle \in Request
BY ConfigAssumption DEF Idle, Request, NoRow, Row

(* What a request may be holding.                                           *)
LEMMA RequestType ==
  ASSUME NEW o \in {"idle", "send", "insert", "delete", "save"},
         NEW n \in Nodes \cup {NoNode}, NEW w \in Row \cup {NoRow}, NEW c \in Configs
  PROVE  [op |-> o, node |-> n, row |-> w, config |-> c] \in Request
BY DEF Request

(* The reasons recorded for a set of rows.                                  *)
LEMMA ForgottenType ==
  ASSUME NEW gone \in SUBSET (Row \cup {NoRow}),
         NEW why \in Reasons
  PROVE  Forgotten(gone, why) \subseteq
           Nat \X Reasons
BY DEF Forgotten, Row, NoRow, Counted

(* Inserting keeps the table and the reasons typed.                         *)
LEMMA InsertType ==
  ASSUME TypeOK, NEW w \in Row, Insert(w)
  PROVE  /\ rows' \subseteq Row /\ IsFiniteSet(rows')
         /\ excuses' \subseteq Nat \X Reasons
<1>1. Forgotten({w}, "insert") \subseteq Nat \X Reasons
  BY ForgottenType DEF Reasons, Lost
<1>2. IsFiniteSet(rows \cup {w})
  BY FS_AddElement DEF TypeOK
<1> QED BY <1>1, <1>2 DEF Insert, TypeOK

(* The part of TypeOK about requests, and its preservation when one request *)
(* changes to a well-typed value.                                           *)
ReqTypeOK ==
  /\ req \in [Requests -> Request]
  /\ \A r \in Requests : req[r].op \in {"send", "insert"} =>
        req[r].row \in Row /\ req[r].node \in Nodes

LEMMA ReqUpdate ==
  ASSUME ReqTypeOK, NEW r \in Requests, NEW v \in Request,
         req' = [req EXCEPT ![r] = v],
         v.op \in {"send", "insert"} => v.row \in Row /\ v.node \in Nodes
  PROVE  ReqTypeOK'
BY DEF ReqTypeOK

LEMMA TypeInit == Init => TypeOK
BY ConfigAssumption, BoundAssumption, IdleType, FS_EmptySet
   DEF Init, TypeOK, Idle, NoRow, Row

LEMMA TypeNext == TypeOK /\ [Next]_vars => TypeOK'
<1> SUFFICES ASSUME TypeOK, [Next]_vars PROVE TypeOK'
  OBVIOUS
<1>f. ASSUME NEW S \in SUBSET rows PROVE IsFiniteSet(S)
  BY FS_Subset DEF TypeOK
<1>r. ReqTypeOK
  BY DEF TypeOK, ReqTypeOK
<1>w. CASE Wake
  BY <1>w DEF TypeOK, Wake, ghostVars
<1>m. CASE Mark
  BY <1>m DEF TypeOK, Mark, ghostVars
<1>c. CASE CountSent
  <2>1. count' \in Nat
    BY <1>c, <1>f, FS_CardinalityType DEF CountSent, CountSince
  <2>2. Forgotten({w \in rows : w.time >= clock - Hour}, "count") \subseteq
          Nat \X Reasons
    BY ForgottenType DEF TypeOK, Reasons
  <2>3. excuses' \subseteq Nat \X Reasons
    BY <1>c, <2>2 DEF CountSent, TypeOK
  <2> QED BY <1>c, <2>1, <2>3 DEF TypeOK, CountSent
<1>e. CASE EndPass
  BY <1>e, ConfigAssumption DEF TypeOK, EndPass, ghostVars
<1>g. ASSUME NEW n \in Nodes, Grace(n) PROVE TypeOK'
  BY <1>g DEF TypeOK, Grace, ghostVars
<1>d. CASE Cooldown
  <2>1. Forgotten({w \in rows : w.node = target}, "check") \subseteq Nat \X Reasons
    BY ForgottenType DEF TypeOK, Reasons
  <2>2. excuses' \subseteq Nat \X Reasons
    BY <1>d, <2>1 DEF Cooldown, TypeOK
  <2> QED BY <1>d, <2>2 DEF TypeOK, Cooldown
<1>s. ASSUME NEW s \in Counted \cup {"failed"}, Send(s) PROVE TypeOK'
  <2>1. pending' \in Row
    BY <1>s, RowType DEF TypeOK, Send
  <2>2. passCfg.cooldown \in Nat /\ passCfg.max \in Nat
    BY ConfigAssumption DEF TypeOK, Config
  <2>3. history' \subseteq Delivery
    BY <1>s, <2>2 DEF TypeOK, Send, Delivery
  <2>4. count' \in Nat /\ nextId' \in Nat \ {0}
    BY <1>s DEF TypeOK, Send
  <2> QED BY <1>s, <2>1, <2>3, <2>4 DEF TypeOK, Send
<1>i. CASE InsertRow
  <2>1. pending \in Row
    BY <1>i DEF InsertRow, TypeOK
  <2>2. /\ rows' \subseteq Row /\ IsFiniteSet(rows')
        /\ excuses' \subseteq Nat \X Reasons
    BY <1>i, <2>1, InsertType DEF InsertRow
  <2> QED BY <1>i, <2>2 DEF TypeOK, InsertRow
<1>1. ASSUME NEW r \in Notifiers, NEW n \in Nodes, NotifyNow(r, n) PROVE TypeOK'
  <2> DEFINE w == [id |-> nextId, node |-> n, time |-> clock, status |-> "failed"]
  <2> DEFINE v == [op |-> "send", node |-> n, config |-> cfg, row |-> w]
  <2>1. w \in Row
    BY RowType DEF TypeOK
  <2>2. v \in Request
    BY <2>1, RequestType DEF TypeOK
  <2>3. r \in Requests /\ req' = [req EXCEPT ![r] = v]
    BY <1>1 DEF NotifyNow, Requests
  <2>4. ReqTypeOK'
    BY <2>1, <2>2, <2>3, ReqUpdate, <1>r
  <2> QED BY <1>1, <2>4 DEF TypeOK, ReqTypeOK, NotifyNow, ghostVars, passVars
<1>2. ASSUME NEW r \in Notifiers, NEW s \in Counted \cup {"failed"}, NotifySend(r, s)
      PROVE TypeOK'
  <2> DEFINE v == [req[r] EXCEPT !.op = "insert", !.row.status = s]
  <2>1. r \in Requests /\ req[r] \in Request /\ req[r].row \in Row /\ req[r].node \in Nodes
    BY <1>2 DEF NotifySend, Requests, TypeOK
  <2>2. v \in Request /\ v.row \in Row /\ v.node \in Nodes
    BY <2>1 DEF Request, Row, Counted
  <2>3. req' = [req EXCEPT ![r] = v]
    BY <1>2, <2>1 DEF NotifySend, TypeOK
  <2>4. ReqTypeOK'
    BY <2>1, <2>2, <2>3, ReqUpdate, <1>r
  <2>5. req[r].config \in Config
    BY <2>1, ConfigAssumption DEF Request
  <2>6. history' \subseteq Delivery
    BY <1>2, <2>1, <2>5 DEF TypeOK, NotifySend, Delivery, Row, Config
  <2> QED BY <1>2, <2>4, <2>6 DEF TypeOK, ReqTypeOK, NotifySend, passVars
<1>3. ASSUME NEW r \in Notifiers, NotifyInsert(r) PROVE TypeOK'
  <2>1. r \in Requests /\ req[r].row \in Row
    BY <1>3 DEF NotifyInsert, TypeOK, Requests
  <2>2. /\ rows' \subseteq Row /\ IsFiniteSet(rows')
        /\ excuses' \subseteq Nat \X Reasons
    BY <1>3, <2>1, InsertType DEF NotifyInsert
  <2>3. ReqTypeOK'
    BY <1>3, <2>1, ReqUpdate, <1>r, IdleType DEF NotifyInsert, Idle
  <2> QED BY <1>3, <2>2, <2>3 DEF TypeOK, ReqTypeOK, NotifyInsert, passVars
<1>4. ASSUME NEW r \in Resetters, NEW n \in Nodes, ResetNode(r, n) PROVE TypeOK'
  <2> DEFINE v == [Idle EXCEPT !.op = "delete", !.node = n]
  <2>1. r \in Requests /\ v \in Request /\ v.op = "delete"
    BY ConfigAssumption DEF Requests, Idle, Request, NoRow, Row
  <2>2. ReqTypeOK'
    BY <1>4, <2>1, ReqUpdate, <1>r DEF ResetNode
  <2> QED BY <1>4, <2>2 DEF TypeOK, ReqTypeOK, ResetNode, passVars, ghostVars
<1>5. ASSUME NEW r \in Resetters, ResetDelete(r) PROVE TypeOK'
  <2>1. PICK gone \in SUBSET rows : /\ rows' = rows \ gone
                                    /\ excuses' = excuses \cup Forgotten(gone, "operator")
    BY <1>5 DEF ResetDelete
  <2>2. Forgotten(gone, "operator") \subseteq Nat \X Reasons
    BY ForgottenType DEF TypeOK, Reasons, Lost
  <2>3. rows' \subseteq Row /\ IsFiniteSet(rows') /\ excuses' \subseteq Nat \X Reasons
    BY <2>1, <2>2, <1>f DEF TypeOK
  <2>4. ReqTypeOK'
    BY <1>5, ReqUpdate, <1>r, IdleType DEF ResetDelete, Idle, Requests
  <2> QED BY <1>5, <2>3, <2>4 DEF TypeOK, ReqTypeOK, ResetDelete, passVars
<1>6. ASSUME NEW r \in Posters, NEW c \in Configs, NEW save \in BOOLEAN,
             PostConfig(r, c, save)
      PROVE TypeOK'
  <2> DEFINE v == [Idle EXCEPT !.op = "save", !.config = c]
  <2>1. r \in Requests /\ v \in Request /\ v.op = "save"
    BY ConfigAssumption DEF Requests, Idle, Request, NoRow, Row
  <2>2. ReqTypeOK'
    <3>1. CASE save
      BY <1>6, <3>1, <2>1, ReqUpdate, <1>r DEF PostConfig
    <3>2. CASE ~ save
      BY <1>6, <3>2, <1>r DEF PostConfig, ReqTypeOK
    <3> QED BY <3>1, <3>2
  <2> QED BY <1>6, <2>2 DEF TypeOK, ReqTypeOK, PostConfig, passVars, ghostVars
<1>7. ASSUME NEW r \in Posters, SaveConfig(r) PROVE TypeOK'
  <2>1. r \in Requests /\ req[r].config \in Configs
    BY DEF Requests, TypeOK, Request
  <2>2. saved' \in Configs
    BY <1>7, <2>1, ConfigAssumption DEF SaveConfig, TypeOK
  <2>3. ReqTypeOK'
    BY <1>7, <2>1, ReqUpdate, <1>r, IdleType DEF SaveConfig, Idle
  <2> QED BY <1>7, <2>2, <2>3 DEF TypeOK, ReqTypeOK, SaveConfig, passVars, ghostVars
<1>8. CASE ClearLog
  <2>1. Forgotten(rows, "operator") \subseteq
          Nat \X Reasons
    BY ForgottenType DEF TypeOK, Reasons, Lost
  <2> QED BY <1>8, <2>1, FS_EmptySet DEF TypeOK, ClearLog, passVars
<1>9. ASSUME NEW n \in Nodes, RoutingError(n) PROVE TypeOK'
  <2>1. PICK w \in rows : /\ rows' = (rows \ {w}) \cup {[w EXCEPT !.status = "nack"]}
                          /\ excuses' = excuses \cup Forgotten({w}, "nack")
    BY <1>9 DEF RoutingError
  <2>2. w \in Row /\ [w EXCEPT !.status = "nack"] \in Row
    BY DEF TypeOK, Row
  <2>3. IsFiniteSet(rows')
    BY <2>1, <1>f, FS_AddElement
  <2>4. Forgotten({w}, "nack") \subseteq
          Nat \X Reasons
    BY <2>2, ForgottenType DEF Reasons, Lost
  <2> QED BY <1>9, <2>1, <2>2, <2>3, <2>4 DEF TypeOK, RoutingError, passVars
<1>10. ASSUME NEW n \in Nodes, Traffic(n) PROVE TypeOK'
  BY <1>10 DEF TypeOK, Traffic, passVars, ghostVars
<1>11. CASE Cleanup
  <2>1. rows' \in SUBSET rows
    BY <1>11 DEF Cleanup
  <2>2. rows' \subseteq Row /\ IsFiniteSet(rows')
    BY <2>1, <1>f DEF TypeOK
  <2> QED BY <1>11, <2>2 DEF TypeOK, Cleanup, passVars, ghostVars
<1>12. CASE Restart
  <2> DEFINE lost == {pending} \cup {req[r].row : r \in Requests}
  <2>1. lost \in SUBSET (Row \cup {NoRow})
    BY DEF TypeOK, Request
  <2>2. Forgotten(lost, "crash") \subseteq
          Nat \X Reasons
    BY <2>1, ForgottenType DEF Reasons, Lost
  <2>3. excuses' \subseteq Nat \X Reasons
    BY <1>12, <2>2 DEF Restart, TypeOK
  <2>4. ReqTypeOK'
    BY <1>12, IdleType DEF Restart, ReqTypeOK, Idle
  <2>5. saved' \in Configs
    BY <1>12, ConfigAssumption DEF Restart, TypeOK
  <2> QED BY <1>12, <2>3, <2>4, <2>5, ConfigAssumption DEF TypeOK, ReqTypeOK, Restart
<1>13. CASE Tick
  BY <1>13 DEF TypeOK, Tick, passVars, ghostVars
<1>14. CASE UNCHANGED vars
  BY <1>14 DEF TypeOK, vars
<1> QED
  BY <1>w, <1>m, <1>c, <1>e, <1>g, <1>d, <1>s, <1>i, <1>1, <1>2, <1>3, <1>4, <1>5,
     <1>6, <1>7, <1>8, <1>9, <1>10, <1>11, <1>12, <1>13, <1>14
  DEF Next, Scheduler, Dashboard, Environment

(* Type correctness of the scheduler (store.go:1960-2060, db.go:722-792,    *)
(* app.go:677-757): holds in every reachable state.                         *)
THEOREM TypeCorrect == Spec => []TypeOK
<1>1. QED BY TypeInit, TypeNext, PTL DEF Spec

----------------------------------------------------------------------------
(* The cooldown.  The cleanup may delete a row only when no pass in         *)
(* progress can still need it.                                              *)
RetentionCovers == \A c \in Configs : c.cooldown + PassBound <= Retention

RowOf(w, d) == /\ w.id = d.id /\ w.node = d.node /\ w.time = d.time
               /\ w.status \in Counted

(* Every delivery of the loop is accounted for: its row was lost for a      *)
(* known reason, is in the table, is about to be inserted, or is too old.   *)
Tracked ==
  \A d \in ByLoop : \/ Excused(d, Lost)
                    \/ \E w \in rows : RowOf(w, d)
                    \/ pc = "insert" /\ RowOf(pending, d)
                    \/ d.time < clock - Retention

Whys == Lost \cup {"check"}

(* What the loop's cooldown check established still holds when it sends.    *)
Checked == pc = "send" =>
  \A d \in ByLoop : d.node = target =>
     Excused(d, Whys) \/ (now - d.time >= passCfg.cooldown)

AutoIds   == \A d \in ByLoop : d.id < nextId
PassClock == InPass => clock <= now + PassBound

CooldownInv == CooldownHolds /\ Tracked /\ Checked /\ AutoIds /\ PassClock

(* A step that leaves the loop alone keeps the invariant if every counted   *)
(* row it removes is excused or old.                                        *)
LEMMA QuietStep ==
  ASSUME TypeOK, TypeOK', CooldownInv, UNCHANGED passVars, ByLoop' = ByLoop,
         excuses \subseteq excuses', nextId <= nextId', clock <= clock',
         InPass => clock' <= now + PassBound,
         \A w \in rows : w.status \in Counted =>
            \/ w \in rows'
            \/ \E why \in Lost : <<w.id, why>> \in excuses'
            \/ w.time < clock' - Retention
  PROVE  CooldownInv'
<1>t. \A d \in ByLoop : d \in Delivery
  BY DEF TypeOK, ByLoop
<1>x. \A W : \A d \in ByLoop : Excused(d, W) => Excused(d, W)'
  BY DEF Excused
<1>1. CooldownHolds'
  BY <1>x DEF CooldownInv, CooldownHolds, CooldownExcept
<1>2. Tracked'
  <2> SUFFICES ASSUME NEW d \in ByLoop
               PROVE  \/ Excused(d, Lost)'
                      \/ \E w \in rows' : RowOf(w, d)
                      \/ (pc' = "insert" /\ RowOf(pending', d))
                      \/ d.time < clock' - Retention
    BY DEF Tracked, RowOf, Excused
  <2>0. pc' = pc /\ pending' = pending
    BY DEF passVars
  <2>1. CASE Excused(d, Lost)
    BY <2>1, <1>x
  <2>2. CASE \E w \in rows : RowOf(w, d)
    BY <2>2 DEF RowOf, Excused
  <2>3. CASE d.time < clock - Retention
    BY <2>3, <1>t, BoundAssumption DEF Delivery, TypeOK
  <2> QED BY <2>0, <2>1, <2>2, <2>3 DEF CooldownInv, Tracked
<1>3. Checked'
  BY <1>x DEF CooldownInv, Checked, passVars
<1>4. AutoIds'
  BY <1>t DEF CooldownInv, AutoIds, TypeOK, Delivery
<1>5. PassClock'
  BY DEF PassClock, InPass, passVars
<1> QED BY <1>1, <1>2, <1>3, <1>4, <1>5 DEF CooldownInv

(* A step of the loop that records no delivery and stays away from the      *)
(* sending states.                                                          *)
LEMMA LoopStep ==
  ASSUME TypeOK, TypeOK', CooldownInv, UNCHANGED <<clock, rows, nextId, history>>,
         excuses \subseteq excuses', pc # "insert", pc' # "send",
         InPass' => clock <= now' + PassBound
  PROVE  CooldownInv'
<1>x. \A W : \A d \in ByLoop : Excused(d, W) => Excused(d, W)'
  BY DEF Excused
<1>1. CooldownHolds' /\ AutoIds'
  BY <1>x DEF CooldownInv, CooldownHolds, CooldownExcept, AutoIds, ByLoop
<1>2. Tracked'
  <2> SUFFICES ASSUME NEW d \in ByLoop
               PROVE  \/ Excused(d, Lost)'
                      \/ \E w \in rows : RowOf(w, d)
                      \/ d.time < clock - Retention
    BY DEF Tracked, ByLoop, RowOf
  <2> QED BY <1>x DEF CooldownInv, Tracked
<1>3. Checked' /\ PassClock'
  BY DEF Checked, PassClock
<1> QED BY <1>1, <1>2, <1>3 DEF CooldownInv

LEMMA CooldownInit == Init => CooldownInv
BY DEF Init, CooldownInv, CooldownHolds, CooldownExcept, Tracked, Checked, AutoIds,
       PassClock, InPass, ByLoop

LEMMA CooldownNext ==
  ASSUME RetentionCovers
  PROVE  TypeOK /\ TypeOK' /\ CooldownInv /\ [Next]_vars => CooldownInv'
<1> SUFFICES ASSUME TypeOK, TypeOK', CooldownInv, [Next]_vars PROVE CooldownInv'
  OBVIOUS
<1>n. /\ clock \in Nat /\ now \in Nat /\ nextId \in Nat /\ Retention \in Nat
      /\ PassBound \in Nat
  BY BoundAssumption DEF TypeOK
<1>p. passCfg.cooldown \in Nat /\ passCfg.cooldown + PassBound <= Retention
  BY ConfigAssumption DEF TypeOK, Config, RetentionCovers
<1>t. \A d \in ByLoop : d \in Delivery
  BY DEF TypeOK, ByLoop
<1>c. InPass => clock <= now + PassBound
  BY DEF CooldownInv, PassClock
<1>w. CASE Wake
  BY <1>w, LoopStep DEF Wake, ghostVars, InPass
<1>m. CASE Mark
  BY <1>m, LoopStep DEF Mark, ghostVars, InPass
<1>r. CASE CountSent
  <2>1. /\ UNCHANGED <<clock, rows, nextId, history>> /\ now' = clock
        /\ pc = "count" /\ pc' = "pick" /\ excuses \subseteq excuses'
    BY <1>r DEF CountSent
  <2>2. clock <= now' + PassBound
    BY <2>1, <1>n
  <2> QED BY <2>1, <2>2, LoopStep
<1>e. CASE EndPass
  BY <1>e, LoopStep DEF EndPass, ghostVars, InPass
<1>g. ASSUME NEW n \in Nodes, Grace(n) PROVE CooldownInv'
  BY <1>g, <1>c, LoopStep DEF Grace, ghostVars, InPass
<1>d. CASE Cooldown
  <2>x. UNCHANGED <<clock, rows, nextId, history, now, passCfg, pending>>
          /\ excuses \subseteq excuses' /\ pc = "cooldown"
    BY <1>d DEF Cooldown
  <2>1. CASE pc' = "pick"
    BY <2>x, <2>1, <1>c, LoopStep DEF InPass
  <2>2. CASE pc' = "send" /\ target' = target
    <3>x. \A W : \A d \in ByLoop : Excused(d, W) => Excused(d, W)'
      BY <2>x DEF Excused
    <3>1. CooldownHolds' /\ AutoIds' /\ PassClock'
      BY <2>x, <3>x, <1>c DEF CooldownInv, CooldownHolds, CooldownExcept, AutoIds,
                              PassClock, InPass, ByLoop
    <3>2. Tracked'
      <4> SUFFICES ASSUME NEW d \in ByLoop
                   PROVE  \/ Excused(d, Lost)'
                          \/ \E w \in rows : RowOf(w, d)
                          \/ d.time < clock - Retention
        BY <2>x DEF Tracked, ByLoop, RowOf
      <4> QED BY <3>x, <2>x DEF CooldownInv, Tracked
    <3>3. ASSUME NEW d \in ByLoop, d.node = target, ~ Excused(d, Whys)'
          PROVE  now - d.time >= passCfg.cooldown
      <4>1. d.time \in Nat /\ ~ Excused(d, Lost)
        BY <1>t, <3>3, <3>x DEF Delivery, Excused, Whys
      <4>2. CASE \E w \in rows : RowOf(w, d)
        <5>1. PICK w \in rows : RowOf(w, d)
          BY <4>2
        <5>2. ~ (excuses' = excuses \cup
                   Forgotten({u \in rows : u.node = target}, "check"))
          BY <5>1, <3>3 DEF RowOf, Forgotten, Excused, Whys
        <5>3. ~ CoolingDown(target)
          BY <5>2, <1>d, <2>2 DEF Cooldown
        <5>4. w.time = d.time /\ ~ (now - w.time < passCfg.cooldown)
          BY <5>1, <5>3, <3>3 DEF RowOf, CoolingDown
        <5> QED BY <5>4, <4>1, <1>n, <1>p
      <4>3. CASE d.time < clock - Retention
        <5>1. clock <= now + PassBound
          BY <1>c, <2>x DEF InPass
        <5> QED BY <5>1, <4>1, <4>3, <1>n, <1>p
      <4> QED BY <4>1, <4>2, <4>3, <2>x DEF CooldownInv, Tracked
    <3>4. Checked'
      BY <3>3, <2>x, <2>2 DEF Checked, ByLoop
    <3> QED BY <3>1, <3>2, <3>4 DEF CooldownInv
  <2> QED BY <1>d, <2>1, <2>2 DEF Cooldown
<1>s. ASSUME NEW s \in Counted \cup {"failed"}, Send(s) PROVE CooldownInv'
  <2> USE <1>s DEF Send
  <2> DEFINE new == [id |-> nextId, node |-> target, time |-> now, by |-> "auto",
                     cooldown |-> passCfg.cooldown, max |-> passCfg.max]
  <2>1. \A d, W : Excused(d, W)' = Excused(d, W)
    BY DEF Excused
  <2>2. ByLoop' = IF s \in Counted THEN ByLoop \cup {new} ELSE ByLoop
    BY DEF ByLoop
  <2>3. \A d \in ByLoop : /\ d.id \in Nat /\ d.id < nextId
                          /\ (d.node = target =>
                                Excused(d, Whys) \/ now - d.time >= passCfg.cooldown)
    BY <1>t DEF CooldownInv, AutoIds, Checked, Delivery
  <2>4. AutoIds'
    BY <2>2, <2>3, <1>n DEF AutoIds
  <2>5. CooldownHolds'
    <3> SUFFICES ASSUME NEW d \in ByLoop', NEW e \in ByLoop', d.node = e.node, d.id < e.id
                 PROVE  e.time - d.time >= e.cooldown \/ Excused(d, Whys)
      BY <2>1 DEF CooldownHolds, CooldownExcept, Whys
    <3>1. CASE d \in ByLoop /\ e \in ByLoop
      BY <3>1 DEF CooldownInv, CooldownHolds, CooldownExcept, Whys
    <3>2. CASE d \in ByLoop /\ e = new
      BY <3>2, <2>3
    <3>3. CASE d = new /\ e \in ByLoop
      BY <3>3, <2>3, <1>n
    <3>4. CASE d = new /\ e = new
      BY <3>4, <1>n
    <3> QED BY <3>1, <3>2, <3>3, <3>4, <2>2
  <2>6. Tracked'
    <3> SUFFICES ASSUME NEW d \in ByLoop'
                 PROVE  \/ Excused(d, Lost)
                        \/ \E w \in rows : RowOf(w, d)
                        \/ RowOf(pending', d)
                        \/ d.time < clock - Retention
      BY <2>1 DEF Tracked, RowOf
    <3>1. CASE d \in ByLoop
      BY <3>1 DEF CooldownInv, Tracked
    <3>2. CASE d = new /\ s \in Counted
      BY <3>2 DEF RowOf
    <3> QED BY <3>1, <3>2, <2>2
  <2>7. Checked' /\ PassClock'
    BY <1>c DEF Checked, PassClock, InPass
  <2> QED BY <2>4, <2>5, <2>6, <2>7 DEF CooldownInv
<1>i. CASE InsertRow
  <2> USE <1>i DEF InsertRow
  <2>1. ByLoop' = ByLoop /\ excuses \subseteq excuses' /\ rows \subseteq rows'
    BY DEF ByLoop, Insert
  <2>2. \A W : \A d \in ByLoop : Excused(d, W) => Excused(d, W)'
    BY <2>1 DEF Excused
  <2>3. CooldownHolds'
    BY <2>1, <2>2 DEF CooldownInv, CooldownHolds, CooldownExcept
  <2>4. \A d \in ByLoop : RowOf(pending, d) =>
           Excused(d, Lost)' \/ \E w \in rows' : RowOf(w, d)
    BY DEF Insert, RowOf, Excused, Forgotten, Lost
  <2>5. Tracked'
    <3> SUFFICES ASSUME NEW d \in ByLoop
                 PROVE  \/ Excused(d, Lost)'
                        \/ \E w \in rows' : RowOf(w, d)
                        \/ d.time < clock - Retention
      BY <2>1 DEF Tracked, RowOf
    <3> QED BY <2>1, <2>2, <2>4 DEF CooldownInv, Tracked
  <2>6. Checked' /\ AutoIds' /\ PassClock'
    BY <2>1, <1>c DEF CooldownInv, Checked, AutoIds, PassClock, InPass
  <2> QED BY <2>3, <2>5, <2>6 DEF CooldownInv
<1>1. ASSUME NEW r \in Notifiers, NEW n \in Nodes, NotifyNow(r, n) PROVE CooldownInv'
  BY <1>1, <1>n, <1>c, QuietStep DEF NotifyNow, ghostVars, ByLoop
<1>2. ASSUME NEW r \in Notifiers, NEW s \in Counted \cup {"failed"}, NotifySend(r, s)
      PROVE CooldownInv'
  <2>1. ByLoop' = ByLoop
    BY <1>2 DEF NotifySend, ByLoop
  <2> QED BY <1>2, <2>1, <1>n, <1>c, QuietStep DEF NotifySend
<1>3. ASSUME NEW r \in Notifiers, NotifyInsert(r) PROVE CooldownInv'
  <2>1. ByLoop' = ByLoop /\ excuses \subseteq excuses' /\ rows \subseteq rows'
    BY <1>3 DEF NotifyInsert, Insert, ByLoop
  <2> QED BY <1>3, <2>1, <1>n, <1>c, QuietStep DEF NotifyInsert
<1>4. ASSUME NEW r \in Resetters, NEW n \in Nodes, ResetNode(r, n) PROVE CooldownInv'
  BY <1>4, <1>n, <1>c, QuietStep DEF ResetNode, ghostVars, ByLoop
<1>5. ASSUME NEW r \in Resetters, ResetDelete(r) PROVE CooldownInv'
  <2>1. \A w \in rows : w.status \in Counted =>
          w \in rows' \/ \E why \in Lost : <<w.id, why>> \in excuses'
    BY <1>5 DEF ResetDelete, Forgotten, Lost
  <2>2. ByLoop' = ByLoop /\ excuses \subseteq excuses'
    BY <1>5 DEF ResetDelete, ByLoop
  <2> QED BY <1>5, <2>1, <2>2, <1>n, <1>c, QuietStep DEF ResetDelete
<1>6. ASSUME NEW r \in Posters, NEW c \in Configs, NEW save \in BOOLEAN,
             PostConfig(r, c, save)
      PROVE CooldownInv'
  BY <1>6, <1>n, <1>c, QuietStep DEF PostConfig, ghostVars, ByLoop
<1>7. ASSUME NEW r \in Posters, SaveConfig(r) PROVE CooldownInv'
  BY <1>7, <1>n, <1>c, QuietStep DEF SaveConfig, ghostVars, ByLoop
<1>8. CASE ClearLog
  <2>1. \A w \in rows : w.status \in Counted =>
          w \in rows' \/ \E why \in Lost : <<w.id, why>> \in excuses'
    BY <1>8 DEF ClearLog, Forgotten, Lost
  <2>2. ByLoop' = ByLoop /\ excuses \subseteq excuses'
    BY <1>8 DEF ClearLog, ByLoop
  <2> QED BY <1>8, <2>1, <2>2, <1>n, <1>c, QuietStep DEF ClearLog
<1>9. ASSUME NEW n \in Nodes, RoutingError(n) PROVE CooldownInv'
  <2>1. PICK u \in rows : /\ rows' = (rows \ {u}) \cup {[u EXCEPT !.status = "nack"]}
                          /\ excuses' = excuses \cup Forgotten({u}, "nack")
    BY <1>9 DEF RoutingError
  <2>2. \A w \in rows : w.status \in Counted =>
          w \in rows' \/ \E why \in Lost : <<w.id, why>> \in excuses'
    BY <2>1 DEF Forgotten, Lost
  <2>3. /\ ByLoop' = ByLoop /\ excuses \subseteq excuses'
        /\ UNCHANGED <<clock, passVars, nextId>>
    BY <1>9 DEF RoutingError, ByLoop
  <2> QED BY <2>2, <2>3, <1>n, <1>c, QuietStep
<1>10. ASSUME NEW n \in Nodes, Traffic(n) PROVE CooldownInv'
  BY <1>10, <1>n, <1>c, QuietStep DEF Traffic, ghostVars, ByLoop
<1>11. CASE Cleanup
  <2>1. \A w \in rows : w \in rows' \/ w.time < clock' - Retention
    BY <1>11 DEF Cleanup
  <2>2. ByLoop' = ByLoop /\ UNCHANGED <<clock, passVars, nextId, excuses>>
    BY <1>11 DEF Cleanup, ByLoop, ghostVars
  <2> QED BY <2>1, <2>2, <1>n, <1>c, QuietStep
<1>12. CASE Restart
  <2> USE <1>12 DEF Restart
  <2>1. ByLoop' = ByLoop /\ excuses \subseteq excuses'
    BY DEF ByLoop
  <2>2. \A W : \A d \in ByLoop : Excused(d, W) => Excused(d, W)'
    BY <2>1 DEF Excused
  <2>3. CooldownHolds'
    BY <2>1, <2>2 DEF CooldownInv, CooldownHolds, CooldownExcept
  <2>4. \A d \in ByLoop : RowOf(pending, d) => Excused(d, Lost)'
    BY DEF RowOf, Excused, Forgotten, Lost
  <2>5. Tracked'
    <3> SUFFICES ASSUME NEW d \in ByLoop
                 PROVE  \/ Excused(d, Lost)'
                        \/ \E w \in rows : RowOf(w, d)
                        \/ d.time < clock - Retention
      BY <2>1 DEF Tracked, RowOf
    <3> QED BY <2>1, <2>2, <2>4 DEF CooldownInv, Tracked
  <2>6. Checked' /\ AutoIds' /\ PassClock'
    BY <2>1 DEF CooldownInv, Checked, AutoIds, PassClock, InPass
  <2> QED BY <2>3, <2>5, <2>6 DEF CooldownInv
<1>13. CASE Tick
  <2>1. InPass => clock' <= now + PassBound
    BY <1>13, <1>n DEF Tick
  <2> QED BY <1>13, <2>1, <1>n, QuietStep DEF Tick, ghostVars, ByLoop
<1>14. CASE UNCHANGED vars
  BY <1>14, <1>n, <1>c, QuietStep DEF vars, passVars, ByLoop
<1> QED
  BY <1>w, <1>m, <1>r, <1>e, <1>g, <1>d, <1>s, <1>i, <1>1, <1>2, <1>3, <1>4, <1>5,
     <1>6, <1>7, <1>8, <1>9, <1>10, <1>11, <1>12, <1>13, <1>14
  DEF Next, Scheduler, Dashboard, Environment

(* Per-node cooldown (app.go:721-724, db.go:759-774): for every set of      *)
(* nodes, requests and configurations, two scheduler deliveries to a node   *)
(* are a cooldown apart unless the first row was refused, erased, marked    *)
(* undelivered or lost in a crash; retention must outlast the cooldown.     *)
THEOREM CooldownCorrect == RetentionCovers => (Spec => []CooldownHolds)
<1> SUFFICES ASSUME RetentionCovers PROVE Spec => []CooldownHolds
  OBVIOUS
<1>1. TypeOK /\ TypeOK' /\ CooldownInv /\ [Next]_vars => CooldownInv'
  BY CooldownNext
<1>2. CooldownInv => CooldownHolds
  BY DEF CooldownInv
<1> QED BY <1>1, <1>2, CooldownInit, TypeCorrect, PTL DEF Spec

----------------------------------------------------------------------------
(* The hourly limit.                                                        *)
RetentionCoversHour == Hour <= Retention

Uncounted == Lost \cup {"count"}

(* The deliveries the pass has to count, and the ones in the hour up to e.  *)
Recent    == {d \in ByLoop : d.time >= now - Hour /\ ~ Excused(d, Uncounted)}
HourOf(e) == {d \in ByLoop : /\ d.id <= e.id
                             /\ d.time >= e.time - Hour
                             /\ ~ Excused(d, Uncounted)}

RateInv ==
  /\ IsFiniteSet(history)
  /\ \A d, e \in ByLoop : d.id = e.id => d = e
  /\ InPass => Cardinality(Recent) <= count
  /\ pc \in {"cooldown", "send"} => count < passCfg.max
  /\ \A e \in ByLoop : Cardinality(HourOf(e)) <= e.max

LEMMA HourOfFinite ==
  ASSUME IsFiniteSet(history)
  PROVE  /\ IsFiniteSet(Recent)
         /\ \A e : IsFiniteSet(HourOf(e))
<1>1. Recent \in SUBSET history /\ \A e : HourOf(e) \in SUBSET history
  BY DEF Recent, HourOf, ByLoop
<1> QED BY <1>1, FS_Subset

(* The deliveries that count against one delivery only ever get fewer.      *)
LEMMA HourShrinks ==
  ASSUME TypeOK, RateInv, ByLoop' = ByLoop, excuses \subseteq excuses',
         NEW e \in ByLoop
  PROVE  Cardinality(HourOf(e)') <= e.max
<1>1. HourOf(e)' \in SUBSET HourOf(e)
  BY DEF HourOf, Excused
<1>2. /\ Cardinality(HourOf(e)') <= Cardinality(HourOf(e))
      /\ Cardinality(HourOf(e)) \in Nat /\ Cardinality(HourOf(e)') \in Nat
  BY <1>1, HourOfFinite, FS_Subset, FS_CardinalityType DEF RateInv
<1>3. Cardinality(HourOf(e)) <= e.max /\ e.max \in Nat
  BY DEF RateInv, TypeOK, ByLoop, Delivery
<1> QED BY <1>2, <1>3

(* Steps that record no scheduler delivery and keep the pass's budget.      *)
LEMMA RateQuiet ==
  ASSUME TypeOK, TypeOK', RateInv, IsFiniteSet(history'), ByLoop' = ByLoop,
         excuses \subseteq excuses',
         InPass' => InPass /\ now' = now /\ count' = count,
         pc' \in {"cooldown", "send"} => count' < passCfg'.max
  PROVE  RateInv'
<1>1. \A d : Excused(d, Uncounted) => Excused(d, Uncounted)'
  BY DEF Excused
<1>2. ASSUME InPass' PROVE Cardinality(Recent') <= count'
  <2>1. Recent' \in SUBSET Recent
    BY <1>1, <1>2 DEF Recent
  <2>2. /\ Cardinality(Recent') <= Cardinality(Recent)
        /\ Cardinality(Recent) \in Nat /\ Cardinality(Recent') \in Nat
    BY <2>1, HourOfFinite, FS_Subset, FS_CardinalityType DEF RateInv
  <2>3. Cardinality(Recent) <= count /\ count' = count /\ count \in Nat
    BY <1>2 DEF RateInv, TypeOK
  <2> QED BY <2>2, <2>3
<1>3. ASSUME NEW e \in ByLoop PROVE Cardinality(HourOf(e)') <= e.max
  BY <1>3, HourShrinks
<1> QED BY <1>2, <1>3 DEF RateInv

(* A delivery of the last hour that was not lost is in the table.           *)
LEMMA HourRow ==
  ASSUME TypeOK, CooldownInv, RetentionCoversHour, pc = "count",
         NEW d \in ByLoop, d.time >= clock - Hour, ~ Excused(d, Uncounted)
  PROVE  \E w \in rows : RowOf(w, d)
<1>1. d.time \in Nat
  BY DEF TypeOK, ByLoop, Delivery
<1>2. ~ (d.time < clock - Retention)
  BY <1>1, BoundAssumption DEF RetentionCoversHour, TypeOK
<1>3. ~ Excused(d, Lost)
  BY DEF Excused, Uncounted
<1> QED BY <1>2, <1>3 DEF CooldownInv, Tracked

(* Counting the table counts every delivery of the last hour.               *)
LEMMA CountCovers ==
  ASSUME TypeOK, CooldownInv, RateInv, RetentionCoversHour, pc = "count"
  PROVE  Cardinality({d \in ByLoop : d.time >= clock - Hour /\ ~ Excused(d, Uncounted)})
           <= CountSince(clock - Hour)
<1> DEFINE D == {d \in ByLoop : d.time >= clock - Hour /\ ~ Excused(d, Uncounted)}
           R == {r \in rows : r.status \in Counted /\ r.time >= clock - Hour}
           f == [d \in D |-> CHOOSE w \in rows : RowOf(w, d)]
<1>1. ASSUME NEW d \in D PROVE \E w \in rows : RowOf(w, d)
  BY HourRow
<1>2. ASSUME NEW d \in D PROVE f[d] \in R /\ RowOf(f[d], d)
  <2>1. f[d] \in rows /\ RowOf(f[d], d)
    BY <1>1
  <2> QED BY <2>1 DEF RowOf
<1>3. \A d, e \in D : f[d] = f[e] => d = e
  BY <1>2 DEF RowOf, RateInv
<1>4. f \in Injection(D, R)
  BY <1>2, <1>3 DEF Injection, IsInjective
<1>5. IsFiniteSet(R)
  BY FS_Subset DEF TypeOK
<1>6. Cardinality(D) <= Cardinality(R)
  BY <1>4, <1>5, FS_Injection
<1> QED BY <1>6 DEF CountSince

LEMMA RateInit == Init => RateInv
BY FS_EmptySet DEF Init, RateInv, ByLoop, InPass

LEMMA RateNext ==
  ASSUME RetentionCoversHour
  PROVE  TypeOK /\ TypeOK' /\ CooldownInv /\ RateInv /\ [Next]_vars => RateInv'
<1> SUFFICES ASSUME TypeOK, TypeOK', CooldownInv, RateInv, [Next]_vars PROVE RateInv'
  OBVIOUS
<1>h. IsFiniteSet(history) /\ (pc \in {"cooldown", "send"} => count < passCfg.max)
  BY DEF RateInv
<1>w. CASE Wake
  BY <1>w, <1>h, RateQuiet DEF Wake, ghostVars, InPass, ByLoop
<1>m. CASE Mark
  BY <1>m, <1>h, RateQuiet DEF Mark, ghostVars, InPass, ByLoop
<1>r. CASE CountSent
  <2> DEFINE D == {d \in ByLoop : d.time >= clock - Hour /\ ~ Excused(d, Uncounted)}
  <2>x. /\ UNCHANGED <<clock, rows, history, passCfg>> /\ excuses \subseteq excuses'
        /\ now' = clock /\ pc = "count" /\ pc' = "pick"
    BY <1>r DEF CountSent
  <2>1. Cardinality(Recent') <= count'
    <3>1. CASE count' = CountSince(clock - Hour) /\ UNCHANGED excuses
      <4>1. Recent' = D
        BY <2>x, <3>1 DEF Recent, ByLoop, Excused
      <4> QED BY <4>1, <3>1, <2>x, CountCovers
    <3>2. CASE /\ count' = 0
               /\ excuses' = excuses \cup
                    Forgotten({w \in rows : w.time >= clock - Hour}, "count")
      <4>1. ASSUME NEW d \in Recent' PROVE FALSE
        <5>1. d \in ByLoop /\ d.time >= clock - Hour /\ ~ Excused(d, Uncounted)'
          BY <4>1, <2>x DEF Recent, ByLoop
        <5>2. ~ Excused(d, Uncounted)
          BY <5>1, <2>x DEF Excused
        <5>3. PICK w \in rows : RowOf(w, d)
          BY <5>1, <5>2, <2>x, HourRow
        <5> QED BY <5>1, <5>3, <3>2 DEF RowOf, Forgotten, Excused, Uncounted
      <4>2. Recent' = {}
        BY <4>1
      <4> QED BY <4>2, <3>2, FS_EmptySet
    <3> QED BY <1>r, <3>1, <3>2 DEF CountSent
  <2>2. ASSUME NEW e \in ByLoop PROVE Cardinality(HourOf(e)') <= e.max
    <3>1. ByLoop' = ByLoop
      BY <2>x DEF ByLoop
    <3> QED BY <2>2, <3>1, <2>x, HourShrinks
  <2>3. ByLoop' = ByLoop
    BY <2>x DEF ByLoop
  <2> QED BY <1>h, <2>x, <2>1, <2>2, <2>3 DEF RateInv
<1>e. CASE EndPass
  BY <1>e, <1>h, RateQuiet DEF EndPass, ghostVars, InPass, ByLoop
<1>g. ASSUME NEW n \in Nodes, Grace(n) PROVE RateInv'
  BY <1>g, <1>h, RateQuiet DEF Grace, ghostVars, InPass, ByLoop
<1>d. CASE Cooldown
  BY <1>d, <1>h, RateQuiet DEF Cooldown, InPass, ByLoop
<1>s. ASSUME NEW s \in Counted \cup {"failed"}, Send(s) PROVE RateInv'
  <2> USE <1>s DEF Send
  <2>1. CASE s \notin Counted
    BY <2>1, <1>h, RateQuiet DEF ByLoop, InPass
  <2>2. CASE s \in Counted
    <3> DEFINE new == [id |-> nextId, node |-> target, time |-> now, by |-> "auto",
                       cooldown |-> passCfg.cooldown, max |-> passCfg.max]
    <3>1. ByLoop' = ByLoop \cup {new} /\ history' = history \cup {new}
      BY <2>2 DEF ByLoop
    <3>2. \A d, W : Excused(d, W)' = Excused(d, W)
      BY DEF Excused
    <3>3. \A d \in ByLoop : d.id \in Nat /\ d.id < nextId /\ d.max \in Nat
      BY DEF CooldownInv, AutoIds, TypeOK, ByLoop, Delivery
    <3>4. nextId \in Nat /\ now \in Nat /\ count \in Nat /\ passCfg.max \in Nat
      BY ConfigAssumption DEF TypeOK, Config
    <3>5. IsFiniteSet(history')
      BY <3>1, <1>h, FS_AddElement
    <3>6. Recent' \in SUBSET (Recent \cup {new})
      BY <3>1, <3>2 DEF Recent
    <3>7. /\ IsFiniteSet(Recent \cup {new})
          /\ Cardinality(Recent \cup {new}) <= Cardinality(Recent) + 1
          /\ Cardinality(Recent) \in Nat
          /\ Cardinality(Recent \cup {new}) \in Nat
      <4> HIDE DEF new
      <4>1. IsFiniteSet(Recent)
        BY <1>h, HourOfFinite
      <4>2. /\ IsFiniteSet(Recent \cup {new})
            /\ \/ Cardinality(Recent \cup {new}) = Cardinality(Recent)
               \/ Cardinality(Recent \cup {new}) = Cardinality(Recent) + 1
        BY <4>1, FS_AddElement
      <4>3. Cardinality(Recent) \in Nat /\ Cardinality(Recent \cup {new}) \in Nat
        BY <4>1, <4>2, FS_CardinalityType
      <4> QED BY <4>2, <4>3
    <3>8. Cardinality(Recent) <= count
      BY DEF RateInv, InPass
    <3>9. Cardinality(Recent') <= count'
      <4>1. Cardinality(Recent') <= Cardinality(Recent \cup {new})
            /\ Cardinality(Recent') \in Nat
        BY <3>6, <3>7, FS_Subset, FS_CardinalityType
      <4> QED BY <4>1, <3>7, <3>8, <3>4, <2>2
    <3>10. ASSUME NEW e \in ByLoop PROVE Cardinality(HourOf(e)') <= e.max
      <4>1. HourOf(e)' \in SUBSET HourOf(e)
        BY <3>1, <3>2, <3>3, <3>4 DEF HourOf
      <4>2. /\ Cardinality(HourOf(e)') <= Cardinality(HourOf(e))
            /\ Cardinality(HourOf(e)) \in Nat /\ Cardinality(HourOf(e)') \in Nat
        BY <4>1, <1>h, HourOfFinite, FS_Subset, FS_CardinalityType
      <4> QED BY <4>2, <3>3 DEF RateInv
    <3>11. ASSUME NEW e, e = new PROVE Cardinality(HourOf(e)') <= e.max
      <4>1. HourOf(e)' \in SUBSET (Recent \cup {new})
        BY <3>1, <3>2, <3>11 DEF HourOf, Recent
      <4>2. /\ Cardinality(HourOf(e)') <= Cardinality(Recent \cup {new})
            /\ Cardinality(HourOf(e)') \in Nat
        BY <4>1, <3>7, FS_Subset, FS_CardinalityType
      <4>3. e.max = passCfg.max
        BY <3>11
      <4> QED BY <4>2, <4>3, <3>7, <3>8, <3>4, <1>h
    <3>12. \A d, e \in ByLoop' : d.id = e.id => d = e
      BY <3>1, <3>3, <3>4 DEF RateInv
    <3>13. \A e \in ByLoop' : Cardinality(HourOf(e)') <= e.max
      <4> SUFFICES ASSUME NEW e \in ByLoop' PROVE Cardinality(HourOf(e)') <= e.max
        OBVIOUS
      <4>1. CASE e \in ByLoop
        BY <4>1, <3>10
      <4>2. CASE e = new
        BY <4>2, <3>11
      <4> QED BY <4>1, <4>2, <3>1
    <3>14. pc' = "insert"
      OBVIOUS
    <3> QED BY <3>5, <3>9, <3>12, <3>13, <3>14 DEF RateInv
  <2> QED BY <2>1, <2>2
<1>i. CASE InsertRow
  BY <1>i, <1>h, RateQuiet DEF InsertRow, Insert, ByLoop, InPass
<1>1. ASSUME NEW r \in Notifiers, NEW n \in Nodes, NotifyNow(r, n) PROVE RateInv'
  BY <1>1, <1>h, RateQuiet DEF NotifyNow, ghostVars, passVars, ByLoop, InPass
<1>2. ASSUME NEW r \in Notifiers, NEW s \in Counted \cup {"failed"}, NotifySend(r, s)
      PROVE RateInv'
  <2>1. ByLoop' = ByLoop
    BY <1>2 DEF NotifySend, ByLoop
  <2>2. IsFiniteSet(history')
    <3>1. history' = history \/ \E d : history' = history \cup {d}
      BY <1>2 DEF NotifySend
    <3> QED BY <3>1, <1>h, FS_AddElement
  <2> QED BY <1>2, <2>1, <2>2, <1>h, RateQuiet DEF NotifySend, passVars, InPass
<1>3. ASSUME NEW r \in Notifiers, NotifyInsert(r) PROVE RateInv'
  BY <1>3, <1>h, RateQuiet DEF NotifyInsert, Insert, passVars, ByLoop, InPass
<1>4. ASSUME NEW r \in Resetters, NEW n \in Nodes, ResetNode(r, n) PROVE RateInv'
  BY <1>4, <1>h, RateQuiet DEF ResetNode, ghostVars, passVars, ByLoop, InPass
<1>5. ASSUME NEW r \in Resetters, ResetDelete(r) PROVE RateInv'
  BY <1>5, <1>h, RateQuiet DEF ResetDelete, passVars, ByLoop, InPass
<1>6. ASSUME NEW r \in Posters, NEW c \in Configs, NEW save \in BOOLEAN,
             PostConfig(r, c, save)
      PROVE RateInv'
  BY <1>6, <1>h, RateQuiet DEF PostConfig, ghostVars, passVars, ByLoop, InPass
<1>7. ASSUME NEW r \in Posters, SaveConfig(r) PROVE RateInv'
  BY <1>7, <1>h, RateQuiet DEF SaveConfig, ghostVars, passVars, ByLoop, InPass
<1>8. CASE ClearLog
  BY <1>8, <1>h, RateQuiet DEF ClearLog, passVars, ByLoop, InPass
<1>9. ASSUME NEW n \in Nodes, RoutingError(n) PROVE RateInv'
  BY <1>9, <1>h, RateQuiet DEF RoutingError, passVars, ByLoop, InPass
<1>10. ASSUME NEW n \in Nodes, Traffic(n) PROVE RateInv'
  BY <1>10, <1>h, RateQuiet DEF Traffic, ghostVars, passVars, ByLoop, InPass
<1>11. CASE Cleanup
  BY <1>11, <1>h, RateQuiet DEF Cleanup, ghostVars, passVars, ByLoop, InPass
<1>12. CASE Restart
  BY <1>12, <1>h, RateQuiet DEF Restart, ByLoop, InPass
<1>13. CASE Tick
  BY <1>13, <1>h, RateQuiet DEF Tick, ghostVars, passVars, ByLoop, InPass
<1>14. CASE UNCHANGED vars
  BY <1>14, <1>h, RateQuiet DEF vars, ByLoop, InPass
<1> QED
  BY <1>w, <1>m, <1>r, <1>e, <1>g, <1>d, <1>s, <1>i, <1>1, <1>2, <1>3, <1>4, <1>5,
     <1>6, <1>7, <1>8, <1>9, <1>10, <1>11, <1>12, <1>13, <1>14
  DEF Next, Scheduler, Dashboard, Environment

(* Global limit (app.go:708-713, db.go:776-792): whatever the limits the    *)
(* operator switches between, an hour that ends with a scheduler delivery   *)
(* holds at most that delivery's limit, leaving out the deliveries whose    *)
(* rows were refused, erased, marked undelivered or lost in a crash.        *)
THEOREM RateCorrect ==
  RetentionCovers /\ RetentionCoversHour => (Spec => []RateHolds)
<1> SUFFICES ASSUME RetentionCovers, RetentionCoversHour PROVE Spec => []RateHolds
  OBVIOUS
<1>1. TypeOK /\ TypeOK' /\ CooldownInv /\ [Next]_vars => CooldownInv'
  BY CooldownNext
<1>2. TypeOK /\ TypeOK' /\ CooldownInv /\ RateInv /\ [Next]_vars => RateInv'
  BY RateNext
<1>3. RateInv => RateHolds
  BY DEF RateInv, RateHolds, RateExcept, HourOf, Uncounted
<1> QED BY <1>1, <1>2, <1>3, CooldownInit, RateInit, TypeCorrect, PTL DEF Spec
----------------------------------------------------------------------------
(* The grace period.  A flag is never older than the last pass without the  *)
(* node over: for every node between passes, for the reported nodes before  *)
(* Mark prunes.  A tick with the scheduler off touches neither.             *)
GraceInv ==
  /\ \A n \in Nodes : missedAt[n] <= clock
  /\ \A n \in Nodes : (pc = "mark" => n \in todo) =>
       (flagged[n] # 0 => missedAt[n] <= flagged[n])
  /\ pc \in {"cooldown", "send"} => now - missedAt[target] >= passCfg.minAge

LEMMA GraceInit == Init => GraceInv
BY DEF Init, GraceInv

(* Steps that age no absence and no flag but may drop or renew flags.       *)
LEMMA GraceQuiet ==
  ASSUME TypeOK, TypeOK', GraceInv, clock' >= clock, missedAt' = missedAt,
         pc' = "mark" <=> pc = "mark", todo' = todo \/ pc # "mark",
         \A n \in Nodes : flagged'[n] \in {0, flagged[n]},
         pc' \in {"cooldown", "send"} =>
           pc \in {"cooldown", "send"} /\ now' = now /\ passCfg' = passCfg
             /\ target' = target
  PROVE  GraceInv'
BY DEF GraceInv, TypeOK

LEMMA GraceNext == TypeOK /\ TypeOK' /\ GraceInv /\ [Next]_vars => GraceInv'
<1> SUFFICES ASSUME TypeOK, TypeOK', GraceInv, [Next]_vars PROVE GraceInv'
  OBVIOUS
<1>c. clock \in Nat /\ flagged \in [Nodes -> Nat] /\ missedAt \in [Nodes -> Nat]
  BY DEF TypeOK
<1>w. CASE Wake
  <2>1. CASE cfg.enabled
    <3>1. pc' = "mark" /\ todo' = over
      BY <1>w, <2>1 DEF Wake, TypeOK
    <3> QED BY <1>w, <2>1, <3>1, <1>c DEF Wake, GraceInv
  <2>2. CASE ~ cfg.enabled
    <3>1. missedAt' = missedAt /\ pc' = "wait" /\ pc = "wait"
      BY <1>w, <2>2 DEF Wake
    <3> QED BY <1>w, <3>1, <1>c DEF Wake, GraceInv
  <2> QED BY <2>1, <2>2
<1>m. CASE Mark
  <2>1. \A n \in Nodes : flagged'[n] # 0 => missedAt[n] <= flagged'[n]
    BY <1>m, <1>c DEF Mark, GraceInv
  <2> QED BY <1>m, <2>1 DEF Mark, GraceInv
<1>r. CASE CountSent
  BY <1>r, <1>c, GraceQuiet DEF CountSent
<1>e. CASE EndPass
  BY <1>e, <1>c, GraceQuiet DEF EndPass, ghostVars
<1>g. ASSUME NEW n \in Nodes, Grace(n) PROVE GraceInv'
  <2>1. CASE pc' = "pick"
    BY <1>g, <2>1, <1>c DEF Grace, GraceInv
  <2>2. CASE pc' = "cooldown" /\ target' = n /\ flagged[n] # 0
              /\ ~ (now - flagged[n] < passCfg.minAge)
    <3>1. now \in Nat /\ passCfg.minAge \in Nat /\ missedAt[n] \in Nat
            /\ flagged[n] \in Nat
      BY ConfigAssumption DEF TypeOK, Config
    <3>2. pc = "pick" /\ missedAt[n] <= flagged[n]
      BY <1>g, <2>2 DEF Grace, GraceInv
    <3>3. now - missedAt[n] >= passCfg.minAge
      BY <3>1, <3>2, <2>2
    <3> QED BY <1>g, <2>2, <3>2, <3>3 DEF Grace, GraceInv
  <2> QED BY <1>g, <2>1, <2>2 DEF Grace
<1>d. CASE Cooldown
  BY <1>d, <1>c, GraceQuiet DEF Cooldown
<1>s. ASSUME NEW s \in Counted \cup {"failed"}, Send(s) PROVE GraceInv'
  BY <1>s, <1>c, GraceQuiet DEF Send
<1>i. CASE InsertRow
  BY <1>i, <1>c, GraceQuiet DEF InsertRow
<1>1. ASSUME NEW r \in Notifiers, NEW n \in Nodes, NotifyNow(r, n) PROVE GraceInv'
  BY <1>1, <1>c, GraceQuiet DEF NotifyNow, passVars
<1>2. ASSUME NEW r \in Notifiers, NEW s \in Counted \cup {"failed"}, NotifySend(r, s)
      PROVE GraceInv'
  BY <1>2, <1>c, GraceQuiet DEF NotifySend, passVars
<1>3. ASSUME NEW r \in Notifiers, NotifyInsert(r) PROVE GraceInv'
  BY <1>3, <1>c, GraceQuiet DEF NotifyInsert, passVars
<1>4. ASSUME NEW r \in Resetters, NEW n \in Nodes, ResetNode(r, n) PROVE GraceInv'
  BY <1>4, <1>c, GraceQuiet DEF ResetNode, passVars
<1>5. ASSUME NEW r \in Resetters, ResetDelete(r) PROVE GraceInv'
  BY <1>5, <1>c, GraceQuiet DEF ResetDelete, passVars
<1>6. ASSUME NEW r \in Posters, NEW c \in Configs, NEW save \in BOOLEAN,
             PostConfig(r, c, save)
      PROVE GraceInv'
  BY <1>6, <1>c, GraceQuiet DEF PostConfig, passVars
<1>7. ASSUME NEW r \in Posters, SaveConfig(r) PROVE GraceInv'
  BY <1>7, <1>c, GraceQuiet DEF SaveConfig, passVars
<1>8. CASE ClearLog
  BY <1>8, <1>c, GraceQuiet DEF ClearLog, passVars
<1>9. ASSUME NEW n \in Nodes, RoutingError(n) PROVE GraceInv'
  BY <1>9, <1>c, GraceQuiet DEF RoutingError, passVars
<1>10. ASSUME NEW n \in Nodes, Traffic(n) PROVE GraceInv'
  BY <1>10, <1>c, GraceQuiet DEF Traffic, passVars
<1>11. CASE Cleanup
  BY <1>11, <1>c, GraceQuiet DEF Cleanup, passVars
<1>12. CASE Restart
  BY <1>12, <1>c DEF Restart, GraceInv
<1>13. CASE Tick
  BY <1>13, <1>c, GraceQuiet DEF Tick, passVars
<1>14. CASE UNCHANGED vars
  BY <1>14, <1>c, GraceQuiet DEF vars, passVars
<1> QED
  BY <1>w, <1>m, <1>r, <1>e, <1>g, <1>d, <1>s, <1>i, <1>1, <1>2, <1>3, <1>4, <1>5,
     <1>6, <1>7, <1>8, <1>9, <1>10, <1>11, <1>12, <1>13, <1>14
  DEF Next, Scheduler, Dashboard, Environment

(* Grace period (store.go:2024-2050): whatever resets, restarts, traffic    *)
(* and settings do, the scheduler only sends to a node that every pass of   *)
(* the last minAge seconds found over a threshold.                          *)
THEOREM GraceCorrect == Spec => []GraceRestarts
<1>1. TypeOK /\ TypeOK' /\ GraceInv /\ [Next]_vars => GraceInv'
  BY GraceNext
<1>2. GraceInv => GraceRestarts
  BY DEF GraceInv, GraceRestarts
<1> QED BY <1>1, <1>2, GraceInit, TypeCorrect, PTL DEF Spec

----------------------------------------------------------------------------
(* Extreme elements of sets of natural numbers.                             *)

LEMMA LeastElement ==
  ASSUME NEW S, S \subseteq Nat, S # {}
  PROVE  \E x \in S : \A y \in S : x <= y
<1> DEFINE R == {p \in Nat \X Nat : p[1] < p[2]}
<1>1. IsWellFoundedOn(R, Nat)
  BY NatLessThanWellFounded DEF OpToRel
<1>2. \A x, y \in Nat : <<y, x>> \in R <=> y < x
  OBVIOUS
<1> HIDE DEF R
<1>3. PICK x \in S : \A y \in S : ~ (<<y, x>> \in R)
  BY <1>1, WFMin
<1>4. ASSUME NEW y \in S PROVE x <= y
  <2>1. x \in Nat /\ y \in Nat
    OBVIOUS
  <2>2. ~ (y < x)
    BY <1>2, <1>3, <2>1
  <2> QED BY <2>1, <2>2
<1> QED BY <1>4

LEMMA GreatestElement ==
  ASSUME NEW b \in Nat, NEW S, S \subseteq 0 .. b, S # {}
  PROVE  \E x \in S : \A y \in S : x >= y
<1> DEFINE T == {t \in Nat : \E x \in S : t = b - x}
<1>1. T \subseteq Nat
  OBVIOUS
<1>2. \A x \in S : b - x \in T
  OBVIOUS
<1>3. PICK t \in T : \A u \in T : t <= u
  <2>1. T # {}
    BY <1>2
  <2> HIDE DEF T
  <2> QED BY <1>1, <2>1, LeastElement
<1>4. PICK x \in S : t = b - x
  OBVIOUS
<1>5. ASSUME NEW y \in S PROVE x >= y
  <2>1. b - x <= b - y
    BY <1>2, <1>3, <1>4
  <2> QED BY <2>1
<1> QED BY <1>5

(* What Min and Max of the community module return.                         *)
LEMMA MinIsLeast ==
  ASSUME NEW S, S \subseteq Nat, S # {}
  PROVE  Min(S) \in S /\ \A y \in S : Min(S) <= y
BY LeastElement DEF Min

LEMMA MaxIsGreatest ==
  ASSUME NEW b \in Nat, NEW S, S \subseteq 0 .. b, S # {}
  PROVE  Max(S) \in S /\ \A y \in S : Max(S) >= y
BY GreatestElement DEF Max

LEMMA MaxOfTwo ==
  ASSUME NEW x \in Nat, NEW y \in Nat
  PROVE  Max({x, y}) = IF x >= y THEN x ELSE y
<1>1. {x, y} \subseteq 0 .. x + y /\ {x, y} # {} /\ x + y \in Nat
  OBVIOUS
<1> QED BY <1>1, MaxIsGreatest

LEMMA MaxOfThree ==
  ASSUME NEW x \in Nat, NEW y \in Nat, NEW z \in Nat
  PROVE  /\ Max({x, y, z}) \in {x, y, z}
         /\ Max({x, y, z}) >= x /\ Max({x, y, z}) >= y /\ Max({x, y, z}) >= z
<1>1. {x, y, z} \subseteq 0 .. x + y + z /\ {x, y, z} # {} /\ x + y + z \in Nat
  OBVIOUS
<1> QED BY <1>1, MaxIsGreatest

----------------------------------------------------------------------------
(* The invariant: rows, requests and flags are dated, and not in the        *)
(* future.  A zero would be taken for "never" by both handlers.             *)
Dated(t) == t \in 1 .. clock

ClockInv ==
  /\ clock >= 1 /\ now <= clock
  /\ pc # "wait" => now >= 1
  /\ \A r \in rows : Dated(r.time)
  /\ pc = "insert" => Dated(pending.time)
  /\ \A r \in Requests : req[r].op \in {"send", "insert"} => Dated(req[r].row.time)
  /\ \A n \in Nodes : flagged[n] <= clock

LEMMA ClockInit == Init => ClockInv
BY DEF Init, ClockInv, Idle

(* Inserting a dated row keeps the table dated.                             *)
LEMMA InsertDated ==
  ASSUME ClockInv, NEW w, Dated(w.time), Insert(w), UNCHANGED clock
  PROVE  \A r \in rows' : Dated(r.time)'
BY DEF ClockInv, Insert, Dated

(* Steps that leave the clock, the pass and the requests alone.             *)
LEMMA RowsDated ==
  ASSUME ClockInv, \A r \in rows' : Dated(r.time),
         \A n \in Nodes : flagged'[n] <= clock,
         UNCHANGED <<clock, passVars>>,
         \A r \in Requests : req'[r].op \in {"send", "insert"} => Dated(req'[r].row.time)
  PROVE  ClockInv'
BY DEF ClockInv, Dated, passVars

LEMMA SchedulerClock ==
  ASSUME TypeOK, ClockInv, Scheduler
  PROVE  ClockInv'
<1>w. CASE Wake
  BY <1>w DEF TypeOK, ClockInv, Dated, Wake
<1>m. CASE Mark
  BY <1>m DEF TypeOK, ClockInv, Dated, Mark
<1>c. CASE CountSent
  BY <1>c DEF TypeOK, ClockInv, Dated, CountSent
<1>e. CASE EndPass
  BY <1>e DEF TypeOK, ClockInv, Dated, EndPass
<1>g. ASSUME NEW n \in Nodes, Grace(n) PROVE ClockInv'
  BY <1>g DEF TypeOK, ClockInv, Dated, Grace
<1>d. CASE Cooldown
  BY <1>d DEF TypeOK, ClockInv, Dated, Cooldown
<1>s. ASSUME NEW s \in Counted \cup {"failed"}, Send(s) PROVE ClockInv'
  BY <1>s DEF TypeOK, ClockInv, Dated, Send
<1>i. CASE InsertRow
  <2>1. \A r \in rows' : Dated(r.time)'
    BY <1>i, InsertDated DEF ClockInv, InsertRow
  <2> QED BY <1>i, <2>1 DEF TypeOK, ClockInv, Dated, InsertRow
<1> QED BY <1>w, <1>m, <1>c, <1>e, <1>g, <1>d, <1>s, <1>i DEF Scheduler

LEMMA DashboardClock ==
  ASSUME TypeOK, ClockInv, Dashboard
  PROVE  ClockInv'
<1>t. ASSUME NEW r \in Requests, NEW v, req' = [req EXCEPT ![r] = v],
             v.op \in {"send", "insert"} => Dated(v.row.time)
      PROVE  \A q \in Requests :
               req'[q].op \in {"send", "insert"} => Dated(req'[q].row.time)
  BY <1>t DEF TypeOK, ClockInv
<1>i. Idle.op = "idle"
  BY DEF Idle
<1>f. (\A r \in rows : Dated(r.time)) /\ (\A n \in Nodes : flagged[n] <= clock)
  BY DEF ClockInv
<1>1. ASSUME NEW r \in Notifiers, NEW n \in Nodes, NotifyNow(r, n) PROVE ClockInv'
  <2>1. Dated(clock)
    BY DEF ClockInv, TypeOK, Dated
  <2>2. \A q \in Requests :
               req'[q].op \in {"send", "insert"} => Dated(req'[q].row.time)
    BY <1>1, <1>t, <2>1 DEF NotifyNow, Requests
  <2> QED BY <1>1, <1>f, <2>2, RowsDated DEF NotifyNow
<1>2. ASSUME NEW r \in Notifiers, NEW s \in Counted \cup {"failed"}, NotifySend(r, s)
      PROVE ClockInv'
  <2> DEFINE v == [req[r] EXCEPT !.op = "insert", !.row.status = s]
  <2>1. r \in Requests /\ req[r] \in Request /\ req[r].row \in Row /\ Dated(req[r].row.time)
    BY <1>2 DEF NotifySend, Requests, TypeOK, ClockInv
  <2>2. v.row.time = req[r].row.time
    BY <2>1 DEF Request, Row
  <2>3. req' = [req EXCEPT ![r] = v]
    BY <1>2, <2>1 DEF NotifySend, TypeOK
  <2>4. \A q \in Requests :
               req'[q].op \in {"send", "insert"} => Dated(req'[q].row.time)
    BY <1>t, <2>1, <2>2, <2>3
  <2> QED BY <1>2, <1>f, <2>4, RowsDated DEF NotifySend
<1>3. ASSUME NEW r \in Notifiers, NotifyInsert(r) PROVE ClockInv'
  <2>1. \A q \in Requests :
               req'[q].op \in {"send", "insert"} => Dated(req'[q].row.time)
    BY <1>3, <1>t, <1>i DEF NotifyInsert, Requests
  <2>2. \A w \in rows' : Dated(w.time)
    BY <1>3 DEF NotifyInsert, Insert, ClockInv, Requests
  <2> QED BY <1>3, <1>f, <2>1, <2>2, RowsDated DEF NotifyInsert
<1>4. ASSUME NEW r \in Resetters, NEW n \in Nodes, ResetNode(r, n) PROVE ClockInv'
  <2>1. \A q \in Requests :
               req'[q].op \in {"send", "insert"} => Dated(req'[q].row.time)
    BY <1>4, <1>t DEF ResetNode, Requests, Idle
  <2>2. \A m \in Nodes : flagged'[m] <= clock
    BY <1>4, <1>f DEF ResetNode, TypeOK
  <2> QED BY <1>4, <1>f, <2>1, <2>2, RowsDated DEF ResetNode
<1>5. ASSUME NEW r \in Resetters, ResetDelete(r) PROVE ClockInv'
  <2>1. \A q \in Requests :
               req'[q].op \in {"send", "insert"} => Dated(req'[q].row.time)
    BY <1>5, <1>t, <1>i DEF ResetDelete, Requests
  <2> QED BY <1>5, <1>f, <2>1, RowsDated DEF ResetDelete
<1>6. ASSUME NEW r \in Posters, NEW c \in Configs, NEW save \in BOOLEAN,
             PostConfig(r, c, save)
      PROVE ClockInv'
  <2>1. \A q \in Requests :
               req'[q].op \in {"send", "insert"} => Dated(req'[q].row.time)
    BY <1>6, <1>t DEF PostConfig, Requests, Idle, ClockInv
  <2> QED BY <1>6, <1>f, <2>1, RowsDated DEF PostConfig
<1>7. ASSUME NEW r \in Posters, SaveConfig(r) PROVE ClockInv'
  <2>1. \A q \in Requests :
               req'[q].op \in {"send", "insert"} => Dated(req'[q].row.time)
    BY <1>7, <1>t, <1>i DEF SaveConfig, Requests
  <2> QED BY <1>7, <1>f, <2>1, RowsDated DEF SaveConfig
<1>8. CASE ClearLog
  BY <1>8, <1>f, RowsDated DEF ClearLog, ClockInv
<1> QED BY <1>1, <1>2, <1>3, <1>4, <1>5, <1>6, <1>7, <1>8 DEF Dashboard

LEMMA EnvironmentClock ==
  ASSUME TypeOK, ClockInv, Environment
  PROVE  ClockInv'
<1>1. ASSUME NEW n \in Nodes, RoutingError(n) PROVE ClockInv'
  <2>1. PICK r \in rows : rows' = (rows \ {r}) \cup {[r EXCEPT !.status = "nack"]}
    BY <1>1 DEF RoutingError
  <2>2. [r EXCEPT !.status = "nack"].time = r.time
    BY DEF TypeOK, Row
  <2>3. \A w \in rows' : Dated(w.time)
    BY <2>1, <2>2 DEF ClockInv
  <2> QED BY <1>1, <2>3, RowsDated DEF RoutingError, ClockInv
<1>2. ASSUME NEW n \in Nodes, Traffic(n) PROVE ClockInv'
  BY <1>2, RowsDated DEF Traffic, ClockInv
<1>3. CASE Cleanup
  BY <1>3, RowsDated DEF Cleanup, ClockInv
<1>4. CASE Restart
  BY <1>4 DEF TypeOK, ClockInv, Restart, Dated, Idle
<1>5. CASE Tick
  BY <1>5 DEF TypeOK, ClockInv, Tick, Dated, passVars
<1> QED BY <1>1, <1>2, <1>3, <1>4, <1>5 DEF Environment

LEMMA ClockCorrect == Spec => [](TypeOK /\ ClockInv)
<1>1. Init => ClockInv
  BY ClockInit
<1>2. TypeOK /\ ClockInv /\ [Next]_vars => ClockInv'
  <2> SUFFICES ASSUME TypeOK, ClockInv, [Next]_vars PROVE ClockInv'
    OBVIOUS
  <2>1. CASE UNCHANGED vars
    BY <2>1 DEF ClockInv, Dated, vars
  <2> QED BY <2>1, SchedulerClock, DashboardClock, EnvironmentClock DEF Next
<1> QED BY <1>1, <1>2, TypeCorrect, PTL DEF Spec

----------------------------------------------------------------------------
(* What the handlers' queries return.                                       *)

(* The answer about a node is the time of one of its counted rows, and no   *)
(* counted row that can still hold it back is younger.                      *)
LEMMA LastNotifiedIsLast ==
  ASSUME TypeOK, ClockInv, NEW n \in Nodes
  PROVE  /\ LastNotifiedAt(n) \in 0 .. clock
         /\ LastNotifiedAt(n) > 0 =>
              \E r \in CountedSince(0) : r.node = n /\ r.time = LastNotifiedAt(n)
         /\ \A r \in CountedSince(0) :
              r.node = n /\ clock - r.time < cfg.cooldown => LastNotifiedAt(n) >= r.time
<1> DEFINE mine == {r \in CountedSince(clock - cfg.cooldown - 1) : r.node = n}
<1>1. cfg.cooldown \in Nat /\ clock \in Nat
  BY ConfigAssumption DEF TypeOK, Config
<1>2. \A r \in rows : r.time \in 1 .. clock
  BY DEF ClockInv, Dated
<1>3. \A r \in CountedSince(0) :
        r.node = n /\ clock - r.time < cfg.cooldown => r \in mine
  BY <1>1, <1>2 DEF CountedSince
<1>4. \A r \in mine : r \in CountedSince(0) /\ r.node = n /\ r.time \in 1 .. clock
  BY <1>2 DEF CountedSince
<1>5. LastNotifiedAt(n) = IF mine = {} THEN 0 ELSE Max(Times(mine))
  BY DEF LastNotifiedAt
<1> HIDE DEF mine
<1>6. CASE mine = {}
  BY <1>1, <1>3, <1>5, <1>6
<1>7. CASE mine # {}
  <2>1. Times(mine) \subseteq 0 .. clock /\ Times(mine) # {}
    BY <1>4, <1>7 DEF Times
  <2>2. /\ Max(Times(mine)) \in Times(mine)
        /\ \A y \in Times(mine) : Max(Times(mine)) >= y
    BY <1>1, <2>1, MaxIsGreatest
  <2>3. \E r \in mine : r.time = LastNotifiedAt(n)
    BY <1>5, <1>7, <2>2 DEF Times
  <2>4. \A r \in mine : LastNotifiedAt(n) >= r.time
    BY <1>5, <1>7, <2>2 DEF Times
  <2> QED BY <1>1, <1>3, <1>4, <2>3, <2>4
<1> QED BY <1>6, <1>7

(* When the budget is used up there is an oldest row that uses it.          *)
LEMMA OldestIsOldest ==
  ASSUME TypeOK, ClockInv, RateHit
  PROVE  /\ OldestSent \in 1 .. clock
         /\ \A r \in CountedSince(clock - Hour) : r.time >= OldestSent
<1> DEFINE rs == CountedSince(clock - Hour)
<1>1. rs # {}
  <2> SUFFICES ASSUME rs = {} PROVE FALSE
    OBVIOUS
  <2>1. cfg.max \in Nat /\ cfg.max >= 1
    BY ConfigAssumption DEF TypeOK, Config
  <2> QED BY <2>1, FS_EmptySet DEF RateHit
<1>2. \A r \in rs : r.time \in 1 .. clock
  BY DEF ClockInv, Dated, CountedSince
<1>3. OldestSent = Min(Times(rs))
  BY <1>1 DEF OldestSent
<1> HIDE DEF rs
<1>4. Times(rs) \subseteq Nat /\ Times(rs) # {}
  BY <1>1, <1>2 DEF Times, TypeOK
<1>5. Min(Times(rs)) \in Times(rs) /\ \A y \in Times(rs) : Min(Times(rs)) <= y
  BY <1>4, MinIsLeast
<1>6. /\ OldestSent \in 1 .. clock
      /\ \A r \in rs : r.time >= OldestSent
  BY <1>2, <1>3, <1>4, <1>5 DEF Times
<1> QED BY <1>6 DEF rs

(* The three candidates, each zero or the end of a wait that is not over.   *)
LEMMA Candidates ==
  ASSUME TypeOK, ClockInv, NEW n \in Described
  PROVE  /\ clock \in Nat /\ n \in Nodes
         /\ cfg.cooldown \in Nat \ {0} /\ cfg.minAge \in Nat /\ cfg.max \in Nat \ {0}
         /\ flagged[n] \in 0 .. clock /\ Since(n) \in 0 .. clock
         /\ CooldownEnd(n) \in Nat /\ GraceEnd(n) \in Nat /\ SlotFree \in Nat
         /\ SlotFree > 0 <=> RateHit
<1>1. /\ clock \in Nat /\ n \in Nodes
      /\ flagged[n] \in 0 .. clock /\ Since(n) \in 0 .. clock
  BY DEF TypeOK, ClockInv, Described, Since
<1>2. cfg.cooldown \in Nat \ {0} /\ cfg.minAge \in Nat /\ cfg.max \in Nat \ {0}
  BY ConfigAssumption DEF TypeOK, Config
<1>3. CooldownEnd(n) \in Nat
  BY <1>1, <1>2, LastNotifiedIsLast DEF CooldownEnd
<1>4. GraceEnd(n) \in Nat
  BY <1>1, <1>2 DEF GraceEnd
<1>5. SlotFree \in Nat /\ (SlotFree > 0 <=> RateHit)
  BY <1>1, OldestIsOldest, BoundAssumption DEF SlotFree
<1> QED BY <1>1, <1>2, <1>3, <1>4, <1>5

(* The pill, by the largest of the three.                                   *)
LEMMA StatusByLargest ==
  ASSUME TypeOK, ClockInv, NEW n \in Described
  PROVE  LET c == CooldownEnd(n)
             g == GraceEnd(n)
             f == SlotFree
         IN  /\ Status(n) = "ready" <=> c = 0 /\ g = 0 /\ f = 0
             /\ Status(n) = "rate-limit" <=> f > c /\ f > g
             /\ Status(n) = "grace" <=> g > c /\ f <= g
             /\ Status(n) = "cooldown" <=> c > 0 /\ g <= c /\ f <= c
             /\ Status(n) \in {"ready", "rate-limit", "grace", "cooldown"}
<1> DEFINE c == CooldownEnd(n)
           g == GraceEnd(n)
           f == SlotFree
<1>1. c \in Nat /\ g \in Nat /\ f \in Nat
  BY Candidates
<1>2. Max({c, g}) = IF c >= g THEN c ELSE g
  BY <1>1, MaxOfTwo
<1>3. Status(n) = CASE f > Max({c, g}) -> "rate-limit"
                    [] g > c /\ f <= g -> "grace"
                    [] c > 0 /\ g <= c /\ f <= c -> "cooldown"
                    [] OTHER -> "ready"
  BY DEF Status
<1> HIDE DEF c, g, f
<1>4. CASE f > c /\ f > g
  BY <1>1, <1>2, <1>3, <1>4 DEF c, g, f
<1>5. CASE g > c /\ f <= g
  BY <1>1, <1>2, <1>3, <1>5 DEF c, g, f
<1>6. CASE c > 0 /\ g <= c /\ f <= c
  BY <1>1, <1>2, <1>3, <1>6 DEF c, g, f
<1>7. CASE c = 0 /\ g = 0 /\ f = 0
  BY <1>1, <1>2, <1>3, <1>7 DEF c, g, f
<1> QED BY <1>1, <1>4, <1>5, <1>6, <1>7

----------------------------------------------------------------------------
(* The theorems.                                                            *)

LEMMA ReadyWouldNotify ==
  ASSUME TypeOK, ClockInv, NEW n \in Described, Status(n) = "ready"
  PROVE  WouldNotify(n, IF flagged[n] = 0 THEN clock + cfg.minAge ELSE clock)
<1> DEFINE t == IF flagged[n] = 0 THEN clock + cfg.minAge ELSE clock
<1>1. CooldownEnd(n) = 0 /\ GraceEnd(n) = 0 /\ SlotFree = 0
  BY StatusByLargest
<1>2. /\ clock \in Nat /\ n \in Nodes
      /\ flagged[n] \in 0 .. clock /\ Since(n) \in 0 .. clock
      /\ cfg.cooldown \in Nat \ {0} /\ cfg.minAge \in Nat /\ cfg.max \in Nat \ {0}
  BY Candidates
<1>3. t \in Nat /\ t >= clock
  BY <1>2
<1>4. t - Since(n) >= cfg.minAge
  BY <1>1, <1>2 DEF GraceEnd, Since
<1> HIDE DEF t
<1>5. Cardinality(CountedSince(t - Hour)) < cfg.max
  <2>1. ~ RateHit
    BY <1>1, Candidates
  <2>2. CountedSince(t - Hour) \subseteq CountedSince(clock - Hour)
    <3>1. \A r \in rows : r.time \in Nat
      BY DEF TypeOK, Row
    <3> QED BY <1>2, <1>3, <3>1, BoundAssumption DEF CountedSince
  <2>3. IsFiniteSet(CountedSince(clock - Hour))
    BY FS_Subset DEF CountedSince, TypeOK
  <2>4. /\ Cardinality(CountedSince(clock - Hour)) \in Nat
        /\ Cardinality(CountedSince(t - Hour)) \in Nat
        /\ Cardinality(CountedSince(t - Hour)) <= Cardinality(CountedSince(clock - Hour))
    BY <2>2, <2>3, FS_Subset, FS_CardinalityType
  <2> QED BY <1>2, <2>1, <2>4 DEF RateHit
<1>6. ASSUME NEW r \in CountedSince(0), r.node = n
      PROVE  t - r.time >= cfg.cooldown
  <2>1. r.time \in 1 .. clock
    BY DEF CountedSince, ClockInv, Dated
  <2>2. LastNotifiedAt(n) \in 0 .. clock
    BY <1>2, LastNotifiedIsLast
  <2>3. LastNotifiedAt(n) = 0 \/ LastNotifiedAt(n) + cfg.cooldown <= clock
    BY <1>1, <1>2, <2>2 DEF CooldownEnd
  <2>4. clock - r.time < cfg.cooldown => LastNotifiedAt(n) >= r.time
    BY <1>2, <1>6, LastNotifiedIsLast
  <2> QED BY <1>2, <1>3, <2>1, <2>2, <2>3, <2>4
<1>7. WouldNotify(n, t)
  BY <1>4, <1>5, <1>6 DEF WouldNotify
<1> QED BY <1>7 DEF t

LEMMA NotBeforeAnnounced ==
  ASSUME TypeOK, ClockInv, NEW n \in Described,
         NEW t \in clock .. NextEligibleAt(n) - 1
  PROVE  ~ WouldNotify(n, t)
<1> DEFINE latest == Max({CooldownEnd(n), GraceEnd(n), SlotFree})
<1>1. /\ clock \in Nat /\ n \in Nodes
      /\ flagged[n] \in 0 .. clock /\ Since(n) \in 0 .. clock
      /\ cfg.cooldown \in Nat \ {0} /\ cfg.minAge \in Nat /\ cfg.max \in Nat \ {0}
      /\ CooldownEnd(n) \in Nat /\ GraceEnd(n) \in Nat /\ SlotFree \in Nat
  BY Candidates
<1>2. latest \in {CooldownEnd(n), GraceEnd(n), SlotFree}
  BY <1>1, MaxOfThree
<1>3. NextEligibleAt(n) = IF latest = 0 THEN clock ELSE latest
  BY DEF NextEligibleAt
<1> HIDE DEF latest
<1>4. t \in Nat /\ clock <= t /\ t < latest /\ latest \in Nat
  BY <1>1, <1>2, <1>3
<1>5. CASE latest = CooldownEnd(n)
  <2>1. LastNotifiedAt(n) > 0 /\ latest = LastNotifiedAt(n) + cfg.cooldown
    BY <1>4, <1>5 DEF CooldownEnd
  <2>2. PICK r \in CountedSince(0) : r.node = n /\ r.time = LastNotifiedAt(n)
    BY <1>1, <2>1, LastNotifiedIsLast
  <2>3. ~ (t - r.time >= cfg.cooldown)
    <3>1. r.time \in Nat
      BY DEF CountedSince, TypeOK, Row
    <3> QED BY <1>1, <1>4, <2>1, <2>2, <3>1
  <2> QED BY <2>2, <2>3 DEF WouldNotify
<1>6. CASE latest = GraceEnd(n)
  <2>1. latest = Since(n) + cfg.minAge
    BY <1>4, <1>6 DEF GraceEnd, Since
  <2> QED BY <1>1, <1>4, <2>1 DEF WouldNotify
<1>7. CASE latest = SlotFree
  <2>1. RateHit /\ latest = OldestSent + Hour
    BY <1>4, <1>7 DEF SlotFree
  <2>2. \A r \in CountedSince(clock - Hour) : r.time >= OldestSent /\ r.time \in Nat
    BY <2>1, OldestIsOldest DEF CountedSince, TypeOK, Row
  <2>3. CountedSince(clock - Hour) \subseteq CountedSince(t - Hour)
    <3>1. OldestSent \in Nat /\ Hour \in Nat
      BY <1>1, <2>1, OldestIsOldest, BoundAssumption
    <3>2. t - Hour < OldestSent
      BY <1>4, <2>1, <3>1
    <3> QED BY <1>4, <2>2, <3>1, <3>2 DEF CountedSince
  <2>4. /\ IsFiniteSet(CountedSince(t - Hour))
        /\ Cardinality(CountedSince(t - Hour)) \in Nat
        /\ Cardinality(CountedSince(clock - Hour)) \in Nat
    BY FS_Subset, FS_CardinalityType DEF CountedSince, TypeOK
  <2>5. Cardinality(CountedSince(t - Hour)) >= Cardinality(CountedSince(clock - Hour))
    BY <2>3, <2>4, FS_Subset
  <2> QED BY <1>1, <2>1, <2>4, <2>5 DEF RateHit, WouldNotify
<1> QED BY <1>2, <1>5, <1>6, <1>7

LEMMA SameClass ==
  ASSUME TypeOK, ClockInv, NEW n \in Described, ~ RateHit
  PROVE  Status(n) = Bucket(n)
<1> DEFINE last  == LastNotifiedAt(n)
           cool  == IF last > 0 THEN last + cfg.cooldown ELSE 0
           after == Max({clock, cool})
           grace == flagged[n] + cfg.minAge
<1>1. /\ clock \in Nat /\ n \in Nodes /\ flagged[n] \in 0 .. clock
      /\ cfg.cooldown \in Nat \ {0} /\ cfg.minAge \in Nat
      /\ SlotFree = 0
  BY Candidates
<1>2. last \in 0 .. clock
  BY <1>1, LastNotifiedIsLast
<1>3. /\ CooldownEnd(n) = IF last > 0 /\ last + cfg.cooldown > clock
                          THEN last + cfg.cooldown ELSE 0
      /\ GraceEnd(n) = IF flagged[n] > 0 /\ grace > clock THEN grace ELSE 0
  BY <1>1 DEF CooldownEnd, GraceEnd
<1>4. Bucket(n) = IF flagged[n] > 0 /\ grace > after THEN "grace"
                  ELSE IF cool > clock THEN "cooldown" ELSE "ready"
  BY <1>1 DEF Bucket
<1>5. after = IF clock >= cool THEN clock ELSE cool
  BY <1>1, <1>2, MaxOfTwo
<1> HIDE DEF last, cool, after
<1>6. CASE last > 0
  <2>1. cool = last + cfg.cooldown
    BY <1>6 DEF cool
  <2> QED BY <1>1, <1>2, <1>3, <1>4, <1>5, <1>6, <2>1, StatusByLargest
<1>7. CASE last = 0
  <2>1. cool = 0
    BY <1>7 DEF cool
  <2> QED BY <1>1, <1>2, <1>3, <1>4, <1>5, <1>7, <2>1, StatusByLargest
<1> QED BY <1>1, <1>2, <1>6, <1>7

(* For all constants and every node of the report: when the pill of the     *)
(* dashboard says "ready" (server.go:256-294) a pass of the scheduler made  *)
(* now would notify the node, or begin its grace period if no pass has      *)
(* flagged it yet, and notify it after that.                                *)
THEOREM ReadyCorrect == Spec => []ReadyIsTrue
<1>1. TypeOK /\ ClockInv => ReadyIsTrue
  BY ReadyWouldNotify DEF ReadyIsTrue
<1> QED BY <1>1, ClockCorrect, PTL

(* For all constants: before the time the dashboard announces               *)
(* (server.go:262-292) no pass would have notified the node, flagged        *)
(* already or flagged by a pass made now.                                   *)
THEOREM AnnouncedCorrect == Spec => []NeverAnnouncedLate
<1>1. TypeOK /\ ClockInv => NeverAnnouncedLate
  BY NotBeforeAnnounced DEF NeverAnnouncedLate
<1> QED BY <1>1, ClockCorrect, PTL

(* For all constants: the two endpoints (server.go:262-294, 372-393) agree  *)
(* on every node while the hourly limit is not reached.                     *)
THEOREM EndpointsCorrect == Spec => []EndpointsAgree
<1>1. TypeOK /\ ClockInv => EndpointsAgree
  BY SameClass DEF EndpointsAgree
<1> QED BY <1>1, ClockCorrect, PTL
=============================================================================
