---------------------------- MODULE NotifyStatus ----------------------------
(***************************************************************************)
(* What the dashboard tells the operator about the scheduler: the status   *)
(* pill and the "next notify" time of handleMisbehaving, and the buckets   *)
(* of handleMisbehavingNotifyStatus.  Both handlers recompute from the     *)
(* table and the store what the loop will decide, in code of their own.    *)
(* The module adds no state: the properties compare, in every state of     *)
(* AutoNotify, the handlers' answer with the loop's decision.              *)
(***************************************************************************)
EXTENDS AutoNotify, FiniteSetsExt

CountedSince(since) == {r \in rows : r.status \in Counted /\ r.time >= since}
Times(rs) == {r.time : r \in rs}

(* Faulty variant: failed attempts and refused messages included.           *)
LastAttemptAt(n) ==
  LET mine == {r \in rows : r.node = n /\ r.time >= clock - cfg.cooldown - 1}
  IN  IF mine = {} THEN 0 ELSE Max(Times(mine))

(* LastMisbehaveNotificationSentAll, with the handlers' horizon.            *)
LastNotifiedAt(n) ==
  LET mine == {r \in CountedSince(clock - cfg.cooldown - 1) : r.node = n}
  IN  IF mine = {} THEN 0 ELSE Max(Times(mine))

(* OldestMisbehaveNotificationSince(now - 3600).                            *)
OldestSent ==
  LET rs == CountedSince(clock - Hour)
  IN  IF rs = {} THEN 0 ELSE Min(Times(rs))

RateHit == Cardinality(CountedSince(clock - Hour)) >= cfg.max

(* Faulty variant: the cooldown is over one tick early.                     *)
CooldownEndEarly(n) ==
  IF LastNotifiedAt(n) > 0 /\ LastNotifiedAt(n) + cfg.cooldown > clock + 1
  THEN LastNotifiedAt(n) + cfg.cooldown ELSE 0

(* The three candidates of handleMisbehaving, 0 when they do not apply.     *)
CooldownEnd(n) ==
  IF LastNotifiedAt(n) > 0 /\ LastNotifiedAt(n) + cfg.cooldown > clock
  THEN LastNotifiedAt(n) + cfg.cooldown ELSE 0
GraceEnd(n) ==
  IF flagged[n] > 0 /\ flagged[n] + cfg.minAge > clock
  THEN flagged[n] + cfg.minAge ELSE 0
SlotFree == IF RateHit THEN OldestSent + Hour ELSE 0

(* n.NextEligibleAt and n.NotifyStatus.                                     *)
NextEligibleAt(n) ==
  LET latest == Max({CooldownEnd(n), GraceEnd(n), SlotFree})
  IN  IF latest = 0 THEN clock ELSE latest

Status(n) ==
  CASE SlotFree > Max({CooldownEnd(n), GraceEnd(n)}) -> "rate-limit"
    [] GraceEnd(n) > CooldownEnd(n) /\ SlotFree <= GraceEnd(n) -> "grace"
    [] CooldownEnd(n) > 0 /\ GraceEnd(n) <= CooldownEnd(n)
         /\ SlotFree <= CooldownEnd(n) -> "cooldown"
    [] OTHER -> "ready"

(* Faulty variant: the longer of two waits is not looked for.               *)
BucketGraceFirst(n) ==
  IF flagged[n] > 0 /\ flagged[n] + cfg.minAge > clock THEN "grace"
  ELSE IF LastNotifiedAt(n) > 0 /\ LastNotifiedAt(n) + cfg.cooldown > clock
       THEN "cooldown" ELSE "ready"

(* The bucket handleMisbehavingNotifyStatus counts the node in.             *)
Bucket(n) ==
  LET cool  == IF LastNotifiedAt(n) > 0 THEN LastNotifiedAt(n) + cfg.cooldown ELSE 0
      after == Max({clock, cool})
  IN  IF flagged[n] > 0 /\ flagged[n] + cfg.minAge > after THEN "grace"
      ELSE IF cool > clock THEN "cooldown" ELSE "ready"

(* The nodes the handlers describe, flagged or not.                         *)
Described == {n \in over : cfg.enabled}

(* The time of n's flag once a pass made now has marked the report.         *)
Since(n) == IF flagged[n] = 0 THEN clock ELSE flagged[n]

(* What the loop decides for n in a pass at time t, if n stays over and     *)
(* nothing else happens: the guards of Grace, Cooldown and EndPass.         *)
WouldNotify(n, t) ==
  /\ Cardinality(CountedSince(t - Hour)) < cfg.max
  /\ t - Since(n) >= cfg.minAge
  /\ \A r \in CountedSince(0) : r.node = n => t - r.time >= cfg.cooldown

----------------------------------------------------------------------------
(* A pill that says "ready" (server.go:256-294) is true of a node that a    *)
(* pass has flagged: a pass made now would notify it.  Of a node reported   *)
(* after the last pass it only tells that nothing but the grace period is   *)
(* in the way: the next pass begins it, and one after it would notify.      *)
ReadyIsTrue ==
  \A n \in Described : Status(n) = "ready" =>
    WouldNotify(n, IF flagged[n] = 0 THEN clock + cfg.minAge ELSE clock)

(* The countdown never runs past the moment: before the time the dashboard  *)
(* announces (server.go:262-292) the loop would not have notified the node, *)
(* not even one that it flags now.                                          *)
NeverAnnouncedLate ==
  \A n \in Described : \A t \in clock .. NextEligibleAt(n) - 1 : ~ WouldNotify(n, t)

(* The two endpoints (server.go:262-294 and 372-393) put a node in the same *)
(* class, except that only the first knows the hourly limit.                *)
EndpointsAgree ==
  \A n \in Described : ~ RateHit => Status(n) = Bucket(n)
=============================================================================
