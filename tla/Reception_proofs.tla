--------------------------- MODULE Reception_proofs ---------------------------
(* What holds of what comes from the radio, for any packets, lines, frames, *)
(* windows and limits: of the list of anomalies, of the memory for packet   *)
(* ids and of every other detector, of frames on the line, and of the radio *)
(* report and its snapshots.                                                *)
EXTENDS MCReception, FiniteSetTheorems, SequenceTheorems, WellFoundedInduction,
        NaturalsInduction, TLAPS

AnomFields == {"known", "pktTimes", "lastSNR", "pktDup", "mqttSeen", "nodeChannels", "totalSeen",
               "encryptedSeen", "pktFirstSeen", "pairs", "lastPos", "flagged", "ring"}

(* Packets as they are received, what may be flagged, what the list holds.  *)
Events  == {Over([at |-> s[1]], s[2]) : s \in Nat \X Packets}
Keys    == UNION {{p.from, Id(p), <<p.relay>>, <<>>, Ends(p)} : p \in Packets}
Anomaly == [type : Kinds, key : Keys]
Entry   == [what : Anomaly, at : Nat]

(* The list: nothing in it is younger than the time its anomaly was last    *)
(* flagged.                                                                 *)
RingOK(a) ==
  /\ a.ring \in Seq(Entry) /\ Len(a.ring) <= RingSize
  /\ \A c \in DOMAIN a.flagged : a.flagged[c] \in Nat
  /\ \A i \in 1 .. Len(a.ring) :
       a.ring[i].what \in DOMAIN a.flagged /\ a.ring[i].at <= a.flagged[a.ring[i].what]
  /\ \A i, j \in 1 .. Len(a.ring) : i < j /\ a.ring[i].what = a.ring[j].what =>
       a.ring[j].at - a.ring[i].at >= Dedup[a.ring[i].what.type]

HeardOK(h, t) == h \in Seq(Events) /\ \A i \in 1 .. Len(h) : h[i].at <= t

(* k was heard at time t.                                                   *)
HeardAt(h, k, t) == \E i \in 1 .. Len(h) : h[i].id # 0 /\ Id(h[i]) = k /\ h[i].at = t

Ids(h) == {Id(h[i]) : i \in {j \in DOMAIN h : h[j].id # 0}}

(* A collection was needed and took what is older than its window.          *)
Expired(h, k, t) ==
  /\ Cardinality(Ids(h)) > MaxKeys
  /\ \E i \in 1 .. Len(h) : h[i].id # 0 /\ Id(h[i]) = k /\ t - h[i].at > Window.forget

(* The first sightings: dated by a reception, and by the earliest, unless   *)
(* that is too old to matter.                                               *)
SightingsOK(first, h, t) ==
  /\ \A k \in DOMAIN first : HeardAt(h, k, first[k])
  /\ \A i \in 1 .. Len(h) : h[i].id # 0 =>
       \/ Id(h[i]) \in DOMAIN first /\ first[Id(h[i])] <= h[i].at
       \/ Expired(h, Id(h[i]), t)

(* The times behind the loop detector end with a reception.                 *)
TimesOK(dup, h) ==
  \A k \in DOMAIN dup : dup[k] \in Seq(Nat) /\ dup[k] # <<>> /\ HeardAt(h, k, Last(dup[k]))

(* Too many entries are young entries.                                      *)
Thinned(a, e) ==
  /\ \/ Cardinality(DOMAIN a.pktFirstSeen) <= MaxKeys
     \/ \A k \in DOMAIN a.pktFirstSeen : e.at - a.pktFirstSeen[k] <= Window.forget
  /\ \/ Cardinality(DOMAIN a.pktDup) <= MaxKeys
     \/ \A k \in DOMAIN a.pktDup : e.at - Last(a.pktDup[k]) <= Window.minute

Inv ==
  /\ clock \in Nat
  /\ DOMAIN anom = AnomFields
  /\ HeardOK(heard, clock)
  /\ RingOK(anom)
  /\ SightingsOK(anom.pktFirstSeen, heard, clock)
  /\ TimesOK(anom.pktDup, heard)
  /\ heard # <<>> /\ Last(heard).id # 0 => Thinned(anom, Last(heard))
  /\ ReuseFires

----------------------------------------------------------------------------
(* Numbers: a non-empty set has a least, and steps of one reach them all.   *)
LEMMA LeastElement ==
  ASSUME NEW S, S \subseteq Nat, S # {}
  PROVE  \E x \in S : \A y \in S : x <= y
<1> DEFINE Rel == {p \in Nat \X Nat : p[1] < p[2]}
<1>1. IsWellFoundedOn(Rel, Nat)
  BY NatLessThanWellFounded DEF OpToRel
<1>2. \A x, y \in Nat : <<y, x>> \in Rel <=> y < x
  OBVIOUS
<1> HIDE DEF Rel
<1>3. PICK x \in S : \A y \in S : ~ (<<y, x>> \in Rel)
  BY <1>1, WFMin
<1>4. ASSUME NEW y \in S PROVE x <= y
  <2>1. x \in Nat /\ y \in Nat
    OBVIOUS
  <2>2. ~ (y < x)
    BY <1>2, <1>3, <2>1
  <2> QED BY <2>1, <2>2
<1> QED BY <1>4

(* A set that holds 0 and, up to b, the successor of what it holds.         *)
LEMMA UpTo ==
  ASSUME NEW b \in Nat, NEW S, 0 \in S, \A i \in 0 .. b - 1 : i \in S => i + 1 \in S
  PROVE  0 .. b \subseteq S
<1> DEFINE out == {i \in 0 .. b : i \notin S}
<1> SUFFICES ASSUME out # {} PROVE FALSE
  OBVIOUS
<1>1. out \subseteq Nat
  OBVIOUS
<1> HIDE DEF out
<1>2. PICK i \in out : \A j \in out : i <= j
  BY <1>1, LeastElement
<1>3. i \in 0 .. b /\ i \notin S /\ i # 0
  BY DEF out
<1>4. i - 1 \in 0 .. b - 1 /\ i - 1 \in 0 .. b /\ ~ (i <= i - 1) /\ (i - 1) + 1 = i
  BY <1>3
<1>5. i - 1 \notin out
  BY <1>2, <1>4
<1>6. i - 1 \in S
  BY <1>4, <1>5 DEF out
<1> QED BY <1>3, <1>4, <1>6

----------------------------------------------------------------------------
(* Packets.                                                                 *)
EventFact(e) ==
  /\ e.at \in Nat
  /\ \E p \in Packets :
       /\ e.from = p.from /\ e.to = p.to /\ e.id = p.id /\ e.relay = p.relay
       /\ e.snr = p.snr /\ e.mqtt = p.mqtt /\ e.encrypted = p.encrypted
       /\ e.start = p.start /\ e.limit = p.limit

LEMMA StampIs ==
  ASSUME NEW p \in Packets, NEW t \in Nat
  PROVE  /\ Over([at |-> t], p) \in Events
         /\ EventFact(Over([at |-> t], p))
         /\ Over([at |-> t], p).at = t
<1>1. PICK s : s = <<t, p>>
  OBVIOUS
<1>2. s \in Nat \X Packets /\ s[1] = t /\ s[2] = p
  BY <1>1
<1>3. Over([at |-> s[1]], s[2]) \in Events
  BY <1>2 DEF Events
<1>4. Over([at |-> t], p) \in Events
  BY <1>2, <1>3
<1>5. PICK f : f = [at |-> t]
  OBVIOUS
<1>6. DOMAIN f = {"at"} /\ f.at = t
  BY <1>5
<1>7. PICK e : e = Over(f, p)
  OBVIOUS
<1>8. e.at = t
  BY <1>6, <1>7 DEF Over
<1>9. DOMAIN p = {"from", "to", "id", "snr", "pos", "relay", "mqtt", "channel", "encrypted",
                  "start", "limit"}
  BY DetectorAssumption
<1>10. /\ e.from = p.from /\ e.to = p.to /\ e.id = p.id /\ e.relay = p.relay
       /\ e.snr = p.snr /\ e.mqtt = p.mqtt /\ e.encrypted = p.encrypted
       /\ e.start = p.start /\ e.limit = p.limit
  BY <1>6, <1>7, <1>9 DEF Over
<1>11. EventFact(e)
  BY <1>8, <1>10 DEF EventFact
<1> QED BY <1>4, <1>5, <1>7, <1>8, <1>11

LEMMA KeysAre ==
  ASSUME NEW e, EventFact(e)
  PROVE  {e.from, Id(e), <<e.relay>>, <<>>, Ends(e)} \subseteq Keys
<1>1. PICK p \in Packets : e.from = p.from /\ e.to = p.to /\ e.id = p.id /\ e.relay = p.relay
  BY DEF EventFact
<1>2. Id(e) = Id(p) /\ Ends(e) = Ends(p)
  BY <1>1 DEF Id, Ends
<1>3. {p.from, Id(p), <<p.relay>>, <<>>, Ends(p)} \subseteq Keys
  BY DEF Keys
<1> QED BY <1>1, <1>2, <1>3

LEMMA VerdictsAre ==
  ASSUME NEW b, NEW a, NEW e, EventFact(e), NEW v, v = Verdicts(b, a, e)
  PROVE  /\ Len(v) = 12 /\ DOMAIN v = 1 .. 12
         /\ \A i \in 1 .. 12 : Call(v[i]) \in Anomaly /\ (v[i].type = "id_reuse" <=> i = 9)
         /\ v[9].key = Id(e) /\ (v[9].on <=> Reuses(b, e))
<1>1. Len(v) = 12 /\ DOMAIN v = 1 .. 12
  BY DEF Verdicts
<1>2. /\ v[1].type = "spammer" /\ v[1].key = e.from
      /\ v[2].type = "snr_jump" /\ v[2].key = e.from
      /\ v[3].type = "routing_loop" /\ v[3].key = Id(e)
      /\ v[4].type = "ghost_relay" /\ v[4].key = <<e.relay>>
      /\ v[5].type = "mqtt_mirror" /\ v[5].key = e.from
      /\ v[6].type = "cross_channel" /\ v[6].key = e.from
  BY DEF Verdicts
<1>3. /\ v[7].type = "encrypted_spike" /\ v[7].key = <<>>
      /\ v[8].type = "hop_violation" /\ v[8].key = e.from
      /\ v[9].type = "id_reuse" /\ v[9].key = Id(e)
      /\ v[10].type = "pair_flood" /\ v[10].key = Ends(e)
      /\ v[11].type = "pair_skew" /\ v[11].key = Ends(e)
      /\ v[12].type = "gps_teleport" /\ v[12].key = e.from
  BY DEF Verdicts
<1>4. v[9].on <=> Reuses(b, e)
  BY Zenon DEF Verdicts
<1>5. \A i \in 1 .. 12 : i = 1 \/ i = 2 \/ i = 3 \/ i = 4 \/ i = 5 \/ i = 6 \/ i = 7 \/ i = 8 \/ i = 9
        \/ i = 10 \/ i = 11 \/ i = 12
  OBVIOUS
<1>6. \A i \in 1 .. 12 : v[i].type \in Kinds /\ (v[i].type = "id_reuse" <=> i = 9)
  BY <1>2, <1>3, <1>5 DEF Kinds
<1>7. \A i \in 1 .. 12 : v[i].key \in Keys
  <2>1. PICK k \in Keys : k = e.from
    BY KeysAre
  <2>2. PICK l \in Keys : l = Id(e)
    BY KeysAre
  <2>3. PICK r \in Keys : r = <<e.relay>>
    BY KeysAre
  <2>4. PICK o \in Keys : o = <<>>
    BY KeysAre
  <2>5. PICK p \in Keys : p = Ends(e)
    BY KeysAre
  <2>6. /\ v[1].key \in Keys /\ v[2].key \in Keys /\ v[3].key \in Keys /\ v[4].key \in Keys
        /\ v[5].key \in Keys /\ v[6].key \in Keys
    BY <1>2, <2>1, <2>2, <2>3
  <2>7. /\ v[7].key \in Keys /\ v[8].key \in Keys /\ v[9].key \in Keys /\ v[10].key \in Keys
        /\ v[11].key \in Keys /\ v[12].key \in Keys
    BY <1>3, <2>1, <2>2, <2>4, <2>5
  <2> QED BY <1>5, <2>6, <2>7
<1>8. \A i \in 1 .. 12 : Call(v[i]) \in Anomaly
  BY <1>6, <1>7 DEF Call, Anomaly
<1> QED BY <1>1, <1>3, <1>4, <1>6, <1>8

----------------------------------------------------------------------------
(* The list of anomalies.                                                   *)
LEMMA LastNIs ==
  ASSUME NEW S, NEW s \in Seq(S), NEW n \in Nat \ {0}
  PROVE  \E d \in 0 .. Len(s) :
           /\ LastN(s, n) \in Seq(S)
           /\ Len(LastN(s, n)) = Len(s) - d /\ Len(s) - d <= n
           /\ \A i \in 1 .. Len(s) - d : LastN(s, n)[i] = s[i + d]
<1>1. CASE Len(s) > n
  <2>1. LastN(s, n) = SubSeq(s, Len(s) - n + 1, Len(s))
    BY <1>1 DEF LastN
  <2>2. PICK l \in Nat : l = Len(s)
    OBVIOUS
  <2>3. PICK d \in 0 .. l : d = l - n /\ d < l
    BY <1>1, <2>2
  <2>4. LastN(s, n) = SubSeq(s, d + 1, Len(s))
    BY <2>1, <2>2, <2>3
  <2>5. d + 1 \in 1 .. Len(s)
    BY <2>2, <2>3
  <2>6. /\ SubSeq(s, d + 1, Len(s)) \in Seq(S)
        /\ Len(SubSeq(s, d + 1, Len(s))) = Len(s) - d
    BY <2>5
  <2>7. \A i \in 1 .. l - d : SubSeq(s, d + 1, l)[i] = s[i + d]
    <3>1. d + 1 \in 1 .. l + 1 /\ l \in 0 .. Len(s) /\ d \in Nat /\ l \in Nat
      BY <2>2, <2>3
    <3>2. \A i \in 1 .. l - (d + 1) + 1 : SubSeq(s, d + 1, l)[i] = s[(d + 1) + i - 1]
      BY <3>1, SubSeqProperties
    <3>3. ASSUME NEW i \in 1 .. l - d
          PROVE  i \in 1 .. l - (d + 1) + 1 /\ (d + 1) + i - 1 = i + d
      <4>1. l \in Nat /\ d \in Nat
        BY <3>1
      <4>2. l - (d + 1) + 1 = l - d /\ (d + 1) + i - 1 = i + d
        BY <4>1
      <4> QED BY <4>2
    <3> QED BY <3>2, <3>3
  <2> QED BY <2>2, <2>3, <2>4, <2>6, <2>7
<1>2. CASE ~ (Len(s) > n)
  <2>1. LastN(s, n) = SubSeq(s, 1, Len(s))
    BY <1>2 DEF LastN
  <2>2. SubSeq(s, 1, Len(s)) = s
    OBVIOUS
  <2>3. Len(s) \in Nat /\ 0 \in 0 .. Len(s) /\ Len(s) - 0 = Len(s) /\ Len(s) - 0 <= n
    BY <1>2
  <2>4. \A i \in 1 .. Len(s) - 0 : s[i] = s[i + 0]
    OBVIOUS
  <2> QED BY <2>1, <2>2, <2>3, <2>4
<1> QED BY <1>1, <1>2

(* b differs from a in the fields X at most.                                *)
Kept(a, b, X) == DOMAIN b = AnomFields /\ \A x \in AnomFields \ X : b[x] = a[x]

(* What is flagged was last flagged longer ago than its window, so every    *)
(* older entry is older than that.                                          *)
LEMMA FlagKeeps ==
  ASSUME NEW a, NEW c \in Anomaly, NEW t \in Nat, DOMAIN a = AnomFields, RingOK(a)
  PROVE  Kept(a, flagAnomaly(a, c, t), {"flagged", "ring"}) /\ RingOK(flagAnomaly(a, c, t))
<1>1. CASE c \in DOMAIN a.flagged /\ t - a.flagged[c] < Dedup[c.type]
  BY <1>1 DEF flagAnomaly, Kept
<1>2. CASE ~ (c \in DOMAIN a.flagged /\ t - a.flagged[c] < Dedup[c.type])
  <2>1. PICK s \in Seq(Entry) : s = a.ring
    BY DEF RingOK
  <2>2. PICK x \in Entry : x = [what |-> c, at |-> t]
    BY DEF Entry
  <2>3. PICK q : q = Append(s, x)
    OBVIOUS
  <2>4. PICK r : r = LastN(q, RingSize)
    OBVIOUS
  <2>5. PICK f : f = Put(a.flagged, c, t)
    OBVIOUS
  <2>6. PICK b : b = flagAnomaly(a, c, t)
    OBVIOUS
  <2>7. b = [a EXCEPT !.flagged = f, !.ring = r]
    BY <1>2, <2>1, <2>2, <2>3, <2>4, <2>5, <2>6 DEF flagAnomaly
  <2>8. Kept(a, b, {"flagged", "ring"}) /\ b.flagged = f /\ b.ring = r
    BY <2>7 DEF Kept, AnomFields
  <2>9. RingSize \in Nat \ {0} /\ Dedup[c.type] \in Nat
    BY DetectorAssumption DEF Anomaly
  <2>10. /\ q \in Seq(Entry) /\ Len(q) = Len(s) + 1 /\ q[Len(s) + 1] = x
         /\ \A i \in 1 .. Len(s) : q[i] = s[i]
    BY <2>3
  <2>11. PICK d \in 0 .. Len(q) :
           /\ r \in Seq(Entry) /\ Len(r) = Len(q) - d /\ Len(r) <= RingSize
           /\ \A i \in 1 .. Len(q) - d : r[i] = q[i + d]
    <3>1. PICK n \in Nat \ {0} : n = RingSize
      BY <2>9
    <3>2. q \in Seq(Entry)
      BY <2>10
    <3>3. PICK d \in 0 .. Len(q) :
            /\ LastN(q, n) \in Seq(Entry)
            /\ Len(LastN(q, n)) = Len(q) - d /\ Len(q) - d <= n
            /\ \A i \in 1 .. Len(q) - d : LastN(q, n)[i] = q[i + d]
      BY <3>2, LastNIs
    <3> QED BY <2>4, <3>1, <3>3
  <2>12. x.what = c /\ x.at = t
    BY <2>2
  <2>13. f[c] = t /\ c \in DOMAIN f /\ \A k \in DOMAIN a.flagged : k \in DOMAIN f /\ (k # c => f[k] = a.flagged[k])
    BY <2>5 DEF Put
  <2>14. \A k \in DOMAIN f : f[k] \in Nat
    BY <2>5, <2>13 DEF Put, RingOK
  <2>15. ASSUME NEW i \in 1 .. Len(s)
         PROVE  /\ s[i].what \in DOMAIN f /\ s[i].at <= f[s[i].what]
                /\ s[i].what = c => t - s[i].at >= Dedup[c.type]
    <3>a. s[i] \in Entry
      BY <2>1
    <3>b. s[i].at \in Nat
      BY <3>a DEF Entry
    <3>1. s[i].what \in DOMAIN a.flagged /\ s[i].at <= a.flagged[s[i].what] /\ s[i].at \in Nat
      BY <2>1, <3>b DEF RingOK
    <3>2. CASE s[i].what # c
      BY <2>13, <3>1, <3>2
    <3>3. CASE s[i].what = c
      <4>1. c \in DOMAIN a.flagged /\ a.flagged[c] \in Nat /\ s[i].at <= a.flagged[c]
        BY <3>1, <3>3 DEF RingOK
      <4>2. ~ (t - a.flagged[c] < Dedup[c.type])
        BY <1>2, <4>1
      <4>a. PICK u : u = s[i].at
        OBVIOUS
      <4>b. PICK y : y = a.flagged[c]
        OBVIOUS
      <4>c. PICK z : z = Dedup[c.type]
        OBVIOUS
      <4>d. u \in Nat /\ y \in Nat /\ z \in Nat /\ u <= y /\ ~ (t - y < z)
        <5>1. Dedup[c.type] \in Nat
          BY <2>9
        <5> QED BY <5>1, <3>1, <4>1, <4>2, <4>a, <4>b, <4>c
      <4>e. t - u >= z /\ u <= t
        BY <4>d
      <4>3. t - s[i].at >= Dedup[c.type] /\ s[i].at <= t
        BY <4>e, <4>a, <4>c
      <4> QED BY <2>13, <3>3, <4>3
    <3> QED BY <3>2, <3>3
  <2>16. \A i \in 1 .. Len(q) : i \in 1 .. Len(s) \/ i = Len(s) + 1
    BY <2>1, <2>10
  <2>17. \A i \in 1 .. Len(q) : q[i].what \in DOMAIN f /\ q[i].at <= f[q[i].what]
    BY <2>10, <2>12, <2>13, <2>15, <2>16
  <2>18. ASSUME NEW i \in 1 .. Len(q), NEW j \in 1 .. Len(q), i < j, q[i].what = q[j].what
         PROVE  q[j].at - q[i].at >= Dedup[q[i].what.type]
    <3>1. i \in 1 .. Len(s)
      BY <2>1, <2>10, <2>18
    <3>2. CASE j = Len(s) + 1
      BY <2>10, <2>12, <2>15, <2>18, <3>1, <3>2
    <3>3. CASE j \in 1 .. Len(s)
      BY <2>1, <2>10, <2>18, <3>1, <3>3 DEF RingOK
    <3> QED BY <2>16, <3>2, <3>3
  <2>19. \A i \in 1 .. Len(r) : i + d \in 1 .. Len(q) /\ r[i] = q[i + d]
    BY <2>11
  <2>20. \A i \in 1 .. Len(r) : r[i].what \in DOMAIN f /\ r[i].at <= f[r[i].what]
    BY <2>17, <2>19
  <2>21. ASSUME NEW i \in 1 .. Len(r), NEW j \in 1 .. Len(r), i < j, r[i].what = r[j].what
         PROVE  r[j].at - r[i].at >= Dedup[r[i].what.type]
    <3>1. i + d < j + d
      BY <2>21
    <3> QED BY <2>18, <2>19, <2>21, <3>1
  <2>22. RingOK(b)
    BY <2>8, <2>11, <2>14, <2>20, <2>21 DEF RingOK
  <2> QED BY <2>6, <2>8, <2>22
<1> QED BY <1>1, <1>2

(* All verdicts in turn.                                                    *)
Turns(f, a, v, t, k) ==
  f = [i \in 0 .. k |->
         IF i = 0 THEN a
         ELSE IF v[i].on THEN flagAnomaly(f[i - 1], Call(v[i]), t)
         ELSE f[i - 1]]

LEMMA TurnsExist ==
  ASSUME NEW a, NEW v, NEW t, NEW b \in Nat PROVE \E f : Turns(f, a, v, t, b)
<1> DEFINE S == {k \in 0 .. b : \E f : Turns(f, a, v, t, k)}
           Turn(x, i) == IF v[i].on THEN flagAnomaly(x, Call(v[i]), t) ELSE x
<1>0. ASSUME NEW f, NEW k
      PROVE  Turns(f, a, v, t, k) <=> f = [i \in 0 .. k |-> IF i = 0 THEN a ELSE Turn(f[i - 1], i)]
  BY DEF Turns
<1> HIDE DEF Turn
<1>1. 0 \in S
  <2>1. PICK f : f = [i \in 0 .. 0 |-> a]
    OBVIOUS
  <2>2. \A i \in 0 .. 0 : i = 0
    OBVIOUS
  <2>3. Turns(f, a, v, t, 0)
    BY <1>0, <2>1, <2>2
  <2> QED BY <2>3
<1>2. ASSUME NEW k \in 0 .. b - 1, k \in S PROVE k + 1 \in S
  <2>1. PICK f : Turns(f, a, v, t, k)
    BY <1>2
  <2>2. f = [i \in 0 .. k |-> IF i = 0 THEN a ELSE Turn(f[i - 1], i)]
    BY <1>0, <2>1
  <2>3. PICK g : g = [i \in 0 .. k + 1 |-> IF i = k + 1 THEN Turn(f[k], k + 1) ELSE f[i]]
    OBVIOUS
  <2>4. ASSUME NEW i \in 0 .. k + 1 PROVE g[i] = IF i = 0 THEN a ELSE Turn(g[i - 1], i)
    <3>1. CASE i = k + 1
      <4>1. k \in 0 .. k + 1 /\ k # k + 1 /\ i - 1 = k /\ i # 0
        BY <3>1
      <4>2. g[k] = f[k] /\ g[i] = Turn(f[k], k + 1)
        BY <2>3, <3>1, <4>1
      <4> QED BY <3>1, <4>1, <4>2
    <3>2. CASE i = 0
      <4>1. 0 # k + 1 /\ 0 \in 0 .. k /\ 0 \in 0 .. k + 1
        OBVIOUS
      <4>2. g[0] = f[0]
        BY <2>3, <4>1
      <4>3. f[0] = a
        BY <2>2, <4>1
      <4> QED BY <3>2, <4>2, <4>3
    <3>3. CASE i # 0 /\ i # k + 1
      <4>1. i \in 0 .. k /\ i - 1 \in 0 .. k + 1 /\ i - 1 # k + 1
        BY <3>3
      <4>2. g[i] = f[i] /\ g[i - 1] = f[i - 1]
        BY <2>3, <3>3, <4>1
      <4>3. f[i] = Turn(f[i - 1], i)
        BY <2>2, <3>3, <4>1
      <4> QED BY <3>3, <4>2, <4>3
    <3> QED BY <3>1, <3>2, <3>3
  <2>5. Turns(g, a, v, t, k + 1)
    BY <1>0, <2>3, <2>4
  <2>6. k + 1 \in 0 .. b
    OBVIOUS
  <2> QED BY <2>5, <2>6
<1> HIDE DEF S
<1>3. 0 .. b \subseteq S
  BY <1>1, <1>2, UpTo
<1>4. b \in S
  BY <1>3
<1> QED BY <1>4 DEF S

LEMMA FlagIs ==
  ASSUME NEW a, NEW v, NEW t, Len(v) \in Nat
  PROVE  \E f : Turns(f, a, v, t, Len(v)) /\ Flag(a, v, t) = f[Len(v)]
<1> DEFINE after == CHOOSE f : Turns(f, a, v, t, Len(v))
<1>1. Turns(after, a, v, t, Len(v))
  BY TurnsExist
<1>2. Flag(a, v, t) = after[Len(v)]
  BY DEF Flag, Turns
<1> QED BY <1>1, <1>2

LEMMA FlagAll ==
  ASSUME NEW a, NEW v, NEW t \in Nat, Len(v) \in Nat, \A i \in 1 .. Len(v) : Call(v[i]) \in Anomaly,
         DOMAIN a = AnomFields, RingOK(a)
  PROVE  Kept(a, Flag(a, v, t), {"flagged", "ring"}) /\ RingOK(Flag(a, v, t))
<1>1. PICK f : Turns(f, a, v, t, Len(v)) /\ Flag(a, v, t) = f[Len(v)]
  BY FlagIs
<1>2. PICK l \in Nat : l = Len(v)
  OBVIOUS
<1>3. ASSUME NEW i \in 0 .. l
      PROVE  f[i] = IF i = 0 THEN a
                    ELSE IF v[i].on THEN flagAnomaly(f[i - 1], Call(v[i]), t)
                    ELSE f[i - 1]
  BY <1>1, <1>2 DEF Turns
<1> DEFINE S == {i \in 0 .. l : Kept(a, f[i], {"flagged", "ring"}) /\ RingOK(f[i])}
<1>4. 0 \in S
  <2>1. f[0] = a
    BY <1>3
  <2> QED BY <2>1 DEF Kept
<1>5. ASSUME NEW i \in 0 .. l - 1, i \in S PROVE i + 1 \in S
  <2>1. i + 1 \in 0 .. l /\ i + 1 # 0 /\ (i + 1) - 1 = i /\ i + 1 \in 1 .. l
    OBVIOUS
  <2>2. PICK x, c : x = f[i] /\ c = Call(v[i + 1])
    OBVIOUS
  <2>3. Kept(a, x, {"flagged", "ring"}) /\ RingOK(x) /\ c \in Anomaly
    BY <1>2, <1>5, <2>1, <2>2
  <2>4. f[i + 1] = flagAnomaly(x, c, t) \/ f[i + 1] = x
    BY <1>3, <2>1, <2>2
  <2>5. Kept(x, flagAnomaly(x, c, t), {"flagged", "ring"}) /\ RingOK(flagAnomaly(x, c, t))
    BY <2>3, FlagKeeps DEF Kept
  <2>6. Kept(a, f[i + 1], {"flagged", "ring"}) /\ RingOK(f[i + 1])
    BY <2>3, <2>4, <2>5 DEF Kept
  <2> QED BY <2>1, <2>6
<1> HIDE DEF S
<1>6. l \in S
  <2>1. 0 .. l \subseteq S
    BY <1>4, <1>5, UpTo
  <2> QED BY <2>1
<1> QED BY <1>1, <1>2, <1>6 DEF S

----------------------------------------------------------------------------
(* The memory after a packet.                                               *)
LEMMA PartsKeep ==
  ASSUME NEW a, DOMAIN a = AnomFields, NEW e
  PROVE  /\ Kept(a, [a EXCEPT !.known = @ \cup {e.from}], {"known"})
         /\ Kept(a, Pair(a, e), {"pairs"})
         /\ Kept(a, Spam(a, e), {"pktTimes"})
         /\ Kept(a, Signal(a, e), {"lastSNR"})
         /\ Kept(a, Loop(a, e), {"pktDup"})
         /\ Kept(a, Origins(a, e), {"mqttSeen"})
         /\ Kept(a, Channels(a, e), {"nodeChannels"})
         /\ Kept(a, Encrypted(a, e), {"totalSeen", "encryptedSeen"})
         /\ Kept(a, FirstSeen(a, e), {"pktFirstSeen"})
         /\ Kept(a, Position(a, e), {"lastPos"})
<1>0. /\ \A x, v : Kept(a, [a EXCEPT ![x] = v], {x})
      /\ \A v, w : Kept(a, [a EXCEPT !.totalSeen = v, !.encryptedSeen = w], {"totalSeen", "encryptedSeen"})
      /\ \A X : Kept(a, a, X)
  BY DEF Kept
<1>1. Kept(a, [a EXCEPT !.known = @ \cup {e.from}], {"known"})
  BY <1>0
<1>2. Kept(a, Pair(a, e), {"pairs"})
  BY <1>0 DEF Pair
<1>3. Kept(a, Spam(a, e), {"pktTimes"})
  BY <1>0 DEF Spam
<1>4. Kept(a, Signal(a, e), {"lastSNR"})
  BY <1>0 DEF Signal
<1>5. Kept(a, Loop(a, e), {"pktDup"})
  BY <1>0 DEF Loop
<1>6. Kept(a, Origins(a, e), {"mqttSeen"})
  BY <1>0 DEF Origins
<1>7. Kept(a, Channels(a, e), {"nodeChannels"})
  BY <1>0 DEF Channels
<1>8. Kept(a, Encrypted(a, e), {"totalSeen", "encryptedSeen"})
  BY <1>0 DEF Encrypted
<1>9. Kept(a, FirstSeen(a, e), {"pktFirstSeen"})
  BY <1>0 DEF FirstSeen
<1>10. Kept(a, Position(a, e), {"lastPos"})
  BY <1>0 DEF Position
<1> QED BY <1>1, <1>2, <1>3, <1>4, <1>5, <1>6, <1>7, <1>8, <1>9, <1>10

(* The first sightings and the loop detector's times after a packet.        *)
Sighted(first, e) ==
  IF e.id = 0 THEN first ELSE Forgotten(Over(first, Put(<<>>, Id(e), e.at)), e)
Timed(dup, e) ==
  IF e.id = 0 THEN dup ELSE Collected(Put(dup, Id(e), Recent(dup, Id(e), e, Window.minute)), e)

(* b is what Observe makes of a.                                            *)
Observed(b, a, e) ==
  /\ DOMAIN b = AnomFields
  /\ b.ring = a.ring /\ b.flagged = a.flagged
  /\ b.pktFirstSeen = Sighted(a.pktFirstSeen, e) /\ b.pktDup = Timed(a.pktDup, e)
  /\ b.known = a.known \cup {e.from} /\ b.pairs = Pair(a, e).pairs
  /\ b.pktTimes = Spam(a, e).pktTimes /\ b.lastSNR = Signal(a, e).lastSNR
  /\ b.mqttSeen = Origins(a, e).mqttSeen /\ b.nodeChannels = Channels(a, e).nodeChannels
  /\ b.totalSeen = Encrypted(a, e).totalSeen /\ b.encryptedSeen = Encrypted(a, e).encryptedSeen
  /\ b.lastPos = Position(a, e).lastPos

LEMMA ObserveIs ==
  ASSUME NEW a, DOMAIN a = AnomFields, NEW e
  PROVE  Observed(Observe(a, e), a, e)
<1>1. PICK b1 : b1 = [a EXCEPT !.known = @ \cup {e.from}]
  OBVIOUS
<1>2. PICK b2 : b2 = Pair(b1, e)
  OBVIOUS
<1>3. PICK b3 : b3 = Spam(b2, e)
  OBVIOUS
<1>4. PICK b4 : b4 = Signal(b3, e)
  OBVIOUS
<1>5. PICK b5 : b5 = Loop(b4, e)
  OBVIOUS
<1>6. PICK b6 : b6 = Origins(b5, e)
  OBVIOUS
<1>7. PICK b7 : b7 = Channels(b6, e)
  OBVIOUS
<1>8. PICK b8 : b8 = Encrypted(b7, e)
  OBVIOUS
<1>9. PICK b9 : b9 = FirstSeen(b8, e)
  OBVIOUS
<1>10. PICK b10 : b10 = Position(b9, e)
  OBVIOUS
<1>11. Observe(a, e) = b10
  BY <1>1, <1>2, <1>3, <1>4, <1>5, <1>6, <1>7, <1>8, <1>9, <1>10 DEF Observe
<1>12. DOMAIN b1 = AnomFields /\ Kept(a, b1, {"known"})
  BY <1>1, PartsKeep DEF Kept
<1>13. DOMAIN b2 = AnomFields /\ Kept(b1, b2, {"pairs"})
  <2>1. DOMAIN b1 = AnomFields
    BY <1>12
  <2>2. Kept(b1, b2, {"pairs"})
    BY <1>2, <2>1, PartsKeep
  <2> QED BY <2>2 DEF Kept
<1>14. DOMAIN b3 = AnomFields /\ Kept(b2, b3, {"pktTimes"})
  <2>1. DOMAIN b2 = AnomFields
    BY <1>13
  <2>2. Kept(b2, b3, {"pktTimes"})
    BY <1>3, <2>1, PartsKeep
  <2> QED BY <2>2 DEF Kept
<1>15. DOMAIN b4 = AnomFields /\ Kept(b3, b4, {"lastSNR"})
  <2>1. DOMAIN b3 = AnomFields
    BY <1>14
  <2>2. Kept(b3, b4, {"lastSNR"})
    BY <1>4, <2>1, PartsKeep
  <2> QED BY <2>2 DEF Kept
<1>16. DOMAIN b5 = AnomFields /\ Kept(b4, b5, {"pktDup"})
  <2>1. DOMAIN b4 = AnomFields
    BY <1>15
  <2>2. Kept(b4, b5, {"pktDup"})
    BY <1>5, <2>1, PartsKeep
  <2> QED BY <2>2 DEF Kept
<1>17. DOMAIN b6 = AnomFields /\ Kept(b5, b6, {"mqttSeen"})
  <2>1. DOMAIN b5 = AnomFields
    BY <1>16
  <2>2. Kept(b5, b6, {"mqttSeen"})
    BY <1>6, <2>1, PartsKeep
  <2> QED BY <2>2 DEF Kept
<1>18. DOMAIN b7 = AnomFields /\ Kept(b6, b7, {"nodeChannels"})
  <2>1. DOMAIN b6 = AnomFields
    BY <1>17
  <2>2. Kept(b6, b7, {"nodeChannels"})
    BY <1>7, <2>1, PartsKeep
  <2> QED BY <2>2 DEF Kept
<1>19. DOMAIN b8 = AnomFields /\ Kept(b7, b8, {"totalSeen", "encryptedSeen"})
  <2>1. DOMAIN b7 = AnomFields
    BY <1>18
  <2>2. Kept(b7, b8, {"totalSeen", "encryptedSeen"})
    BY <1>8, <2>1, PartsKeep
  <2> QED BY <2>2 DEF Kept
<1>20. DOMAIN b9 = AnomFields /\ Kept(b8, b9, {"pktFirstSeen"})
  <2>1. DOMAIN b8 = AnomFields
    BY <1>19
  <2>2. Kept(b8, b9, {"pktFirstSeen"})
    BY <1>9, <2>1, PartsKeep
  <2> QED BY <2>2 DEF Kept
<1>21. DOMAIN b10 = AnomFields /\ Kept(b9, b10, {"lastPos"})
  <2>1. DOMAIN b9 = AnomFields
    BY <1>20
  <2>2. Kept(b9, b10, {"lastPos"})
    BY <1>10, <2>1, PartsKeep
  <2> QED BY <2>2 DEF Kept
<1>22. DOMAIN b10 = AnomFields /\ b10.ring = a.ring /\ b10.flagged = a.flagged
  BY <1>12, <1>13, <1>14, <1>15, <1>16, <1>17, <1>18, <1>19, <1>20, <1>21 DEF Kept, AnomFields
<1>23. b10.known = b1.known
  BY <1>12, <1>13, <1>14, <1>15, <1>16, <1>17, <1>18, <1>19, <1>20, <1>21 DEF Kept, AnomFields
<1>24. b1.known = a.known \cup {e.from}
  BY <1>1, <1>23 DEF AnomFields
<1>25. b1.pairs = a.pairs /\ b10.pairs = b2.pairs
  BY <1>12, <1>13, <1>14, <1>15, <1>16, <1>17, <1>18, <1>19, <1>20, <1>21 DEF Kept, AnomFields
<1>26. b2.pairs = Pair(a, e).pairs
  BY <1>2, <1>25, <1>12 DEF Pair, AnomFields
<1>27. b2.pktTimes = a.pktTimes /\ b10.pktTimes = b3.pktTimes
  BY <1>12, <1>13, <1>14, <1>15, <1>16, <1>17, <1>18, <1>19, <1>20, <1>21 DEF Kept, AnomFields
<1>28. b3.pktTimes = Spam(a, e).pktTimes
  BY <1>3, <1>27, <1>13 DEF Spam, AnomFields
<1>29. b3.lastSNR = a.lastSNR /\ b10.lastSNR = b4.lastSNR
  BY <1>12, <1>13, <1>14, <1>15, <1>16, <1>17, <1>18, <1>19, <1>20, <1>21 DEF Kept, AnomFields
<1>30. b4.lastSNR = Signal(a, e).lastSNR
  BY <1>4, <1>29, <1>14 DEF Signal, AnomFields
<1>31. b4.pktDup = a.pktDup /\ b10.pktDup = b5.pktDup
  BY <1>12, <1>13, <1>14, <1>15, <1>16, <1>17, <1>18, <1>19, <1>20, <1>21 DEF Kept, AnomFields
<1>32. b5.pktDup = Timed(a.pktDup, e)
  BY <1>5, <1>31, <1>15 DEF Loop, Timed, AnomFields
<1>33. b5.mqttSeen = a.mqttSeen /\ b10.mqttSeen = b6.mqttSeen
  BY <1>12, <1>13, <1>14, <1>15, <1>16, <1>17, <1>18, <1>19, <1>20, <1>21 DEF Kept, AnomFields
<1>34. b6.mqttSeen = Origins(a, e).mqttSeen
  BY <1>6, <1>33, <1>16 DEF Origins, AnomFields
<1>35. b6.nodeChannels = a.nodeChannels /\ b10.nodeChannels = b7.nodeChannels
  BY <1>12, <1>13, <1>14, <1>15, <1>16, <1>17, <1>18, <1>19, <1>20, <1>21 DEF Kept, AnomFields
<1>36. b7.nodeChannels = Channels(a, e).nodeChannels
  BY <1>7, <1>35, <1>17 DEF Channels, AnomFields
<1>37. b7.totalSeen = a.totalSeen /\ b7.encryptedSeen = a.encryptedSeen /\ b10.totalSeen = b8.totalSeen /\ b10.encryptedSeen = b8.encryptedSeen
  BY <1>12, <1>13, <1>14, <1>15, <1>16, <1>17, <1>18, <1>19, <1>20, <1>21 DEF Kept, AnomFields
<1>38. b8.totalSeen = Encrypted(a, e).totalSeen /\ b8.encryptedSeen = Encrypted(a, e).encryptedSeen
  BY <1>8, <1>37, <1>18 DEF Encrypted, AnomFields
<1>39. b8.pktFirstSeen = a.pktFirstSeen /\ b10.pktFirstSeen = b9.pktFirstSeen
  BY <1>12, <1>13, <1>14, <1>15, <1>16, <1>17, <1>18, <1>19, <1>20, <1>21 DEF Kept, AnomFields
<1>40. b9.pktFirstSeen = Sighted(a.pktFirstSeen, e)
  BY <1>9, <1>39, <1>19 DEF FirstSeen, Sighted, AnomFields
<1>41. b9.lastPos = a.lastPos
  BY <1>12, <1>13, <1>14, <1>15, <1>16, <1>17, <1>18, <1>19, <1>20, <1>21 DEF Kept, AnomFields
<1>42. b10.lastPos = Position(a, e).lastPos
  BY <1>10, <1>41, <1>20 DEF Position, AnomFields
<1>43. Observed(b10, a, e)
  BY <1>22, <1>23, <1>24, <1>25, <1>26, <1>27, <1>28, <1>29, <1>30, <1>31, <1>32, <1>33, <1>34, <1>35, <1>36, <1>37, <1>38, <1>39, <1>40, <1>41, <1>42 DEF Observed
<1> QED BY <1>11, <1>43

(* What is left of the times, with the packet's, ends with the packet's.    *)
LEMMA RecentIs ==
  ASSUME NEW f, NEW k, NEW e, NEW w \in Nat, e.at \in Nat, k \in DOMAIN f => f[k] \in Seq(Nat)
  PROVE  /\ Recent(f, k, e, w) \in Seq(Nat) /\ Recent(f, k, e, w) # <<>>
         /\ Last(Recent(f, k, e, w)) = e.at
<1>1. PICK t \in Nat : t = e.at
  OBVIOUS
<1>2. PICK s \in Seq(Nat) : s = At(f, k, <<>>)
  <2>1. <<>> \in Seq(Nat)
    OBVIOUS
  <2> QED BY <2>1 DEF At
<1>3. PICK q : q = Append(s, t)
  OBVIOUS
<1>4. q \in Seq(Nat) /\ Len(q) \in Nat /\ Len(q) > 0 /\ q[Len(q)] = t
  BY <1>3
<1>5. PICK c \in Int : c = t - w
  OBVIOUS
<1>6. t >= c
  BY <1>5
<1> DEFINE Cut(j) == (\A i \in 1 .. j : q[i] < c) /\ (j < Len(q) => q[j + 1] >= c)
<1>7. \E j \in 0 .. Len(q) : Cut(j)
  <2> DEFINE Late == {i \in 1 .. Len(q) : q[i] >= c}
  <2>1. Late \subseteq Nat /\ Len(q) \in Late
    BY <1>4, <1>6
  <2>2. PICK i \in Late : \A j \in Late : i <= j
    BY <2>1, LeastElement
  <2>3. i \in 1 .. Len(q) /\ q[i] >= c
    OBVIOUS
  <2>4. i - 1 \in 0 .. Len(q) /\ (i - 1) + 1 = i
    BY <1>4, <2>3
  <2>5. ASSUME NEW n \in 1 .. i - 1 PROVE q[n] < c
    <3>1. n \in 1 .. Len(q) /\ n \notin Late
      BY <1>4, <2>2, <2>3
    <3>2. q[n] \in Nat
      BY <1>4, <3>1
    <3> QED BY <3>1, <3>2
  <2> QED BY <2>3, <2>4, <2>5
<1> DEFINE d == CHOOSE j \in 0 .. Len(q) : Cut(j)
<1>8. d \in 0 .. Len(q) /\ Cut(d)
  BY <1>7
<1>9. Recent(f, k, e, w) = SubSeq(q, d + 1, Len(q))
  BY <1>1, <1>2, <1>3, <1>5 DEF Recent, trimBefore
<1> HIDE DEF d
<1>10. d < Len(q)
  <2>1. d = Len(q) => q[Len(q)] < c
    BY <1>4, <1>8
  <2> QED BY <1>4, <1>6, <1>8, <2>1
<1>11. PICK n \in Nat : n = d + 1 /\ n \in 1 .. Len(q)
  BY <1>4, <1>8, <1>10
<1>12. PICK r : r = SubSeq(q, n, Len(q))
  OBVIOUS
<1>13. r \in Seq(Nat) /\ Len(r) = Len(q) - n + 1
  BY <1>4, <1>11, <1>12
<1>14. r[Len(r)] = q[Len(q)] /\ Len(r) > 0
  <2>1. PICK l \in Nat : l = Len(q)
    BY <1>4
  <2>2. n \in 1 .. l
    BY <1>11, <2>1
  <2>3. \A i \in 1 .. l - n + 1 : SubSeq(q, n, Len(q))[i] = q[n + i - 1]
    BY <1>4, <2>1, <2>2
  <2>4. l - n + 1 \in 1 .. l - n + 1 /\ n + (l - n + 1) - 1 = l
    BY <2>2
  <2>5. r[l - n + 1] = q[l]
    BY <1>12, <2>3, <2>4
  <2> QED BY <1>13, <2>1, <2>2, <2>5
<1>15. r # <<>> /\ Last(r) = t
  BY <1>4, <1>14 DEF Last
<1> QED BY <1>1, <1>9, <1>11, <1>12, <1>13, <1>15

----------------------------------------------------------------------------
(* The packets heard and their ids.                                         *)
LEMMA EventsAre == ASSUME NEW e \in Events PROVE EventFact(e)
<1>1. PICK s \in Nat \X Packets : e = Over([at |-> s[1]], s[2])
  BY DEF Events
<1>2. s[1] \in Nat /\ s[2] \in Packets
  OBVIOUS
<1> QED BY <1>1, <1>2, StampIs

LEMMA IdsAre ==
  ASSUME NEW h \in Seq(Events)
  PROVE  /\ IsFiniteSet(Ids(h)) /\ Cardinality(Ids(h)) \in Nat
         /\ \A T \in SUBSET Ids(h) : Cardinality(T) \in Nat /\ Cardinality(T) <= Cardinality(Ids(h))
<1> DEFINE J == {j \in DOMAIN h : h[j].id # 0}
           f == [j \in J |-> Id(h[j])]
<1>1. DOMAIN h = 1 .. Len(h) /\ Len(h) \in Nat
  OBVIOUS
<1>2. IsFiniteSet(1 .. Len(h))
  BY <1>1, FS_Interval
<1>3. IsFiniteSet(J)
  BY <1>1, <1>2, FS_Subset
<1>4. Ids(h) = {Id(h[j]) : j \in J}
  BY DEF Ids
<1> HIDE DEF J
<1>5. f \in Surjection(J, Ids(h))
  BY <1>4 DEF Surjection
<1>6. IsFiniteSet(Ids(h))
  BY <1>3, <1>5, FS_Surjection
<1>7. Cardinality(Ids(h)) \in Nat
  BY <1>6, FS_CardinalityType
<1>8. ASSUME NEW T \in SUBSET Ids(h)
      PROVE  Cardinality(T) \in Nat /\ Cardinality(T) <= Cardinality(Ids(h))
  BY <1>6, FS_Subset, FS_CardinalityType
<1> QED BY <1>6, <1>7, <1>8

LEMMA MoreHeard ==
  ASSUME NEW h \in Seq(Events), NEW e \in Events, NEW g, g = Append(h, e)
  PROVE  /\ g \in Seq(Events) /\ Len(h) \in Nat /\ Len(g) = Len(h) + 1 /\ g # <<>> /\ Last(g) = e
         /\ g[Len(h) + 1] = e /\ \A i \in 1 .. Len(h) : g[i] = h[i]
         /\ \A i \in 1 .. Len(g) : i \in 1 .. Len(h) \/ i = Len(h) + 1
         /\ \A k, t : HeardAt(h, k, t) => HeardAt(g, k, t)
         /\ e.id # 0 => HeardAt(g, Id(e), e.at)
         /\ Cardinality(Ids(h)) \in Nat /\ Cardinality(Ids(g)) \in Nat
         /\ Cardinality(Ids(h)) <= Cardinality(Ids(g))
<1>1. g \in Seq(Events) /\ Len(h) \in Nat /\ Len(g) = Len(h) + 1
  OBVIOUS
<1>2. g[Len(h) + 1] = e /\ \A i \in 1 .. Len(h) : g[i] = h[i]
  OBVIOUS
<1>3. g # <<>> /\ Last(g) = e
  BY <1>1, <1>2 DEF Last
<1>4. \A i \in 1 .. Len(g) : i \in 1 .. Len(h) \/ i = Len(h) + 1
  BY <1>1
<1>5. \A i \in 1 .. Len(h) : i \in 1 .. Len(g)
  BY <1>1
<1>6. \A k, t : HeardAt(h, k, t) => HeardAt(g, k, t)
  BY <1>2, <1>5 DEF HeardAt
<1>7. Len(h) + 1 \in 1 .. Len(g)
  BY <1>1
<1>8. e.id # 0 => HeardAt(g, Id(e), e.at)
  BY <1>2, <1>7 DEF HeardAt
<1>9. DOMAIN h = 1 .. Len(h) /\ DOMAIN g = 1 .. Len(g)
  BY <1>1
<1>10. Ids(h) \subseteq Ids(g)
  <2> SUFFICES ASSUME NEW k \in Ids(h) PROVE k \in Ids(g)
    OBVIOUS
  <2>1. PICK i \in 1 .. Len(h) : h[i].id # 0 /\ k = Id(h[i])
    BY <1>9 DEF Ids
  <2>2. i \in 1 .. Len(g) /\ g[i] = h[i]
    BY <1>2, <1>5, <2>1
  <2> QED BY <1>9, <2>1, <2>2 DEF Ids
<1>11. /\ Cardinality(Ids(h)) \in Nat /\ Cardinality(Ids(g)) \in Nat
       /\ Cardinality(Ids(h)) <= Cardinality(Ids(g))
  BY <1>1, <1>10, IdsAre
<1> QED BY <1>1, <1>2, <1>3, <1>4, <1>6, <1>8, <1>11

LEMMA HeardIsId ==
  ASSUME NEW h \in Seq(Events), NEW k, NEW t, HeardAt(h, k, t)
  PROVE  k \in Ids(h) /\ t \in Nat
<1>1. PICK i \in 1 .. Len(h) : h[i].id # 0 /\ Id(h[i]) = k /\ h[i].at = t
  BY DEF HeardAt
<1>2. h[i] \in Events /\ i \in DOMAIN h
  OBVIOUS
<1>3. h[i].at \in Nat
  BY <1>2, EventsAre DEF EventFact
<1> QED BY <1>1, <1>2, <1>3 DEF Ids

(* What has expired stays so as time passes and more is heard.              *)
LEMMA ExpiredStays ==
  ASSUME NEW h \in Seq(Events), NEW e \in Events, NEW g, g = Append(h, e) \/ g = h,
         NEW k, NEW t \in Nat, NEW u \in Nat, t <= u, Expired(h, k, t)
  PROVE  Expired(g, k, u)
<1>1. PICK i \in 1 .. Len(h) : h[i].id # 0 /\ Id(h[i]) = k /\ t - h[i].at > Window.forget
  BY DEF Expired
<1>2. h[i] \in Events
  OBVIOUS
<1>3. h[i].at \in Nat
  BY <1>2, EventsAre DEF EventFact
<1>4. u - h[i].at > Window.forget
  BY <1>1, <1>3, DetectorAssumption
<1>5. i \in 1 .. Len(g) /\ g[i] = h[i] /\ Cardinality(Ids(g)) > MaxKeys
  <2>1. CASE g = h
    BY <2>1 DEF Expired
  <2>2. CASE g = Append(h, e)
    <3>1. Cardinality(Ids(h)) > MaxKeys
      BY DEF Expired
    <3>2. MaxKeys \in Nat
      BY DetectorAssumption
    <3>a. /\ Cardinality(Ids(h)) \in Nat /\ Cardinality(Ids(g)) \in Nat
          /\ Cardinality(Ids(h)) <= Cardinality(Ids(g))
      BY <2>2, MoreHeard
    <3>3. Cardinality(Ids(g)) > MaxKeys
      BY <3>1, <3>2, <3>a
    <3>4. i \in 1 .. Len(g) /\ g[i] = h[i]
      BY <2>2
    <3> QED BY <3>3, <3>4
  <2> QED BY <2>1, <2>2
<1> QED BY <1>1, <1>4, <1>5 DEF Expired

(* A packet leaves the first sightings right, and thin when it has an id.   *)
LEMMA SightingsStep ==
  ASSUME NEW first, NEW h \in Seq(Events), NEW e \in Events, HeardOK(h, e.at),
         SightingsOK(first, h, e.at), NEW g, g = Append(h, e), NEW new, new = Sighted(first, e)
  PROVE  /\ SightingsOK(new, g, e.at)
         /\ e.id # 0 => \/ Cardinality(DOMAIN new) <= MaxKeys
                        \/ \A k \in DOMAIN new : e.at - new[k] <= Window.forget
<1>1. e.at \in Nat
  BY EventsAre DEF EventFact
<1>2. g \in Seq(Events) /\ g[Len(h) + 1] = e /\ \A i \in 1 .. Len(h) : g[i] = h[i]
  BY MoreHeard
<1>3. \A i \in 1 .. Len(g) : i \in 1 .. Len(h) \/ i = Len(h) + 1
  BY MoreHeard
<1>4. \A k, t : HeardAt(h, k, t) => HeardAt(g, k, t)
  BY MoreHeard
<1>5. ASSUME NEW k, Expired(h, k, e.at) PROVE Expired(g, k, e.at)
  <2>1. PICK t \in Nat : t = e.at
    BY <1>1
  <2>2. Expired(h, k, t) /\ t <= t
    BY <1>5, <2>1
  <2>3. Expired(g, k, t)
    BY <2>2, ExpiredStays
  <2> QED BY <2>1, <2>3
<1>6. CASE e.id = 0
  <2>1. new = first
    BY <1>6 DEF Sighted
  <2>2. \A k \in DOMAIN new : HeardAt(g, k, new[k])
    BY <1>4, <2>1 DEF SightingsOK
  <2>3. ASSUME NEW i \in 1 .. Len(g), g[i].id # 0
        PROVE  \/ Id(g[i]) \in DOMAIN new /\ new[Id(g[i])] <= g[i].at
               \/ Expired(g, Id(g[i]), e.at)
    <3>1. i \in 1 .. Len(h) /\ g[i] = h[i]
      BY <1>2, <1>3, <1>6, <2>3
    <3> QED BY <1>5, <2>1, <2>3, <3>1 DEF SightingsOK
  <2> QED BY <1>6, <2>2, <2>3 DEF SightingsOK
<1>7. CASE e.id # 0
  <2>1. PICK id : id = Id(e)
    OBVIOUS
  <2>2. PICK mid : mid = Over(first, Put(<<>>, id, e.at))
    OBVIOUS
  <2>3. DOMAIN mid = DOMAIN first \cup {id} /\ \A k \in DOMAIN first : mid[k] = first[k]
    BY <2>2 DEF Over, Put
  <2>4. id \notin DOMAIN first => mid[id] = e.at
    BY <2>2 DEF Over, Put
  <2>5. HeardAt(g, id, e.at)
    BY <1>7, <2>1, MoreHeard
  <2>6. \A k \in DOMAIN mid : HeardAt(g, k, mid[k])
    BY <1>4, <2>3, <2>4, <2>5 DEF SightingsOK
  <2>7. mid[id] <= e.at
    <3>1. CASE id \in DOMAIN first
      <4>1. HeardAt(h, id, mid[id])
        BY <2>3, <3>1 DEF SightingsOK
      <4> QED BY <4>1 DEF HeardAt, HeardOK
    <3>2. CASE id \notin DOMAIN first
      BY <1>1, <2>4, <3>2
    <3> QED BY <3>1, <3>2
  <2>8. ASSUME NEW i \in 1 .. Len(g), g[i].id # 0
        PROVE  \/ Id(g[i]) \in DOMAIN mid /\ mid[Id(g[i])] <= g[i].at
               \/ Expired(g, Id(g[i]), e.at)
    <3>1. CASE i \in 1 .. Len(h)
      <4>1. g[i] = h[i]
        BY <1>2, <3>1
      <4> QED BY <1>5, <2>3, <2>8, <3>1, <4>1 DEF SightingsOK
    <3>2. CASE i = Len(h) + 1
      BY <1>2, <2>1, <2>3, <2>7, <3>2
    <3> QED BY <1>3, <3>1, <3>2
  <2>9. new = Forgotten(mid, e)
    BY <1>7, <2>1, <2>2 DEF Sighted
  <2>10. CASE Cardinality(DOMAIN mid) <= MaxKeys
    <3>1. new = mid
      BY <2>9, <2>10 DEF Forgotten
    <3> QED BY <2>6, <2>8, <2>10, <3>1 DEF SightingsOK
  <2>11. CASE ~ (Cardinality(DOMAIN mid) <= MaxKeys)
    <3>1. \A k \in DOMAIN mid : mid[k] \in Nat /\ k \in Ids(g)
      BY <1>2, <2>6, HeardIsId
    <3>2. PICK Young : Young = {k \in DOMAIN mid : mid[k] >= e.at - Window.forget}
      OBVIOUS
    <3>3. new = [k \in Young |-> mid[k]]
      BY <2>9, <2>11, <3>2 DEF Forgotten, Restrict
    <3>4. DOMAIN new = Young /\ \A k \in Young : new[k] = mid[k] /\ k \in DOMAIN mid
      BY <3>2, <3>3
    <3>5. \A k \in DOMAIN new : e.at - new[k] <= Window.forget
      BY <1>1, <3>1, <3>2, <3>4, DetectorAssumption
    <3>6. Cardinality(Ids(g)) > MaxKeys
      <4>1. DOMAIN mid \in SUBSET Ids(g)
        BY <3>1
      <4>2. Cardinality(DOMAIN mid) \in Nat /\ Cardinality(DOMAIN mid) <= Cardinality(Ids(g))
        BY <1>2, <4>1, IdsAre
      <4>3. Cardinality(Ids(g)) \in Nat /\ MaxKeys \in Nat
        BY <1>2, IdsAre, DetectorAssumption
      <4> QED BY <2>11, <4>2, <4>3
    <3>7. ASSUME NEW k \in DOMAIN mid, k \notin Young PROVE Expired(g, k, e.at)
      <4>1. PICK j \in 1 .. Len(g) : g[j].id # 0 /\ Id(g[j]) = k /\ g[j].at = mid[k]
        BY <2>6, <3>7 DEF HeardAt
      <4>2. ~ (mid[k] >= e.at - Window.forget)
        BY <3>2, <3>7
      <4>3. e.at - g[j].at > Window.forget
        BY <1>1, <3>1, <3>7, <4>1, <4>2, DetectorAssumption
      <4> QED BY <3>6, <4>1, <4>3 DEF Expired
    <3>8. ASSUME NEW i \in 1 .. Len(g), g[i].id # 0
          PROVE  \/ Id(g[i]) \in DOMAIN new /\ new[Id(g[i])] <= g[i].at
                 \/ Expired(g, Id(g[i]), e.at)
      BY <2>8, <3>4, <3>7, <3>8
    <3>9. \A k \in DOMAIN new : HeardAt(g, k, new[k])
      BY <2>6, <3>4
    <3> QED BY <3>5, <3>8, <3>9 DEF SightingsOK
  <2> QED BY <2>10, <2>11
<1> QED BY <1>6, <1>7

(* And so it leaves the times behind the loop detector.                     *)
LEMMA TimesStep ==
  ASSUME NEW dup, NEW h \in Seq(Events), NEW e \in Events, TimesOK(dup, h),
         NEW g, g = Append(h, e), NEW new, new = Timed(dup, e)
  PROVE  /\ TimesOK(new, g)
         /\ e.id # 0 => \/ Cardinality(DOMAIN new) <= MaxKeys
                        \/ \A k \in DOMAIN new : e.at - Last(new[k]) <= Window.minute
<1>1. e.at \in Nat /\ Window.minute \in Nat
  BY EventsAre, DetectorAssumption DEF EventFact
<1>2. g \in Seq(Events)
  BY MoreHeard
<1>3. \A k, t : HeardAt(h, k, t) => HeardAt(g, k, t)
  BY MoreHeard
<1>4. CASE e.id = 0
  <2>1. new = dup
    BY <1>4 DEF Timed
  <2> QED BY <1>3, <1>4, <2>1 DEF TimesOK
<1>5. CASE e.id # 0
  <2>1. PICK id : id = Id(e)
    OBVIOUS
  <2>2. PICK ts : ts = Recent(dup, id, e, Window.minute)
    OBVIOUS
  <2>3. ts \in Seq(Nat) /\ ts # <<>> /\ Last(ts) = e.at
    BY <1>1, <2>2, RecentIs DEF TimesOK
  <2>4. HeardAt(g, id, e.at)
    BY <1>5, <2>1, MoreHeard
  <2>5. PICK mid : mid = Put(dup, id, ts)
    OBVIOUS
  <2>6. DOMAIN mid = DOMAIN dup \cup {id} /\ \A k \in DOMAIN mid : mid[k] = IF k = id THEN ts ELSE dup[k]
    BY <2>5 DEF Put
  <2>7. TimesOK(mid, g)
    BY <1>3, <2>3, <2>4, <2>6 DEF TimesOK
  <2>8. new = Collected(mid, e)
    BY <1>5, <2>1, <2>2, <2>5 DEF Timed
  <2>9. CASE Cardinality(DOMAIN mid) <= MaxKeys
    <3>1. new = mid
      BY <2>8, <2>9 DEF Collected
    <3> QED BY <2>7, <2>9, <3>1
  <2>10. CASE ~ (Cardinality(DOMAIN mid) <= MaxKeys)
    <3>1. PICK Young : Young = {k \in DOMAIN mid : Last(mid[k]) >= e.at - Window.minute}
      OBVIOUS
    <3>2. new = [k \in Young |-> mid[k]]
      BY <2>8, <2>10, <3>1 DEF Collected, Restrict
    <3>3. DOMAIN new = Young /\ \A k \in Young : new[k] = mid[k] /\ k \in DOMAIN mid
      BY <3>1, <3>2
    <3>4. TimesOK(new, g)
      BY <2>7, <3>3 DEF TimesOK
    <3>5. \A k \in DOMAIN new : Last(new[k]) \in Nat
      BY <1>2, <3>4, HeardIsId DEF TimesOK
    <3>6. \A k \in DOMAIN new : Last(new[k]) >= e.at - Window.minute
      BY <3>1, <3>3
    <3>7. \A k \in DOMAIN new : e.at - Last(new[k]) <= Window.minute
      BY <1>1, <3>5, <3>6
    <3> QED BY <3>4, <3>7
  <2> QED BY <2>9, <2>10
<1> QED BY <1>4, <1>5

----------------------------------------------------------------------------
(* The call for a reused id.                                                *)
Reused(e) == [type |-> "id_reuse", key |-> Id(e)]

LEMMA ReusedIs ==
  ASSUME NEW b, NEW a, NEW e, EventFact(e)
  PROVE  Reused(e) \in Calls(Verdicts(b, a, e)) <=> Reuses(b, e)
<1>1. PICK v : v = Verdicts(b, a, e)
  OBVIOUS
<1>2. DOMAIN v = 1 .. 12 /\ \A i \in 1 .. 12 : v[i].type = "id_reuse" <=> i = 9
  BY <1>1, VerdictsAre
<1>3. v[9].key = Id(e)
  BY <1>1, VerdictsAre
<1>4. v[9].on <=> Reuses(b, e)
  BY <1>1, VerdictsAre
<1>5. ASSUME v[9].on PROVE Reused(e) \in Calls(v)
  <2>1. 9 \in 1 .. 12
    OBVIOUS
  <2>2. Call(v[9]) = Reused(e)
    BY <1>2, <1>3, <2>1 DEF Call, Reused
  <2> QED BY <1>2, <1>5, <2>1, <2>2 DEF Calls
<1>6. ASSUME Reused(e) \in Calls(v) PROVE v[9].on
  <2>1. PICK i \in 1 .. 12 : v[i].on /\ Reused(e) = Call(v[i])
    BY <1>2, <1>6 DEF Calls
  <2>2. Call(v[i]).type = "id_reuse"
    BY <2>1 DEF Reused
  <2>3. v[i].type = "id_reuse"
    BY <2>2 DEF Call
  <2>4. i = 9
    BY <1>2, <2>3
  <2> QED BY <2>1, <2>4
<1> QED BY <1>1, <1>4, <1>5, <1>6

(* What ReuseFires says, of any packets and calls.                          *)
Ages(h) == {Last(h).at - h[i].at : i \in Same(h)}
FiresOK(h, calls) ==
  h # <<>> =>
    /\ Reused(Last(h)) \in calls => Last(h).id # 0 /\ \E d \in Ages(h) : d >= Window.reuse
    /\ /\ Last(h).id # 0 /\ \E d \in Ages(h) : d >= Window.reuse
       /\ Cardinality(Ids(h)) <= MaxKeys \/ \A d \in Ages(h) : d <= Window.forget
       => Reused(Last(h)) \in calls

ReuseFact == ReuseFires <=> FiresOK(heard, fired)

LEMMA ReuseFiresIs == ReuseFact
  BY Zenon DEF ReuseFact, ReuseFires, FiresOK, Reused, Ages, Ids

LEMMA FiresStep ==
  ASSUME NEW b, NEW a, NEW h \in Seq(Events), NEW e \in Events, HeardOK(h, e.at),
         SightingsOK(b.pktFirstSeen, h, e.at), NEW g, g = Append(h, e)
  PROVE  FiresOK(g, Calls(Verdicts(b, a, e)))
<1>1. EventFact(e) /\ e.at \in Nat /\ Window.reuse \in Nat \ {0}
  BY EventsAre, DetectorAssumption DEF EventFact
<1>2. Reused(e) \in Calls(Verdicts(b, a, e)) <=> Reuses(b, e)
  BY <1>1, ReusedIs
<1>3. Last(g) = e /\ g \in Seq(Events) /\ g[Len(h) + 1] = e /\ \A i \in 1 .. Len(h) : g[i] = h[i]
  <2>1. Last(g) = e /\ g \in Seq(Events)
    BY MoreHeard
  <2>2. g[Len(h) + 1] = e
    BY MoreHeard
  <2>3. \A i \in 1 .. Len(h) : g[i] = h[i]
    BY MoreHeard
  <2> QED BY <2>1, <2>2, <2>3
<1>4. \A i \in 1 .. Len(g) : i \in 1 .. Len(h) \/ i = Len(h) + 1
  BY MoreHeard
<1>5. \A i \in 1 .. Len(h) : i \in DOMAIN g /\ h[i].at \in Nat
  <2> SUFFICES ASSUME NEW i \in 1 .. Len(h) PROVE i \in DOMAIN g /\ h[i].at \in Nat
    OBVIOUS
  <2>1. h[i] \in Events
    OBVIOUS
  <2> QED BY <2>1, EventsAre DEF EventFact
<1>6. ASSUME NEW i \in 1 .. Len(h), Id(h[i]) = Id(e) PROVE e.at - h[i].at \in Ages(g)
  BY <1>3, <1>5, <1>6 DEF Ages, Same
<1>7. ASSUME Reuses(b, e)
      PROVE  e.id # 0 /\ \E d \in Ages(g) : d >= Window.reuse
  <2>1. HeardAt(h, Id(e), b.pktFirstSeen[Id(e)])
    BY <1>7 DEF Reuses, SightingsOK
  <2>2. PICK i \in 1 .. Len(h) : Id(h[i]) = Id(e) /\ h[i].at = b.pktFirstSeen[Id(e)]
    BY <2>1 DEF HeardAt
  <2> QED BY <1>6, <1>7, <2>2 DEF Reuses
<1>8. ASSUME e.id # 0, NEW d \in Ages(g), d >= Window.reuse,
             Cardinality(Ids(g)) <= MaxKeys \/ \A c \in Ages(g) : c <= Window.forget
      PROVE  Reuses(b, e)
  <2>1. PICK i \in 1 .. Len(g) : Id(g[i]) = Id(e) /\ d = e.at - g[i].at
    BY <1>3, <1>8 DEF Ages, Same
  <2>2. i \in 1 .. Len(h) /\ g[i] = h[i]
    <3>1. i # Len(h) + 1
      BY <1>1, <1>3, <1>8, <2>1
    <3> QED BY <1>3, <1>4, <3>1
  <2>3. h[i].id # 0
    BY <1>8, <2>1, <2>2 DEF Id
  <2>4. ~ Expired(h, Id(e), e.at)
    <3> SUFFICES ASSUME Expired(h, Id(e), e.at) PROVE FALSE
      OBVIOUS
    <3>1. PICK j \in 1 .. Len(h) : Id(h[j]) = Id(e) /\ e.at - h[j].at > Window.forget
      BY DEF Expired
    <3>2. e.at - h[j].at \in Ages(g) /\ h[j].at \in Nat /\ Window.forget \in Nat
      BY <1>5, <1>6, <3>1, DetectorAssumption
    <3>3. ~ (e.at - h[j].at <= Window.forget)
      BY <1>1, <3>1, <3>2
    <3>4. Cardinality(Ids(h)) > MaxKeys /\ MaxKeys \in Nat
      BY DetectorAssumption DEF Expired
    <3>5. /\ Cardinality(Ids(h)) \in Nat /\ Cardinality(Ids(g)) \in Nat
          /\ Cardinality(Ids(h)) <= Cardinality(Ids(g))
      BY MoreHeard
    <3>6. ~ (Cardinality(Ids(g)) <= MaxKeys)
      BY <3>4, <3>5
    <3> QED BY <1>8, <3>2, <3>3, <3>6
  <2>5. Id(e) \in DOMAIN b.pktFirstSeen /\ b.pktFirstSeen[Id(e)] <= h[i].at
    BY <2>1, <2>2, <2>3, <2>4 DEF SightingsOK
  <2>6. b.pktFirstSeen[Id(e)] \in Nat
    BY <2>5, HeardIsId DEF SightingsOK
  <2>7. e.at - b.pktFirstSeen[Id(e)] >= Window.reuse
    BY <1>1, <1>5, <1>8, <2>1, <2>2, <2>5, <2>6
  <2> QED BY <1>8, <2>5, <2>7 DEF Reuses
<1> QED BY <1>2, <1>3, <1>7, <1>8 DEF FiresOK

----------------------------------------------------------------------------
LEMMA InitInv == Init => Inv
<1> SUFFICES ASSUME Init PROVE Inv
  OBVIOUS
<1>1. heard = <<>> /\ heard \in Seq(Events) /\ Len(heard) = 0 /\ clock = 0 /\ anom = Fresh
  BY DEF Init
<1>2. DOMAIN anom = AnomFields
  BY <1>1 DEF Fresh, AnomFields
<1>3. anom.ring = <<>> /\ anom.flagged = <<>> /\ anom.pktFirstSeen = <<>> /\ anom.pktDup = <<>>
  BY <1>1 DEF Fresh
<1>4. RingOK(anom)
  BY <1>3, DetectorAssumption DEF RingOK
<1>5. HeardOK(heard, clock) /\ SightingsOK(anom.pktFirstSeen, heard, clock)
  BY <1>1, <1>3 DEF HeardOK, SightingsOK
<1>6. TimesOK(anom.pktDup, heard)
  BY <1>3 DEF TimesOK
<1>7. ReuseFires
  BY <1>1 DEF ReuseFires
<1> QED BY <1>1, <1>2, <1>4, <1>5, <1>6, <1>7 DEF Inv

LEMMA ReceiveInv ==
  ASSUME Inv, NEW p \in Packets, Receive(p)
  PROVE  Inv'
<1>0. /\ clock \in Nat /\ clock' = clock /\ DOMAIN anom = AnomFields /\ heard \in Seq(Events)
      /\ HeardOK(heard, clock) /\ RingOK(anom) /\ SightingsOK(anom.pktFirstSeen, heard, clock)
      /\ TimesOK(anom.pktDup, heard)
  BY DEF Inv, HeardOK, Receive
<1>1. PICK e : e = Over([at |-> clock], p)
  OBVIOUS
<1>2. e \in Events /\ EventFact(e) /\ e.at = clock
  BY <1>0, <1>1, StampIs
<1>3. PICK seen : seen = Observe(anom, e)
  OBVIOUS
<1>4. PICK v : v = Verdicts(anom, seen, e)
  OBVIOUS
<1>5. anom' = Flag(seen, v, clock) /\ fired' = Calls(v) /\ heard' = Append(heard, e)
  BY <1>1, <1>3, <1>4 DEF Receive
<1>6. /\ DOMAIN seen = AnomFields /\ seen.ring = anom.ring /\ seen.flagged = anom.flagged
      /\ seen.pktFirstSeen = Sighted(anom.pktFirstSeen, e) /\ seen.pktDup = Timed(anom.pktDup, e)
  <2>1. Observed(seen, anom, e)
    BY <1>0, <1>3, ObserveIs
  <2> QED BY <2>1 DEF Observed
<1>7. RingOK(seen)
  BY <1>0, <1>6 DEF RingOK
<1>8. Len(v) = 12 /\ \A i \in 1 .. 12 : Call(v[i]) \in Anomaly
  BY <1>2, <1>4, VerdictsAre
<1>9. Kept(seen, anom', {"flagged", "ring"}) /\ RingOK(anom')
  <2>1. PICK t \in Nat : t = clock
    BY <1>0
  <2>2. Len(v) \in Nat /\ \A i \in 1 .. Len(v) : Call(v[i]) \in Anomaly
    BY <1>8
  <2>3. Kept(seen, Flag(seen, v, t), {"flagged", "ring"}) /\ RingOK(Flag(seen, v, t))
    BY <1>6, <1>7, <2>2, FlagAll
  <2> QED BY <1>5, <2>1, <2>3
<1>10. /\ DOMAIN anom' = AnomFields
       /\ anom'.pktFirstSeen = Sighted(anom.pktFirstSeen, e) /\ anom'.pktDup = Timed(anom.pktDup, e)
  BY <1>6, <1>9 DEF Kept, AnomFields
<1>11. PICK g : g = Append(heard, e)
  OBVIOUS
<1>12. g \in Seq(Events) /\ Last(g) = e /\ g[Len(heard) + 1] = e /\ \A i \in 1 .. Len(heard) : g[i] = heard[i]
  <2>1. Last(g) = e /\ g \in Seq(Events)
    BY <1>0, <1>2, <1>11, MoreHeard
  <2>2. g[Len(heard) + 1] = e
    BY <1>0, <1>2, <1>11, MoreHeard
  <2>3. \A i \in 1 .. Len(heard) : g[i] = heard[i]
    BY <1>0, <1>2, <1>11, MoreHeard
  <2> QED BY <2>1, <2>2, <2>3
<1>13. \A i \in 1 .. Len(g) : i \in 1 .. Len(heard) \/ i = Len(heard) + 1
  BY <1>0, <1>2, <1>11, MoreHeard
<1>14. HeardOK(g, clock)
  BY <1>0, <1>2, <1>12, <1>13 DEF HeardOK
<1>15. /\ SightingsOK(anom'.pktFirstSeen, g, clock)
       /\ e.id # 0 => \/ Cardinality(DOMAIN anom'.pktFirstSeen) <= MaxKeys
                      \/ \A k \in DOMAIN anom'.pktFirstSeen :
                           e.at - anom'.pktFirstSeen[k] <= Window.forget
  <2>1. PICK first, new : first = anom.pktFirstSeen /\ new = Sighted(first, e)
    OBVIOUS
  <2>2. HeardOK(heard, e.at) /\ SightingsOK(first, heard, e.at)
    BY <1>0, <1>2, <2>1
  <2>3. /\ SightingsOK(new, g, e.at)
        /\ e.id # 0 => \/ Cardinality(DOMAIN new) <= MaxKeys
                       \/ \A k \in DOMAIN new : e.at - new[k] <= Window.forget
    BY <1>0, <1>2, <1>11, <2>1, <2>2, SightingsStep
  <2> QED BY <1>2, <1>10, <2>1, <2>3
<1>16. /\ TimesOK(anom'.pktDup, g)
       /\ e.id # 0 => \/ Cardinality(DOMAIN anom'.pktDup) <= MaxKeys
                      \/ \A k \in DOMAIN anom'.pktDup :
                           e.at - Last(anom'.pktDup[k]) <= Window.minute
  <2>1. PICK dup, new : dup = anom.pktDup /\ new = Timed(dup, e)
    OBVIOUS
  <2>2. /\ TimesOK(new, g)
        /\ e.id # 0 => \/ Cardinality(DOMAIN new) <= MaxKeys
                       \/ \A k \in DOMAIN new : e.at - Last(new[k]) <= Window.minute
    BY <1>0, <1>2, <1>11, <2>1, TimesStep
  <2> QED BY <1>10, <2>1, <2>2
<1>17. e.id # 0 => Thinned(anom', e)
  BY <1>15, <1>16 DEF Thinned
<1>18. FiresOK(g, fired')
  BY <1>0, <1>2, <1>4, <1>5, <1>11, FiresStep
<1>19. ReuseFires'
  <2>1. ReuseFact'
    BY ReuseFiresIs, PTL
  <2>2. FiresOK(heard', fired')
    BY <1>5, <1>11, <1>18
  <2> QED BY <2>1, <2>2 DEF ReuseFact
<1> QED BY <1>0, <1>5, <1>9, <1>10, <1>11, <1>12, <1>14, <1>15, <1>16, <1>17, <1>19 DEF Inv

LEMMA TickInv ==
  ASSUME Inv, Tick
  PROVE  Inv'
<1>1. clock \in Nat /\ clock' = clock + 1 /\ anom' = anom /\ fired' = fired /\ heard' = heard
  BY DEF Inv, Tick
<1>2. /\ heard \in Seq(Events) /\ HeardOK(heard, clock)
      /\ SightingsOK(anom.pktFirstSeen, heard, clock)
  BY DEF Inv, HeardOK
<1>3. clock' \in Nat /\ clock <= clock'
  BY <1>1
<1>4. HeardOK(heard, clock')
  <2> SUFFICES ASSUME NEW i \in 1 .. Len(heard) PROVE heard[i].at <= clock'
    BY <1>2 DEF HeardOK
  <2>1. heard[i] \in Events
    BY <1>2
  <2>2. heard[i].at \in Nat /\ heard[i].at <= clock
    BY <1>2, <2>1, EventsAre DEF EventFact, HeardOK
  <2> QED BY <1>1, <2>2
<1>5. ASSUME NEW k, Expired(heard, k, clock) PROVE Expired(heard, k, clock')
  <2>1. PICK i \in 1 .. Len(heard) : heard[i].id # 0 /\ Id(heard[i]) = k /\ clock - heard[i].at > Window.forget
    BY <1>5 DEF Expired
  <2>2. heard[i] \in Events
    BY <1>2
  <2>3. PICK u \in Nat : u = clock'
    BY <1>3
  <2>4. Expired(heard, k, u)
    BY <1>1, <1>2, <1>3, <1>5, <2>2, <2>3, ExpiredStays
  <2> QED BY <2>3, <2>4
<1>6. SightingsOK(anom.pktFirstSeen, heard, clock')
  BY <1>2, <1>5 DEF SightingsOK
<1>7. ReuseFires'
  BY <1>1 DEF Inv, ReuseFires, Same
<1> QED BY <1>1, <1>3, <1>4, <1>6, <1>7 DEF Inv

LEMMA RestartInv ==
  ASSUME Inv, Restart
  PROVE  Inv'
<1>1. clock \in Nat /\ clock' = clock /\ heard' = <<>> /\ anom' = [Fresh EXCEPT !.known = anom.known]
  BY DEF Inv, Restart
<1>2. DOMAIN anom' = AnomFields
  BY <1>1 DEF Fresh, AnomFields
<1>3. anom'.ring = <<>> /\ anom'.flagged = <<>> /\ anom'.pktFirstSeen = <<>> /\ anom'.pktDup = <<>>
  BY <1>1 DEF Fresh
<1>4. RingOK(anom')
  BY <1>3, DetectorAssumption DEF RingOK
<1>5. HeardOK(heard', clock') /\ SightingsOK(anom'.pktFirstSeen, heard', clock')
  BY <1>1, <1>3 DEF HeardOK, SightingsOK
<1>6. TimesOK(anom'.pktDup, heard')
  BY <1>3 DEF TimesOK
<1>7. ReuseFires'
  BY <1>1 DEF ReuseFires
<1> QED BY <1>1, <1>2, <1>4, <1>5, <1>6, <1>7 DEF Inv

(* The list, the packets heard and the memory for packet ids agree always:  *)
(* every entry was flagged no later than its anomaly last was, every first  *)
(* sighting is the earliest that has not expired, and once a packet with an *)
(* id has been handled, a memory past its limit holds nothing old.          *)
THEOREM Invariant == Spec => []Inv
<1>1. Inv /\ [Next]_vars => Inv'
  <2> SUFFICES ASSUME Inv, [Next]_vars PROVE Inv'
    OBVIOUS
  <2>1. CASE \E p \in Packets : Receive(p)
    BY <2>1, ReceiveInv
  <2>2. CASE Tick
    BY <2>2, TickInv
  <2>3. CASE Restart
    BY <2>3, RestartInv
  <2>4. CASE UNCHANGED vars
    BY <2>4 DEF vars, Inv, ReuseFires, Same
  <2> QED BY <2>1, <2>2, <2>3, <2>4 DEF Next
<1> QED BY <1>1, InitInv, PTL DEF Spec

(* The anomaly list holds the same anomaly at most once per its window and  *)
(* never grows past the ring (anomalies.go:33-34, 304-318).                 *)
THEOREM ListCorrect == Spec => []RateLimited
<1>1. Inv => RateLimited
  <2> SUFFICES ASSUME RingOK(anom) PROVE RateLimited
    BY DEF Inv
  <2>1. DOMAIN anom.ring = 1 .. Len(anom.ring)
    BY DEF RingOK
  <2>2. Len(anom.ring) <= RingSize
    BY DEF RingOK
  <2>3. ASSUME NEW i \in DOMAIN anom.ring, NEW j \in DOMAIN anom.ring,
               i < j, anom.ring[i].what = anom.ring[j].what
        PROVE  anom.ring[j].at - anom.ring[i].at >= Dedup[anom.ring[i].what.type]
    BY <2>1, <2>3 DEF RingOK
  <2> QED BY <2>2, <2>3 DEF RateLimited
<1> QED BY <1>1, Invariant, PTL

(* A reused packet id is called for exactly when its first sighting is old  *)
(* enough and not so old that it had to be collected, and the collections   *)
(* keep nothing that is older than their window (anomalies.go:558-596).     *)
THEOREM ReuseCorrect == Spec => []ReuseIsExact
<1>1. Inv => MemoryIsRecent
  <2> SUFFICES ASSUME Inv, heard # <<>>, Last(heard).id # 0
               PROVE  /\ \/ Cardinality(DOMAIN anom.pktFirstSeen) <= MaxKeys
                         \/ \A k \in DOMAIN anom.pktFirstSeen : \E i \in DOMAIN heard :
                              Id(heard[i]) = k /\ Last(heard).at - heard[i].at <= Window.forget
                      /\ \/ Cardinality(DOMAIN anom.pktDup) <= MaxKeys
                         \/ \A k \in DOMAIN anom.pktDup : \E i \in DOMAIN heard :
                              Id(heard[i]) = k /\ Last(heard).at - heard[i].at <= Window.minute
    BY DEF MemoryIsRecent
  <2>1. Thinned(anom, Last(heard)) /\ DOMAIN heard = 1 .. Len(heard)
    BY DEF Inv, HeardOK
  <2>2. \A k \in DOMAIN anom.pktFirstSeen : \E i \in DOMAIN heard :
          Id(heard[i]) = k /\ heard[i].at = anom.pktFirstSeen[k]
    BY <2>1 DEF Inv, SightingsOK, HeardAt
  <2>3. \A k \in DOMAIN anom.pktDup : \E i \in DOMAIN heard :
          Id(heard[i]) = k /\ heard[i].at = Last(anom.pktDup[k])
    BY <2>1 DEF Inv, TimesOK, HeardAt
  <2> QED BY <2>1, <2>2, <2>3 DEF Thinned
<1>2. Inv => ReuseIsExact
  BY <1>1 DEF Inv, ReuseIsExact
<1> QED BY <1>2, Invariant, PTL

----------------------------------------------------------------------------
(* What the detectors remember of the packets heard.                        *)
Senders == {p.from : p \in Packets}
AllIds  == {Id(p) : p \in Packets}
AllEnds == {Ends(p) : p \in Packets}
Ways    == {"radio", "mqtt"}

By(h, f)         == {i \in 1 .. Len(h) : h[i].from = f}
WithId(h, k)     == {i \in 1 .. Len(h) : h[i].id # 0 /\ Id(h[i]) = k}
OverWay(h, f, w) == {i \in 1 .. Len(h) : h[i].from = f /\ h[i].mqtt = (w = "mqtt")}
Secret(h)        == {i \in 1 .. Len(h) : h[i].encrypted}
Between(h, k)    == {i \in 1 .. Len(h) : Unicast(h[i]) /\ Ends(h[i]) = k}

(* The last packet of f with a value in field x.                            *)
LastWith(h, f, x) ==
  {i \in 1 .. Len(h) : /\ h[i].from = f /\ h[i][x] # 0
                       /\ \A j \in i + 1 .. Len(h) : h[j].from # f \/ h[j][x] = 0}

(* ts has the times of the packets K, in order.                             *)
Lists(ts, K, h) ==
  /\ ts \in Seq(Nat)
  /\ \A i, j \in 1 .. Len(ts) : i < j => ts[i] <= ts[j]
  /\ \E f \in Bijection(1 .. Len(ts), K) : \A i \in 1 .. Len(ts) : ts[i] = h[f[i]].at

(* ts has the times of the packets S, but for some older than the window w. *)
Holds(ts, S, h, now, w) ==
  \E K \in SUBSET S : Lists(ts, K, h) /\ \A i \in S \ K : now - h[i].at > w

(* m has every sender's last value of field x.                              *)
ValuesOK(m, x, h) ==
  \A f \in Senders :
    /\ f \in DOMAIN m <=> LastWith(h, f, x) # {}
    /\ \A i \in LastWith(h, f, x) : m[f][x] = h[i][x] /\ m[f].at = h[i].at

(* A channel is dated by its last use, or was last used before the hour.    *)
ChannelsOK(used, h, f, now) ==
  /\ \A c \in DOMAIN used : \E i \in By(h, f) : h[i].channel = c /\ h[i].at = used[c]
  /\ \A i \in By(h, f) : \/ h[i].channel \in DOMAIN used /\ h[i].at <= used[h[i].channel]
                         \/ now - h[i].at > Window.hour

(* A conversation has the packets of its two ends, and began with the       *)
(* oldest of them.                                                          *)
Conversation(p, T, h) ==
  /\ DOMAIN p = {"count", "first", "tx"}
  /\ p.count = Cardinality(T)
  /\ \E i \in T : p.first = h[i].at
  /\ \A i \in T : p.first <= h[i].at
  /\ DOMAIN p.tx = {h[i].from : i \in T}
  /\ \A n \in DOMAIN p.tx : p.tx[n] = Cardinality({i \in T : h[i].from = n})

PairsOK(m, h) ==
  \A k \in AllEnds :
    /\ k \in DOMAIN m <=> Between(h, k) # {}
    /\ k \in DOMAIN m => Conversation(m[k], Between(h, k), h)

Unheard == [radio |-> <<>>, mqtt |-> <<>>]

MemoryOK(a, h, now) ==
  /\ \A f \in Senders : Holds(At(a.pktTimes, f, <<>>), By(h, f), h, now, Window.minute)
  /\ \A k \in AllIds : Holds(At(a.pktDup, k, <<>>), WithId(h, k), h, now, Window.minute)
  /\ \A f \in Senders, w \in Ways :
       Holds(At(a.mqttSeen, f, Unheard)[w], OverWay(h, f, w), h, now, Window.minute)
  /\ Holds(a.totalSeen, 1 .. Len(h), h, now, Window.hour)
  /\ Holds(a.encryptedSeen, Secret(h), h, now, Window.hour)
  /\ ValuesOK(a.lastSNR, "snr", h)
  /\ ValuesOK(a.lastPos, "pos", h)
  /\ \A f \in Senders : ChannelsOK(At(a.nodeChannels, f, <<>>), h, f, now)
  /\ PairsOK(a.pairs, h)

DetInv == MemoryOK(anom, heard, clock)

(* What trimming leaves.                                                    *)
Trimmed(r, q, c) ==
  \E d \in 0 .. Len(q) :
    /\ \A i \in 1 .. d : q[i] < c
    /\ d < Len(q) => q[d + 1] >= c
    /\ r \in Seq(Nat) /\ Len(r) = Len(q) - d
    /\ \A i \in 1 .. Len(r) : r[i] = q[i + d]

LEMMA TrimIs ==
  ASSUME NEW q \in Seq(Nat), NEW c \in Int
  PROVE  Trimmed(trimBefore(q, c), q, c)
<1>0. PICK r : r = trimBefore(q, c)
  OBVIOUS
<1>1. Len(q) \in Nat /\ \A i \in 1 .. Len(q) : q[i] \in Nat
  OBVIOUS
<1> DEFINE Cut(j) == (\A i \in 1 .. j : q[i] < c) /\ (j < Len(q) => q[j + 1] >= c)
<1>2. \E j \in 0 .. Len(q) : Cut(j)
  <2> DEFINE Late == {i \in 1 .. Len(q) : q[i] >= c}
  <2>1. CASE Late = {}
    <3>1. Len(q) \in 0 .. Len(q) /\ ~ (Len(q) < Len(q))
      BY <1>1
    <3>2. \A i \in 1 .. Len(q) : q[i] < c
      <4> SUFFICES ASSUME NEW i \in 1 .. Len(q) PROVE q[i] < c
        OBVIOUS
      <4>1. i \notin Late
        BY <2>1
      <4> QED BY <1>1, <4>1
    <3> QED BY <3>1, <3>2
  <2>2. CASE Late # {}
    <3>1. Late \subseteq Nat
      OBVIOUS
    <3>2. PICK i \in Late : \A j \in Late : i <= j
      BY <2>2, <3>1, LeastElement
    <3>3. i \in 1 .. Len(q) /\ q[i] >= c
      OBVIOUS
    <3>4. i - 1 \in 0 .. Len(q) /\ (i - 1) + 1 = i
      BY <1>1, <3>3
    <3>5. ASSUME NEW n \in 1 .. i - 1 PROVE q[n] < c
      <4>1. n \in 1 .. Len(q) /\ n \notin Late
        BY <1>1, <3>2, <3>3
      <4> QED BY <1>1, <4>1
    <3> QED BY <3>3, <3>4, <3>5
  <2> QED BY <2>1, <2>2
<1> DEFINE d == CHOOSE j \in 0 .. Len(q) : Cut(j)
<1>3. d \in 0 .. Len(q) /\ Cut(d)
  BY <1>2
<1>4. r = SubSeq(q, d + 1, Len(q))
  BY <1>0 DEF trimBefore
<1> HIDE DEF d
<1>5. r \in Seq(Nat) /\ Len(r) = Len(q) - d
  BY <1>1, <1>3, <1>4
<1>6. ASSUME NEW i \in 1 .. Len(r) PROVE r[i] = q[i + d]
  <2>1. PICK n \in Nat : n = d + 1
    BY <1>1, <1>3
  <2>2. i \in 1 .. Len(q) - n + 1 /\ n \in 1 .. Len(q)
    BY <1>1, <1>3, <1>5, <2>1
  <2>3. r[i] = q[n + i - 1]
    BY <1>1, <1>4, <2>1, <2>2
  <2>4. n + i - 1 = i + d
    BY <1>3, <2>1
  <2> QED BY <2>3, <2>4
<1>7. Trimmed(r, q, c)
  BY <1>3, <1>5, <1>6 DEF Trimmed
<1> QED BY <1>0, <1>7

LEMMA ListsSame ==
  ASSUME NEW ts, NEW K, NEW h, NEW g, Lists(ts, K, h), \A k \in K : g[k] = h[k]
  PROVE  Lists(ts, K, g)
<1>1. PICK f \in Bijection(1 .. Len(ts), K) : \A i \in 1 .. Len(ts) : ts[i] = h[f[i]].at
  BY DEF Lists
<1>2. \A i \in 1 .. Len(ts) : f[i] \in K
  BY DEF Bijection, Injection
<1>3. \A i \in 1 .. Len(ts) : ts[i] = g[f[i]].at
  BY <1>1, <1>2
<1> QED BY <1>3 DEF Lists

LEMMA ListsCount ==
  ASSUME NEW ts, NEW K, NEW h, Lists(ts, K, h)
  PROVE  Len(ts) \in Nat /\ IsFiniteSet(K) /\ Cardinality(K) = Len(ts)
<1>1. PICK n \in Nat : n = Len(ts)
  BY DEF Lists
<1>2. ExistsBijection(1 .. n, K)
  BY <1>1 DEF Lists, ExistsBijection
<1>3. IsFiniteSet(K)
  BY <1>2, FS_NatBijection
<1>4. Cardinality(K) = n
  BY <1>2, FS_CountingElements
<1> QED BY <1>1, <1>3, <1>4

LEMMA ListsTrim ==
  ASSUME NEW ts, NEW K, NEW h, NEW c \in Int, Lists(ts, K, h), NEW L, L = {k \in K : h[k].at >= c}
  PROVE  Lists(trimBefore(ts, c), L, h)
<1>1. ts \in Seq(Nat) /\ \A i, j \in 1 .. Len(ts) : i < j => ts[i] <= ts[j]
  BY DEF Lists
<1>2. PICK f \in Bijection(1 .. Len(ts), K) : \A i \in 1 .. Len(ts) : ts[i] = h[f[i]].at
  BY DEF Lists
<1>3. /\ \A i \in 1 .. Len(ts) : f[i] \in K
      /\ \A i, j \in 1 .. Len(ts) : f[i] = f[j] => i = j
      /\ \A k \in K : \E i \in 1 .. Len(ts) : f[i] = k
  BY DEF Bijection, Injection, Surjection, IsInjective
<1>4. PICK r : r = trimBefore(ts, c) /\ Trimmed(r, ts, c)
  <2>1. Trimmed(trimBefore(ts, c), ts, c)
    BY <1>1, TrimIs
  <2> QED BY <2>1
<1>5. PICK d \in 0 .. Len(ts) :
        /\ \A i \in 1 .. d : ts[i] < c
        /\ d < Len(ts) => ts[d + 1] >= c
        /\ r \in Seq(Nat) /\ Len(r) = Len(ts) - d
        /\ \A i \in 1 .. Len(r) : r[i] = ts[i + d]
  BY <1>4 DEF Trimmed
<1>6. PICK m \in Nat, n \in Nat : m = Len(ts) /\ n = Len(r)
  BY <1>1, <1>5
<1>7. d \in Nat /\ d <= m /\ n = m - d /\ \A i \in 1 .. m : ts[i] \in Nat
  BY <1>1, <1>5, <1>6
<1>8. \A i \in 1 .. n : i + d \in 1 .. m /\ r[i] = ts[i + d]
  BY <1>5, <1>6, <1>7
<1>9. \A i, j \in 1 .. n : i < j => r[i] <= r[j]
  BY <1>1, <1>6, <1>7, <1>8
<1> DEFINE s == [i \in 1 .. n |-> f[i + d]]
<1>10. \A i \in 1 .. n : s[i] \in L /\ r[i] = h[s[i]].at
  <2> SUFFICES ASSUME NEW i \in 1 .. n PROVE s[i] \in L /\ r[i] = h[s[i]].at
    OBVIOUS
  <2>1. i + d \in 1 .. m /\ s[i] = f[i + d] /\ s[i] \in K /\ r[i] = h[s[i]].at /\ r[i] = ts[i + d]
    BY <1>2, <1>3, <1>6, <1>8
  <2>2. d < m /\ d + 1 \in 1 .. m /\ d + 1 <= i + d
    BY <1>7
  <2>3. ts[d + 1] >= c /\ ts[d + 1] <= ts[i + d]
    <3>1. ts[d + 1] >= c
      BY <1>5, <1>6, <2>2
    <3>2. d + 1 = i + d \/ d + 1 < i + d
      BY <1>7, <2>2
    <3>3. ts[d + 1] <= ts[i + d]
      BY <1>1, <1>6, <1>7, <2>1, <2>2, <3>2
    <3> QED BY <3>1, <3>3
  <2>4. r[i] >= c
    BY <1>7, <2>1, <2>2, <2>3
  <2> QED BY <2>1, <2>4
<1>11. \A i, j \in 1 .. n : s[i] = s[j] => i = j
  <2> SUFFICES ASSUME NEW i \in 1 .. n, NEW j \in 1 .. n, s[i] = s[j] PROVE i = j
    OBVIOUS
  <2>1. f[i + d] = f[j + d] /\ i + d \in 1 .. m /\ j + d \in 1 .. m
    BY <1>8
  <2>2. i + d = j + d
    BY <1>3, <1>6, <2>1
  <2> QED BY <1>7, <2>2
<1>12. \A k \in L : \E i \in 1 .. n : s[i] = k
  <2> SUFFICES ASSUME NEW k \in L PROVE \E i \in 1 .. n : s[i] = k
    OBVIOUS
  <2>1. k \in K /\ h[k].at >= c
    OBVIOUS
  <2>2. PICK j \in 1 .. m : f[j] = k
    BY <1>3, <1>6, <2>1
  <2>3. ts[j] >= c /\ ts[j] \in Nat
    BY <1>2, <1>6, <1>7, <2>1, <2>2
  <2>4. ~ (j \in 1 .. d)
    BY <1>5, <2>3
  <2>5. j - d \in 1 .. n /\ (j - d) + d = j
    BY <1>7, <2>4
  <2> QED BY <2>2, <2>5
<1> HIDE DEF s
<1>13. s \in Bijection(1 .. n, L)
  <2>1. s \in [1 .. n -> L]
    BY <1>10 DEF s
  <2> QED BY <1>11, <1>12, <2>1 DEF Bijection, Injection, Surjection, IsInjective
<1>14. Lists(r, L, h)
  BY <1>5, <1>6, <1>9, <1>10, <1>13 DEF Lists
<1> QED BY <1>4, <1>14

LEMMA ListsMore ==
  ASSUME NEW h \in Seq(Events), NEW e \in Events, HeardOK(h, e.at), NEW g, g = Append(h, e),
         NEW K \in SUBSET (1 .. Len(h)), NEW ts, Lists(ts, K, h)
  PROVE  Lists(Append(ts, e.at), K \cup {Len(h) + 1}, g)
<1>1. ts \in Seq(Nat) /\ \A i, j \in 1 .. Len(ts) : i < j => ts[i] <= ts[j]
  BY DEF Lists
<1>2. PICK f \in Bijection(1 .. Len(ts), K) : \A i \in 1 .. Len(ts) : ts[i] = h[f[i]].at
  BY DEF Lists
<1>3. /\ \A i \in 1 .. Len(ts) : f[i] \in K
      /\ \A i, j \in 1 .. Len(ts) : f[i] = f[j] => i = j
      /\ \A k \in K : \E i \in 1 .. Len(ts) : f[i] = k
  BY DEF Bijection, Injection, Surjection, IsInjective
<1>4. PICK t \in Nat : t = e.at
  BY EventsAre DEF EventFact
<1>5. PICK m \in Nat, n \in Nat : m = Len(ts) /\ n = Len(h)
  BY <1>1
<1>6. PICK r : r = Append(ts, t)
  OBVIOUS
<1>7. /\ r \in Seq(Nat) /\ Len(r) = m + 1 /\ r[m + 1] = t
      /\ \A i \in 1 .. m : r[i] = ts[i] /\ ts[i] \in Nat
  BY <1>1, <1>5, <1>6
<1>8. \A i \in 1 .. m : ts[i] <= t /\ f[i] \in 1 .. n
  <2> SUFFICES ASSUME NEW i \in 1 .. m PROVE ts[i] <= t /\ f[i] \in 1 .. n
    OBVIOUS
  <2>1. f[i] \in K /\ ts[i] = h[f[i]].at
    BY <1>2, <1>3, <1>5
  <2>2. f[i] \in 1 .. Len(h)
    BY <2>1
  <2> QED BY <1>4, <1>5, <2>1, <2>2 DEF HeardOK
<1>9. \A i, j \in 1 .. m + 1 : i < j => r[i] <= r[j]
  <2> SUFFICES ASSUME NEW i \in 1 .. m + 1, NEW j \in 1 .. m + 1, i < j PROVE r[i] <= r[j]
    OBVIOUS
  <2>1. i \in 1 .. m /\ (j \in 1 .. m \/ j = m + 1)
    BY <1>5
  <2>2. CASE j \in 1 .. m
    BY <1>1, <1>5, <1>7, <2>1, <2>2
  <2>3. CASE j = m + 1
    BY <1>7, <1>8, <2>1, <2>3
  <2> QED BY <2>1, <2>2, <2>3
<1>10. PICK L : L = K \cup {n + 1}
  OBVIOUS
<1> DEFINE s == [i \in 1 .. m + 1 |-> IF i = m + 1 THEN n + 1 ELSE f[i]]
<1>11. s[m + 1] = n + 1 /\ \A i \in 1 .. m : s[i] = f[i] /\ s[i] # n + 1
  BY <1>5, <1>8
<1>12. \A i \in 1 .. m + 1 : i \in 1 .. m \/ i = m + 1
  BY <1>5
<1>13. m + 1 \in 1 .. m + 1 /\ \A i \in 1 .. m : i \in 1 .. m + 1
  BY <1>5
<1> HIDE DEF s
<1>14. \A i \in 1 .. m + 1 : s[i] \in L
  BY <1>3, <1>5, <1>10, <1>11, <1>12
<1>15. \A i, j \in 1 .. m + 1 : s[i] = s[j] => i = j
  BY <1>3, <1>5, <1>11, <1>12
<1>16. \A k \in L : \E i \in 1 .. m + 1 : s[i] = k
  BY <1>3, <1>5, <1>10, <1>11, <1>13
<1>17. s \in Bijection(1 .. m + 1, L)
  <2>1. s \in [1 .. m + 1 -> L]
    BY <1>14 DEF s
  <2> QED BY <1>15, <1>16, <2>1 DEF Bijection, Injection, Surjection, IsInjective
<1>18. g[n + 1] = e /\ \A i \in 1 .. n : g[i] = h[i]
  BY <1>5
<1>19. \A i \in 1 .. m + 1 : r[i] = g[s[i]].at
  <2> SUFFICES ASSUME NEW i \in 1 .. m + 1 PROVE r[i] = g[s[i]].at
    OBVIOUS
  <2>1. CASE i \in 1 .. m
    <3>1. r[i] = ts[i] /\ s[i] = f[i] /\ f[i] \in 1 .. n
      BY <1>7, <1>8, <1>11, <2>1
    <3> QED BY <1>2, <1>5, <1>18, <2>1, <3>1
  <2>2. CASE i = m + 1
    BY <1>4, <1>7, <1>11, <1>18, <2>2
  <2> QED BY <1>12, <2>1, <2>2
<1>20. Lists(r, L, g)
  BY <1>7, <1>9, <1>17, <1>19 DEF Lists
<1> QED BY <1>4, <1>5, <1>6, <1>10, <1>20

(* The packets of S that are not older than w.                              *)
Recently(S, h, now, w) == {i \in S : now - h[i].at <= w}
Exactly(ts, S, h, now, w) == Lists(ts, Recently(S, h, now, w), h)

LEMMA AtNat ==
  ASSUME NEW h \in Seq(Events), NEW i \in 1 .. Len(h)
  PROVE  h[i].at \in Nat /\ EventFact(h[i])
<1>1. h[i] \in Events
  OBVIOUS
<1> QED BY <1>1, EventsAre DEF EventFact

LEMMA ExactlyHolds ==
  ASSUME NEW h \in Seq(Events), NEW S \in SUBSET (1 .. Len(h)), NEW now \in Nat, NEW w \in Nat, NEW ts,
         Exactly(ts, S, h, now, w)
  PROVE  Holds(ts, S, h, now, w) /\ Len(ts) = Cardinality(Recently(S, h, now, w))
<1>1. PICK K : K = Recently(S, h, now, w)
  OBVIOUS
<1>2. Lists(ts, K, h)
  BY <1>1 DEF Exactly
<1>3. K \in SUBSET S
  BY <1>1 DEF Recently
<1>4. \A i \in S \ K : now - h[i].at > w
  <2> SUFFICES ASSUME NEW i \in S, i \notin K PROVE now - h[i].at > w
    OBVIOUS
  <2>1. i \in 1 .. Len(h)
    OBVIOUS
  <2>2. h[i].at \in Nat
    BY <2>1, AtNat
  <2>3. ~ (now - h[i].at <= w)
    BY <1>1 DEF Recently
  <2> QED BY <2>2, <2>3
<1>5. Cardinality(K) = Len(ts)
  BY <1>2, ListsCount
<1> QED BY <1>1, <1>2, <1>3, <1>4, <1>5 DEF Holds

LEMMA HoldsTrim ==
  ASSUME NEW h \in Seq(Events), NEW S \in SUBSET (1 .. Len(h)), NEW now \in Nat, NEW w \in Nat, NEW ts,
         Holds(ts, S, h, now, w)
  PROVE  Exactly(trimBefore(ts, now - w), S, h, now, w)
<1>1. PICK K \in SUBSET S : Lists(ts, K, h) /\ \A i \in S \ K : now - h[i].at > w
  BY DEF Holds
<1>2. PICK c \in Int : c = now - w
  OBVIOUS
<1>3. \A i \in S : h[i].at \in Nat
  BY AtNat
<1>4. PICK L : L = {k \in K : h[k].at >= c}
  OBVIOUS
<1>5. Lists(trimBefore(ts, c), L, h)
  BY <1>1, <1>4, ListsTrim
<1>6. L = Recently(S, h, now, w)
  <2>1. \A i \in S : h[i].at >= c <=> now - h[i].at <= w
    BY <1>2, <1>3
  <2>2. ASSUME NEW i \in L PROVE i \in Recently(S, h, now, w)
    <3>1. i \in S /\ h[i].at >= c
      BY <1>1, <1>4
    <3> QED BY <2>1, <3>1 DEF Recently
  <2>3. ASSUME NEW i \in Recently(S, h, now, w) PROVE i \in L
    <3>1. i \in S /\ now - h[i].at <= w
      BY DEF Recently
    <3>2. i \in K
      BY <1>1, <1>3, <3>1
    <3> QED BY <1>4, <2>1, <3>1, <3>2
  <2> QED BY <2>2, <2>3
<1> QED BY <1>2, <1>5, <1>6 DEF Exactly

(* A packet of S is heard.                                                  *)
LEMMA HoldsMore ==
  ASSUME NEW h \in Seq(Events), NEW e \in Events, HeardOK(h, e.at), NEW g, g = Append(h, e),
         NEW S \in SUBSET (1 .. Len(h)), NEW w \in Nat, NEW ts, Holds(ts, S, h, e.at, w)
  PROVE  Holds(Append(ts, e.at), S \cup {Len(h) + 1}, g, e.at, w)
<1>1. PICK K \in SUBSET S : Lists(ts, K, h) /\ \A i \in S \ K : e.at - h[i].at > w
  BY DEF Holds
<1>2. PICK n \in Nat : n = Len(h) + 1
  OBVIOUS
<1>3. K \in SUBSET (1 .. Len(h))
  BY <1>1
<1>4. Lists(Append(ts, e.at), K \cup {n}, g)
  BY <1>1, <1>2, <1>3, ListsMore
<1>5. K \cup {n} \in SUBSET (S \cup {n})
  BY <1>1
<1>6. \A i \in (S \cup {n}) \ (K \cup {n}) : e.at - g[i].at > w
  <2> SUFFICES ASSUME NEW i \in S \ K PROVE e.at - g[i].at > w
    OBVIOUS
  <2>1. i \in 1 .. Len(h)
    OBVIOUS
  <2>2. g[i] = h[i]
    BY <2>1
  <2> QED BY <1>1, <2>2
<1> QED BY <1>2, <1>4, <1>5, <1>6 DEF Holds

LEMMA HoldsSame ==
  ASSUME NEW ts, NEW S, NEW h, NEW g, NEW now, NEW w, Holds(ts, S, h, now, w), \A i \in S : g[i] = h[i]
  PROVE  Holds(ts, S, g, now, w)
<1>1. PICK K \in SUBSET S : Lists(ts, K, h) /\ \A i \in S \ K : now - h[i].at > w
  BY DEF Holds
<1>2. Lists(ts, K, g)
  BY <1>1, ListsSame
<1> QED BY <1>1, <1>2 DEF Holds

LEMMA HoldsLater ==
  ASSUME NEW h \in Seq(Events), NEW S \in SUBSET (1 .. Len(h)), NEW now \in Nat, NEW w \in Nat, NEW ts,
         Holds(ts, S, h, now, w), NEW u \in Nat, now <= u
  PROVE  Holds(ts, S, h, u, w)
<1>1. PICK K \in SUBSET S : Lists(ts, K, h) /\ \A i \in S \ K : now - h[i].at > w
  BY DEF Holds
<1>2. \A i \in S : h[i].at \in Nat
  BY AtNat
<1>3. \A i \in S \ K : u - h[i].at > w
  BY <1>1, <1>2
<1> QED BY <1>1, <1>3 DEF Holds

(* Nothing need be kept of times that are all too old.                      *)
LEMMA NothingListed == \A h : Lists(<<>>, {}, h)
<1> SUFFICES ASSUME NEW h PROVE Lists(<<>>, {}, h)
  OBVIOUS
<1>1. PICK s : s = <<>>
  OBVIOUS
<1>2. s \in Seq(Nat) /\ Len(s) = 0 /\ 1 .. 0 = {}
  BY <1>1
<1>3. PICK f : f = [i \in {} |-> 0]
  OBVIOUS
<1>4. f \in Bijection({}, {})
  BY <1>3 DEF Bijection, Injection, Surjection, IsInjective
<1>5. Lists(s, {}, h)
  BY <1>2, <1>4 DEF Lists
<1> QED BY <1>1, <1>5

LEMMA HoldsNothing ==
  ASSUME NEW S, NEW h, NEW now, NEW w, \A i \in S : now - h[i].at > w
  PROVE  Holds(<<>>, S, h, now, w)
<1>1. Lists(<<>>, {}, h)
  BY NothingListed
<1>2. {} \in SUBSET S /\ \A i \in S \ {} : now - h[i].at > w
  OBVIOUS
<1> QED BY <1>1, <1>2 DEF Holds

LEMMA HoldsOld ==
  ASSUME NEW h \in Seq(Events), NEW S \in SUBSET (1 .. Len(h)), NEW now \in Nat, NEW w \in Nat, NEW ts,
         Holds(ts, S, h, now, w), ts # <<>>, Last(ts) < now - w
  PROVE  Holds(<<>>, S, h, now, w)
<1>1. PICK K \in SUBSET S : Lists(ts, K, h) /\ \A i \in S \ K : now - h[i].at > w
  BY DEF Holds
<1>2. ts \in Seq(Nat) /\ \A i, j \in 1 .. Len(ts) : i < j => ts[i] <= ts[j]
  BY <1>1 DEF Lists
<1>3. PICK f \in Bijection(1 .. Len(ts), K) : \A i \in 1 .. Len(ts) : ts[i] = h[f[i]].at
  BY <1>1 DEF Lists
<1>4. \A k \in K : \E i \in 1 .. Len(ts) : f[i] = k
  BY DEF Bijection, Surjection
<1>5. PICK m \in Nat : m = Len(ts) /\ Last(ts) = ts[m] /\ m > 0
  BY <1>2 DEF Last
<1>6. ASSUME NEW i \in 1 .. m PROVE ts[i] < now - w
  <2>1. ts[i] \in Nat /\ ts[m] \in Nat /\ m \in 1 .. m
    BY <1>2, <1>5
  <2>2. i = m \/ i < m
    BY <1>5
  <2>3. ts[i] <= ts[m]
    BY <1>2, <1>5, <2>1, <2>2
  <2> QED BY <1>5, <2>1, <2>3
<1>7. \A i \in S : now - h[i].at > w
  <2> SUFFICES ASSUME NEW i \in S PROVE now - h[i].at > w
    OBVIOUS
  <2>1. CASE i \in K
    <3>1. PICK j \in 1 .. m : f[j] = i
      BY <1>4, <1>5, <2>1
    <3>2. h[i].at < now - w
      BY <1>3, <1>5, <1>6, <3>1
    <3>3. i \in 1 .. Len(h)
      OBVIOUS
    <3>4. h[i].at \in Nat
      BY <3>3, AtNat
    <3> QED BY <3>2, <3>4
  <2> QED BY <1>1, <2>1
<1> QED BY <1>7, HoldsNothing

----------------------------------------------------------------------------
(* One packet more.                                                         *)
Hears(h, e, g) ==
  /\ h \in Seq(Events) /\ e \in Events /\ HeardOK(h, e.at) /\ g = Append(h, e)

LEMMA FieldsAre ==
  ASSUME NEW e, EventFact(e)
  PROVE  /\ e.at \in Nat /\ e.from \in Senders /\ Id(e) \in AllIds /\ Ends(e) \in AllEnds
         /\ e.from # 0 /\ e.snr \in Int /\ e.start \in Nat /\ e.limit \in Nat
         /\ e.mqtt \in BOOLEAN /\ e.encrypted \in BOOLEAN
<1>1. PICK p \in Packets :
        /\ e.from = p.from /\ e.to = p.to /\ e.id = p.id
        /\ e.snr = p.snr /\ e.mqtt = p.mqtt /\ e.encrypted = p.encrypted
        /\ e.start = p.start /\ e.limit = p.limit
  BY DEF EventFact
<1>2. /\ p.from # 0 /\ p.snr \in Int /\ p.start \in Nat /\ p.limit \in Nat
      /\ p.mqtt \in BOOLEAN /\ p.encrypted \in BOOLEAN
  BY DetectorAssumption
<1>3. Id(e) = Id(p) /\ Ends(e) = Ends(p)
  BY <1>1 DEF Id, Ends
<1>4. p.from \in Senders /\ Id(p) \in AllIds /\ Ends(p) \in AllEnds
  BY DEF Senders, AllIds, AllEnds
<1>5. e.at \in Nat
  BY DEF EventFact
<1> QED BY <1>1, <1>2, <1>3, <1>4, <1>5

LEMMA WindowsNat ==
  /\ Window.minute \in Nat /\ Window.hour \in Nat /\ Window.jump \in Nat /\ Window.flood \in Nat
  /\ Limit.skewPercent \in Nat
BY DetectorAssumption

LEMMA HearsIs ==
  ASSUME NEW h, NEW e, NEW g, Hears(h, e, g)
  PROVE  /\ h \in Seq(Events) /\ g \in Seq(Events) /\ Last(g) = e /\ g # <<>>
         /\ Len(h) \in Nat /\ Len(g) = Len(h) + 1
         /\ EventFact(e) /\ e.at \in Nat
         /\ g[Len(h) + 1] = e /\ \A i \in 1 .. Len(h) : g[i] = h[i]
         /\ 1 .. Len(g) = 1 .. Len(h) \cup {Len(h) + 1} /\ DOMAIN g = 1 .. Len(g)
         /\ Len(h) + 1 \notin 1 .. Len(h)
         /\ HeardOK(g, e.at)
<1>1. h \in Seq(Events) /\ e \in Events /\ EventFact(e) /\ e.at \in Nat
  BY EventsAre DEF Hears, EventFact
<1>2. PICK k : k = g
  OBVIOUS
<1>3. k = Append(h, e)
  BY <1>2 DEF Hears
<1>4. k \in Seq(Events) /\ Len(h) \in Nat /\ Len(k) = Len(h) + 1 /\ k # <<>> /\ Last(k) = e
  BY <1>1, <1>3, MoreHeard
<1>5. k[Len(h) + 1] = e /\ \A i \in 1 .. Len(h) : k[i] = h[i]
  BY <1>1, <1>3, MoreHeard
<1>6. 1 .. Len(k) = 1 .. Len(h) \cup {Len(h) + 1} /\ DOMAIN k = 1 .. Len(k) /\ Len(h) + 1 \notin 1 .. Len(h)
  BY <1>4
<1>7. HeardOK(k, e.at)
  <2>1. \A i \in 1 .. Len(h) : h[i].at <= e.at
    BY DEF Hears, HeardOK
  <2>2. e.at <= e.at
    BY <1>1
  <2> QED BY <1>4, <1>5, <1>6, <2>1, <2>2 DEF HeardOK
<1> QED BY <1>1, <1>2, <1>4, <1>5, <1>6, <1>7

LEMMA ByMore ==
  ASSUME NEW h, NEW e, NEW g, Hears(h, e, g)
  PROVE  /\ \A f : e.from = f => By(g, f) = By(h, f) \cup {Len(h) + 1}
         /\ \A f : ~ (e.from = f) => By(g, f) = By(h, f)
         /\ \A f : By(h, f) \in SUBSET (1 .. Len(h)) /\ By(g, f) \in SUBSET (1 .. Len(g))
<1>1. PICK n : n = Len(h) + 1
  OBVIOUS
<1>2. g[n] = e /\ (\A i \in 1 .. Len(h) : g[i] = h[i]) /\ 1 .. Len(g) = 1 .. Len(h) \cup {n}
  BY <1>1, HearsIs
<1>3. \A f : e.from = f => By(g, f) = By(h, f) \cup {n}
  BY <1>2 DEF By
<1>4. \A f : ~ (e.from = f) => By(g, f) = By(h, f)
  BY <1>2 DEF By
<1>5. \A f : By(h, f) \in SUBSET (1 .. Len(h)) /\ By(g, f) \in SUBSET (1 .. Len(g))
  BY DEF By
<1> QED BY <1>1, <1>3, <1>4, <1>5

LEMMA WithIdMore ==
  ASSUME NEW h, NEW e, NEW g, Hears(h, e, g)
  PROVE  /\ \A k : (e.id # 0 /\ Id(e) = k) => WithId(g, k) = WithId(h, k) \cup {Len(h) + 1}
         /\ \A k : ~ ((e.id # 0 /\ Id(e) = k)) => WithId(g, k) = WithId(h, k)
         /\ \A k : WithId(h, k) \in SUBSET (1 .. Len(h)) /\ WithId(g, k) \in SUBSET (1 .. Len(g))
<1>1. PICK n : n = Len(h) + 1
  OBVIOUS
<1>2. g[n] = e /\ (\A i \in 1 .. Len(h) : g[i] = h[i]) /\ 1 .. Len(g) = 1 .. Len(h) \cup {n}
  BY <1>1, HearsIs
<1>3. \A k : (e.id # 0 /\ Id(e) = k) => WithId(g, k) = WithId(h, k) \cup {n}
  BY <1>2 DEF WithId
<1>4. \A k : ~ ((e.id # 0 /\ Id(e) = k)) => WithId(g, k) = WithId(h, k)
  BY <1>2 DEF WithId
<1>5. \A k : WithId(h, k) \in SUBSET (1 .. Len(h)) /\ WithId(g, k) \in SUBSET (1 .. Len(g))
  BY DEF WithId
<1> QED BY <1>1, <1>3, <1>4, <1>5

LEMMA OverWayMore ==
  ASSUME NEW h, NEW e, NEW g, Hears(h, e, g)
  PROVE  /\ \A f, w : (e.from = f /\ e.mqtt = (w = "mqtt"))
                        => OverWay(g, f, w) = OverWay(h, f, w) \cup {Len(h) + 1}
         /\ \A f, w : ~ ((e.from = f /\ e.mqtt = (w = "mqtt"))) => OverWay(g, f, w) = OverWay(h, f, w)
         /\ \A f, w : OverWay(h, f, w) \in SUBSET (1 .. Len(h)) /\ OverWay(g, f, w) \in SUBSET (1 .. Len(g))
<1>1. PICK n : n = Len(h) + 1
  OBVIOUS
<1>2. g[n] = e /\ (\A i \in 1 .. Len(h) : g[i] = h[i]) /\ 1 .. Len(g) = 1 .. Len(h) \cup {n}
  BY <1>1, HearsIs
<1>3. \A f, w : (e.from = f /\ e.mqtt = (w = "mqtt")) => OverWay(g, f, w) = OverWay(h, f, w) \cup {n}
  BY <1>2 DEF OverWay
<1>4. \A f, w : ~ ((e.from = f /\ e.mqtt = (w = "mqtt"))) => OverWay(g, f, w) = OverWay(h, f, w)
  BY <1>2 DEF OverWay
<1>5. \A f, w : OverWay(h, f, w) \in SUBSET (1 .. Len(h)) /\ OverWay(g, f, w) \in SUBSET (1 .. Len(g))
  BY DEF OverWay
<1> QED BY <1>1, <1>3, <1>4, <1>5

LEMMA SecretMore ==
  ASSUME NEW h, NEW e, NEW g, Hears(h, e, g)
  PROVE  /\ e.encrypted => Secret(g) = Secret(h) \cup {Len(h) + 1}
         /\ ~ (e.encrypted) => Secret(g) = Secret(h)
         /\ Secret(h) \in SUBSET (1 .. Len(h)) /\ Secret(g) \in SUBSET (1 .. Len(g))
<1>1. PICK n : n = Len(h) + 1
  OBVIOUS
<1>2. g[n] = e /\ (\A i \in 1 .. Len(h) : g[i] = h[i]) /\ 1 .. Len(g) = 1 .. Len(h) \cup {n}
  BY <1>1, HearsIs
<1>3. e.encrypted => Secret(g) = Secret(h) \cup {n}
  BY <1>2 DEF Secret
<1>4. ~ (e.encrypted) => Secret(g) = Secret(h)
  BY <1>2 DEF Secret
<1>5. Secret(h) \in SUBSET (1 .. Len(h)) /\ Secret(g) \in SUBSET (1 .. Len(g))
  BY DEF Secret
<1> QED BY <1>1, <1>3, <1>4, <1>5

LEMMA BetweenMore ==
  ASSUME NEW h, NEW e, NEW g, Hears(h, e, g)
  PROVE  /\ \A k : (Unicast(e) /\ Ends(e) = k) => Between(g, k) = Between(h, k) \cup {Len(h) + 1}
         /\ \A k : ~ ((Unicast(e) /\ Ends(e) = k)) => Between(g, k) = Between(h, k)
         /\ \A k : Between(h, k) \in SUBSET (1 .. Len(h)) /\ Between(g, k) \in SUBSET (1 .. Len(g))
<1>1. PICK n : n = Len(h) + 1
  OBVIOUS
<1>2. g[n] = e /\ (\A i \in 1 .. Len(h) : g[i] = h[i]) /\ 1 .. Len(g) = 1 .. Len(h) \cup {n}
  BY <1>1, HearsIs
<1>3. \A k : (Unicast(e) /\ Ends(e) = k) => Between(g, k) = Between(h, k) \cup {n}
  BY <1>2 DEF Between
<1>4. \A k : ~ ((Unicast(e) /\ Ends(e) = k)) => Between(g, k) = Between(h, k)
  BY <1>2 DEF Between
<1>5. \A k : Between(h, k) \in SUBSET (1 .. Len(h)) /\ Between(g, k) \in SUBSET (1 .. Len(g))
  BY DEF Between
<1> QED BY <1>1, <1>3, <1>4, <1>5

(* The times of S with the packet's, trimmed, and without it, trimmed.      *)
LEMMA RecentStep ==
  ASSUME NEW h, NEW e, NEW g, Hears(h, e, g), NEW S \in SUBSET (1 .. Len(h)), NEW w \in Nat, NEW ts,
         Holds(ts, S, h, e.at, w)
  PROVE  Exactly(trimBefore(Append(ts, e.at), e.at - w), S \cup {Len(h) + 1}, g, e.at, w)
<1>1. g \in Seq(Events) /\ e.at \in Nat /\ 1 .. Len(g) = 1 .. Len(h) \cup {Len(h) + 1}
  BY HearsIs
<1>2. Holds(Append(ts, e.at), S \cup {Len(h) + 1}, g, e.at, w)
  BY HoldsMore DEF Hears
<1>3. PICK T, q : T = S \cup {Len(h) + 1} /\ q = Append(ts, e.at)
  OBVIOUS
<1>4. T \in SUBSET (1 .. Len(g)) /\ Holds(q, T, g, e.at, w)
  BY <1>1, <1>2, <1>3
<1>5. Exactly(trimBefore(q, e.at - w), T, g, e.at, w)
  BY <1>1, <1>4, HoldsTrim
<1> QED BY <1>3, <1>5

LEMMA TrimStep ==
  ASSUME NEW h, NEW e, NEW g, Hears(h, e, g), NEW S \in SUBSET (1 .. Len(h)), NEW w \in Nat, NEW ts,
         Holds(ts, S, h, e.at, w)
  PROVE  Exactly(trimBefore(ts, e.at - w), S, g, e.at, w)
<1>1. g \in Seq(Events) /\ e.at \in Nat /\ 1 .. Len(g) = 1 .. Len(h) \cup {Len(h) + 1}
  BY HearsIs
<1>2. \A i \in S : g[i] = h[i]
  BY HearsIs
<1>3. Holds(ts, S, g, e.at, w)
  BY <1>2, HoldsSame
<1>4. S \in SUBSET (1 .. Len(g))
  BY <1>1
<1> QED BY <1>1, <1>3, <1>4, HoldsTrim

LEMMA StaysHeld ==
  ASSUME NEW h, NEW e, NEW g, Hears(h, e, g), NEW S \in SUBSET (1 .. Len(h)), NEW w, NEW ts,
         Holds(ts, S, h, e.at, w)
  PROVE  Holds(ts, S, g, e.at, w)
<1>1. \A i \in S : g[i] = h[i]
  BY HearsIs
<1> QED BY <1>1, HoldsSame

----------------------------------------------------------------------------
(* The times behind the spammer, loop, mirror and spike detectors.          *)
TimesHeld(m, h, now) == \A f \in Senders : Holds(At(m, f, <<>>), By(h, f), h, now, Window.minute)

(* p is m with the entry v for k.                                           *)
Entered(p, m, k, v) ==
  DOMAIN p = DOMAIN m \cup {k} /\ \A j \in DOMAIN m \cup {k} : p[j] = IF j = k THEN v ELSE m[j]

LEMMA PutIs == \A m, k, v : Entered(Put(m, k, v), m, k, v)
<1> SUFFICES ASSUME NEW m, NEW k, NEW v PROVE Entered(Put(m, k, v), m, k, v)
  OBVIOUS
<1>1. PICK p : p = Put(m, k, v)
  OBVIOUS
<1>2. Entered(p, m, k, v)
  BY <1>1 DEF Put, Entered
<1> QED BY <1>1, <1>2

LEMMA SpamStep ==
  ASSUME NEW h, NEW e, NEW g, Hears(h, e, g), NEW a, DOMAIN a = AnomFields,
         TimesHeld(a.pktTimes, h, e.at), NEW m, m = Spam(a, e).pktTimes
  PROVE  /\ TimesHeld(m, g, e.at)
         /\ Len(m[e.from]) = Cardinality(Recently(By(g, e.from), g, e.at, Window.minute))
<1>1. PICK f, w : f = e.from /\ w = Window.minute
  OBVIOUS
<1>2. f \in Senders /\ w \in Nat /\ e.at \in Nat /\ g \in Seq(Events)
  BY <1>1, HearsIs, FieldsAre, WindowsNat
<1>3. PICK ts : ts = At(a.pktTimes, f, <<>>)
  OBVIOUS
<1>4. PICK r : r = trimBefore(Append(ts, e.at), e.at - w)
  OBVIOUS
<1>5. m = Put(a.pktTimes, f, r)
  BY <1>1, <1>3, <1>4 DEF Spam, Recent, AnomFields
<1>6. By(h, f) \in SUBSET (1 .. Len(h)) /\ By(g, f) \in SUBSET (1 .. Len(g))
  BY ByMore
<1>7. By(g, f) = By(h, f) \cup {Len(h) + 1} /\ \A j : j # f => By(g, j) = By(h, j)
  BY <1>1, ByMore
<1>8. Holds(ts, By(h, f), h, e.at, w)
  BY <1>1, <1>2, <1>3 DEF TimesHeld
<1>9. Exactly(r, By(g, f), g, e.at, w)
  <2>1. Exactly(trimBefore(Append(ts, e.at), e.at - w), By(h, f) \cup {Len(h) + 1}, g, e.at, w)
    BY <1>2, <1>6, <1>8, RecentStep
  <2> QED BY <1>4, <1>7, <2>1
<1>10. Holds(r, By(g, f), g, e.at, w) /\ Len(r) = Cardinality(Recently(By(g, f), g, e.at, w))
  BY <1>2, <1>6, <1>9, ExactlyHolds
<1>11. m[f] = r /\ At(m, f, <<>>) = r /\ \A j : j # f => At(m, j, <<>>) = At(a.pktTimes, j, <<>>)
  <2>1. Entered(m, a.pktTimes, f, r)
    BY <1>5, PutIs
  <2> QED BY <2>1 DEF Entered, At
<1>12. ASSUME NEW j \in Senders PROVE Holds(At(m, j, <<>>), By(g, j), g, e.at, w)
  <2>1. CASE j = f
    BY <1>10, <1>11, <2>1
  <2>2. CASE j # f
    <3>1. At(m, j, <<>>) = At(a.pktTimes, j, <<>>) /\ By(g, j) = By(h, j)
      BY <1>7, <1>11, <2>2
    <3>2. Holds(At(a.pktTimes, j, <<>>), By(h, j), h, e.at, w)
      BY <1>1 DEF TimesHeld
    <3>3. By(h, j) \in SUBSET (1 .. Len(h))
      BY DEF By
    <3>4. Holds(At(a.pktTimes, j, <<>>), By(h, j), g, e.at, w)
      BY <3>2, <3>3, StaysHeld
    <3> QED BY <3>1, <3>4
  <2> QED BY <2>1, <2>2
<1> QED BY <1>1, <1>10, <1>11, <1>12 DEF TimesHeld

DupsHeld(m, h, now) == \A k \in AllIds : Holds(At(m, k, <<>>), WithId(h, k), h, now, Window.minute)

(* Whatever is collected is older than the window.                          *)
LEMMA LoopStep ==
  ASSUME NEW h, NEW e, NEW g, Hears(h, e, g), NEW dup, DupsHeld(dup, h, e.at), TimesOK(dup, h),
         NEW m, m = Timed(dup, e)
  PROVE  /\ DupsHeld(m, g, e.at)
         /\ e.id # 0 =>
              Len(m[Id(e)]) = Cardinality(Recently(WithId(g, Id(e)), g, e.at, Window.minute))
<1>1. PICK k, w : k = Id(e) /\ w = Window.minute
  OBVIOUS
<1>2. k \in AllIds /\ w \in Nat /\ e.at \in Nat /\ g \in Seq(Events)
  BY <1>1, HearsIs, FieldsAre, WindowsNat
<1>3. \A j : WithId(h, j) \in SUBSET (1 .. Len(h)) /\ WithId(g, j) \in SUBSET (1 .. Len(g))
  BY WithIdMore
<1>4. ASSUME NEW j \in AllIds PROVE Holds(At(dup, j, <<>>), WithId(h, j), g, e.at, w)
  <2>1. Holds(At(dup, j, <<>>), WithId(h, j), h, e.at, w)
    BY <1>1 DEF DupsHeld
  <2> QED BY <1>3, <2>1, StaysHeld
<1>5. CASE e.id = 0
  <2>1. m = dup
    BY <1>5 DEF Timed
  <2>2. \A j : WithId(g, j) = WithId(h, j)
    BY <1>5, WithIdMore
  <2> QED BY <1>1, <1>4, <1>5, <2>1, <2>2 DEF DupsHeld
<1>6. CASE e.id # 0
  <2>1. PICK ts : ts = At(dup, k, <<>>)
    OBVIOUS
  <2>2. PICK r : r = trimBefore(Append(ts, e.at), e.at - w)
    OBVIOUS
  <2>3. PICK mid : mid = Put(dup, k, r)
    OBVIOUS
  <2>4. m = Collected(mid, e) /\ r = Recent(dup, k, e, w)
    BY <1>1, <1>6, <2>1, <2>2, <2>3 DEF Timed, Recent
  <2>5. WithId(g, k) = WithId(h, k) \cup {Len(h) + 1} /\ \A j : j # k => WithId(g, j) = WithId(h, j)
    BY <1>1, <1>6, WithIdMore
  <2>6. Holds(ts, WithId(h, k), h, e.at, w)
    BY <1>1, <1>2, <2>1 DEF DupsHeld
  <2>7. Exactly(r, WithId(g, k), g, e.at, w)
    <3>1. WithId(h, k) \in SUBSET (1 .. Len(h))
      BY <1>3
    <3>2. Exactly(trimBefore(Append(ts, e.at), e.at - w), WithId(h, k) \cup {Len(h) + 1}, g, e.at, w)
      BY <1>2, <2>6, <3>1, RecentStep
    <3> QED BY <2>2, <2>5, <3>2
  <2>8. /\ Holds(r, WithId(g, k), g, e.at, w)
        /\ Len(r) = Cardinality(Recently(WithId(g, k), g, e.at, w))
    BY <1>2, <1>3, <2>7, ExactlyHolds
  <2>9. /\ mid[k] = r /\ At(mid, k, <<>>) = r /\ DOMAIN mid = DOMAIN dup \cup {k}
        /\ \A j : j # k => At(mid, j, <<>>) = At(dup, j, <<>>)
    <3>1. Entered(mid, dup, k, r)
      BY <2>3, PutIs
    <3> QED BY <3>1 DEF Entered, At
  <2>10. ASSUME NEW j \in AllIds PROVE Holds(At(mid, j, <<>>), WithId(g, j), g, e.at, w)
    <3>1. CASE j = k
      BY <2>8, <2>9, <3>1
    <3>2. CASE j # k
      <4>1. At(mid, j, <<>>) = At(dup, j, <<>>) /\ WithId(g, j) = WithId(h, j)
        BY <2>5, <2>9, <3>2
      <4> QED BY <1>4, <4>1
    <3> QED BY <3>1, <3>2
  <2>11. r # <<>> /\ Last(r) = e.at
    <3>1. k \in DOMAIN dup => dup[k] \in Seq(Nat)
      BY DEF TimesOK
    <3> QED BY <1>2, <2>4, <3>1, RecentIs
  <2>12. \A j \in DOMAIN mid : mid[j] # <<>> /\ Last(mid[j]) \in Nat
    <3> SUFFICES ASSUME NEW j \in DOMAIN mid PROVE mid[j] # <<>> /\ Last(mid[j]) \in Nat
      OBVIOUS
    <3>1. CASE j = k
      BY <1>2, <2>9, <2>11, <3>1
    <3>2. CASE j # k
      <4>1. j \in DOMAIN dup
        BY <2>9, <3>2
      <4>2. mid[j] = dup[j]
        BY <2>3, <3>2, <4>1 DEF Put
      <4>3. dup[j] # <<>> /\ HeardAt(h, j, Last(dup[j])) /\ h \in Seq(Events)
        BY <4>1, HearsIs DEF TimesOK
      <4>4. Last(dup[j]) \in Nat
        BY <4>3, HeardIsId
      <4> QED BY <4>2, <4>3, <4>4
    <3> QED BY <3>1, <3>2
  <2>13. CASE m = mid
    BY <1>1, <2>8, <2>9, <2>10, <2>13 DEF DupsHeld
  <2>14. CASE m # mid
    <3>1. PICK late : late = {j \in DOMAIN mid : Last(mid[j]) >= e.at - w}
      OBVIOUS
    <3>2. m = [j \in late |-> mid[j]]
      BY <1>1, <2>4, <2>14, <3>1 DEF Collected, Restrict
    <3>3. DOMAIN m = late /\ \A j \in late : m[j] = mid[j] /\ j \in DOMAIN mid
      BY <3>1, <3>2
    <3>4. k \in late /\ m[k] = r
      BY <1>2, <2>9, <2>11, <3>1, <3>3
    <3>5. ASSUME NEW j \in AllIds PROVE Holds(At(m, j, <<>>), WithId(g, j), g, e.at, w)
      <4>1. CASE j \in late
        <5>1. At(m, j, <<>>) = At(mid, j, <<>>)
          BY <3>3, <4>1 DEF At
        <5> QED BY <2>10, <5>1
      <4>2. CASE j \notin DOMAIN mid
        <5>1. At(m, j, <<>>) = At(mid, j, <<>>)
          BY <3>3, <4>2 DEF At
        <5> QED BY <2>10, <5>1
      <4>3. CASE j \in DOMAIN mid /\ j \notin late
        <5>1. At(m, j, <<>>) = <<>> /\ At(mid, j, <<>>) = mid[j]
          BY <3>3, <4>3 DEF At
        <5>2. Last(mid[j]) < e.at - w /\ mid[j] # <<>>
          BY <1>2, <2>12, <3>1, <4>3
        <5>3. Holds(mid[j], WithId(g, j), g, e.at, w)
          BY <2>10, <5>1
        <5>4. Holds(<<>>, WithId(g, j), g, e.at, w)
          BY <1>2, <1>3, <5>2, <5>3, HoldsOld
        <5> QED BY <5>1, <5>4
      <4> QED BY <4>1, <4>2, <4>3
    <3> QED BY <1>1, <2>8, <3>4, <3>5 DEF DupsHeld
  <2> QED BY <2>13, <2>14
<1> QED BY <1>5, <1>6

LEMMA ExactlyNone ==
  ASSUME NEW ts, NEW S, NEW h, NEW now, NEW w, Exactly(ts, S, h, now, w)
  PROVE  ts = <<>> <=> Recently(S, h, now, w) = {}
<1>1. PICK K : K = Recently(S, h, now, w)
  OBVIOUS
<1>2. Lists(ts, K, h)
  BY <1>1 DEF Exactly
<1>3. IsFiniteSet(K) /\ Cardinality(K) = Len(ts)
  BY <1>2, ListsCount
<1>4. Cardinality(K) = 0 <=> K = {}
  BY <1>3, FS_EmptySet
<1>5. ts \in Seq(Nat)
  BY <1>2 DEF Lists
<1>6. ts = <<>> <=> Len(ts) = 0
  BY <1>5
<1> QED BY <1>1, <1>3, <1>4, <1>6

WaysHeld(m, h, now) ==
  \A f \in Senders, w \in Ways :
    Holds(At(m, f, Unheard)[w], OverWay(h, f, w), h, now, Window.minute)

(* The times of a way are gone when the way was not used for a minute.      *)
HeardOver(m, g, e) ==
  \A w \in Ways : m[e.from][w] # <<>> <=>
    Recently(OverWay(g, e.from, w), g, e.at, Window.minute) # {}

LEMMA MirrorStep ==
  ASSUME NEW h, NEW e, NEW g, Hears(h, e, g), NEW a, DOMAIN a = AnomFields,
         WaysHeld(a.mqttSeen, h, e.at), NEW m, m = Origins(a, e).mqttSeen
  PROVE  /\ WaysHeld(m, g, e.at)
         /\ HeardOver(m, g, e)
<1>1. PICK f, l : f = e.from /\ l = Window.minute
  OBVIOUS
<1>2. /\ f \in Senders /\ l \in Nat /\ e.at \in Nat /\ e.mqtt \in BOOLEAN
      /\ h \in Seq(Events) /\ g \in Seq(Events)
  BY <1>1, HearsIs, FieldsAre, WindowsNat
<1>3. PICK seen, own : seen = At(a.mqttSeen, f, Unheard) /\ own = IF e.mqtt THEN "mqtt" ELSE "radio"
  OBVIOUS
<1>4. PICK kept : kept = [w \in {"radio", "mqtt"} |-> trimBefore(seen[w], e.at - l)]
  OBVIOUS
<1>5. PICK v : v = [kept EXCEPT ![own] = Append(@, e.at)]
  OBVIOUS
<1>6. m = Put(a.mqttSeen, f, v)
  BY <1>1, <1>3, <1>4, <1>5 DEF Origins, AnomFields, Unheard
<1>7. own \in Ways /\ \A w \in Ways : e.mqtt = (w = "mqtt") <=> w = own
  BY <1>2, <1>3 DEF Ways
<1>8. v[own] = Append(trimBefore(seen[own], e.at - l), e.at)
  BY <1>4, <1>5, <1>7 DEF Ways
<1>9. \A w \in Ways : w # own => v[w] = trimBefore(seen[w], e.at - l)
  BY <1>4, <1>5, <1>7 DEF Ways
<1>10. OverWay(g, f, own) = OverWay(h, f, own) \cup {Len(h) + 1}
  BY <1>1, <1>7, OverWayMore
<1>11. \A j : \A w \in Ways : j # f \/ w # own => OverWay(g, j, w) = OverWay(h, j, w)
  BY <1>1, <1>7, OverWayMore
<1>12. \A j, w : OverWay(h, j, w) \in SUBSET (1 .. Len(h)) /\ OverWay(g, j, w) \in SUBSET (1 .. Len(g))
  BY OverWayMore
<1>13. \A w \in Ways : Holds(seen[w], OverWay(h, f, w), h, e.at, l)
  BY <1>1, <1>2, <1>3 DEF WaysHeld
<1>14. Holds(v[own], OverWay(g, f, own), g, e.at, l)
  <2>1. PICK S, ts : S = OverWay(h, f, own) /\ ts = trimBefore(seen[own], e.at - l)
    OBVIOUS
  <2>2. S \in SUBSET (1 .. Len(h)) /\ Holds(seen[own], S, h, e.at, l)
    BY <1>7, <1>12, <1>13, <2>1
  <2>3. Exactly(ts, S, h, e.at, l)
    BY <1>2, <2>1, <2>2, HoldsTrim
  <2>4. Holds(ts, S, h, e.at, l)
    BY <1>2, <2>2, <2>3, ExactlyHolds
  <2>5. Holds(Append(ts, e.at), S \cup {Len(h) + 1}, g, e.at, l)
    BY <1>2, <2>2, <2>4, HoldsMore DEF Hears
  <2> QED BY <1>8, <1>10, <2>1, <2>5
<1>15. v[own] # <<>> /\ Recently(OverWay(g, f, own), g, e.at, l) # {}
  <2>1. trimBefore(seen[own], e.at - l) \in Seq(Nat)
    <3>1. seen[own] \in Seq(Nat)
      BY <1>7, <1>13 DEF Holds, Lists
    <3>2. PICK c \in Int : c = e.at - l
      BY <1>2
    <3>3. Trimmed(trimBefore(seen[own], c), seen[own], c)
      BY <3>1, TrimIs
    <3> QED BY <3>2, <3>3 DEF Trimmed
  <2>2. v[own] # <<>>
    BY <1>2, <1>8, <2>1
  <2>3. g[Len(h) + 1].at = e.at
    BY HearsIs
  <2>4. Len(h) + 1 \in Recently(OverWay(g, f, own), g, e.at, l)
    BY <1>2, <1>10, <2>3 DEF Recently
  <2> QED BY <2>2, <2>4
<1>16. ASSUME NEW w \in Ways, w # own
       PROVE  /\ Holds(v[w], OverWay(g, f, w), g, e.at, l)
              /\ v[w] # <<>> <=> Recently(OverWay(g, f, w), g, e.at, l) # {}
  <2>1. PICK S, ts : S = OverWay(h, f, w) /\ ts = trimBefore(seen[w], e.at - l)
    OBVIOUS
  <2>2. S \in SUBSET (1 .. Len(h)) /\ Holds(seen[w], S, h, e.at, l)
    BY <1>12, <1>13, <2>1
  <2>3. Exactly(ts, S, g, e.at, l)
    BY <1>2, <2>1, <2>2, TrimStep
  <2>4. S = OverWay(g, f, w) /\ S \in SUBSET (1 .. Len(g)) /\ v[w] = ts
    BY <1>9, <1>11, <1>12, <1>16, <2>1
  <2>5. Holds(ts, S, g, e.at, l)
    BY <1>2, <2>3, <2>4, ExactlyHolds
  <2>6. ts = <<>> <=> Recently(S, g, e.at, l) = {}
    BY <2>3, ExactlyNone
  <2> QED BY <2>4, <2>5, <2>6
<1>17. m[f] = v /\ At(m, f, Unheard) = v /\ \A j : j # f => At(m, j, Unheard) = At(a.mqttSeen, j, Unheard)
  <2>1. Entered(m, a.mqttSeen, f, v)
    BY <1>6, PutIs
  <2> QED BY <2>1 DEF Entered, At
<1>18. ASSUME NEW j \in Senders, NEW w \in Ways
       PROVE  Holds(At(m, j, Unheard)[w], OverWay(g, j, w), g, e.at, l)
  <2>1. CASE j = f
    BY <1>14, <1>16, <1>17, <2>1
  <2>2. CASE j # f
    <3>1. At(m, j, Unheard) = At(a.mqttSeen, j, Unheard) /\ OverWay(g, j, w) = OverWay(h, j, w)
      BY <1>11, <1>17, <2>2
    <3>2. Holds(At(a.mqttSeen, j, Unheard)[w], OverWay(h, j, w), h, e.at, l)
      BY <1>1 DEF WaysHeld
    <3>3. OverWay(h, j, w) \in SUBSET (1 .. Len(h))
      BY <1>12
    <3>4. Holds(At(a.mqttSeen, j, Unheard)[w], OverWay(h, j, w), g, e.at, l)
      BY <3>2, <3>3, StaysHeld
    <3> QED BY <3>1, <3>4
  <2> QED BY <2>1, <2>2
<1>19. \A w \in Ways : v[w] # <<>> <=> Recently(OverWay(g, f, w), g, e.at, l) # {}
  BY <1>15, <1>16
<1> QED BY <1>1, <1>17, <1>18, <1>19 DEF WaysHeld, HeardOver

LEMMA SpikeStep ==
  ASSUME NEW h, NEW e, NEW g, Hears(h, e, g), NEW a, DOMAIN a = AnomFields,
         Holds(a.totalSeen, 1 .. Len(h), h, e.at, Window.hour),
         Holds(a.encryptedSeen, Secret(h), h, e.at, Window.hour), NEW b, b = Encrypted(a, e)
  PROVE  /\ Holds(b.totalSeen, 1 .. Len(g), g, e.at, Window.hour)
         /\ Holds(b.encryptedSeen, Secret(g), g, e.at, Window.hour)
         /\ Len(b.totalSeen) = Cardinality(Recently(1 .. Len(g), g, e.at, Window.hour))
         /\ Len(b.encryptedSeen) = Cardinality(Recently(Secret(g), g, e.at, Window.hour))
<1>1. PICK w : w = Window.hour
  OBVIOUS
<1>2. /\ w \in Nat /\ e.at \in Nat /\ g \in Seq(Events) /\ e.encrypted \in BOOLEAN
      /\ 1 .. Len(g) = 1 .. Len(h) \cup {Len(h) + 1}
  BY <1>1, HearsIs, FieldsAre, WindowsNat
<1>3. PICK all, few : all = b.totalSeen /\ few = b.encryptedSeen
  OBVIOUS
<1>4. all = trimBefore(Append(a.totalSeen, e.at), e.at - w)
  BY <1>1, <1>3 DEF Encrypted, AnomFields
<1>5. few = trimBefore(IF e.encrypted THEN Append(a.encryptedSeen, e.at) ELSE a.encryptedSeen, e.at - w)
  BY <1>1, <1>3 DEF Encrypted, AnomFields
<1>6. Exactly(all, 1 .. Len(g), g, e.at, w)
  <2>1. PICK S : S = 1 .. Len(h)
    OBVIOUS
  <2>2. S \in SUBSET (1 .. Len(h)) /\ Holds(a.totalSeen, S, h, e.at, w)
    BY <1>1, <2>1
  <2>3. Exactly(trimBefore(Append(a.totalSeen, e.at), e.at - w), S \cup {Len(h) + 1}, g, e.at, w)
    BY <1>2, <2>2, RecentStep
  <2> QED BY <1>2, <1>4, <2>1, <2>3
<1>7. Exactly(few, Secret(g), g, e.at, w)
  <2>1. PICK S : S = Secret(h)
    OBVIOUS
  <2>2. S \in SUBSET (1 .. Len(h)) /\ Holds(a.encryptedSeen, S, h, e.at, w)
    BY <1>1, <2>1, SecretMore
  <2>3. CASE e.encrypted
    <3>1. Exactly(trimBefore(Append(a.encryptedSeen, e.at), e.at - w), S \cup {Len(h) + 1}, g, e.at, w)
      BY <1>2, <2>2, RecentStep
    <3>2. Secret(g) = S \cup {Len(h) + 1}
      BY <2>1, <2>3, SecretMore
    <3> QED BY <1>5, <2>3, <3>1, <3>2
  <2>4. CASE ~ e.encrypted
    <3>1. Exactly(trimBefore(a.encryptedSeen, e.at - w), S, g, e.at, w)
      BY <1>2, <2>2, TrimStep
    <3>2. Secret(g) = S
      BY <2>1, <2>4, SecretMore
    <3> QED BY <1>5, <2>4, <3>1, <3>2
  <2> QED BY <2>3, <2>4
<1>8. PICK T, U : T = 1 .. Len(g) /\ U = Secret(g)
  OBVIOUS
<1>9. T \in SUBSET (1 .. Len(g)) /\ U \in SUBSET (1 .. Len(g))
  BY <1>8, SecretMore
<1>10. Exactly(all, T, g, e.at, w) /\ Exactly(few, U, g, e.at, w)
  BY <1>6, <1>7, <1>8
<1>11. Holds(all, T, g, e.at, w) /\ Len(all) = Cardinality(Recently(T, g, e.at, w))
  BY <1>2, <1>9, <1>10, ExactlyHolds
<1>12. Holds(few, U, g, e.at, w) /\ Len(few) = Cardinality(Recently(U, g, e.at, w))
  BY <1>2, <1>9, <1>10, ExactlyHolds
<1> QED BY <1>1, <1>3, <1>8, <1>11, <1>12

----------------------------------------------------------------------------
(* Last values.                                                             *)
LEMMA LastWithOwn ==
  ASSUME NEW h, NEW e, NEW g, Hears(h, e, g), NEW x, e[x] # 0
  PROVE  LastWith(g, e.from, x) = {Len(h) + 1}
<1>1. PICK n \in Nat : n = Len(h)
  BY HearsIs
<1>2. Len(g) = n + 1 /\ g[n + 1] = e /\ 1 .. n + 1 = 1 .. n \cup {n + 1}
  BY <1>1, HearsIs
<1>3. n + 1 + 1 .. n + 1 = {} /\ n + 1 \notin 1 .. n /\ \A i \in 1 .. n : n + 1 \in i + 1 .. n + 1
  BY <1>1
<1>4. n + 1 \in LastWith(g, e.from, x)
  BY <1>2, <1>3 DEF LastWith
<1>5. ASSUME NEW i \in 1 .. n PROVE i \notin LastWith(g, e.from, x)
  BY <1>2, <1>3 DEF LastWith
<1>6. \A i \in LastWith(g, e.from, x) : i \in 1 .. n + 1
  BY <1>2 DEF LastWith
<1> QED BY <1>1, <1>2, <1>4, <1>5, <1>6

(* A packet disturbs the last packets with a value of its sender only.      *)
LastKept(h, e, g, x) ==
  /\ \A f : f # e.from \/ e[x] = 0 => LastWith(g, f, x) = LastWith(h, f, x)
  /\ \A f : \A i \in LastWith(h, f, x) : i \in 1 .. Len(h) /\ g[i] = h[i]
  /\ Previous(g, x) = LastWith(h, e.from, x)

LEMMA LastWithMore ==
  ASSUME NEW h, NEW e, NEW g, Hears(h, e, g), NEW x
  PROVE  LastKept(h, e, g, x)
<1>1. PICK n \in Nat : n = Len(h)
  BY HearsIs
<1>2. /\ Len(g) = n + 1 /\ g[n + 1] = e /\ Last(g) = e /\ 1 .. n + 1 = 1 .. n \cup {n + 1}
      /\ \A i \in 1 .. n : g[i] = h[i]
  BY <1>1, HearsIs
<1>3. /\ \A i \in 1 .. n : i + 1 .. n + 1 = (i + 1 .. n) \cup {n + 1} /\ \A j \in i + 1 .. n : j \in 1 .. n
      /\ n + 1 \notin 1 .. n
  BY <1>1
<1>5. ASSUME NEW f, f # e.from \/ e[x] = 0 PROVE LastWith(g, f, x) = LastWith(h, f, x)
  <2>1. n + 1 \notin LastWith(g, f, x)
    BY <1>2, <1>5 DEF LastWith
  <2>2. ASSUME NEW i \in 1 .. n PROVE i \in LastWith(g, f, x) <=> i \in LastWith(h, f, x)
    <3>1. \A j \in i + 1 .. n : g[j] = h[j]
      BY <1>2, <1>3
    <3>2. (\A j \in i + 1 .. n + 1 : g[j].from # f \/ g[j][x] = 0)
            <=> (\A j \in i + 1 .. n : h[j].from # f \/ h[j][x] = 0)
      BY <1>2, <1>3, <1>5, <3>1
    <3>3. g[i] = h[i] /\ i \in 1 .. Len(g) /\ i \in 1 .. Len(h)
      BY <1>1, <1>2
    <3> QED BY <1>1, <1>2, <3>2, <3>3 DEF LastWith
  <2>3. \A i \in LastWith(g, f, x) : i \in 1 .. n + 1
    BY <1>2 DEF LastWith
  <2>4. \A i \in LastWith(h, f, x) : i \in 1 .. n
    BY <1>1 DEF LastWith
  <2> QED BY <1>2, <2>1, <2>2, <2>3, <2>4
<1>6. \A f : \A i \in LastWith(h, f, x) : i \in 1 .. n /\ g[i] = h[i]
  BY <1>1, <1>2 DEF LastWith
<1>7. Previous(g, x) = LastWith(h, e.from, x)
  <2>1. PICK p : p = Previous(g, x)
    OBVIOUS
  <2>2. Len(g) - 1 = n
    BY <1>2
  <2>3. p = {i \in 1 .. n : /\ g[i].from = e.from /\ g[i][x] # 0
                            /\ \A j \in i + 1 .. n : g[j].from # e.from \/ g[j][x] = 0}
    BY <1>2, <2>1, <2>2 DEF Previous
  <2>4. ASSUME NEW i \in 1 .. n PROVE i \in p <=> i \in LastWith(h, e.from, x)
    <3>1. \A j \in i + 1 .. n : g[j] = h[j]
      BY <1>2, <1>3
    <3>2. g[i] = h[i] /\ i \in 1 .. Len(h)
      BY <1>1, <1>2
    <3> QED BY <1>1, <2>3, <3>1, <3>2 DEF LastWith
  <2>5. \A i \in LastWith(h, e.from, x) : i \in 1 .. n
    BY <1>1 DEF LastWith
  <2>6. \A i \in p : i \in 1 .. n
    BY <2>3
  <2> QED BY <2>1, <2>4, <2>5, <2>6
<1> QED BY <1>1, <1>5, <1>6, <1>7 DEF LastKept

(* What a packet with a value leaves for its sender.                        *)
Valued(m, old, e, x) ==
  IF e[x] = 0 THEN m = old
  ELSE \E v : Entered(m, old, e.from, v) /\ v[x] = e[x] /\ v.at = e.at

LEMMA ValuesStep ==
  ASSUME NEW h, NEW e, NEW g, Hears(h, e, g), NEW x, NEW old, ValuesOK(old, x, h),
         NEW m, Valued(m, old, e, x)
  PROVE  ValuesOK(m, x, g)
<1>1. /\ e[x] # 0 => LastWith(g, e.from, x) = {Len(h) + 1}
      /\ \A f : f # e.from \/ e[x] = 0 => LastWith(g, f, x) = LastWith(h, f, x)
      /\ \A f : \A i \in LastWith(h, f, x) : g[i] = h[i]
      /\ g[Len(h) + 1] = e
  <2>1. e[x] # 0 => LastWith(g, e.from, x) = {Len(h) + 1}
    BY LastWithOwn
  <2>2. LastKept(h, e, g, x)
    BY LastWithMore
  <2>3. /\ \A f : f # e.from \/ e[x] = 0 => LastWith(g, f, x) = LastWith(h, f, x)
        /\ \A f : \A i \in LastWith(h, f, x) : g[i] = h[i]
    BY <2>2 DEF LastKept
  <2>4. g[Len(h) + 1] = e
    BY HearsIs
  <2> QED BY <2>1, <2>3, <2>4
<1>2. ASSUME NEW f \in Senders, f # e.from \/ e[x] = 0, f \in DOMAIN m <=> f \in DOMAIN old,
             f \in DOMAIN m => m[f] = old[f]
      PROVE  /\ f \in DOMAIN m <=> LastWith(g, f, x) # {}
             /\ \A i \in LastWith(g, f, x) : m[f][x] = g[i][x] /\ m[f].at = g[i].at
  <2>1. LastWith(g, f, x) = LastWith(h, f, x)
    BY <1>1, <1>2
  <2>2. /\ f \in DOMAIN old <=> LastWith(h, f, x) # {}
        /\ \A i \in LastWith(h, f, x) : old[f][x] = h[i][x] /\ old[f].at = h[i].at
    BY DEF ValuesOK
  <2> QED BY <1>1, <1>2, <2>1, <2>2
<1>3. CASE e[x] = 0
  <2>1. m = old
    BY <1>3 DEF Valued
  <2> QED BY <1>2, <1>3, <2>1 DEF ValuesOK
<1>4. CASE e[x] # 0
  <2>1. PICK v : Entered(m, old, e.from, v) /\ v[x] = e[x] /\ v.at = e.at
    BY <1>4 DEF Valued
  <2>2. /\ e.from \in DOMAIN m /\ m[e.from] = v
        /\ \A f : f # e.from => (f \in DOMAIN m <=> f \in DOMAIN old) /\ (f \in DOMAIN m => m[f] = old[f])
    BY <2>1 DEF Entered
  <2>3. ASSUME NEW f \in Senders
        PROVE  /\ f \in DOMAIN m <=> LastWith(g, f, x) # {}
               /\ \A i \in LastWith(g, f, x) : m[f][x] = g[i][x] /\ m[f].at = g[i].at
    <3>1. CASE f = e.from
      BY <1>1, <1>4, <2>1, <2>2, <3>1
    <3>2. CASE f # e.from
      BY <1>2, <2>2, <3>2
    <3> QED BY <3>1, <3>2
  <2> QED BY <2>3 DEF ValuesOK
<1> QED BY <1>3, <1>4

LEMMA SignalStep ==
  ASSUME NEW h, NEW e, NEW g, Hears(h, e, g), NEW a, DOMAIN a = AnomFields, ValuesOK(a.lastSNR, "snr", h)
  PROVE  /\ ValuesOK(Signal(a, e).lastSNR, "snr", g)
         /\ Jumps(a, e) <=>
              e.snr # 0 /\ \E i \in Previous(g, "snr") :
                e.at - g[i].at \in 1 .. Window.jump - 1 /\ Gap(g[i].snr, e.snr) >= Limit.jump
<1>1. PICK m : m = Signal(a, e).lastSNR
  OBVIOUS
<1>2. Valued(m, a.lastSNR, e, "snr")
  <2>1. CASE e.snr = 0
    BY <1>1, <2>1 DEF Signal, Valued
  <2>2. CASE e.snr # 0
    <3>1. PICK v : v = [snr |-> e.snr, at |-> e.at]
      OBVIOUS
    <3>2. m = Put(a.lastSNR, e.from, v)
      BY <1>1, <2>2, <3>1 DEF Signal, AnomFields
    <3>3. Entered(m, a.lastSNR, e.from, v)
      BY <3>2, PutIs
    <3>4. v["snr"] = e["snr"] /\ v.at = e.at
      BY <3>1
    <3> QED BY <2>2, <3>3, <3>4 DEF Valued
  <2> QED BY <2>1, <2>2
<1>3. ValuesOK(m, "snr", g)
  BY <1>2, ValuesStep
<1>4. PICK f, L : f = e.from /\ L = LastWith(h, f, "snr")
  OBVIOUS
<1>5. /\ f \in Senders /\ e.at \in Nat /\ e.snr \in Int /\ Window.jump \in Nat /\ h \in Seq(Events)
  BY <1>4, HearsIs, FieldsAre, WindowsNat
<1>6. Previous(g, "snr") = L /\ \A i \in L : i \in 1 .. Len(h) /\ g[i] = h[i]
  <2>1. LastKept(h, e, g, "snr")
    BY LastWithMore
  <2> QED BY <1>4, <2>1 DEF LastKept
<1>7. /\ f \in DOMAIN a.lastSNR <=> L # {}
      /\ \A i \in L : a.lastSNR[f].snr = h[i].snr /\ a.lastSNR[f].at = h[i].at
  BY <1>4, <1>5 DEF ValuesOK
<1>8. \A i \in L : h[i].at \in Nat /\ h[i].snr \in Int
  <2> SUFFICES ASSUME NEW i \in L PROVE h[i].at \in Nat /\ h[i].snr \in Int
    OBVIOUS
  <2>1. EventFact(h[i])
    BY <1>5, <1>6, AtNat
  <2> QED BY <2>1, FieldsAre
<1>9. ASSUME NEW i \in L
      PROVE  /\ (e.at - h[i].at > 0 /\ e.at - h[i].at < Window.jump)
                  <=> e.at - h[i].at \in 1 .. Window.jump - 1
             /\ Gap(e.snr, h[i].snr) = Gap(h[i].snr, e.snr)
  <2>1. h[i].at \in Nat /\ h[i].snr \in Int
    BY <1>8
  <2>2. (e.at - h[i].at > 0 /\ e.at - h[i].at < Window.jump) <=> e.at - h[i].at \in 1 .. Window.jump - 1
    BY <1>5, <2>1
  <2>3. Gap(e.snr, h[i].snr) = Gap(h[i].snr, e.snr)
    BY <1>5, <2>1 DEF Gap
  <2> QED BY <2>2, <2>3
<1>10. ASSUME Jumps(a, e)
       PROVE  e.snr # 0 /\ \E i \in L :
                e.at - h[i].at \in 1 .. Window.jump - 1 /\ Gap(h[i].snr, e.snr) >= Limit.jump
  <2>1. /\ e.snr # 0 /\ f \in DOMAIN a.lastSNR
        /\ e.at - a.lastSNR[f].at > 0 /\ e.at - a.lastSNR[f].at < Window.jump
        /\ Gap(e.snr, a.lastSNR[f].snr) >= Limit.jump
    BY <1>4, <1>10 DEF Jumps
  <2>2. PICK i \in L : TRUE
    BY <1>7, <2>1
  <2> QED BY <1>7, <1>9, <2>1, <2>2
<1>11. ASSUME e.snr # 0, NEW i \in L,
              e.at - h[i].at \in 1 .. Window.jump - 1, Gap(h[i].snr, e.snr) >= Limit.jump
       PROVE  Jumps(a, e)
  <2>1. f \in DOMAIN a.lastSNR /\ a.lastSNR[f].snr = h[i].snr /\ a.lastSNR[f].at = h[i].at
    BY <1>7, <1>11
  <2> QED BY <1>4, <1>9, <1>11, <2>1 DEF Jumps
<1>12. Jumps(a, e) <=> e.snr # 0 /\ \E i \in L :
         e.at - h[i].at \in 1 .. Window.jump - 1 /\ Gap(h[i].snr, e.snr) >= Limit.jump
  BY <1>10, <1>11
<1> QED BY <1>1, <1>3, <1>6, <1>12

LEMMA PositionStep ==
  ASSUME NEW h, NEW e, NEW g, Hears(h, e, g), NEW a, DOMAIN a = AnomFields, ValuesOK(a.lastPos, "pos", h)
  PROVE  /\ ValuesOK(Position(a, e).lastPos, "pos", g)
         /\ Teleports(a, e) <=>
              e.pos # 0 /\ \E i \in Previous(g, "pos") :
                LET km == Km[g[i].pos, e.pos] IN
                  e.at > g[i].at /\ km >= Limit.far /\ km >= Limit.fast * (e.at - g[i].at)
<1>1. PICK m : m = Position(a, e).lastPos
  OBVIOUS
<1>2. Valued(m, a.lastPos, e, "pos")
  <2>1. CASE e.pos = 0
    BY <1>1, <2>1 DEF Position, Valued
  <2>2. CASE e.pos # 0
    <3>1. PICK v : v = [pos |-> e.pos, at |-> e.at]
      OBVIOUS
    <3>2. m = Put(a.lastPos, e.from, v)
      BY <1>1, <2>2, <3>1 DEF Position, AnomFields
    <3>3. Entered(m, a.lastPos, e.from, v)
      BY <3>2, PutIs
    <3>4. v["pos"] = e["pos"] /\ v.at = e.at
      BY <3>1
    <3> QED BY <2>2, <3>3, <3>4 DEF Valued
  <2> QED BY <2>1, <2>2
<1>3. ValuesOK(m, "pos", g)
  BY <1>2, ValuesStep
<1>4. PICK f, L : f = e.from /\ L = LastWith(h, f, "pos")
  OBVIOUS
<1>5. f \in Senders
  BY <1>4, HearsIs, FieldsAre
<1>6. Previous(g, "pos") = L /\ \A i \in L : g[i] = h[i]
  <2>1. LastKept(h, e, g, "pos")
    BY LastWithMore
  <2> QED BY <1>4, <2>1 DEF LastKept
<1>7. /\ f \in DOMAIN a.lastPos <=> L # {}
      /\ \A i \in L : a.lastPos[f].pos = h[i].pos /\ a.lastPos[f].at = h[i].at
  BY <1>4, <1>5 DEF ValuesOK
<1> DEFINE Far(pos, at) == /\ e.at > at /\ Km[pos, e.pos] >= Limit.far
                           /\ Km[pos, e.pos] >= Limit.fast * (e.at - at)
<1>8. Teleports(a, e) <=> /\ e.pos # 0 /\ f \in DOMAIN a.lastPos
                          /\ Far(a.lastPos[f].pos, a.lastPos[f].at)
  BY <1>4 DEF Teleports
<1>9. (\E i \in Previous(g, "pos") :
         LET km == Km[g[i].pos, e.pos] IN
           e.at > g[i].at /\ km >= Limit.far /\ km >= Limit.fast * (e.at - g[i].at))
        <=> \E i \in L : Far(h[i].pos, h[i].at)
  BY <1>6
<1> HIDE DEF Far
<1>10. (f \in DOMAIN a.lastPos /\ Far(a.lastPos[f].pos, a.lastPos[f].at))
         <=> \E i \in L : Far(h[i].pos, h[i].at)
  BY <1>7
<1> QED BY <1>1, <1>3, <1>8, <1>9, <1>10

----------------------------------------------------------------------------
(* The channels of a sender.                                                *)
LEMMA ChannelStep ==
  ASSUME NEW h, NEW e, NEW g, Hears(h, e, g), NEW a, DOMAIN a = AnomFields,
         \A f \in Senders : ChannelsOK(At(a.nodeChannels, f, <<>>), h, f, e.at),
         NEW m, m = Channels(a, e).nodeChannels
  PROVE  /\ \A f \in Senders : ChannelsOK(At(m, f, <<>>), g, f, e.at)
         /\ DOMAIN m[e.from] =
              {g[i].channel : i \in Recently(By(g, e.from), g, e.at, Window.hour)}
<1>1. PICK f, w : f = e.from /\ w = Window.hour
  OBVIOUS
<1>2. f \in Senders /\ w \in Nat /\ e.at \in Nat /\ g \in Seq(Events)
  BY <1>1, HearsIs, FieldsAre, WindowsNat
<1>3. PICK n : n = Len(h) + 1
  OBVIOUS
<1>4. g[n] = e /\ \A i \in 1 .. Len(h) : g[i] = h[i]
  BY <1>3, HearsIs
<1>5. PICK old : old = At(a.nodeChannels, f, <<>>)
  OBVIOUS
<1>6. PICK used : used = Put(old, e.channel, e.at)
  OBVIOUS
<1>7. PICK late : late = {c \in DOMAIN used : used[c] >= e.at - w}
  OBVIOUS
<1>8. PICK v : v = [c \in late |-> used[c]]
  OBVIOUS
<1>9. m = Put(a.nodeChannels, f, v)
  <2>1. Restrict(used, late) = v
    BY <1>8 DEF Restrict
  <2> QED BY <1>1, <1>5, <1>6, <1>7, <2>1 DEF Channels, AnomFields
<1>10. By(g, f) = By(h, f) \cup {n} /\ \A j : j # f => By(g, j) = By(h, j)
  BY <1>1, <1>3, ByMore
<1>11. \A j : By(h, j) \in SUBSET (1 .. Len(h)) /\ By(g, j) \in SUBSET (1 .. Len(g))
  BY ByMore
<1>12. /\ \A c \in DOMAIN old : \E i \in By(h, f) : h[i].channel = c /\ h[i].at = old[c]
       /\ \A i \in By(h, f) : \/ h[i].channel \in DOMAIN old /\ h[i].at <= old[h[i].channel]
                              \/ e.at - h[i].at > w
  BY <1>1, <1>2, <1>5 DEF ChannelsOK
<1>13. \A i \in By(g, f) : g[i].at \in Nat /\ g[i].at <= e.at
  <2> SUFFICES ASSUME NEW i \in By(g, f) PROVE g[i].at \in Nat /\ g[i].at <= e.at
    OBVIOUS
  <2>1. i \in 1 .. Len(g)
    BY <1>11
  <2>2. HeardOK(g, e.at)
    BY HearsIs
  <2> QED BY <1>2, <2>1, <2>2, AtNat DEF HeardOK
<1>14. /\ DOMAIN used = DOMAIN old \cup {e.channel} /\ used[e.channel] = e.at
       /\ \A c \in DOMAIN old : c # e.channel => used[c] = old[c]
  BY <1>6 DEF Put
<1>15. \A c \in DOMAIN used : \E i \in By(g, f) : g[i].channel = c /\ g[i].at = used[c]
  <2> SUFFICES ASSUME NEW c \in DOMAIN used
               PROVE  \E i \in By(g, f) : g[i].channel = c /\ g[i].at = used[c]
    OBVIOUS
  <2>1. CASE c = e.channel
    BY <1>4, <1>10, <1>14, <2>1
  <2>2. CASE c # e.channel
    <3>1. c \in DOMAIN old /\ used[c] = old[c]
      BY <1>14, <2>2
    <3>2. PICK i \in By(h, f) : h[i].channel = c /\ h[i].at = old[c]
      BY <1>12, <3>1
    <3> QED BY <1>4, <1>10, <1>11, <3>1, <3>2
  <2> QED BY <2>1, <2>2
<1>16. \A i \in By(g, f) : \/ g[i].channel \in DOMAIN used /\ g[i].at <= used[g[i].channel]
                           \/ e.at - g[i].at > w
  <2> SUFFICES ASSUME NEW i \in By(g, f)
               PROVE  \/ g[i].channel \in DOMAIN used /\ g[i].at <= used[g[i].channel]
                      \/ e.at - g[i].at > w
    OBVIOUS
  <2>1. CASE g[i].channel = e.channel
    BY <1>13, <1>14, <2>1
  <2>2. CASE g[i].channel # e.channel
    <3>1. i \in By(h, f) /\ g[i] = h[i]
      BY <1>4, <1>10, <1>11, <2>2
    <3> QED BY <1>12, <1>14, <2>2, <3>1
  <2> QED BY <2>1, <2>2
<1>17. \A c \in DOMAIN used : used[c] \in Nat
  BY <1>13, <1>15
<1>18. DOMAIN v = late /\ \A c \in late : v[c] = used[c] /\ c \in DOMAIN used
  BY <1>7, <1>8
<1>19. ChannelsOK(v, g, f, e.at)
  <2>1. \A c \in DOMAIN v : \E i \in By(g, f) : g[i].channel = c /\ g[i].at = v[c]
    BY <1>15, <1>18
  <2>2. ASSUME NEW i \in By(g, f)
        PROVE  \/ g[i].channel \in DOMAIN v /\ g[i].at <= v[g[i].channel]
               \/ e.at - g[i].at > Window.hour
    <3>1. CASE g[i].channel \in late
      BY <1>1, <1>16, <1>18, <3>1
    <3>2. CASE g[i].channel \in DOMAIN used /\ g[i].channel \notin late
      <4>1. used[g[i].channel] < e.at - w
        BY <1>2, <1>7, <1>17, <3>2
      <4>2. g[i].at <= used[g[i].channel] \/ e.at - g[i].at > w
        BY <1>16
      <4> QED BY <1>1, <1>2, <1>13, <1>17, <3>2, <4>1, <4>2
    <3>3. CASE g[i].channel \notin DOMAIN used
      BY <1>1, <1>16, <3>3
    <3> QED BY <3>1, <3>2, <3>3
  <2> QED BY <2>1, <2>2 DEF ChannelsOK
<1>20. m[f] = v /\ At(m, f, <<>>) = v /\ \A j : j # f => At(m, j, <<>>) = At(a.nodeChannels, j, <<>>)
  <2>1. Entered(m, a.nodeChannels, f, v)
    BY <1>9, PutIs
  <2> QED BY <2>1 DEF Entered, At
<1>21. ASSUME NEW j \in Senders PROVE ChannelsOK(At(m, j, <<>>), g, j, e.at)
  <2>1. CASE j = f
    BY <1>19, <1>20, <2>1
  <2>2. CASE j # f
    <3>1. PICK u : u = At(a.nodeChannels, j, <<>>) /\ u = At(m, j, <<>>)
      BY <1>20, <2>2
    <3>2. ChannelsOK(u, h, j, e.at)
      BY <3>1
    <3>3. By(g, j) = By(h, j) /\ \A i \in By(h, j) : g[i] = h[i]
      BY <1>4, <1>10, <1>11, <2>2
    <3>4. ChannelsOK(u, g, j, e.at)
      BY <3>2, <3>3 DEF ChannelsOK
    <3> QED BY <3>1, <3>4
  <2> QED BY <2>1, <2>2
<1>22. late = {g[i].channel : i \in Recently(By(g, f), g, e.at, w)}
  <2>1. ASSUME NEW c \in late PROVE c \in {g[i].channel : i \in Recently(By(g, f), g, e.at, w)}
    <3>1. c \in DOMAIN used /\ used[c] >= e.at - w
      BY <1>7
    <3>2. PICK i \in By(g, f) : g[i].channel = c /\ g[i].at = used[c]
      BY <1>15, <3>1
    <3>3. e.at - g[i].at <= w
      BY <1>2, <1>13, <3>1, <3>2
    <3> QED BY <3>2, <3>3 DEF Recently
  <2>2. ASSUME NEW i \in Recently(By(g, f), g, e.at, w) PROVE g[i].channel \in late
    <3>1. i \in By(g, f) /\ e.at - g[i].at <= w /\ g[i].at \in Nat
      BY <1>13 DEF Recently
    <3>2. g[i].channel \in DOMAIN used /\ g[i].at <= used[g[i].channel]
      BY <1>2, <1>16, <3>1
    <3>3. used[g[i].channel] >= e.at - w
      BY <1>2, <1>17, <3>1, <3>2
    <3> QED BY <1>7, <3>2, <3>3
  <2> QED BY <2>1, <2>2
<1> QED BY <1>1, <1>18, <1>20, <1>21, <1>22

----------------------------------------------------------------------------
(* Conversations.                                                           *)

(* What a packet between the ends of T finds, there or not.                 *)
Begun(p, T, h, t) ==
  /\ DOMAIN p = {"count", "first", "tx"}
  /\ p.count = Cardinality(T)
  /\ (T = {} /\ p.first = t) \/ \E i \in T : p.first = h[i].at
  /\ p.first <= t /\ \A i \in T : p.first <= h[i].at
  /\ DOMAIN p.tx = {h[i].from : i \in T}
  /\ \A n \in DOMAIN p.tx : p.tx[n] = Cardinality({i \in T : h[i].from = n})

LEMMA ConversationMore ==
  ASSUME NEW h, NEW e, NEW g, Hears(h, e, g), NEW T \in SUBSET (1 .. Len(h)), NEW U, U = T \cup {Len(h) + 1},
         NEW p, Begun(p, T, h, e.at), NEW q,
         q = [p EXCEPT !.count = @ + 1, !.tx = Put(@, e.from, At(@, e.from, 0) + 1)]
  PROVE  Conversation(q, U, g)
<1>1. PICK n : n = Len(h) + 1
  OBVIOUS
<1>2. /\ e.at \in Nat /\ g[n] = e /\ n \notin 1 .. Len(h) /\ Len(h) \in Nat
      /\ \A i \in 1 .. Len(h) : g[i] = h[i]
  BY <1>1, HearsIs
<1>3. n \notin T /\ U = T \cup {n} /\ \A i \in T : g[i] = h[i]
  BY <1>1, <1>2
<1>4. IsFiniteSet(T)
  <2>1. PICK l \in Nat : l = Len(h)
    BY <1>2
  <2>2. IsFiniteSet(1 .. l)
    <3>1. l \in Nat
      OBVIOUS
    <3> QED BY ONLY <3>1, FS_Interval
  <2>3. T \in SUBSET (1 .. l)
    BY <2>1
  <2> QED BY <2>2, <2>3, FS_Subset
<1>5. /\ DOMAIN q = {"count", "first", "tx"} /\ q.count = p.count + 1 /\ q.first = p.first
      /\ q.tx = Put(p.tx, e.from, At(p.tx, e.from, 0) + 1)
  BY DEF Begun
<1>6. q.count = Cardinality(U)
  <2>1. Cardinality(T \cup {n}) = Cardinality(T) + 1
    BY <1>3, <1>4, FS_AddElement
  <2>2. p.count = Cardinality(T)
    BY DEF Begun
  <2> QED BY <1>3, <1>5, <2>1, <2>2
<1>7. \E i \in U : q.first = g[i].at
  <2>1. CASE T = {} /\ p.first = e.at
    BY <1>2, <1>3, <1>5, <2>1
  <2>2. CASE \E i \in T : p.first = h[i].at
    BY <1>3, <1>5, <2>2
  <2> QED BY <2>1, <2>2 DEF Begun
<1>8. \A i \in U : q.first <= g[i].at
  BY <1>2, <1>3, <1>5 DEF Begun
<1>9. PICK tx, c : tx = p.tx /\ c = At(tx, e.from, 0) + 1
  OBVIOUS
<1>10. /\ DOMAIN q.tx = DOMAIN tx \cup {e.from} /\ q.tx[e.from] = c
       /\ \A k \in DOMAIN tx : k # e.from => q.tx[k] = tx[k]
  BY <1>5, <1>9 DEF Put
<1>11. DOMAIN tx = {h[i].from : i \in T}
  BY <1>9 DEF Begun
<1>12. DOMAIN q.tx = {g[i].from : i \in U}
  <2>1. {g[i].from : i \in U} = {g[i].from : i \in T} \cup {g[n].from}
    BY <1>3
  <2>2. {g[i].from : i \in T} = {h[i].from : i \in T}
    BY <1>3
  <2> QED BY <1>2, <1>10, <1>11, <2>1, <2>2
<1>13. \A k : {i \in T : g[i].from = k} = {i \in T : h[i].from = k}
  BY <1>3
<1>14. ASSUME NEW k \in DOMAIN q.tx PROVE q.tx[k] = Cardinality({i \in U : g[i].from = k})
  <2>1. PICK V : V = {i \in T : h[i].from = k}
    OBVIOUS
  <2>2. CASE k = e.from
    <3>1. {i \in U : g[i].from = k} = V \cup {n}
      BY <1>2, <1>3, <1>13, <2>1, <2>2
    <3>2. IsFiniteSet(V) /\ n \notin V
      BY <1>3, <1>4, <2>1, FS_Subset
    <3>3. Cardinality(V \cup {n}) = Cardinality(V) + 1
      BY <3>2, FS_AddElement
    <3>4. At(tx, k, 0) = Cardinality(V)
      <4>1. CASE k \in DOMAIN tx
        BY <1>9, <2>1, <4>1 DEF At, Begun
      <4>2. CASE k \notin DOMAIN tx
        <5>1. V = {}
          BY <1>11, <2>1, <4>2
        <5>2. Cardinality(V) = 0
          BY <5>1, FS_EmptySet
        <5> QED BY <4>2, <5>2 DEF At
      <4> QED BY <4>1, <4>2
    <3> QED BY <1>9, <1>10, <2>2, <3>1, <3>3, <3>4
  <2>3. CASE k # e.from
    <3>1. {i \in U : g[i].from = k} = V
      BY <1>2, <1>3, <1>13, <2>1, <2>3
    <3>2. k \in DOMAIN tx /\ q.tx[k] = tx[k]
      BY <1>10, <2>3
    <3> QED BY <1>9, <2>1, <3>1, <3>2 DEF Begun
  <2> QED BY <2>2, <2>3
<1> QED BY <1>5, <1>6, <1>7, <1>8, <1>12, <1>14 DEF Conversation

LEMMA PairsStep ==
  ASSUME NEW h, NEW e, NEW g, Hears(h, e, g), NEW a, DOMAIN a = AnomFields, PairsOK(a.pairs, h),
         NEW m, m = Pair(a, e).pairs
  PROVE  PairsOK(m, g) /\ (Unicast(e) => Ends(e) \in DOMAIN m)
<1>1. PICK k : k = Ends(e)
  OBVIOUS
<1>2. /\ k \in AllEnds /\ e.at \in Nat /\ h \in Seq(Events)
      /\ \A i \in 1 .. Len(h) : g[i] = h[i]
  <2>1. k \in AllEnds /\ e.at \in Nat /\ h \in Seq(Events)
    BY <1>1, HearsIs, FieldsAre
  <2>2. \A i \in 1 .. Len(h) : g[i] = h[i]
    BY HearsIs
  <2> QED BY <2>1, <2>2
<1>3. \A j : Between(h, j) \in SUBSET (1 .. Len(h))
  BY BetweenMore
<1>4. ASSUME NEW j, NEW p, Conversation(p, Between(h, j), h)
      PROVE  Conversation(p, Between(h, j), g)
  <2>1. PICK T : T = Between(h, j)
    OBVIOUS
  <2>2. \A i \in T : g[i] = h[i]
    BY <1>2, <1>3, <2>1
  <2>3. /\ {g[i].from : i \in T} = {h[i].from : i \in T}
        /\ \A n : {i \in T : g[i].from = n} = {i \in T : h[i].from = n}
    BY <2>2
  <2>4. Conversation(p, T, h)
    BY <1>4, <2>1
  <2>5. Conversation(p, T, g)
    BY <2>2, <2>3, <2>4 DEF Conversation
  <2> QED BY <2>1, <2>5
<1>5. CASE ~ Unicast(e)
  <2>1. m = a.pairs
    BY <1>5 DEF Pair
  <2>2. \A j : Between(g, j) = Between(h, j)
    BY <1>5, BetweenMore
  <2> QED BY <1>4, <1>5, <2>1, <2>2 DEF PairsOK
<1>6. CASE Unicast(e)
  <2>1. PICK p : p = At(a.pairs, k, [count |-> 0, first |-> e.at, tx |-> <<>>])
    OBVIOUS
  <2>2. PICK q : q = [p EXCEPT !.count = @ + 1, !.tx = Put(@, e.from, At(@, e.from, 0) + 1)]
    OBVIOUS
  <2>3. m = Put(a.pairs, k, q)
    BY <1>1, <1>6, <2>1, <2>2 DEF Pair, AnomFields
  <2>4. PICK T, U : T = Between(h, k) /\ U = Between(g, k)
    OBVIOUS
  <2>5. T \in SUBSET (1 .. Len(h)) /\ U = T \cup {Len(h) + 1} /\ U # {}
    BY <1>1, <1>6, <2>4, BetweenMore
  <2>6. \A j : j # k => Between(g, j) = Between(h, j)
    BY <1>1, BetweenMore
  <2>7. Begun(p, T, h, e.at)
    <3>1. CASE k \in DOMAIN a.pairs
      <4>1. p = a.pairs[k] /\ Conversation(p, T, h)
        BY <1>2, <2>1, <2>4, <3>1 DEF At, PairsOK
      <4>2. p.first <= e.at
        <5>1. PICK i \in T : p.first = h[i].at
          BY <4>1 DEF Conversation
        <5>2. HeardOK(h, e.at)
          BY DEF Hears
        <5>3. i \in 1 .. Len(h)
          BY <2>5
        <5> QED BY <5>1, <5>2, <5>3 DEF HeardOK
      <4> QED BY <4>1, <4>2 DEF Conversation, Begun
    <3>2. CASE k \notin DOMAIN a.pairs
      <4>1. T = {}
        BY <1>2, <2>4, <3>2 DEF PairsOK
      <4>2. PICK s : s = <<>>
        OBVIOUS
      <4>3. p = [count |-> 0, first |-> e.at, tx |-> s] /\ DOMAIN s = {}
        BY <2>1, <3>2, <4>2 DEF At
      <4>4. DOMAIN p = {"count", "first", "tx"} /\ p.count = 0 /\ p.first = e.at /\ p.tx = s
        BY <4>3
      <4>5. Cardinality({}) = 0
        BY FS_EmptySet
      <4> QED BY <1>2, <4>1, <4>3, <4>4, <4>5 DEF Begun
    <3> QED BY <3>1, <3>2
  <2>8. Conversation(q, U, g)
    BY <2>2, <2>5, <2>7, ConversationMore
  <2>9. /\ DOMAIN m = DOMAIN a.pairs \cup {k} /\ m[k] = q
        /\ \A j \in DOMAIN a.pairs : j # k => m[j] = a.pairs[j]
    BY <2>3 DEF Put
  <2>10. ASSUME NEW j \in AllEnds
         PROVE  /\ j \in DOMAIN m <=> Between(g, j) # {}
                /\ j \in DOMAIN m => Conversation(m[j], Between(g, j), g)
    <3>1. CASE j = k
      BY <2>4, <2>5, <2>8, <2>9, <3>1
    <3>2. CASE j # k
      <4>1. Between(g, j) = Between(h, j) /\ (j \in DOMAIN m <=> j \in DOMAIN a.pairs)
        BY <2>6, <2>9, <3>2
      <4>2. /\ j \in DOMAIN a.pairs <=> Between(h, j) # {}
            /\ j \in DOMAIN a.pairs => Conversation(a.pairs[j], Between(h, j), h)
        BY DEF PairsOK
      <4>3. j \in DOMAIN m => m[j] = a.pairs[j]
        BY <2>9, <3>2
      <4> QED BY <1>4, <4>1, <4>2, <4>3
    <3> QED BY <3>1, <3>2
  <2>11. k \in DOMAIN m
    BY <2>9
  <2> QED BY <1>1, <2>10, <2>11 DEF PairsOK
<1> QED BY <1>5, <1>6

----------------------------------------------------------------------------
(* The reference definitions, over the same sets of packets.                *)
LEMMA PacketSets ==
  ASSUME NEW h, NEW e, NEW g, Hears(h, e, g)
  PROVE  /\ \A w : Within(g, w) = Recently(By(g, e.from), g, e.at, w)
         /\ \A w : e.id # 0 =>
              Same(g) \cap Within(g, w) = Recently(WithId(g, Id(e)), g, e.at, w)
         /\ \A w : {i \in DOMAIN g : e.at - g[i].at <= w} = Recently(1 .. Len(g), g, e.at, w)
         /\ \A w : {i \in {j \in DOMAIN g : e.at - g[j].at <= w} : g[i].encrypted}
                     = Recently(Secret(g), g, e.at, w)
<1>1. Last(g) = e /\ DOMAIN g = 1 .. Len(g)
  BY HearsIs
<1>2. \A w : Within(g, w) = Recently(By(g, e.from), g, e.at, w)
  BY <1>1 DEF Within, Recently, By
<1>3. Same(g) = {i \in 1 .. Len(g) : Id(g[i]) = Id(e)}
  BY <1>1 DEF Same
<1>4. ASSUME e.id # 0, NEW i, Id(g[i]) = Id(e) PROVE g[i].from = e.from /\ g[i].id # 0
  BY <1>4 DEF Id
<1>5. ASSUME NEW w, e.id # 0
      PROVE  Same(g) \cap Within(g, w) = Recently(WithId(g, Id(e)), g, e.at, w)
  <2>1. PICK k : k = Id(e)
    OBVIOUS
  <2>2. Within(g, w) = {i \in 1 .. Len(g) : g[i].from = e.from /\ e.at - g[i].at <= w}
    BY <1>1 DEF Within
  <2> QED BY <1>3, <1>4, <1>5, <2>1, <2>2 DEF Recently, WithId
<1>6. \A w : {i \in DOMAIN g : e.at - g[i].at <= w} = Recently(1 .. Len(g), g, e.at, w)
  BY <1>1 DEF Recently
<1>7. \A w : {i \in {j \in DOMAIN g : e.at - g[j].at <= w} : g[i].encrypted}
               = Recently(Secret(g), g, e.at, w)
  BY <1>1 DEF Recently, Secret
<1> QED BY <1>2, <1>5, <1>6, <1>7

(* The packets between the two ends of e were all for one of them alone.    *)
LEMMA TalkIs ==
  ASSUME NEW h, NEW e, NEW g, Hears(h, e, g), Unicast(e)
  PROVE  Talk(g) = Between(g, Ends(e))
<1>1. Last(g) = e /\ DOMAIN g = 1 .. Len(g) /\ g \in Seq(Events) /\ EventFact(e)
  BY HearsIs
<1>2. ASSUME NEW i \in 1 .. Len(g), Ends(g[i]) = Ends(e) PROVE Unicast(g[i])
  <2>1. EventFact(g[i])
    BY <1>1, AtNat
  <2>2. g[i].from # 0 /\ e.from # 0
    BY <1>1, <2>1, FieldsAre
  <2>3. {g[i].from, g[i].to} = {e.from, e.to} /\ e.to # 0 /\ e.to # e.from
    BY <1>2 DEF Ends, Unicast
  <2> QED BY <2>2, <2>3 DEF Unicast
<1> QED BY <1>1, <1>2 DEF Talk, Between

(* Heard over both ways: the flags of the packets are all the flags.        *)
LEMMA BothWays ==
  ASSUME NEW h, NEW e, NEW g, Hears(h, e, g), NEW w
  PROVE  {g[i].mqtt : i \in Recently(By(g, e.from), g, e.at, w)} = BOOLEAN
           <=> \A way \in Ways : Recently(OverWay(g, e.from, way), g, e.at, w) # {}
<1>1. PICK B, f : B = Recently(By(g, e.from), g, e.at, w) /\ f = e.from
  OBVIOUS
<1>2. g \in Seq(Events) /\ \A i \in 1 .. Len(g) : g[i].mqtt \in BOOLEAN
  BY HearsIs, AtNat, FieldsAre
<1>3. \A i \in B : i \in 1 .. Len(g)
  BY <1>1 DEF Recently, By
<1>4. \A way : Recently(OverWay(g, f, way), g, e.at, w) = {i \in B : g[i].mqtt = (way = "mqtt")}
  BY <1>1 DEF Recently, By, OverWay
<1>5. {g[i].mqtt : i \in B} = BOOLEAN <=> (\E i \in B : g[i].mqtt) /\ \E i \in B : ~ g[i].mqtt
  BY <1>2, <1>3
<1>6. (\E i \in B : g[i].mqtt) <=> Recently(OverWay(g, f, "mqtt"), g, e.at, w) # {}
  BY <1>2, <1>3, <1>4
<1>7. (\E i \in B : ~ g[i].mqtt) <=> Recently(OverWay(g, f, "radio"), g, e.at, w) # {}
  <2>1. ("radio" = "mqtt") = FALSE
    OBVIOUS
  <2>2. \A i \in B : g[i].mqtt = ("radio" = "mqtt") <=> ~ g[i].mqtt
    BY <1>2, <1>3, <2>1
  <2>3. PICK C : C = Recently(OverWay(g, f, "radio"), g, e.at, w)
    OBVIOUS
  <2>4. C = {i \in B : g[i].mqtt = ("radio" = "mqtt")}
    BY <1>4, <2>3
  <2> QED BY <2>2, <2>3, <2>4
<1> QED BY <1>1, <1>5, <1>6, <1>7 DEF Ways

----------------------------------------------------------------------------
(* When each detector has to fire, over the packets h, the last of them e.  *)
SpamDue(h, e) == Cardinality(Within(h, Window.minute)) > Limit.spam
JumpDue(h, e) ==
  e.snr # 0 /\ \E i \in Previous(h, "snr") :
    e.at - h[i].at \in 1 .. Window.jump - 1 /\ Gap(h[i].snr, e.snr) >= Limit.jump
LoopDue(h, e) ==
  e.id # 0 /\ Cardinality(Same(h) \cap Within(h, Window.minute)) >= Limit.loop
GhostDue(e, known) == e.relay # 0 /\ e.relay \notin {Byte[n] : n \in known}
MirrorDue(h) == {h[i].mqtt : i \in Within(h, Window.minute)} = BOOLEAN
CrossDue(h) == Cardinality({h[i].channel : i \in Within(h, Window.hour)}) > 1
Lately(h, e) == {i \in DOMAIN h : e.at - h[i].at <= Window.hour}
SpikeDue(h, e) ==
  /\ Cardinality(Lately(h, e)) >= Limit.sample
  /\ 100 * Cardinality({i \in Lately(h, e) : h[i].encrypted})
       >= Limit.percent * Cardinality(Lately(h, e))
FloodDue(h, e) ==
  Unicast(e) /\ Cardinality(Talk(h)) >= Limit.flood
  /\ \A i \in Talk(h) : e.at - h[i].at <= Window.flood
SkewDue(h, e) ==
  Unicast(e) /\ Cardinality(Talk(h)) >= Limit.skew
  /\ \E n \in Ends(e) : 100 * Cardinality({i \in Talk(h) : h[i].from = n})
                           >= Limit.skewPercent * Cardinality(Talk(h))
TeleportDue(h, e) ==
  e.pos # 0 /\ \E i \in Previous(h, "pos") :
    LET km == Km[h[i].pos, e.pos] IN
      e.at > h[i].at /\ km >= Limit.far /\ km >= Limit.fast * (e.at - h[i].at)

LEMMA FloodIs ==
  ASSUME NEW h, NEW e, NEW g, Hears(h, e, g), NEW a, PairsOK(a.pairs, g),
         Unicast(e) => Ends(e) \in DOMAIN a.pairs
  PROVE  Floods(a, e) <=> FloodDue(g, e)
<1> SUFFICES ASSUME Unicast(e) PROVE Floods(a, e) <=> FloodDue(g, e)
  BY DEF Floods, FloodDue
<1>1. PICK p, T : p = a.pairs[Ends(e)] /\ T = Between(g, Ends(e))
  OBVIOUS
<1>2. Ends(e) \in AllEnds /\ e.at \in Nat /\ g \in Seq(Events)
  BY HearsIs, FieldsAre
<1>3. Conversation(p, T, g)
  BY <1>1, <1>2 DEF PairsOK
<1>4. Talk(g) = T
  BY <1>1, TalkIs
<1>5. \A i \in T : g[i].at \in Nat
  <2>1. \A i \in T : i \in 1 .. Len(g)
    BY <1>1 DEF Between
  <2> QED BY <1>2, <2>1, AtNat
<1>6. p.count = Cardinality(T)
  BY <1>3 DEF Conversation
<1>7. Window.flood \in Nat
  BY WindowsNat
<1>8. e.at - p.first <= Window.flood <=> \A i \in T : e.at - g[i].at <= Window.flood
  <2>1. PICK i \in T : p.first = g[i].at
    BY <1>3 DEF Conversation
  <2>2. \A j \in T : p.first <= g[j].at
    BY <1>3 DEF Conversation
  <2>3. \A j \in T : e.at - g[j].at <= e.at - p.first
    BY <1>2, <1>5, <2>1, <2>2
  <2>4. p.first \in Nat
    BY <1>5, <2>1
  <2> QED BY <1>2, <1>5, <1>7, <2>1, <2>3, <2>4
<1>9. Floods(a, e) <=> p.count >= Limit.flood /\ e.at - p.first <= Window.flood
  BY <1>1 DEF Floods
<1>10. FloodDue(g, e) <=> /\ Cardinality(T) >= Limit.flood
                          /\ \A i \in T : e.at - g[i].at <= Window.flood
  BY <1>4 DEF FloodDue
<1> QED BY <1>6, <1>8, <1>9, <1>10

(* An end that sent nothing has no entry and no share: it exceeds the limit *)
(* only when every end does.                                                *)
LEMMA SkewIs ==
  ASSUME NEW h, NEW e, NEW g, Hears(h, e, g), NEW a, PairsOK(a.pairs, g),
         Unicast(e) => Ends(e) \in DOMAIN a.pairs
  PROVE  Skewed(a, e) <=> SkewDue(g, e)
<1> SUFFICES ASSUME Unicast(e) PROVE Skewed(a, e) <=> SkewDue(g, e)
  BY DEF Skewed, SkewDue
<1>1. PICK p, T : p = a.pairs[Ends(e)] /\ T = Between(g, Ends(e))
  OBVIOUS
<1>2. Ends(e) \in AllEnds /\ g \in Seq(Events) /\ Len(g) \in Nat
  BY HearsIs, FieldsAre
<1>3. Conversation(p, T, g)
  BY <1>1, <1>2 DEF PairsOK
<1>4. Talk(g) = T
  BY <1>1, TalkIs
<1>5. p.count = Cardinality(T) /\ DOMAIN p.tx = {g[i].from : i \in T} /\ T # {}
  BY <1>3 DEF Conversation
<1>6. \A n \in DOMAIN p.tx : p.tx[n] = Cardinality({i \in T : g[i].from = n})
  BY <1>3 DEF Conversation
<1>7. IsFiniteSet(T)
  <2>1. PICK l \in Nat : l = Len(g)
    BY <1>2
  <2>2. IsFiniteSet(1 .. l) /\ T \in SUBSET (1 .. l)
    BY <1>1, <2>1, FS_Interval DEF Between
  <2> QED BY <2>2, FS_Subset
<1>8. DOMAIN p.tx \subseteq Ends(e)
  <2>1. \A i \in T : Ends(g[i]) = Ends(e)
    BY <1>1 DEF Between
  <2> QED BY <1>5, <2>1 DEF Ends
<1>9. \A n : Cardinality({i \in T : g[i].from = n}) \in Nat
  <2> SUFFICES ASSUME NEW n PROVE Cardinality({i \in T : g[i].from = n}) \in Nat
    OBVIOUS
  <2>1. PICK V : V = {i \in T : g[i].from = n}
    OBVIOUS
  <2>2. IsFiniteSet(V)
    BY <1>7, <2>1, FS_Subset
  <2>3. Cardinality(V) \in Nat
    BY <2>2, FS_CardinalityType
  <2> QED BY <2>1, <2>3
<1>10. PICK share : share = Limit.skewPercent * Cardinality(T)
  OBVIOUS
<1>11. \A n \in DOMAIN p.tx : p.tx[n] \in Nat
  BY <1>6, <1>9
<1>12. \E n : n \in DOMAIN p.tx
  BY <1>5
<1>13. ASSUME NEW n \in Ends(e), n \notin DOMAIN p.tx,
              100 * Cardinality({i \in T : g[i].from = n}) >= share
       PROVE  \E m \in DOMAIN p.tx : 100 * p.tx[m] >= share
  <2>1. {i \in T : g[i].from = n} = {}
    BY <1>5, <1>13
  <2>2. Cardinality({i \in T : g[i].from = n}) = 0
    BY <2>1, FS_EmptySet
  <2>3. 0 >= share
    BY <1>13, <2>2
  <2>4. share \in Int
    <3>1. Cardinality(T) \in Nat
      BY <1>7, FS_CardinalityType
    <3> QED BY <1>10, <3>1, WindowsNat
  <2> QED BY <1>11, <1>12, <2>3, <2>4
<1>14. (\E n \in DOMAIN p.tx : 100 * p.tx[n] >= share)
         <=> \E n \in Ends(e) : 100 * Cardinality({i \in T : g[i].from = n}) >= share
  <2>1. ASSUME NEW n \in DOMAIN p.tx, 100 * p.tx[n] >= share
        PROVE  \E m \in Ends(e) : 100 * Cardinality({i \in T : g[i].from = m}) >= share
    BY <1>6, <1>8, <2>1
  <2>2. ASSUME NEW n \in Ends(e), 100 * Cardinality({i \in T : g[i].from = n}) >= share
        PROVE  \E m \in DOMAIN p.tx : 100 * p.tx[m] >= share
    BY <1>6, <1>13, <2>2
  <2> QED BY <2>1, <2>2
<1>15. Skewed(a, e) <=> /\ Cardinality(T) >= Limit.skew
                        /\ \E n \in DOMAIN p.tx : 100 * p.tx[n] >= share
  BY <1>1, <1>5, <1>10 DEF Skewed
<1>16. SkewDue(g, e) <=>
         /\ Cardinality(T) >= Limit.skew
         /\ \E n \in Ends(e) : 100 * Cardinality({i \in T : g[i].from = n}) >= share
  BY <1>4, <1>10 DEF SkewDue
<1> QED BY <1>14, <1>15, <1>16

----------------------------------------------------------------------------
(* The calls, one detector at a time.                                       *)
Found(type, key, on) == IF on THEN {[type |-> type, key |-> key]} ELSE {}

Wanted(h, e, known) == UNION {
  Found("spammer", e.from, SpamDue(h, e)),
  Found("snr_jump", e.from, JumpDue(h, e)),
  Found("routing_loop", Id(e), LoopDue(h, e)),
  Found("ghost_relay", <<e.relay>>, GhostDue(e, known)),
  Found("mqtt_mirror", e.from, MirrorDue(h)),
  Found("cross_channel", e.from, CrossDue(h)),
  Found("encrypted_spike", <<>>, SpikeDue(h, e)),
  Found("hop_violation", e.from, e.start \in 1 .. e.limit - 1),
  Found("pair_flood", Ends(e), FloodDue(h, e)),
  Found("pair_skew", Ends(e), SkewDue(h, e)),
  Found("gps_teleport", e.from, TeleportDue(h, e))}

(* Known are the nodes met otherwise and the senders heard since the start. *)
HeardFrom(h) == {h[i].from : i \in DOMAIN h}
KnownOK == anom.known = met \cup HeardFrom(heard)

MustFireFact == MustFire(heard) = Wanted(heard, Last(heard), met \cup HeardFrom(heard))

LEMMA MustFireIs == MustFireFact
  BY Zenon DEF MustFireFact, MustFire, Wanted, Found, SpamDue, JumpDue, LoopDue, GhostDue,
     MirrorDue, CrossDue, Lately, SpikeDue, FloodDue, SkewDue, TeleportDue, HeardFrom

(* What DetectorsAreExact says, of any packets, calls and known nodes.      *)
Others(calls) == {c \in calls : c.type # "id_reuse"}
ExactOK(h, calls, known) == h # <<>> => Others(calls) = Wanted(h, Last(h), known)

ExactFact == KnownOK => (DetectorsAreExact <=> ExactOK(heard, fired, anom.known))

LEMMA ExactIs == ExactFact
<1> SUFFICES ASSUME KnownOK PROVE DetectorsAreExact <=> ExactOK(heard, fired, anom.known)
  BY DEF ExactFact
<1>1. MustFire(heard) = Wanted(heard, Last(heard), anom.known)
  BY MustFireIs DEF MustFireFact, KnownOK
<1> QED BY <1>1 DEF DetectorsAreExact, ExactOK, Others

LEMMA OthersAre ==
  ASSUME NEW b, NEW a, NEW e, EventFact(e), NEW v, v = Verdicts(b, a, e)
  PROVE  Others(Calls(v)) = UNION {
           Found("spammer", e.from, v[1].on), Found("snr_jump", e.from, v[2].on),
           Found("routing_loop", Id(e), v[3].on), Found("ghost_relay", <<e.relay>>, v[4].on),
           Found("mqtt_mirror", e.from, v[5].on), Found("cross_channel", e.from, v[6].on),
           Found("encrypted_spike", <<>>, v[7].on), Found("hop_violation", e.from, v[8].on),
           Found("pair_flood", Ends(e), v[10].on), Found("pair_skew", Ends(e), v[11].on),
           Found("gps_teleport", e.from, v[12].on)}
<1>1. DOMAIN v = 1 .. 12 /\ \A i \in 1 .. 12 : v[i].type = "id_reuse" <=> i = 9
  BY VerdictsAre
<1>2. /\ v[1].type = "spammer" /\ v[1].key = e.from
      /\ v[2].type = "snr_jump" /\ v[2].key = e.from
      /\ v[3].type = "routing_loop" /\ v[3].key = Id(e)
      /\ v[4].type = "ghost_relay" /\ v[4].key = <<e.relay>>
      /\ v[5].type = "mqtt_mirror" /\ v[5].key = e.from
      /\ v[6].type = "cross_channel" /\ v[6].key = e.from
  BY DEF Verdicts
<1>3. /\ v[7].type = "encrypted_spike" /\ v[7].key = <<>>
      /\ v[8].type = "hop_violation" /\ v[8].key = e.from
      /\ v[10].type = "pair_flood" /\ v[10].key = Ends(e)
      /\ v[11].type = "pair_skew" /\ v[11].key = Ends(e)
      /\ v[12].type = "gps_teleport" /\ v[12].key = e.from
  BY DEF Verdicts
<1>4. ASSUME NEW i \in 1 .. 12
      PROVE  Found(v[i].type, v[i].key, v[i].on) = IF v[i].on THEN {Call(v[i])} ELSE {}
  BY Zenon DEF Found, Call
<1> DEFINE D(i) == Found(v[i].type, v[i].key, v[i].on)
           I == (1 .. 12) \ {9}
<1>5. Others(Calls(v)) = UNION {D(i) : i \in I}
  <2>1. ASSUME NEW c \in Others(Calls(v)) PROVE \E i \in I : c \in D(i)
    <3>1. PICK i \in 1 .. 12 : v[i].on /\ c = Call(v[i])
      BY <1>1, <2>1 DEF Others, Calls
    <3>2. c.type = v[i].type /\ c.type # "id_reuse"
      BY <2>1, <3>1 DEF Others, Call
    <3>3. i # 9
      BY <1>1, <3>2
    <3> QED BY <1>4, <3>1, <3>3
  <2>2. ASSUME NEW i \in I, NEW c \in D(i) PROVE c \in Others(Calls(v))
    <3>1. v[i].on /\ c = Call(v[i])
      BY <1>4, <2>2
    <3>2. c.type = v[i].type
      BY <3>1 DEF Call
    <3>3. c \in Calls(v)
      BY <1>1, <3>1 DEF Calls
    <3> QED BY <1>1, <3>2, <3>3 DEF Others
  <2> QED BY <2>1, <2>2
<1>6. UNION {D(i) : i \in I} = UNION {D(1), D(2), D(3), D(4), D(5), D(6), D(7), D(8), D(10), D(11), D(12)}
  <2>1. I = {1, 2, 3, 4, 5, 6, 7, 8, 10, 11, 12}
    OBVIOUS
  <2> HIDE DEF D
  <2>2. {D(i) : i \in I} = {D(1), D(2), D(3), D(4), D(5), D(6), D(7), D(8), D(10), D(11), D(12)}
    BY <2>1, SMT
  <2> QED BY <2>2
<1> QED BY <1>2, <1>3, <1>5, <1>6

LEMMA OnAre ==
  ASSUME NEW b, NEW a, NEW e, NEW v, v = Verdicts(b, a, e)
  PROVE  /\ v[1].on <=> Spams(a, e)
         /\ v[2].on <=> Jumps(b, e)
         /\ v[3].on <=> Loops(a, e)
         /\ v[4].on <=> Ghost(a, e)
         /\ v[5].on <=> Mirrors(a, e)
         /\ v[6].on <=> Crosses(a, e)
         /\ v[7].on <=> Spikes(a)
         /\ v[8].on <=> HopViolation(e)
         /\ v[10].on <=> Floods(a, e)
         /\ v[11].on <=> Skewed(a, e)
         /\ v[12].on <=> Teleports(b, e)
<1>1. v[1].on <=> Spams(a, e)
  BY Zenon DEF Verdicts
<1>2. v[2].on <=> Jumps(b, e)
  BY Zenon DEF Verdicts
<1>3. v[3].on <=> Loops(a, e)
  BY Zenon DEF Verdicts
<1>4. v[4].on <=> Ghost(a, e)
  BY Zenon DEF Verdicts
<1>5. v[5].on <=> Mirrors(a, e)
  BY Zenon DEF Verdicts
<1>6. v[6].on <=> Crosses(a, e)
  BY Zenon DEF Verdicts
<1>7. v[7].on <=> Spikes(a)
  BY Zenon DEF Verdicts
<1>8. v[8].on <=> HopViolation(e)
  BY Zenon DEF Verdicts
<1>9. v[10].on <=> Floods(a, e)
  BY Zenon DEF Verdicts
<1>10. v[11].on <=> Skewed(a, e)
  BY Zenon DEF Verdicts
<1>11. v[12].on <=> Teleports(b, e)
  BY Zenon DEF Verdicts
<1> QED BY <1>1, <1>2, <1>3, <1>4, <1>5, <1>6, <1>7, <1>8, <1>9, <1>10, <1>11

----------------------------------------------------------------------------
(* A packet, all detectors together.                                        *)
LEMMA MemoryStep ==
  ASSUME NEW h, NEW e, NEW g, Hears(h, e, g), NEW a, DOMAIN a = AnomFields, MemoryOK(a, h, e.at),
         TimesOK(a.pktDup, h)
  PROVE  /\ MemoryOK(Observe(a, e), g, e.at)
         /\ Others(Calls(Verdicts(a, Observe(a, e), e))) = Wanted(g, e, Observe(a, e).known)
<1>0. Observed(Observe(a, e), a, e)
  BY ObserveIs
<1> PICK b : b = Observe(a, e)
  OBVIOUS
<1>1. /\ b.pairs = Pair(a, e).pairs /\ b.pktTimes = Spam(a, e).pktTimes
      /\ b.lastSNR = Signal(a, e).lastSNR /\ b.pktDup = Timed(a.pktDup, e)
      /\ b.mqttSeen = Origins(a, e).mqttSeen /\ b.nodeChannels = Channels(a, e).nodeChannels
      /\ b.totalSeen = Encrypted(a, e).totalSeen /\ b.encryptedSeen = Encrypted(a, e).encryptedSeen
      /\ b.lastPos = Position(a, e).lastPos
  BY <1>0 DEF Observed
<1>2. e.from \in Senders /\ e.start \in Nat /\ e.limit \in Nat /\ EventFact(e)
  BY HearsIs, FieldsAre
<1>3. TimesHeld(b.pktTimes, g, e.at) /\ (Spams(b, e) <=> SpamDue(g, e))
  <2>1. TimesHeld(a.pktTimes, h, e.at)
    BY DEF MemoryOK, TimesHeld
  <2>2. PICK m : m = Spam(a, e).pktTimes
    OBVIOUS
  <2>3. /\ TimesHeld(m, g, e.at)
        /\ Len(m[e.from]) = Cardinality(Recently(By(g, e.from), g, e.at, Window.minute))
    BY <2>1, <2>2, SpamStep
  <2>4. Within(g, Window.minute) = Recently(By(g, e.from), g, e.at, Window.minute)
    BY PacketSets
  <2>5. b.pktTimes = m
    BY <1>1, <2>2
  <2> QED BY <2>3, <2>4, <2>5 DEF Spams, SpamDue
<1>4. ValuesOK(b.lastSNR, "snr", g) /\ (Jumps(a, e) <=> JumpDue(g, e))
  <2>1. ValuesOK(a.lastSNR, "snr", h)
    BY DEF MemoryOK
  <2>2. ValuesOK(Signal(a, e).lastSNR, "snr", g)
    BY <2>1, SignalStep
  <2>3. Jumps(a, e) <=> JumpDue(g, e)
    BY <2>1, SignalStep DEF JumpDue
  <2> QED BY <1>1, <2>2, <2>3
<1>5. DupsHeld(b.pktDup, g, e.at) /\ (Loops(b, e) <=> LoopDue(g, e))
  <2>1. PICK dup, m : dup = a.pktDup /\ m = Timed(dup, e)
    OBVIOUS
  <2>2. DupsHeld(dup, h, e.at) /\ TimesOK(dup, h)
    BY <2>1 DEF MemoryOK, DupsHeld
  <2>3. DupsHeld(m, g, e.at)
    BY <2>1, <2>2, LoopStep
  <2>4. e.id # 0 => Len(m[Id(e)]) = Cardinality(Recently(WithId(g, Id(e)), g, e.at, Window.minute))
    BY <2>1, <2>2, LoopStep
  <2>5. e.id # 0 => Same(g) \cap Within(g, Window.minute)
                      = Recently(WithId(g, Id(e)), g, e.at, Window.minute)
    BY PacketSets
  <2>6. b.pktDup = m
    BY <1>1, <2>1
  <2> QED BY <2>3, <2>4, <2>5, <2>6 DEF Loops, LoopDue
<1>6. Ghost(b, e) <=> GhostDue(e, b.known)
  BY DEF Ghost, GhostDue
<1>7. WaysHeld(b.mqttSeen, g, e.at) /\ (Mirrors(b, e) <=> MirrorDue(g))
  <2>1. WaysHeld(a.mqttSeen, h, e.at)
    BY DEF MemoryOK, WaysHeld
  <2>2. PICK m : m = Origins(a, e).mqttSeen
    OBVIOUS
  <2>3. /\ WaysHeld(m, g, e.at)
        /\ HeardOver(m, g, e)
    BY <2>1, <2>2, MirrorStep
  <2>4. MirrorDue(g) <=>
          \A w \in Ways : Recently(OverWay(g, e.from, w), g, e.at, Window.minute) # {}
    <3>1. Within(g, Window.minute) = Recently(By(g, e.from), g, e.at, Window.minute)
      BY PacketSets
    <3>2. {g[i].mqtt : i \in Recently(By(g, e.from), g, e.at, Window.minute)} = BOOLEAN
            <=> \A w \in Ways : Recently(OverWay(g, e.from, w), g, e.at, Window.minute) # {}
      BY BothWays
    <3> QED BY <3>1, <3>2 DEF MirrorDue
  <2>5. b.mqttSeen = m
    BY <1>1, <2>2
  <2>6. Mirrors(b, e) <=> \A w \in Ways : m[e.from][w] # <<>>
    BY <2>5 DEF Mirrors, Ways
  <2> QED BY <2>3, <2>4, <2>5, <2>6 DEF HeardOver
<1>8. (\A f \in Senders : ChannelsOK(At(b.nodeChannels, f, <<>>), g, f, e.at))
      /\ (Crosses(b, e) <=> CrossDue(g))
  <2>1. \A f \in Senders : ChannelsOK(At(a.nodeChannels, f, <<>>), h, f, e.at)
    BY DEF MemoryOK
  <2>2. PICK m : m = Channels(a, e).nodeChannels
    OBVIOUS
  <2>3. /\ \A f \in Senders : ChannelsOK(At(m, f, <<>>), g, f, e.at)
        /\ DOMAIN m[e.from] = {g[i].channel : i \in Recently(By(g, e.from), g, e.at, Window.hour)}
    BY <2>1, <2>2, ChannelStep
  <2>4. Within(g, Window.hour) = Recently(By(g, e.from), g, e.at, Window.hour)
    BY PacketSets
  <2>5. b.nodeChannels = m
    BY <1>1, <2>2
  <2> QED BY <2>3, <2>4, <2>5 DEF Crosses, CrossDue
<1>9. /\ Holds(b.totalSeen, 1 .. Len(g), g, e.at, Window.hour)
      /\ Holds(b.encryptedSeen, Secret(g), g, e.at, Window.hour)
      /\ Spikes(b) <=> SpikeDue(g, e)
  <2>1. /\ Holds(a.totalSeen, 1 .. Len(h), h, e.at, Window.hour)
        /\ Holds(a.encryptedSeen, Secret(h), h, e.at, Window.hour)
    BY DEF MemoryOK
  <2>2. PICK c : c = Encrypted(a, e)
    OBVIOUS
  <2>3. /\ Holds(c.totalSeen, 1 .. Len(g), g, e.at, Window.hour)
        /\ Holds(c.encryptedSeen, Secret(g), g, e.at, Window.hour)
        /\ Len(c.totalSeen) = Cardinality(Recently(1 .. Len(g), g, e.at, Window.hour))
        /\ Len(c.encryptedSeen) = Cardinality(Recently(Secret(g), g, e.at, Window.hour))
    BY <2>1, <2>2, SpikeStep
  <2>4. b.totalSeen = c.totalSeen /\ b.encryptedSeen = c.encryptedSeen
    BY <1>1, <2>2
  <2>5. Lately(g, e) = Recently(1 .. Len(g), g, e.at, Window.hour)
    BY PacketSets DEF Lately
  <2>6. {i \in Lately(g, e) : g[i].encrypted} = Recently(Secret(g), g, e.at, Window.hour)
    BY PacketSets DEF Lately
  <2> QED BY <2>3, <2>4, <2>5, <2>6 DEF Spikes, SpikeDue
<1>10. HopViolation(e) <=> e.start \in 1 .. e.limit - 1
  BY <1>2 DEF HopViolation
<1>11. PairsOK(b.pairs, g) /\ (Unicast(e) => Ends(e) \in DOMAIN b.pairs)
  <2>1. PairsOK(a.pairs, h)
    BY DEF MemoryOK
  <2>2. PICK m : m = Pair(a, e).pairs
    OBVIOUS
  <2>3. PairsOK(m, g) /\ (Unicast(e) => Ends(e) \in DOMAIN m)
    BY <2>1, <2>2, PairsStep
  <2> QED BY <1>1, <2>2, <2>3
<1>12. Floods(b, e) <=> FloodDue(g, e)
  BY <1>11, FloodIs
<1>13. Skewed(b, e) <=> SkewDue(g, e)
  BY <1>11, SkewIs
<1>14. ValuesOK(b.lastPos, "pos", g) /\ (Teleports(a, e) <=> TeleportDue(g, e))
  <2>1. ValuesOK(a.lastPos, "pos", h)
    BY DEF MemoryOK
  <2>2. ValuesOK(Position(a, e).lastPos, "pos", g)
    BY <2>1, PositionStep
  <2>3. Teleports(a, e) <=> TeleportDue(g, e)
    BY <2>1, PositionStep DEF TeleportDue
  <2> QED BY <1>1, <2>2, <2>3
<1>15. MemoryOK(b, g, e.at)
  BY <1>3, <1>4, <1>5, <1>7, <1>8, <1>9, <1>11, <1>14 DEF MemoryOK, TimesHeld, DupsHeld, WaysHeld
<1>16. Others(Calls(Verdicts(a, b, e))) = Wanted(g, e, b.known)
  <2>1. PICK v : v = Verdicts(a, b, e)
    OBVIOUS
  <2>2. /\ v[1].on <=> SpamDue(g, e)
        /\ v[2].on <=> JumpDue(g, e)
        /\ v[3].on <=> LoopDue(g, e)
        /\ v[4].on <=> GhostDue(e, b.known)
        /\ v[5].on <=> MirrorDue(g)
        /\ v[6].on <=> CrossDue(g)
        /\ v[7].on <=> SpikeDue(g, e)
        /\ v[8].on <=> e.start \in 1 .. e.limit - 1
        /\ v[10].on <=> FloodDue(g, e)
        /\ v[11].on <=> SkewDue(g, e)
        /\ v[12].on <=> TeleportDue(g, e)
    BY <1>3, <1>4, <1>5, <1>6, <1>7, <1>8, <1>9, <1>10, <1>12, <1>13, <1>14, <2>1, OnAre
  <2>3. Others(Calls(v)) = UNION {
          Found("spammer", e.from, v[1].on), Found("snr_jump", e.from, v[2].on),
          Found("routing_loop", Id(e), v[3].on), Found("ghost_relay", <<e.relay>>, v[4].on),
          Found("mqtt_mirror", e.from, v[5].on), Found("cross_channel", e.from, v[6].on),
          Found("encrypted_spike", <<>>, v[7].on), Found("hop_violation", e.from, v[8].on),
          Found("pair_flood", Ends(e), v[10].on), Found("pair_skew", Ends(e), v[11].on),
          Found("gps_teleport", e.from, v[12].on)}
    <3>1. EventFact(e) /\ v = Verdicts(a, b, e)
      BY <1>2, <2>1
    <3> QED BY ONLY <3>1, OthersAre
  <2>4. /\ Found("spammer", e.from, v[1].on) = Found("spammer", e.from, SpamDue(g, e))
        /\ Found("snr_jump", e.from, v[2].on) = Found("snr_jump", e.from, JumpDue(g, e))
        /\ Found("routing_loop", Id(e), v[3].on) = Found("routing_loop", Id(e), LoopDue(g, e))
        /\ Found("ghost_relay", <<e.relay>>, v[4].on)
             = Found("ghost_relay", <<e.relay>>, GhostDue(e, b.known))
        /\ Found("mqtt_mirror", e.from, v[5].on) = Found("mqtt_mirror", e.from, MirrorDue(g))
        /\ Found("cross_channel", e.from, v[6].on) = Found("cross_channel", e.from, CrossDue(g))
    BY <2>2, Zenon DEF Found
  <2>5. /\ Found("encrypted_spike", <<>>, v[7].on) = Found("encrypted_spike", <<>>, SpikeDue(g, e))
        /\ Found("hop_violation", e.from, v[8].on)
             = Found("hop_violation", e.from, e.start \in 1 .. e.limit - 1)
        /\ Found("pair_flood", Ends(e), v[10].on) = Found("pair_flood", Ends(e), FloodDue(g, e))
        /\ Found("pair_skew", Ends(e), v[11].on) = Found("pair_skew", Ends(e), SkewDue(g, e))
        /\ Found("gps_teleport", e.from, v[12].on) = Found("gps_teleport", e.from, TeleportDue(g, e))
    BY <2>2, Zenon DEF Found
  <2> QED BY <2>1, <2>3, <2>4, <2>5 DEF Wanted
<1> QED BY <1>15, <1>16

----------------------------------------------------------------------------
LEMMA MemorySame ==
  ASSUME NEW a, NEW b, NEW h, NEW t, MemoryOK(a, h, t), Kept(a, b, {"flagged", "ring"})
  PROVE  MemoryOK(b, h, t)
<1>1. /\ b.pktTimes = a.pktTimes /\ b.pktDup = a.pktDup /\ b.mqttSeen = a.mqttSeen
      /\ b.totalSeen = a.totalSeen /\ b.encryptedSeen = a.encryptedSeen
      /\ b.lastSNR = a.lastSNR /\ b.lastPos = a.lastPos
      /\ b.nodeChannels = a.nodeChannels /\ b.pairs = a.pairs
  BY DEF Kept, AnomFields
<1> QED BY <1>1 DEF MemoryOK

LEMMA MemoryLater ==
  ASSUME NEW a, NEW h \in Seq(Events), NEW now \in Nat, NEW u \in Nat, now <= u, MemoryOK(a, h, now)
  PROVE  MemoryOK(a, h, u)
<1>1. \A S \in SUBSET (1 .. Len(h)), w \in Nat : \A ts : Holds(ts, S, h, now, w) => Holds(ts, S, h, u, w)
  BY HoldsLater
<1>2. Window.minute \in Nat /\ Window.hour \in Nat
  BY WindowsNat
<1>3. /\ \A f : By(h, f) \in SUBSET (1 .. Len(h))
      /\ \A k : WithId(h, k) \in SUBSET (1 .. Len(h))
      /\ \A f, w : OverWay(h, f, w) \in SUBSET (1 .. Len(h))
      /\ Secret(h) \in SUBSET (1 .. Len(h))
  BY DEF By, WithId, OverWay, Secret
<1>4. \A f \in Senders : Holds(At(a.pktTimes, f, <<>>), By(h, f), h, u, Window.minute)
  BY <1>1, <1>2, <1>3 DEF MemoryOK
<1>5. \A k \in AllIds : Holds(At(a.pktDup, k, <<>>), WithId(h, k), h, u, Window.minute)
  BY <1>1, <1>2, <1>3 DEF MemoryOK
<1>6. \A f \in Senders, w \in Ways :
        Holds(At(a.mqttSeen, f, Unheard)[w], OverWay(h, f, w), h, u, Window.minute)
  BY <1>1, <1>2, <1>3 DEF MemoryOK
<1>7. Holds(a.totalSeen, 1 .. Len(h), h, u, Window.hour)
  BY <1>1, <1>2 DEF MemoryOK
<1>8. Holds(a.encryptedSeen, Secret(h), h, u, Window.hour)
  BY <1>1, <1>2, <1>3 DEF MemoryOK
<1>9. ASSUME NEW f \in Senders PROVE ChannelsOK(At(a.nodeChannels, f, <<>>), h, f, u)
  <2>1. PICK used : used = At(a.nodeChannels, f, <<>>)
    OBVIOUS
  <2>2. ChannelsOK(used, h, f, now)
    BY <2>1 DEF MemoryOK
  <2>3. \A i \in By(h, f) : now - h[i].at > Window.hour => u - h[i].at > Window.hour
    BY <1>2, <1>3, AtNat
  <2>4. ChannelsOK(used, h, f, u)
    BY <2>2, <2>3 DEF ChannelsOK
  <2> QED BY <2>1, <2>4
<1> QED BY <1>4, <1>5, <1>6, <1>7, <1>8, <1>9 DEF MemoryOK

LEMMA NoMemory ==
  ASSUME NEW a, NEW h, h = <<>>, NEW t,
         a.pktTimes = <<>>, a.pktDup = <<>>, a.mqttSeen = <<>>, a.totalSeen = <<>>,
         a.encryptedSeen = <<>>, a.lastSNR = <<>>, a.lastPos = <<>>, a.nodeChannels = <<>>,
         a.pairs = <<>>
  PROVE  MemoryOK(a, h, t)
<1>1. 1 .. Len(h) = {}
  OBVIOUS
<1>2. /\ \A f : By(h, f) = {}
      /\ \A k : WithId(h, k) = {}
      /\ \A f, w : OverWay(h, f, w) = {}
      /\ Secret(h) = {}
      /\ \A k : Between(h, k) = {}
      /\ \A f, x : LastWith(h, f, x) = {}
  BY <1>1 DEF By, WithId, OverWay, Secret, Between, LastWith
<1>3. \A w : Holds(<<>>, {}, h, t, w)
  BY HoldsNothing
<1>4. DOMAIN <<>> = {} /\ \A k, v : At(<<>>, k, v) = v
  BY DEF At
<1>5. \A f : Holds(At(a.pktTimes, f, <<>>), By(h, f), h, t, Window.minute)
  BY <1>2, <1>3, <1>4
<1>6. \A k : Holds(At(a.pktDup, k, <<>>), WithId(h, k), h, t, Window.minute)
  BY <1>2, <1>3, <1>4
<1>7. ASSUME NEW f, NEW w \in Ways
      PROVE  Holds(At(a.mqttSeen, f, Unheard)[w], OverWay(h, f, w), h, t, Window.minute)
  <2>1. At(a.mqttSeen, f, Unheard)[w] = <<>>
    BY <1>4 DEF Unheard, Ways
  <2> QED BY <1>2, <1>3, <2>1
<1>8. /\ Holds(a.totalSeen, 1 .. Len(h), h, t, Window.hour)
      /\ Holds(a.encryptedSeen, Secret(h), h, t, Window.hour)
  BY <1>1, <1>2, <1>3
<1>9. ValuesOK(a.lastSNR, "snr", h) /\ ValuesOK(a.lastPos, "pos", h) /\ PairsOK(a.pairs, h)
  BY <1>2, <1>4 DEF ValuesOK, PairsOK
<1>10. \A f : ChannelsOK(At(a.nodeChannels, f, <<>>), h, f, t)
  BY <1>2, <1>4 DEF ChannelsOK
<1> QED BY <1>5, <1>6, <1>7, <1>8, <1>9, <1>10 DEF MemoryOK

----------------------------------------------------------------------------
DetectorInv == DetInv /\ KnownOK /\ DetectorsAreExact

LEMMA InitDetectors == Init => DetectorInv
<1> SUFFICES ASSUME Init PROVE DetectorInv
  OBVIOUS
<1>1. heard = <<>> /\ anom = Fresh /\ met = Loaded
  BY DEF Init
<1>2. /\ anom.pktTimes = <<>> /\ anom.pktDup = <<>> /\ anom.mqttSeen = <<>>
      /\ anom.totalSeen = <<>> /\ anom.encryptedSeen = <<>> /\ anom.lastSNR = <<>>
      /\ anom.lastPos = <<>> /\ anom.nodeChannels = <<>> /\ anom.pairs = <<>>
  BY <1>1 DEF Fresh
<1>3. MemoryOK(anom, heard, clock)
  BY <1>1, <1>2, NoMemory
<1>4. KnownOK
  BY <1>1 DEF KnownOK, HeardFrom, Fresh
<1> QED BY <1>1, <1>3, <1>4 DEF DetectorInv, DetInv, DetectorsAreExact

LEMMA ReceiveDetectors ==
  ASSUME Inv, DetInv, KnownOK, NEW p \in Packets, Receive(p)
  PROVE  DetectorInv'
<1>1. /\ clock \in Nat /\ clock' = clock /\ DOMAIN anom = AnomFields
      /\ HeardOK(heard, clock) /\ RingOK(anom) /\ TimesOK(anom.pktDup, heard)
  BY DEF Inv, Receive
<1>2. PICK e : e = Over([at |-> clock], p)
  OBVIOUS
<1>3. e \in Events /\ EventFact(e) /\ e.at = clock
  BY <1>1, <1>2, StampIs
<1>4. PICK seen, v : seen = Observe(anom, e) /\ v = Verdicts(anom, seen, e)
  OBVIOUS
<1>5. anom' = Flag(seen, v, clock) /\ fired' = Calls(v) /\ heard' = Append(heard, e)
  BY <1>2, <1>4 DEF Receive
<1>6. PICK g : g = Append(heard, e)
  OBVIOUS
<1>7. Hears(heard, e, g)
  BY <1>1, <1>3, <1>6 DEF Hears, HeardOK
<1>8. MemoryOK(seen, g, e.at) /\ Others(Calls(v)) = Wanted(g, e, seen.known)
  <2>1. PICK a, h : a = anom /\ h = heard
    OBVIOUS
  <2>2. Hears(h, e, g) /\ DOMAIN a = AnomFields /\ MemoryOK(a, h, e.at) /\ TimesOK(a.pktDup, h)
    BY <1>1, <1>3, <1>7, <2>1 DEF DetInv
  <2>3. /\ MemoryOK(Observe(a, e), g, e.at)
        /\ Others(Calls(Verdicts(a, Observe(a, e), e))) = Wanted(g, e, Observe(a, e).known)
    BY ONLY <2>2, MemoryStep
  <2> QED BY <1>4, <2>1, <2>3
<1>9. DOMAIN seen = AnomFields /\ seen.ring = anom.ring /\ seen.flagged = anom.flagged
  <2>1. Observed(seen, anom, e)
    BY <1>1, <1>4, ObserveIs
  <2> QED BY <2>1 DEF Observed
<1>10. RingOK(seen)
  BY <1>1, <1>9 DEF RingOK
<1>11. Kept(seen, anom', {"flagged", "ring"})
  <2>1. PICK t \in Nat : t = clock
    BY <1>1
  <2>2. Len(v) = 12 /\ \A i \in 1 .. 12 : Call(v[i]) \in Anomaly
    BY <1>3, <1>4, VerdictsAre
  <2>3. Len(v) \in Nat /\ \A i \in 1 .. Len(v) : Call(v[i]) \in Anomaly
    BY <2>2
  <2>4. Kept(seen, Flag(seen, v, t), {"flagged", "ring"})
    BY <1>9, <1>10, <2>3, FlagAll
  <2> QED BY <1>5, <2>1, <2>4
<1>12. MemoryOK(anom', g, clock)
  BY <1>3, <1>8, <1>11, MemorySame
<1>13. anom'.known = seen.known
  BY <1>11 DEF Kept, AnomFields
<1>15. KnownOK'
  <2>1. seen.known = anom.known \cup {e.from}
    <3>1. Observed(seen, anom, e)
      BY <1>1, <1>4, ObserveIs
    <3> QED BY <3>1 DEF Observed
  <2>2. HeardFrom(g) = HeardFrom(heard) \cup {e.from}
    BY <1>7, HearsIs DEF HeardFrom
  <2>3. met' = met
    BY DEF Receive
  <2> QED BY <1>5, <1>6, <1>13, <2>1, <2>2, <2>3 DEF KnownOK
<1>14. DetectorsAreExact'
  <2>1. ExactFact'
    BY ExactIs, PTL
  <2>2. Last(g) = e
    BY <1>7, HearsIs
  <2>3. ExactOK(heard', fired', anom'.known)
    BY <1>5, <1>6, <1>8, <1>13, <2>2 DEF ExactOK
  <2> QED BY <1>15, <2>1, <2>3 DEF ExactFact
<1> QED BY <1>1, <1>5, <1>6, <1>12, <1>14, <1>15 DEF DetectorInv, DetInv

LEMMA TickDetectors ==
  ASSUME Inv, DetectorInv, Tick
  PROVE  DetectorInv'
<1>1. /\ clock \in Nat /\ clock' = clock + 1 /\ heard \in Seq(Events)
      /\ anom' = anom /\ met' = met /\ fired' = fired /\ heard' = heard
  BY DEF Inv, Tick, HeardOK
<1>2. PICK u \in Nat : u = clock' /\ clock <= u
  BY <1>1
<1>3. MemoryOK(anom, heard, u)
  BY <1>1, <1>2, MemoryLater DEF DetectorInv, DetInv
<1>4. ExactOK(heard', fired', anom'.known)
  BY <1>1, ExactIs DEF ExactFact, DetectorInv
<1>5. ExactFact'
  BY ExactIs, PTL
<1>6. KnownOK'
  BY <1>1 DEF DetectorInv, KnownOK
<1> QED BY <1>1, <1>2, <1>3, <1>4, <1>5, <1>6 DEF DetectorInv, DetInv, ExactFact

LEMMA RestartDetectors ==
  ASSUME Restart
  PROVE  DetectorInv'
<1>1. heard' = <<>> /\ anom' = [Fresh EXCEPT !.known = anom.known] /\ met' = anom.known
  BY DEF Restart
<1>2. /\ anom'.pktTimes = <<>> /\ anom'.pktDup = <<>> /\ anom'.mqttSeen = <<>>
      /\ anom'.totalSeen = <<>> /\ anom'.encryptedSeen = <<>> /\ anom'.lastSNR = <<>>
      /\ anom'.lastPos = <<>> /\ anom'.nodeChannels = <<>> /\ anom'.pairs = <<>>
  BY <1>1 DEF Fresh
<1>3. MemoryOK(anom', heard', clock')
  BY <1>1, <1>2, NoMemory
<1>4. KnownOK'
  BY <1>1 DEF KnownOK, HeardFrom, Fresh
<1> QED BY <1>1, <1>3, <1>4 DEF DetectorInv, DetInv, DetectorsAreExact

(* Every detector but the one for reused ids calls for exactly what its     *)
(* thresholds, as the code compares them, find in everything heard since    *)
(* the start: a list of times loses only what is older than its window, a   *)
(* conversation has all of its packets, the last values are the sender's    *)
(* last ones, and known are the nodes met otherwise and those heard         *)
(* (anomalies.go:190-302, 389-694).                                         *)
THEOREM DetectorsCorrect == Spec => []DetectorsAreExact
<1>1. Inv /\ DetectorInv /\ [Next]_vars => DetectorInv'
  <2> SUFFICES ASSUME Inv, DetectorInv, [Next]_vars PROVE DetectorInv'
    OBVIOUS
  <2>1. CASE \E p \in Packets : Receive(p)
    BY <2>1, ReceiveDetectors DEF DetectorInv
  <2>2. CASE Tick
    BY <2>2, TickDetectors
  <2>3. CASE Restart
    BY <2>3, RestartDetectors
  <2>4. CASE UNCHANGED vars
    <3>1. clock' = clock /\ anom' = anom /\ met' = met /\ fired' = fired /\ heard' = heard
      BY <2>4 DEF vars
    <3>2. ExactFact /\ ExactFact'
      BY ExactIs, PTL
    <3>3. KnownOK'
      BY <3>1 DEF DetectorInv, KnownOK
    <3> QED BY <3>1, <3>2, <3>3 DEF DetectorInv, DetInv, ExactFact
  <2> QED BY <2>1, <2>2, <2>3, <2>4 DEF Next
<1>2. DetectorInv => DetectorsAreExact
  BY DEF DetectorInv
<1> QED BY <1>1, <1>2, InitDetectors, Invariant, PTL DEF Spec

----------------------------------------------------------------------------
(* Framing.                                                                 *)

Packet == {p \in Seq(F!Bytes) : Len(p) \in 1 .. MaxPacket}

(* The rest of a frame is there to be written exactly by the holder of the  *)
(* mutex; the reader asks for what is missing of two bytes or of a packet.  *)
ReaderOK(r) ==
  \/ r \in {F!Hunting(FALSE), F!Hunting(TRUE)}
  \/ /\ r \in [state : {"length", "payload"}, saw : {FALSE}, got : Seq(F!Bytes), need : Nat \ {0}]
     /\ r.state = "length" => Len(r.got) + r.need = 2
     /\ r.state = "payload" => Len(r.got) + r.need \in 1 .. MaxPacket

LineTypes ==
  /\ wmu \in Writers \cup {F!Free}
  /\ rest \in [Writers -> Seq(F!Bytes)]
  /\ \A w \in Writers : rest[w] # <<>> <=> w = wmu
  /\ line \in Seq(F!Bytes)
  /\ ReaderOK(reader)
  /\ delivered \in Seq(Packet) /\ expected \in Seq(Packet)
  /\ confused \in BOOLEAN

(* What is on the line and what is still to be written of a frame begun.    *)
Unwritten == IF wmu = F!Free THEN <<>> ELSE rest[wmu]
OnTheWay  == line \o Unwritten

(* Frame k of E begins at position at[k] of S, which is below 1 for the one *)
(* that is being read; the frames after the first d of E are there, one     *)
(* after the other, and no frame seems to begin outside of them.            *)
Layout(S, E, d, at) ==
  /\ \A k \in d + 1 .. Len(E) : at[k] \in Int
  /\ \A k \in d + 1 .. Len(E) : \A j \in 1 .. Len(E[k]) + 4 :
       at[k] + j > 1 => at[k] + j - 1 <= Len(S) /\ S[at[k] + j - 1] = F!Frame(E[k])[j]
  /\ \A k, l \in d + 1 .. Len(E) : k < l => at[k] + Len(E[k]) + 4 <= at[l]
  /\ \A i \in 1 .. Len(S) - 1 : S[i] = F!Magic1 /\ S[i + 1] = F!Magic2 =>
       \E k \in d + 1 .. Len(E) : at[k] <= i /\ i + 1 < at[k] + Len(E[k]) + 4

(* The reader has what lies before position 1 of the frame it is in, and is *)
(* in none exactly if it looks for one.                                     *)
Reads(S, E, d, at, r) ==
  /\ r.state = "hunt" /\ ~ r.saw => d = Len(E) \/ at[d + 1] >= 1
  /\ r.state = "hunt" /\ r.saw =>
       \/ d < Len(E) /\ at[d + 1] = 0
       \/ (d = Len(E) \/ at[d + 1] >= 1) /\ (S # <<>> => S[1] # F!Magic2)
  /\ r.state # "hunt" => d < Len(E)
  /\ r.state = "length" =>
       /\ at[d + 1] = -1 - Len(r.got)
       /\ \A j \in 1 .. Len(r.got) : r.got[j] = F!Frame(E[d + 1])[2 + j]
  /\ r.state = "payload" =>
       /\ at[d + 1] = -3 - Len(r.got)
       /\ Len(r.got) + r.need = Len(E[d + 1])
       /\ \A j \in 1 .. Len(r.got) : r.got[j] = E[d + 1][j]

InStep(S, E, D, r) ==
  /\ Len(D) <= Len(E)
  /\ \A i \in 1 .. Len(D) : D[i] = E[i]
  /\ \E at : Layout(S, E, Len(D), at) /\ Reads(S, E, Len(D), at, r)

LineInv == LineTypes /\ (~ confused => InStep(OnTheWay, expected, delivered, reader))

----------------------------------------------------------------------------
LEMMA TwoBytes ==
  ASSUME NEW n \in Nat, n < 256 * 256
  PROVE  /\ n \div 256 \in 0 .. 255 /\ n % 256 \in 0 .. 255
         /\ (n \div 256) * 256 + (n % 256) = n
<1>1. n \div 256 \in 0 .. 255
  OBVIOUS
<1>2. n % 256 \in 0 .. 255
  OBVIOUS
<1>3. (n \div 256) * 256 + (n % 256) = n
  OBVIOUS
<1> QED BY <1>1, <1>2, <1>3

LEMMA FrameIs ==
  ASSUME NEW p \in Packet
  PROVE  /\ F!Frame(p) \in Seq(F!Bytes) /\ Len(F!Frame(p)) = Len(p) + 4
         /\ F!Frame(p)[1] = F!Magic1 /\ F!Frame(p)[2] = F!Magic2
         /\ F!Frame(p)[3] * 256 + F!Frame(p)[4] = Len(p)
         /\ \A j \in 1 .. Len(p) : F!Frame(p)[4 + j] = p[j]
<1>1. MaxPacket \in Nat /\ MaxPacket < 256 * 256
  BY LineAssumption DEF F!FramingAssumption
<1>2. p \in Seq(0 .. 255) /\ Len(p) \in Nat /\ Len(p) < 256 * 256
  BY <1>1 DEF Packet, F!Bytes
<1>3. PICK n : n = Len(p)
  OBVIOUS
<1>4. PICK high : high = n \div 256
  OBVIOUS
<1>5. PICK low : low = n % 256
  OBVIOUS
<1>6. high \in 0 .. 255 /\ low \in 0 .. 255 /\ high * 256 + low = n
  <2>1. n \in Nat /\ n < 256 * 256
    BY <1>2, <1>3
  <2>2. /\ n \div 256 \in 0 .. 255 /\ n % 256 \in 0 .. 255
        /\ (n \div 256) * 256 + (n % 256) = n
    BY <2>1, TwoBytes, Zenon
  <2> QED BY <2>2, <1>4, <1>5
<1>7. PICK h : h = <<148, 195, high, low>>
  OBVIOUS
<1>8. h \in Seq(0 .. 255) /\ Len(h) = 4 /\ h[1] = 148 /\ h[2] = 195 /\ h[3] = high /\ h[4] = low
  BY <1>6, <1>7
<1>9. PICK f : f = h \o p
  OBVIOUS
<1>10. /\ f \in Seq(0 .. 255) /\ Len(f) = 4 + Len(p)
       /\ \A i \in 1 .. 4 + Len(p) : f[i] = IF i <= 4 THEN h[i] ELSE p[i - 4]
  <2>1. PICK B : B = 0 .. 255
    OBVIOUS
  <2>2. h \in Seq(B) /\ p \in Seq(B)
    BY <2>1, <1>2, <1>8
  <2>3. /\ f \in Seq(B) /\ Len(f) = Len(h) + Len(p)
        /\ \A i \in 1 .. Len(h) + Len(p) : f[i] = IF i <= Len(h) THEN h[i] ELSE p[i - Len(h)]
    BY <2>2, <1>9, ConcatProperties, Zenon
  <2> QED BY <2>1, <2>3, <1>8
<1>11. f = F!Frame(p)
  BY <1>3, <1>4, <1>5, <1>7, <1>9 DEF F!Frame, F!Magic1, F!Magic2
<1>12. f[1] = 148 /\ f[2] = 195 /\ f[3] = high /\ f[4] = low
  BY <1>2, <1>8, <1>10
<1>13. \A j \in 1 .. Len(p) : f[4 + j] = p[j]
  BY <1>2, <1>10
<1> QED BY <1>3, <1>6, <1>10, <1>11, <1>12, <1>13 DEF F!Bytes, F!Magic1, F!Magic2

(* A byte is read: every frame comes one position nearer.                   *)
LEMMA LayoutRead ==
  ASSUME NEW S \in Seq(F!Bytes), S # <<>>, NEW E \in Seq(Packet), NEW d \in Nat,
         NEW at, Layout(S, E, d, at)
  PROVE  Layout(Tail(S), E, d, [k \in d + 1 .. Len(E) |-> at[k] - 1])
<1>1. PICK T : T = Tail(S)
  OBVIOUS
<1>2. T \in Seq(F!Bytes) /\ Len(T) = Len(S) - 1 /\ \A i \in 1 .. Len(T) : T[i] = S[i + 1]
  BY <1>1, HeadTailProperties
<1>3. PICK to : to = [k \in d + 1 .. Len(E) |-> at[k] - 1]
  OBVIOUS
<1>4. \A k \in d + 1 .. Len(E) : at[k] \in Int /\ to[k] \in Int /\ to[k] = at[k] - 1
  BY <1>3 DEF Layout
<1>5. \A k \in d + 1 .. Len(E) : k \in 1 .. Len(E) /\ Len(E[k]) \in Nat
  BY DEF Packet
<1>6. Len(S) \in Nat /\ Len(T) \in Nat
  BY <1>2
<1>7. ASSUME NEW k \in d + 1 .. Len(E), NEW j \in 1 .. Len(E[k]) + 4, to[k] + j > 1
      PROVE  to[k] + j - 1 <= Len(T) /\ T[to[k] + j - 1] = F!Frame(E[k])[j]
  <2>1. at[k] \in Int /\ to[k] = at[k] - 1 /\ Len(E[k]) \in Nat
    BY <1>4, <1>5
  <2>2. at[k] + j > 1 /\ j \in Int
    BY <2>1, <1>7
  <2>3. at[k] + j - 1 <= Len(S) /\ S[at[k] + j - 1] = F!Frame(E[k])[j]
    BY <2>2 DEF Layout
  <2>4. PICK i : i = to[k] + j - 1
    OBVIOUS
  <2>a. PICK m : m = at[k]
    OBVIOUS
  <2>b. m \in Int /\ i = (m - 1) + j - 1 /\ m + j > 1 /\ m + j - 1 <= Len(S) /\ j \in Int
    BY <2>1, <2>2, <2>3, <2>4, <2>a
  <2>c. (m - 1) + j > 1
    BY <1>7, <2>1, <2>a
  <2>5. i \in 1 .. Len(T) /\ i + 1 = at[k] + j - 1
    <3>1. PICK n : n = Len(S)
      OBVIOUS
    <3>2. Len(T) = n - 1 /\ n \in Nat
      BY <3>1, <1>2, <1>6
    <3>3. i \in 1 .. n - 1 /\ i + 1 = m + j - 1
      BY <2>b, <2>c, <3>1, <3>2
    <3>4. i \in 1 .. Len(T)
      BY <3>2, <3>3
    <3> QED BY <3>3, <3>4, <2>a
  <2> QED BY <2>3, <2>4, <2>5, <1>2, <1>6
<1>8. ASSUME NEW k \in d + 1 .. Len(E), NEW l \in d + 1 .. Len(E), k < l
      PROVE  to[k] + Len(E[k]) + 4 <= to[l]
  <2>1. at[k] + Len(E[k]) + 4 <= at[l]
    BY <1>8 DEF Layout
  <2>2. PICK a : a = at[k]
    OBVIOUS
  <2>3. PICK b : b = at[l]
    OBVIOUS
  <2>4. PICK n : n = Len(E[k])
    OBVIOUS
  <2>5. a \in Int /\ to[k] = a - 1 /\ b \in Int /\ to[l] = b - 1 /\ n \in Nat
    BY <2>2, <2>3, <2>4, <1>4, <1>5
  <2>6. a + n + 4 <= b
    BY <2>1, <2>2, <2>3, <2>4
  <2>7. (a - 1) + n + 4 <= b - 1
    BY <2>5, <2>6
  <2> QED BY <2>4, <2>5, <2>7
<1>9. ASSUME NEW i \in 1 .. Len(T) - 1, T[i] = F!Magic1, T[i + 1] = F!Magic2
      PROVE  \E k \in d + 1 .. Len(E) : to[k] <= i /\ i + 1 < to[k] + Len(E[k]) + 4
  <2>1. i + 1 \in 1 .. Len(S) - 1 /\ S[i + 1] = F!Magic1 /\ S[(i + 1) + 1] = F!Magic2
    <3>1. PICK n : n = Len(S)
      OBVIOUS
    <3>2. Len(T) = n - 1 /\ n \in Nat
      BY <3>1, <1>2, <1>6
    <3>3. i \in 1 .. n - 2
      BY <3>2
    <3>4. i \in 1 .. n - 1 /\ i + 1 \in 1 .. n - 1
      BY <3>2, <3>3
    <3>5. T[i] = S[i + 1] /\ T[i + 1] = S[(i + 1) + 1]
      BY <3>1, <3>4, <1>2, <1>6
    <3> QED BY <3>1, <3>4, <3>5, <1>9
  <2>2. PICK k \in d + 1 .. Len(E) : at[k] <= i + 1 /\ (i + 1) + 1 < at[k] + Len(E[k]) + 4
    BY <2>1 DEF Layout
  <2>3. at[k] \in Int /\ to[k] = at[k] - 1 /\ Len(E[k]) \in Nat
    BY <1>4, <1>5
  <2>5. PICK a : a = at[k]
    OBVIOUS
  <2>6. PICK n : n = Len(E[k])
    OBVIOUS
  <2>7. a - 1 <= i /\ i + 1 < (a - 1) + n + 4
    <3>1. a \in Int /\ n \in Nat /\ i \in Int
      BY <2>3, <2>5, <2>6
    <3>2. a <= i + 1 /\ (i + 1) + 1 < a + n + 4
      BY <2>2, <2>5, <2>6
    <3> QED BY <3>1, <3>2
  <2>4. to[k] <= i /\ i + 1 < to[k] + Len(E[k]) + 4
    BY <2>3, <2>5, <2>6, <2>7
  <2> QED BY <2>4
<1> QED BY <1>1, <1>3, <1>4, <1>7, <1>8, <1>9 DEF Layout

(* The frame that is being read has come to its end.                        *)
LEMMA LayoutEnd ==
  ASSUME NEW S \in Seq(F!Bytes), NEW E \in Seq(Packet), NEW d \in Nat, d < Len(E),
         NEW at, Layout(S, E, d, at), at[d + 1] + Len(E[d + 1]) + 4 <= 1
  PROVE  Layout(S, E, d + 1, at)
<1>1. \A k \in (d + 1) + 1 .. Len(E) : k \in d + 1 .. Len(E)
  OBVIOUS
<1>2. d + 1 \in d + 1 .. Len(E) /\ at[d + 1] \in Int /\ Len(E[d + 1]) \in Nat
  BY DEF Layout, Packet
<1>3. ASSUME NEW i \in 1 .. Len(S) - 1, S[i] = F!Magic1, S[i + 1] = F!Magic2
      PROVE  \E k \in (d + 1) + 1 .. Len(E) : at[k] <= i /\ i + 1 < at[k] + Len(E[k]) + 4
  <2>1. PICK k \in d + 1 .. Len(E) : at[k] <= i /\ i + 1 < at[k] + Len(E[k]) + 4
    BY <1>3 DEF Layout
  <2>2. k # d + 1
    BY <2>1, <1>2
  <2> QED BY <2>1, <2>2
<1>4. \A k \in (d + 1) + 1 .. Len(E) : at[k] \in Int
  BY <1>1 DEF Layout
<1>5. \A k \in (d + 1) + 1 .. Len(E) : \A j \in 1 .. Len(E[k]) + 4 :
        at[k] + j > 1 => at[k] + j - 1 <= Len(S) /\ S[at[k] + j - 1] = F!Frame(E[k])[j]
  BY <1>1 DEF Layout
<1>6. \A k, l \in (d + 1) + 1 .. Len(E) : k < l => at[k] + Len(E[k]) + 4 <= at[l]
  BY <1>1 DEF Layout
<1> QED BY <1>3, <1>4, <1>5, <1>6 DEF Layout

(* The frame that is being read is given up: what is left of it is noise,   *)
(* in which no frame seems to begin.                                        *)
LEMMA LayoutSkip ==
  ASSUME NEW S \in Seq(F!Bytes), NEW E \in Seq(Packet), NEW d \in Nat, d < Len(E),
         NEW at, Layout(S, E, d, at), at[d + 1] <= -1, ~ F!LooksLikeFrame(E[d + 1]),
         NEW X \in Seq(Packet), Len(X) = Len(E) - 1, \A k \in d + 1 .. Len(X) : X[k] = E[k + 1]
  PROVE  Layout(S, X, d, [k \in d + 1 .. Len(X) |-> at[k + 1]])
<1>1. PICK to : to = [k \in d + 1 .. Len(X) |-> at[k + 1]]
  OBVIOUS
<1>2. \A k \in d + 1 .. Len(X) : k + 1 \in d + 1 .. Len(E) /\ X[k] = E[k + 1] /\ to[k] = at[k + 1]
  BY <1>1
<1>3. \A k \in d + 1 .. Len(X) : to[k] \in Int
  BY <1>2 DEF Layout
<1>4. ASSUME NEW k \in d + 1 .. Len(X), NEW j \in 1 .. Len(X[k]) + 4, to[k] + j > 1
      PROVE  to[k] + j - 1 <= Len(S) /\ S[to[k] + j - 1] = F!Frame(X[k])[j]
  <2>1. PICK m : m = k + 1
    OBVIOUS
  <2>2. m \in d + 1 .. Len(E) /\ X[k] = E[m] /\ to[k] = at[m]
    BY <2>1, <1>2
  <2>3. at[m] + j - 1 <= Len(S) /\ S[at[m] + j - 1] = F!Frame(E[m])[j]
    BY <2>2, <1>4 DEF Layout
  <2> QED BY <2>2, <2>3
<1>5. ASSUME NEW k \in d + 1 .. Len(X), NEW l \in d + 1 .. Len(X), k < l
      PROVE  to[k] + Len(X[k]) + 4 <= to[l]
  <2>1. k + 1 < l + 1
    BY <1>5
  <2>2. at[k + 1] + Len(E[k + 1]) + 4 <= at[l + 1]
    BY <2>1, <1>2 DEF Layout
  <2> QED BY <2>2, <1>2
<1>6. ASSUME NEW i \in 1 .. Len(S) - 1, S[i] = F!Magic1, S[i + 1] = F!Magic2
      PROVE  \E k \in d + 1 .. Len(X) : to[k] <= i /\ i + 1 < to[k] + Len(X[k]) + 4
  <2>1. PICK m \in d + 1 .. Len(E) : at[m] <= i /\ i + 1 < at[m] + Len(E[m]) + 4
    BY <1>6 DEF Layout
  <2>2. CASE m = d + 1
    <3>1. PICK a : a = at[d + 1]
      OBVIOUS
    <3>2. PICK n : n = Len(E[d + 1])
      OBVIOUS
    <3>3. a \in Int /\ n \in Nat /\ a <= -1 /\ i + 1 < a + n + 4 /\ d + 1 \in d + 1 .. Len(E)
      BY <2>1, <2>2, <3>1, <3>2 DEF Layout, Packet
    <3>4. PICK j : j = i - a + 1
      OBVIOUS
    <3>5. j \in 3 .. n + 3 /\ a + j - 1 = i /\ a + (j + 1) - 1 = i + 1 /\ a + j > 1 /\ a + (j + 1) > 1
      BY <3>3, <3>4
    <3>6. j \in 1 .. n + 4 /\ j + 1 \in 1 .. n + 4
      <4>1. a \in Int /\ n \in Nat /\ i \in Int /\ a <= -1 /\ i >= 1 /\ i + 1 < a + n + 4
        BY <3>3
      <4> QED BY <4>1, <3>4
    <3>7. S[i] = F!Frame(E[d + 1])[j]
      BY <3>1, <3>2, <3>3, <3>5, <3>6 DEF Layout
    <3>8. S[i + 1] = F!Frame(E[d + 1])[j + 1]
      BY <3>1, <3>2, <3>3, <3>5, <3>6 DEF Layout
    <3>9. E[d + 1] \in Packet
      BY <3>3
    <3>10. Len(F!Frame(E[d + 1])) = n + 4
      BY <3>2, <3>9, FrameIs
    <3>11. j \in 3 .. Len(F!Frame(E[d + 1])) - 1
      BY <3>3, <3>5, <3>10
    <3> QED BY <1>6, <3>7, <3>8, <3>11 DEF F!LooksLikeFrame
  <2>3. CASE m # d + 1
    <3>1. PICK k : k = m - 1
      OBVIOUS
    <3>2. k \in d + 1 .. Len(X) /\ m = k + 1
      BY <2>3, <3>1
    <3> QED BY <2>1, <3>2, <1>2
  <2> QED BY <2>2, <2>3
<1> QED BY <1>1, <1>3, <1>4, <1>5, <1>6 DEF Layout

(* A byte of noise is no second magic byte and begins no frame.             *)
LEMMA LayoutNoise ==
  ASSUME NEW S \in Seq(F!Bytes), NEW E \in Seq(Packet), NEW d \in Nat,
         NEW at, Layout(S, E, d, at), NEW b \in F!Bytes, b # F!Magic2
  PROVE  Layout(Append(S, b), E, d, at)
<1>1. PICK T : T = Append(S, b)
  OBVIOUS
<1>2. Len(S) \in Nat /\ Len(T) = Len(S) + 1 /\ T[Len(S) + 1] = b /\ \A i \in 1 .. Len(S) : T[i] = S[i]
  BY <1>1, AppendProperties
<1>3. ASSUME NEW k \in d + 1 .. Len(E), NEW j \in 1 .. Len(E[k]) + 4, at[k] + j > 1
      PROVE  at[k] + j - 1 <= Len(T) /\ T[at[k] + j - 1] = F!Frame(E[k])[j]
  <2>1. at[k] + j - 1 <= Len(S) /\ S[at[k] + j - 1] = F!Frame(E[k])[j] /\ at[k] \in Int
    BY <1>3 DEF Layout
  <2>2. PICK i : i = at[k] + j - 1
    OBVIOUS
  <2>3. i \in 1 .. Len(S) /\ i <= Len(T)
    BY <2>1, <2>2, <1>2, <1>3
  <2> QED BY <2>1, <2>2, <2>3, <1>2
<1>4. ASSUME NEW i \in 1 .. Len(T) - 1, T[i] = F!Magic1, T[i + 1] = F!Magic2
      PROVE  \E k \in d + 1 .. Len(E) : at[k] <= i /\ i + 1 < at[k] + Len(E[k]) + 4
  <2>1. i # Len(S)
    BY <1>2, <1>4
  <2>2. i \in 1 .. Len(S) - 1 /\ i \in 1 .. Len(S) /\ i + 1 \in 1 .. Len(S)
    BY <2>1, <1>2
  <2>3. S[i] = F!Magic1 /\ S[i + 1] = F!Magic2
    BY <2>2, <1>2, <1>4
  <2> QED BY <2>2, <2>3 DEF Layout
<1>5. /\ \A k \in d + 1 .. Len(E) : at[k] \in Int
      /\ \A k, l \in d + 1 .. Len(E) : k < l => at[k] + Len(E[k]) + 4 <= at[l]
  BY DEF Layout
<1> QED BY <1>1, <1>3, <1>4, <1>5 DEF Layout

(* A frame is begun behind what is on the way.                              *)
LEMMA LayoutWrite ==
  ASSUME NEW S \in Seq(F!Bytes), NEW E \in Seq(Packet), NEW d \in Nat, d <= Len(E),
         NEW at, Layout(S, E, d, at), NEW p \in Packet
  PROVE  Layout(S \o F!Frame(p), Append(E, p), d,
                [k \in d + 1 .. Len(E) + 1 |-> IF k = Len(E) + 1 THEN Len(S) + 1 ELSE at[k]])
<1>1. PICK n : n = Len(S)
  OBVIOUS
<1>2. PICK e : e = Len(E)
  OBVIOUS
<1>3. PICK f : f = F!Frame(p)
  OBVIOUS
<1>4. PICK T : T = S \o f
  OBVIOUS
<1>5. PICK X : X = Append(E, p)
  OBVIOUS
<1>6. PICK to : to = [k \in d + 1 .. e + 1 |-> IF k = e + 1 THEN n + 1 ELSE at[k]]
  OBVIOUS
<1>7. n \in Nat /\ e \in Nat /\ d <= e
  BY <1>1, <1>2
<1>8. /\ Len(p) \in Nat /\ f \in Seq(F!Bytes) /\ Len(f) = Len(p) + 4 /\ f[1] = F!Magic1
  BY <1>3, FrameIs DEF Packet
<1>9. PICK u : u = Len(p) + 4
  OBVIOUS
<1>10. /\ Len(T) = n + u /\ u \in Nat
       /\ \A i \in 1 .. n : T[i] = S[i]
       /\ \A i \in 1 .. u : T[n + i] = f[i]
  <2>1. PICK B : B = F!Bytes
    OBVIOUS
  <2>2. /\ Len(T) = Len(S) + Len(f)
        /\ \A i \in 1 .. Len(S) + Len(f) : T[i] = IF i <= Len(S) THEN S[i] ELSE f[i - Len(S)]
    BY <2>1, <1>4, <1>8, ConcatProperties, Zenon
  <2>3. /\ Len(T) = n + u /\ u \in Nat
        /\ \A i \in 1 .. n + u : T[i] = IF i <= n THEN S[i] ELSE f[i - n]
    BY <2>2, <1>1, <1>8, <1>9
  <2>4. ASSUME NEW i \in 1 .. u PROVE T[n + i] = f[i]
    <3>1. n + i \in 1 .. n + u /\ ~ (n + i <= n) /\ (n + i) - n = i
      BY <1>7, <2>3
    <3> QED BY <3>1, <2>3
  <2>5. \A i \in 1 .. n : T[i] = S[i]
    BY <1>7, <2>3
  <2> QED BY <2>3, <2>4, <2>5
<1>11. Len(X) = e + 1 /\ X[e + 1] = p /\ \A k \in 1 .. e : X[k] = E[k]
  BY <1>2, <1>5, AppendProperties
<1>12. \A k \in d + 1 .. e : k \in d + 1 .. e + 1 /\ X[k] = E[k] /\ to[k] = at[k] /\ k # e + 1
  BY <1>6, <1>7, <1>11
<1>13. e + 1 \in d + 1 .. e + 1 /\ to[e + 1] = n + 1 /\ \A k \in d + 1 .. e + 1 : k = e + 1 \/ k \in d + 1 .. e
  BY <1>6, <1>7
<1>14. \A k \in d + 1 .. e : at[k] \in Int
  BY <1>2 DEF Layout
<1>15. \A k \in d + 1 .. e + 1 : to[k] \in Int
  BY <1>7, <1>12, <1>13, <1>14
<1>16. ASSUME NEW k \in d + 1 .. e + 1, NEW j \in 1 .. Len(X[k]) + 4, to[k] + j > 1
       PROVE  to[k] + j - 1 <= Len(T) /\ T[to[k] + j - 1] = F!Frame(X[k])[j]
  <2>1. CASE k = e + 1
    <3>1. j \in 1 .. u /\ to[k] + j - 1 = n + j
      BY <2>1, <1>7, <1>9, <1>11, <1>13
    <3>2. T[n + j] = f[j] /\ n + j <= Len(T)
      BY <3>1, <1>7, <1>10
    <3> QED BY <2>1, <3>1, <3>2, <1>3, <1>11
  <2>2. CASE k \in d + 1 .. e
    <3>1. X[k] = E[k] /\ to[k] = at[k] /\ at[k] \in Int
      BY <2>2, <1>12, <1>14
    <3>2. at[k] + j - 1 <= Len(S) /\ S[at[k] + j - 1] = F!Frame(E[k])[j]
      BY <2>2, <3>1, <1>2, <1>16 DEF Layout
    <3>3. PICK i : i = at[k] + j - 1
      OBVIOUS
    <3>4. i \in 1 .. n /\ i <= Len(T)
      <4>1. to[k] + j > 1 /\ to[k] = at[k]
        BY <3>1, <1>16
      <4>2. i > 0 /\ i \in Int
        BY <4>1, <3>1, <3>3
      <4>3. i <= n /\ n \in Nat
        <5>1. n \in Nat /\ n = Len(S)
          BY <1>1, <1>7
        <5>2. i <= Len(S)
          BY <3>2, <3>3
        <5> QED BY <5>1, <5>2
      <4>4. Len(T) = n + u /\ u \in Nat
        BY <1>10
      <4> QED BY <4>2, <4>3, <4>4
    <3> QED BY <3>1, <3>2, <3>3, <3>4, <1>10
  <2> QED BY <2>1, <2>2, <1>13
<1>17. ASSUME NEW k \in d + 1 .. e + 1, NEW l \in d + 1 .. e + 1, k < l
       PROVE  to[k] + Len(X[k]) + 4 <= to[l]
  <2>1. k \in d + 1 .. e /\ X[k] = E[k] /\ to[k] = at[k]
    BY <1>7, <1>12, <1>13, <1>17
  <2>2. CASE l = e + 1
    <3>1. PICK a : a = at[k]
      OBVIOUS
    <3>2. PICK v : v = Len(E[k]) + 4
      OBVIOUS
    <3>3. a \in Int /\ v \in Nat /\ v \in 1 .. v /\ v \in 1 .. Len(E[k]) + 4 /\ Len(E[k]) \in Nat
      <4>1. E[k] \in Packet
        BY <2>1, <1>2
      <4>2. Len(E[k]) \in Nat
        BY <4>1 DEF Packet
      <4> QED BY <4>2, <2>1, <3>1, <3>2, <1>14
    <3>4. a + v > 1 => a + v - 1 <= Len(S)
      BY <2>1, <3>1, <3>3, <1>2 DEF Layout
    <3>5. a + v <= n + 1
      BY <3>3, <3>4, <1>1, <1>7
    <3>6. to[k] + Len(X[k]) + 4 = a + v
      <4>1. PICK w : w = Len(X[k])
        OBVIOUS
      <4>2. w \in Nat /\ v = w + 4 /\ to[k] = a
        BY <2>1, <3>1, <3>2, <3>3, <4>1
      <4>3. a + w + 4 = a + v
        BY <4>2, <3>3
      <4> QED BY <4>1, <4>2, <4>3
    <3> QED BY <2>2, <3>5, <3>6, <1>13
  <2>3. CASE l \in d + 1 .. e
    <3>1. at[k] + Len(E[k]) + 4 <= at[l]
      BY <2>1, <2>3, <1>2, <1>17 DEF Layout
    <3> QED BY <2>1, <2>3, <3>1, <1>12
  <2> QED BY <2>2, <2>3, <1>13
<1>18. ASSUME NEW i \in 1 .. Len(T) - 1, T[i] = F!Magic1, T[i + 1] = F!Magic2
       PROVE  \E k \in d + 1 .. e + 1 : to[k] <= i /\ i + 1 < to[k] + Len(X[k]) + 4
  <2>1. CASE i < n
    <3>1. i \in 1 .. Len(S) - 1 /\ i \in 1 .. n /\ i + 1 \in 1 .. n
      BY <2>1, <1>1, <1>7
    <3>2. S[i] = F!Magic1 /\ S[i + 1] = F!Magic2
      BY <3>1, <1>10, <1>18
    <3>3. PICK k \in d + 1 .. e : at[k] <= i /\ i + 1 < at[k] + Len(E[k]) + 4
      BY <3>1, <3>2, <1>2 DEF Layout
    <3> QED BY <3>3, <1>12
  <2>2. CASE i = n
    <3>1. T[n + 1] = f[1]
      <4>1. 1 \in 1 .. u
        BY <1>8, <1>9
      <4> QED BY <4>1, <1>10
    <3> QED BY <2>2, <3>1, <1>8, <1>18 DEF F!Magic1, F!Magic2
  <2>3. CASE i > n
    <3>1. to[e + 1] <= i /\ i + 1 < to[e + 1] + Len(X[e + 1]) + 4
      <4>1. i \in Int /\ i <= n + u - 1
        BY <1>7, <1>10
      <4>2. n + 1 <= i /\ i + 1 < n + 1 + u
        BY <4>1, <2>3, <1>7, <1>10
      <4>3. n + 1 + u = to[e + 1] + Len(X[e + 1]) + 4
        BY <1>7, <1>8, <1>9, <1>11, <1>13
      <4> QED BY <4>2, <4>3, <1>13
    <3> QED BY <3>1, <1>13
  <2>4. i \in Int
    OBVIOUS
  <2> QED BY <2>1, <2>2, <2>3, <2>4, <1>7
<1>19. Layout(T, X, d, to)
  BY <1>11, <1>15, <1>16, <1>17, <1>18 DEF Layout
<1> QED BY <1>1, <1>2, <1>3, <1>4, <1>5, <1>6, <1>19

(* The next byte is the next one of the frame that is being read.           *)
LEMMA NextByte ==
  ASSUME NEW S \in Seq(F!Bytes), NEW E \in Seq(Packet), NEW d \in Nat, d < Len(E),
         NEW at, Layout(S, E, d, at), NEW a \in Int, at[d + 1] = a,
         a <= 1, a + Len(E[d + 1]) + 4 > 1
  PROVE  S # <<>> /\ S[1] = F!Frame(E[d + 1])[2 - a]
<1>1. PICK n : n = Len(E[d + 1])
  OBVIOUS
<1>2. d + 1 \in d + 1 .. Len(E) /\ E[d + 1] \in Packet
  OBVIOUS
<1>3. n \in Nat
  BY <1>1, <1>2 DEF Packet
<1>4. PICK j : j = 2 - a
  OBVIOUS
<1>5. j \in 1 .. n + 4 /\ a + j > 1 /\ a + j - 1 = 1
  BY <1>1, <1>3, <1>4
<1>6. a + j - 1 <= Len(S) /\ S[a + j - 1] = F!Frame(E[d + 1])[j]
  BY <1>1, <1>2, <1>5 DEF Layout
<1>7. S # <<>>
  BY <1>5, <1>6
<1> QED BY <1>4, <1>5, <1>6, <1>7

(* No frame seems to begin where none does.                                 *)
LEMMA NoFalseStart ==
  ASSUME NEW S \in Seq(F!Bytes), NEW E \in Seq(Packet), NEW d \in Nat,
         NEW at, Layout(S, E, d, at), d = Len(E) \/ (d < Len(E) /\ at[d + 1] > 1),
         Len(S) > 1, S[1] = F!Magic1
  PROVE  S[2] # F!Magic2
<1>1. SUFFICES ASSUME S[2] = F!Magic2 PROVE FALSE
  OBVIOUS
<1>2. 1 \in 1 .. Len(S) - 1 /\ S[1 + 1] = F!Magic2
  BY <1>1
<1>3. PICK k \in d + 1 .. Len(E) : at[k] <= 1 /\ 1 + 1 < at[k] + Len(E[k]) + 4
  BY <1>2 DEF Layout
<1>4. d < Len(E) /\ at[d + 1] > 1 /\ d + 1 \in d + 1 .. Len(E)
  BY <1>3
<1>5. k # d + 1
  BY <1>3, <1>4 DEF Layout
<1>6. d + 1 < k
  BY <1>3, <1>5
<1>7. PICK a : a = at[d + 1]
  OBVIOUS
<1>8. PICK b : b = at[k]
  OBVIOUS
<1>9. PICK n : n = Len(E[d + 1])
  OBVIOUS
<1>10. a \in Int /\ b \in Int
  BY <1>3, <1>4, <1>7, <1>8 DEF Layout
<1>11. E[d + 1] \in Packet
  BY <1>4
<1>12. n \in Nat
  BY <1>9, <1>11 DEF Packet
<1>13. a + n + 4 <= b
  BY <1>3, <1>4, <1>6, <1>7, <1>8, <1>9 DEF Layout
<1>14. a > 1 /\ b <= 1
  BY <1>3, <1>4, <1>7, <1>8
<1> QED BY <1>10, <1>12, <1>13, <1>14

(* syncMagic finds the beginning of the next frame and nothing else.        *)
LEMMA ReadHunt ==
  ASSUME NEW S \in Seq(F!Bytes), S # <<>>, NEW E \in Seq(Packet), NEW D \in Seq(Packet),
         NEW saw \in BOOLEAN, InStep(S, E, D, F!Hunting(saw)), NEW r,
         r = IF Head(S) = F!Magic2 /\ saw THEN F!InLength ELSE F!Hunting(Head(S) = F!Magic1)
  PROVE  InStep(Tail(S), E, D, r)
<1>1. PICK d : d = Len(D)
  OBVIOUS
<1>2. d \in Nat /\ d <= Len(E) /\ Len(E) \in Nat
  BY <1>1 DEF InStep
<1>3. PICK at : Layout(S, E, d, at) /\ Reads(S, E, d, at, F!Hunting(saw))
  BY <1>1 DEF InStep
<1>4. PICK to : to = [k \in d + 1 .. Len(E) |-> at[k] - 1]
  OBVIOUS
<1>5. Layout(Tail(S), E, d, to)
  BY <1>2, <1>3, <1>4, LayoutRead
<1>6. d < Len(E) => to[d + 1] = at[d + 1] - 1 /\ at[d + 1] \in Int /\ E[d + 1] \in Packet
  BY <1>2, <1>3, <1>4 DEF Layout
<1>7. Head(S) = S[1] /\ Len(S) \in Nat
  OBVIOUS
<1>8. Len(Tail(S)) = Len(S) - 1 /\ Tail(S) \in Seq(F!Bytes) /\ (Tail(S) # <<>> => Len(S) > 1 /\ Tail(S)[1] = S[2])
  <2>1. /\ Len(Tail(S)) = Len(S) - 1 /\ Tail(S) \in Seq(F!Bytes)
        /\ \A i \in 1 .. Len(Tail(S)) : Tail(S)[i] = S[i + 1]
    BY HeadTailProperties
  <2>2. ASSUME Tail(S) # <<>> PROVE Len(S) > 1 /\ Tail(S)[1] = S[2]
    <3>1. Len(Tail(S)) # 0
      BY <2>1, <2>2
    <3>2. 1 \in 1 .. Len(Tail(S))
      BY <2>1, <3>1, <1>7
    <3> QED BY <2>1, <3>2, <1>7
  <2> QED BY <2>1, <2>2
<1>9. /\ ~ saw => d = Len(E) \/ at[d + 1] >= 1
      /\ saw => \/ d < Len(E) /\ at[d + 1] = 0
                \/ (d = Len(E) \/ at[d + 1] >= 1) /\ S[1] # F!Magic2
  BY <1>3 DEF Reads, F!Hunting
<1>10. d < Len(E) /\ at[d + 1] = 1 => S[1] = F!Magic1
  <2> SUFFICES ASSUME d < Len(E), at[d + 1] = 1 PROVE S[1] = F!Magic1
    OBVIOUS
  <2>1. E[d + 1] \in Packet
    BY <1>6
  <2>2. Len(E[d + 1]) \in Nat
    BY <2>1 DEF Packet
  <2>3. S[1] = F!Frame(E[d + 1])[2 - 1]
    BY <2>2, <1>2, <1>3, NextByte
  <2>4. S[1] = F!Frame(E[d + 1])[1]
    BY <2>3
  <2> QED BY <2>1, <2>4, FrameIs
<1>11. d < Len(E) /\ at[d + 1] = 0 => S[1] = F!Magic2
  <2> SUFFICES ASSUME d < Len(E), at[d + 1] = 0 PROVE S[1] = F!Magic2
    OBVIOUS
  <2>1. E[d + 1] \in Packet
    BY <1>6
  <2>2. Len(E[d + 1]) \in Nat
    BY <2>1 DEF Packet
  <2>3. S[1] = F!Frame(E[d + 1])[2 - 0]
    BY <2>2, <1>2, <1>3, NextByte
  <2>4. S[1] = F!Frame(E[d + 1])[2]
    BY <2>3
  <2> QED BY <2>1, <2>4, FrameIs
<1>12. Reads(Tail(S), E, d, to, r)
  <2>1. CASE S[1] = F!Magic2 /\ saw
    <3>1. r = F!InLength
      BY <2>1, <1>7
    <3>2. r.state = "length" /\ r.got = <<>>
      BY <3>1 DEF F!InLength
    <3>3. d < Len(E) /\ at[d + 1] = 0
      BY <2>1, <1>9
    <3>4. to[d + 1] = -1 - 0 /\ Len(r.got) = 0
      BY <3>2, <3>3, <1>6
    <3> QED BY <3>2, <3>3, <3>4 DEF Reads
  <2>2. CASE S[1] = F!Magic1
    <3>1. r = F!Hunting(TRUE)
      <4>1. Head(S) # F!Magic2
        BY <2>2, <1>7 DEF F!Magic1, F!Magic2
      <4>2. r = F!Hunting(Head(S) = F!Magic1)
        BY <4>1
      <4>3. (Head(S) = F!Magic1) = TRUE
        BY <2>2, <1>7
      <4> QED BY <4>2, <4>3, Zenon
    <3>2. r.state = "hunt" /\ r.saw = TRUE
      BY <3>1 DEF F!Hunting
    <3>3. d = Len(E) \/ (d < Len(E) /\ at[d + 1] >= 1)
      BY <2>2, <1>2, <1>9, <1>11 DEF F!Magic1, F!Magic2
    <3>4. CASE d < Len(E) /\ at[d + 1] = 1
      BY <3>2, <3>4, <1>6 DEF Reads
    <3>5. CASE d = Len(E) \/ (d < Len(E) /\ at[d + 1] > 1)
      <4>1. Tail(S) # <<>> => Tail(S)[1] # F!Magic2
        BY <3>5, <2>2, <1>2, <1>3, <1>8, NoFalseStart
      <4>2. d = Len(E) \/ to[d + 1] >= 1
        BY <3>5, <1>6
      <4> QED BY <4>1, <4>2, <3>2 DEF Reads
    <3> QED BY <3>3, <3>4, <3>5, <1>6
  <2>3. CASE S[1] # F!Magic1 /\ ~ (S[1] = F!Magic2 /\ saw)
    <3>1. r = F!Hunting(FALSE)
      BY <2>3, <1>7
    <3>2. r.state = "hunt" /\ r.saw = FALSE
      BY <3>1 DEF F!Hunting
    <3>3. d = Len(E) \/ (d < Len(E) /\ at[d + 1] >= 1)
      BY <2>3, <1>2, <1>9, <1>11
    <3>4. d = Len(E) \/ to[d + 1] >= 1
      BY <2>3, <3>3, <1>6, <1>10
    <3> QED BY <3>2, <3>4 DEF Reads
  <2> QED BY <2>1, <2>2, <2>3
<1> QED BY <1>1, <1>5, <1>12 DEF InStep

(* readFull takes the next byte of the frame that is being read.            *)
LEMMA ReadPart ==
  ASSUME NEW S \in Seq(F!Bytes), S # <<>>, NEW E \in Seq(Packet), NEW D \in Seq(Packet),
         NEW r, ReaderOK(r), r.state # "hunt", InStep(S, E, D, r),
         NEW q, q.state = r.state, q.got = Append(r.got, Head(S)), q.need = r.need - 1
  PROVE  InStep(Tail(S), E, D, q)
<1>1. PICK d : d = Len(D)
  OBVIOUS
<1>2. d \in Nat /\ d < Len(E) /\ Len(E) \in Nat
  BY <1>1 DEF InStep, Reads
<1>3. PICK at : Layout(S, E, d, at) /\ Reads(S, E, d, at, r)
  BY <1>1 DEF InStep
<1>4. PICK to : to = [k \in d + 1 .. Len(E) |-> at[k] - 1]
  OBVIOUS
<1>5. Layout(Tail(S), E, d, to)
  BY <1>2, <1>3, <1>4, LayoutRead
<1>6. PICK a : a = at[d + 1]
  OBVIOUS
<1>7. PICK p : p = E[d + 1]
  OBVIOUS
<1>8. PICK n : n = Len(p)
  OBVIOUS
<1>9. /\ d + 1 \in d + 1 .. Len(E) /\ to[d + 1] = a - 1 /\ a \in Int
      /\ p \in Packet /\ n \in Nat /\ n > 0
  BY <1>2, <1>3, <1>4, <1>6, <1>7, <1>8 DEF Layout, Packet
<1>10. /\ r.got \in Seq(F!Bytes) /\ r.need \in Nat \ {0} /\ r.state \in {"length", "payload"}
       /\ r.state = "length" => Len(r.got) + r.need = 2
  <2>1. r \notin {F!Hunting(FALSE), F!Hunting(TRUE)}
    BY DEF F!Hunting
  <2>2. /\ r \in [state : {"length", "payload"}, saw : {FALSE}, got : Seq(F!Bytes), need : Nat \ {0}]
        /\ r.state = "length" => Len(r.got) + r.need = 2
    BY <2>1 DEF ReaderOK
  <2> QED BY <2>2
<1>11. PICK g : g = r.got
  OBVIOUS
<1>12. PICK u : u = Len(g)
  OBVIOUS
<1>13. PICK b : b = Head(S)
  OBVIOUS
<1>14. b \in F!Bytes /\ b = S[1]
  BY <1>13, HeadTailProperties
<1>15. /\ Len(q.got) = u + 1 /\ q.got[u + 1] = b /\ u \in Nat
       /\ \A j \in 1 .. u : q.got[j] = g[j]
  BY <1>10, <1>11, <1>12, <1>13, <1>14, AppendProperties
<1>16. CASE r.state = "length"
  <2>1. a = -1 - u /\ \A j \in 1 .. u : g[j] = F!Frame(p)[2 + j]
    BY <1>16, <1>3, <1>6, <1>7, <1>11, <1>12 DEF Reads
  <2>2. u <= 1
    BY <1>10, <1>11, <1>12, <1>15, <1>16
  <2>3. b = F!Frame(p)[2 - a]
    <3>1. a <= 1 /\ a + n + 4 > 1
      <4>1. a = -1 - u /\ u <= 1 /\ u \in Nat /\ n \in Nat
        BY <2>1, <2>2, <1>9, <1>15
      <4> QED BY <4>1
    <3>2. d + 1 \in d + 1 .. Len(E) /\ at[d + 1] = a /\ a \in Int /\ a + Len(E[d + 1]) + 4 > 1
      BY <3>1, <1>6, <1>7, <1>8, <1>9
    <3>3. b = F!Frame(E[d + 1])[2 - a]
      BY <3>1, <3>2, <1>2, <1>3, <1>14, NextByte
    <3> QED BY <3>3, <1>7
  <2>4. 2 - a = 2 + (u + 1) /\ to[d + 1] = -1 - (u + 1)
    BY <2>1, <1>9, <1>15
  <2>5. q.got[u + 1] = F!Frame(p)[2 + (u + 1)]
    BY <2>3, <2>4, <1>15
  <2>6. ASSUME NEW j \in 1 .. u + 1 PROVE q.got[j] = F!Frame(p)[2 + j]
    <3>1. j = u + 1 \/ j \in 1 .. u
      BY <1>15
    <3> QED BY <3>1, <2>1, <2>5, <1>15
  <2>7. Reads(Tail(S), E, d, to, q)
    BY <2>4, <2>6, <1>2, <1>7, <1>15, <1>16 DEF Reads
  <2> QED BY <2>7, <1>1, <1>5 DEF InStep
<1>17. CASE r.state = "payload"
  <2>1. a = -3 - u /\ u + r.need = n /\ \A j \in 1 .. u : g[j] = p[j]
    BY <1>17, <1>3, <1>6, <1>7, <1>8, <1>11, <1>12 DEF Reads
  <2>2. u + 1 \in 1 .. n
    <3>1. PICK w : w = r.need
      OBVIOUS
    <3>2. w \in Nat /\ w # 0 /\ u + w = n
      BY <2>1, <3>1, <1>10
    <3>3. u \in Nat /\ n \in Nat
      BY <1>9, <1>15
    <3> QED BY <3>2, <3>3
  <2>3. b = F!Frame(p)[2 - a]
    <3>1. a <= 1 /\ a + n + 4 > 1
      <4>1. a = -3 - u /\ u + 1 <= n /\ u \in Nat /\ n \in Nat
        BY <2>1, <2>2, <1>9, <1>15
      <4> QED BY <4>1
    <3>2. d + 1 \in d + 1 .. Len(E) /\ at[d + 1] = a /\ a \in Int /\ a + Len(E[d + 1]) + 4 > 1
      BY <3>1, <1>6, <1>7, <1>8, <1>9
    <3>3. b = F!Frame(E[d + 1])[2 - a]
      BY <3>1, <3>2, <1>2, <1>3, <1>14, NextByte
    <3> QED BY <3>3, <1>7
  <2>4. 2 - a = 4 + (u + 1) /\ to[d + 1] = -3 - (u + 1)
    BY <2>1, <1>9, <1>15
  <2>5. q.got[u + 1] = p[u + 1]
    BY <2>2, <2>3, <2>4, <1>8, <1>9, <1>15, FrameIs
  <2>6. ASSUME NEW j \in 1 .. u + 1 PROVE q.got[j] = p[j]
    <3>1. j = u + 1 \/ j \in 1 .. u
      BY <1>15
    <3> QED BY <3>1, <2>1, <2>5, <1>15
  <2>7. Len(q.got) + q.need = Len(E[d + 1])
    BY <2>1, <1>7, <1>8, <1>9, <1>10, <1>15
  <2>8. Reads(Tail(S), E, d, to, q)
    BY <2>4, <2>6, <2>7, <1>2, <1>7, <1>15, <1>17 DEF Reads
  <2> QED BY <2>8, <1>1, <1>5 DEF InStep
<1> QED BY <1>10, <1>16, <1>17

(* The length read is the payload's, so it is in range.                     *)
LEMMA LengthRead ==
  ASSUME NEW T \in Seq(F!Bytes), NEW E \in Seq(Packet), NEW D \in Seq(Packet), NEW q,
         q.state = "length", Len(q.got) = 2, InStep(T, E, D, q),
         NEW n, n = q.got[1] * 256 + q.got[2]
  PROVE  n \in 1 .. MaxPacket /\ InStep(T, E, D, F!InPayload(n))
<1>1. PICK d : d = Len(D)
  OBVIOUS
<1>2. d \in Nat /\ d < Len(E) /\ Len(E) \in Nat
  BY <1>1 DEF InStep, Reads
<1>3. PICK at : Layout(T, E, d, at) /\ Reads(T, E, d, at, q)
  BY <1>1 DEF InStep
<1>4. E[d + 1] \in Packet
  BY <1>2
<1>5. at[d + 1] = -1 - 2 /\ \A j \in 1 .. 2 : q.got[j] = F!Frame(E[d + 1])[2 + j]
  BY <1>3 DEF Reads
<1>6. q.got[1] = F!Frame(E[d + 1])[3] /\ q.got[2] = F!Frame(E[d + 1])[4]
  <2>1. q.got[1] = F!Frame(E[d + 1])[2 + 1] /\ q.got[2] = F!Frame(E[d + 1])[2 + 2]
    BY <1>5
  <2> QED BY <2>1
<1>7. n = Len(E[d + 1])
  BY <1>4, <1>6, FrameIs
<1>8. n \in 1 .. MaxPacket
  BY <1>4, <1>7 DEF Packet
<1>9. PICK r : r = F!InPayload(n)
  OBVIOUS
<1>10. r.state = "payload" /\ r.got = <<>> /\ Len(r.got) = 0 /\ r.need = n
  BY <1>9 DEF F!InPayload
<1>11. Reads(T, E, d, at, r)
  <2>1. at[d + 1] = -3 - 0
    BY <1>5
  <2>2. 0 + n = Len(E[d + 1])
    BY <1>7, <1>8
  <2> QED BY <2>1, <2>2, <1>2, <1>10 DEF Reads
<1> QED BY <1>1, <1>3, <1>8, <1>9, <1>11 DEF InStep

(* The payload read is the one of the next frame.                           *)
LEMMA PayloadRead ==
  ASSUME NEW T \in Seq(F!Bytes), NEW E \in Seq(Packet), NEW D \in Seq(Packet), NEW q,
         q.state = "payload", q.got \in Seq(F!Bytes), q.need = 0, InStep(T, E, D, q)
  PROVE  q.got \in Packet /\ InStep(T, E, Append(D, q.got), F!Hunting(FALSE))
<1>1. PICK d : d = Len(D)
  OBVIOUS
<1>2. d \in Nat /\ d < Len(E) /\ Len(E) \in Nat
  BY <1>1 DEF InStep, Reads
<1>3. PICK at : Layout(T, E, d, at) /\ Reads(T, E, d, at, q)
  BY <1>1 DEF InStep
<1>4. PICK p : p = E[d + 1]
  OBVIOUS
<1>5. p \in Packet /\ p \in Seq(F!Bytes) /\ Len(p) \in Nat
  BY <1>2, <1>4 DEF Packet
<1>6. PICK g : g = q.got
  OBVIOUS
<1>7. Len(g) = Len(p) /\ \A j \in 1 .. Len(g) : g[j] = p[j]
  BY <1>3, <1>4, <1>5, <1>6 DEF Reads
<1>8. g = p
  <2>1. g \in Seq(F!Bytes) /\ p \in Seq(F!Bytes)
    BY <1>5, <1>6
  <2> QED BY <2>1, <1>7, SeqEqual, Zenon
<1>9. at[d + 1] + Len(E[d + 1]) + 4 <= 1
  BY <1>3, <1>4, <1>5, <1>6, <1>7 DEF Reads
<1>10. Layout(T, E, d + 1, at)
  BY <1>2, <1>3, <1>9, LayoutEnd
<1>11. PICK X : X = Append(D, p)
  OBVIOUS
<1>12. /\ Len(X) = d + 1 /\ X[d + 1] = p
       /\ \A i \in 1 .. d : X[i] = D[i]
  BY <1>1, <1>5, <1>11, AppendProperties
<1>13. \A i \in 1 .. d + 1 : X[i] = E[i]
  <2> SUFFICES ASSUME NEW i \in 1 .. d + 1 PROVE X[i] = E[i]
    OBVIOUS
  <2>1. i = d + 1 \/ i \in 1 .. d
    BY <1>2
  <2>2. \A j \in 1 .. d : D[j] = E[j]
    BY <1>1 DEF InStep
  <2> QED BY <2>1, <2>2, <1>4, <1>12
<1>14. d + 1 = Len(E) \/ at[(d + 1) + 1] >= 1
  <2> SUFFICES ASSUME d + 1 # Len(E) PROVE at[(d + 1) + 1] >= 1
    OBVIOUS
  <2>1. d + 1 \in d + 1 .. Len(E) /\ d + 2 \in d + 1 .. Len(E) /\ d + 1 < d + 2
    BY <1>2
  <2>2. at[d + 1] + Len(E[d + 1]) + 4 <= at[d + 2]
    BY <2>1, <1>3 DEF Layout
  <2>3. PICK a : a = at[d + 2]
    OBVIOUS
  <2>4. PICK c : c = at[d + 1]
    OBVIOUS
  <2>5. c = -3 - Len(p) /\ c + Len(p) + 4 <= a /\ a \in Int
    BY <2>1, <2>2, <2>3, <2>4, <1>3, <1>4, <1>6, <1>7 DEF Layout, Reads
  <2>6. a >= 1
    BY <2>5, <1>5
  <2> QED BY <2>3, <2>6, <1>2
<1>15. Reads(T, E, d + 1, at, F!Hunting(FALSE))
  BY <1>14 DEF Reads, F!Hunting
<1>16. d + 1 <= Len(E)
  BY <1>2
<1>17. InStep(T, E, X, F!Hunting(FALSE))
  BY <1>10, <1>12, <1>13, <1>15, <1>16 DEF InStep
<1> QED BY <1>5, <1>6, <1>8, <1>11, <1>17

WithoutNext(X, E, d) ==
  /\ X \in Seq(Packet) /\ Len(X) = Len(E) - 1
  /\ \A k \in 1 .. d : X[k] = E[k]
  /\ \A k \in d + 1 .. Len(X) : X[k] = E[k + 1]

LEMMA RemoveIs ==
  ASSUME NEW E \in Seq(Packet), NEW d \in Nat, d < Len(E)
  PROVE  WithoutNext(F!RemoveAt(E, d + 1), E, d)
<1> DEFINE X == F!RemoveAt(E, d + 1)
<1>1. PICK e : e = Len(E)
  OBVIOUS
<1>2. e \in Nat /\ d < e
  BY <1>1
<1>3. PICK s : s = SubSeq(E, 1, d)
  OBVIOUS
<1>4. PICK t : t = SubSeq(E, d + 2, e)
  OBVIOUS
<1>5. s \in Seq(Packet) /\ Len(s) = d /\ \A k \in 1 .. d : s[k] = E[k]
  BY <1>1, <1>2, <1>3, SubSeqProperties
<1>6. t \in Seq(Packet) /\ Len(t) = e - d - 1 /\ \A k \in 1 .. e - d - 1 : t[k] = E[d + 1 + k]
  BY <1>1, <1>2, <1>4, SubSeqProperties
<1>7. X = s \o t
  <2>1. (d + 1) - 1 = d /\ (d + 1) + 1 = d + 2
    OBVIOUS
  <2> QED BY <2>1, <1>1, <1>3, <1>4 DEF F!RemoveAt
<1>8. X \in Seq(Packet)
  BY <1>5, <1>6, <1>7, ConcatProperties
<1>9. Len(X) = Len(s) + Len(t) /\ \A i \in 1 .. Len(s) + Len(t) : X[i] = IF i <= Len(s) THEN s[i] ELSE t[i - Len(s)]
  <2>1. s \in Seq(Packet) /\ t \in Seq(Packet)
    BY <1>5, <1>6
  <2>2. /\ Len(s \o t) = Len(s) + Len(t)
        /\ \A i \in 1 .. Len(s) + Len(t) : (s \o t)[i] = IF i <= Len(s) THEN s[i] ELSE t[i - Len(s)]
    BY <2>1, ConcatProperties, Zenon
  <2> QED BY <2>2, <1>7, Zenon
<1>10. Len(X) = e - 1 /\ \A i \in 1 .. e - 1 : X[i] = IF i <= d THEN s[i] ELSE t[i - d]
  BY <1>2, <1>5, <1>6, <1>9
<1>11. ASSUME NEW k \in 1 .. d PROVE X[k] = E[k]
  BY <1>2, <1>5, <1>10
<1>12. ASSUME NEW k \in d + 1 .. e - 1 PROVE X[k] = E[k + 1]
  <2>1. k \in 1 .. e - 1 /\ ~ (k <= d) /\ k - d \in 1 .. e - d - 1 /\ d + 1 + (k - d) = k + 1
    BY <1>2
  <2>2. t[k - d] = E[d + 1 + (k - d)]
    BY <2>1, <1>6
  <2> QED BY <2>1, <2>2, <1>10
<1> QED BY <1>1, <1>8, <1>10, <1>11, <1>12 DEF WithoutNext

(* What a frame more, noise and a frame given up leave of being in step.    *)
LEMMA StepWrite ==
  ASSUME NEW S \in Seq(F!Bytes), NEW E \in Seq(Packet), NEW D \in Seq(Packet), NEW r,
         InStep(S, E, D, r), NEW p \in Packet
  PROVE  InStep(S \o F!Frame(p), Append(E, p), D, r)
<1>1. PICK d : d = Len(D)
  OBVIOUS
<1>2. PICK e : e = Len(E)
  OBVIOUS
<1>3. d \in Nat /\ d <= e /\ e \in Nat /\ \A i \in 1 .. d : D[i] = E[i]
  BY <1>1, <1>2 DEF InStep
<1>4. PICK at : Layout(S, E, d, at) /\ Reads(S, E, d, at, r)
  BY <1>1 DEF InStep
<1>5. PICK T : T = S \o F!Frame(p)
  OBVIOUS
<1>6. PICK X : X = Append(E, p)
  OBVIOUS
<1>7. PICK n : n = Len(S)
  OBVIOUS
<1>8. PICK to : to = [k \in d + 1 .. e + 1 |-> IF k = e + 1 THEN n + 1 ELSE at[k]]
  OBVIOUS
<1>9. Layout(T, X, d, to)
  BY <1>2, <1>3, <1>4, <1>5, <1>6, <1>7, <1>8, LayoutWrite
<1>10. Len(X) = e + 1 /\ \A k \in 1 .. e : X[k] = E[k]
  BY <1>2, <1>6, AppendProperties
<1>11. d < e => to[d + 1] = at[d + 1] /\ X[d + 1] = E[d + 1]
  <2> SUFFICES ASSUME d < e PROVE to[d + 1] = at[d + 1] /\ X[d + 1] = E[d + 1]
    OBVIOUS
  <2>1. d + 1 \in d + 1 .. e + 1 /\ d + 1 # e + 1 /\ d + 1 \in 1 .. e
    BY <1>3
  <2> QED BY <2>1, <1>8, <1>10
<1>12. d = e => to[d + 1] >= 1
  <2> SUFFICES ASSUME d = e PROVE to[d + 1] >= 1
    OBVIOUS
  <2>1. d + 1 \in d + 1 .. e + 1 /\ d + 1 = e + 1 /\ n + 1 >= 1
    BY <1>3, <1>7
  <2> QED BY <2>1, <1>8
<1>13. (S # <<>> => S[1] # F!Magic2) => T[1] # F!Magic2
  <2>1. F!Frame(p) \in Seq(F!Bytes) /\ F!Frame(p)[1] = F!Magic1 /\ Len(F!Frame(p)) \in Nat /\ Len(F!Frame(p)) > 0
    BY FrameIs DEF Packet
  <2>2. PICK f : f = F!Frame(p)
    OBVIOUS
  <2>3. \A i \in 1 .. Len(S) + Len(f) : T[i] = IF i <= Len(S) THEN S[i] ELSE f[i - Len(S)]
    <3>1. PICK B : B = F!Bytes
      OBVIOUS
    <3> QED BY <3>1, <2>1, <2>2, <1>5, ConcatProperties, Zenon
  <2>4. n \in Nat /\ 1 \in 1 .. n + Len(f)
    BY <2>1, <2>2, <1>7
  <2>5. T[1] = IF 1 <= n THEN S[1] ELSE f[1 - n]
    BY <2>3, <2>4, <1>7
  <2>6. CASE n = 0
    <3>1. T[1] = f[1]
      BY <2>5, <2>6
    <3> QED BY <3>1, <2>1, <2>2 DEF F!Magic1, F!Magic2
  <2>7. CASE n # 0
    <3>1. T[1] = S[1] /\ S # <<>>
      BY <2>4, <2>5, <2>7, <1>7
    <3> QED BY <3>1
  <2> QED BY <2>6, <2>7
<1>14. Reads(T, X, d, to, r)
  <2>1. r.state = "hunt" /\ ~ r.saw => d = e + 1 \/ to[d + 1] >= 1
    BY <1>2, <1>3, <1>4, <1>11, <1>12 DEF Reads
  <2>2. r.state = "hunt" /\ r.saw =>
          \/ d < e + 1 /\ to[d + 1] = 0
          \/ (d = e + 1 \/ to[d + 1] >= 1) /\ (T # <<>> => T[1] # F!Magic2)
    BY <1>2, <1>3, <1>4, <1>11, <1>12, <1>13 DEF Reads
  <2>3. r.state # "hunt" => d < e
    BY <1>2, <1>4 DEF Reads
  <2>4. r.state = "length" =>
          /\ to[d + 1] = -1 - Len(r.got)
          /\ \A j \in 1 .. Len(r.got) : r.got[j] = F!Frame(X[d + 1])[2 + j]
    BY <2>3, <1>4, <1>11 DEF Reads
  <2>5. r.state = "payload" =>
          /\ to[d + 1] = -3 - Len(r.got)
          /\ Len(r.got) + r.need = Len(X[d + 1])
          /\ \A j \in 1 .. Len(r.got) : r.got[j] = X[d + 1][j]
    BY <2>3, <1>4, <1>11 DEF Reads
  <2>6. r.state # "hunt" => d < e + 1
    BY <2>3, <1>3
  <2> QED BY <2>1, <2>2, <2>4, <2>5, <2>6, <1>10 DEF Reads
<1>15. \A i \in 1 .. d : D[i] = X[i]
  BY <1>3, <1>10
<1>16. d <= e + 1
  BY <1>3
<1> QED BY <1>1, <1>5, <1>6, <1>9, <1>10, <1>14, <1>15, <1>16 DEF InStep

LEMMA StepNoise ==
  ASSUME NEW S \in Seq(F!Bytes), NEW E \in Seq(Packet), NEW D \in Seq(Packet), NEW r,
         InStep(S, E, D, r), NEW b \in F!Bytes, b # F!Magic2
  PROVE  InStep(Append(S, b), E, D, r)
<1>1. PICK d : d = Len(D)
  OBVIOUS
<1>2. d \in Nat
  BY <1>1
<1>3. PICK at : Layout(S, E, d, at) /\ Reads(S, E, d, at, r)
  BY <1>1 DEF InStep
<1>4. PICK T : T = Append(S, b)
  OBVIOUS
<1>5. Layout(T, E, d, at)
  BY <1>2, <1>3, <1>4, LayoutNoise
<1>6. (S # <<>> => S[1] # F!Magic2) => T[1] # F!Magic2
  <2>1. T[Len(S) + 1] = b /\ Len(S) \in Nat /\ \A i \in 1 .. Len(S) : T[i] = S[i]
    BY <1>4, AppendProperties
  <2>2. CASE S = <<>>
    <3>1. T[1] = b
      BY <2>1, <2>2
    <3> QED BY <3>1
  <2>3. CASE S # <<>>
    <3>1. 1 \in 1 .. Len(S)
      BY <2>1, <2>3
    <3> QED BY <2>1, <2>3, <3>1
  <2> QED BY <2>2, <2>3
<1>7. Reads(T, E, d, at, r)
  BY <1>3, <1>6 DEF Reads
<1> QED BY <1>1, <1>4, <1>5, <1>7 DEF InStep

LEMMA StepSkip ==
  ASSUME NEW S \in Seq(F!Bytes), NEW E \in Seq(Packet), NEW D \in Seq(Packet), NEW r,
         ReaderOK(r), r.state # "hunt", InStep(S, E, D, r)
  PROVE  /\ F!RemoveAt(E, Len(D) + 1) \in Seq(Packet)
         /\ \/ F!LooksLikeFrame(E[Len(D) + 1])
            \/ InStep(S, F!RemoveAt(E, Len(D) + 1), D, F!Hunting(FALSE))
<1>1. PICK d : d = Len(D)
  OBVIOUS
<1>2. d \in Nat /\ d < Len(E) /\ Len(E) \in Nat
  BY <1>1 DEF InStep, Reads
<1>3. PICK at : Layout(S, E, d, at) /\ Reads(S, E, d, at, r)
  BY <1>1 DEF InStep
<1>4. PICK X : X = F!RemoveAt(E, d + 1)
  OBVIOUS
<1>5. /\ X \in Seq(Packet) /\ Len(X) = Len(E) - 1
      /\ \A k \in 1 .. d : X[k] = E[k]
      /\ \A k \in d + 1 .. Len(X) : X[k] = E[k + 1]
  <2>1. WithoutNext(F!RemoveAt(E, d + 1), E, d)
    BY <1>2, RemoveIs
  <2> QED BY <2>1, <1>4 DEF WithoutNext
<1>6. SUFFICES ASSUME ~ F!LooksLikeFrame(E[d + 1]) PROVE InStep(S, X, D, F!Hunting(FALSE))
  BY <1>1, <1>4, <1>5
<1>7. PICK a : a = at[d + 1]
  OBVIOUS
<1>8. r.state \in {"length", "payload"} /\ Len(r.got) \in Nat
  <2>1. r \notin {F!Hunting(FALSE), F!Hunting(TRUE)}
    BY DEF F!Hunting
  <2>2. r \in [state : {"length", "payload"}, saw : {FALSE}, got : Seq(F!Bytes), need : Nat \ {0}]
    BY <2>1 DEF ReaderOK
  <2> QED BY <2>2
<1>9. a <= -1
  <2>1. a = -1 - Len(r.got) \/ a = -3 - Len(r.got)
    BY <1>3, <1>7, <1>8 DEF Reads
  <2> QED BY <2>1, <1>8
<1>10. PICK to : to = [k \in d + 1 .. Len(X) |-> at[k + 1]]
  OBVIOUS
<1>11. Layout(S, X, d, to)
  BY <1>2, <1>3, <1>5, <1>6, <1>7, <1>9, <1>10, LayoutSkip, Zenon
<1>12. d = Len(X) \/ to[d + 1] >= 1
  <2> SUFFICES ASSUME d # Len(X) PROVE to[d + 1] >= 1
    OBVIOUS
  <2>1. d + 1 \in d + 1 .. Len(X) /\ d + 1 \in d + 1 .. Len(E) /\ d + 2 \in d + 1 .. Len(E) /\ d + 1 < d + 2
    BY <1>2, <1>5
  <2>2. PICK p : p = E[d + 1]
    OBVIOUS
  <2>3. p \in Packet /\ Len(p) \in Nat
    BY <2>2, <1>2 DEF Packet
  <2>4. PICK c : c = at[d + 2]
    OBVIOUS
  <2>5. a + Len(p) + 4 <= c /\ a \in Int /\ c \in Int
    BY <2>1, <2>2, <2>4, <1>3, <1>7 DEF Layout
  <2>6. a + Len(p) + 4 >= 1
    <3>1. PICK u : u = Len(r.got)
      OBVIOUS
    <3>2. CASE r.state = "length"
      <4>1. a = -1 - u /\ u <= 2 /\ u \in Nat
        <5>1. r.need \in Nat /\ u + r.need = 2 /\ u \in Nat
          <6>1. r \notin {F!Hunting(FALSE), F!Hunting(TRUE)}
            BY <3>2 DEF F!Hunting
          <6> QED BY <6>1, <3>1, <3>2, <1>8 DEF ReaderOK
        <5>2. a = -1 - u
          BY <3>1, <3>2, <1>3, <1>7 DEF Reads
        <5>3. PICK w : w = r.need
          OBVIOUS
        <5> QED BY <5>1, <5>2, <5>3
      <4> QED BY <4>1, <2>3
    <3>3. CASE r.state = "payload"
      <4>1. PICK w : w = r.need
        OBVIOUS
      <4>2. w \in Nat /\ u \in Nat
        <5>1. r \notin {F!Hunting(FALSE), F!Hunting(TRUE)}
          BY <3>3 DEF F!Hunting
        <5> QED BY <5>1, <4>1, <3>1, <1>8 DEF ReaderOK
      <4>3. a = -3 - u /\ u + w = Len(p)
        BY <4>1, <3>1, <3>3, <2>2, <1>3, <1>7 DEF Reads
      <4> QED BY <4>2, <4>3, <2>3
    <3> QED BY <3>2, <3>3, <1>8
  <2>7. to[d + 1] = at[(d + 1) + 1]
    BY <2>1, <1>10
  <2>8. to[d + 1] = c
    BY <2>4, <2>7, <1>2
  <2> QED BY <2>3, <2>5, <2>6, <2>8
<1>13. Reads(S, X, d, to, F!Hunting(FALSE))
  BY <1>12 DEF Reads, F!Hunting
<1>14. d <= Len(X) /\ \A i \in 1 .. d : D[i] = X[i]
  <2>1. \A i \in 1 .. d : D[i] = E[i]
    BY <1>1 DEF InStep
  <2> QED BY <2>1, <1>2, <1>5
<1> QED BY <1>1, <1>11, <1>13, <1>14 DEF InStep

----------------------------------------------------------------------------
LEMMA OnTheWayIs ==
  ASSUME LineTypes
  PROVE  /\ Unwritten \in Seq(F!Bytes) /\ OnTheWay \in Seq(F!Bytes)
         /\ wmu = F!Free => OnTheWay = line
         /\ line = <<>> => OnTheWay = Unwritten
<1>1. Unwritten \in Seq(F!Bytes)
  BY DEF LineTypes, Unwritten
<1>2. line \in Seq(F!Bytes)
  BY DEF LineTypes
<1>3. OnTheWay \in Seq(F!Bytes)
  BY <1>1, <1>2, ConcatProperties DEF OnTheWay
<1>4. wmu = F!Free => OnTheWay = line
  BY <1>2, ConcatEmptySeq DEF OnTheWay, Unwritten
<1>5. line = <<>> => OnTheWay = Unwritten
  BY <1>1, ConcatEmptySeq DEF OnTheWay
<1> QED BY <1>1, <1>3, <1>4, <1>5

LEMMA LineInit ==
  ASSUME F!Init
  PROVE  LineInv
<1>1. F!Free \notin Writers
  BY LineAssumption DEF F!FramingAssumption
<1>2. LineTypes
  <2>1. ReaderOK(reader)
    BY DEF F!Init, ReaderOK
  <2>2. \A w \in Writers : rest[w] = <<>> /\ w # wmu
    BY <1>1 DEF F!Init
  <2>3. wmu = F!Free /\ rest \in [Writers -> Seq(F!Bytes)] /\ line = <<>>
    BY DEF F!Init
  <2>4. delivered \in Seq(Packet) /\ expected \in Seq(Packet) /\ confused \in BOOLEAN
    <3>1. <<>> \in Seq(Packet)
      BY EmptySeq
    <3> QED BY <3>1 DEF F!Init
  <2>5. line \in Seq(F!Bytes) /\ wmu \in Writers \cup {F!Free}
    BY <2>3
  <2>6. \A w \in Writers : rest[w] # <<>> <=> w = wmu
    BY <2>2
  <2> QED BY <2>1, <2>3, <2>4, <2>5, <2>6 DEF LineTypes
<1>3. OnTheWay = <<>>
  <2>1. line = <<>> /\ wmu = F!Free
    BY DEF F!Init
  <2> QED BY <2>1, <1>2, OnTheWayIs
<1>4. Layout(<<>>, <<>>, 0, <<>>)
  BY DEF Layout
<1>5. Reads(<<>>, <<>>, 0, <<>>, F!Hunting(FALSE))
  BY DEF Reads, F!Hunting
<1>6. InStep(<<>>, <<>>, <<>>, F!Hunting(FALSE))
  <2>1. PICK e : e = <<>>
    OBVIOUS
  <2>2. Len(e) = 0
    BY <2>1
  <2>3. Layout(e, e, Len(e), e) /\ Reads(e, e, Len(e), e, F!Hunting(FALSE))
    BY <2>1, <2>2, <1>4, <1>5
  <2>4. \E at : Layout(e, e, Len(e), at) /\ Reads(e, e, Len(e), at, F!Hunting(FALSE))
    BY <2>3, Zenon
  <2>5. Len(e) <= Len(e) /\ \A i \in 1 .. Len(e) : e[i] = e[i]
    BY <2>2
  <2>6. InStep(e, e, e, F!Hunting(FALSE))
    BY <2>4, <2>5, Zenon DEF InStep
  <2> QED BY <2>1, <2>6
<1>7. expected = <<>> /\ delivered = <<>> /\ reader = F!Hunting(FALSE)
  BY DEF F!Init
<1> QED BY <1>2, <1>3, <1>6, <1>7 DEF LineInv

(* WriteFrame.                                                              *)
LEMMA WriteLine ==
  ASSUME LineInv, NEW w \in Writers, NEW p \in Payloads, F!WriteFrame(w, p)
  PROVE  LineInv'
<1> USE DEF LineInv
<1>1. CASE Len(p) > MaxPacket
  BY <1>1 DEF F!WriteFrame, LineTypes, OnTheWay, Unwritten
<1>2. CASE ~ (Len(p) > MaxPacket)
  <2>1. /\ wmu = F!Free /\ wmu' = w /\ rest' = [rest EXCEPT ![w] = F!Frame(p)]
        /\ expected' = Append(expected, p) /\ UNCHANGED <<line, reader, delivered, confused>>
    BY <1>2 DEF F!WriteFrame
  <2>2. p \in Packet
    BY <1>2, LineAssumption DEF F!FramingAssumption, Packet
  <2>3. F!Frame(p) \in Seq(F!Bytes) /\ F!Frame(p) # <<>>
    <3>1. Len(F!Frame(p)) = Len(p) + 4 /\ Len(p) \in Nat /\ F!Frame(p) \in Seq(F!Bytes)
      BY <2>2, FrameIs DEF Packet
    <3>2. Len(F!Frame(p)) # 0
      BY <3>1
    <3> QED BY <3>1, <3>2
  <2>4. F!Free \notin Writers
    BY LineAssumption DEF F!FramingAssumption
  <2>5. rest \in [Writers -> Seq(F!Bytes)] /\ \A v \in Writers : rest[v] = <<>>
    BY <2>1, <2>4 DEF LineTypes
  <2>6. rest' \in [Writers -> Seq(F!Bytes)] /\ \A v \in Writers : rest'[v] # <<>> <=> v = w
    BY <2>1, <2>3, <2>5
  <2>7. rest'[w] = F!Frame(p) /\ w # F!Free
    BY <2>1, <2>4, <2>5
  <2>8. LineTypes'
    <3>1. expected' \in Seq(Packet)
      BY <2>1, <2>2, AppendProperties DEF LineTypes
    <3>2. ReaderOK(reader')
      BY <2>1 DEF LineTypes
    <3> QED BY <2>1, <2>6, <3>1, <3>2 DEF LineTypes
  <2>9. OnTheWay' = OnTheWay \o F!Frame(p)
    <3>1. OnTheWay = line
      BY <2>1, OnTheWayIs
    <3>2. Unwritten' = F!Frame(p)
      BY <2>1, <2>7 DEF Unwritten
    <3> QED BY <2>1, <3>1, <3>2 DEF OnTheWay
  <2>10. ~ confused => InStep(OnTheWay \o F!Frame(p), Append(expected, p), delivered, reader)
    <3> SUFFICES ASSUME ~ confused
                 PROVE  InStep(OnTheWay \o F!Frame(p), Append(expected, p), delivered, reader)
      OBVIOUS
    <3>1. InStep(OnTheWay, expected, delivered, reader)
      OBVIOUS
    <3>2. OnTheWay \in Seq(F!Bytes)
      BY OnTheWayIs
    <3>3. expected \in Seq(Packet) /\ delivered \in Seq(Packet)
      BY DEF LineTypes
    <3> QED BY <3>1, <3>2, <3>3, <2>2, StepWrite
  <2> QED BY <2>1, <2>8, <2>9, <2>10
<1> QED BY <1>1, <1>2

(* port.Write: the byte stays on its way.                                   *)
LEMMA PutLine ==
  ASSUME LineInv, NEW w \in Writers, F!PutByte(w)
  PROVE  LineInv'
<1> USE DEF LineInv
<1>1. /\ rest[w] # <<>> /\ line' = Append(line, Head(rest[w]))
      /\ rest' = [rest EXCEPT ![w] = Tail(rest[w])]
      /\ wmu' = IF Len(rest[w]) = 1 THEN F!Free ELSE wmu
      /\ UNCHANGED <<reader, delivered, expected, confused>>
  BY DEF F!PutByte, F!history
<1>2. wmu = w /\ F!Free \notin Writers /\ rest \in [Writers -> Seq(F!Bytes)] /\ line \in Seq(F!Bytes)
  BY <1>1, LineAssumption DEF LineTypes, F!FramingAssumption
<1>3. PICK s : s = rest[w]
  OBVIOUS
<1>4. /\ s \in Seq(F!Bytes) /\ s # <<>> /\ Head(s) \in F!Bytes /\ Tail(s) \in Seq(F!Bytes)
      /\ Len(Tail(s)) = Len(s) - 1 /\ Len(s) \in Nat
  BY <1>1, <1>2, <1>3, HeadTailProperties
<1>5. Tail(s) = <<>> <=> Len(s) = 1
  <2>1. Tail(s) = <<>> <=> Len(Tail(s)) = 0
    BY <1>4, EmptySeq
  <2> QED BY <2>1, <1>4
<1>6. \A v \in Writers : v # w => rest[v] = <<>>
  BY <1>2 DEF LineTypes
<1>7. rest' \in [Writers -> Seq(F!Bytes)] /\ rest'[w] = Tail(s) /\ \A v \in Writers : v # w => rest'[v] = rest[v]
  BY <1>1, <1>2, <1>3, <1>4
<1>8. \A v \in Writers : rest'[v] # <<>> <=> v = wmu'
  <2>1. CASE Len(s) = 1
    <3>1. wmu' = F!Free
      BY <2>1, <1>1, <1>3
    <3> QED BY <2>1, <3>1, <1>2, <1>5, <1>6, <1>7
  <2>2. CASE Len(s) # 1
    <3>1. wmu' = w
      BY <2>2, <1>1, <1>2, <1>3
    <3> QED BY <2>2, <3>1, <1>5, <1>6, <1>7
  <2> QED BY <2>1, <2>2
<1>9. wmu' \in Writers \cup {F!Free}
  BY <1>1, <1>2
<1>10. line' \in Seq(F!Bytes)
  BY <1>1, <1>2, <1>3, <1>4, AppendProperties
<1>11. LineTypes'
  <2>1. ReaderOK(reader')
    BY <1>1 DEF LineTypes
  <2> QED BY <2>1, <1>1, <1>7, <1>8, <1>9, <1>10 DEF LineTypes
<1>12. OnTheWay' = OnTheWay
  <2>1. Unwritten = s
    BY <1>2, <1>3 DEF Unwritten
  <2>2. Unwritten' = Tail(s)
    <3>1. CASE Len(s) = 1
      BY <3>1, <1>1, <1>3, <1>5 DEF Unwritten
    <3>2. CASE Len(s) # 1
      <4>1. wmu' = w /\ w # F!Free
        BY <3>2, <1>1, <1>2, <1>3
      <4> QED BY <4>1, <1>7 DEF Unwritten
    <3> QED BY <3>1, <3>2
  <2>3. PICK h : h = Head(s)
    OBVIOUS
  <2>4. Append(line, h) = line \o <<h>> /\ <<h>> \in Seq(F!Bytes)
    BY <2>3, <1>2, <1>4, AppendIsConcat
  <2>5. (line \o <<h>>) \o Tail(s) = line \o (<<h>> \o Tail(s))
    BY <2>4, <1>2, <1>4, ConcatAssociative
  <2>6. <<h>> \o Tail(s) = s
    BY <2>3, <1>4
  <2> QED BY <2>1, <2>2, <2>3, <2>4, <2>5, <2>6, <1>1, <1>3 DEF OnTheWay
<1> QED BY <1>1, <1>11, <1>12

LEMMA ChatterLine ==
  ASSUME LineInv, F!Chatter
  PROVE  LineInv'
<1> USE DEF LineInv
<1>1. PICK b \in Noise : line' = Append(line, b)
  BY DEF F!Chatter
<1>2. wmu = F!Free /\ UNCHANGED <<wmu, rest, reader, delivered, expected, confused>>
  BY DEF F!Chatter, F!history
<1>3. b \in F!Bytes /\ b # F!Magic2
  BY LineAssumption DEF F!FramingAssumption
<1>4. line \in Seq(F!Bytes) /\ line' \in Seq(F!Bytes)
  BY <1>1, <1>3, AppendProperties DEF LineTypes
<1>5. LineTypes'
  <2>1. ReaderOK(reader')
    BY <1>2 DEF LineTypes
  <2>2. wmu' \in Writers \cup {F!Free} /\ rest' \in [Writers -> Seq(F!Bytes)]
    BY <1>2 DEF LineTypes
  <2>3. \A w \in Writers : rest'[w] # <<>> <=> w = wmu'
    BY <1>2 DEF LineTypes
  <2> QED BY <2>1, <2>2, <2>3, <1>2, <1>4 DEF LineTypes
<1>6. OnTheWay = line /\ OnTheWay \in Seq(F!Bytes)
  BY <1>2, OnTheWayIs
<1>7. OnTheWay' = Append(OnTheWay, b)
  <2>1. Unwritten' = <<>>
    BY <1>2 DEF Unwritten
  <2> QED BY <2>1, <1>1, <1>4, <1>6, ConcatEmptySeq DEF OnTheWay
<1>8. ~ confused => InStep(Append(OnTheWay, b), expected, delivered, reader)
  <2> SUFFICES ASSUME ~ confused PROVE InStep(Append(OnTheWay, b), expected, delivered, reader)
    OBVIOUS
  <2>1. InStep(OnTheWay, expected, delivered, reader)
    OBVIOUS
  <2>2. expected \in Seq(Packet) /\ delivered \in Seq(Packet)
    BY DEF LineTypes
  <2> QED BY <2>1, <2>2, <1>3, <1>6, StepNoise
<1> QED BY <1>2, <1>5, <1>7, <1>8

LEMMA LoseLine ==
  ASSUME LineInv, F!LoseByte
  PROVE  LineInv'
<1>1. /\ line # <<>> /\ line' = Tail(line) /\ confused' = TRUE
      /\ UNCHANGED <<wmu, rest, reader, delivered, expected>>
  BY DEF F!LoseByte
<1>2. line' \in Seq(F!Bytes)
  BY <1>1, HeadTailProperties DEF LineInv, LineTypes
<1>3. ReaderOK(reader') /\ wmu' \in Writers \cup {F!Free} /\ rest' \in [Writers -> Seq(F!Bytes)]
  BY <1>1 DEF LineInv, LineTypes
<1>4. \A w \in Writers : rest'[w] # <<>> <=> w = wmu'
  BY <1>1 DEF LineInv, LineTypes
<1>5. delivered' \in Seq(Packet) /\ expected' \in Seq(Packet)
  BY <1>1 DEF LineInv, LineTypes
<1> QED BY <1>1, <1>2, <1>3, <1>4, <1>5 DEF LineInv, LineTypes

(* What ReadPacket has after one more byte.                                 *)
More(r, b) == [r EXCEPT !.got = Append(r.got, b), !.need = r.need - 1]

PartOK(q, r, b) ==
  /\ q.state = r.state /\ q.saw = FALSE /\ q.got = Append(r.got, b) /\ q.need = r.need - 1
  /\ r.state \in {"length", "payload"} /\ q.got \in Seq(F!Bytes) /\ q.need \in Nat
  /\ q.need > 0 => ReaderOK(q)
  /\ r.state = "length" => Len(q.got) + q.need = 2
  /\ r.state = "payload" => Len(q.got) + q.need \in 1 .. MaxPacket

LEMMA PartTypes ==
  ASSUME NEW r, ReaderOK(r), r.state # "hunt", NEW b \in F!Bytes
  PROVE  PartOK(More(r, b), r, b)
<1> DEFINE q == More(r, b)
<1>1. r \notin {F!Hunting(FALSE), F!Hunting(TRUE)}
  BY DEF F!Hunting
<1>2. /\ r \in [state : {"length", "payload"}, saw : {FALSE}, got : Seq(F!Bytes), need : Nat \ {0}]
      /\ r.state = "length" => Len(r.got) + r.need = 2
      /\ r.state = "payload" => Len(r.got) + r.need \in 1 .. MaxPacket
  BY <1>1 DEF ReaderOK
<1>3. PICK g : g = r.got
  OBVIOUS
<1>4. PICK w : w = r.need
  OBVIOUS
<1>5. PICK h : h = Append(g, b)
  OBVIOUS
<1>6. h \in Seq(F!Bytes) /\ Len(h) = Len(g) + 1 /\ Len(g) \in Nat /\ w \in Nat \ {0}
  BY <1>2, <1>3, <1>4, <1>5, AppendProperties
<1>7. q = [r EXCEPT !.got = h, !.need = w - 1]
  BY <1>3, <1>4, <1>5 DEF More
<1> HIDE DEF q
<1>8. q.state = r.state /\ q.saw = FALSE /\ q.got = h /\ q.need = w - 1
  BY <1>2, <1>7
<1>9. Len(h) + (w - 1) = Len(g) + w
  BY <1>6
<1>10. /\ r.state = "length" => Len(h) + (w - 1) = 2
       /\ r.state = "payload" => Len(h) + (w - 1) \in 1 .. MaxPacket
  BY <1>2, <1>3, <1>4, <1>9
<1>11. ASSUME q.need > 0 PROVE ReaderOK(q)
  <2>1. w - 1 \in Nat \ {0}
    BY <1>6, <1>8, <1>11
  <2>2. q \in [state : {"length", "payload"}, saw : {FALSE}, got : Seq(F!Bytes), need : Nat \ {0}]
    BY <2>1, <1>2, <1>6, <1>7
  <2> QED BY <2>2, <1>8, <1>10 DEF ReaderOK
<1>12. PartOK(q, r, b)
  BY <1>2, <1>3, <1>4, <1>5, <1>6, <1>8, <1>10, <1>11 DEF PartOK
<1> QED BY <1>12 DEF q

LEMMA ReadLine ==
  ASSUME LineInv, F!ReadByte
  PROVE  LineInv'
<1>1. /\ line # <<>> /\ line' = Tail(line) /\ UNCHANGED <<wmu, rest, expected, confused>>
  BY DEF F!ReadByte, F!history
<1>2. /\ line \in Seq(F!Bytes) /\ ReaderOK(reader)
      /\ delivered \in Seq(Packet) /\ expected \in Seq(Packet)
  BY DEF LineInv, LineTypes
<1>3. line' \in Seq(F!Bytes) /\ Head(line) \in F!Bytes
  BY <1>1, <1>2, HeadTailProperties
<1>4. PICK S : S = OnTheWay
  OBVIOUS
<1>5. S \in Seq(F!Bytes) /\ S # <<>> /\ Head(S) = Head(line) /\ OnTheWay' = Tail(S)
  <2>1. PICK u : u = Unwritten
    OBVIOUS
  <2>2. u \in Seq(F!Bytes) /\ Unwritten' = u
    BY <2>1, <1>1, OnTheWayIs DEF LineInv, Unwritten
  <2>3. S = line \o u /\ OnTheWay' = Tail(line) \o u
    BY <2>1, <2>2, <1>1, <1>4 DEF OnTheWay
  <2>4. PICK h : h = Head(line)
    OBVIOUS
  <2>5. PICK t : t = Tail(line)
    OBVIOUS
  <2>6. h \in F!Bytes /\ t \in Seq(F!Bytes) /\ line = <<h>> \o t
    BY <2>4, <2>5, <1>1, <1>2, <1>3
  <2>7. S = <<h>> \o (t \o u)
    BY <2>2, <2>3, <2>6, ConcatAssociative
  <2>8. t \o u \in Seq(F!Bytes)
    BY <2>2, <2>6, ConcatProperties
  <2>9. PICK v : v = t \o u
    OBVIOUS
  <2>10. Head(<<h>> \o v) = h /\ Tail(<<h>> \o v) = v /\ <<h>> \o v # <<>> /\ <<h>> \o v \in Seq(F!Bytes)
    BY <2>6, <2>8, <2>9
  <2> QED BY <2>3, <2>4, <2>5, <2>7, <2>9, <2>10
<1>6. PICK b : b = Head(line)
  OBVIOUS
<1>7. PICK q : q = [reader EXCEPT !.got = Append(reader.got, b), !.need = reader.need - 1]
  OBVIOUS
<1>8. PICK n : n = q.got[1] * 256 + q.got[2]
  OBVIOUS
<1>9. \/ reader.state = "hunt" /\ reader' = F!Synced(b) /\ UNCHANGED delivered
      \/ reader.state # "hunt" /\ q.need > 0 /\ reader' = q /\ UNCHANGED delivered
      \/ /\ reader.state = "length" /\ q.need = 0 /\ UNCHANGED delivered
         /\ reader' = IF n \in 1 .. MaxPacket THEN F!InPayload(n) ELSE F!Hunting(FALSE)
      \/ /\ reader.state = "payload" /\ q.need = 0
         /\ reader' = F!Hunting(FALSE) /\ delivered' = Append(delivered, q.got)
  BY <1>6, <1>7, <1>8 DEF F!ReadByte, F!With
<1>10. SUFFICES ASSUME TRUE
                PROVE  /\ ReaderOK(reader') /\ delivered' \in Seq(Packet)
                       /\ ~ confused => InStep(Tail(S), expected, delivered', reader')
  <2>1. wmu' \in Writers \cup {F!Free} /\ rest' \in [Writers -> Seq(F!Bytes)]
    BY <1>1 DEF LineInv, LineTypes
  <2>2. \A w \in Writers : rest'[w] # <<>> <=> w = wmu'
    BY <1>1 DEF LineInv, LineTypes
  <2>3. expected' \in Seq(Packet) /\ confused' \in BOOLEAN
    BY <1>1 DEF LineInv, LineTypes
  <2> QED BY <2>1, <2>2, <2>3, <1>1, <1>3, <1>5, <1>10 DEF LineInv, LineTypes
<1>11. ~ confused => InStep(S, expected, delivered, reader)
  BY <1>4 DEF LineInv
<1>12. CASE reader.state = "hunt" /\ reader' = F!Synced(b) /\ UNCHANGED delivered
  <2>1. reader \in {F!Hunting(FALSE), F!Hunting(TRUE)}
    BY <1>2, <1>12 DEF ReaderOK
  <2>2. PICK saw : saw = reader.saw
    OBVIOUS
  <2>3. saw \in BOOLEAN /\ reader = F!Hunting(saw)
    <3>1. CASE reader = F!Hunting(FALSE)
      <4>1. saw = FALSE
        BY <2>2, <3>1 DEF F!Hunting
      <4> QED BY <3>1, <4>1
    <3>2. CASE reader = F!Hunting(TRUE)
      <4>1. saw = TRUE
        BY <2>2, <3>2 DEF F!Hunting
      <4> QED BY <3>2, <4>1
    <3> QED BY <2>1, <3>1, <3>2
  <2>4. reader' = IF b = F!Magic2 /\ saw THEN F!InLength ELSE F!Hunting(b = F!Magic1)
    BY <2>2, <1>12 DEF F!Synced
  <2>5. ReaderOK(reader')
    <3>1. CASE b = F!Magic2 /\ saw
      <4>1. reader' = F!InLength
        BY <2>4, <3>1
      <4>2. F!InLength \in [state : {"length", "payload"}, saw : {FALSE}, got : Seq(F!Bytes), need : Nat \ {0}]
        <5>1. <<>> \in Seq(F!Bytes)
          BY EmptySeq
        <5> QED BY <5>1 DEF F!InLength
      <4>3. F!InLength.state = "length" /\ F!InLength.got = <<>> /\ F!InLength.need = 2
        BY DEF F!InLength
      <4>4. Len(F!InLength.got) + F!InLength.need = 2
        BY <4>3
      <4> QED BY <4>1, <4>2, <4>3, <4>4 DEF ReaderOK
    <3>2. CASE ~ (b = F!Magic2 /\ saw)
      <4>1. reader' = F!Hunting(b = F!Magic1)
        BY <2>4, <3>2
      <4>2. CASE b = F!Magic1
        <5>1. (b = F!Magic1) = TRUE
          BY <4>2
        <5>2. reader' = F!Hunting(TRUE)
          BY <4>1, <5>1, Zenon
        <5> QED BY <5>2 DEF ReaderOK
      <4>3. CASE b # F!Magic1
        <5>1. (b = F!Magic1) = FALSE
          BY <4>3
        <5>2. reader' = F!Hunting(FALSE)
          BY <4>1, <5>1, Zenon
        <5> QED BY <5>2 DEF ReaderOK
      <4> QED BY <4>2, <4>3
    <3> QED BY <3>1, <3>2
  <2>6. ASSUME ~ confused PROVE InStep(Tail(S), expected, delivered, reader')
    <3>1. InStep(S, expected, delivered, F!Hunting(saw))
      BY <2>3, <2>6, <1>11
    <3>2. PICK r : r = reader'
      OBVIOUS
    <3>3. r = IF Head(S) = F!Magic2 /\ saw THEN F!InLength ELSE F!Hunting(Head(S) = F!Magic1)
      BY <2>4, <3>2, <1>5, <1>6
    <3>4. InStep(Tail(S), expected, delivered, r)
      BY <2>3, <3>1, <3>3, <1>2, <1>5, ReadHunt
    <3> QED BY <3>2, <3>4
  <2> QED BY <2>5, <2>6, <1>2, <1>12
<1>13. ASSUME reader.state # "hunt"
       PROVE  /\ q.state = reader.state /\ q.saw = FALSE /\ q.got \in Seq(F!Bytes) /\ q.need \in Nat
              /\ reader.state \in {"length", "payload"}
              /\ q.need > 0 => ReaderOK(q)
              /\ reader.state = "length" => Len(q.got) + q.need = 2
              /\ reader.state = "payload" => Len(q.got) + q.need \in 1 .. MaxPacket
              /\ ~ confused => InStep(Tail(S), expected, delivered, q)
  <2>1. PICK r : r = reader
    OBVIOUS
  <2>2. ReaderOK(r) /\ r.state # "hunt" /\ b \in F!Bytes
    BY <2>1, <1>2, <1>3, <1>6, <1>13
  <2>3. q = [r EXCEPT !.got = Append(r.got, b), !.need = r.need - 1]
    BY <2>1, <1>7
  <2>4. /\ q.state = r.state /\ q.saw = FALSE /\ q.got = Append(r.got, b) /\ q.need = r.need - 1
        /\ r.state \in {"length", "payload"} /\ q.got \in Seq(F!Bytes) /\ q.need \in Nat
        /\ q.need > 0 => ReaderOK(q)
        /\ r.state = "length" => Len(q.got) + q.need = 2
        /\ r.state = "payload" => Len(q.got) + q.need \in 1 .. MaxPacket
    <3>1. PartOK(More(r, b), r, b)
      BY <2>2, PartTypes
    <3>2. q = More(r, b)
      BY <2>3 DEF More
    <3> QED BY <3>1, <3>2 DEF PartOK
  <2>5. ASSUME ~ confused PROVE InStep(Tail(S), expected, delivered, q)
    <3>1. InStep(S, expected, delivered, r)
      BY <2>1, <2>5, <1>11
    <3>2. q.got = Append(r.got, Head(S))
      BY <2>4, <1>5, <1>6
    <3> QED BY <2>2, <2>4, <3>1, <3>2, <1>2, <1>5, ReadPart
  <2> QED BY <2>1, <2>4, <2>5
<1>14. CASE reader.state # "hunt" /\ q.need > 0 /\ reader' = q /\ UNCHANGED delivered
  BY <1>2, <1>13, <1>14
<1>15. CASE /\ reader.state = "length" /\ q.need = 0 /\ UNCHANGED delivered
            /\ reader' = IF n \in 1 .. MaxPacket THEN F!InPayload(n) ELSE F!Hunting(FALSE)
  <2>1. q.state = "length" /\ q.got \in Seq(F!Bytes) /\ Len(q.got) = 2
    BY <1>13, <1>15
  <2>2. ReaderOK(reader')
    <3>1. CASE n \in 1 .. MaxPacket
      <4>1. PICK r : r = F!InPayload(n)
        OBVIOUS
      <4>2. MaxPacket \in Nat
        BY LineAssumption DEF F!FramingAssumption
      <4>3. r.state = "payload" /\ r.got = <<>> /\ Len(r.got) = 0 /\ r.need = n /\ n \in Nat \ {0}
        BY <3>1, <4>1, <4>2 DEF F!InPayload
      <4>4. r \in [state : {"length", "payload"}, saw : {FALSE}, got : Seq(F!Bytes), need : Nat \ {0}]
        <5>1. <<>> \in Seq(F!Bytes)
          BY EmptySeq
        <5> QED BY <4>1, <4>3, <5>1 DEF F!InPayload
      <4>5. Len(r.got) + r.need \in 1 .. MaxPacket
        BY <3>1, <4>2, <4>3
      <4>6. ReaderOK(r)
        BY <4>3, <4>4, <4>5 DEF ReaderOK
      <4> QED BY <3>1, <4>1, <4>6, <1>15
    <3>2. CASE n \notin 1 .. MaxPacket
      BY <3>2, <1>15 DEF ReaderOK
    <3> QED BY <3>1, <3>2
  <2>3. ASSUME ~ confused PROVE InStep(Tail(S), expected, delivered, reader')
    <3>1. InStep(Tail(S), expected, delivered, q) /\ Tail(S) \in Seq(F!Bytes)
      BY <2>3, <1>5, <1>13, <1>15, HeadTailProperties
    <3>2. PICK T \in Seq(F!Bytes) : T = Tail(S)
      BY <3>1
    <3>3. PICK E \in Seq(Packet) : E = expected
      BY <1>2
    <3>4. PICK D \in Seq(Packet) : D = delivered
      BY <1>2
    <3>5. InStep(T, E, D, q)
      BY <3>1, <3>2, <3>3, <3>4
    <3>6. q.state = "length" /\ Len(q.got) = 2 /\ n = q.got[1] * 256 + q.got[2]
      BY <2>1, <1>8
    <3>7. n \in 1 .. MaxPacket /\ InStep(T, E, D, F!InPayload(n))
      BY <3>5, <3>6, LengthRead, Zenon
    <3> QED BY <3>2, <3>3, <3>4, <3>7, <1>15
  <2> QED BY <2>2, <2>3, <1>2, <1>15
<1>16. CASE /\ reader.state = "payload" /\ q.need = 0
            /\ reader' = F!Hunting(FALSE) /\ delivered' = Append(delivered, q.got)
  <2>1. q.state = "payload" /\ q.got \in Seq(F!Bytes) /\ q.need = 0 /\ Len(q.got) \in 1 .. MaxPacket
    <3>1. Len(q.got) + q.need \in 1 .. MaxPacket /\ q.got \in Seq(F!Bytes) /\ q.state = "payload"
      BY <1>13, <1>16
    <3> QED BY <3>1, <1>16
  <2>2. q.got \in Packet
    BY <2>1 DEF Packet
  <2>3. delivered' \in Seq(Packet)
    BY <2>2, <1>2, <1>16, AppendProperties
  <2>4. ReaderOK(reader')
    BY <1>16 DEF ReaderOK
  <2>5. ASSUME ~ confused PROVE InStep(Tail(S), expected, delivered', reader')
    <3>1. InStep(Tail(S), expected, delivered, q) /\ Tail(S) \in Seq(F!Bytes)
      BY <2>5, <1>5, <1>13, <1>16, HeadTailProperties
    <3>2. InStep(Tail(S), expected, Append(delivered, q.got), F!Hunting(FALSE))
      BY <2>1, <3>1, <1>2, PayloadRead
    <3> QED BY <3>2, <1>16
  <2> QED BY <2>3, <2>4, <2>5
<1> QED BY <1>9, <1>12, <1>14, <1>15, <1>16

(* A pause: the frame that is being read is given up, or the reader is back *)
(* in step.                                                                 *)
LEMMA TimeoutLine ==
  ASSUME LineInv, F!Timeout
  PROVE  LineInv'
<1>1. PICK hit \in BOOLEAN : hit = (~ confused /\ reader.state # "hunt")
  OBVIOUS
<1>2. PICK lost : lost = expected[Len(delivered) + 1]
  OBVIOUS
<1>3. /\ line = <<>> /\ UNCHANGED <<wmu, rest, line, delivered>>
      /\ reader' = IF reader.state = "hunt" THEN reader ELSE F!Hunting(FALSE)
  BY DEF F!Timeout
<1>4. expected' = IF confused /\ wmu = F!Free THEN delivered
                  ELSE IF hit THEN F!RemoveAt(expected, Len(delivered) + 1) ELSE expected
  BY <1>1 DEF F!Timeout
<1>5. confused' = IF confused THEN wmu # F!Free ELSE hit /\ F!LooksLikeFrame(lost)
  BY <1>1, <1>2 DEF F!Timeout
<1>6. /\ ReaderOK(reader) /\ delivered \in Seq(Packet) /\ expected \in Seq(Packet)
      /\ confused \in BOOLEAN /\ line \in Seq(F!Bytes)
  BY DEF LineInv, LineTypes
<1>7. ReaderOK(reader')
  BY <1>3, <1>6 DEF ReaderOK
<1>8. OnTheWay' = OnTheWay /\ OnTheWay \in Seq(F!Bytes)
  BY <1>3, OnTheWayIs DEF LineInv, OnTheWay, Unwritten
<1>9. wmu' \in Writers \cup {F!Free} /\ rest' \in [Writers -> Seq(F!Bytes)] /\ \A w \in Writers : rest'[w] # <<>> <=> w = wmu'
  BY <1>3 DEF LineInv, LineTypes
<1>10. SUFFICES ASSUME TRUE
                PROVE  /\ expected' \in Seq(Packet) /\ confused' \in BOOLEAN
                       /\ ~ confused' => InStep(OnTheWay, expected', delivered, reader')
  BY <1>3, <1>6, <1>7, <1>8, <1>9, <1>10 DEF LineInv, LineTypes
<1>11. CASE confused
  <2>1. confused' = (wmu # F!Free)
    BY <1>5, <1>11
  <2>2. ~ hit
    BY <1>1, <1>11
  <2>3. expected' \in Seq(Packet)
    BY <2>2, <1>4, <1>6
  <2>4. ASSUME ~ confused' PROVE InStep(OnTheWay, expected', delivered, reader')
    <3>1. wmu = F!Free /\ expected' = delivered
      BY <2>1, <2>4, <1>4, <1>11
    <3>2. OnTheWay = <<>>
      BY <3>1, <1>3, OnTheWayIs DEF LineInv
    <3>3. PICK D : D = delivered
      OBVIOUS
    <3>4. PICK r : r = reader'
      OBVIOUS
    <3>5. D \in Seq(Packet) /\ Len(D) \in Nat
      BY <3>3, <1>6
    <3>6. PICK S : S = <<>>
      OBVIOUS
    <3>7. Len(S) = 0
      BY <3>6
    <3>8. Layout(S, D, Len(D), S)
      BY <3>5, <3>7 DEF Layout
    <3>9. r.state = "hunt"
      BY <3>4, <1>3 DEF F!Hunting
    <3>10. Reads(S, D, Len(D), S, r)
      BY <3>6, <3>9 DEF Reads
    <3>11. InStep(S, D, D, r)
      <4>1. Len(D) <= Len(D)
        BY <3>5
      <4> QED BY <4>1, <3>8, <3>10 DEF InStep
    <3> QED BY <3>1, <3>2, <3>3, <3>4, <3>6, <3>11
  <2> QED BY <2>1, <2>3, <2>4
<1>12. CASE ~ confused
  <2>1. InStep(OnTheWay, expected, delivered, reader)
    BY <1>12 DEF LineInv
  <2>2. CASE reader.state = "hunt"
    <3>1. hit = FALSE /\ reader' = reader
      BY <2>2, <1>1, <1>3
    <3>2. expected' = expected /\ confused' = FALSE
      BY <3>1, <1>4, <1>5, <1>12
    <3> QED BY <2>1, <3>1, <3>2, <1>6
  <2>3. CASE reader.state # "hunt"
    <3>1. hit = TRUE /\ reader' = F!Hunting(FALSE)
      BY <2>3, <1>1, <1>3, <1>12
    <3>2. expected' = F!RemoveAt(expected, Len(delivered) + 1)
      BY <3>1, <1>4, <1>12
    <3>3. confused' \in BOOLEAN /\ (confused' <=> F!LooksLikeFrame(lost))
      <4>1. confused' = (hit /\ F!LooksLikeFrame(lost))
        BY <1>5, <1>12
      <4> QED BY <4>1, <3>1
    <3>4. PICK E : E = expected
      OBVIOUS
    <3>5. PICK D : D = delivered
      OBVIOUS
    <3>6. PICK r : r = reader
      OBVIOUS
    <3>7. PICK S : S = OnTheWay
      OBVIOUS
    <3>8. /\ F!RemoveAt(E, Len(D) + 1) \in Seq(Packet)
          /\ \/ F!LooksLikeFrame(E[Len(D) + 1])
             \/ InStep(S, F!RemoveAt(E, Len(D) + 1), D, F!Hunting(FALSE))
      BY <2>1, <2>3, <3>4, <3>5, <3>6, <3>7, <1>6, <1>8, StepSkip
    <3>9. confused' \in BOOLEAN
      BY <3>3
    <3>10. expected' \in Seq(Packet)
      BY <3>2, <3>4, <3>5, <3>8
    <3>11. ~ confused' => InStep(OnTheWay, expected', delivered, reader')
      BY <3>1, <3>2, <3>3, <3>4, <3>5, <3>7, <3>8, <1>2
    <3> QED BY <3>9, <3>10, <3>11
  <2> QED BY <2>2, <2>3
<1> QED BY <1>6, <1>11, <1>12

(* The frames that have to come out lie on the line one after the other, no *)
(* frame seems to begin elsewhere, and the reader knows where it is.        *)
THEOREM LineInvariant == MCSpec => []LineInv
<1>1. MCInit => LineInv
  BY LineInit DEF MCInit
<1>2. LineInv /\ [MCNext]_allVars => LineInv'
  <2> SUFFICES ASSUME LineInv, [MCNext]_allVars PROVE LineInv'
    OBVIOUS
  <2>1. CASE UNCHANGED frameVars
    BY <2>1 DEF frameVars, LineInv, LineTypes, OnTheWay, Unwritten
  <2>2. CASE F!Next
    <3>1. CASE \E w \in Writers, p \in Payloads : F!WriteFrame(w, p)
      BY <3>1, WriteLine
    <3>2. CASE \E w \in Writers : F!PutByte(w)
      BY <3>2, PutLine
    <3>3. CASE F!Chatter
      BY <3>3, ChatterLine
    <3>4. CASE F!LoseByte
      BY <3>4, LoseLine
    <3>5. CASE F!ReadByte
      BY <3>5, ReadLine
    <3>6. CASE F!Timeout
      BY <3>6, TimeoutLine
    <3> QED BY <2>2, <3>1, <3>2, <3>3, <3>4, <3>5, <3>6 DEF F!Next
  <2>3. UNCHANGED frameVars \/ F!Next
    BY DEF MCNext, allVars
  <2> QED BY <2>1, <2>2, <2>3
<1> QED BY <1>1, <1>2, PTL DEF MCSpec

(* Whole frames come out unchanged and in the order they were written, for  *)
(* any payloads, chatter, number of writers and pauses; only a frame that   *)
(* is interrupted by a pause is lost (reader.go:183-285).                   *)
THEOREM FramesCorrect == MCSpec => []FramesSurvive
<1>1. LineInv => FramesSurvive
  <2> SUFFICES ASSUME LineInv, ~ confused
               PROVE  /\ F!IsPrefix(delivered, expected)
                      /\ line = <<>> /\ wmu = F!Free => delivered = expected
    BY DEF FramesSurvive, F!FramesSurvive
  <2>1. PICK D : D = delivered
    OBVIOUS
  <2>2. PICK E : E = expected
    OBVIOUS
  <2>3. PICK S : S = OnTheWay
    OBVIOUS
  <2>4. D \in Seq(Packet) /\ E \in Seq(Packet) /\ Len(D) \in Nat /\ Len(E) \in Nat
    BY <2>1, <2>2 DEF LineInv, LineTypes
  <2>5. InStep(S, E, D, reader)
    BY <2>1, <2>2, <2>3 DEF LineInv
  <2>6. Len(D) <= Len(E) /\ \A i \in 1 .. Len(D) : D[i] = E[i]
    BY <2>5 DEF InStep
  <2>7. F!IsPrefix(D, E)
    BY <2>4, <2>6 DEF F!IsPrefix
  <2>8. ASSUME line = <<>>, wmu = F!Free PROVE D = E
    <3>1. S = <<>>
      BY <2>3, <2>8, OnTheWayIs DEF LineInv
    <3>2. PICK at : Layout(S, E, Len(D), at) /\ Reads(S, E, Len(D), at, reader)
      BY <2>5 DEF InStep
    <3>3. ~ (Len(D) < Len(E))
      <4> SUFFICES ASSUME Len(D) < Len(E) PROVE FALSE
        OBVIOUS
      <4>1. PICK d : d = Len(D)
        OBVIOUS
      <4>2. PICK p : p = E[d + 1]
        OBVIOUS
      <4>3. PICK a : a = at[d + 1]
        OBVIOUS
      <4>4. d + 1 \in d + 1 .. Len(E) /\ p \in Packet /\ a \in Int
        BY <4>1, <4>2, <4>3, <2>4, <3>2 DEF Layout
      <4>5. PICK n : n = Len(p)
        OBVIOUS
      <4>6. n \in Nat \ {0} /\ a + n + 4 > 1
        <5>1. n \in Nat \ {0}
          BY <4>4, <4>5 DEF Packet
        <5>2. ReaderOK(reader)
          BY DEF LineInv, LineTypes
        <5>3. PICK r : r = reader
          OBVIOUS
        <5>4. CASE r.state = "hunt"
          <6>1. a >= 0
            BY <5>3, <5>4, <4>1, <4>3, <4>4, <3>2 DEF Reads
          <6> QED BY <6>1, <5>1, <4>4
        <5>5. CASE r.state # "hunt"
          <6>1. r \notin {F!Hunting(FALSE), F!Hunting(TRUE)}
            BY <5>5 DEF F!Hunting
          <6>2. /\ r \in [state : {"length", "payload"}, saw : {FALSE}, got : Seq(F!Bytes), need : Nat \ {0}]
                /\ r.state = "length" => Len(r.got) + r.need = 2
            BY <6>1, <5>2, <5>3 DEF ReaderOK
          <6>3. PICK u : u = Len(r.got)
            OBVIOUS
          <6>4. PICK w : w = r.need
            OBVIOUS
          <6>5. u \in Nat /\ w \in Nat \ {0} /\ r.state \in {"length", "payload"}
            BY <6>2, <6>3, <6>4
          <6>6. CASE r.state = "length"
            <7>1. a = -1 - u /\ u + w = 2
              BY <6>2, <6>3, <6>4, <6>6, <5>3, <4>1, <4>3, <3>2 DEF Reads
            <7> QED BY <7>1, <6>5, <5>1
          <6>7. CASE r.state = "payload"
            <7>1. a = -3 - u /\ u + w = n
              BY <6>3, <6>4, <6>7, <5>3, <4>1, <4>2, <4>3, <4>5, <3>2 DEF Reads
            <7> QED BY <7>1, <6>5, <5>1
          <6> QED BY <6>5, <6>6, <6>7
        <5> QED BY <5>1, <5>4, <5>5
      <4>7. PICK j : j = n + 4
        OBVIOUS
      <4>8. j \in 1 .. n + 4 /\ a + j > 1
        BY <4>4, <4>6, <4>7
      <4>9. a + j - 1 <= Len(S)
        BY <4>1, <4>2, <4>3, <4>4, <4>5, <4>8, <3>2 DEF Layout
      <4>10. Len(S) = 0 /\ j \in Int
        BY <3>1, <4>6, <4>7
      <4> QED BY <4>4, <4>8, <4>9, <4>10
    <3>4. Len(D) = Len(E)
      BY <3>3, <2>4, <2>6
    <3> QED BY <3>4, <2>4, <2>6, SeqEqual
  <2> QED BY <2>1, <2>2, <2>7, <2>8
<1> QED BY <1>1, LineInvariant, PTL
----------------------------------------------------------------------------
(* The subsets of a finite set, from the smaller to the larger: a set of    *)
(* them that has each one whose next smaller ones it has, has all.          *)
LEMMA AllSubsets ==
  ASSUME NEW S, IsFiniteSet(S), NEW G,
         \A s \in SUBSET S : (\A x \in s : s \ {x} \in G) => s \in G
  PROVE  \A s \in SUBSET S : s \in G
<1> DEFINE bad   == {s \in SUBSET S : s \notin G}
           sizes == {n \in Nat : \E s \in bad : Cardinality(s) = n}
<1> SUFFICES ASSUME bad # {} PROVE FALSE
  OBVIOUS
<1>1. \A s \in SUBSET S : IsFiniteSet(s) /\ Cardinality(s) \in Nat
  BY FS_Subset, FS_CardinalityType
<1>2. sizes \subseteq Nat /\ sizes # {}
  BY <1>1
<1>3. \A n \in sizes : \E s \in bad : Cardinality(s) = n
  OBVIOUS
<1>4. \A s \in bad : Cardinality(s) \in sizes
  BY <1>1
<1>5. \A s \in bad : s \in SUBSET S /\ s \notin G
  OBVIOUS
<1>6. \A s \in SUBSET S : s \notin G => s \in bad
  OBVIOUS
<1> HIDE DEF bad, sizes
<1>7. PICK n \in sizes : \A k \in sizes : n <= k
  BY <1>2, LeastElement
<1>8. PICK s \in bad : Cardinality(s) = n
  BY <1>3
<1>9. ASSUME NEW x \in s PROVE s \ {x} \in G
  <2>1. IsFiniteSet(s) /\ n \in Nat
    BY <1>1, <1>5, <1>8
  <2>2. Cardinality(s \ {x}) = n - 1
    BY <2>1, <1>8, FS_RemoveElement
  <2>3. ~ (n <= n - 1)
    BY <2>1
  <2>4. s \ {x} \in SUBSET S
    BY <1>5
  <2> QED BY <1>4, <1>6, <1>7, <2>2, <2>3, <2>4
<1> QED BY <1>5, <1>9

(* The sums a fold over the subsets of S goes through.                      *)
One(s) == CHOOSE x \in s : TRUE

Sums(g, f, S) ==
  g = [s \in SUBSET S |-> IF s = {} THEN 0 ELSE f[One(s)] + g[s \ {One(s)}]]

LEMMA OneIs == \A s : s # {} => One(s) \in s
BY DEF One

LEMMA SumIs ==
  ASSUME NEW f, NEW S
  PROVE  R!SumFunctionOnSet(f, S) = (CHOOSE g : Sums(g, f, S))[S]
BY DEF R!SumFunctionOnSet, R!FoldFunctionOnSet, R!MapThenFoldSet, Sums, One

LEMMA SumsAt ==
  ASSUME NEW g, NEW f, NEW S, Sums(g, f, S), NEW s \in SUBSET S
  PROVE  /\ s = {} => g[s] = 0
         /\ s # {} => One(s) \in s /\ g[s] = f[One(s)] + g[s \ {One(s)}]
<1>1. s # {} => One(s) \in s
  BY OneIs
<1> QED BY <1>1 DEF Sums

(* Two such functions agree where what they sum does.                       *)
LEMMA SumsAgree ==
  ASSUME NEW g, NEW f, NEW S, Sums(g, f, S), NEW h, NEW e, NEW T, Sums(h, e, T),
         NEW U, IsFiniteSet(U), U \subseteq S, U \subseteq T, \A x \in U : f[x] = e[x]
  PROVE  g[U] = h[U]
<1> DEFINE G == {s \in SUBSET U : g[s] = h[s]}
<1>1. ASSUME NEW s \in SUBSET U, \A x \in s : s \ {x} \in G
      PROVE  s \in G
  <2>1. s \in SUBSET S /\ s \in SUBSET T
    OBVIOUS
  <2>2. CASE s = {}
    BY <2>1, <2>2, SumsAt
  <2>3. CASE s # {}
    <3>1. One(s) \in s /\ g[s] = f[One(s)] + g[s \ {One(s)}]
      BY <2>1, <2>3, SumsAt
    <3>2. h[s] = e[One(s)] + h[s \ {One(s)}]
      <4>1. s \in SUBSET T
        BY <2>1
      <4> QED BY <4>1, <2>3, SumsAt
    <3>3. s \ {One(s)} \in G /\ f[One(s)] = e[One(s)]
      BY <1>1, <3>1
    <3> QED BY <3>1, <3>2, <3>3
  <2> QED BY <2>2, <2>3
<1>2. \A s \in G : g[s] = h[s]
  OBVIOUS
<1> HIDE DEF G
<1>3. \A s \in SUBSET U : s \in G
  BY <1>1, AllSubsets
<1>4. U \in SUBSET U
  OBVIOUS
<1> QED BY <1>2, <1>3, <1>4

LEMMA SumsPart ==
  ASSUME NEW g, NEW f, NEW S, Sums(g, f, S), NEW T \in SUBSET S
  PROVE  Sums([s \in SUBSET T |-> g[s]], f, T)
<1> DEFINE h == [s \in SUBSET T |-> g[s]]
<1>1. ASSUME NEW s \in SUBSET T
      PROVE  h[s] = IF s = {} THEN 0 ELSE f[One(s)] + h[s \ {One(s)}]
  <2>1. s \in SUBSET S /\ s \ {One(s)} \in SUBSET T
    OBVIOUS
  <2>2. h[s] = g[s] /\ h[s \ {One(s)}] = g[s \ {One(s)}]
    BY <2>1
  <2> QED BY <2>1, <2>2, SumsAt
<1>2. h = [s \in SUBSET T |-> h[s]]
  OBVIOUS
<1> HIDE DEF h
<1>3. h = [s \in SUBSET T |-> IF s = {} THEN 0 ELSE f[One(s)] + h[s \ {One(s)}]]
  BY <1>1, <1>2
<1>4. Sums(h, f, T)
  BY <1>3 DEF Sums
<1> QED BY <1>4 DEF h

LEMMA SumsExist ==
  ASSUME NEW f, NEW S, IsFiniteSet(S) PROVE \E g : Sums(g, f, S)
<1> DEFINE G == {s \in SUBSET S : \E g : Sums(g, f, s)}
           sum(t) == (CHOOSE g : Sums(g, f, t))[t]
<1>1. \A s \in G : s \in SUBSET S /\ \E g : Sums(g, f, s)
  OBVIOUS
<1>2. \A s \in SUBSET S : (\E g : Sums(g, f, s)) => s \in G
  OBVIOUS
<1> HIDE DEF G
<1>3. ASSUME NEW s \in SUBSET S, \A x \in s : s \ {x} \in G
      PROVE  \E g : Sums(g, f, s)
  <2>1. ASSUME NEW t \in SUBSET s, t # s PROVE \E g : Sums(g, f, t)
    <3>1. PICK x \in s : x \notin t
      BY <2>1
    <3>2. PICK g : Sums(g, f, s \ {x})
      BY <1>1, <1>3
    <3>3. t \in SUBSET (s \ {x})
      BY <3>1
    <3> QED BY <3>2, <3>3, SumsPart
  <2>2. ASSUME NEW t \in SUBSET s, t # s
        PROVE  sum(t) = IF t = {} THEN 0 ELSE f[One(t)] + sum(t \ {One(t)})
    <3>1. PICK g : g = CHOOSE h : Sums(h, f, t)
      OBVIOUS
    <3>2. Sums(g, f, t) /\ sum(t) = g[t]
      BY <2>1, <2>2, <3>1
    <3>3. t \in SUBSET t
      OBVIOUS
    <3>4. CASE t = {}
      BY <3>2, <3>3, <3>4, SumsAt
    <3>5. CASE t # {}
      <4>1. PICK u : u = t \ {One(t)}
        OBVIOUS
      <4>2. One(t) \in t /\ g[t] = f[One(t)] + g[u]
        BY <3>2, <3>3, <3>5, <4>1, SumsAt
      <4>3. u \in SUBSET s /\ u # s /\ u \subseteq t
        BY <4>1, <4>2, <2>2
      <4>4. PICK h : h = CHOOSE k : Sums(k, f, u)
        OBVIOUS
      <4>5. Sums(h, f, u) /\ sum(u) = h[u]
        BY <2>1, <4>3, <4>4
      <4>6. IsFiniteSet(u)
        BY <4>3, FS_Subset
      <4>7. g[u] = h[u]
        BY <3>2, <4>3, <4>5, <4>6, SumsAgree
      <4> QED BY <3>2, <3>5, <4>1, <4>2, <4>5, <4>7
    <3> QED BY <3>4, <3>5
  <2> DEFINE less == s \ {One(s)}
             g == [t \in SUBSET s |-> IF t = {} THEN 0
                                      ELSE IF t = s THEN f[One(s)] + sum(less) ELSE sum(t)]
  <2>3. s # {} => One(s) \in s /\ less # s
    BY OneIs
  <2>4. ASSUME NEW t \in SUBSET s, t # s PROVE g[t] = sum(t)
    BY <2>2, <2>4
  <2>5. s # {} => g[s] = f[One(s)] + sum(less)
    OBVIOUS
  <2>6. {} \in SUBSET s /\ g[{}] = 0
    OBVIOUS
  <2>7. g = [t \in SUBSET s |-> g[t]]
    OBVIOUS
  <2> HIDE DEF g, sum
  <2>8. ASSUME NEW t \in SUBSET s
        PROVE  g[t] = IF t = {} THEN 0 ELSE f[One(t)] + g[t \ {One(t)}]
    <3>1. CASE t = {}
      BY <2>6, <3>1
    <3>2. CASE t # {} /\ t = s
      BY <2>3, <2>4, <2>5, <3>2
    <3>3. CASE t # {} /\ t # s
      <4>1. t \ {One(t)} \in SUBSET s /\ t \ {One(t)} # s
        BY <3>3
      <4> QED BY <2>2, <2>4, <3>3, <4>1
    <3> QED BY <3>1, <3>2, <3>3
  <2>9. g = [t \in SUBSET s |-> IF t = {} THEN 0 ELSE f[One(t)] + g[t \ {One(t)}]]
    BY <2>7, <2>8
  <2> QED BY <2>9 DEF Sums
<1>4. \A s \in SUBSET S : s \in G
  BY <1>2, <1>3, AllSubsets
<1> QED BY <1>1, <1>4

(* Sums stay in a set that is closed under addition.                        *)
LEMMA SumsIn ==
  ASSUME NEW N, 0 \in N, \A a, b \in N : a + b \in N,
         NEW g, NEW f, NEW S, IsFiniteSet(S), Sums(g, f, S), \A x \in S : f[x] \in N
  PROVE  \A s \in SUBSET S : g[s] \in N
<1> DEFINE G == {s \in SUBSET S : g[s] \in N}
<1>1. \A s \in G : g[s] \in N
  OBVIOUS
<1>2. \A s \in SUBSET S : g[s] \in N => s \in G
  OBVIOUS
<1> HIDE DEF G
<1>3. ASSUME NEW s \in SUBSET S, \A x \in s : s \ {x} \in G
      PROVE  s \in G
  <2>1. CASE s = {}
    <3>1. g[s] = 0
      BY <2>1, SumsAt
    <3> QED BY <1>2, <3>1
  <2>2. CASE s # {}
    <3>1. One(s) \in s /\ g[s] = f[One(s)] + g[s \ {One(s)}]
      BY <2>2, SumsAt
    <3>2. g[s \ {One(s)}] \in N /\ f[One(s)] \in N
      BY <1>1, <1>3, <3>1
    <3> QED BY <1>2, <3>1, <3>2
  <2> QED BY <2>1, <2>2
<1> QED BY <1>1, <1>3, AllSubsets

(* They do not depend on the order.                                         *)
AnyFirst(g, f, s) == \A y \in s : g[s] = f[y] + g[s \ {y}]

LEMMA SumsAny ==
  ASSUME NEW g, NEW f, NEW S, IsFiniteSet(S), Sums(g, f, S), \A x \in S : f[x] \in Int
  PROVE  \A s \in SUBSET S : AnyFirst(g, f, s)
<1> DEFINE G == {s \in SUBSET S : AnyFirst(g, f, s)}
<1>1. \A s \in G : AnyFirst(g, f, s)
  OBVIOUS
<1>2. \A s \in SUBSET S : AnyFirst(g, f, s) => s \in G
  OBVIOUS
<1> HIDE DEF G
<1>3. ASSUME NEW s \in SUBSET S, \A x \in s : s \ {x} \in G
      PROVE  s \in G
  <2>1. CASE s = {}
    <3>1. AnyFirst(g, f, s)
      BY <2>1 DEF AnyFirst
    <3> QED BY <1>2, <3>1
  <2>2. CASE s # {}
    <3>1. PICK x : x = One(s)
      OBVIOUS
    <3>2. x \in s /\ g[s] = f[x] + g[s \ {x}]
      BY <2>2, <3>1, SumsAt
    <3>3. ASSUME NEW y \in s PROVE g[s] = f[y] + g[s \ {y}]
      <4>1. CASE y = x
        BY <3>2, <4>1
      <4>2. CASE y # x
        <5>1. PICK r : r = (s \ {x}) \ {y}
          OBVIOUS
        <5>2. g[s \ {x}] = f[y] + g[r]
          BY <1>1, <1>3, <3>2, <4>2, <5>1 DEF AnyFirst
        <5>3. x \in s \ {y} /\ (s \ {y}) \ {x} = r
          BY <3>2, <4>2, <5>1
        <5>4. g[s \ {y}] = f[x] + g[r]
          BY <1>1, <1>3, <5>3 DEF AnyFirst
        <5>5. r \in SUBSET S /\ x \in S
          BY <3>2, <5>1
        <5>6. f[x] \in Int /\ f[y] \in Int /\ g[r] \in Int
          <6>1. 0 \in Int /\ \A i, j \in Int : i + j \in Int
            OBVIOUS
          <6> QED BY <5>5, <6>1, SumsIn
        <5> QED BY <3>2, <5>2, <5>4, <5>6
      <4> QED BY <4>1, <4>2
    <3> QED BY <1>2, <3>3 DEF AnyFirst
  <2> QED BY <2>1, <2>2
<1> QED BY <1>1, <1>3, AllSubsets

(* What R!SumFunctionOnSet computes.                                          *)
LEMMA SumRest ==
  ASSUME NEW f, NEW S, IsFiniteSet(S), \A x \in S : f[x] \in Int
  PROVE  /\ R!SumFunctionOnSet(f, S) \in Int
         /\ S = {} => R!SumFunctionOnSet(f, S) = 0
         /\ \A y \in S : R!SumFunctionOnSet(f, S) = f[y] + R!SumFunctionOnSet(f, S \ {y})
<1>1. PICK g : g = CHOOSE h : Sums(h, f, S)
  OBVIOUS
<1>2. Sums(g, f, S)
  BY <1>1, SumsExist
<1>3. R!SumFunctionOnSet(f, S) = g[S] /\ S \in SUBSET S
  BY <1>1, SumIs
<1>4. R!SumFunctionOnSet(f, S) \in Int
  <2>1. 0 \in Int /\ \A i, j \in Int : i + j \in Int
    OBVIOUS
  <2> QED BY <1>2, <1>3, <2>1, SumsIn
<1>5. S = {} => R!SumFunctionOnSet(f, S) = 0
  BY <1>2, <1>3, SumsAt
<1>7. \A s \in SUBSET S : AnyFirst(g, f, s)
  BY <1>2, SumsAny
<1>6. ASSUME NEW y \in S
      PROVE  R!SumFunctionOnSet(f, S) = f[y] + R!SumFunctionOnSet(f, S \ {y})
  <2>1. PICK T : T = S \ {y}
    OBVIOUS
  <2>2. IsFiniteSet(T) /\ T \subseteq S
    BY <2>1, FS_Subset
  <2>3. PICK h : h = CHOOSE k : Sums(k, f, T)
    OBVIOUS
  <2>4. Sums(h, f, T)
    BY <2>2, <2>3, SumsExist
  <2>5. R!SumFunctionOnSet(f, T) = h[T]
    BY <2>3, SumIs
  <2>6. g[T] = h[T]
    BY <1>2, <2>2, <2>4, SumsAgree
  <2>8. g[S] = f[y] + g[T]
    BY <1>3, <1>7, <2>1 DEF AnyFirst
  <2> QED BY <1>3, <2>1, <2>5, <2>6, <2>8
<1> QED BY <1>4, <1>5, <1>6

LEMMA SumSame ==
  ASSUME NEW f, NEW e, NEW S, IsFiniteSet(S), \A x \in S : f[x] = e[x]
  PROVE  R!SumFunctionOnSet(f, S) = R!SumFunctionOnSet(e, S)
<1>1. PICK g : g = CHOOSE h : Sums(h, f, S)
  OBVIOUS
<1>2. PICK h : h = CHOOSE k : Sums(k, e, S)
  OBVIOUS
<1>3. Sums(g, f, S) /\ Sums(h, e, S)
  BY <1>1, <1>2, SumsExist
<1>4. R!SumFunctionOnSet(f, S) = g[S] /\ R!SumFunctionOnSet(e, S) = h[S]
  BY <1>1, <1>2, SumIs
<1> QED BY <1>3, <1>4, SumsAgree

LEMMA SumNat ==
  ASSUME NEW f, NEW S, IsFiniteSet(S), \A x \in S : f[x] \in Nat
  PROVE  R!SumFunctionOnSet(f, S) \in Nat
<1>1. PICK g : g = CHOOSE h : Sums(h, f, S)
  OBVIOUS
<1>2. Sums(g, f, S)
  BY <1>1, SumsExist
<1>3. R!SumFunctionOnSet(f, S) = g[S] /\ S \in SUBSET S
  BY <1>1, SumIs
<1>4. 0 \in Nat /\ \A i, j \in Nat : i + j \in Nat
  OBVIOUS
<1> QED BY <1>2, <1>3, <1>4, SumsIn

LEMMA SumIsOnAll ==
  ASSUME NEW f, NEW S, DOMAIN f = S PROVE R!SumFunction(f) = R!SumFunctionOnSet(f, S)
BY DEF R!SumFunction

----------------------------------------------------------------------------
(* Radio.                                                                   *)
RadioLines == UNION LineMixes
LogEntry   == [at : Nat, line : RadioLines]
Bucket     == [ts : Nat, rx : Nat, dup : Nat]

(* The lines of a kind in a log: all, of a minute, up to a minute, younger  *)
(* than n.                                                                  *)
Said(g, kind)           == {i \in DOMAIN g : g[i].line.kind = kind}
SaidAt(g, kind, t)      == {i \in Said(g, kind) : g[i].at = t}
SaidBy(g, kind, t)      == {i \in Said(g, kind) : g[i].at <= t}
SaidIn(g, kind, now, n) == {i \in Said(g, kind) : now - g[i].at < n}

LogOK(g, now) == g \in Seq(LogEntry) /\ \A i \in 1 .. Len(g) : g[i].at <= now

Rising(h) == \A i, j \in 1 .. Len(h) : i < j => h[i].ts < h[j].ts

Counted(b, g) ==
  /\ b.rx = Cardinality(SaidAt(g, "rx", b.ts))
  /\ b.dup = Cardinality(SaidAt(g, "dupe", b.ts))

(* Every line that is young enough for a window has its bucket.             *)
Covers(h, g, now) ==
  \A i \in 1 .. Len(g) : g[i].line.kind \in {"rx", "dupe"} /\ now - g[i].at < Long =>
    \E j \in 1 .. Len(h) : h[j].ts = g[i].at

BucketsOK(h, g, now) ==
  /\ h \in Seq(Bucket) /\ Rising(h)
  /\ \A i \in 1 .. Len(h) : h[i].ts <= now /\ Counted(h[i], g)
  /\ Covers(h, g, now)

LEMMA WindowsAre ==
  /\ Short \in Nat \ {0} /\ Long \in Nat \ {0} /\ Short <= Long
BY LogAssumption DEF R!RadioAssumption

LEMMA SaidIs ==
  ASSUME NEW g \in Seq(LogEntry)
  PROVE  /\ DOMAIN g = 1 .. Len(g) /\ IsFiniteSet(DOMAIN g)
         /\ \A s \in SUBSET (DOMAIN g) : IsFiniteSet(s) /\ Cardinality(s) \in Nat
<1>1. DOMAIN g = 1 .. Len(g) /\ Len(g) \in Nat
  OBVIOUS
<1>2. IsFiniteSet(DOMAIN g)
  BY <1>1, FS_Interval
<1> QED BY <1>1, <1>2, FS_Subset, FS_CardinalityType

LEMMA LogMore ==
  ASSUME NEW g \in Seq(LogEntry), NEW e \in LogEntry, NEW k, k = Append(g, e)
  PROVE  /\ k \in Seq(LogEntry) /\ Len(k) = Len(g) + 1 /\ k[Len(g) + 1] = e
         /\ DOMAIN k = DOMAIN g \cup {Len(g) + 1} /\ Len(g) + 1 \notin DOMAIN g
         /\ \A i \in DOMAIN g : k[i] = g[i]
<1>1. /\ k \in Seq(LogEntry) /\ Len(k) = Len(g) + 1 /\ k[Len(g) + 1] = e
      /\ \A i \in 1 .. Len(g) : k[i] = g[i]
  BY AppendProperties
<1>2. PICK n : n = Len(g)
  OBVIOUS
<1>3. n \in Nat /\ DOMAIN g = 1 .. n /\ DOMAIN k = 1 .. n + 1
  BY <1>1, <1>2
<1>4. 1 .. n + 1 = (1 .. n) \cup {n + 1} /\ n + 1 \notin 1 .. n
  BY <1>3
<1> QED BY <1>1, <1>2, <1>3, <1>4

(* One more line is in the sets it belongs in.                              *)
Bit(c) == IF c THEN 1 ELSE 0

LEMMA OneMore ==
  ASSUME NEW g \in Seq(LogEntry), NEW s \in SUBSET (DOMAIN g), NEW n, n \notin DOMAIN g,
         NEW u, NEW on \in BOOLEAN, u = IF on THEN s \cup {n} ELSE s
  PROVE  Cardinality(u) = Cardinality(s) + Bit(on)
<1>1. IsFiniteSet(s) /\ Cardinality(s) \in Nat /\ n \notin s
  BY SaidIs
<1>2. CASE on
  <2>1. Cardinality(s \cup {n}) = Cardinality(s) + 1
    BY <1>1, FS_AddElement
  <2> QED BY <2>1, <1>2 DEF Bit
<1>3. CASE ~ on
  BY <1>1, <1>3 DEF Bit
<1> QED BY <1>2, <1>3

MoreSaid(g, e, k) ==
  \A kind, t :
    /\ Cardinality(Said(k, kind)) = Cardinality(Said(g, kind)) + Bit(e.line.kind = kind)
    /\ Cardinality(SaidAt(k, kind, t)) =
         Cardinality(SaidAt(g, kind, t)) + Bit(e.line.kind = kind /\ e.at = t)
    /\ Cardinality(SaidBy(k, kind, t)) =
         Cardinality(SaidBy(g, kind, t)) + Bit(e.line.kind = kind /\ e.at <= t)

LEMMA SaidMore ==
  ASSUME NEW g \in Seq(LogEntry), NEW e \in LogEntry, NEW k, k = Append(g, e)
  PROVE  MoreSaid(g, e, k)
<1> SUFFICES ASSUME NEW kind, NEW t
             PROVE  /\ Cardinality(Said(k, kind)) = Cardinality(Said(g, kind)) + Bit(e.line.kind = kind)
                    /\ Cardinality(SaidAt(k, kind, t)) =
                         Cardinality(SaidAt(g, kind, t)) + Bit(e.line.kind = kind /\ e.at = t)
                    /\ Cardinality(SaidBy(k, kind, t)) =
                         Cardinality(SaidBy(g, kind, t)) + Bit(e.line.kind = kind /\ e.at <= t)
  BY DEF MoreSaid
<1>1. PICK n : n = Len(g) + 1
  OBVIOUS
<1>2. /\ k[n] = e /\ DOMAIN k = DOMAIN g \cup {n} /\ n \notin DOMAIN g
      /\ \A i \in DOMAIN g : k[i] = g[i]
  BY <1>1, LogMore
<1>3. Said(k, kind) = IF e.line.kind = kind THEN Said(g, kind) \cup {n} ELSE Said(g, kind)
  BY <1>2 DEF Said
<1>4. SaidAt(k, kind, t) = IF e.line.kind = kind /\ e.at = t THEN SaidAt(g, kind, t) \cup {n}
                           ELSE SaidAt(g, kind, t)
  BY <1>2 DEF Said, SaidAt
<1>5. SaidBy(k, kind, t) = IF e.line.kind = kind /\ e.at <= t THEN SaidBy(g, kind, t) \cup {n}
                           ELSE SaidBy(g, kind, t)
  BY <1>2 DEF Said, SaidBy
<1>6. /\ Said(g, kind) \in SUBSET (DOMAIN g) /\ SaidAt(g, kind, t) \in SUBSET (DOMAIN g)
      /\ SaidBy(g, kind, t) \in SUBSET (DOMAIN g)
  BY DEF Said, SaidAt, SaidBy
<1>7. Cardinality(Said(k, kind)) = Cardinality(Said(g, kind)) + Bit(e.line.kind = kind)
  <2>1. PICK on \in BOOLEAN : on <=> e.line.kind = kind
    OBVIOUS
  <2>2. Said(k, kind) = IF on THEN Said(g, kind) \cup {n} ELSE Said(g, kind)
    BY <2>1, <1>3
  <2>3. Cardinality(Said(k, kind)) = Cardinality(Said(g, kind)) + Bit(on)
    BY <2>2, <1>2, <1>6, OneMore
  <2> QED BY <2>1, <2>3
<1>8. Cardinality(SaidAt(k, kind, t)) =
        Cardinality(SaidAt(g, kind, t)) + Bit(e.line.kind = kind /\ e.at = t)
  <2>1. PICK on \in BOOLEAN : on <=> e.line.kind = kind /\ e.at = t
    OBVIOUS
  <2>2. SaidAt(k, kind, t) = IF on THEN SaidAt(g, kind, t) \cup {n} ELSE SaidAt(g, kind, t)
    BY <2>1, <1>4
  <2>3. Cardinality(SaidAt(k, kind, t)) = Cardinality(SaidAt(g, kind, t)) + Bit(on)
    BY <2>2, <1>2, <1>6, OneMore
  <2> QED BY <2>1, <2>3
<1>9. Cardinality(SaidBy(k, kind, t)) =
        Cardinality(SaidBy(g, kind, t)) + Bit(e.line.kind = kind /\ e.at <= t)
  <2>1. PICK on \in BOOLEAN : on <=> e.line.kind = kind /\ e.at <= t
    OBVIOUS
  <2>2. SaidBy(k, kind, t) = IF on THEN SaidBy(g, kind, t) \cup {n} ELSE SaidBy(g, kind, t)
    BY <2>1, <1>5
  <2>3. Cardinality(SaidBy(k, kind, t)) = Cardinality(SaidBy(g, kind, t)) + Bit(on)
    BY <2>2, <1>2, <1>6, OneMore
  <2> QED BY <2>1, <2>3
<1> QED BY <1>7, <1>8, <1>9

(* A sum of the sizes of sets of which no two overlap.                      *)
Joined(D, A, s) == {x \in D : \E i \in s : x \in A[i]}

LEMMA SumOfParts ==
  ASSUME NEW D, IsFiniteSet(D), NEW W, IsFiniteSet(W), NEW A, \A i \in W : A[i] \subseteq D,
         \A i, j \in W : i # j => A[i] \cap A[j] = {},
         NEW f, \A i \in W : f[i] = Cardinality(A[i])
  PROVE  R!SumFunctionOnSet(f, W) = Cardinality(Joined(D, A, W))
<1> DEFINE G == {s \in SUBSET W : R!SumFunctionOnSet(f, s) = Cardinality(Joined(D, A, s))}
<1>1. \A s \in G : R!SumFunctionOnSet(f, s) = Cardinality(Joined(D, A, s))
  OBVIOUS
<1>2. \A s \in SUBSET W : R!SumFunctionOnSet(f, s) = Cardinality(Joined(D, A, s)) => s \in G
  OBVIOUS
<1> HIDE DEF G
<1>3. ASSUME NEW s \in SUBSET W, \A x \in s : s \ {x} \in G
      PROVE  s \in G
  <2>1. IsFiniteSet(s)
    BY FS_Subset
  <2>2. \A x \in s : IsFiniteSet(A[x]) /\ f[x] \in Int
    BY FS_Subset, FS_CardinalityType
  <2>3. CASE s = {}
    <3>1. R!SumFunctionOnSet(f, s) = 0
      BY <2>1, <2>2, <2>3, SumRest
    <3>2. Joined(D, A, s) = {}
      BY <2>3 DEF Joined
    <3> QED BY <1>2, <3>1, <3>2, FS_EmptySet
  <2>4. CASE s # {}
    <3>1. PICK x \in s : TRUE
      BY <2>4
    <3>2. PICK u : u = s \ {x}
      OBVIOUS
    <3>3. R!SumFunctionOnSet(f, s) = f[x] + R!SumFunctionOnSet(f, u)
      BY <2>1, <2>2, <3>2, SumRest
    <3>4. R!SumFunctionOnSet(f, u) = Cardinality(Joined(D, A, u))
      BY <1>1, <1>3, <3>2
    <3>5. Joined(D, A, s) = A[x] \cup Joined(D, A, u)
      BY <3>1, <3>2 DEF Joined
    <3>6. A[x] \cap Joined(D, A, u) = {}
      BY <3>1, <3>2 DEF Joined
    <3>7. IsFiniteSet(Joined(D, A, u))
      BY FS_Subset DEF Joined
    <3>8. Cardinality(Joined(D, A, s)) =
            Cardinality(A[x]) + Cardinality(Joined(D, A, u)) - Cardinality({})
      BY <2>2, <3>5, <3>6, <3>7, FS_Union
    <3>9. Cardinality({}) = 0 /\ Cardinality(A[x]) \in Nat /\ Cardinality(Joined(D, A, u)) \in Nat
      BY <2>2, <3>7, FS_EmptySet, FS_CardinalityType
    <3>10. f[x] = Cardinality(A[x])
      OBVIOUS
    <3> QED BY <1>2, <3>3, <3>4, <3>8, <3>9, <3>10
  <2> QED BY <2>3, <2>4
<1>4. \A s \in SUBSET W : (\A x \in s : s \ {x} \in G) => s \in G
  BY <1>3
<1>5. \A s \in SUBSET W : s \in G
  BY <1>4, AllSubsets, Zenon
<1> QED BY <1>1, <1>5

(* What is left of the buckets when the old ones are gone.                  *)
LEMMA YoungIs ==
  ASSUME NEW h \in Seq(Bucket), h # <<>>, minute \in Nat, h[Len(h)].ts >= minute - Long
  PROVE  \E d \in 0 .. Len(h) - 1 :
           /\ R!Young(h) \in Seq(Bucket) /\ Len(R!Young(h)) = Len(h) - d
           /\ \A i \in 1 .. Len(h) - d : R!Young(h)[i] = h[i + d]
           /\ \A i \in 1 .. d : h[i].ts < minute - Long
<1>1. PICK l \in Nat : l = Len(h) /\ l > 0
  <2>1. Len(h) \in Nat /\ Len(h) > 0
    BY EmptySeq
  <2> QED BY <2>1
<1>2. PICK S : S = {i \in DOMAIN h : h[i].ts >= minute - Long}
  OBVIOUS
<1>3. S \subseteq Nat /\ l \in S /\ DOMAIN h = 1 .. l
  BY <1>1, <1>2
<1>4. \E x \in S : \A y \in S : x <= y
  BY <1>3, LeastElement
<1>5. PICK m : m = R!Min(S)
  OBVIOUS
<1>6. m \in S /\ \A y \in S : m <= y
  BY <1>4, <1>5 DEF R!Min
<1>7. R!Young(h) = SubSeq(h, m, l)
  BY <1>1, <1>2, <1>5 DEF R!Young
<1>8. m \in 1 .. l
  BY <1>2, <1>3, <1>6
<1>9. /\ SubSeq(h, m, l) \in Seq(Bucket)
      /\ Len(SubSeq(h, m, l)) = IF m <= l THEN l - m + 1 ELSE 0
      /\ \A i \in 1 .. l - m + 1 : SubSeq(h, m, l)[i] = h[m + i - 1]
  <2>1. m \in Int /\ l \in Int /\ \A i \in m .. l : h[i] \in Bucket
    BY <1>1, <1>3, <1>8
  <2> QED BY <2>1, SubSeqProperties
<1>10. PICK d : d = m - 1
  OBVIOUS
<1>11. d \in 0 .. l - 1 /\ l - m + 1 = l - d /\ \A i \in Int : m + i - 1 = i + d
  BY <1>1, <1>8, <1>10
<1>12. \A i \in 1 .. l - d : SubSeq(h, m, l)[i] = h[i + d]
  BY <1>9, <1>11
<1>13. ASSUME NEW i \in 1 .. d PROVE h[i].ts < minute - Long
  <2>1. i \in 1 .. l /\ ~ (m <= i)
    BY <1>8, <1>10
  <2>2. ~ (h[i].ts >= minute - Long)
    BY <2>1, <1>2, <1>3, <1>6
  <2>3. h[i] \in Bucket
    BY <2>1, <1>1
  <2>4. PICK t : t = h[i].ts
    OBVIOUS
  <2>5. PICK u : u = minute - Long
    OBVIOUS
  <2>6. t \in Nat /\ u \in Int /\ ~ (t >= u)
    BY <2>2, <2>3, <2>4, <2>5, WindowsAre DEF Bucket
  <2>7. t < u
    BY <2>6
  <2> QED BY <2>4, <2>5, <2>7
<1>14. d \in 0 .. Len(h) - 1 /\ R!Young(h) \in Seq(Bucket) /\ Len(R!Young(h)) = Len(h) - d
  <2>1. Len(SubSeq(h, m, l)) = l - d
    BY <1>8, <1>9, <1>11
  <2> QED BY <2>1, <1>1, <1>7, <1>9, <1>11
<1>15. \A i \in 1 .. Len(h) - d : R!Young(h)[i] = h[i + d]
  BY <1>1, <1>7, <1>12
<1> QED BY <1>13, <1>14, <1>15, Zenon

NewBucket == [ts |-> minute, rx |-> 0, dup |-> 0]

(* The first line of a minute opens a bucket.                               *)
LEMMA BucketOpened ==
  ASSUME NEW h, NEW g, minute \in Nat, LogOK(g, minute), BucketsOK(h, g, minute),
         h = <<>> \/ h[Len(h)].ts # minute,
         NEW b, b = R!Young(Append(h, NewBucket))
  PROVE  BucketsOK(b, g, minute) /\ b # <<>> /\ b[Len(b)].ts = minute
<1>1. PICK x : x = Append(h, NewBucket)
  OBVIOUS
<1>2. NewBucket \in Bucket /\ h \in Seq(Bucket) /\ g \in Seq(LogEntry)
  BY DEF NewBucket, Bucket, BucketsOK, LogOK
<1>3. PICK l \in Nat : l = Len(h)
  BY <1>2
<1>4. /\ x \in Seq(Bucket) /\ x # <<>> /\ Len(x) = l + 1 /\ x[l + 1] = NewBucket
      /\ \A i \in 1 .. l : x[i] = h[i]
  BY <1>1, <1>2, <1>3, AppendProperties
<1>5. x[l + 1].ts = minute /\ x[l + 1].rx = 0 /\ x[l + 1].dup = 0
  BY <1>4 DEF NewBucket
<1>6. \A i \in 1 .. l : h[i].ts \in Nat /\ h[i].ts < minute
  <2> SUFFICES ASSUME NEW i \in 1 .. l PROVE h[i].ts \in Nat /\ h[i].ts < minute
    OBVIOUS
  <2>1. h # <<>> /\ l \in 1 .. l
    BY <1>3
  <2>2. h[l].ts <= minute /\ h[l].ts # minute /\ h[l] \in Bucket /\ h[i] \in Bucket
    BY <2>1, <1>2, <1>3 DEF BucketsOK
  <2>3. i = l \/ h[i].ts < h[l].ts
    BY <2>1, <1>3 DEF BucketsOK, Rising
  <2> QED BY <2>2, <2>3 DEF Bucket
<1>7. \A i \in 1 .. Len(g) : g[i].line.kind \in {"rx", "dupe"} => g[i].at # minute
  <2> SUFFICES ASSUME NEW i \in 1 .. Len(g), g[i].line.kind \in {"rx", "dupe"}, g[i].at = minute
               PROVE  FALSE
    OBVIOUS
  <2>1. minute - g[i].at < Long
    BY WindowsAre
  <2>2. PICK j \in 1 .. Len(h) : h[j].ts = g[i].at
    BY <2>1 DEF BucketsOK, Covers
  <2> QED BY <2>2, <1>3, <1>6
<1>8. \A kind \in {"rx", "dupe"} : SaidAt(g, kind, minute) = {}
  BY <1>2, <1>7, SaidIs DEF SaidAt, Said
<1>9. Counted(NewBucket, g)
  BY <1>8, FS_EmptySet DEF Counted, NewBucket
<1>10. \A i \in 1 .. l + 1 : x[i].ts <= minute /\ Counted(x[i], g)
  <2>1. \A i \in 1 .. l + 1 : i = l + 1 \/ i \in 1 .. l
    OBVIOUS
  <2>2. \A i \in 1 .. l : h[i].ts <= minute /\ Counted(h[i], g)
    BY <1>3 DEF BucketsOK
  <2> QED BY <2>1, <2>2, <1>4, <1>5, <1>9
<1>11. Rising(x)
  <2> SUFFICES ASSUME NEW i \in 1 .. l + 1, NEW j \in 1 .. l + 1, i < j PROVE x[i].ts < x[j].ts
    BY <1>4 DEF Rising
  <2>1. i \in 1 .. l
    OBVIOUS
  <2>2. CASE j = l + 1
    BY <2>1, <2>2, <1>4, <1>5, <1>6
  <2>3. CASE j \in 1 .. l
    BY <2>1, <2>3, <1>3, <1>4 DEF BucketsOK, Rising
  <2> QED BY <2>2, <2>3
<1>12. x[Len(x)].ts >= minute - Long
  BY <1>4, <1>5, WindowsAre
<1>13. PICK d \in 0 .. Len(x) - 1 :
         /\ b \in Seq(Bucket) /\ Len(b) = Len(x) - d
         /\ \A i \in 1 .. Len(x) - d : b[i] = x[i + d]
         /\ \A i \in 1 .. d : x[i].ts < minute - Long
  BY <1>1, <1>4, <1>12, YoungIs
<1>14. PICK n : n = (l + 1) - d
  OBVIOUS
<1>15. /\ n \in Nat /\ n > 0 /\ Len(b) = n /\ n + d = l + 1 /\ d \in 0 .. l
       /\ \A i \in 1 .. n : i + d \in 1 .. l + 1 /\ b[i] = x[i + d]
  BY <1>4, <1>13, <1>14
<1>16. Rising(b)
  <2> SUFFICES ASSUME NEW i \in 1 .. n, NEW j \in 1 .. n, i < j PROVE b[i].ts < b[j].ts
    BY <1>15 DEF Rising
  <2>1. i + d \in 1 .. l + 1 /\ j + d \in 1 .. l + 1 /\ i + d < j + d
    BY <1>15
  <2>2. x[i + d].ts < x[j + d].ts
    BY <2>1, <1>4, <1>11 DEF Rising
  <2> QED BY <2>2, <1>15
<1>17. \A i \in 1 .. Len(b) : b[i].ts <= minute /\ Counted(b[i], g)
  BY <1>10, <1>15
<1>18. Covers(b, g, minute)
  <2> SUFFICES ASSUME NEW i \in 1 .. Len(g), g[i].line.kind \in {"rx", "dupe"}, minute - g[i].at < Long
               PROVE  \E j \in 1 .. Len(b) : b[j].ts = g[i].at
    BY DEF Covers
  <2>1. PICK j \in 1 .. l : h[j].ts = g[i].at
    BY <1>3 DEF BucketsOK, Covers
  <2>2. x[j].ts = g[i].at /\ g[i].at \in Nat
    BY <2>1, <1>4, <1>6
  <2>3. ~ (j \in 1 .. d)
    BY <2>2, <1>13, WindowsAre
  <2>4. j - d \in 1 .. n /\ (j - d) + d = j
    BY <2>3, <1>15
  <2>5. b[j - d] = x[j]
    BY <2>4, <1>15
  <2> QED BY <2>2, <2>4, <2>5, <1>15
<1>19. b # <<>> /\ b[Len(b)].ts = minute
  <2>1. n \in 1 .. n /\ b[n] = x[l + 1]
    BY <1>15
  <2> QED BY <2>1, <1>5, <1>15
<1> QED BY <1>13, <1>16, <1>17, <1>18, <1>19 DEF BucketsOK

LEMMA BucketForIs ==
  ASSUME NEW h, NEW g, minute \in Nat, LogOK(g, minute), BucketsOK(h, g, minute),
         NEW b, b = R!bucketFor(h)
  PROVE  BucketsOK(b, g, minute) /\ b # <<>> /\ b[Len(b)].ts = minute
<1>1. CASE h # <<>> /\ h[Len(h)].ts = minute
  BY <1>1 DEF R!bucketFor
<1>2. CASE h = <<>> \/ h[Len(h)].ts # minute
  <2>1. b = R!Young(Append(h, NewBucket))
    BY <1>2 DEF R!bucketFor, NewBucket
  <2> QED BY <2>1, <1>2, BucketOpened
<1> QED BY <1>1, <1>2

(* k is g and the line e.                                                   *)
Logs(g, e, k) == k = Append(g, e)

(* c is b with a line counted in the bucket of its minute, if it counts.    *)
Extra(e, kind) == Bit(e.line.kind = kind)

CountsIn(b, e, now, c) ==
  /\ c \in Seq(Bucket) /\ Len(c) = Len(b)
  /\ \A i \in 1 .. Len(b) : c[i].ts = b[i].ts
  /\ \A i \in 1 .. Len(b) : b[i].ts # now => c[i] = b[i]
  /\ \A i \in 1 .. Len(b) : b[i].ts = now =>
       c[i].rx = b[i].rx + Extra(e, "rx") /\ c[i].dup = b[i].dup + Extra(e, "dupe")

LEMMA LineCounted ==
  ASSUME NEW b, NEW g, NEW now \in Nat, LogOK(g, now), BucketsOK(b, g, now),
         NEW e \in LogEntry, e.at = now, NEW k, Logs(g, e, k),
         e.line.kind \in {"rx", "dupe"} => b # <<>> /\ b[Len(b)].ts = now,
         NEW c, CountsIn(b, e, now, c)
  PROVE  LogOK(k, now) /\ BucketsOK(c, k, now)
<1>0. /\ k = Append(g, e) /\ c \in Seq(Bucket) /\ Len(c) = Len(b)
      /\ \A i \in 1 .. Len(b) : c[i].ts = b[i].ts
      /\ \A i \in 1 .. Len(b) : b[i].ts # now => c[i] = b[i]
      /\ \A i \in 1 .. Len(b) : b[i].ts = now =>
           c[i].rx = b[i].rx + Extra(e, "rx") /\ c[i].dup = b[i].dup + Extra(e, "dupe")
  BY DEF Logs, CountsIn
<1>1. PICK l \in Nat : l = Len(b)
  BY DEF BucketsOK
<1>2. /\ k \in Seq(LogEntry) /\ Len(k) = Len(g) + 1 /\ k[Len(g) + 1] = e
      /\ \A i \in DOMAIN g : k[i] = g[i]
      /\ DOMAIN g = 1 .. Len(g) /\ g \in Seq(LogEntry)
  BY <1>0, LogMore, SaidIs DEF LogOK
<1>3. \A i \in 1 .. Len(k) : i = Len(g) + 1 \/ i \in 1 .. Len(g)
  BY <1>2
<1>4. LogOK(k, now)
  BY <1>2, <1>3 DEF LogOK
<1>5. Rising(c)
  BY <1>0, <1>1 DEF Rising, BucketsOK
<1>6. ASSUME NEW i \in 1 .. l PROVE c[i].ts <= now /\ Counted(c[i], k)
  <2>1. b[i].ts <= now /\ Counted(b[i], g) /\ c[i].ts = b[i].ts
    BY <1>0, <1>1 DEF BucketsOK
  <2>2. PICK t : t = b[i].ts
    OBVIOUS
  <2>3. /\ Cardinality(SaidAt(k, "rx", t)) =
             Cardinality(SaidAt(g, "rx", t)) + Bit(e.line.kind = "rx" /\ e.at = t)
        /\ Cardinality(SaidAt(k, "dupe", t)) =
             Cardinality(SaidAt(g, "dupe", t)) + Bit(e.line.kind = "dupe" /\ e.at = t)
    <3>1. MoreSaid(g, e, k)
      BY <1>0, <1>2, SaidMore
    <3> QED BY <3>1 DEF MoreSaid
  <2>4. /\ Cardinality(SaidAt(g, "rx", t)) \in Nat /\ Cardinality(SaidAt(g, "dupe", t)) \in Nat
        /\ b[i].rx = Cardinality(SaidAt(g, "rx", t)) /\ b[i].dup = Cardinality(SaidAt(g, "dupe", t))
    <3>1. SaidAt(g, "rx", t) \in SUBSET (DOMAIN g) /\ SaidAt(g, "dupe", t) \in SUBSET (DOMAIN g)
      BY DEF SaidAt, Said
    <3> QED BY <3>1, <1>2, <2>1, <2>2, SaidIs DEF Counted
  <2>5. CASE t = now
    <3>1. c[i].rx = b[i].rx + Extra(e, "rx") /\ c[i].dup = b[i].dup + Extra(e, "dupe")
      BY <2>2, <2>5, <1>0, <1>1
    <3>2. c[i].rx = Cardinality(SaidAt(k, "rx", t)) /\ c[i].dup = Cardinality(SaidAt(k, "dupe", t))
      BY <2>3, <2>4, <2>5, <3>1 DEF Extra, Bit
    <3> QED BY <3>2, <2>1, <2>2 DEF Counted
  <2>6. CASE t # now
    <3>1. c[i] = b[i]
      BY <2>2, <2>6, <1>0, <1>1
    <3>2. /\ Cardinality(SaidAt(k, "rx", t)) = Cardinality(SaidAt(g, "rx", t))
          /\ Cardinality(SaidAt(k, "dupe", t)) = Cardinality(SaidAt(g, "dupe", t))
      BY <2>3, <2>4, <2>6 DEF Bit
    <3> QED BY <3>1, <3>2, <2>1, <2>2 DEF Counted
  <2> QED BY <2>5, <2>6
<1>7. Covers(c, k, now)
  <2> SUFFICES ASSUME NEW i \in 1 .. Len(k), k[i].line.kind \in {"rx", "dupe"}, now - k[i].at < Long
               PROVE  \E j \in 1 .. Len(c) : c[j].ts = k[i].at
    BY DEF Covers
  <2>1. CASE i = Len(g) + 1
    <3>1. l \in 1 .. l /\ b[l].ts = now /\ k[i].at = now
      BY <2>1, <1>1, <1>2
    <3> QED BY <3>1, <1>0, <1>1
  <2>2. CASE i \in 1 .. Len(g)
    <3>1. k[i] = g[i]
      BY <2>2, <1>2
    <3>2. PICK j \in 1 .. Len(b) : b[j].ts = g[i].at
      BY <2>2, <3>1 DEF BucketsOK, Covers
    <3> QED BY <3>1, <3>2, <1>0
  <2> QED BY <2>1, <2>2, <1>3
<1> QED BY <1>0, <1>1, <1>4, <1>5, <1>6, <1>7 DEF BucketsOK

(* With time, lines leave the windows, and nothing else happens.            *)
LEMMA BucketsAge ==
  ASSUME NEW h, NEW g, NEW now \in Nat, LogOK(g, now), BucketsOK(h, g, now)
  PROVE  LogOK(g, now + 1) /\ BucketsOK(h, g, now + 1)
<1>1. \A i \in 1 .. Len(g) : g[i].at \in Nat /\ g[i].at <= now
  <2>1. \A i \in 1 .. Len(g) : g[i] \in LogEntry /\ g[i].at <= now
    BY DEF LogOK
  <2> QED BY <2>1 DEF LogEntry
<1>2. LogOK(g, now + 1)
  BY <1>1 DEF LogOK
<1>3. \A i \in 1 .. Len(h) : h[i].ts \in Nat /\ h[i].ts <= now /\ Counted(h[i], g)
  <2>1. \A i \in 1 .. Len(h) : h[i] \in Bucket /\ h[i].ts <= now /\ Counted(h[i], g)
    BY DEF BucketsOK
  <2> QED BY <2>1 DEF Bucket
<1>4. \A i \in 1 .. Len(h) : h[i].ts <= now + 1 /\ Counted(h[i], g)
  BY <1>3
<1>5. \A i \in 1 .. Len(g) : (now + 1) - g[i].at < Long => now - g[i].at < Long
  BY <1>1, WindowsAre
<1>6. Covers(h, g, now + 1)
  BY <1>5 DEF Covers, BucketsOK
<1> QED BY <1>2, <1>4, <1>6 DEF BucketsOK

(* The buckets of a window hold what was logged in it.                      *)
LEMMA WindowIs ==
  ASSUME NEW h, NEW g, NEW now \in Nat, LogOK(g, now), BucketsOK(h, g, now),
         NEW n \in Nat, n <= Long, NEW W, W = {i \in DOMAIN h : now - h[i].ts < n},
         NEW kind \in {"rx", "dupe"}, NEW f,
         \A i \in W : f[i] = Cardinality(SaidAt(g, kind, h[i].ts))
  PROVE  R!SumFunctionOnSet(f, W) = Cardinality(SaidIn(g, kind, now, n))
<1>1. /\ g \in Seq(LogEntry) /\ IsFiniteSet(DOMAIN g) /\ DOMAIN g = 1 .. Len(g)
      /\ DOMAIN h = 1 .. Len(h) /\ Len(h) \in Nat /\ IsFiniteSet(DOMAIN h)
  <2>1. g \in Seq(LogEntry) /\ h \in Seq(Bucket)
    BY DEF LogOK, BucketsOK
  <2>2. DOMAIN h = 1 .. Len(h) /\ Len(h) \in Nat
    BY <2>1
  <2> QED BY <2>1, <2>2, SaidIs, FS_Interval
<1>2. IsFiniteSet(W) /\ W \subseteq 1 .. Len(h)
  BY <1>1, FS_Subset
<1>3. PICK A : A = [i \in W |-> SaidAt(g, kind, h[i].ts)]
  OBVIOUS
<1>4. \A i \in W : A[i] \subseteq DOMAIN g /\ f[i] = Cardinality(A[i])
  BY <1>3 DEF SaidAt, Said
<1>5. \A i, j \in 1 .. Len(h) : i # j => h[i].ts # h[j].ts
  <2> SUFFICES ASSUME NEW i \in 1 .. Len(h), NEW j \in 1 .. Len(h), i # j, h[i].ts = h[j].ts PROVE FALSE
    OBVIOUS
  <2>1. h[i] \in Bucket /\ h[j] \in Bucket
    BY DEF BucketsOK
  <2>2. i < j \/ j < i
    OBVIOUS
  <2>3. h[i].ts < h[j].ts \/ h[j].ts < h[i].ts
    BY <2>2 DEF BucketsOK, Rising
  <2> QED BY <2>1, <2>3 DEF Bucket
<1>6. \A i, j \in W : i # j => A[i] \cap A[j] = {}
  BY <1>2, <1>3, <1>5 DEF SaidAt
<1>7. R!SumFunctionOnSet(f, W) = Cardinality(Joined(DOMAIN g, A, W))
  BY <1>1, <1>2, <1>4, <1>6, SumOfParts
<1>8. Joined(DOMAIN g, A, W) = SaidIn(g, kind, now, n)
  <2>1. ASSUME NEW x \in Joined(DOMAIN g, A, W) PROVE x \in SaidIn(g, kind, now, n)
    <3>1. PICK i \in W : x \in SaidAt(g, kind, h[i].ts)
      BY <1>3 DEF Joined
    <3>2. x \in Said(g, kind) /\ g[x].at = h[i].ts /\ now - h[i].ts < n
      BY <3>1 DEF SaidAt
    <3> QED BY <3>2 DEF SaidIn
  <2>2. ASSUME NEW x \in SaidIn(g, kind, now, n) PROVE x \in Joined(DOMAIN g, A, W)
    <3>1. x \in Said(g, kind) /\ x \in DOMAIN g /\ g[x].line.kind = kind /\ now - g[x].at < n
      BY DEF SaidIn, Said
    <3>2. g[x].at \in Nat
      <4>1. g[x] \in LogEntry
        BY <3>1, <1>1
      <4> QED BY <4>1 DEF LogEntry
    <3>3. now - g[x].at < Long
      BY <3>1, <3>2, WindowsAre
    <3>4. PICK j \in 1 .. Len(h) : h[j].ts = g[x].at
      BY <3>1, <3>3, <1>1 DEF BucketsOK, Covers
    <3>5. j \in W /\ x \in A[j]
      BY <3>1, <3>4, <1>1, <1>3 DEF SaidAt
    <3> QED BY <3>1, <3>5 DEF Joined
  <2> QED BY <2>1, <2>2
<1> QED BY <1>7, <1>8
----------------------------------------------------------------------------
(* The senders and the histogram, line by line.                             *)
Received(g)  == {i \in Said(g, "rx") : g[i].line.from # 0}
Way(l)       == <<l.from, l.relay>>
OnWay(g, k)  == {i \in Received(g) : Way(g[i].line) = k}
Strengths(g) == [i \in Said(g, "rx") |-> g[i].line.snr]

(* The accumulator of a way, from the log.                                  *)
WayOf(g, w) == [count |-> Cardinality(OnWay(g, w)),
                sum |-> R!SumFunctionOnSet(Strengths(g), OnWay(g, w)),
                best |-> R!Max({Strengths(g)[i] : i \in OnWay(g, w)})]

SendersOK(s, g) ==
  /\ DOMAIN s = {Way(g[i].line) : i \in Received(g)}
  /\ \A w \in DOMAIN s : s[w] = WayOf(g, w)

InBar(g, b) == {i \in Said(g, "freq") : R!FreqBucket(g[i].line.hz) = b}

Tally(t) == \A x \in DOMAIN t : t[x] \in Nat

BarsOK(t, g) ==
  /\ Tally(t)
  /\ \A b \in Int : R!Count(t, <<"freq", b>>) = Cardinality(InBar(g, b))

Snap == [rx : Nat, last : Nat]

(* What a snapshot says came after the one before it; the last one knows    *)
(* nothing that is still in the window of the next.                         *)
SnapshotsOK(s, g, t) ==
  /\ s \in Seq(Snap)
  /\ \A i \in 2 .. Len(s) : s[i].last <= s[i].rx - s[i - 1].rx
  /\ s # <<>> => s[Len(s)].rx <= Cardinality(SaidBy(g, "rx", t))

RadioFields == {"rx", "dup", "mqtt", "senders", "tally", "history"}

ReportInv ==
  /\ part = "lines" => mix \in LineMixes
  /\ minute \in Nat /\ tick \in Nat /\ minute <= tick /\ tick - Short <= minute
  /\ LogOK(logged, minute)
  /\ DOMAIN radio = RadioFields
  /\ radio.rx = Cardinality(Said(logged, "rx"))
  /\ BucketsOK(radio.history, logged, minute)
  /\ SendersOK(radio.senders, logged)
  /\ BarsOK(radio.tally, logged)
  /\ SnapshotsOK(snapshots, logged, tick - Short)

LEMMA LineIs ==
  ASSUME NEW l \in RadioLines
  PROVE  \/ /\ l.kind = "rx" /\ l.snr \in Int /\ l.from \in Nat /\ l.relay \in Nat
            /\ l.start \in Nat /\ l.limit \in Nat
         \/ l.kind \in {"dupe", "reason"}
         \/ l.kind = "freq" /\ l.hz \in Int
BY LogAssumption DEF R!RadioAssumption, RadioLines

(* The window of a snapshot and what came before it are all receptions.     *)
LEMMA WindowRest ==
  ASSUME NEW g, NEW now \in Nat, LogOK(g, now), NEW n \in Nat
  PROVE  /\ Cardinality(SaidIn(g, "rx", now, n)) \in Nat
         /\ Cardinality(SaidBy(g, "rx", now - n)) \in Nat
         /\ Cardinality(Said(g, "rx")) =
              Cardinality(SaidIn(g, "rx", now, n)) + Cardinality(SaidBy(g, "rx", now - n))
<1>1. g \in Seq(LogEntry) /\ DOMAIN g = 1 .. Len(g)
  BY SaidIs DEF LogOK
<1>2. PICK s : s = SaidIn(g, "rx", now, n)
  OBVIOUS
<1>3. PICK u : u = SaidBy(g, "rx", now - n)
  OBVIOUS
<1>4. \A i \in DOMAIN g : g[i].at \in Nat
  <2>1. \A i \in DOMAIN g : g[i] \in LogEntry
    BY <1>1
  <2> QED BY <2>1 DEF LogEntry
<1>5. s \in SUBSET (DOMAIN g) /\ u \in SUBSET (DOMAIN g)
  BY <1>2, <1>3 DEF SaidIn, SaidBy, Said
<1>6. \A i \in DOMAIN g : now - g[i].at < n <=> ~ (g[i].at <= now - n)
  BY <1>4
<1>7. s \cup u = Said(g, "rx") /\ s \cap u = {}
  BY <1>2, <1>3, <1>6 DEF SaidIn, SaidBy, Said
<1>8. IsFiniteSet(s) /\ IsFiniteSet(u) /\ Cardinality(s) \in Nat /\ Cardinality(u) \in Nat
  BY <1>1, <1>5, SaidIs
<1>9. Cardinality(s \cup u) = Cardinality(s) + Cardinality(u) - Cardinality(s \cap u)
  BY <1>8, FS_Union
<1>10. Cardinality(s \cap u) = 0
  BY <1>7, FS_EmptySet
<1>11. Cardinality(Said(g, "rx")) = Cardinality(s) + Cardinality(u)
  <2>1. Cardinality(s \cup u) = Cardinality(s) + Cardinality(u)
    BY <1>8, <1>9, <1>10
  <2> QED BY <2>1, <1>7
<1> QED BY <1>2, <1>3, <1>8, <1>11

(* A line more is logged, and whatever it is, snapshots are not younger.    *)
LEMMA SnapshotsStay ==
  ASSUME NEW s, NEW g \in Seq(LogEntry), NEW t, SnapshotsOK(s, g, t),
         NEW e \in LogEntry, NEW k, k = Append(g, e)
  PROVE  SnapshotsOK(s, k, t)
<1>1. MoreSaid(g, e, k)
  BY SaidMore
<1>2. Cardinality(SaidBy(k, "rx", t)) =
        Cardinality(SaidBy(g, "rx", t)) + Bit(e.line.kind = "rx" /\ e.at <= t)
  BY <1>1 DEF MoreSaid
<1>3. Cardinality(SaidBy(g, "rx", t)) \in Nat
  <2>1. SaidBy(g, "rx", t) \in SUBSET (DOMAIN g)
    BY DEF SaidBy, Said
  <2> QED BY <2>1, SaidIs
<1>4. Cardinality(SaidBy(g, "rx", t)) <= Cardinality(SaidBy(k, "rx", t))
  BY <1>2, <1>3 DEF Bit
<1>5. ASSUME s # <<>> PROVE s[Len(s)].rx <= Cardinality(SaidBy(k, "rx", t))
  <2>1. s[Len(s)].rx <= Cardinality(SaidBy(g, "rx", t))
    BY <1>5 DEF SnapshotsOK
  <2>2. s[Len(s)].rx \in Nat
    <3>1. s \in Seq(Snap)
      BY DEF SnapshotsOK
    <3>2. Len(s) \in 1 .. Len(s)
      BY <3>1, <1>5, EmptySeq
    <3>3. s[Len(s)] \in Snap
      BY <3>1, <3>2
    <3> QED BY <3>3 DEF Snap
  <2>3. PICK x : x = s[Len(s)].rx
    OBVIOUS
  <2>4. PICK y : y = Cardinality(SaidBy(g, "rx", t))
    OBVIOUS
  <2>5. PICK z : z = Cardinality(SaidBy(k, "rx", t))
    OBVIOUS
  <2>6. x \in Nat /\ y \in Nat /\ z \in Nat /\ x <= y /\ y <= z
    BY <2>1, <2>2, <2>3, <2>4, <2>5, <1>2, <1>3, <1>4 DEF Bit
  <2>7. x <= z
    BY <2>6
  <2> QED BY <2>3, <2>5, <2>7
<1> QED BY <1>5 DEF SnapshotsOK

(* A snapshot is taken, or skipped while nothing was received.              *)
LEMMA SnapshotTaken ==
  ASSUME ReportInv, R!Snapshot
  PROVE  SnapshotsOK(snapshots', logged, tick' - Short)
<1>1. minute = tick /\ tick' = tick + Short /\ minute \in Nat /\ LogOK(logged, minute)
  BY DEF R!Snapshot, ReportInv
<1>2. Short \in Nat /\ Long \in Nat /\ Short <= Long
  BY WindowsAre
<1>3. tick' - Short = minute
  BY <1>1, <1>2
<1>4. PICK h : h = radio.history
  OBVIOUS
<1>5. BucketsOK(h, logged, minute)
  BY <1>4 DEF ReportInv
<1>6. PICK W : W = {i \in DOMAIN h : minute - h[i].ts < Short}
  OBVIOUS
<1>7. PICK f : f = [i \in W |-> h[i].rx]
  OBVIOUS
<1>8. \A i \in W : f[i] = Cardinality(SaidAt(logged, "rx", h[i].ts))
  <2>1. \A i \in W : i \in 1 .. Len(h)
    BY <1>5, <1>6 DEF BucketsOK
  <2>2. \A i \in W : f[i] = h[i].rx
    BY <1>7
  <2> QED BY <2>1, <2>2, <1>5 DEF BucketsOK, Counted
<1>9. R!SumFunctionOnSet(f, W) = Cardinality(SaidIn(logged, "rx", minute, Short))
  BY <1>1, <1>2, <1>5, <1>6, <1>8, WindowIs
<1>10. R!RxIn(R!Buckets(Short)) = R!SumFunctionOnSet(f, W)
  <2>1. R!RxIn(R!Buckets(Short)) = R!SumFunction(f)
    BY <1>4, <1>6, <1>7 DEF R!RxIn, R!Buckets
  <2>2. DOMAIN f = W
    BY <1>7
  <2> QED BY <2>1, <2>2, SumIsOnAll
<1>11. PICK x : x = R!RxIn(R!Buckets(Short))
  OBVIOUS
<1>12. PICK y : y = Cardinality(SaidBy(logged, "rx", minute - Short))
  OBVIOUS
<1>13. x \in Nat /\ y \in Nat /\ radio.rx = x + y
  <2>1. radio.rx = Cardinality(Said(logged, "rx"))
    BY DEF ReportInv
  <2> QED BY <2>1, <1>1, <1>2, <1>9, <1>10, <1>11, <1>12, WindowRest
<1>14. SaidBy(logged, "rx", minute) = Said(logged, "rx")
  <2>1. DOMAIN logged = 1 .. Len(logged) /\ \A i \in 1 .. Len(logged) : logged[i].at <= minute
    BY <1>1, SaidIs DEF LogOK
  <2> QED BY <2>1 DEF SaidBy, Said
<1>15. SnapshotsOK(snapshots, logged, minute - Short)
  BY <1>1 DEF ReportInv
<1>16. PICK s : s = snapshots
  OBVIOUS
<1>17. /\ s \in Seq(Snap)
       /\ \A i \in 2 .. Len(s) : s[i].last <= s[i].rx - s[i - 1].rx
       /\ s # <<>> => s[Len(s)].rx <= y
  BY <1>12, <1>15, <1>16 DEF SnapshotsOK
<1>18. \A i \in 1 .. Len(s) : s[i].rx \in Nat
  <2>1. \A i \in 1 .. Len(s) : s[i] \in Snap
    BY <1>17
  <2> QED BY <2>1 DEF Snap
<1>19. s # <<>> => Len(s) \in 1 .. Len(s)
  BY <1>17, EmptySeq
<1>20. CASE radio.rx = 0
  <2>1. snapshots' = s
    BY <1>16, <1>20 DEF R!Snapshot
  <2>2. Cardinality(SaidBy(logged, "rx", minute)) = x + y
    BY <1>13, <1>14 DEF ReportInv
  <2>3. ASSUME s # <<>> PROVE s[Len(s)].rx <= x + y
    <3>1. PICK z : z = s[Len(s)].rx
      OBVIOUS
    <3>2. z \in Nat /\ z <= y
      BY <2>3, <3>1, <1>17, <1>18, <1>19
    <3>3. z <= x + y
      BY <3>2, <1>13
    <3> QED BY <3>1, <3>3
  <2> QED BY <2>1, <2>2, <2>3, <1>3, <1>17 DEF SnapshotsOK
<1>21. CASE radio.rx # 0
  <2>1. PICK r : r = [rx |-> x + y, last |-> x]
    OBVIOUS
  <2>2. snapshots' = Append(s, r)
    BY <2>1, <1>11, <1>13, <1>16, <1>21 DEF R!Snapshot
  <2>3. r \in Snap /\ r.rx = x + y /\ r.last = x
    BY <2>1, <1>13 DEF Snap
  <2>4. PICK u : u = Append(s, r)
    OBVIOUS
  <2>5. PICK l \in Nat : l = Len(s)
    BY <1>17
  <2>6. /\ u \in Seq(Snap) /\ Len(u) = l + 1 /\ u[l + 1] = r
        /\ \A i \in 1 .. l : u[i] = s[i]
    BY <2>3, <2>4, <2>5, <1>17, AppendProperties
  <2>7. ASSUME NEW i \in 2 .. l + 1 PROVE u[i].last <= u[i].rx - u[i - 1].rx
    <3>1. CASE i = l + 1
      <4>1. l \in 1 .. l /\ s # <<>> /\ i - 1 = l
        BY <3>1, <2>5, EmptySeq
      <4>2. PICK z : z = s[l].rx
        OBVIOUS
      <4>3. z \in Nat /\ z <= y
        BY <4>1, <4>2, <2>5, <1>17, <1>18
      <4>4. x <= (x + y) - z
        BY <4>3, <1>13
      <4>5. u[i].last = x /\ u[i].rx = x + y /\ u[i - 1].rx = z
        BY <3>1, <4>1, <4>2, <2>3, <2>6
      <4> QED BY <4>4, <4>5
    <3>2. CASE i \in 2 .. l
      <4>1. i \in 1 .. l /\ i - 1 \in 1 .. l
        BY <3>2
      <4> QED BY <3>2, <4>1, <2>5, <2>6, <1>17
    <3> QED BY <3>1, <3>2
  <2>8. u[Len(u)].rx <= Cardinality(SaidBy(logged, "rx", minute))
    <3>1. u[Len(u)].rx = x + y /\ Cardinality(SaidBy(logged, "rx", minute)) = x + y
      BY <2>3, <2>6, <1>13, <1>14 DEF ReportInv
    <3>2. x + y <= x + y
      BY <1>13
    <3> QED BY <3>1, <3>2
  <2> QED BY <2>2, <2>4, <2>6, <2>7, <2>8, <1>3 DEF SnapshotsOK
<1> QED BY <1>20, <1>21
----------------------------------------------------------------------------
(* The greatest of finitely many.                                           *)
LEMMA Strongest ==
  ASSUME NEW A, IsFiniteSet(A), NEW f, \A i \in A : f[i] \in Int, A # {}
  PROVE  \E i \in A : \A j \in A : f[j] <= f[i]
<1> DEFINE G == {s \in SUBSET A : s # {} => \E i \in s : \A j \in s : f[j] <= f[i]}
<1>1. \A s \in G : s # {} => \E i \in s : \A j \in s : f[j] <= f[i]
  OBVIOUS
<1>2. \A s \in SUBSET A : (s # {} => \E i \in s : \A j \in s : f[j] <= f[i]) => s \in G
  OBVIOUS
<1> HIDE DEF G
<1>3. ASSUME NEW s \in SUBSET A, \A x \in s : s \ {x} \in G
      PROVE  s # {} => \E i \in s : \A j \in s : f[j] <= f[i]
  <2> SUFFICES ASSUME NEW x \in s PROVE \E i \in s : \A j \in s : f[j] <= f[i]
    OBVIOUS
  <2>1. PICK u : u = s \ {x}
    OBVIOUS
  <2>2. CASE u = {}
    BY <2>1, <2>2
  <2>3. CASE u # {}
    <3>1. PICK i \in u : \A j \in u : f[j] <= f[i]
      BY <2>1, <2>3, <1>1, <1>3
    <3>2. f[i] \in Int /\ f[x] \in Int /\ \A j \in u : f[j] \in Int
      BY <2>1, <3>1
    <3>3. CASE f[x] <= f[i]
      BY <2>1, <3>1, <3>3
    <3>4. CASE ~ (f[x] <= f[i])
      <4>1. \A j \in u : f[j] <= f[x]
        BY <3>1, <3>2, <3>4
      <4>2. f[x] <= f[x]
        BY <3>2
      <4> QED BY <2>1, <4>1, <4>2
    <3> QED BY <3>3, <3>4
  <2> QED BY <2>2, <2>3
<1>4. \A s \in SUBSET A : (\A x \in s : s \ {x} \in G) => s \in G
  BY <1>2, <1>3
<1>5. \A s \in SUBSET A : s \in G
  BY <1>4, AllSubsets, Zenon
<1> QED BY <1>1, <1>5

LEMMA MaxIs ==
  ASSUME NEW S, S \subseteq Int, NEW m \in S, \A y \in S : y <= m
  PROVE  R!Max(S) = m
<1>1. PICK x : x = R!Max(S)
  OBVIOUS
<1>2. x \in S /\ \A y \in S : x >= y
  <2>1. m \in S /\ \A y \in S : m >= y
    OBVIOUS
  <2> QED BY <2>1, <1>1 DEF R!Max
<1>3. x \in Int /\ m \in Int /\ x >= m /\ x <= m
  BY <1>2
<1>4. x = m
  BY <1>3
<1> QED BY <1>1, <1>4

LEMMA OnWayIs ==
  ASSUME NEW g \in Seq(LogEntry), NEW w
  PROVE  /\ OnWay(g, w) \in SUBSET (DOMAIN g) /\ IsFiniteSet(OnWay(g, w))
         /\ Cardinality(OnWay(g, w)) \in Nat
         /\ \A i \in OnWay(g, w) :
              /\ g[i].line \in RadioLines /\ g[i].line.kind = "rx" /\ g[i].line.snr \in Int
              /\ Strengths(g)[i] = g[i].line.snr
<1>1. OnWay(g, w) \in SUBSET (DOMAIN g)
  BY DEF OnWay, Received, Said
<1>2. \A i \in OnWay(g, w) : g[i].line \in RadioLines /\ g[i].line.kind = "rx"
  <2>1. \A i \in DOMAIN g : g[i] \in LogEntry
    BY SaidIs
  <2> QED BY <2>1, <1>1 DEF LogEntry, OnWay, Received, Said
<1>3. \A i \in OnWay(g, w) : Strengths(g)[i] = g[i].line.snr
  BY DEF OnWay, Received, Strengths
<1>4. \A i \in OnWay(g, w) : g[i].line.snr \in Int
  BY <1>2, LineIs
<1> QED BY <1>1, <1>2, <1>3, <1>4, SaidIs

LEMMA WaySame ==
  ASSUME NEW g \in Seq(LogEntry), NEW k \in Seq(LogEntry), \A i \in DOMAIN g : k[i] = g[i],
         NEW w, OnWay(k, w) = OnWay(g, w)
  PROVE  WayOf(k, w) = WayOf(g, w)
<1>1. PICK A : A = OnWay(g, w)
  OBVIOUS
<1>2. IsFiniteSet(A) /\ \A i \in A : Strengths(k)[i] = Strengths(g)[i]
  BY <1>1, OnWayIs
<1>3. R!SumFunctionOnSet(Strengths(k), A) = R!SumFunctionOnSet(Strengths(g), A)
  BY <1>2, SumSame
<1>4. {Strengths(k)[i] : i \in A} = {Strengths(g)[i] : i \in A}
  BY <1>2
<1> QED BY <1>1, <1>3, <1>4 DEF WayOf

(* k has all of g's lines, and perhaps more.                                *)
Extends(k, g) == \A i \in DOMAIN g : k[i] = g[i]

(* One more packet over w.                                                  *)
MoreOnWay(g, k, w, n, old) ==
  /\ g \in Seq(LogEntry) /\ k \in Seq(LogEntry) /\ Extends(k, g) /\ n \notin DOMAIN g
  /\ OnWay(k, w) = OnWay(g, w) \cup {n}
  /\ OnWay(g, w) = {} => old = R!NoRx
  /\ OnWay(g, w) # {} => old = WayOf(g, w)

LEMMA WayMore ==
  ASSUME NEW g, NEW k, NEW w, NEW n, NEW old, MoreOnWay(g, k, w, n, old)
  PROVE  WayOf(k, w) = R!addRx(old, k[n].line.snr)
<1>0. /\ g \in Seq(LogEntry) /\ k \in Seq(LogEntry) /\ Extends(k, g) /\ n \notin DOMAIN g
      /\ OnWay(k, w) = OnWay(g, w) \cup {n}
      /\ OnWay(g, w) = {} => old = R!NoRx
      /\ OnWay(g, w) # {} => old = WayOf(g, w)
  BY DEF MoreOnWay
<1>1. PICK A : A = OnWay(g, w)
  OBVIOUS
<1>2. PICK B : B = OnWay(k, w)
  OBVIOUS
<1>3. PICK f : f = Strengths(k)
  OBVIOUS
<1>4. PICK snr : snr = k[n].line.snr
  OBVIOUS
<1>5. /\ B = A \cup {n} /\ n \notin A /\ IsFiniteSet(A) /\ IsFiniteSet(B) /\ Cardinality(A) \in Nat
      /\ \A i \in B : f[i] \in Int
      /\ f[n] = snr /\ snr \in Int /\ \A i \in A : f[i] = Strengths(g)[i]
  <2>1. B = A \cup {n} /\ n \notin A /\ IsFiniteSet(A) /\ IsFiniteSet(B) /\ Cardinality(A) \in Nat
    BY <1>0, <1>1, <1>2, OnWayIs
  <2>2. \A i \in B : f[i] = k[i].line.snr /\ k[i].line.snr \in Int
    BY <1>0, <1>2, <1>3, OnWayIs
  <2>3. \A i \in A : Strengths(g)[i] = g[i].line.snr /\ k[i] = g[i]
    BY <1>0, <1>1, OnWayIs DEF Extends
  <2> QED BY <2>1, <2>2, <2>3, <1>4
<1>6. WayOf(k, w) = [count |-> Cardinality(B), sum |-> R!SumFunctionOnSet(f, B),
                     best |-> R!Max({f[i] : i \in B})]
  BY <1>2, <1>3 DEF WayOf
<1>7. Cardinality(B) = Cardinality(A) + 1
  BY <1>5, FS_AddElement
<1>8. R!SumFunctionOnSet(f, B) = snr + R!SumFunctionOnSet(f, A)
  <2>1. R!SumFunctionOnSet(f, B) = f[n] + R!SumFunctionOnSet(f, B \ {n})
    BY <1>5, SumRest
  <2>2. B \ {n} = A
    BY <1>5
  <2> QED BY <2>1, <2>2, <1>5
<1>9. CASE A = {}
  <2>1. Cardinality(B) = 1
    BY <1>5, <1>7, <1>9, FS_EmptySet
  <2>2. R!SumFunctionOnSet(f, A) = 0
    BY <1>5, <1>9, SumRest
  <2>3. R!Max({f[i] : i \in B}) = snr
    <3>1. PICK S : S = {f[i] : i \in B}
      OBVIOUS
    <3>2. B = {n}
      BY <1>5, <1>9
    <3>3. S = {snr}
      BY <3>1, <3>2, <1>5
    <3>4. S \subseteq Int /\ snr \in S /\ \A y \in S : y <= snr
      BY <3>3, <1>5
    <3> QED BY <3>1, <3>4, MaxIs
  <2>4. old = R!NoRx
    BY <1>0, <1>1, <1>9
  <2>5. old.count = 0 /\ old.sum = 0
    BY <2>4 DEF R!NoRx
  <2>6. R!addRx(old, snr) = [count |-> old.count + 1, sum |-> old.sum + snr, best |-> snr]
    BY <2>5 DEF R!addRx
  <2>7. old.count + 1 = 1 /\ old.sum + snr = snr /\ snr + 0 = snr
    BY <2>5, <1>5
  <2> QED BY <2>1, <2>2, <2>3, <2>6, <2>7, <1>4, <1>6, <1>8
<1>10. CASE A # {}
  <2>1. PICK i \in A : \A j \in A : f[j] <= f[i]
    <3>1. \A j \in A : f[j] \in Int
      BY <1>5
    <3> QED BY <3>1, <1>5, <1>10, Strongest
  <2>2. PICK m : m = f[i]
    OBVIOUS
  <2>3. m \in Int /\ \A j \in A : f[j] \in Int /\ f[j] <= m
    BY <2>1, <2>2, <1>5
  <2>4. R!Max({Strengths(g)[j] : j \in A}) = m
    <3>1. {Strengths(g)[j] : j \in A} = {f[j] : j \in A}
      BY <1>5
    <3>2. PICK S : S = {f[j] : j \in A}
      OBVIOUS
    <3>3. S \subseteq Int /\ m \in S /\ \A y \in S : y <= m
      BY <3>2, <2>1, <2>2, <2>3
    <3> QED BY <3>1, <3>2, <3>3, MaxIs
  <2>5. R!SumFunctionOnSet(f, A) = R!SumFunctionOnSet(Strengths(g), A)
    BY <1>5, SumSame
  <2>6. R!SumFunctionOnSet(f, A) \in Int
    <3>1. \A j \in A : f[j] \in Int
      BY <1>5
    <3> QED BY <3>1, <1>5, SumRest
  <2>7. /\ old.count = Cardinality(A) /\ old.sum = R!SumFunctionOnSet(f, A) /\ old.best = m
    BY <1>0, <1>1, <1>10, <2>4, <2>5 DEF WayOf
  <2>8. old.count # 0
    BY <2>7, <1>5, <1>10, FS_EmptySet
  <2>9. R!Max({f[j] : j \in B}) = R!Max({snr, m})
    <3>1. PICK S : S = {f[j] : j \in B}
      OBVIOUS
    <3>2. PICK T : T = {snr, m}
      OBVIOUS
    <3>3. S \subseteq Int /\ T \subseteq Int /\ snr \in S /\ m \in S /\ snr \in T /\ m \in T
      BY <3>1, <3>2, <2>1, <2>2, <2>3, <1>5
    <3>4. \A y \in S : y = snr \/ y <= m
      BY <3>1, <2>3, <1>5
    <3>5. CASE snr <= m
      <4>1. (\A y \in S : y <= m) /\ (\A y \in T : y <= m)
        BY <3>2, <3>4, <3>5, <2>3
      <4> QED BY <3>1, <3>2, <3>3, <4>1, MaxIs
    <3>6. CASE ~ (snr <= m)
      <4>1. \A y \in S : y <= snr
        BY <3>3, <3>4, <3>6, <2>3
      <4>2. \A y \in T : y <= snr
        BY <3>2, <3>6, <2>3, <1>5
      <4> QED BY <3>1, <3>2, <3>3, <4>1, <4>2, MaxIs
    <3> QED BY <3>5, <3>6
  <2>10. snr + R!SumFunctionOnSet(f, A) = R!SumFunctionOnSet(f, A) + snr
    BY <2>6, <1>5
  <2> QED BY <2>7, <2>8, <2>9, <2>10, <1>4, <1>6, <1>7, <1>8 DEF R!addRx
<1> QED BY <1>9, <1>10

(* A line that is no packet, or has no sender.                              *)
LEMMA SendersSame ==
  ASSUME NEW s, NEW g \in Seq(LogEntry), SendersOK(s, g), NEW e \in LogEntry,
         ~ (e.line.kind = "rx" /\ e.line.from # 0), NEW k, k = Append(g, e)
  PROVE  SendersOK(s, k)
<1>1. PICK n : n = Len(g) + 1
  OBVIOUS
<1>2. /\ k \in Seq(LogEntry) /\ k[n] = e /\ DOMAIN k = DOMAIN g \cup {n} /\ n \notin DOMAIN g
      /\ \A i \in DOMAIN g : k[i] = g[i]
  BY <1>1, LogMore
<1>3. Received(k) = Received(g) /\ Received(g) \subseteq DOMAIN g
  BY <1>2 DEF Received, Said
<1>4. ASSUME NEW w PROVE WayOf(k, w) = WayOf(g, w)
  <2>1. OnWay(k, w) = OnWay(g, w)
    BY <1>2, <1>3 DEF OnWay
  <2> QED BY <2>1, <1>2, WaySame
<1>5. {Way(k[i].line) : i \in Received(k)} = {Way(g[i].line) : i \in Received(g)}
  BY <1>2, <1>3
<1> QED BY <1>4, <1>5 DEF SendersOK

(* u is s with the packet of e counted.                                     *)
SenderMore(s, e, w, old, u) ==
  /\ w = Way(e.line)
  /\ w \in DOMAIN s => old = s[w]
  /\ w \notin DOMAIN s => old = R!NoRx
  /\ DOMAIN u = DOMAIN s \cup {w} /\ u[w] = R!addRx(old, e.line.snr)
  /\ \A x \in DOMAIN s : x # w => u[x] = s[x]

LEMMA SendersMore ==
  ASSUME NEW s, NEW g \in Seq(LogEntry), SendersOK(s, g), NEW e \in LogEntry,
         e.line.kind = "rx", e.line.from # 0, NEW k, Logs(g, e, k),
         NEW w, NEW old, NEW u, SenderMore(s, e, w, old, u)
  PROVE  SendersOK(u, k)
<1>0. /\ w = Way(e.line)
      /\ w \in DOMAIN s => old = s[w]
      /\ w \notin DOMAIN s => old = R!NoRx
      /\ DOMAIN u = DOMAIN s \cup {w} /\ u[w] = R!addRx(old, e.line.snr)
      /\ \A x \in DOMAIN s : x # w => u[x] = s[x]
  BY DEF SenderMore
<1>1. PICK n : n = Len(g) + 1
  OBVIOUS
<1>2. /\ k \in Seq(LogEntry) /\ k[n] = e /\ DOMAIN k = DOMAIN g \cup {n} /\ n \notin DOMAIN g
      /\ \A i \in DOMAIN g : k[i] = g[i]
  BY <1>1, LogMore DEF Logs
<1>3. Received(k) = Received(g) \cup {n} /\ Received(g) \subseteq DOMAIN g
  BY <1>2 DEF Received, Said
<1>4. OnWay(k, w) = OnWay(g, w) \cup {n}
  BY <1>0, <1>2, <1>3 DEF OnWay
<1>5. \A x : x # w => OnWay(k, x) = OnWay(g, x)
  BY <1>0, <1>2, <1>3 DEF OnWay
<1>6. DOMAIN s = {Way(g[i].line) : i \in Received(g)}
  BY DEF SendersOK
<1>7. w \in DOMAIN s <=> OnWay(g, w) # {}
  BY <1>6 DEF OnWay
<1>8. /\ OnWay(g, w) = {} => old = R!NoRx
      /\ OnWay(g, w) # {} => old = WayOf(g, w)
  BY <1>0, <1>7 DEF SendersOK
<1>9. WayOf(k, w) = R!addRx(old, e.line.snr)
  <2>1. WayOf(k, w) = R!addRx(old, k[n].line.snr)
    <3>1. MoreOnWay(g, k, w, n, old)
      BY <1>2, <1>4, <1>8 DEF Extends, MoreOnWay
    <3> QED BY <3>1, WayMore
  <2> QED BY <2>1, <1>2
<1>10. ASSUME NEW x \in DOMAIN s, x # w PROVE u[x] = WayOf(k, x)
  <2>1. u[x] = s[x] /\ s[x] = WayOf(g, x)
    BY <1>0, <1>10 DEF SendersOK
  <2>2. OnWay(k, x) = OnWay(g, x)
    BY <1>5, <1>10
  <2>3. WayOf(k, x) = WayOf(g, x)
    BY <1>2, <2>2, WaySame
  <2> QED BY <2>1, <2>3
<1>11. DOMAIN u = DOMAIN s \cup {w} /\ u[w] = WayOf(k, w)
  BY <1>0, <1>9
<1>12. {Way(k[i].line) : i \in Received(k)} = DOMAIN s \cup {w}
  BY <1>0, <1>2, <1>3, <1>6
<1> QED BY <1>10, <1>11, <1>12 DEF SendersOK

(* What a line adds to the counters.                                        *)
Adds(t, S, u) == Tally(u) /\ \A x : R!Count(u, x) = R!Count(t, x) + Bit(x \in S)

LEMMA CountIs ==
  ASSUME NEW t, Tally(t), NEW x PROVE R!Count(t, x) \in Nat
BY DEF Tally, R!Count, R!BagIn, R!BagToSet

LEMMA TallyIs ==
  ASSUME NEW t, Tally(t), NEW S, NEW u, u = R!(+)(t, R!SetToBag(S))
  PROVE  Adds(t, S, u)
<1>1. PICK o : o = R!SetToBag(S)
  OBVIOUS
<1>2. DOMAIN o = S /\ \A x \in S : o[x] = 1
  BY <1>1 DEF R!SetToBag
<1>3. u = [x \in (DOMAIN t) \cup S |-> (IF x \in DOMAIN t THEN t[x] ELSE 0) + (IF x \in S THEN o[x] ELSE 0)]
  BY <1>1, <1>2 DEF R!(+)
<1>4. DOMAIN u = (DOMAIN t) \cup S
  BY <1>3
<1>5. ASSUME NEW x PROVE R!Count(u, x) = R!Count(t, x) + Bit(x \in S)
  <2>1. R!Count(t, x) = IF x \in DOMAIN t THEN t[x] ELSE 0
    BY DEF R!Count, R!BagIn, R!BagToSet
  <2>2. R!Count(u, x) = IF x \in DOMAIN u THEN u[x] ELSE 0
    BY DEF R!Count, R!BagIn, R!BagToSet
  <2>3. Bit(x \in S) = IF x \in S THEN o[x] ELSE 0
    BY <1>2 DEF Bit
  <2>4. CASE x \in DOMAIN u
    BY <2>1, <2>2, <2>3, <2>4, <1>3, <1>4
  <2>5. CASE x \notin DOMAIN u
    <3>1. R!Count(u, x) = 0 /\ R!Count(t, x) = 0 /\ Bit(x \in S) = 0
      BY <2>1, <2>2, <2>5, <1>4 DEF Bit
    <3> QED BY <3>1
  <2> QED BY <2>4, <2>5
<1>6. Tally(u)
  <2> SUFFICES ASSUME NEW x \in DOMAIN u PROVE u[x] \in Nat
    BY DEF Tally
  <2>1. u[x] = R!Count(u, x)
    BY DEF R!Count, R!BagIn, R!BagToSet
  <2>2. PICK y : y = R!Count(t, x)
    OBVIOUS
  <2>3. PICK z : z = Bit(x \in S)
    OBVIOUS
  <2>4. y \in Nat /\ z \in Nat /\ u[x] = y + z
    BY <2>1, <2>2, <2>3, <1>5, CountIs DEF Bit
  <2>5. y + z \in Nat
    BY <2>4
  <2> QED BY <2>4, <2>5
<1> QED BY <1>5, <1>6 DEF Adds

LEMMA FreqKey ==
  ASSUME NEW l \in RadioLines, NEW b \in Int
  PROVE  <<"freq", b>> \in R!Keys(l) <=> l.kind = "freq" /\ R!FreqBucket(l.hz) = b
<1>1. CASE l.kind = "rx"
  <2>1. R!Keys(l) \subseteq {<<"relay", l.relay>>, <<"max", l.start>>, <<"max", -1>>,
                             <<"hops", l.start - l.limit>>, <<"hops", -1>>}
    BY <1>1 DEF R!Keys
  <2> QED BY <1>1, <2>1
<1>2. CASE l.kind = "reason"
  <2>1. R!Keys(l) = {<<"reason", l.reason>>}
    BY <1>2 DEF R!Keys
  <2> QED BY <1>2, <2>1
<1>3. CASE l.kind = "freq"
  <2>1. R!Keys(l) = {<<"freq", R!FreqBucket(l.hz)>>}
    BY <1>3 DEF R!Keys
  <2> QED BY <1>3, <2>1
<1>4. CASE l.kind = "dupe"
  <2>1. R!Keys(l) = {}
    BY <1>4 DEF R!Keys
  <2> QED BY <1>4, <2>1
<1> QED BY <1>1, <1>2, <1>3, <1>4, LineIs

(* One more line is in its bar.                                             *)
LEMMA BarsMore ==
  ASSUME NEW t, NEW g \in Seq(LogEntry), BarsOK(t, g), NEW e \in LogEntry, NEW k, k = Append(g, e),
         NEW u, Adds(t, R!Keys(e.line), u)
  PROVE  BarsOK(u, k)
<1>1. PICK n : n = Len(g) + 1
  OBVIOUS
<1>2. /\ k[n] = e /\ DOMAIN k = DOMAIN g \cup {n} /\ n \notin DOMAIN g
      /\ \A i \in DOMAIN g : k[i] = g[i]
  BY <1>1, LogMore
<1>3. e.line \in RadioLines
  BY DEF LogEntry
<1>4. ASSUME NEW b \in Int PROVE R!Count(u, <<"freq", b>>) = Cardinality(InBar(k, b))
  <2>1. PICK on \in BOOLEAN : on <=> e.line.kind = "freq" /\ R!FreqBucket(e.line.hz) = b
    OBVIOUS
  <2>2. InBar(k, b) = IF on THEN InBar(g, b) \cup {n} ELSE InBar(g, b)
    BY <2>1, <1>2 DEF InBar, Said
  <2>3. InBar(g, b) \in SUBSET (DOMAIN g)
    BY DEF InBar, Said
  <2>4. Cardinality(InBar(k, b)) = Cardinality(InBar(g, b)) + Bit(on)
    BY <2>2, <2>3, <1>2, OneMore
  <2>5. R!Count(u, <<"freq", b>>) = R!Count(t, <<"freq", b>>) + Bit(<<"freq", b>> \in R!Keys(e.line))
    BY DEF Adds
  <2>6. Bit(<<"freq", b>> \in R!Keys(e.line)) = Bit(on)
    BY <2>1, <1>3, FreqKey DEF Bit
  <2>7. R!Count(t, <<"freq", b>>) = Cardinality(InBar(g, b))
    BY DEF BarsOK
  <2> QED BY <2>4, <2>5, <2>6, <2>7
<1> QED BY <1>4 DEF BarsOK, Adds, Tally

(* A packet, or a duplicate, in the last bucket.                            *)
LastOf(b, now) == b # <<>> /\ b[Len(b)].ts = now

LEMMA LastOnly ==
  ASSUME NEW b, NEW g, NEW now \in Nat, BucketsOK(b, g, now), LastOf(b, now)
  PROVE  /\ b \in Seq(Bucket) /\ Len(b) \in 1 .. Len(b) /\ DOMAIN b = 1 .. Len(b)
         /\ \A i \in 1 .. Len(b) : b[i].ts = now => i = Len(b)
         /\ \A i \in 1 .. Len(b) : b[i] \in Bucket
<1>1. b \in Seq(Bucket) /\ \A i \in 1 .. Len(b) : b[i] \in Bucket
  BY DEF BucketsOK
<1>2. Len(b) \in Nat /\ Len(b) \in 1 .. Len(b)
  BY <1>1, EmptySeq DEF LastOf
<1>3. ASSUME NEW i \in 1 .. Len(b), b[i].ts = now, i # Len(b) PROVE FALSE
  <2>1. i < Len(b)
    BY <1>2, <1>3
  <2>2. b[i].ts < b[Len(b)].ts
    BY <1>2, <2>1 DEF BucketsOK, Rising
  <2> QED BY <2>2, <1>3 DEF LastOf
<1> QED BY <1>1, <1>2, <1>3

LEMMA RxCounted ==
  ASSUME NEW b, NEW g, NEW now \in Nat, BucketsOK(b, g, now), LastOf(b, now),
         NEW e, e.line.kind = "rx", NEW c, c = [b EXCEPT ![Len(b)].rx = @ + 1]
  PROVE  CountsIn(b, e, now, c)
<1>1. PICK m : m = Len(b)
  OBVIOUS
<1>2. /\ b \in Seq(Bucket) /\ m \in 1 .. m /\ DOMAIN b = 1 .. m
      /\ \A i \in 1 .. m : b[i].ts = now => i = m
      /\ \A i \in 1 .. m : b[i] \in Bucket
  BY <1>1, LastOnly
<1>3. PICK y \in Bucket : y = b[m]
  BY <1>2
<1>4. PICK x : x = [y EXCEPT !.rx = @ + 1]
  OBVIOUS
<1>5. c = [b EXCEPT ![m] = x]
  BY <1>1, <1>3, <1>4
<1>6. x \in Bucket /\ x.ts = y.ts /\ x.rx = y.rx + 1 /\ x.dup = y.dup
  <2>1. y.ts \in Nat /\ y.rx \in Nat /\ y.dup \in Nat /\ y.rx + 1 \in Nat
    BY DEF Bucket
  <2>2. x = [ts |-> y.ts, rx |-> y.rx + 1, dup |-> y.dup]
    BY <1>4 DEF Bucket
  <2> QED BY <2>1, <2>2 DEF Bucket
<1>7. c \in Seq(Bucket) /\ Len(c) = m /\ c[m] = x /\ \A i \in 1 .. m : i # m => c[i] = b[i]
  BY <1>1, <1>2, <1>5, <1>6
<1>8. x.rx = y.rx + Extra(e, "rx") /\ x.dup = y.dup + Extra(e, "dupe")
  <2>1. Extra(e, "rx") = 1 /\ Extra(e, "dupe") = 0 /\ y.rx \in Nat /\ y.dup \in Nat
    BY DEF Extra, Bit, Bucket
  <2> QED BY <2>1, <1>6
<1>9. \A i \in 1 .. m : c[i].ts = b[i].ts
  BY <1>3, <1>6, <1>7
<1>10. \A i \in 1 .. m : b[i].ts # now => c[i] = b[i]
  BY <1>1, <1>7 DEF LastOf
<1>11. \A i \in 1 .. m : b[i].ts = now =>
         c[i].rx = b[i].rx + Extra(e, "rx") /\ c[i].dup = b[i].dup + Extra(e, "dupe")
  BY <1>2, <1>3, <1>7, <1>8
<1> QED BY <1>1, <1>7, <1>9, <1>10, <1>11 DEF CountsIn

LEMMA DupeCounted ==
  ASSUME NEW b, NEW g, NEW now \in Nat, BucketsOK(b, g, now), LastOf(b, now),
         NEW e, e.line.kind = "dupe", NEW c, c = [b EXCEPT ![Len(b)].dup = @ + 1]
  PROVE  CountsIn(b, e, now, c)
<1>1. PICK m : m = Len(b)
  OBVIOUS
<1>2. /\ b \in Seq(Bucket) /\ m \in 1 .. m /\ DOMAIN b = 1 .. m
      /\ \A i \in 1 .. m : b[i].ts = now => i = m
      /\ \A i \in 1 .. m : b[i] \in Bucket
  BY <1>1, LastOnly
<1>3. PICK y \in Bucket : y = b[m]
  BY <1>2
<1>4. PICK x : x = [y EXCEPT !.dup = @ + 1]
  OBVIOUS
<1>5. c = [b EXCEPT ![m] = x]
  BY <1>1, <1>3, <1>4
<1>6. x \in Bucket /\ x.ts = y.ts /\ x.rx = y.rx /\ x.dup = y.dup + 1
  <2>1. y.ts \in Nat /\ y.rx \in Nat /\ y.dup \in Nat /\ y.dup + 1 \in Nat
    BY DEF Bucket
  <2>2. x = [ts |-> y.ts, rx |-> y.rx, dup |-> y.dup + 1]
    BY <1>4 DEF Bucket
  <2> QED BY <2>1, <2>2 DEF Bucket
<1>7. c \in Seq(Bucket) /\ Len(c) = m /\ c[m] = x /\ \A i \in 1 .. m : i # m => c[i] = b[i]
  BY <1>1, <1>2, <1>5, <1>6
<1>8. x.rx = y.rx + Extra(e, "rx") /\ x.dup = y.dup + Extra(e, "dupe")
  <2>1. Extra(e, "rx") = 0 /\ Extra(e, "dupe") = 1 /\ y.rx \in Nat /\ y.dup \in Nat
    BY DEF Extra, Bit, Bucket
  <2> QED BY <2>1, <1>6
<1>9. \A i \in 1 .. m : c[i].ts = b[i].ts
  BY <1>3, <1>6, <1>7
<1>10. \A i \in 1 .. m : b[i].ts # now => c[i] = b[i]
  BY <1>1, <1>7 DEF LastOf
<1>11. \A i \in 1 .. m : b[i].ts = now =>
         c[i].rx = b[i].rx + Extra(e, "rx") /\ c[i].dup = b[i].dup + Extra(e, "dupe")
  BY <1>2, <1>3, <1>7, <1>8
<1> QED BY <1>1, <1>7, <1>9, <1>10, <1>11 DEF CountsIn

LEMMA OtherCounted ==
  ASSUME NEW b, NEW g, NEW now \in Nat, BucketsOK(b, g, now), NEW e, e.line.kind \notin {"rx", "dupe"}
  PROVE  CountsIn(b, e, now, b)
<1>1. b \in Seq(Bucket) /\ \A i \in 1 .. Len(b) : b[i] \in Bucket
  BY DEF BucketsOK
<1>2. \A i \in 1 .. Len(b) : b[i].rx \in Nat /\ b[i].dup \in Nat
  BY <1>1 DEF Bucket
<1>3. Extra(e, "rx") = 0 /\ Extra(e, "dupe") = 0
  BY DEF Extra, Bit
<1>4. \A i \in 1 .. Len(b) : b[i].ts = now =>
        b[i].rx = b[i].rx + Extra(e, "rx") /\ b[i].dup = b[i].dup + Extra(e, "dupe")
  BY <1>2, <1>3
<1> QED BY <1>1, <1>4 DEF CountsIn

(* The report's invariant holds at the start and after every step.          *)
LEMMA ReportInit ==
  ASSUME MCInit PROVE ReportInv
<1>1. /\ minute = 0 /\ tick = Short /\ logged = <<>> /\ snapshots = <<>>
      /\ radio = R!newRadioHealthData
      /\ part = "lines" => mix \in LineMixes
  BY DEF MCInit, R!Init
<1>2. /\ DOMAIN radio = RadioFields /\ radio.rx = 0 /\ radio.senders = <<>>
      /\ radio.tally = R!EmptyBag /\ radio.history = <<>>
  <2>1. radio.rx = 0
    BY <1>1 DEF R!newRadioHealthData
  <2>2. radio.senders = <<>>
    BY <1>1 DEF R!newRadioHealthData
  <2>3. radio.tally = R!EmptyBag
    BY <1>1 DEF R!newRadioHealthData
  <2>4. radio.history = <<>>
    BY <1>1 DEF R!newRadioHealthData
  <2>5. DOMAIN radio = RadioFields
    BY <1>1 DEF R!newRadioHealthData, RadioFields
  <2> QED BY <2>1, <2>2, <2>3, <2>4, <2>5
<1>3. Len(logged) = 0 /\ DOMAIN logged = {}
  BY <1>1
<1>4. \A kind : Said(logged, kind) = {}
  BY <1>3 DEF Said
<1>5. LogOK(logged, minute)
  <2>1. logged \in Seq(LogEntry)
    BY <1>1, EmptySeq
  <2> QED BY <2>1, <1>3 DEF LogOK
<1>6. BucketsOK(radio.history, logged, minute)
  <2>1. radio.history \in Seq(Bucket) /\ Len(radio.history) = 0
    BY <1>2, EmptySeq
  <2> QED BY <2>1, <1>3 DEF BucketsOK, Rising, Covers
<1>7. SendersOK(radio.senders, logged)
  <2>1. DOMAIN radio.senders = {} /\ Received(logged) = {}
    BY <1>2, <1>4 DEF Received
  <2> QED BY <2>1 DEF SendersOK
<1>8. BarsOK(radio.tally, logged)
  <2>1. DOMAIN radio.tally = {}
    BY <1>2 DEF R!EmptyBag, R!SetToBag
  <2>2. \A x : R!Count(radio.tally, x) = 0
    BY <2>1 DEF R!Count, R!BagIn, R!BagToSet
  <2>3. \A b : InBar(logged, b) = {}
    BY <1>4 DEF InBar
  <2>4. \A b : Cardinality(InBar(logged, b)) = 0
    BY <2>3, FS_EmptySet
  <2> QED BY <2>1, <2>2, <2>4 DEF BarsOK, Tally
<1>9. SnapshotsOK(snapshots, logged, tick - Short)
  <2>1. snapshots \in Seq(Snap) /\ Len(snapshots) = 0
    BY <1>1, EmptySeq
  <2> QED BY <2>1, <1>1 DEF SnapshotsOK
<1>10. minute \in Nat /\ tick \in Nat /\ minute <= tick /\ tick - Short <= minute
  BY <1>1, WindowsAre
<1>11. radio.rx = Cardinality(Said(logged, "rx"))
  BY <1>2, <1>4, FS_EmptySet
<1> QED BY <1>1, <1>2, <1>5, <1>6, <1>7, <1>8, <1>9, <1>10, <1>11 DEF ReportInv

(* A firmware line.                                                         *)
LEMMA ReportLog ==
  ASSUME ReportInv, NEW l \in RadioLines, R!Log(l), UNCHANGED <<part, mix>>
  PROVE  ReportInv'
<1>1. PICK e : e = [at |-> minute, line |-> l]
  OBVIOUS
<1>2. /\ minute \in Nat /\ LogOK(logged, minute) /\ logged \in Seq(LogEntry)
      /\ BucketsOK(radio.history, logged, minute)
      /\ SendersOK(radio.senders, logged) /\ BarsOK(radio.tally, logged)
      /\ DOMAIN radio = RadioFields /\ radio.rx = Cardinality(Said(logged, "rx"))
      /\ SnapshotsOK(snapshots, logged, tick - Short)
  BY DEF ReportInv, LogOK
<1>3. e \in LogEntry /\ e.at = minute /\ e.line = l
  BY <1>1, <1>2 DEF LogEntry
<1>4. PICK k : k = logged'
  OBVIOUS
<1>5. k = Append(logged, e) /\ minute' = minute /\ snapshots' = snapshots /\ tick' = tick
  BY <1>1, <1>4 DEF R!Log
<1>6. SnapshotsOK(snapshots, k, tick - Short)
  BY <1>2, <1>3, <1>5, SnapshotsStay
<1>7. PICK h : h = radio.history
  OBVIOUS
<1>8. PICK b : b = R!bucketFor(h)
  OBVIOUS
<1>9. BucketsOK(b, logged, minute) /\ LastOf(b, minute)
  BY <1>2, <1>7, <1>8, BucketForIs DEF LastOf
<1>10. PICK q : q = radio'
  OBVIOUS
<1>11. LogOK(k, minute)
  <2>1. /\ k \in Seq(LogEntry) /\ Len(k) = Len(logged) + 1 /\ k[Len(logged) + 1] = e
        /\ \A i \in DOMAIN logged : k[i] = logged[i]
        /\ DOMAIN logged = 1 .. Len(logged)
    BY <1>2, <1>3, <1>5, LogMore, SaidIs
  <2>2. \A i \in 1 .. Len(k) : i = Len(logged) + 1 \/ i \in 1 .. Len(logged)
    BY <2>1
  <2> QED BY <2>1, <2>2, <1>2, <1>3 DEF LogOK
<1>12. Cardinality(Said(k, "rx")) = radio.rx + Bit(l.kind = "rx") /\ radio.rx \in Nat
  <2>1. MoreSaid(logged, e, k)
    BY <1>2, <1>3, <1>5, SaidMore
  <2>2. Said(logged, "rx") \in SUBSET (DOMAIN logged)
    BY DEF Said
  <2>3. Cardinality(Said(k, "rx")) = Cardinality(Said(logged, "rx")) + Bit(e.line.kind = "rx")
    BY <2>1 DEF MoreSaid
  <2> QED BY <2>2, <2>3, <1>2, <1>3, SaidIs
<1> DEFINE Right == /\ DOMAIN q = RadioFields /\ q.rx = Cardinality(Said(k, "rx"))
                    /\ BucketsOK(q.history, k, minute)
                    /\ SendersOK(q.senders, k) /\ BarsOK(q.tally, k)
<1>13. ASSUME NEW t, t = R!(+)(radio.tally, R!SetToBag(R!Keys(l))) PROVE BarsOK(t, k)
  <2>1. Adds(radio.tally, R!Keys(e.line), t)
    BY <1>2, <1>3, <1>13, TallyIs DEF BarsOK, Tally
  <2> QED BY <2>1, <1>2, <1>3, <1>5, BarsMore
<1>14. ASSUME l.kind = "rx", R!AddRawRx(l) PROVE Right
  <2>1. PICK w : w = Way(l)
    OBVIOUS
  <2>2. PICK s : s = radio.senders
    OBVIOUS
  <2>3. PICK old : old = IF w \in DOMAIN s THEN s[w] ELSE R!NoRx
    OBVIOUS
  <2>4. PICK u : u = [x \in DOMAIN s \cup {w} |-> IF x = w THEN R!addRx(old, l.snr) ELSE s[x]]
    OBVIOUS
  <2>5. PICK t : t = R!(+)(radio.tally, R!SetToBag(R!Keys(l)))
    OBVIOUS
  <2>6. PICK c : c = [b EXCEPT ![Len(b)].rx = @ + 1]
    OBVIOUS
  <2>7. q = [radio EXCEPT !.rx = @ + 1, !.mqtt = IF l.mqtt THEN @ + 1 ELSE @, !.tally = t,
                          !.senders = IF l.from = 0 THEN s ELSE u, !.history = c]
    BY <2>1, <2>2, <2>3, <2>4, <2>5, <2>6, <1>7, <1>8, <1>10, <1>14 DEF R!AddRawRx, Way
  <2>8. /\ DOMAIN q = RadioFields /\ q.rx = radio.rx + 1 /\ q.tally = t
        /\ q.senders = (IF l.from = 0 THEN s ELSE u) /\ q.history = c
    BY <2>7, <1>2 DEF RadioFields
  <2>9. q.rx = Cardinality(Said(k, "rx"))
    BY <2>8, <1>12, <1>14 DEF Bit
  <2>10. BucketsOK(c, k, minute)
    <3>1. CountsIn(b, e, minute, c)
      BY <2>6, <1>2, <1>3, <1>9, <1>14, RxCounted
    <3> QED BY <3>1, <1>2, <1>3, <1>5, <1>9, LineCounted DEF Logs, LastOf
  <2>11. CASE l.from = 0
    <3>1. SendersOK(s, k)
      BY <2>2, <2>11, <1>2, <1>3, <1>5, SendersSame
    <3> QED BY <3>1, <2>5, <2>8, <2>9, <2>10, <2>11, <1>13
  <2>12. CASE l.from # 0
    <3>1. w \in DOMAIN s => old = s[w]
      BY <2>3
    <3>2. w \notin DOMAIN s => old = R!NoRx
      BY <2>3
    <3>3. /\ DOMAIN u = DOMAIN s \cup {w} /\ u[w] = R!addRx(old, e.line.snr)
          /\ \A x \in DOMAIN s : x # w => u[x] = s[x]
      BY <2>4, <1>3
    <3>4. SenderMore(s, e, w, old, u)
      BY <3>1, <3>2, <3>3, <2>1, <1>3 DEF SenderMore
    <3>5. SendersOK(u, k)
      <4>1. SendersOK(s, logged) /\ e.line.kind = "rx" /\ e.line.from # 0 /\ Logs(logged, e, k)
        BY <2>2, <2>12, <1>2, <1>3, <1>5, <1>14 DEF Logs
      <4>2. logged \in Seq(LogEntry) /\ e \in LogEntry
        BY <1>2, <1>3
      <4> QED BY <3>4, <4>1, <4>2, SendersMore
    <3> QED BY <3>5, <2>5, <2>8, <2>9, <2>10, <2>12, <1>13
  <2> QED BY <2>11, <2>12
<1>15. ASSUME l.kind = "dupe", R!AddRawDupe PROVE Right
  <2>1. PICK c : c = [b EXCEPT ![Len(b)].dup = @ + 1]
    OBVIOUS
  <2>2. q = [radio EXCEPT !.dup = @ + 1, !.history = c]
    BY <2>1, <1>7, <1>8, <1>10, <1>15 DEF R!AddRawDupe
  <2>3. /\ DOMAIN q = RadioFields /\ q.rx = radio.rx /\ q.tally = radio.tally
        /\ q.senders = radio.senders /\ q.history = c
    BY <2>2, <1>2 DEF RadioFields
  <2>4. q.rx = Cardinality(Said(k, "rx"))
    BY <2>3, <1>12, <1>15 DEF Bit
  <2>5. BucketsOK(c, k, minute)
    <3>1. CountsIn(b, e, minute, c)
      BY <2>1, <1>2, <1>3, <1>9, <1>15, DupeCounted
    <3> QED BY <3>1, <1>2, <1>3, <1>5, <1>9, LineCounted DEF Logs, LastOf
  <2>6. SendersOK(radio.senders, k)
    BY <1>2, <1>3, <1>5, <1>15, SendersSame
  <2>7. BarsOK(radio.tally, k)
    <3>1. R!Keys(l) = {}
      BY <1>15 DEF R!Keys
    <3>2. \A x : R!Count(radio.tally, x) \in Nat
      BY <1>2, CountIs DEF BarsOK, Tally
    <3>3. Adds(radio.tally, R!Keys(e.line), radio.tally)
      BY <3>1, <3>2, <1>2, <1>3 DEF Adds, BarsOK, Tally, Bit
    <3> QED BY <3>3, <1>2, <1>3, <1>5, BarsMore
  <2> QED BY <2>3, <2>4, <2>5, <2>6, <2>7
<1>16. ASSUME l.kind \in {"reason", "freq"}, R!AddToTally(l) PROVE Right
  <2>1. PICK t : t = R!(+)(radio.tally, R!SetToBag(R!Keys(l)))
    OBVIOUS
  <2>2. q = [radio EXCEPT !.tally = t]
    BY <2>1, <1>10, <1>16 DEF R!AddToTally
  <2>3. /\ DOMAIN q = RadioFields /\ q.rx = radio.rx /\ q.tally = t
        /\ q.senders = radio.senders /\ q.history = radio.history
    BY <2>2, <1>2 DEF RadioFields
  <2>4. q.rx = Cardinality(Said(k, "rx"))
    BY <2>3, <1>12, <1>16 DEF Bit
  <2>5. e.line.kind \notin {"rx", "dupe"}
    BY <1>3, <1>16
  <2>6. BucketsOK(radio.history, k, minute)
    <3>1. CountsIn(radio.history, e, minute, radio.history)
      BY <2>5, <1>2, OtherCounted
    <3> QED BY <3>1, <2>5, <1>2, <1>3, <1>5, LineCounted DEF Logs
  <2>7. SendersOK(radio.senders, k)
    BY <2>5, <1>2, <1>3, <1>5, SendersSame
  <2> QED BY <2>1, <2>3, <2>4, <2>6, <2>7, <1>13
<1>17. Right
  BY <1>14, <1>15, <1>16 DEF R!Log
<1>18. (part = "lines" => mix \in LineMixes)' /\ tick \in Nat /\ minute <= tick /\ tick - Short <= minute
  BY DEF ReportInv
<1> QED BY <1>2, <1>4, <1>5, <1>6, <1>10, <1>11, <1>17, <1>18 DEF ReportInv

LEMMA ReportSnapshot ==
  ASSUME ReportInv, R!Snapshot, UNCHANGED <<part, mix>>
  PROVE  ReportInv'
<1>1. SnapshotsOK(snapshots', logged, tick' - Short)
  BY SnapshotTaken
<1>2. minute' = minute /\ radio' = radio /\ logged' = logged /\ minute = tick /\ tick' = tick + Short
  BY DEF R!Snapshot
<1>3. tick' \in Nat /\ minute <= tick' /\ tick' - Short <= minute
  BY <1>2, WindowsAre DEF ReportInv
<1> QED BY <1>1, <1>2, <1>3 DEF ReportInv

LEMMA ReportTick ==
  ASSUME ReportInv, R!Tick, UNCHANGED <<part, mix>>
  PROVE  ReportInv'
<1>1. /\ minute' = minute + 1 /\ minute < tick
      /\ radio' = radio /\ snapshots' = snapshots /\ tick' = tick /\ logged' = logged
  BY DEF R!Tick
<1>2. LogOK(logged, minute + 1) /\ BucketsOK(radio.history, logged, minute + 1)
  BY BucketsAge DEF ReportInv
<1>3. minute + 1 \in Nat /\ minute + 1 <= tick /\ tick - Short <= minute + 1
  BY <1>1, WindowsAre DEF ReportInv
<1> QED BY <1>1, <1>2, <1>3 DEF ReportInv

(* The store's figures are those of the lines logged so far, and a snapshot *)
(* knows no packet of the next one's window (radio.go:184-304).             *)
THEOREM ReportInvariant == MCSpec => []ReportInv
<1>1. MCInit => ReportInv
  BY ReportInit
<1>2. ReportInv /\ [MCNext]_allVars => ReportInv'
  <2> SUFFICES ASSUME ReportInv, [MCNext]_allVars PROVE ReportInv'
    OBVIOUS
  <2>1. CASE UNCHANGED <<radioVars, part, mix>>
    <3>1. /\ minute' = minute /\ radio' = radio /\ snapshots' = snapshots /\ tick' = tick
          /\ logged' = logged /\ part' = part /\ mix' = mix
      BY <2>1 DEF radioVars
    <3> QED BY <3>1 DEF ReportInv
  <2>2. ASSUME part = "lines", (\E l \in mix : R!Log(l)) \/ R!Snapshot \/ R!Tick, UNCHANGED <<part, mix>>
        PROVE  ReportInv'
    <3>1. ASSUME NEW l \in mix, R!Log(l) PROVE ReportInv'
      <4>1. l \in RadioLines
        BY <2>2, <3>1 DEF ReportInv, RadioLines
      <4> QED BY <2>2, <3>1, <4>1, ReportLog
    <3> QED BY <2>2, <3>1, ReportSnapshot, ReportTick
  <2> QED BY <2>1, <2>2 DEF MCNext, allVars
<1> QED BY <1>1, <1>2, PTL DEF MCSpec

(* The trend chart counts no packet twice: what a snapshot says of its last *)
(* minutes came after the snapshot before it (app.go:758-775, db/radio.go). *)
THEOREM SnapshotsCorrect == MCSpec => []SnapshotsDisjoint
<1>1. ReportInv => SnapshotsDisjoint
  BY DEF ReportInv, SnapshotsOK, SnapshotsDisjoint, R!SnapshotsDisjoint
<1> QED BY <1>1, ReportInvariant, PTL
----------------------------------------------------------------------------
(* The report, figure by figure.                                            *)
LEMMA SameCardinality == \A S : R!Cardinality(S) = Cardinality(S)
BY DEF R!Cardinality, Cardinality

LEMMA FiniteImage ==
  ASSUME NEW S, IsFiniteSet(S), NEW f PROVE IsFiniteSet({f[x] : x \in S})
<1>1. PICK T : T = {f[x] : x \in S}
  OBVIOUS
<1>2. PICK g : g = [x \in S |-> f[x]]
  OBVIOUS
<1>3. g \in Surjection(S, T)
  BY <1>1, <1>2 DEF Surjection
<1>4. IsFiniteSet(T)
  BY <1>3, FS_Surjection
<1> QED BY <1>1, <1>4

LEMMA WindowsRight ==
  ASSUME ReportInv PROVE R!WindowsExact
<1>1. PICK h : h = radio.history
  OBVIOUS
<1>2. minute \in Nat /\ LogOK(logged, minute) /\ BucketsOK(h, logged, minute)
  BY <1>1 DEF ReportInv
<1>3. ASSUME NEW n \in {Short, Long}
      PROVE  /\ R!RxIn(R!Buckets(n)) = Cardinality(SaidIn(logged, "rx", minute, n))
             /\ R!DupIn(R!Buckets(n)) = Cardinality(SaidIn(logged, "dupe", minute, n))
  <2>1. n \in Nat /\ n <= Long
    BY WindowsAre
  <2>2. PICK W : W = {i \in DOMAIN h : minute - h[i].ts < n}
    OBVIOUS
  <2>3. W = R!Buckets(n)
    BY <2>2, <1>1 DEF R!Buckets
  <2>4. \A i \in W : Counted(h[i], logged)
    <3>1. \A i \in W : i \in 1 .. Len(h)
      BY <2>2, <1>2 DEF BucketsOK
    <3> QED BY <3>1, <1>2 DEF BucketsOK
  <2>5. R!RxIn(W) = Cardinality(SaidIn(logged, "rx", minute, n))
    <3>1. PICK f : f = [i \in W |-> h[i].rx]
      OBVIOUS
    <3>2. \A i \in W : f[i] = Cardinality(SaidAt(logged, "rx", h[i].ts))
      BY <3>1, <2>4 DEF Counted
    <3>3. R!SumFunctionOnSet(f, W) = Cardinality(SaidIn(logged, "rx", minute, n))
      BY <3>2, <2>1, <2>2, <1>2, WindowIs
    <3>4. R!RxIn(W) = R!SumFunction(f) /\ DOMAIN f = W
      BY <3>1, <1>1 DEF R!RxIn
    <3> QED BY <3>3, <3>4, SumIsOnAll
  <2>6. R!DupIn(W) = Cardinality(SaidIn(logged, "dupe", minute, n))
    <3>1. PICK f : f = [i \in W |-> h[i].dup]
      OBVIOUS
    <3>2. \A i \in W : f[i] = Cardinality(SaidAt(logged, "dupe", h[i].ts))
      BY <3>1, <2>4 DEF Counted
    <3>3. R!SumFunctionOnSet(f, W) = Cardinality(SaidIn(logged, "dupe", minute, n))
      BY <3>2, <2>1, <2>2, <1>2, WindowIs
    <3>4. R!DupIn(W) = R!SumFunction(f) /\ DOMAIN f = W
      BY <3>1, <1>1 DEF R!DupIn
    <3> QED BY <3>3, <3>4, SumIsOnAll
  <2> QED BY <2>3, <2>5, <2>6
<1>4. \A n : /\ SaidIn(logged, "rx", minute, n) = R!Logged(R!IsRx) \cap R!Recent(n)
             /\ SaidIn(logged, "dupe", minute, n) = R!Logged(R!IsDupe) \cap R!Recent(n)
  BY DEF SaidIn, Said, R!Logged, R!Recent, R!IsRx, R!IsDupe
<1> QED BY <1>3, <1>4, SameCardinality DEF R!WindowsExact

LEMMA SendersRight ==
  ASSUME ReportInv PROVE R!SendersExact
<1> DEFINE H    == {i \in R!Logged(R!IsRx) : logged[i].line.from # 0}
           O(k) == {i \in H : <<logged[i].line.from, logged[i].line.relay>> = k}
<1>1. PICK s : s = radio.senders
  OBVIOUS
<1>2. SendersOK(s, logged) /\ logged \in Seq(LogEntry)
  BY <1>1 DEF ReportInv, LogOK
<1>3. H = Received(logged)
  BY DEF R!Logged, R!IsRx, Received, Said
<1>4. \A k : O(k) = OnWay(logged, k)
  BY <1>3 DEF OnWay, Way
<1> HIDE DEF H
<1>5. DOMAIN s = {<<logged[i].line.from, logged[i].line.relay>> : i \in H}
  BY <1>2, <1>3 DEF SendersOK, Way
<1> HIDE DEF O
<1>6. ASSUME NEW k \in DOMAIN s
      PROVE  s[k] = [count |-> Cardinality(O(k)),
                     sum |-> R!SumFunction([i \in O(k) |-> logged[i].line.snr]),
                     best |-> R!Max({logged[i].line.snr : i \in O(k)})]
  <2>1. PICK A : A = OnWay(logged, k)
    OBVIOUS
  <2>2. s[k] = WayOf(logged, k)
    BY <1>2 DEF SendersOK
  <2>3. IsFiniteSet(A) /\ \A i \in A : Strengths(logged)[i] = logged[i].line.snr
    BY <2>1, <1>2, OnWayIs
  <2>4. PICK f : f = [i \in A |-> logged[i].line.snr]
    OBVIOUS
  <2>5. R!SumFunction(f) = R!SumFunctionOnSet(f, A)
    <3>1. DOMAIN f = A
      BY <2>4
    <3> QED BY <3>1, SumIsOnAll
  <2>6. R!SumFunctionOnSet(f, A) = R!SumFunctionOnSet(Strengths(logged), A)
    <3>1. \A i \in A : f[i] = Strengths(logged)[i]
      BY <2>3, <2>4
    <3> QED BY <3>1, <2>3, SumSame
  <2>7. {logged[i].line.snr : i \in A} = {Strengths(logged)[i] : i \in A}
    BY <2>3
  <2>8. O(k) = A
    BY <1>4, <2>1
  <2> QED BY <2>1, <2>2, <2>4, <2>5, <2>6, <2>7, <2>8 DEF WayOf
<1>7. radio.senders = s
  BY <1>1
<1> QED BY <1>5, <1>6, <1>7, SameCardinality DEF R!SendersExact, H, O

(* The strongest packet of a way, and of a sender.                          *)
LEMMA BestIs ==
  ASSUME ReportInv, NEW k \in DOMAIN radio.senders
  PROVE  /\ radio.senders[k].best \in Int
         /\ \E i \in OnWay(logged, k) : logged[i].line.snr = radio.senders[k].best
         /\ \A j \in OnWay(logged, k) : logged[j].line.snr <= radio.senders[k].best
<1>1. SendersOK(radio.senders, logged) /\ logged \in Seq(LogEntry)
  BY DEF ReportInv, LogOK
<1>2. PICK A : A = OnWay(logged, k)
  OBVIOUS
<1>3. PICK f : f = Strengths(logged)
  OBVIOUS
<1>4. IsFiniteSet(A) /\ \A i \in A : f[i] = logged[i].line.snr /\ f[i] \in Int
  BY <1>1, <1>2, <1>3, OnWayIs
<1>5. A # {}
  BY <1>1, <1>2 DEF SendersOK, OnWay
<1>6. PICK i \in A : \A j \in A : f[j] <= f[i]
  <2>1. \A j \in A : f[j] \in Int
    BY <1>4
  <2> QED BY <2>1, <1>4, <1>5, Strongest
<1>7. PICK m : m = f[i]
  OBVIOUS
<1>8. PICK S : S = {f[j] : j \in A}
  OBVIOUS
<1>9. S \subseteq Int /\ m \in S /\ \A y \in S : y <= m
  BY <1>4, <1>6, <1>7, <1>8
<1>10. R!Max(S) = m
  BY <1>9, MaxIs
<1>11. radio.senders[k].best = m
  <2>1. radio.senders[k] = WayOf(logged, k)
    BY <1>1 DEF SendersOK
  <2> QED BY <2>1, <1>2, <1>3, <1>8, <1>10 DEF WayOf
<1> QED BY <1>2, <1>4, <1>6, <1>7, <1>9, <1>11

(* Who sent packets, over which relays.                                     *)
SentBy(f) == {i \in Received(logged) : logged[i].line.from = f}

LEMMA SendersAre ==
  ASSUME ReportInv
  PROVE  /\ \A f \in R!Senders : f # 0 /\ \E i \in Received(logged) : logged[i].line.from = f
         /\ \A f, r : r \in R!RelaysOf(f) <=> <<f, r>> \in DOMAIN radio.senders
         /\ \A i \in Received(logged) :
              <<logged[i].line.from, logged[i].line.relay>> \in DOMAIN radio.senders
<1>1. DOMAIN radio.senders = {Way(logged[i].line) : i \in Received(logged)}
  BY DEF ReportInv, SendersOK
<1>2. \A i \in Received(logged) : logged[i].line.from # 0
  BY DEF Received
<1>3. \A k \in DOMAIN radio.senders : k = <<k[1], k[2]>>
  BY <1>1 DEF Way
<1>4. \A f \in R!Senders : f # 0 /\ \E i \in Received(logged) : logged[i].line.from = f
  BY <1>1, <1>2 DEF R!Senders, Way
<1>5. ASSUME NEW f, NEW r PROVE r \in R!RelaysOf(f) <=> <<f, r>> \in DOMAIN radio.senders
  <2>1. ASSUME r \in R!RelaysOf(f) PROVE <<f, r>> \in DOMAIN radio.senders
    <3>1. PICK k \in DOMAIN radio.senders : k[1] = f /\ k[2] = r
      BY <2>1 DEF R!RelaysOf
    <3> QED BY <3>1, <1>3
  <2>2. ASSUME <<f, r>> \in DOMAIN radio.senders PROVE r \in R!RelaysOf(f)
    <3>1. PICK k : k = <<f, r>>
      OBVIOUS
    <3>2. k \in DOMAIN radio.senders /\ k[1] = f /\ k[2] = r
      BY <2>2, <3>1
    <3> QED BY <3>2 DEF R!RelaysOf
  <2> QED BY <2>1, <2>2
<1>6. \A i \in Received(logged) :
        <<logged[i].line.from, logged[i].line.relay>> \in DOMAIN radio.senders
  BY <1>1 DEF Way
<1> QED BY <1>4, <1>5, <1>6

LEMMA WaysFinite ==
  ASSUME ReportInv PROVE IsFiniteSet(DOMAIN radio.senders)
<1>1. PICK A : A = Received(logged)
  OBVIOUS
<1>2. PICK f : f = [i \in A |-> Way(logged[i].line)]
  OBVIOUS
<1>3. IsFiniteSet(A)
  <2>1. logged \in Seq(LogEntry) /\ A \in SUBSET (DOMAIN logged)
    BY <1>1 DEF ReportInv, LogOK, Received, Said
  <2> QED BY <2>1, SaidIs
<1>4. DOMAIN radio.senders = {f[i] : i \in A}
  BY <1>1, <1>2 DEF ReportInv, SendersOK
<1> QED BY <1>3, <1>4, FiniteImage

(* A best relay carried a packet that no other of the sender beats.         *)
LEMMA BestCarried ==
  ASSUME ReportInv, NEW f, NEW r \in R!BestRelays(f)
  PROVE  \E i \in SentBy(f) :
           /\ logged[i].line.relay = r
           /\ \A j \in SentBy(f) : logged[j].line.snr <= logged[i].line.snr
<1>1. PICK s : s = radio.senders
  OBVIOUS
<1>2. <<f, r>> \in DOMAIN s
  BY <1>1, SendersAre DEF R!BestRelays
<1>3. PICK m : m = s[<<f, r>>].best
  OBVIOUS
<1>4. m \in Int
  BY <1>1, <1>2, <1>3, BestIs
<1>5. PICK i \in OnWay(logged, <<f, r>>) : logged[i].line.snr = m
  BY <1>1, <1>2, <1>3, BestIs
<1>6. i \in SentBy(f) /\ logged[i].line.relay = r
  BY DEF OnWay, Way, SentBy
<1>7. ASSUME NEW j \in SentBy(f) PROVE logged[j].line.snr <= m
  <2>1. PICK q : q = logged[j].line.relay
    OBVIOUS
  <2>2. j \in Received(logged) /\ logged[j].line.from = f
    BY DEF SentBy
  <2>3. <<f, q>> \in DOMAIN s /\ j \in OnWay(logged, <<f, q>>)
    BY <2>1, <2>2, <1>1, SendersAre DEF OnWay, Way
  <2>4. PICK n : n = s[<<f, q>>].best
    OBVIOUS
  <2>5. n \in Int /\ logged[j].line.snr <= n
    BY <2>3, <2>4, <1>1, BestIs
  <2>6. n <= m
    <3>1. q \in R!RelaysOf(f)
      BY <2>3, <1>1, SendersAre
    <3> QED BY <3>1, <2>4, <1>1, <1>3 DEF R!BestRelays, R!Strength
  <2>7. logged[j].line.snr \in Int
    <3>1. logged \in Seq(LogEntry)
      BY DEF ReportInv, LogOK
    <3> QED BY <3>1, <2>3, OnWayIs
  <2>8. PICK x : x = logged[j].line.snr
    OBVIOUS
  <2>9. x \in Int /\ x <= n
    BY <2>5, <2>7, <2>8
  <2>10. x <= m
    BY <2>5, <2>6, <2>9, <1>4
  <2> QED BY <2>8, <2>10
<1> QED BY <1>5, <1>6, <1>7

(* A best relay does not trail behind another.                              *)
LEMMA LeadIs ==
  ASSUME ReportInv, NEW f, NEW r \in R!BestRelays(f)
  PROVE  R!Lead(f, r) \in Nat
<1>1. PICK o : o = R!RelaysOf(f) \ {r}
  OBVIOUS
<1>2. PICK g : g = [q \in o |-> R!Strength(f, q)]
  OBVIOUS
<1>3. PICK m : m = R!Strength(f, r)
  OBVIOUS
<1>4. \A q \in R!RelaysOf(f) : R!Strength(f, q) \in Int /\ R!Strength(f, q) <= m
  <2> SUFFICES ASSUME NEW q \in R!RelaysOf(f)
               PROVE  R!Strength(f, q) \in Int /\ R!Strength(f, q) <= m
    OBVIOUS
  <2>1. <<f, q>> \in DOMAIN radio.senders
    BY SendersAre
  <2>2. R!Strength(f, q) \in Int
    BY <2>1, BestIs DEF R!Strength
  <2> QED BY <2>2, <1>3 DEF R!BestRelays
<1>5. m \in Int
  <2>1. r \in R!RelaysOf(f)
    BY DEF R!BestRelays
  <2> QED BY <2>1, <1>3, <1>4
<1>6. IsFiniteSet(o)
  <2>1. PICK s : s = DOMAIN radio.senders
    OBVIOUS
  <2>2. IsFiniteSet(s)
    BY <2>1, WaysFinite
  <2>3. PICK u : u = {x \in s : x[1] = f}
    OBVIOUS
  <2>4. IsFiniteSet(u)
    BY <2>2, <2>3, FS_Subset
  <2>5. PICK e : e = [x \in u |-> x[2]]
    OBVIOUS
  <2>6. {e[x] : x \in u} = {x[2] : x \in u}
    BY <2>5
  <2>7. IsFiniteSet({e[x] : x \in u})
    BY <2>4, FiniteImage
  <2>8. R!RelaysOf(f) = {x[2] : x \in u}
    BY <2>1, <2>3 DEF R!RelaysOf
  <2>9. IsFiniteSet(R!RelaysOf(f))
    BY <2>6, <2>7, <2>8
  <2> QED BY <2>9, <1>1, FS_Subset
<1>7. CASE o = {}
  BY <1>1, <1>7 DEF R!Lead
<1>8. CASE o # {}
  <2>1. PICK q \in o : \A p \in o : g[p] <= g[q]
    <3>1. \A p \in o : g[p] \in Int
      BY <1>1, <1>2, <1>4
    <3> QED BY <3>1, <1>6, <1>8, Strongest
  <2>2. PICK n : n = g[q]
    OBVIOUS
  <2>3. PICK S : S = {R!Strength(f, p) : p \in o}
    OBVIOUS
  <2>4. S \subseteq Int /\ n \in S /\ (\A y \in S : y <= n) /\ n <= m
    BY <2>1, <2>2, <2>3, <1>1, <1>2, <1>4
  <2>5. R!Max(S) = n
    BY <2>4, MaxIs
  <2>6. R!Lead(f, r) = m - n
    BY <2>3, <2>5, <1>1, <1>3, <1>8 DEF R!Lead
  <2>7. m - n \in Nat
    BY <2>4, <1>5
  <2> QED BY <2>6, <2>7
<1> QED BY <1>7, <1>8

LEMMA CandidatesRight ==
  ASSUME ReportInv PROVE R!CandidatesExact
<1> DEFINE Sent(f) == {i \in R!Logged(R!IsRx) : logged[i].line.from = f}
           Top(f) == {logged[i].line.relay : i \in {j \in Sent(f) :
                        \A k \in Sent(f) : logged[k].line.snr <= logged[j].line.snr}}
<1> SUFFICES ASSUME NEW best \in R!BestChoices, NEW r
             PROVE  /\ {f \in R!Senders : Top(f) = {r}} \subseteq R!BestFor(r, best)
                    /\ R!BestFor(r, best) \subseteq {f \in R!Senders : r \in Top(f)}
                    /\ R!Advantage(r, best) >= 0
  BY DEF R!CandidatesExact
<1>1. \A f \in R!Senders : best[f] \in R!BestRelays(f)
  BY DEF R!BestChoices
<1>2. ASSUME NEW f \in R!Senders PROVE best[f] \in Top(f)
  <2>1. Sent(f) = SentBy(f)
    <3>1. f # 0
      BY SendersAre
    <3> QED BY <3>1 DEF R!Logged, R!IsRx, SentBy, Received, Said
  <2>2. PICK i \in SentBy(f) : /\ logged[i].line.relay = best[f]
                               /\ \A j \in SentBy(f) : logged[j].line.snr <= logged[i].line.snr
    BY <1>1, BestCarried
  <2> QED BY <2>1, <2>2
<1>3. R!BestFor(r, best) = {f \in R!Senders : best[f] = r}
  BY DEF R!BestFor
<1> HIDE DEF Top
<1>4. R!Advantage(r, best) >= 0
  <2>1. PICK B : B = R!BestFor(r, best)
    OBVIOUS
  <2>2. PICK g : g = [f \in B |-> R!Lead(f, r)]
    OBVIOUS
  <2>3. IsFiniteSet(B)
    <3>1. PICK s : s = DOMAIN radio.senders
      OBVIOUS
    <3>2. PICK e : e = [x \in s |-> x[1]]
      OBVIOUS
    <3>3. {e[x] : x \in s} = R!Senders
      BY <3>1, <3>2 DEF R!Senders
    <3>4. IsFiniteSet({e[x] : x \in s})
      BY <3>1, WaysFinite, FiniteImage
    <3>5. B \subseteq R!Senders /\ IsFiniteSet(R!Senders)
      BY <3>3, <3>4, <2>1, <1>3
    <3> QED BY <3>5, FS_Subset
  <2>4. \A f \in B : g[f] \in Nat
    <3> SUFFICES ASSUME NEW f \in B PROVE g[f] \in Nat
      OBVIOUS
    <3>1. f \in R!Senders /\ best[f] = r
      BY <2>1, <1>3
    <3>2. r \in R!BestRelays(f)
      BY <3>1, <1>1
    <3>3. R!Lead(f, r) \in Nat
      BY <3>2, LeadIs
    <3> QED BY <3>3, <2>2
  <2>5. R!SumFunctionOnSet(g, B) \in Nat
    BY <2>3, <2>4, SumNat
  <2>6. R!Advantage(r, best) = R!SumFunction(g) /\ DOMAIN g = B
    BY <2>1, <2>2 DEF R!Advantage
  <2>7. R!SumFunction(g) = R!SumFunctionOnSet(g, B)
    BY <2>6, SumIsOnAll
  <2>8. PICK x : x = R!Advantage(r, best)
    OBVIOUS
  <2>9. x \in Nat
    BY <2>5, <2>6, <2>7, <2>8
  <2> QED BY <2>8, <2>9
<1> QED BY <1>2, <1>3, <1>4

LEMMA BarIs ==
  ASSUME NEW hz \in Int, NEW b \in Int
  PROVE  R!FreqBucket(hz) = b <=> 100 * b <= hz /\ hz < 100 * b + 100
<1>1. CASE hz >= 0
  <2>1. R!FreqBucket(hz) = hz \div 100
    BY <1>1 DEF R!FreqBucket, R!CutToZero
  <2>2. PICK q \in Int : q = hz \div 100
    OBVIOUS
  <2>3. 100 * q <= hz /\ hz < 100 * q + 100
    BY <2>2
  <2> QED BY <2>1, <2>2, <2>3
<1>2. CASE hz < 0
  <2>1. PICK q \in Int : q = (-hz) \div 100
    OBVIOUS
  <2>2. 100 * q <= -hz /\ -hz < 100 * q + 100
    BY <2>1
  <2>3. R!CutToZero(hz, 100) = -q
    BY <2>1, <1>2 DEF R!CutToZero
  <2>4. R!FreqBucket(hz) = IF (-q) * 100 # hz THEN (-q) - 1 ELSE -q
    BY <2>3, <1>2 DEF R!FreqBucket
  <2> QED BY <2>2, <2>4
<1> QED BY <1>1, <1>2

LEMMA OffsetsRight ==
  ASSUME ReportInv PROVE R!OffsetsInBars
<1>1. logged \in Seq(LogEntry) /\ BarsOK(radio.tally, logged)
  BY DEF ReportInv, LogOK
<1>2. ASSUME NEW b \in -3 .. 3
      PROVE  InBar(logged, b) = {i \in DOMAIN logged : /\ logged[i].line.kind = "freq"
                                                       /\ 100 * b <= logged[i].line.hz
                                                       /\ logged[i].line.hz < 100 * b + 100}
  <2>1. ASSUME NEW i \in DOMAIN logged, logged[i].line.kind = "freq"
        PROVE  R!FreqBucket(logged[i].line.hz) = b <=>
                 100 * b <= logged[i].line.hz /\ logged[i].line.hz < 100 * b + 100
    <3>1. logged[i] \in LogEntry
      BY <1>1
    <3>2. logged[i].line \in RadioLines
      BY <3>1 DEF LogEntry
    <3>3. logged[i].line.hz \in Int
      BY <3>2, <2>1, LineIs
    <3>4. b \in Int
      OBVIOUS
    <3> QED BY <3>3, <3>4, BarIs
  <2> QED BY <2>1 DEF InBar, Said
<1>3. \A b \in -3 .. 3 : R!Count(radio.tally, <<"freq", b>>) = Cardinality(InBar(logged, b))
  <2>1. \A b \in -3 .. 3 : b \in Int
    OBVIOUS
  <2> QED BY <2>1, <1>1 DEF BarsOK
<1> QED BY <1>2, <1>3, SameCardinality DEF R!OffsetsInBars, R!Logged

(* Every figure of the report is that of the lines logged: both windows,    *)
(* the senders by relay, the ranking of the relays and the bars of the      *)
(* histogram (radio.go:308-564).                                            *)
THEOREM HealthCorrect == MCSpec => []HealthIsExact
<1>1. ReportInv => HealthIsExact
  BY WindowsRight, SendersRight, CandidatesRight, OffsetsRight DEF HealthIsExact, R!HealthIsExact
<1> QED BY <1>1, ReportInvariant, PTL
=============================================================================
