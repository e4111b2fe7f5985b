------------------------------ MODULE Anomalies ------------------------------
(***************************************************************************)
(* The anomaly detectors that Add runs on every packet with a sender.      *)
(* Each keeps the little it needs (times it trims, last values, first      *)
(* sightings it collects when there are many) and calls flagAnomaly, which *)
(* drops what it flagged recently.  The reference definitions further down *)
(* say of the whole reception history when a detector has to fire.         *)
(* A message without a sender does not reach the detectors.                *)
(***************************************************************************)
EXTENDS Integers, FiniteSets, Sequences, SequencesExt

CONSTANTS
  Packets,    (* what may be received                                      *)
  Loaded,     (* nodes known otherwise: from the database, or the radio    *)
  Byte,       (* the last byte of every node number                        *)
  Km,         (* distance between two positions                            *)
  Window,     (* the detectors' time windows, a record                     *)
  Limit,      (* their thresholds, a record                                *)
  Dedup,      (* flagAnomaly's window for every kind of anomaly            *)
  RingSize,   (* 200                                                       *)
  MaxKeys,    (* packet ids kept before a collection: 8192                 *)
  MaxTime,    (* bound: the clock                                          *)
  MaxHeard    (* bound: packets since the start                            *)

Kinds == {"spammer", "snr_jump", "routing_loop", "ghost_relay", "mqtt_mirror", "cross_channel",
          "encrypted_spike", "hop_violation", "id_reuse", "pair_flood", "pair_skew", "gps_teleport"}

(* The windows are durations, and an id heard twice at once is not reused.  *)
(* A packet without a sender does not reach them (anomalies.go:191).        *)
ASSUME DetectorAssumption ==
  /\ RingSize \in Nat \ {0} /\ MaxKeys \in Nat
  /\ Dedup \in [Kinds -> Nat]
  /\ Window.minute \in Nat /\ Window.forget \in Nat /\ Window.reuse \in Nat \ {0}
  /\ Window.jump \in Nat /\ Window.hour \in Nat /\ Window.flood \in Nat
  /\ Limit.skewPercent \in Nat
  /\ \A p \in Packets :
       /\ DOMAIN p = {"from", "to", "id", "snr", "pos", "relay", "mqtt", "channel", "encrypted",
                      "start", "limit"}
       /\ p.from # 0 /\ p.snr \in Int /\ p.start \in Nat /\ p.limit \in Nat
       /\ p.mqtt \in BOOLEAN /\ p.encrypted \in BOOLEAN

VARIABLES
  anom,       (* s.anom, s.pairs and the known nodes, a record: see Fresh  *)
  clock,      (* time.Now(), also every packet's time                      *)
  met,        (* history: nodes known before the first packet              *)
  fired,      (* history: the anomalies the last packet called for         *)
  heard       (* history: packets since the start                          *)

vars == <<anom, clock, met, fired, heard>>
----------------------------------------------------------------------------
Fresh == [known |-> Loaded, pktTimes |-> <<>>, lastSNR |-> <<>>, pktDup |-> <<>>,
          mqttSeen |-> <<>>, nodeChannels |-> <<>>, totalSeen |-> <<>>,
          encryptedSeen |-> <<>>, pktFirstSeen |-> <<>>, pairs |-> <<>>,
          lastPos |-> <<>>, flagged |-> <<>>, ring |-> <<>>]

(* f, and g where f says nothing; f with one entry more.                    *)
Over(f, g)   == [x \in DOMAIN f \cup DOMAIN g |-> IF x \in DOMAIN f THEN f[x] ELSE g[x]]
Put(f, k, v) == [x \in DOMAIN f \cup {k} |-> IF x = k THEN v ELSE f[x]]

At(f, k, default) == IF k \in DOMAIN f THEN f[k] ELSE default

(* The times from the first one on that is not before cutoff.               *)
trimBefore(ts, cutoff) ==
  LET i == CHOOSE j \in 0 .. Len(ts) :
             /\ \A k \in 1 .. j : ts[k] < cutoff
             /\ j < Len(ts) => ts[j + 1] >= cutoff
  IN  SubSeq(ts, i + 1, Len(ts))

(* Times of a map at a key, with this packet's and without the old ones.    *)
Recent(f, k, e, window) == trimBefore(Append(At(f, k, <<>>), e.at), e.at - window)

Id(e)   == <<e.from, e.id>>
Ends(e) == {e.from, e.to}
Unicast(e) == e.to # 0 /\ e.to # e.from

(* Spammer: receptions per sender in the last minute.                       *)
Spam(a, e) == [a EXCEPT !.pktTimes = Put(@, e.from, Recent(@, e.from, e, Window.minute))]
Spams(a, e) == Len(a.pktTimes[e.from]) > Limit.spam

(* SNR jump: against the sender's last measured value; 0 is no measurement. *)
Signal(a, e) ==
  IF e.snr = 0 THEN a ELSE [a EXCEPT !.lastSNR = Put(@, e.from, [snr |-> e.snr, at |-> e.at])]
Gap(x, y) == IF x < y THEN y - x ELSE x - y
Jumps(before, e) ==
  /\ e.snr # 0
  /\ e.from \in DOMAIN before.lastSNR
  /\ LET prev == before.lastSNR[e.from] IN
       /\ e.at - prev.at > 0 /\ e.at - prev.at < Window.jump
       /\ Gap(e.snr, prev.snr) >= Limit.jump

(* Routing loop: the same packet id over and over within a minute.          *)
Collected(dup, e) ==
  IF Cardinality(DOMAIN dup) <= MaxKeys THEN dup
  ELSE Restrict(dup, {k \in DOMAIN dup : Last(dup[k]) >= e.at - Window.minute})
Loop(a, e) ==
  IF e.id = 0 THEN a
  ELSE [a EXCEPT !.pktDup = Collected(Put(@, Id(e), Recent(@, Id(e), e, Window.minute)), e)]
Loops(a, e) == e.id # 0 /\ Len(a.pktDup[Id(e)]) >= Limit.loop

(* Ghost relay: no known node ends in the relay's byte.                     *)
Ghost(a, e) == e.relay # 0 /\ \A n \in a.known : Byte[n] # e.relay

(* MQTT mirror: heard over both ways within a minute.                       *)
Origins(a, e) ==
  LET seen == At(a.mqttSeen, e.from, [radio |-> <<>>, mqtt |-> <<>>])
      own  == IF e.mqtt THEN "mqtt" ELSE "radio"
      kept == [w \in {"radio", "mqtt"} |-> trimBefore(seen[w], e.at - Window.minute)]
  IN  [a EXCEPT !.mqttSeen = Put(@, e.from, [kept EXCEPT ![own] = Append(@, e.at)])]
Mirrors(a, e) == \A w \in {"radio", "mqtt"} : a.mqttSeen[e.from][w] # <<>>

(* Faulty variant: a channel is dated by its first use.                     *)
ChannelsByFirstUse(a, e) ==
  LET before == At(a.nodeChannels, e.from, <<>>)
      used   == Over(before, Put(<<>>, e.channel, e.at))
      recent == {c \in DOMAIN used : used[c] >= e.at - Window.hour}
  IN  [a EXCEPT !.nodeChannels = Put(@, e.from, Restrict(used, recent))]

(* Cross-channel: more than one channel within an hour.                     *)
Channels(a, e) ==
  LET used   == Put(At(a.nodeChannels, e.from, <<>>), e.channel, e.at)
      recent == {c \in DOMAIN used : used[c] >= e.at - Window.hour}
  IN  [a EXCEPT !.nodeChannels = Put(@, e.from, Restrict(used, recent))]
Crosses(a, e) == Cardinality(DOMAIN a.nodeChannels[e.from]) > 1

(* Encrypted spike: a share of all packets of the last hour.                *)
Encrypted(a, e) ==
  LET old   == e.at - Window.hour
      added == IF e.encrypted THEN Append(a.encryptedSeen, e.at) ELSE a.encryptedSeen
  IN  [a EXCEPT !.totalSeen = trimBefore(Append(@, e.at), old),
                !.encryptedSeen = trimBefore(added, old)]
Spikes(a) ==
  /\ Len(a.totalSeen) >= Limit.sample
  /\ 100 * Len(a.encryptedSeen) >= Limit.percent * Len(a.totalSeen)

HopViolation(e) == e.start # 0 /\ e.limit > e.start

(* Once there are too many entries, the old ones go.                        *)
Forgotten(first, e) ==
  IF Cardinality(DOMAIN first) <= MaxKeys THEN first
  ELSE Restrict(first, {k \in DOMAIN first : first[k] >= e.at - Window.forget})

(* Faulty variant: every sighting dates the id anew.                        *)
LastSeen(a, e) ==
  IF e.id = 0 THEN a
  ELSE [a EXCEPT !.pktFirstSeen = Forgotten(Put(@, Id(e), e.at), e)]

(* Packet-id reuse: dated by its first sighting, which stays.               *)
FirstSeen(a, e) ==
  IF e.id = 0 THEN a
  ELSE [a EXCEPT !.pktFirstSeen = Forgotten(Over(@, Put(<<>>, Id(e), e.at)), e)]
Reuses(before, e) ==
  /\ e.id # 0
  /\ Id(e) \in DOMAIN before.pktFirstSeen
  /\ e.at - before.pktFirstSeen[Id(e)] >= Window.reuse

(* The conversation's statistics, as trackPair keeps them.                  *)
Pair(a, e) ==
  LET p == At(a.pairs, Ends(e), [count |-> 0, first |-> e.at, tx |-> <<>>]) IN
  IF ~Unicast(e) THEN a
  ELSE [a EXCEPT !.pairs = Put(@, Ends(e), [p EXCEPT
          !.count = @ + 1, !.tx = Put(@, e.from, At(@, e.from, 0) + 1)])]
Floods(a, e) ==
  Unicast(e) /\ LET p == a.pairs[Ends(e)] IN
    p.count >= Limit.flood /\ e.at - p.first <= Window.flood
Skewed(a, e) ==
  Unicast(e) /\ LET p == a.pairs[Ends(e)] IN
    p.count >= Limit.skew /\ \E n \in DOMAIN p.tx : 100 * p.tx[n] >= Limit.skewPercent * p.count

(* GPS teleport: far and fast since the sender's last valid position.       *)
Position(a, e) ==
  IF e.pos = 0 THEN a ELSE [a EXCEPT !.lastPos = Put(@, e.from, [pos |-> e.pos, at |-> e.at])]
Teleports(before, e) ==
  /\ e.pos # 0
  /\ e.from \in DOMAIN before.lastPos
  /\ LET prev == before.lastPos[e.from]
         km   == Km[prev.pos, e.pos]
     IN  e.at > prev.at /\ km >= Limit.far /\ km >= Limit.fast * (e.at - prev.at)
----------------------------------------------------------------------------
(* The detectors' memory after a packet.                                    *)
Observe(a, e) ==
  LET known == [a EXCEPT !.known = @ \cup {e.from}]
      rates == Loop(Signal(Spam(Pair(known, e), e), e), e)
  IN  Position(FirstSeen(Encrypted(Channels(Origins(rates, e), e), e), e), e)

(* What the detectors may flag, in their order, and whether they do.        *)
Verdicts(before, a, e) == <<
    [type |-> "spammer",         key |-> e.from,         on |-> Spams(a, e)],
    [type |-> "snr_jump",        key |-> e.from,         on |-> Jumps(before, e)],
    [type |-> "routing_loop",    key |-> Id(e),          on |-> Loops(a, e)],
    [type |-> "ghost_relay",     key |-> <<e.relay>>,    on |-> Ghost(a, e)],
    [type |-> "mqtt_mirror",     key |-> e.from,         on |-> Mirrors(a, e)],
    [type |-> "cross_channel",   key |-> e.from,         on |-> Crosses(a, e)],
    [type |-> "encrypted_spike", key |-> <<>>,           on |-> Spikes(a)],
    [type |-> "hop_violation",   key |-> e.from,         on |-> HopViolation(e)],
    [type |-> "id_reuse",        key |-> Id(e),          on |-> Reuses(before, e)],
    [type |-> "pair_flood",      key |-> Ends(e),        on |-> Floods(a, e)],
    [type |-> "pair_skew",       key |-> Ends(e),        on |-> Skewed(a, e)],
    [type |-> "gps_teleport",    key |-> e.from,         on |-> Teleports(before, e)]>>

Call(verdict) == [type |-> verdict.type, key |-> verdict.key]

Calls(verdicts) == {Call(verdicts[i]) : i \in {j \in DOMAIN verdicts : verdicts[j].on}}

LastN(s, n) == SubSeq(s, IF Len(s) > n THEN Len(s) - n + 1 ELSE 1, Len(s))

(* Faulty variant: no call is suppressed.                                   *)
flagAlways(a, c, at) ==
  [a EXCEPT !.flagged = Put(@, c, at), !.ring = LastN(Append(@, [what |-> c, at |-> at]), RingSize)]

(* The ring of anomalies and the time each was last flagged.                *)
flagAnomaly(a, c, at) ==
  IF c \in DOMAIN a.flagged /\ at - a.flagged[c] < Dedup[c.type] THEN a
  ELSE [a EXCEPT !.flagged = Put(@, c, at),
                 !.ring = LastN(Append(@, [what |-> c, at |-> at]), RingSize)]

(* Each detector flags what it found before the next one looks.             *)
Flag(a, verdicts, at) ==
  LET after[i \in 0 .. Len(verdicts)] ==
        IF i = 0 THEN a
        ELSE IF verdicts[i].on THEN flagAnomaly(after[i - 1], Call(verdicts[i]), at)
        ELSE after[i - 1]
  IN  after[Len(verdicts)]

Init ==
  /\ anom = Fresh
  /\ clock = 0
  /\ met = Loaded
  /\ fired = {}
  /\ heard = <<>>

(* detectAnomalies, within Add.                                             *)
Receive(p) ==
  LET e        == Over([at |-> clock], p)
      seen     == Observe(anom, e)
      verdicts == Verdicts(anom, seen, e)
  IN  /\ Len(heard) < MaxHeard
      /\ anom' = Flag(seen, verdicts, clock)
      /\ fired' = Calls(verdicts)
      /\ heard' = Append(heard, e)
      /\ UNCHANGED <<clock, met>>

Tick ==
  /\ clock < MaxTime
  /\ clock' = clock + 1
  /\ UNCHANGED <<anom, met, fired, heard>>

(* All of it is in memory only; senders come back with the node table.      *)
Restart ==
  /\ heard # <<>>
  /\ anom' = [Fresh EXCEPT !.known = anom.known]
  /\ met' = anom.known
  /\ fired' = {}
  /\ heard' = <<>>
  /\ UNCHANGED clock

Next == (\E p \in Packets : Receive(p)) \/ Tick \/ Restart

Spec == Init /\ [][Next]_vars
----------------------------------------------------------------------------
(* Reference definitions over the history h, whose last packet is e.        *)

(* The receptions of the same sender within the last w.                     *)
Within(h, w) ==
  LET e == Last(h) IN {i \in DOMAIN h : h[i].from = e.from /\ e.at - h[i].at <= w}

(* The latest earlier packet of the sender that has a value in field f.     *)
Previous(h, f) ==
  LET e == Last(h) IN
  {i \in 1 .. Len(h) - 1 :
     /\ h[i].from = e.from /\ h[i][f] # 0
     /\ \A j \in i + 1 .. Len(h) - 1 : h[j].from # e.from \/ h[j][f] = 0}

Same(h) == {i \in DOMAIN h : Id(h[i]) = Id(Last(h))}
Talk(h) == {i \in DOMAIN h : Ends(h[i]) = Ends(Last(h))}

MustFire(h) ==
  LET e == Last(h)
      minute == Within(h, Window.minute)
      hour == {i \in DOMAIN h : e.at - h[i].at <= Window.hour}
      Find(type, key, on) == IF on THEN {[type |-> type, key |-> key]} ELSE {}
  IN  UNION {
    Find("spammer", e.from, Cardinality(minute) > Limit.spam),
    Find("snr_jump", e.from, e.snr # 0 /\ \E i \in Previous(h, "snr") :
      e.at - h[i].at \in 1 .. Window.jump - 1 /\ Gap(h[i].snr, e.snr) >= Limit.jump),
    Find("routing_loop", Id(e), e.id # 0 /\ Cardinality(Same(h) \cap minute) >= Limit.loop),
    Find("ghost_relay", <<e.relay>>,
      e.relay # 0 /\ e.relay \notin {Byte[n] : n \in met \cup {h[i].from : i \in DOMAIN h}}),
    Find("mqtt_mirror", e.from, {h[i].mqtt : i \in minute} = BOOLEAN),
    Find("cross_channel", e.from,
      Cardinality({h[i].channel : i \in Within(h, Window.hour)}) > 1),
    Find("encrypted_spike", <<>>, Cardinality(hour) >= Limit.sample /\
      100 * Cardinality({i \in hour : h[i].encrypted}) >= Limit.percent * Cardinality(hour)),
    Find("hop_violation", e.from, e.start \in 1 .. e.limit - 1),
    Find("pair_flood", Ends(e), Unicast(e) /\ Cardinality(Talk(h)) >= Limit.flood
      /\ \A i \in Talk(h) : e.at - h[i].at <= Window.flood),
    Find("pair_skew", Ends(e), Unicast(e) /\ Cardinality(Talk(h)) >= Limit.skew
      /\ \E n \in Ends(e) : 100 * Cardinality({i \in Talk(h) : h[i].from = n})
                               >= Limit.skewPercent * Cardinality(Talk(h))),
    Find("gps_teleport", e.from, e.pos # 0 /\ \E i \in Previous(h, "pos") :
      LET km == Km[h[i].pos, e.pos] IN
        e.at > h[i].at /\ km >= Limit.far /\ km >= Limit.fast * (e.at - h[i].at))}

(* Every detector calls for exactly the anomalies that its thresholds, as   *)
(* the code compares them, find in everything heard since the start,        *)
(* whatever was trimmed, overwritten or collected meanwhile; id reuse       *)
(* aside, which ReuseIsExact has (anomalies.go:190-302, 389-694).  The      *)
(* header's words for three thresholds differ: at exactly 20 dB, say.       *)
DetectorsAreExact ==
  heard # <<>> => {c \in fired : c.type # "id_reuse"} = MustFire(heard)

(* A packet id is called reused only if it was heard long enough ago, and   *)
(* it always is when its first sighting is not old enough to be collected,  *)
(* or when no collection was needed (anomalies.go:558-596).                 *)
ReuseFires ==
  heard # <<>> =>
    LET e    == Last(heard)
        call == [type |-> "id_reuse", key |-> Id(e)]
        ages == {e.at - heard[i].at : i \in Same(heard)}
        ids  == {Id(heard[i]) : i \in {j \in DOMAIN heard : heard[j].id # 0}}
        old  == e.id # 0 /\ \E d \in ages : d >= Window.reuse
    IN  /\ call \in fired => old
        /\ old /\ (Cardinality(ids) <= MaxKeys \/ \A d \in ages : d <= Window.forget)
             => call \in fired

(* The memory for packet ids is bounded by what arrives in two hours: past  *)
(* the limit, nothing older than the collection window is left after a      *)
(* packet with an id (anomalies.go:585-596: "keep the map bounded").        *)
MemoryIsRecent ==
  heard # <<>> /\ Last(heard).id # 0 =>
    /\ \/ Cardinality(DOMAIN anom.pktFirstSeen) <= MaxKeys
       \/ \A k \in DOMAIN anom.pktFirstSeen :
            \E i \in DOMAIN heard : Id(heard[i]) = k /\ Last(heard).at - heard[i].at <= Window.forget
    /\ \/ Cardinality(DOMAIN anom.pktDup) <= MaxKeys
       \/ \A k \in DOMAIN anom.pktDup :
            \E i \in DOMAIN heard : Id(heard[i]) = k /\ Last(heard).at - heard[i].at <= Window.minute

(* Reuse of packet ids is found although the memory for them is bounded:    *)
(* the collection loses no id that matters and keeps no old one.            *)
ReuseIsExact == ReuseFires /\ MemoryIsRecent

(* Readers of the anomaly list see the same anomaly at most once per its    *)
(* window (anomalies.go:33-34, 304-318), wherever the list wrapped, and the *)
(* list does not grow.                                                      *)
RateLimited ==
  LET r == anom.ring IN
  /\ Len(r) <= RingSize
  /\ \A i, j \in DOMAIN r : i < j /\ r[i].what = r[j].what =>
       r[j].at - r[i].at >= Dedup[r[i].what.type]
=============================================================================
