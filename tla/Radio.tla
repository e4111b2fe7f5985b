-------------------------------- MODULE Radio --------------------------------
(***************************************************************************)
(* Radio health: what the store makes of the firmware's debug lines about  *)
(* every single reception, and the snapshot of it that a background loop   *)
(* saves every five minutes.                                               *)
(*                                                                         *)
(* A line is of a kind of its own: a reception ("rx"), an ignored          *)
(* duplicate ("dupe"), a reason not to rebroadcast ("reason") or a         *)
(* frequency offset ("freq").  The maps that only count are one bag; the   *)
(* channel hash is counted like the relay and left out.  Time is minutes.  *)
(***************************************************************************)
EXTENDS Integers, Sequences, FiniteSets, FiniteSetsExt, Functions, Bags

CONSTANTS
  Lines,       (* the lines the firmware may log                           *)
  Short,       (* the short window, and the period of the snapshots: 5     *)
  Long,        (* the long window: 60                                      *)
  MaxMinute,   (* bound: last minute                                       *)
  MaxLogged    (* bound: lines since the start                             *)

VARIABLES
  minute,      (* time.Now() in minutes                                    *)
  radio,       (* s.radio                                                  *)
  snapshots,   (* rows of radio_snapshots written by this process          *)
  tick,        (* the minute of the ticker's next tick                     *)
  logged       (* history: the lines since the start, with their minute    *)

vars == <<minute, radio, snapshots, tick, logged>>
----------------------------------------------------------------------------
(* Signals in whole quarters of a dB, offsets in Hz.                        *)
RadioAssumption ==
  /\ Short \in Nat \ {0} /\ Long \in Nat /\ Short <= Long
  /\ MaxMinute \in Nat /\ MaxLogged \in Nat
  /\ \A l \in Lines :
       \/ /\ l.kind = "rx" /\ l.mqtt \in BOOLEAN /\ l.snr \in Int
          /\ {l.from, l.relay, l.start, l.limit} \subseteq Nat
       \/ l.kind \in {"dupe", "reason"}
       \/ l.kind = "freq" /\ l.hz \in Int

Count(b, key) == IF BagIn(key, b) THEN b[key] ELSE 0

newRadioHealthData ==
  [rx |-> 0, dup |-> 0, mqtt |-> 0, senders |-> <<>>, tally |-> EmptyBag, history |-> <<>>]

(* The accumulator of one sender by one relay.                              *)
addRx(a, snr) ==
  [count |-> a.count + 1, sum |-> a.sum + snr,
   best |-> IF a.count = 0 THEN snr ELSE Max({snr, a.best})]

NoRx == [count |-> 0, sum |-> 0, best |-> 0]

(* int() cuts towards zero; negative values that are not exact go one down. *)
CutToZero(n, d) == IF n < 0 THEN -((-n) \div d) ELSE n \div d

FreqBucket(hz) ==
  LET b == CutToZero(hz, 100) IN IF hz < 0 /\ b * 100 # hz THEN b - 1 ELSE b

(* The buckets from the first that is young enough.                         *)
Young(h) == SubSeq(h, Min({i \in DOMAIN h : h[i].ts >= minute - Long}), Len(h))

(* Faulty variant: the newest bucket stays in use when its minute is over.  *)
bucketForLazy(h) ==
  IF h # <<>> /\ h[Len(h)].ts >= minute - 1 THEN h
  ELSE Young(Append(h, [ts |-> minute, rx |-> 0, dup |-> 0]))

(* The buckets with one for this minute at the end; only a new one makes    *)
(* old ones go.                                                             *)
bucketFor(h) ==
  IF h # <<>> /\ h[Len(h)].ts = minute THEN h
  ELSE Young(Append(h, [ts |-> minute, rx |-> 0, dup |-> 0]))

(* What a line adds to the maps that only count.                            *)
Keys(l) ==
  CASE l.kind = "rx"     -> (IF l.relay # 0 THEN {<<"relay", l.relay>>} ELSE {}) \cup
                            {<<"hops", IF l.start >= l.limit THEN l.start - l.limit ELSE -1>>,
                             <<"max", IF l.start <= 7 THEN l.start ELSE -1>>}
    [] l.kind = "reason" -> {<<"reason", l.reason>>}
    [] l.kind = "freq"   -> {<<"freq", FreqBucket(l.hz)>>}
    [] OTHER             -> {}
----------------------------------------------------------------------------
Init ==
  /\ minute = 0
  /\ radio = newRadioHealthData
  /\ snapshots = <<>>
  /\ tick = Short
  /\ logged = <<>>

(* AddRawRx.                                                                *)
AddRawRx(l) ==
  LET h == bucketFor(radio.history)
      k == <<l.from, l.relay>>
      s == radio.senders
      old == IF k \in DOMAIN s THEN s[k] ELSE NoRx IN
  radio' = [radio EXCEPT
    !.rx = @ + 1,
    !.mqtt = IF l.mqtt THEN @ + 1 ELSE @,
    !.tally = @ (+) SetToBag(Keys(l)),
    !.senders = IF l.from = 0 THEN s
                ELSE [x \in DOMAIN s \cup {k} |-> IF x = k THEN addRx(old, l.snr) ELSE s[x]],
    !.history = [h EXCEPT ![Len(h)].rx = @ + 1]]

AddRawDupe ==
  LET h == bucketFor(radio.history) IN
  radio' = [radio EXCEPT !.dup = @ + 1, !.history = [h EXCEPT ![Len(h)].dup = @ + 1]]

(* AddRawNoRebroadcast and AddFreqOffset.                                   *)
AddToTally(l) == radio' = [radio EXCEPT !.tally = @ (+) SetToBag(Keys(l))]

(* The read loop parsed a firmware line.                                    *)
Log(l) ==
  /\ Len(logged) < MaxLogged
  /\ \/ l.kind = "rx" /\ AddRawRx(l)
     \/ l.kind = "dupe" /\ AddRawDupe
     \/ l.kind \in {"reason", "freq"} /\ AddToTally(l)
  /\ logged' = Append(logged, [at |-> minute, line |-> l])
  /\ UNCHANGED <<minute, snapshots, tick>>

(* Faulty variant: the window has one minute more.                          *)
BucketsOneMore(n) == {i \in DOMAIN radio.history : minute - radio.history[i].ts <= n}

(* The buckets RadioHealth counts to the last n minutes, and its sums.      *)
Buckets(n) == {i \in DOMAIN radio.history : minute - radio.history[i].ts < n}
RxIn(w)  == SumFunction([i \in w |-> radio.history[i].rx])
DupIn(w) == SumFunction([i \in w |-> radio.history[i].dup])

(* runSnapshotLoop at a tick, which may come at any time in its minute.     *)
Snapshot ==
  /\ minute = tick
  /\ tick' = tick + Short
  /\ snapshots' = IF radio.rx = 0 THEN snapshots
                  ELSE Append(snapshots, [rx |-> radio.rx, last |-> RxIn(Buckets(Short))])
  /\ UNCHANGED <<minute, radio, logged>>

Tick ==
  /\ minute < MaxMinute
  /\ minute < tick
  /\ minute' = minute + 1
  /\ UNCHANGED <<radio, snapshots, tick, logged>>

Next == (\E l \in Lines : Log(l)) \/ Snapshot \/ Tick

Spec == Init /\ [][Next]_vars
----------------------------------------------------------------------------
Senders == {k[1] : k \in DOMAIN radio.senders}
Strength(f, r) == radio.senders[<<f, r>>].best
RelaysOf(f) == {k[2] : k \in {x \in DOMAIN radio.senders : x[1] = f}}

(* RadioHealth's best relay of a sender: the one with the strongest packet, *)
(* any of them when they tie, as the map is walked in no order.             *)
BestRelays(f) == {r \in RelaysOf(f) : \A q \in RelaysOf(f) : Strength(f, q) <= Strength(f, r)}

(* BestForN and the sum of advantages of a relay in RouterCandidates, for   *)
(* one choice of best relays.  0 is no relay and no candidate.              *)
BestFor(r, best) == {f \in Senders : best[f] = r}
Lead(f, r) ==
  LET others == RelaysOf(f) \ {r} IN
    IF others = {} THEN 0 ELSE Strength(f, r) - Max({Strength(f, q) : q \in others})
Advantage(r, best) == SumFunction([f \in BestFor(r, best) |-> Lead(f, r)])

BestChoices == {b \in [Senders -> UNION {RelaysOf(f) : f \in Senders}] :
                  \A f \in Senders : b[f] \in BestRelays(f)}
----------------------------------------------------------------------------
Logged(P(_)) == {i \in DOMAIN logged : P(logged[i].line)}
Recent(n) == {i \in DOMAIN logged : minute - logged[i].at < n}
IsRx(l) == l.kind = "rx"
IsDupe(l) == l.kind = "dupe"

(* Both windows hold exactly the receptions and duplicates of their last    *)
(* minutes, although buckets are dropped only when one is added.  Nothing   *)
(* is reported before the first reception (radio.go:184-201, 313, 333-349). *)
WindowsExact ==
  radio.rx > 0 => \A n \in {Short, Long} :
    /\ RxIn(Buckets(n)) = Cardinality(Logged(IsRx) \cap Recent(n))
    /\ DupIn(Buckets(n)) = Cardinality(Logged(IsDupe) \cap Recent(n))

(* For every sender and relay: how many packets, the strongest one and the  *)
(* sum, also when all signals are below zero (radio.go:122-133, 238-251).   *)
SendersExact ==
  LET heard == {i \in Logged(IsRx) : logged[i].line.from # 0}
      Of(k) == {i \in heard : <<logged[i].line.from, logged[i].line.relay>> = k} IN
    /\ DOMAIN radio.senders = {<<logged[i].line.from, logged[i].line.relay>> : i \in heard}
    /\ \A k \in DOMAIN radio.senders :
         radio.senders[k] = [count |-> Cardinality(Of(k)),
                             sum |-> SumFunction([i \in Of(k) |-> logged[i].line.snr]),
                             best |-> Max({logged[i].line.snr : i \in Of(k)})]

(* A relay is ranked by the senders whose strongest packet it carried: all  *)
(* of those it carried alone, none it did not carry, and for a tie one      *)
(* relay only, whatever the order of the map (radio.go:371-423, 497-523).   *)
CandidatesExact ==
  LET Sent(f) == {i \in Logged(IsRx) : logged[i].line.from = f}
      Top(f) == {logged[i].line.relay : i \in {j \in Sent(f) :
                   \A k \in Sent(f) : logged[k].line.snr <= logged[j].line.snr}} IN
    \A best \in BestChoices : \A r \in {l.relay : l \in {x \in Lines : IsRx(x)}} \ {0} :
      /\ {f \in Senders : Top(f) = {r}} \subseteq BestFor(r, best)
      /\ BestFor(r, best) \subseteq {f \in Senders : r \in Top(f)}
      /\ Advantage(r, best) >= 0

(* The offset of every sample lies in its histogram bar, whatever its sign, *)
(* and no bar counts anything else (radio.go:299-304, 547-552).             *)
OffsetsInBars ==
  \A b \in -3 .. 3 :
    Count(radio.tally, <<"freq", b>>) =
      Cardinality(Logged(LAMBDA l : l.kind = "freq" /\ 100 * b <= l.hz /\ l.hz < 100 * b + 100))

(* Every figure of the report is that of the lines logged: its windows, its *)
(* senders, its ranking of relays and its bars (radio.go:308-564).          *)
HealthIsExact == WindowsExact /\ SendersExact /\ CandidatesExact /\ OffsetsInBars

(* The trend chart counts no packet twice: what a snapshot says of its last *)
(* minutes came after the snapshot before it (app.go:758-775, db/radio.go). *)
SnapshotsDisjoint ==
  \A i \in 2 .. Len(snapshots) : snapshots[i].last <= snapshots[i].rx - snapshots[i - 1].rx
=============================================================================
