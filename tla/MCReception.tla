----------------------------- MODULE MCReception -----------------------------
(* What comes from the radio, in three parts that share no state: frames on *)
(* the line (Framing), the firmware's debug lines (Radio) and the packets   *)
(* the detectors look at (Anomalies).  A behaviour is about one part; the   *)
(* other two stay in their initial state.                                   *)
EXTENDS Anomalies

VARIABLES
  part,        (* what this behaviour is about                             *)
  mix          (* the packets, or the lines, it draws from                 *)

(* Framing: payloads that are plain, that have the magic bytes in the wrong *)
(* order or a frame in them, and that are too long.                         *)
CONSTANTS Writers, Payloads, Noise, MaxPacket, MaxFrames, MaxFaults
VARIABLES wmu, rest, line, reader, delivered, frames, lineFaults, expected, confused
F == INSTANCE Framing

ASSUME LineAssumption == F!FramingAssumption

FewPayloads == {<<7>>, <<195, 148>>, <<148, 195, 0, 1>>, <<7, 7, 7, 7, 7>>}

(* Radio: two senders and an unknown one, one relay and none.               *)
CONSTANTS LineMixes, Short, Long, MaxMinute, MaxLogged
VARIABLES minute, radio, snapshots, tick, logged
R == INSTANCE Radio WITH Lines <- UNION LineMixes

ASSUME LogAssumption == R!RadioAssumption

Heard(from, relay, snr) ==
  [kind |-> "rx", from |-> from, relay |-> relay, snr |-> snr, mqtt |-> FALSE,
   start |-> 3, limit |-> 3]
Receptions == {Heard(1, 0, -2), [Heard(1, 5, -1) EXCEPT !.mqtt = TRUE], Heard(2, 5, -1),
               [Heard(1, 6, 2) EXCEPT !.limit = 4], [Heard(0, 5, 1) EXCEPT !.start = 8]}
OtherLines == {Heard(2, 0, -2), [kind |-> "dupe"], [kind |-> "reason", reason |-> "hop limit"],
               [kind |-> "freq", hz |-> -150], [kind |-> "freq", hz |-> -100],
               [kind |-> "freq", hz |-> 99]}
TwoMixes == {Receptions, OtherLines}

(* Anomalies: two senders (and a third node known from the database).  The  *)
(* packets of a mix are for one group of detectors, and every packet        *)
(* differs from a plain one in what its detector reads.                     *)
Plain(from, id) == [from |-> from, to |-> 0, id |-> id, snr |-> 0, pos |-> 0, relay |-> 0,
                    mqtt |-> FALSE, channel |-> 0, encrypted |-> FALSE, start |-> 3, limit |-> 3]

Repeats   == {Plain(1, 1), Plain(1, 2), Plain(1, 0)}
Signals   == {[Plain(1, 1) EXCEPT !.snr = 10, !.mqtt = TRUE], [Plain(1, 2) EXCEPT !.snr = 30],
              [Plain(2, 3) EXCEPT !.snr = 10]}
Headers   == {[Plain(1, 1) EXCEPT !.channel = 1, !.relay = 2], [Plain(1, 1) EXCEPT !.relay = 9],
              [Plain(2, 1) EXCEPT !.limit = 4, !.relay = 3]}
Talks     == {[Plain(1, 1) EXCEPT !.to = 2, !.encrypted = TRUE], [Plain(2, 2) EXCEPT !.to = 1]}
Positions == {[Plain(1, 1) EXCEPT !.pos = 1], [Plain(1, 2) EXCEPT !.pos = 2], Plain(1, 3),
              [Plain(1, 0) EXCEPT !.pos = 3]}

Mixes == {Repeats, Signals, Headers, Talks, Positions}
AllPackets == UNION Mixes

ThirdNode == {3}
SameByte == [n \in 1 .. 3 |-> n]
Distances == [p, q \in 1 .. 3 |-> IF p = q THEN 0 ELSE IF p + q = 3 THEN 60 ELSE 200]
Windows == [minute |-> 1, jump |-> 2, hour |-> 2, reuse |-> 2, forget |-> 3, flood |-> 1]
Limits  == [spam |-> 3, jump |-> 20, loop |-> 3, sample |-> 3, percent |-> 30, flood |-> 3,
            skew |-> 2, skewPercent |-> 95, far |-> 50, fast |-> 100]
DedupTimes == [k \in Kinds |-> IF k \in {"snr_jump", "spammer"} THEN 1 ELSE 2]
----------------------------------------------------------------------------
frameVars == <<wmu, rest, line, reader, delivered, frames, lineFaults, expected, confused>>
radioVars == <<minute, radio, snapshots, tick, logged>>
allVars   == <<vars, frameVars, radioVars, part, mix>>

MCInit ==
  /\ Init /\ F!Init /\ R!Init
  /\ \/ part = "packets" /\ mix \in Mixes
     \/ part = "lines" /\ mix \in LineMixes
     \/ part = "frames" /\ mix = {}

MCNext ==
  /\ UNCHANGED <<part, mix>>
  /\ \/ /\ part = "packets"
        /\ (\E p \in mix : Receive(p)) \/ Tick \/ Restart
        /\ UNCHANGED <<frameVars, radioVars>>
     \/ /\ part = "lines"
        /\ (\E l \in mix : R!Log(l)) \/ R!Snapshot \/ R!Tick
        /\ UNCHANGED <<vars, frameVars>>
     \/ /\ part = "frames"
        /\ F!Next
        /\ UNCHANGED <<vars, radioVars>>

MCSpec == MCInit /\ [][MCNext]_allVars
----------------------------------------------------------------------------
(* Framing: frames come out whole and in order; see FramesSurvive there.    *)
FramesSurvive == F!FramesSurvive

(* Radio: every figure of the report is that of the lines logged.           *)
HealthIsExact == R!HealthIsExact

(* Radio: no packet is in two snapshots' windows.                           *)
SnapshotsDisjoint == R!SnapshotsDisjoint
=============================================================================
