----------------------------- MODULE Connection -----------------------------
(***************************************************************************)
(* The life of the radio connection: connecting at startup, the want_config *)
(* handshake, the config phase that ends with ConfigComplete or with the   *)
(* safety net, live frames, the loss of the connection and the reconnect,  *)
(* and the shutdown that main starts while all this goes on.               *)
(*                                                                         *)
(* The read loop is one process; a step of it ends where it blocks or      *)
(* where another goroutine can tell the difference.  Shutdown runs on      *)
(* main's goroutine.  The radio and the operating system choose what a     *)
(* read returns and when the link fails.                                   *)
(***************************************************************************)
EXTENDS Integers

CONSTANTS
  MaxAttempts,     (* connection attempts at startup, len(delays)          *)
  HardCap,         (* configHardCap, in clock ticks                        *)
  IdleTimeout,     (* configIdleTimeout                                    *)
  DeadAfter        (* maxConsecutiveTimeouts, in clock ticks               *)

ASSUME ConnectionAssumption ==
  /\ MaxAttempts \in Nat \ {0}
  /\ HardCap \in Nat
  /\ IdleTimeout \in Nat
  /\ IdleTimeout < HardCap
  /\ DeadAfter \in Nat \ {0}

VARIABLES
  pc,           (* where Run and its read loop are                         *)
  attempt,      (* failed connection attempts at startup                   *)
  link,         (* the connection behind currentReader                     *)
  asked,        (* its radio has received want_config                      *)
  configPhase,  (* configPhase                                             *)
  configNodes,  (* configNodes > 0                                         *)
  idle,         (* ticks since lastNodeInfoAt                              *)
  age,          (* ticks since connectedAt                                 *)
  frame,        (* the decoded frame in the loop's hands                   *)
  shut,         (* how far Shutdown has come                               *)
  quiet,        (* history: ticks blocked in a read without a single byte  *)
  informed      (* history: this connection delivered MyInfo or a NodeInfo *)

connection == <<link, asked>>
phase      == <<configPhase, configNodes>>
timers     == <<idle, age, quiet>>
loopVars   == <<pc, attempt, phase, frame, informed>>
vars == <<pc, attempt, connection, phase, timers, frame, shut, informed>>

----------------------------------------------------------------------------
(* What the radio sends, as far as the loop tells frames apart: a packet    *)
(* comes from the mesh, own is a telemetry or position packet the live      *)
(* phase discards, setting any other part of the configuration, garbled a   *)
(* frame that does not decode or decodes to nothing.                        *)
Kinds   == {"myinfo", "nodeinfo", "setting", "complete", "packet", "own", "log",
            "garbled"}
Stored  == {"myinfo", "nodeinfo", "setting", "packet"}
NoFrame == "none"

Cancelled == shut # "none"

(* Faulty variant: it never stops.                                          *)
AdvanceFree(timer, limit) == timer + 1

(* A timer stops counting when it has passed every limit it is compared to. *)
Advance(timer, limit) == IF timer > limit THEN timer ELSE timer + 1

Init ==
  /\ pc = "start"
  /\ attempt = 0
  /\ link = "closed"
  /\ asked = FALSE
  /\ configPhase = TRUE
  /\ configNodes = FALSE
  /\ idle = 0
  /\ age = 0
  /\ quiet = 0
  /\ frame = NoFrame
  /\ shut = "none"
  /\ informed = FALSE

----------------------------------------------------------------------------
(* Startup.                                                                 *)

(* connectWithBackoff: wait for the delay or the shutdown, then dial.  The  *)
(* last failure ends Run.                                                   *)
StartConnect ==
  /\ pc = "start"
  /\ \/ /\ link' = "up"
        /\ pc' = "handshake"
        /\ UNCHANGED attempt
     \/ /\ attempt' = attempt + 1
        /\ pc' = IF attempt' = MaxAttempts THEN "done" ELSE "start"
        /\ UNCHANGED link
     \/ /\ Cancelled /\ attempt > 0
        /\ pc' = "done"
        /\ UNCHANGED <<attempt, link>>
  /\ UNCHANGED <<asked, phase, timers, frame, shut, informed>>

(* The first handshake; its failure ends Run.                               *)
StartHandshake ==
  /\ pc = "handshake"
  /\ IF link \notin {"up", "silent"}
     THEN pc' = "done" /\ UNCHANGED <<asked, age>>
     ELSE pc' = "top" /\ asked' = TRUE /\ age' = 0
  /\ UNCHANGED <<attempt, link, phase, idle, quiet, frame, shut, informed>>

----------------------------------------------------------------------------
(* The read loop.                                                           *)

(* Top of the loop: the only place where live traffic notices a shutdown.   *)
Top ==
  /\ pc = "top"
  /\ pc' = IF Cancelled THEN "done" ELSE "read"
  /\ UNCHANGED <<attempt, connection, phase, timers, frame, shut, informed>>

(* ReadPacket returns a frame.                                              *)
ReadFrame ==
  /\ pc = "read"
  /\ link = "up" /\ asked
  /\ frame' \in Kinds
  /\ informed' = (informed \/ frame' \in {"myinfo", "nodeinfo"})
  /\ quiet' = 0
  /\ pc' = "handle"
  /\ UNCHANGED <<attempt, connection, phase, idle, age, shut>>

(* ReadPacket returns a framing error: the loop goes on.                    *)
ReadNoise ==
  /\ pc = "read"
  /\ link = "up" /\ asked
  /\ quiet' = 0
  /\ pc' = "top"
  /\ UNCHANGED <<attempt, connection, phase, idle, age, frame, shut, informed>>

(* Faulty variant: an end of file is taken for a framing error.             *)
ReadErrorIgnored ==
  /\ pc = "read"
  /\ link \in {"broken", "closed"}
  /\ pc' = "top"
  /\ UNCHANGED <<attempt, connection, phase, timers, frame, shut, informed>>

(* ReadPacket returns an error that isFatal recognises: close and back off. *)
(* ErrTimeout never comes out of ReadPacket (syncMagic and both readFull    *)
(* calls retry it), so consecutiveTimeouts stays 0 and its branch is not    *)
(* modelled: nothing reaches it.                                            *)
ReadError ==
  /\ pc = "read"
  /\ link \in {"broken", "closed"}
  /\ link' = "closed"
  /\ pc' = "backoff"
  /\ UNCHANGED <<attempt, asked, phase, timers, frame, shut, informed>>

(* ReadPacket returns an error isFatal does not know (connection reset):    *)
(* the loop goes on, and the system reports the end of file from then on.   *)
ReadReset ==
  /\ pc = "read"
  /\ link = "reset"
  /\ link' = "broken"
  /\ pc' = "top"
  /\ UNCHANGED <<attempt, asked, phase, timers, frame, shut, informed>>

(* The backoff, and the pause between two attempts: a timer or a shutdown.  *)
Backoff ==
  /\ pc = "backoff"
  /\ pc' \in {"connect"} \cup (IF Cancelled THEN {"done"} ELSE {})
  /\ UNCHANGED <<attempt, connection, phase, timers, frame, shut, informed>>

(* Faulty variant: the retry loop does not look for a shutdown, nor does    *)
(* the pause after a failed attempt.                                        *)
ReconnectFailsDeaf ==
  /\ pc = "connect"
  /\ UNCHANGED vars

(* An attempt fails; every attempt first looks for a shutdown.              *)
ReconnectFails ==
  /\ pc = "connect"
  /\ pc' = IF Cancelled THEN "done" ELSE "backoff"
  /\ UNCHANGED <<attempt, connection, phase, timers, frame, shut, informed>>

(* An attempt succeeds: the new reader is installed.                        *)
Reconnect ==
  /\ pc = "connect"
  /\ ~ Cancelled
  /\ link' = "up"
  /\ pc' = "install"
  /\ quiet' = 0
  /\ asked' = FALSE
  /\ informed' = FALSE
  /\ UNCHANGED <<attempt, phase, idle, age, frame, shut>>

(* Faulty variant: what the last connection delivered is not forgotten.     *)
RehandshakeStale ==
  /\ pc = "install"
  /\ asked' = (link \in {"up", "silent"})
  /\ configPhase' = TRUE
  /\ age' = 0
  /\ pc' = "top"
  /\ UNCHANGED <<attempt, link, configNodes, idle, quiet, frame, shut, informed>>

(* The new handshake, whose failure is only logged, and the phase state     *)
(* that starts over after it.  A write to a working link does not fail, so  *)
(* the next read reports what went wrong.                                   *)
Rehandshake ==
  /\ pc = "install"
  /\ asked' = (link \in {"up", "silent"})
  /\ configPhase' = TRUE
  /\ configNodes' = FALSE
  /\ idle' = 0
  /\ age' = 0
  /\ pc' = "top"
  /\ UNCHANGED <<attempt, link, quiet, frame, shut, informed>>

(* The safety net, evaluated for every frame before anything else is done   *)
(* with it, garbled ones and log records included.                          *)
NetTrips == configPhase /\ (age > HardCap \/ (configNodes /\ idle > IdleTimeout))

(* Faulty variant: the safety net runs only for events that are not log     *)
(* records.                                                                 *)
HandleLate ==
  /\ pc = "handle"
  /\ LET silent == configPhase /\ ~ (NetTrips /\ frame # "log") IN
       /\ configPhase' = (silent /\ frame # "complete")
       /\ IF silent /\ frame \in {"myinfo", "nodeinfo"}
          THEN configNodes' = TRUE /\ idle' = 0
          ELSE UNCHANGED <<configNodes, idle>>
       /\ pc' = IF ~ silent /\ frame \in Stored THEN "store" ELSE "top"
  /\ frame' = NoFrame
  /\ UNCHANGED <<attempt, connection, age, quiet, shut, informed>>

(* One frame: the safety net, then by kind.  ConfigComplete ends the phase, *)
(* other events update nodes silently in the config phase and go on to log, *)
(* store and database in the live phase.                                    *)
Handle ==
  /\ pc = "handle"
  /\ LET silent == configPhase /\ ~ NetTrips IN
       /\ configPhase' = (silent /\ frame # "complete")
       /\ IF silent /\ frame \in {"myinfo", "nodeinfo"}
          THEN configNodes' = TRUE /\ idle' = 0
          ELSE UNCHANGED <<configNodes, idle>>
       /\ pc' = IF ~ silent /\ frame \in Stored THEN "store" ELSE "top"
  /\ frame' = NoFrame
  /\ UNCHANGED <<attempt, connection, age, quiet, shut, informed>>

(* A live event is logged and added to the store ...                        *)
StoreEvent ==
  /\ pc = "store"
  /\ pc' = "insert"
  /\ UNCHANGED <<attempt, connection, phase, timers, frame, shut, informed>>

(* ... and then its rows are inserted.                                      *)
InsertEvent ==
  /\ pc = "insert"
  /\ pc' = "top"
  /\ UNCHANGED <<attempt, connection, phase, timers, frame, shut, informed>>

(* Steps the loop takes whatever the radio and the network do.              *)
LoopStep ==
  \/ StartConnect
  \/ StartHandshake
  \/ Top
  \/ ReadError
  \/ ReadReset
  \/ Backoff
  \/ ReconnectFails
  \/ Rehandshake
  \/ Handle
  \/ StoreEvent
  \/ InsertEvent

----------------------------------------------------------------------------
(* main: a signal, or the end of Run, starts Shutdown.                      *)
Cancel ==
  /\ shut = "none"
  /\ shut' = "cancelled"
  /\ UNCHANGED <<loopVars, connection, timers>>

(* webSrv.Shutdown, which gives up after 15 s.                              *)
StopWeb ==
  /\ shut = "cancelled"
  /\ shut' = "web"
  /\ UNCHANGED <<loopVars, connection, timers>>

(* Close whatever currentReader is now: a blocked read returns.  The        *)
(* pointer is read without the lock, so a reader that is being installed    *)
(* may be missed.                                                           *)
CloseReader ==
  /\ shut = "web"
  /\ shut' = "reader"
  /\ \/ link' = "closed"
     \/ pc \in {"handshake", "install"} /\ UNCHANGED link
  /\ UNCHANGED <<loopVars, asked, timers>>

(* Close the logger and the database; nothing waits for the loop.           *)
CloseStores ==
  /\ shut = "reader"
  /\ shut' = "done"
  /\ UNCHANGED <<loopVars, connection, timers>>

ShutdownStep == StopWeb \/ CloseReader \/ CloseStores

----------------------------------------------------------------------------
(* The link fails so that the next read or write reports it, or goes dead   *)
(* without a word.                                                          *)
LinkBreaks ==
  /\ link \in {"up", "silent"}
  /\ link' \in {"broken", "reset"}
  /\ UNCHANGED <<loopVars, asked, timers, shut>>

LinkDies ==
  /\ link = "up"
  /\ link' = "silent"
  /\ UNCHANGED <<loopVars, asked, timers, shut>>

(* Time passes; the read of a serial port returns nothing every 500 ms and  *)
(* syncMagic tries again, the read of a socket just blocks.                 *)
Tick ==
  /\ age' = Advance(age, HardCap)
  /\ idle' = Advance(idle, IdleTimeout)
  /\ quiet' = IF pc = "read" THEN Advance(quiet, DeadAfter) ELSE quiet
  /\ <<age', idle', quiet'>> # <<age, idle, quiet>>
  /\ UNCHANGED <<loopVars, connection, shut>>

Next ==
  \/ LoopStep
  \/ ReadFrame
  \/ ReadNoise
  \/ Reconnect
  \/ Cancel
  \/ ShutdownStep
  \/ LinkBreaks
  \/ LinkDies
  \/ Tick

Spec == Init /\ [][Next]_vars

(* Goroutines are scheduled and main finishes what it began; radio, network *)
(* and clock owe nothing.                                                   *)
RunningSpec == Spec /\ WF_vars(LoopStep) /\ WF_vars(ShutdownStep)

(* Time passes, a radio that is up and was asked sends frames of some kind, *)
(* and one that is dialled again and again answers in the end.              *)
Talking == WF_vars(Tick) /\ SF_vars(ReadFrame) /\ SF_vars(Reconnect)
----------------------------------------------------------------------------
(* Type correctness of the loop, the timers and the shutdown.               *)
TypeOK ==
  /\ pc \in {"start", "handshake", "top", "read", "handle", "store", "insert",
             "backoff", "connect", "install", "done"}
  /\ attempt \in 0 .. MaxAttempts /\ (pc = "start" => attempt < MaxAttempts)
  /\ link \in {"up", "silent", "broken", "reset", "closed"}
  /\ asked \in BOOLEAN /\ configPhase \in BOOLEAN /\ configNodes \in BOOLEAN
  /\ idle \in 0 .. IdleTimeout + 1
  /\ age \in 0 .. HardCap + 1
  /\ quiet \in 0 .. DeadAfter + 1
  /\ frame \in Kinds \cup {NoFrame}
  /\ pc = "handle" <=> frame \in Kinds
  /\ shut \in {"none", "cancelled", "web", "reader", "done"}
  /\ informed \in BOOLEAN

(* A connection turns live for a reason of its own (app.go:442-457,         *)
(* 491-500): its ConfigComplete, a pause after its own NodeInfo, or the     *)
(* hard cap.  Nothing a lost connection delivered ends the config phase of  *)
(* the next one.                                                            *)
LiveForAReason ==
  [][configPhase /\ ~ configPhase' =>
       \/ frame = "complete"
       \/ informed /\ idle > IdleTimeout
       \/ age > HardCap]_vars

(* The config phase ends (app.go:331-335, 438-457): "or the dashboard stays *)
(* empty forever".  However a talking radio mixes log records, garbled      *)
(* frames and events, a phase on a working link ends.                       *)
ConfigPhaseEnds ==
  Talking =>
    (configPhase ~> (~ configPhase \/ link # "up" \/ Cancelled \/ pc = "done"))

(* Automatic reconnect (app.go:362-411): an error the system reports while  *)
(* the loop reads leads to a new connection, as often as connections break, *)
(* unless the program is shutting down or the radio stays away.             *)
Reconnects ==
  Talking =>
    ((pc = "read" /\ link \in {"broken", "reset"}) ~> (pc = "install" \/ Cancelled))

(* Shutdown (app.go:191-217): wherever the loop is blocked, reading, backing *)
(* off or dialling a radio that never answers, Run returns.                 *)
ShutdownEndsRun == Cancelled ~> (pc = "done" /\ shut = "done")

(* app.go:323-328: "if we go N seconds without a single valid byte, treat   *)
(* it as a lost connection and force a reconnect".                          *)
DeadConnectionGuard == quiet <= DeadAfter
=============================================================================
