------------------------- MODULE Connection_proofs -------------------------
(* Proofs about Connection, for every value of its timeouts and bounds.     *)
EXTENDS Connection, TLAPS

----------------------------------------------------------------------------
(* A timer that has passed its limit stays one above it.                    *)
LEMMA AdvanceBounded ==
  ASSUME NEW limit \in Nat, NEW timer \in 0 .. limit + 1
  PROVE  Advance(timer, limit) \in 0 .. limit + 1
BY DEF Advance

(* A timer or counter that starts over is in its range.                     *)
LEMMA Zero ==
  /\ 0 \in 0 .. HardCap + 1
  /\ 0 \in 0 .. IdleTimeout + 1
  /\ 0 \in 0 .. DeadAfter + 1
  /\ 0 \in 0 .. MaxAttempts
  /\ 0 < MaxAttempts
BY ConnectionAssumption

(* Every step keeps the loop, the timers and the shutdown within their      *)
(* types.                                                                   *)
LEMMA TypeStep == TypeOK /\ [Next]_vars => TypeOK'
<1> SUFFICES ASSUME TypeOK, [Next]_vars PROVE TypeOK'
  OBVIOUS
<1> USE ConnectionAssumption DEF TypeOK, Kinds, NoFrame
<1>1. CASE StartConnect
  BY <1>1 DEF StartConnect, phase, timers
<1>2. CASE StartHandshake
  BY <1>2, Zero DEF StartHandshake, phase
<1>3. CASE Top
  BY <1>3 DEF Top, connection, phase, timers
<1>4. CASE ReadError \/ ReadReset
  BY <1>4 DEF ReadError, ReadReset, phase, timers
<1>5. CASE Backoff
  BY <1>5 DEF Backoff, connection, phase, timers
<1>6. CASE ReconnectFails
  BY <1>6 DEF ReconnectFails, connection, phase, timers
<1>7. CASE Rehandshake
  <2>1. asked' \in BOOLEAN
    BY <1>7 DEF Rehandshake
  <2>2. age' \in 0 .. HardCap + 1 /\ idle' \in 0 .. IdleTimeout + 1
    BY <1>7, Zero DEF Rehandshake
  <2> QED
    BY <1>7, <2>1, <2>2 DEF Rehandshake
<1>8. CASE Handle
  BY <1>8, Zero DEF Handle, connection
<1>9. CASE StoreEvent
  BY <1>9 DEF StoreEvent, connection, phase, timers
<1>10. CASE InsertEvent
  BY <1>10 DEF InsertEvent, connection, phase, timers
<1>11. CASE ReadFrame
  BY <1>11 DEF ReadFrame, connection, phase
<1>12. CASE ReadNoise
  BY <1>12 DEF ReadNoise, connection, phase
<1>13. CASE Reconnect
  BY <1>13, Zero DEF Reconnect, phase
<1>14. CASE Cancel
  BY <1>14 DEF Cancel, loopVars, connection, phase, timers
<1>15. CASE ShutdownStep
  BY <1>15 DEF ShutdownStep, StopWeb, CloseReader, CloseStores, loopVars,
               connection, phase, timers
<1>16. CASE LinkBreaks \/ LinkDies
  BY <1>16 DEF LinkBreaks, LinkDies, loopVars, phase, timers
<1>17. CASE Tick
  <2>1. age' \in 0 .. HardCap + 1 /\ idle' \in 0 .. IdleTimeout + 1
    BY <1>17, AdvanceBounded DEF Tick
  <2>2. quiet' \in 0 .. DeadAfter + 1
    BY <1>17, AdvanceBounded DEF Tick
  <2> QED
    BY <1>17, <2>1, <2>2 DEF Tick, loopVars, connection, phase
<1>18. CASE UNCHANGED vars
  BY <1>18 DEF vars, connection, phase, timers
<1> QED
  BY <1>1, <1>2, <1>3, <1>4, <1>5, <1>6, <1>7, <1>8, <1>9, <1>10, <1>11, <1>12,
     <1>13, <1>14, <1>15, <1>16, <1>17, <1>18 DEF Next, LoopStep

(* The loop, its timers and the shutdown stay within their types.           *)
THEOREM TypeCorrect == Spec => []TypeOK
<1>1. Init => TypeOK
  BY Zero DEF Init, TypeOK, NoFrame, Kinds
<1> QED
  BY <1>1, TypeStep, PTL DEF Spec

----------------------------------------------------------------------------
(* Outside the reconnect, configNodes is never left over from a lost        *)
(* connection: it says that the connection in use delivered a MyInfo or a   *)
(* NodeInfo.  A frame in hand was read on that connection.                  *)
Fresh ==
  /\ configNodes => informed \/ pc = "install"
  /\ frame \in {"myinfo", "nodeinfo"} => informed

(* Every step keeps configNodes tied to the connection in use.              *)
LEMMA FreshStep == TypeOK /\ Fresh /\ [Next]_vars => Fresh'
<1> SUFFICES ASSUME TypeOK, Fresh, [Next]_vars PROVE Fresh'
  OBVIOUS
<1> USE DEF Fresh
<1>1. CASE \/ StartConnect \/ StartHandshake
           \/ Top \/ ReadError \/ ReadReset \/ Backoff
  BY <1>1 DEF StartConnect, StartHandshake, Top, ReadError, ReadReset, Backoff,
              phase
<1>2. CASE ReconnectFails \/ StoreEvent \/ InsertEvent \/ ReadNoise
  BY <1>2 DEF ReconnectFails, StoreEvent, InsertEvent, ReadNoise, phase
<1>3. CASE Handle
  BY <1>3 DEF Handle, NoFrame
<1>4. CASE ReadFrame
  BY <1>4 DEF ReadFrame, phase
<1>5. CASE Reconnect \/ Rehandshake
  BY <1>5 DEF Reconnect, Rehandshake, TypeOK, Kinds, phase
<1>6. CASE Cancel \/ ShutdownStep \/ LinkBreaks \/ LinkDies \/ Tick
  BY <1>6 DEF Cancel, ShutdownStep, StopWeb, CloseReader, CloseStores, LinkBreaks,
              LinkDies, Tick, loopVars, phase
<1>7. CASE UNCHANGED vars
  BY <1>7 DEF vars, phase
<1> QED
  BY <1>1, <1>2, <1>3, <1>4, <1>5, <1>6, <1>7 DEF Next, LoopStep

(* Only Handle ends a config phase, and it does so for a reason that stems  *)
(* from the connection in use.                                              *)
LEMMA PhaseStep ==
  TypeOK /\ Fresh /\ [Next]_vars =>
    [configPhase /\ ~ configPhase' =>
       \/ frame = "complete"
       \/ informed /\ idle > IdleTimeout
       \/ age > HardCap]_vars
<1> SUFFICES ASSUME TypeOK, Fresh, Next, configPhase, ~ configPhase'
             PROVE  \/ frame = "complete"
                    \/ informed /\ idle > IdleTimeout
                    \/ age > HardCap
  OBVIOUS
<1>1. CASE Handle
  BY <1>1 DEF Handle, NetTrips, Fresh
<1>2. CASE Reconnect \/ Rehandshake
  BY <1>2 DEF Reconnect, Rehandshake, phase
<1>3. CASE \/ StartConnect \/ StartHandshake
           \/ Top \/ ReadError \/ ReadReset \/ Backoff
  BY <1>3 DEF StartConnect, StartHandshake, Top, ReadError, ReadReset, Backoff,
              phase
<1>4. CASE ReconnectFails \/ StoreEvent \/ InsertEvent
  BY <1>4 DEF ReconnectFails, StoreEvent, InsertEvent, phase
<1>5. CASE ReadFrame \/ ReadNoise
  BY <1>5 DEF ReadFrame, ReadNoise, phase
<1>6. CASE Cancel \/ ShutdownStep \/ LinkBreaks \/ LinkDies \/ Tick
  BY <1>6 DEF Cancel, ShutdownStep, StopWeb, CloseReader, CloseStores, LinkBreaks,
              LinkDies, Tick, loopVars, phase
<1> QED
  BY <1>1, <1>2, <1>3, <1>4, <1>5, <1>6 DEF Next, LoopStep

(* Whatever the timeouts, a connection turns live only for a reason of its  *)
(* own: its ConfigComplete, a pause after its own NodeInfo, its hard cap.   *)
THEOREM PhaseCorrect == Spec => LiveForAReason
<1>1. Init => TypeOK /\ Fresh
  BY Zero DEF Init, TypeOK, NoFrame, Kinds, Fresh
<1>2. TypeOK /\ Fresh /\ [Next]_vars => (TypeOK /\ Fresh)'
  BY TypeStep, FreshStep
<1> QED
  BY <1>1, <1>2, PhaseStep, PTL DEF Spec, LiveForAReason
=============================================================================
