---------------------------- MODULE MCAutoNotify ----------------------------
(* Instances of AutoNotify for TLC, with the dashboard's answers on top.    *)
EXTENDS NotifyStatus, TLC

CONSTANTS n1, n2, r1

TwoNodes   == {n1, n2}
OneRequest == {r1}
Symmetry   == Permutations(TwoNodes)

Conf(enabled, dry, cooldown, max, minAge) ==
  [enabled |-> enabled, dry |-> dry, cooldown |-> cooldown, max |-> max,
   minAge |-> minAge]

(* Live: one delivery per window of one tick, a cooldown that outlasts the  *)
(* window, and two ticks of grace, so that a flag has to survive a minute   *)
(* tick in between.  Patient: two deliveries per window and one tick of     *)
(* grace, so that either cooldown or grace can end later and neither waits  *)
(* for a free slot.  LiveOff is Live switched off: with two ticks of grace  *)
(* a node may be gone for a tick while it is.  Short, ShortDry, ShortOff:   *)
(* settings to switch between.                                              *)
Live     == Conf(TRUE, FALSE, 2, 1, 2)
LiveOff  == Conf(FALSE, FALSE, 2, 1, 2)
Patient  == Conf(TRUE, FALSE, 2, 2, 1)
Short    == Conf(TRUE, FALSE, 2, 2, 0)
ShortDry == Conf(TRUE, TRUE, 1, 1, 0)
ShortOff == Conf(FALSE, FALSE, 2, 2, 0)

Changing    == {Short, ShortDry, ShortOff}
Switching   == {Live, LiveOff}
AllSettings == {Patient} \cup Switching \cup Changing
=============================================================================
