---------------------------- MODULE EventHistory ----------------------------
(***************************************************************************)
(* What the event store promises: readers see the newest events in arrival *)
(* order, at most one of them is not in the database yet, and a restart    *)
(* shows the newest part of the database again.                            *)
(***************************************************************************)
EXTENDS Integers, Sequences

CONSTANTS
  Events,      (* events that may arrive                                   *)
  Capacity     (* how many events readers can see                          *)

VARIABLES
  recent,      (* what readers see, oldest first                           *)
  owed,        (* the event added but not handed to the database           *)
  durable      (* the database, oldest first                               *)

vars == <<recent, owed, durable>>

(* The last n elements of s, or all of them.                                *)
LastN(s, n) == SubSeq(s, IF Len(s) > n THEN Len(s) - n + 1 ELSE 1, Len(s))

Suffixes(s) == {LastN(s, n) : n \in 0 .. Len(s)}

Init ==
  /\ recent = <<>>
  /\ owed = <<>>
  /\ durable = <<>>

Add(e) ==
  /\ owed = <<>>
  /\ recent' = LastN(Append(recent, e), Capacity)
  /\ owed' = <<e>>
  /\ UNCHANGED durable

(* The insert may fail.                                                     *)
Persist ==
  /\ owed # <<>>
  /\ durable' \in {durable, durable \o owed}
  /\ owed' = <<>>
  /\ UNCHANGED recent

(* Retention removes events from the old end.                               *)
Prune ==
  /\ durable' \in Suffixes(durable)
  /\ UNCHANGED <<recent, owed>>

(* A failing query brings back less than there is, never anything older     *)
(* than what it leaves out.                                                 *)
Restart ==
  /\ recent' \in Suffixes(LastN(durable, Capacity))
  /\ owed' = <<>>
  /\ UNCHANGED durable

Next == (\E e \in Events : Add(e)) \/ Persist \/ Prune \/ Restart

Spec == Init /\ [][Next]_vars
=============================================================================
