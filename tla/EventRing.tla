------------------------------ MODULE EventRing ------------------------------
(***************************************************************************)
(* The store's ring buffer of recent events and the events table behind    *)
(* it.  The read loop adds an event to the ring (one critical section) and *)
(* inserts its row afterwards; retention prunes rows; a restart loads the  *)
(* newest rows into a fresh ring and takes the total from a COUNT query.   *)
(***************************************************************************)
EXTENDS Integers, Sequences, SequencesExt

CONSTANTS
  Events,      (* events that may arrive                                   *)
  MaxEvents,   (* slots of the ring: New(10000)                            *)
  LoadLimit,   (* rows loaded at startup: LoadRecentEvents(10000)          *)
  MaxRows,     (* bound: rows in the table                                 *)
  MaxCount,    (* bound: events counted since the table was created        *)
  Nil          (* an empty slot                                            *)

ASSUME RingAssumption ==
  /\ MaxEvents \in Nat \ {0}
  /\ LoadLimit \in 0 .. MaxEvents
  /\ MaxRows \in Nat
  /\ MaxCount \in Nat
  /\ Nil \notin Events

VARIABLES
  events,      (* s.events                                                 *)
  head,        (* s.head, where the next event goes                        *)
  count,       (* s.count, the total shown to users                        *)
  owed,        (* the event between store.Add and InsertEvent              *)
  durable      (* the table events, in id order                            *)

vars == <<events, head, count, owed, durable>>
----------------------------------------------------------------------------
Slots == 0 .. MaxEvents - 1

LastN(s, n) == SubSeq(s, IF Len(s) > n THEN Len(s) - n + 1 ELSE 1, Len(s))

(* Faulty variant: the walk starts at the slot the next event goes to.      *)
BackAhead(i) == (head - i + MaxEvents) % MaxEvents

(* The slot i steps back from the newest event.                             *)
Back(i) == (head - 1 - i + MaxEvents) % MaxEvents

(* RecentEvents without a limit of its own: the walk from the newest event  *)
(* back over at most count slots, up to the first empty one.  A reader's    *)
(* limit and filter pick from this walk in its order.                       *)
RecentEvents ==
  LET total == IF count > MaxEvents THEN MaxEvents ELSE count
      full  == {n \in 0 .. total : \A i \in 0 .. n - 1 : events[Back(i)] # Nil}
      seen  == CHOOSE n \in full : \A k \in full : k <= n
  IN  [i \in 1 .. seen |-> events[Back(i - 1)]]

----------------------------------------------------------------------------
Init ==
  /\ events = [i \in Slots |-> Nil]
  /\ head = 0
  /\ count = 0
  /\ owed = <<>>
  /\ durable = <<>>

(* Faulty variant: the head does not wrap.                                  *)
AddUnwrapped(e) ==
  /\ owed = <<>>
  /\ count < MaxCount
  /\ events' = [events EXCEPT ![head % MaxEvents] = e]
  /\ head' = head + 1
  /\ count' = count + 1
  /\ owed' = <<e>>
  /\ UNCHANGED durable

(* store.Add, as far as the ring goes.                                      *)
Add(e) ==
  /\ owed = <<>>
  /\ count < MaxCount
  /\ events' = [events EXCEPT ![head] = e]
  /\ head' = (head + 1) % MaxEvents
  /\ count' = count + 1
  /\ owed' = <<e>>
  /\ UNCHANGED durable

(* InsertEvent; an SQL error is only logged.                                *)
InsertEvent ==
  /\ owed # <<>>
  /\ Len(durable) < MaxRows
  /\ durable' \in {durable, durable \o owed}
  /\ owed' = <<>>
  /\ UNCHANGED <<events, head, count>>

(* CleanupOld: rows come with increasing times, so the oldest go first.     *)
Cleanup ==
  /\ durable # <<>>
  /\ \E n \in 0 .. Len(durable) - 1 : durable' = LastN(durable, n)
  /\ UNCHANGED <<events, head, count, owed>>

(* The process dies and starts again: New, LoadRecentEvents (newest first,  *)
(* cut short by an error, then reversed), LoadEvents into the fresh ring,   *)
(* SetCounts from a query that yields 0 when it fails.                      *)
Restart ==
  /\ \E n \in 0 .. LoadLimit :
       LET loaded == LastN(durable, n) IN
         /\ events' = [i \in Slots |-> IF i < Len(loaded) THEN loaded[i + 1] ELSE Nil]
         /\ head' = Len(loaded) % MaxEvents
  /\ count' \in {Len(durable), 0}
  /\ owed' = <<>>
  /\ UNCHANGED durable

Next ==
  \/ \E e \in Events : Add(e)
  \/ InsertEvent
  \/ Cleanup
  \/ Restart

Spec == Init /\ [][Next]_vars
----------------------------------------------------------------------------
(* Type correctness of the ring and the table.                              *)
TypeOK ==
  /\ events \in [Slots -> Events \cup {Nil}]
  /\ head \in Slots
  /\ count \in Nat
  /\ owed \in {<<>>} \cup {<<e>> : e \in Events}
  /\ durable \in Seq(Events)

(* The ring and the table implement the history readers are promised        *)
(* (store.go:1500-1627, db.go:525-572): through wrap-arounds, restarts with *)
(* partial loads, a failed COUNT query and pruning under the reader's feet, *)
(* the walk shows the newest events in arrival order, without gap.          *)
History == INSTANCE EventHistory WITH recent <- Reverse(RecentEvents), Capacity <- MaxEvents
ImplementsHistory == History!Spec
=============================================================================
