-------------------------- MODULE EventRing_proofs --------------------------
(***************************************************************************)
(* Proofs about the ring and the events table, for every set of events and *)
(* every size: type correctness, and that ring and table implement the     *)
(* history of EventHistory.  Then proofs about the stream, for every       *)
(* capacity of the channel and every number of rows and events, and about  *)
(* ring, stream and schema side by side, as MCEvents has them.             *)
(***************************************************************************)
EXTENDS MCEvents, TLAPS, SequenceTheorems, WellFoundedInduction

----------------------------------------------------------------------------
(* Sequences.                                                               *)

(* The end of a sequence, element by element.                               *)
LEMMA SuffixIs ==
  ASSUME NEW T, NEW s \in Seq(T), NEW m \in 0 .. Len(s),
         NEW a, a = Len(s) - m + 1
  PROVE  /\ SubSeq(s, a, Len(s)) \in Seq(T)
         /\ Len(SubSeq(s, a, Len(s))) = m
         /\ \A i \in 1 .. m : SubSeq(s, a, Len(s))[i] = s[Len(s) - m + i]
<1>1. Len(s) \in Nat /\ a \in Int /\ a >= 1
  OBVIOUS
<1>2. SubSeq(s, a, Len(s)) \in Seq(T)
  BY <1>1
<1>3. Len(SubSeq(s, a, Len(s))) = m
  BY <1>1
<1>4. \A i \in 1 .. m : SubSeq(s, a, Len(s))[i] = s[Len(s) - m + i]
  BY <1>1
<1> QED BY <1>2, <1>3, <1>4

(* The last n elements of a longer sequence, and of a shorter one.          *)
LEMMA LastNShort ==
  ASSUME NEW T, NEW s \in Seq(T), NEW n \in Nat, n <= Len(s)
  PROVE  /\ LastN(s, n) \in Seq(T)
         /\ Len(LastN(s, n)) = n
         /\ \A i \in 1 .. n : LastN(s, n)[i] = s[Len(s) - n + i]
<1> DEFINE a == IF Len(s) > n THEN Len(s) - n + 1 ELSE 1
<1>1. a = Len(s) - n + 1 /\ n \in 0 .. Len(s)
  OBVIOUS
<1>2. LastN(s, n) = SubSeq(s, a, Len(s))
  BY DEF LastN
<1> HIDE DEF a
<1> QED BY <1>1, <1>2, SuffixIs

LEMMA LastNLong ==
  ASSUME NEW T, NEW s \in Seq(T), NEW n \in Nat, n >= Len(s)
  PROVE  LastN(s, n) = s
<1> DEFINE a == IF Len(s) > n THEN Len(s) - n + 1 ELSE 1
<1>1. a = 1
  OBVIOUS
<1>2. LastN(s, n) = SubSeq(s, a, Len(s))
  BY DEF LastN
<1> HIDE DEF a
<1> QED BY <1>1, <1>2, SubSeqFull

(* The tail of a sequence is a tail of any longer tail.                     *)
LEMMA LastNOfLastN ==
  ASSUME NEW T, NEW s \in Seq(T), NEW n \in Nat, NEW k \in Nat, n <= k
  PROVE  /\ LastN(s, n) \in Seq(T)
         /\ Len(LastN(s, n)) \in 0 .. Len(s) /\ Len(LastN(s, n)) <= n
         /\ Len(LastN(s, n)) <= Len(LastN(s, k))
         /\ LastN(s, n) = LastN(LastN(s, k), Len(LastN(s, n)))
<1>0. Len(s) \in Nat
  OBVIOUS
<1>1. CASE Len(s) <= n
  <2>1. LastN(s, n) = s /\ LastN(s, k) = s
    BY <1>0, <1>1, LastNLong
  <2>2. LastN(s, Len(s)) = s
    BY <1>0, LastNLong
  <2> QED BY <1>0, <1>1, <2>1, <2>2
<1>2. CASE n < Len(s) /\ Len(s) <= k
  <2>1. LastN(s, k) = s
    BY <1>0, <1>2, LastNLong
  <2>2. LastN(s, n) \in Seq(T) /\ Len(LastN(s, n)) = n
    BY <1>0, <1>2, LastNShort
  <2> QED BY <1>0, <1>2, <2>1, <2>2
<1>3. CASE k < Len(s)
  <2> DEFINE t == LastN(s, k)
  <2>1. t \in Seq(T) /\ Len(t) = k /\ \A i \in 1 .. k : t[i] = s[Len(s) - k + i]
    BY <1>0, <1>3, LastNShort
  <2>2. /\ LastN(s, n) \in Seq(T) /\ Len(LastN(s, n)) = n
        /\ \A i \in 1 .. n : LastN(s, n)[i] = s[Len(s) - n + i]
    BY <1>0, <1>3, LastNShort
  <2> HIDE DEF t
  <2>3. /\ LastN(t, n) \in Seq(T) /\ Len(LastN(t, n)) = n
        /\ \A i \in 1 .. n : LastN(t, n)[i] = t[k - n + i]
    BY <2>1, LastNShort
  <2>4. ASSUME NEW i \in 1 .. n PROVE LastN(t, n)[i] = LastN(s, n)[i]
    <3>1. k - n + i \in 1 .. k /\ Len(s) - k + (k - n + i) = Len(s) - n + i
      BY <1>0
    <3> QED BY <2>1, <2>2, <2>3, <3>1
  <2>5. LastN(t, n) = LastN(s, n)
    BY <2>2, <2>3, <2>4, SeqEqual
  <2> QED BY <1>0, <1>3, <2>1, <2>2, <2>5 DEF t
<1> QED BY <1>0, <1>1, <1>2, <1>3

----------------------------------------------------------------------------
(* The walk.                                                                *)

(* Stepping around the ring.                                                *)
LEMMA Wrap ==
  ASSUME NEW x \in 0 .. 2 * MaxEvents - 1
  PROVE  x % MaxEvents = IF x < MaxEvents THEN x ELSE x - MaxEvents
BY RingAssumption

BackFact ==
  head \in Slots => \A i \in Slots :
    /\ Back(i) = IF i < head THEN head - 1 - i ELSE head - 1 - i + MaxEvents
    /\ Back(i) \in Slots

LEMMA BackIs == BackFact
<1> SUFFICES ASSUME head \in Slots, NEW i \in Slots
             PROVE  /\ Back(i) = IF i < head THEN head - 1 - i ELSE head - 1 - i + MaxEvents
                    /\ Back(i) \in Slots
  BY DEF BackFact
<1>1. head - 1 - i + MaxEvents \in 0 .. 2 * MaxEvents - 1
  BY RingAssumption DEF Slots
<1>2. Back(i) = IF i < head THEN head - 1 - i ELSE head - 1 - i + MaxEvents
  BY <1>1, Wrap, RingAssumption DEF Back, Slots
<1> QED BY <1>2, RingAssumption DEF Slots

(* After an Add every slot is one step further from the newest event than   *)
(* before, and the one written to is the newest.                            *)
LEMMA BackMoves ==
  ASSUME head \in Slots, head' = (head + 1) % MaxEvents
  PROVE  /\ head' \in Slots
         /\ Back(0)' = head
         /\ \A i \in 0 .. MaxEvents - 2 : Back(i + 1)' = Back(i) /\ Back(i) # head
<1>1. head' = IF head + 1 < MaxEvents THEN head + 1 ELSE 0
  BY Wrap, RingAssumption DEF Slots
<1>2. head' \in Slots /\ 0 \in Slots
  BY <1>1, RingAssumption DEF Slots
<1>3. BackFact'
  BY BackIs, PTL
<1>4. \A i \in Slots : Back(i)' = IF i < head' THEN head' - 1 - i ELSE head' - 1 - i + MaxEvents
  BY <1>2, <1>3 DEF BackFact
<1>5. \A i \in Slots : Back(i) = IF i < head THEN head - 1 - i ELSE head - 1 - i + MaxEvents
  BY BackIs DEF BackFact
<1>6. Back(0)' = head
  BY <1>1, <1>2, <1>4, RingAssumption DEF Slots
<1>7. ASSUME NEW i \in 0 .. MaxEvents - 2
      PROVE  Back(i + 1)' = Back(i) /\ Back(i) # head
  <2>1. i \in Slots /\ i + 1 \in Slots
    BY RingAssumption DEF Slots
  <2> QED BY <1>1, <1>4, <1>5, <2>1, RingAssumption DEF Slots
<1> QED BY <1>2, <1>6, <1>7

(* k slots back from the newest event are filled, and no more in a row.     *)
Depth(k) ==
  /\ k \in 0 .. MaxEvents
  /\ \A i \in 0 .. k - 1 : events[Back(i)] # Nil
  /\ k < MaxEvents => events[Back(k)] = Nil

LEMMA LeastElement ==
  ASSUME NEW S, S \subseteq Nat, S # {}
  PROVE  \E x \in S : \A y \in S : x <= y
<1> DEFINE R == {p \in Nat \X Nat : p[1] < p[2]}
<1>1. IsWellFoundedOn(R, Nat)
  BY NatLessThanWellFounded DEF OpToRel
<1>2. \A x, y \in Nat : <<y, x>> \in R <=> y < x
  OBVIOUS
<1> HIDE DEF R
<1>3. PICK x \in S : \A y \in S : ~ (<<y, x>> \in R)
  BY <1>1, WFMin
<1>4. ASSUME NEW y \in S PROVE x <= y
  <2>1. x \in Nat /\ y \in Nat
    OBVIOUS
  <2>2. ~ (y < x)
    BY <1>2, <1>3, <2>1
  <2> QED BY <2>1, <2>2
<1> QED BY <1>4

DepthFact == \E k : Depth(k)

LEMMA DepthExists == DepthFact
<1> DEFINE stops == {k \in 0 .. MaxEvents : k = MaxEvents \/ events[Back(k)] = Nil}
<1>1. stops \subseteq Nat /\ MaxEvents \in stops
  BY RingAssumption
<1> HIDE DEF stops
<1>2. PICK k \in stops : \A m \in stops : k <= m
  BY <1>1, LeastElement
<1>3. ASSUME NEW i \in 0 .. k - 1 PROVE events[Back(i)] # Nil
  <2>1. i \in 0 .. MaxEvents /\ ~ (k <= i) /\ i # MaxEvents
    BY RingAssumption DEF stops
  <2>2. i \notin stops
    BY <1>2, <2>1
  <2> QED BY <2>1, <2>2 DEF stops
<1>4. k \in 0 .. MaxEvents /\ (k < MaxEvents => events[Back(k)] = Nil)
  BY RingAssumption DEF stops
<1>5. Depth(k)
  BY <1>3, <1>4 DEF Depth
<1> QED BY <1>5 DEF DepthFact

(* What readers see, oldest first: the v newest events, where v is how many *)
(* were counted or how many are there in a row, whichever is less.          *)
Newest(v) == [j \in 1 .. v |-> events[Back(v - j)]]

WalkFact ==
  \A k, v : count \in Nat /\ Depth(k) /\ v = (IF count < k THEN count ELSE k)
              => v \in 0 .. MaxEvents /\ Reverse(RecentEvents) = Newest(v)

LEMMA WalkIs == WalkFact
<1> SUFFICES ASSUME count \in Nat, NEW k, Depth(k),
                    NEW v, v = IF count < k THEN count ELSE k
             PROVE  v \in 0 .. MaxEvents /\ Reverse(RecentEvents) = Newest(v)
  BY DEF WalkFact
<1> DEFINE total == IF count > MaxEvents THEN MaxEvents ELSE count
           full  == {n \in 0 .. total : \A i \in 0 .. n - 1 : events[Back(i)] # Nil}
           passed  == CHOOSE n \in full : \A m \in full : m <= n
           walk  == [i \in 1 .. v |-> events[Back(i - 1)]]
<1>1. k \in Nat /\ v \in Nat /\ v <= k /\ v <= count /\ v <= MaxEvents /\ total \in Nat
  BY RingAssumption DEF Depth
<1>2. full = 0 .. v
  <2>1. ASSUME NEW n \in full PROVE n \in 0 .. v
    <3>1. n <= k
      <4> SUFFICES ASSUME k < n PROVE FALSE
        BY <1>1
      <4>1. k \in 0 .. n - 1 /\ k < MaxEvents
        BY <1>1, RingAssumption
      <4> QED BY <4>1 DEF Depth
    <3> QED BY <1>1, <3>1, RingAssumption
  <2>2. ASSUME NEW n \in 0 .. v PROVE n \in full
    <3>1. n \in 0 .. total
      BY <1>1, RingAssumption
    <3>2. \A i \in 0 .. n - 1 : i \in 0 .. k - 1
      BY <1>1
    <3> QED BY <3>1, <3>2 DEF Depth
  <2> QED BY <2>1, <2>2
<1>3. passed = v
  <2> HIDE DEF full
  <2>1. v \in full /\ \A m \in full : m <= v
    BY <1>1, <1>2
  <2>2. passed \in full /\ \A m \in full : m <= passed
    BY <2>1
  <2> QED BY <1>1, <1>2, <2>1, <2>2
<1>4. RecentEvents = walk
  <2>1. RecentEvents = [i \in 1 .. passed |-> events[Back(i - 1)]]
    BY DEF RecentEvents
  <2> QED BY <1>3, <2>1
<1>5. Len(walk) = v /\ \A j \in 1 .. v : walk[(v - j) + 1] = events[Back(v - j)]
  <2>1. \A j \in 1 .. v : (v - j) + 1 \in 1 .. v /\ (v - j) + 1 - 1 = v - j
    BY <1>1
  <2> QED BY <1>1, <2>1
<1> HIDE DEF walk
<1>6. Reverse(walk) = Newest(v)
  BY <1>5 DEF Reverse, Newest
<1> QED BY <1>1, <1>4, <1>6

(* It is a sequence of events.                                              *)
LEMMA NewestType ==
  ASSUME TypeOK, NEW k, Depth(k), NEW v \in 0 .. k
  PROVE  Newest(v) \in Seq(Events) /\ Len(Newest(v)) = v
<1>1. k \in 0 .. MaxEvents
  BY DEF Depth
<1>2. ASSUME NEW j \in 1 .. v PROVE events[Back(v - j)] \in Events
  <2>1. v - j \in 0 .. k - 1 /\ v - j \in Slots
    BY <1>1, RingAssumption DEF Slots
  <2>2. Back(v - j) \in Slots
    BY <2>1, BackIs DEF BackFact, TypeOK
  <2> QED BY <2>1, <2>2 DEF Depth, TypeOK
<1>3. Newest(v) \in [1 .. v -> Events] /\ v \in Nat
  BY <1>1, <1>2 DEF Newest
<1> HIDE DEF Newest
<1> QED BY <1>3

(* The same walk, seen from two states with the same ring.                  *)
LEMMA WalkUnchanged ==
  ASSUME UNCHANGED <<events, head, count>>
  PROVE  Reverse(RecentEvents)' = Reverse(RecentEvents)
BY DEF RecentEvents, Back

----------------------------------------------------------------------------
(* Type correctness.                                                        *)

LEMMA TypeInit == Init => TypeOK
BY RingAssumption DEF Init, TypeOK, Slots

LEMMA TypeStep == TypeOK /\ [Next]_vars => TypeOK'
<1> SUFFICES ASSUME TypeOK, [Next]_vars PROVE TypeOK'
  OBVIOUS
<1>1. ASSUME NEW e \in Events, Add(e) PROVE TypeOK'
  BY <1>1, BackMoves DEF TypeOK, Add
<1>2. CASE InsertEvent
  <2>1. PICK e \in Events : owed = <<e>>
    BY <1>2 DEF TypeOK, InsertEvent
  <2>2. durable \o <<e>> \in Seq(Events)
    BY DEF TypeOK
  <2> QED BY <1>2, <2>1, <2>2 DEF TypeOK, InsertEvent
<1>3. CASE Cleanup
  <2>1. durable' \in Seq(Events)
    BY <1>3, LastNOfLastN DEF Cleanup, TypeOK
  <2> QED BY <1>3, <2>1 DEF TypeOK, Cleanup
<1>4. CASE Restart
  <2> PICK n \in 0 .. LoadLimit :
        LET loaded == LastN(durable, n) IN
         /\ events' = [i \in Slots |-> IF i < Len(loaded) THEN loaded[i + 1] ELSE Nil]
         /\ head' = Len(loaded) % MaxEvents
    BY <1>4 DEF Restart
  <2> DEFINE loaded == LastN(durable, n)
  <2>1. loaded \in Seq(Events) /\ Len(loaded) \in 0 .. MaxEvents
    BY LastNOfLastN, RingAssumption DEF TypeOK
  <2>2. /\ events' = [i \in Slots |-> IF i < Len(loaded) THEN loaded[i + 1] ELSE Nil]
        /\ head' = Len(loaded) % MaxEvents
    OBVIOUS
  <2> HIDE DEF loaded
  <2>3. events' \in [Slots -> Events \cup {Nil}]
    BY <2>1, <2>2 DEF Slots
  <2>4. head' \in Slots
    <3>1. MaxEvents \in Nat \ {0} /\ Len(loaded) \in Nat
      BY <2>1, RingAssumption
    <3>2. Len(loaded) % MaxEvents \in 0 .. MaxEvents - 1
      BY <3>1
    <3> QED BY <2>2, <3>2 DEF Slots
  <2>5. count' \in Nat
    BY <1>4 DEF Restart, TypeOK
  <2> QED BY <1>4, <2>3, <2>4, <2>5 DEF TypeOK, Restart
<1>5. CASE UNCHANGED vars
  BY <1>5 DEF TypeOK, vars
<1> QED BY <1>1, <1>2, <1>3, <1>4, <1>5 DEF Next

(* For all constants ring and table stay within their types                 *)
(* (store.go:730-760, 1601-1627).                                           *)
THEOREM TypeCorrect == Spec => []TypeOK
BY TypeInit, TypeStep, PTL DEF Spec

----------------------------------------------------------------------------
(* The refinement: every step of the ring and the table is a step of the    *)
(* history, or leaves it alone.                                             *)

LEMMA SameLastN == \A s, m : History!LastN(s, m) = LastN(s, m)
BY DEF History!LastN, LastN

LEMMA InitMaps == TypeOK /\ Init => History!Init
<1> SUFFICES ASSUME TypeOK, Init PROVE History!Init
  OBVIOUS
<1>1. PICK k : Depth(k)
  BY DepthExists DEF DepthFact
<1>2. 0 = IF count < k THEN count ELSE k
  <2>1. k \in Nat /\ count = 0
    BY <1>1, RingAssumption DEF Init, Depth
  <2> QED BY <2>1
<1>3. Reverse(RecentEvents) = Newest(0)
  BY <1>1, <1>2, WalkIs DEF WalkFact, TypeOK
<1>4. Newest(0) = <<>>
  BY DEF Newest
<1> QED BY <1>3, <1>4 DEF Init, History!Init

(* One more slot is in the row, unless the ring was full of them.           *)
LEMMA AddDepth ==
  ASSUME TypeOK, NEW e \in Events, Add(e), NEW k, Depth(k),
         NEW l, l = IF k < MaxEvents THEN k + 1 ELSE MaxEvents
  PROVE  Depth(l)'
<1>1. k \in 0 .. MaxEvents /\ l \in 1 .. MaxEvents /\ l - 1 <= k
  BY RingAssumption DEF Depth
<1>2. /\ Back(0)' = head
      /\ \A i \in 0 .. MaxEvents - 2 : Back(i + 1)' = Back(i) /\ Back(i) # head
  BY BackMoves DEF TypeOK, Add
<1>3. /\ events'[head] = e
      /\ \A s \in Slots : s # head => events'[s] = events[s]
  BY DEF Add, TypeOK
<1>4. ASSUME NEW i \in 0 .. MaxEvents - 2 PROVE events'[Back(i + 1)'] = events[Back(i)]
  <2>1. i \in Slots
    BY RingAssumption DEF Slots
  <2>2. Back(i) \in Slots
    BY <2>1, BackIs DEF BackFact, TypeOK
  <2> QED BY <1>2, <1>3, <2>2
<1>5. ASSUME NEW i \in 0 .. l - 1 PROVE events'[Back(i)'] # Nil
  <2>1. CASE i = 0
    BY <1>2, <1>3, <2>1, RingAssumption
  <2>2. CASE i # 0
    <3>1. i - 1 \in 0 .. MaxEvents - 2 /\ i - 1 \in 0 .. k - 1 /\ (i - 1) + 1 = i
      BY <1>1, <2>2, RingAssumption
    <3>2. events'[Back((i - 1) + 1)'] = events[Back(i - 1)]
      BY <1>4, <3>1
    <3> QED BY <3>1, <3>2 DEF Depth
  <2> QED BY <2>1, <2>2
<1>6. ASSUME l < MaxEvents PROVE events'[Back(l)'] = Nil
  <2>1. k \in 0 .. MaxEvents - 2 /\ l = k + 1 /\ k < MaxEvents
    BY <1>1, <1>6, RingAssumption
  <2> QED BY <1>4, <2>1 DEF Depth
<1> QED BY <1>1, <1>5, <1>6, RingAssumption DEF Depth

(* What readers see after an Add: the event behind what they saw before, as *)
(* far as it fits.                                                          *)
LEMMA AddNewest ==
  ASSUME TypeOK, TypeOK', NEW e \in Events, Add(e),
         NEW k, Depth(k), NEW l \in 1 .. MaxEvents, Depth(l)',
         NEW v \in 0 .. k, NEW w \in 0 .. l,
         v < MaxEvents => w = v + 1, v = MaxEvents => w = MaxEvents
  PROVE  Newest(w)' = LastN(Append(Newest(v), e), MaxEvents)
<1> DEFINE s == Newest(v)
           t == Newest(w)'
<1>n. /\ v \in Nat /\ w \in Nat /\ MaxEvents \in Nat \ {0}
      /\ w <= l /\ l <= MaxEvents /\ v <= MaxEvents
  <2>1. k \in 0 .. MaxEvents
    BY DEF Depth
  <2> QED BY <2>1, RingAssumption
<1>6. s \in Seq(Events) /\ Len(s) = v /\ \A j \in 1 .. v : s[j] = events[Back(v - j)]
  BY NewestType DEF Newest
<1>7. \A j \in 1 .. w : t[j] = events'[Back(w - j)']
  BY DEF Newest
<1>8. t \in Seq(Events) /\ Len(t) = w
  <2>1. ASSUME NEW j \in 1 .. w PROVE events'[Back(w - j)'] \in Events
    <3>1. w - j \in 0 .. l - 1 /\ w - j \in Slots
      BY <1>n DEF Slots
    <3>2. BackFact'
      BY BackIs, PTL
    <3>3. Back(w - j)' \in Slots
      BY <3>1, <3>2 DEF BackFact, TypeOK
    <3> QED BY <3>1, <3>3 DEF Depth, TypeOK
  <2>2. t \in [1 .. w -> Events] /\ w \in Nat
    BY <1>n, <2>1 DEF Newest
  <2> HIDE DEF t
  <2> QED BY <2>2
<1>9. /\ Back(0)' = head
      /\ \A i \in 0 .. MaxEvents - 2 : Back(i + 1)' = Back(i) /\ Back(i) # head
      /\ \A i \in Slots : Back(i) \in Slots
  BY BackMoves, BackIs DEF TypeOK, Add, BackFact
<1>10. events'[head] = e /\ \A i \in Slots : i # head => events'[i] = events[i]
  BY DEF Add, TypeOK
<1>11. ASSUME NEW j \in 1 .. w
       PROVE  t[j] = IF j = w THEN e ELSE events[Back(w - 1 - j)]
  <2>1. CASE j = w
    BY <1>n, <1>7, <1>9, <1>10, <2>1
  <2>2. CASE j # w
    <3> DEFINE i == w - 1 - j
    <3>1. i \in 0 .. MaxEvents - 2 /\ i \in Slots /\ i + 1 = w - j
      BY <1>n, <2>2 DEF Slots
    <3>2. Back(w - j)' = Back(i) /\ Back(i) # head /\ Back(i) \in Slots
      BY <1>9, <3>1
    <3> QED BY <1>7, <1>10, <2>2, <3>2
  <2> QED BY <2>1, <2>2
<1> DEFINE a == Append(s, e)
<1> HIDE DEF s, t
<1>12. /\ a \in Seq(Events) /\ Len(a) = v + 1 /\ a[v + 1] = e
       /\ \A j \in 1 .. v : a[j] = s[j]
  BY <1>n, <1>6
<1> HIDE DEF a
<1>13. t = LastN(a, MaxEvents)
  <2>1. CASE v < MaxEvents
    <3>1. LastN(a, MaxEvents) = a
      BY <1>n, <1>12, <2>1, LastNLong, RingAssumption
    <3>2. ASSUME NEW j \in 1 .. w PROVE t[j] = a[j]
      BY <1>n, <1>6, <1>11, <1>12, <2>1
    <3>3. t = a
      BY <1>n, <1>8, <1>12, <2>1, <3>2, SeqEqual
    <3> QED BY <3>1, <3>3
  <2>2. CASE v = MaxEvents
    <3> DEFINE b == LastN(a, MaxEvents)
    <3>1. /\ b \in Seq(Events) /\ Len(b) = MaxEvents
          /\ \A j \in 1 .. MaxEvents : b[j] = a[Len(a) - MaxEvents + j]
      BY <1>n, <1>12, <2>2, LastNShort, RingAssumption
    <3> HIDE DEF b
    <3>2. ASSUME NEW j \in 1 .. w PROVE t[j] = b[j]
      <4>1. b[j] = a[j + 1] /\ w = MaxEvents /\ w = v
        BY <1>n, <1>12, <2>2, <3>1
      <4>2. CASE j = w
        BY <1>11, <1>12, <2>2, <4>1, <4>2
      <4>3. CASE j # w
        <5>1. j + 1 \in 1 .. v /\ v - (j + 1) = w - 1 - j
          BY <1>n, <4>1, <4>3
        <5> QED BY <1>6, <1>11, <1>12, <4>1, <4>3, <5>1
      <4> QED BY <4>2, <4>3
    <3>3. t = b
      BY <1>n, <1>8, <2>2, <3>1, <3>2, SeqEqual
    <3> QED BY <3>3 DEF b
  <2> QED BY <1>n, <2>1, <2>2, RingAssumption
<1> QED BY <1>13 DEF s, t, a

LEMMA AddMaps ==
  ASSUME TypeOK, TypeOK', NEW e \in Events, Add(e)
  PROVE  History!Add(e)
<1>1. PICK k : Depth(k)
  BY DepthExists DEF DepthFact
<1> DEFINE v == IF count < k THEN count ELSE k
           l == IF k < MaxEvents THEN k + 1 ELSE MaxEvents
<1>2. k \in 0 .. MaxEvents /\ count \in Nat /\ count' = count + 1
  BY <1>1 DEF Depth, TypeOK, Add
<1>3. PICK w : w = IF count' < l THEN count' ELSE l
  OBVIOUS
<1>4. /\ v \in 0 .. k /\ l \in 1 .. MaxEvents /\ w \in 0 .. l
      /\ v < MaxEvents => w = v + 1
      /\ v = MaxEvents => w = MaxEvents
  BY <1>2, <1>3, RingAssumption
<1>5. Depth(l)'
  BY <1>1, AddDepth
<1>6. Reverse(RecentEvents) = Newest(v)
  BY <1>1, <1>2, WalkIs DEF WalkFact
<1>7. Reverse(RecentEvents)' = Newest(w)'
  <2>1. WalkFact'
    BY WalkIs, PTL
  <2>2. count' \in Nat
    BY <1>2
  <2> QED BY <1>3, <1>5, <2>1, <2>2 DEF WalkFact
<1> HIDE DEF v, l
<1>8. Newest(w)' = LastN(Append(Newest(v), e), MaxEvents)
  BY <1>1, <1>4, <1>5, AddNewest
<1> QED BY <1>6, <1>7, <1>8, SameLastN DEF History!Add, Add

LEMMA PersistMaps == TypeOK /\ InsertEvent => History!Persist
BY WalkUnchanged DEF InsertEvent, History!Persist

LEMMA PruneMaps == TypeOK /\ Cleanup => History!Prune
<1> SUFFICES ASSUME TypeOK, Cleanup PROVE History!Prune
  OBVIOUS
<1>1. Reverse(RecentEvents)' = Reverse(RecentEvents)
  BY WalkUnchanged DEF Cleanup
<1>2. PICK n \in 0 .. Len(durable) - 1 : durable' = LastN(durable, n)
  BY DEF Cleanup
<1>3. n \in 0 .. Len(durable)
  BY DEF TypeOK
<1>4. durable' \in History!Suffixes(durable)
  BY <1>2, <1>3, SameLastN DEF History!Suffixes
<1> QED BY <1>1, <1>4 DEF Cleanup, History!Prune

(* A fresh ring with events in its first slots shows just them.             *)
LEMMA FreshWalk ==
  ASSUME TypeOK', NEW loaded \in Seq(Events), NEW l \in 0 .. MaxEvents,
         l = Len(loaded),
         events' = [i \in Slots |-> IF i < l THEN loaded[i + 1] ELSE Nil],
         head' = l % MaxEvents
  PROVE  Depth(l)' /\ Newest(l)' = loaded
<1>1. l \in Nat /\ MaxEvents \in Nat \ {0} /\ l <= MaxEvents
  BY RingAssumption
<1>2. head' = IF l < MaxEvents THEN l ELSE 0
  BY <1>1, Wrap
<1>3. BackFact'
  BY BackIs, PTL
<1>4. ASSUME NEW i \in Slots
      PROVE  Back(i)' = IF i < head' THEN head' - 1 - i ELSE head' - 1 - i + MaxEvents
  BY <1>3 DEF BackFact, TypeOK
<1>5. ASSUME NEW i \in 0 .. l - 1 PROVE events'[Back(i)'] = loaded[l - i]
  <2>1. i \in Slots /\ l - 1 - i \in Slots /\ l - 1 - i < l /\ (l - 1 - i) + 1 = l - i
    BY <1>1 DEF Slots
  <2>2. Back(i)' = l - 1 - i
    BY <1>1, <1>2, <1>4, <2>1
  <2>3. events'[l - 1 - i] = loaded[(l - 1 - i) + 1]
    BY <2>1
  <2> QED BY <2>1, <2>2, <2>3
<1>6. ASSUME NEW i \in 0 .. l - 1 PROVE events'[Back(i)'] # Nil
  <2>1. l - i \in 1 .. Len(loaded)
    BY <1>1
  <2>2. loaded[l - i] \in Events
    BY <2>1
  <2> QED BY <1>5, <2>2, RingAssumption
<1>7. ASSUME l < MaxEvents PROVE events'[Back(l)'] = Nil
  <2>1. l \in Slots /\ MaxEvents - 1 \in Slots /\ ~ (MaxEvents - 1 < l)
    BY <1>1, <1>7 DEF Slots
  <2>2. Back(l)' = MaxEvents - 1
    BY <1>1, <1>2, <1>4, <1>7, <2>1
  <2> QED BY <2>1, <2>2
<1>8. Depth(l)'
  BY <1>1, <1>6, <1>7 DEF Depth
<1>9. Newest(l)' = [j \in 1 .. l |-> events'[Back(l - j)']]
  BY DEF Newest
<1>10. ASSUME NEW j \in 1 .. l PROVE events'[Back(l - j)'] = loaded[j]
  <2>1. l - j \in 0 .. l - 1 /\ l - (l - j) = j
    BY <1>1
  <2> QED BY <1>5, <2>1
<1>11. Newest(l)' = [j \in 1 .. l |-> loaded[j]]
  BY <1>9, <1>10
<1>12. loaded = [j \in 1 .. l |-> loaded[j]]
  OBVIOUS
<1> QED BY <1>8, <1>11, <1>12

(* A restart shows what was loaded, or nothing when the count failed.       *)
LEMMA RestartMaps == TypeOK /\ TypeOK' /\ Restart => History!Restart
<1> SUFFICES ASSUME TypeOK, TypeOK', Restart PROVE History!Restart
  OBVIOUS
<1> DEFINE tail == LastN(durable, MaxEvents)
<1>1. PICK n \in 0 .. LoadLimit :
        LET loaded == LastN(durable, n) IN
          /\ events' = [i \in Slots |-> IF i < Len(loaded) THEN loaded[i + 1] ELSE Nil]
          /\ head' = Len(loaded) % MaxEvents
  BY DEF Restart
<1> DEFINE loaded == LastN(durable, n)
<1>2. /\ tail \in Seq(Events)
      /\ loaded \in Seq(Events)
      /\ Len(loaded) \in 0 .. Len(durable) /\ Len(loaded) \in 0 .. MaxEvents
      /\ Len(loaded) \in 0 .. Len(tail)
      /\ loaded = LastN(tail, Len(loaded))
  <2>1. n \in Nat /\ n <= MaxEvents /\ MaxEvents \in Nat
    BY RingAssumption
  <2> QED BY <2>1, LastNOfLastN DEF TypeOK
<1>3. PICK l \in 0 .. MaxEvents : l = Len(loaded)
  BY <1>2
<1>4. Depth(l)' /\ Newest(l)' = loaded
  <2>1. /\ events' = [i \in Slots |-> IF i < l THEN loaded[i + 1] ELSE Nil]
        /\ head' = l % MaxEvents
    BY <1>1, <1>3
  <2> HIDE DEF loaded
  <2> QED BY <1>2, <1>3, <2>1, FreshWalk
<1>5. WalkFact'
  BY WalkIs, PTL
<1>6. LastN(tail, 0) = <<>> /\ 0 \in 0 .. Len(tail)
  <2> HIDE DEF tail
  <2>1. LastN(tail, 0) \in Seq(Events) /\ Len(LastN(tail, 0)) = 0 /\ Len(tail) \in Nat
    BY <1>2, LastNShort
  <2> QED BY <2>1
<1> HIDE DEF loaded, tail
<1>7. \E m \in 0 .. Len(tail) : Reverse(RecentEvents)' = LastN(tail, m)
  <2>1. CASE count' = 0
    <3>1. 0 = IF count' < l THEN count' ELSE l
      BY <1>2, <2>1
    <3>2. Reverse(RecentEvents)' = Newest(0)'
      BY <1>4, <1>5, <2>1, <3>1 DEF WalkFact
    <3>3. Newest(0)' = <<>>
      BY DEF Newest
    <3> QED BY <1>6, <3>2, <3>3
  <2>2. CASE count' = Len(durable)
    <3>1. count' \in Nat /\ l = IF count' < l THEN count' ELSE l
      BY <1>2, <1>3, <2>2 DEF TypeOK
    <3>2. Reverse(RecentEvents)' = Newest(l)'
      BY <1>4, <1>5, <3>1 DEF WalkFact
    <3> QED BY <1>2, <1>3, <1>4, <3>2
  <2> QED BY <2>1, <2>2 DEF Restart
<1>8. Reverse(RecentEvents)' \in History!Suffixes(History!LastN(durable, MaxEvents))
  BY <1>7, SameLastN DEF History!Suffixes, tail
<1> QED BY <1>8 DEF Restart, History!Restart

LEMMA StepMaps == TypeOK /\ TypeOK' /\ [Next]_vars => [History!Next]_(History!vars)
<1> SUFFICES ASSUME TypeOK, TypeOK', [Next]_vars PROVE [History!Next]_(History!vars)
  OBVIOUS
<1>1. ASSUME NEW e \in Events, Add(e) PROVE History!Next
  BY <1>1, AddMaps DEF History!Next
<1>2. CASE InsertEvent
  BY <1>2, PersistMaps DEF History!Next
<1>3. CASE Cleanup
  BY <1>3, PruneMaps DEF History!Next
<1>4. CASE Restart
  BY <1>4, RestartMaps DEF History!Next
<1>5. CASE UNCHANGED vars
  BY <1>5, WalkUnchanged DEF vars, History!vars
<1> QED BY <1>1, <1>2, <1>3, <1>4, <1>5 DEF Next

(* For all constants the ring and the table implement the history readers   *)
(* are promised (store.go:1500-1627, db.go:525-572): initial states are     *)
(* initial states of the history, every step is a step of it or invisible.  *)
THEOREM HistoryImplemented == Spec => ImplementsHistory
<1>1. TypeOK /\ Init => History!Init
  BY InitMaps
<1>2. TypeOK /\ TypeOK' /\ [Next]_vars => [History!Next]_(History!vars)
  BY StepMaps
<1> QED BY <1>1, <1>2, TypeCorrect, PTL DEF Spec, ImplementsHistory, History!Spec
----------------------------------------------------------------------------
(* What a browser's subscription has in it, after the last event handled.   *)
Underway == <<seen>> \o wire \o chan

Rising(s) == \A i \in 1 .. Len(s) - 1 : s[i] < s[i + 1]

(* The last event of a subscription is not newer than pub.  As long as the  *)
(* channel was never full, it has the newest events up to pub.              *)
Carries(s, last, full) ==
  /\ s \in Seq(Nat)
  /\ Len(s) >= 1
  /\ Rising(s)
  /\ s[Len(s)] <= last
  /\ ~ full => \A i \in 1 .. Len(s) : s[i] = last - Len(s) + i

(* A channel and a wire are empty while nobody is subscribed.               *)
ChannelInv ==
  /\ added \in 0 .. StreamEvents /\ pub \in Nat /\ pub \in {added, added - 1}
  /\ handler \in {"off", "headers", "on"}
  /\ seen \in Nat
  /\ wire \in Seq(Nat)
  /\ chan \in Seq(Nat) /\ Len(chan) <= ChannelSlots
  /\ dropped \in BOOLEAN
  /\ handler # "on" => wire = <<>> /\ chan = <<>>

StreamInv == ChannelInv /\ (handler = "on" => Carries(Underway, pub, dropped))
----------------------------------------------------------------------------
(* A new event at the end.                                                  *)
LEMMA CarriesMore ==
  ASSUME NEW s, NEW m \in Nat, NEW x \in Nat, x = m + 1, NEW full \in BOOLEAN,
         Carries(s, m, full)
  PROVE  Carries(Append(s, x), x, full)
<1> DEFINE t == Append(s, x)
<1>1. /\ s \in Seq(Nat) /\ Len(s) \in Nat /\ Len(s) >= 1 /\ s[Len(s)] <= m
      /\ \A i \in 1 .. Len(s) : s[i] \in Nat
  BY DEF Carries
<1>2. /\ t \in Seq(Nat) /\ Len(t) = Len(s) + 1 /\ t[Len(s) + 1] = x
      /\ \A i \in 1 .. Len(s) : t[i] = s[i]
  BY <1>1
<1> HIDE DEF t
<1>3. Rising(t)
  <2> SUFFICES ASSUME NEW i \in 1 .. Len(s) PROVE t[i] < t[i + 1]
    BY <1>1, <1>2 DEF Rising
  <2>1. CASE i = Len(s)
    BY <1>1, <1>2, <2>1
  <2>2. CASE i # Len(s)
    <3>1. i \in 1 .. Len(s) - 1 /\ i + 1 \in 1 .. Len(s)
      BY <1>1, <2>2
    <3> QED BY <1>2, <3>1 DEF Carries, Rising
  <2> QED BY <2>1, <2>2
<1>4. ASSUME ~ full, NEW i \in 1 .. Len(t) PROVE t[i] = x - Len(t) + i
  <2>1. CASE i \in 1 .. Len(s)
    <3>1. s[i] = m - Len(s) + i
      BY <1>4, <2>1 DEF Carries
    <3> QED BY <1>1, <1>2, <2>1, <3>1
  <2>2. CASE i = Len(s) + 1
    BY <1>1, <1>2, <2>2
  <2> QED BY <1>1, <1>2, <2>1, <2>2
<1>5. t[Len(t)] <= x /\ Len(t) >= 1
  BY <1>1, <1>2
<1> QED BY <1>2, <1>3, <1>4, <1>5 DEF Carries, t

(* The browser handles the first.                                           *)
LEMMA CarriesTail ==
  ASSUME NEW s, NEW m \in Nat, NEW full \in BOOLEAN, Carries(s, m, full), Len(s) > 1
  PROVE  Carries(Tail(s), m, full)
<1> DEFINE t == Tail(s)
<1>1. /\ s \in Seq(Nat) /\ Len(s) \in Nat /\ Len(s) > 1
      /\ \A i \in 1 .. Len(s) : s[i] \in Nat
  BY DEF Carries
<1>2. /\ t \in Seq(Nat) /\ Len(t) = Len(s) - 1
      /\ \A i \in 1 .. Len(t) : t[i] = s[i + 1]
  BY <1>1
<1> HIDE DEF t
<1>3. Len(t) >= 1 /\ Len(t) \in Nat
  BY <1>1, <1>2
<1>4. Rising(t)
  <2> SUFFICES ASSUME NEW i \in 1 .. Len(t) - 1 PROVE t[i] < t[i + 1]
    BY DEF Rising
  <2>1. i \in 1 .. Len(t) /\ i + 1 \in 1 .. Len(t) /\ i + 1 \in 1 .. Len(s) - 1
    BY <1>1, <1>2, <1>3
  <2>2. t[i] = s[i + 1] /\ t[i + 1] = s[(i + 1) + 1]
    BY <1>2, <2>1
  <2> QED BY <2>1, <2>2 DEF Carries, Rising
<1>5. t[Len(t)] <= m
  <2>1. t[Len(t)] = s[Len(s)]
    BY <1>1, <1>2, <1>3
  <2> QED BY <2>1 DEF Carries
<1>6. ASSUME ~ full, NEW i \in 1 .. Len(t) PROVE t[i] = m - Len(t) + i
  <2>1. t[i] = s[i + 1] /\ i + 1 \in 1 .. Len(s)
    BY <1>1, <1>2
  <2>2. s[i + 1] = m - Len(s) + (i + 1)
    BY <1>6, <2>1 DEF Carries
  <2> QED BY <1>1, <1>2, <2>1, <2>2
<1> QED BY <1>2, <1>3, <1>4, <1>5, <1>6 DEF Carries, t

(* A subscription that begins.                                              *)
LEMMA CarriesOne ==
  ASSUME NEW m \in Nat
  PROVE  Carries(<<m>> \o <<>> \o <<>>, m, FALSE)
<1>1. <<m>> \o <<>> \o <<>> = <<m>>
  OBVIOUS
<1>2. <<m>> \in Seq(Nat) /\ Len(<<m>>) = 1 /\ <<m>>[1] = m /\ <<m>> # <<>>
  OBVIOUS
<1> QED BY <1>1, <1>2 DEF Carries, Rising

(* Concatenation is associative.                                            *)
LEMMA Associative ==
  ASSUME NEW a \in Seq(Nat), NEW b \in Seq(Nat), NEW c \in Seq(Nat)
  PROVE  (a \o b) \o c = a \o (b \o c)
OBVIOUS

(* What is under way when its parts change.                                 *)
LEMMA Parts ==
  ASSUME NEW x \in Nat, NEW w \in Seq(Nat), NEW c \in Seq(Nat)
  PROVE  /\ Len(<<x>> \o w \o c) = 1 + Len(w) + Len(c)
         /\ \A y \in Nat : <<x>> \o w \o Append(c, y) = Append(<<x>> \o w \o c, y)
         /\ c # <<>> => <<x>> \o Append(w, Head(c)) \o Tail(c) = <<x>> \o w \o c
         /\ w # <<>> => <<Head(w)>> \o Tail(w) \o c = Tail(<<x>> \o w \o c)
<1>1. Len(<<x>> \o w \o c) = 1 + Len(w) + Len(c)
  OBVIOUS
<1>2. \A y \in Nat : <<x>> \o w \o Append(c, y) = Append(<<x>> \o w \o c, y)
  OBVIOUS
<1>3. ASSUME c # <<>>
      PROVE  <<x>> \o Append(w, Head(c)) \o Tail(c) = <<x>> \o w \o c
  <2>1. Head(c) \in Nat /\ Tail(c) \in Seq(Nat) /\ <<Head(c)>> \o Tail(c) = c
    BY <1>3
  <2>2. Append(w, Head(c)) = w \o <<Head(c)>>
    BY <2>1
  <2>3. (<<x>> \o (w \o <<Head(c)>>)) \o Tail(c) = <<x>> \o w \o (<<Head(c)>> \o Tail(c))
    <3> DEFINE y == <<x>>
               h == <<Head(c)>>
               t == Tail(c)
    <3>1. y \in Seq(Nat) /\ h \in Seq(Nat) /\ t \in Seq(Nat)
      BY <2>1
    <3> HIDE DEF y, h, t
    <3>2. y \o w \in Seq(Nat)
      BY <3>1
    <3>3. y \o (w \o h) = (y \o w) \o h
      BY <3>1, Associative, Zenon
    <3>4. ((y \o w) \o h) \o t = (y \o w) \o (h \o t)
      BY <3>1, <3>2, Associative, Zenon
    <3>5. (y \o (w \o h)) \o t = (y \o w) \o (h \o t)
      BY <3>3, <3>4, Zenon
    <3> QED BY <3>5 DEF y, h, t
  <2> QED BY <2>1, <2>2, <2>3
<1>4. ASSUME w # <<>> PROVE <<Head(w)>> \o Tail(w) \o c = Tail(<<x>> \o w \o c)
  <2>1. <<x>> \o w \o c = <<x>> \o (w \o c)
    OBVIOUS
  <2>2. Tail(<<x>> \o (w \o c)) = w \o c
    <3> DEFINE q == w \o c
    <3>1. q \in Seq(Nat)
      OBVIOUS
    <3> HIDE DEF q
    <3>2. Tail(<<x>> \o q) = q
      BY <3>1
    <3> QED BY <3>2 DEF q
  <2>3. <<Head(w)>> \o Tail(w) = w
    BY <1>4
  <2> QED BY <2>1, <2>2, <2>3
<1> QED BY <1>1, <1>2, <1>3, <1>4

----------------------------------------------------------------------------
LEMMA StreamInit == Live!StreamAssumption /\ Live!Init => StreamInv
<1> SUFFICES ASSUME Live!StreamAssumption, Live!Init PROVE StreamInv
  OBVIOUS
<1>1. <<>> \in Seq(Nat) /\ Len(<<>>) <= ChannelSlots /\ 0 \in 0 .. StreamEvents
  BY DEF Live!StreamAssumption
<1>2. ChannelInv
  BY <1>1 DEF Live!Init, ChannelInv
<1>3. handler # "on"
  BY DEF Live!Init
<1> QED BY <1>2, <1>3 DEF StreamInv

(* Every step keeps the invariant.                                          *)
LEMMA StreamStep == Live!StreamAssumption /\ StreamInv /\ [Live!Next]_Live!vars => StreamInv'
<1> SUFFICES ASSUME Live!StreamAssumption, StreamInv, [Live!Next]_Live!vars PROVE StreamInv'
  OBVIOUS
<1>i. ChannelInv /\ (handler = "on" => Carries(Underway, pub, dropped))
  BY DEF StreamInv
<1>1. CASE Live!Store
  BY <1>1, <1>i
     DEF Live!Store, StreamInv, ChannelInv, Underway, Live!browser, Live!link,
         Live!StreamAssumption
<1>2. CASE Live!Publish
  <2>1. added \in Nat /\ pub \in Nat /\ added = pub + 1 /\ pub' = added
    BY <1>2, <1>i DEF Live!Publish, ChannelInv
  <2>2. ChannelInv'
    BY <1>2, <1>i, <2>1 DEF Live!Publish, ChannelInv, Live!browser, Live!StreamAssumption
  <2>3. ASSUME handler' = "on" PROVE Carries(Underway', pub', dropped')
    <3>1. handler = "on" /\ Carries(Underway, pub, dropped) /\ wire' = wire /\ seen' = seen
      BY <1>2, <1>i, <2>3 DEF Live!Publish
    <3>2. CASE Len(chan) < ChannelSlots
      <4>1. chan' = Append(chan, added) /\ dropped' = dropped
        BY <1>2, <1>i, <3>1, <3>2 DEF Live!Publish, ChannelInv, Live!StreamAssumption
      <4>2. Underway' = Append(Underway, added)
        BY <1>i, <2>1, <3>1, <4>1, Parts DEF Underway, ChannelInv
      <4>3. Carries(Append(Underway, added), added, dropped)
        BY <1>i, <2>1, <3>1, CarriesMore DEF ChannelInv
      <4> QED BY <2>1, <4>1, <4>2, <4>3
    <3>3. CASE ~ (Len(chan) < ChannelSlots)
      <4>1. Len(chan) = ChannelSlots
        BY <1>i, <3>3 DEF ChannelInv, Live!StreamAssumption
      <4>2. chan' = chan /\ dropped' = TRUE
        BY <1>2, <3>1, <3>3, <4>1 DEF Live!Publish
      <4>3. Underway' = Underway
        BY <3>1, <4>2 DEF Underway
      <4>4. Carries(Underway, added, TRUE)
        <5>1. Underway[Len(Underway)] \in Nat
          BY <3>1 DEF Carries
        <5> QED BY <2>1, <3>1, <5>1 DEF Carries
      <4> QED BY <2>1, <4>2, <4>3, <4>4
    <3> QED BY <3>2, <3>3
  <2> QED BY <2>2, <2>3 DEF StreamInv
<1>3. CASE Live!Accept
  BY <1>3, <1>i DEF Live!Accept, StreamInv, ChannelInv, Underway, Live!server
<1>4. CASE Live!Subscribe
  <2>1. wire' = <<>> /\ chan' = <<>> /\ seen' = pub /\ pub' = pub /\ dropped' = FALSE
    BY <1>4, <1>i DEF Live!Subscribe, ChannelInv, Live!server
  <2>2. ChannelInv'
    BY <1>4, <1>i, <2>1 DEF Live!Subscribe, ChannelInv, Live!server, Live!StreamAssumption
  <2>3. Carries(Underway', pub', dropped')
    BY <1>i, <2>1, CarriesOne DEF Underway, ChannelInv
  <2> QED BY <2>2, <2>3 DEF StreamInv
<1>5. CASE Live!Forward
  <2>1. /\ chan # <<>> /\ wire' = Append(wire, Head(chan)) /\ chan' = Tail(chan)
        /\ UNCHANGED <<added, pub, handler, seen, dropped>> /\ handler = "on"
    BY <1>5 DEF Live!Forward, Live!server
  <2>2. Head(chan) \in Nat /\ Tail(chan) \in Seq(Nat) /\ Len(Tail(chan)) <= ChannelSlots
    BY <1>i, <2>1 DEF ChannelInv, Live!StreamAssumption
  <2>3. ChannelInv'
    BY <1>i, <2>1, <2>2 DEF ChannelInv
  <2>4. Underway' = Underway
    BY <1>i, <2>1, Parts DEF Underway, ChannelInv
  <2> QED BY <1>i, <2>1, <2>3, <2>4 DEF StreamInv
<1>6. CASE Live!Handle
  <2>1. /\ wire # <<>> /\ wire' = Tail(wire) /\ seen' = Head(wire)
        /\ UNCHANGED <<added, pub, handler, chan, dropped>>
    BY <1>6 DEF Live!Handle, Live!server
  <2>2. Head(wire) \in Nat /\ Tail(wire) \in Seq(Nat) /\ Len(wire) >= 1 /\ handler = "on"
    BY <1>i, <2>1 DEF ChannelInv
  <2>3. ChannelInv'
    BY <1>i, <2>1, <2>2 DEF ChannelInv
  <2>4. Underway' = Tail(Underway) /\ Len(Underway) > 1
    <3>1. Underway' = Tail(Underway)
      BY <1>i, <2>1, Parts DEF Underway, ChannelInv
    <3>2. Len(Underway) = 1 + Len(wire) + Len(chan)
      BY <1>i, Parts DEF Underway, ChannelInv
    <3> QED BY <1>i, <2>2, <3>1, <3>2 DEF ChannelInv
  <2>5. Carries(Underway', pub', dropped')
    BY <1>i, <2>1, <2>2, <2>4, CarriesTail DEF ChannelInv
  <2> QED BY <2>3, <2>5 DEF StreamInv
<1>7. CASE Live!Disconnect
  BY <1>7, <1>i DEF Live!Disconnect, StreamInv, ChannelInv, Live!server, Live!StreamAssumption
<1>8. ASSUME UNCHANGED <<Live!server, Live!link>> PROVE StreamInv'
  BY <1>8, <1>i DEF StreamInv, ChannelInv, Underway, Live!server, Live!link
<1>9. CASE \/ Live!Resume \/ Live!Refresh \/ Live!ServeStats \/ Live!ServeEvents
           \/ Live!Loaded \/ Live!Fail
  BY <1>9, <1>8
     DEF Live!Resume, Live!Refresh, Live!ServeStats, Live!ServeEvents, Live!Loaded, Live!Fail
<1>10. CASE Live!SwitchTab \/ UNCHANGED Live!vars
  BY <1>10, <1>8 DEF Live!SwitchTab, Live!vars
<1> QED BY <1>1, <1>2, <1>3, <1>4, <1>5, <1>6, <1>7, <1>9, <1>10 DEF Live!Next

LEMMA StreamHolds == Live!StreamAssumption => (Live!Init /\ [][Live!Next]_Live!vars => []StreamInv)
<1>1. Live!StreamAssumption /\ Live!Init => StreamInv
  BY StreamInit
<1>2. Live!StreamAssumption /\ StreamInv /\ [Live!Next]_Live!vars => StreamInv'
  BY StreamStep
<1> SUFFICES ASSUME Live!StreamAssumption PROVE Live!Init /\ [][Live!Next]_Live!vars => []StreamInv
  OBVIOUS
<1>3. Live!Init => StreamInv
  BY <1>1
<1>4. StreamInv /\ [Live!Next]_Live!vars => StreamInv'
  BY <1>2
<1> QED BY <1>3, <1>4, PTL

(* What the invariant says of the events under way.                         *)
LEMMA InOrder == StreamInv => Live!StreamInOrder
<1> SUFFICES ASSUME StreamInv, handler = "on"
             PROVE  /\ \A i \in 1 .. Len(Underway) - 1 : Underway[i] < Underway[i + 1]
                    /\ ~ dropped => Underway = [i \in 1 .. pub - seen + 1 |-> seen + i - 1]
  BY DEF Live!StreamInOrder, Underway
<1>1. Carries(Underway, pub, dropped) /\ pub \in Nat /\ seen \in Nat
  BY DEF StreamInv, ChannelInv
<1>2. Underway[1] = seen
  BY DEF Underway, StreamInv, ChannelInv
<1>3. ASSUME ~ dropped
      PROVE  Underway = [i \in 1 .. pub - seen + 1 |-> seen + i - 1]
  <2>1. PICK s \in Seq(Nat) : s = Underway
    BY <1>1 DEF Carries
  <2>2. /\ Len(s) \in Nat /\ Len(s) >= 1 /\ s[1] = seen
        /\ \A i \in 1 .. Len(s) : s[i] = pub - Len(s) + i
    BY <1>1, <1>2, <1>3, <2>1 DEF Carries
  <2>3. seen = pub - Len(s) + 1
    BY <2>2
  <2>4. Len(s) = pub - seen + 1 /\ \A i \in 1 .. Len(s) : s[i] = seen + i - 1
    BY <1>1, <2>2, <2>3
  <2>5. s = [i \in 1 .. Len(s) |-> s[i]]
    OBVIOUS
  <2> QED BY <2>1, <2>4, <2>5
<1> QED BY <1>1, <1>3 DEF Carries, Rising

----------------------------------------------------------------------------
(* Types of what the browser has.                                           *)
Rounds ==
  [state : {"loading"}, first : BOOLEAN, stats : Int,
   events : {s \in Seq(Nat) : Len(s) <= Limit}, listed : BOOLEAN]

BrowserInv ==
  /\ source \in {"none", "connecting", "open", "paused"}
  /\ fetch \in Rounds \cup {Live!Idle}
  /\ view \in [total : Int, rows : Seq(Nat)]
  /\ Len(view.rows) <= Rows \/ Len(view.rows) <= Limit

LEMMA LoadingType == Live!StreamAssumption => Live!Loading \in Rounds
<1>1. <<>> \in Seq(Nat) /\ Len(<<>>) = 0
  OBVIOUS
<1> QED BY <1>1 DEF Rounds, Live!Loading, Live!StreamAssumption

(* What a request for events brings.                                        *)
LEMMA AnswerType ==
  ASSUME NEW m \in Nat, NEW k \in Nat
  PROVE  Live!Newest(m, k) \in {s \in Seq(Nat) : Len(s) <= k}
<1> DEFINE l == IF m < k THEN m ELSE k
<1>1. l \in Nat /\ l <= k /\ l <= m
  OBVIOUS
<1>2. Live!Newest(m, k) = [i \in 1 .. l |-> m + 1 - i]
  BY DEF Live!Newest
<1> HIDE DEF l
<1>3. [i \in 1 .. l |-> m + 1 - i] \in [1 .. l -> Nat]
  BY <1>1
<1>4. Live!Newest(m, k) \in Seq(Nat) /\ Len(Live!Newest(m, k)) = l
  BY <1>1, <1>2, <1>3
<1> QED BY <1>1, <1>4

(* The rows kept.                                                           *)
LEMMA TakeType ==
  ASSUME NEW s \in Seq(Nat), NEW k \in Nat
  PROVE  Live!Take(s, k) \in Seq(Nat) /\ Len(Live!Take(s, k)) <= k
<1> DEFINE l == IF Len(s) < k THEN Len(s) ELSE k
<1>1. l \in Nat /\ l <= k /\ l <= Len(s)
  OBVIOUS
<1>2. Live!Take(s, k) = SubSeq(s, 1, l)
  BY DEF Live!Take
<1> HIDE DEF l
<1>3. SubSeq(s, 1, l) \in Seq(Nat)
  BY <1>1
<1>4. Len(SubSeq(s, 1, l)) = l
  BY <1>1
<1> QED BY <1>1, <1>2, <1>3, <1>4

LEMMA BrowserStep ==
  Live!StreamAssumption /\ StreamInv /\ BrowserInv /\ [Live!Next]_Live!vars => BrowserInv'
<1> SUFFICES ASSUME Live!StreamAssumption, ChannelInv, BrowserInv, [Live!Next]_Live!vars
             PROVE  BrowserInv'
  BY DEF StreamInv
<1>1. ASSUME UNCHANGED <<source, fetch, view>> PROVE BrowserInv'
  BY <1>1 DEF BrowserInv
<1>2. CASE \/ Live!Store \/ Live!Publish \/ Live!Subscribe \/ Live!Forward
           \/ Live!SwitchTab \/ UNCHANGED Live!vars
  BY <1>1, <1>2
     DEF Live!Store, Live!Publish, Live!Subscribe, Live!Forward, Live!SwitchTab,
         Live!browser, Live!vars
<1>3. CASE Live!Accept \/ Live!Disconnect \/ Live!Resume
  BY <1>3 DEF Live!Accept, Live!Disconnect, Live!Resume, BrowserInv
<1>4. CASE Live!Handle
  <2>1. CASE overview
    <3>1. Head(wire) \in Nat /\ view.rows \in Seq(Nat) /\ view.total \in Int
      BY <1>4 DEF Live!Handle, ChannelInv, BrowserInv
    <3>2. <<Head(wire)>> \o view.rows \in Seq(Nat)
      BY <3>1
    <3> DEFINE rows == Live!Take(<<Head(wire)>> \o view.rows, Rows)
    <3>3. rows \in Seq(Nat) /\ Len(rows) <= Rows
      BY <3>2, TakeType DEF Live!StreamAssumption
    <3>4. view' = [total |-> view.total + 1, rows |-> rows]
      BY <1>4, <2>1 DEF Live!Handle
    <3> HIDE DEF rows
    <3>5. view' \in [total : Int, rows : Seq(Nat)] /\ view'.rows = rows
      BY <3>1, <3>3, <3>4
    <3> QED BY <1>4, <3>3, <3>5 DEF Live!Handle, BrowserInv
  <2>2. CASE ~ overview
    BY <1>1, <1>4, <2>2 DEF Live!Handle
  <2> QED BY <2>1, <2>2
<1>5. CASE Live!Refresh
  <2>1. Live!Loading \in Rounds
    BY LoadingType
  <2>2. [Live!Loading EXCEPT !.first = FALSE] \in Rounds
    BY <2>1 DEF Rounds
  <2> QED BY <1>5, <2>2 DEF Live!Refresh, BrowserInv
<1>6. CASE Live!ServeStats
  <2>1. fetch \in Rounds /\ added \in Int
    BY <1>6 DEF Live!ServeStats, BrowserInv, ChannelInv
  <2>2. [fetch EXCEPT !.stats = added] \in Rounds
    BY <2>1 DEF Rounds
  <2> QED BY <1>6, <2>2 DEF Live!ServeStats, BrowserInv
<1>7. CASE Live!ServeEvents
  <2>1. fetch \in Rounds
    BY <1>7 DEF Live!ServeEvents, BrowserInv
  <2>2. Live!Newest(added, Limit) \in {s \in Seq(Nat) : Len(s) <= Limit}
    <3>1. added \in Nat /\ Limit \in Nat
      BY DEF ChannelInv, Live!StreamAssumption
    <3> QED BY <3>1, AnswerType
  <2>3. [fetch EXCEPT !.events = Live!Newest(added, Limit), !.listed = TRUE] \in Rounds
    BY <2>1, <2>2 DEF Rounds
  <2> QED BY <1>7, <2>3 DEF Live!ServeEvents, BrowserInv
<1>8. CASE Live!Loaded
  <2>1. fetch \in Rounds
    BY <1>8 DEF Live!Loaded, BrowserInv
  <2>2. fetch.stats \in Int /\ fetch.events \in Seq(Nat) /\ Len(fetch.events) <= Limit
    BY <2>1 DEF Rounds
  <2>3. view' = [total |-> fetch.stats, rows |-> fetch.events]
    BY <1>8 DEF Live!Loaded
  <2> QED BY <1>8, <2>2, <2>3 DEF Live!Loaded, BrowserInv
<1>9. CASE Live!Fail
  BY <1>9 DEF Live!Fail, BrowserInv
<1> QED BY <1>2, <1>3, <1>4, <1>5, <1>6, <1>7, <1>8, <1>9 DEF Live!Next

(* The browser's part of the invariant holds throughout.                    *)
LEMMA BrowserHolds ==
  Live!StreamAssumption => (Live!Init /\ [][Live!Next]_Live!vars => []Live!TypeOK)
<1> SUFFICES ASSUME Live!StreamAssumption
             PROVE  Live!Init /\ [][Live!Next]_Live!vars => []Live!TypeOK
  OBVIOUS
<1>1. Live!Init => BrowserInv
  <2> SUFFICES ASSUME Live!Init PROVE BrowserInv
    OBVIOUS
  <2>1. Live!Loading \in Rounds
    BY LoadingType
  <2> QED BY <2>1 DEF Live!Init, BrowserInv, Live!StreamAssumption
<1>2. StreamInv /\ BrowserInv /\ [Live!Next]_Live!vars => BrowserInv'
  BY BrowserStep
<1>3. StreamInv /\ BrowserInv => Live!TypeOK
  BY DEF StreamInv, ChannelInv, BrowserInv, Live!TypeOK
<1>4. Live!Init /\ [][Live!Next]_Live!vars => []StreamInv
  BY StreamHolds
<1> QED BY <1>1, <1>2, <1>3, <1>4, PTL

----------------------------------------------------------------------------
(* Ring, stream and schema side by side.                                    *)

LEMMA RingOfEvents == MCSpec => []TypeOK
<1>1. MCInit => Init
  BY DEF MCInit
<1>2. [MCNext]_allVars => [Next]_vars
  BY DEF MCNext, allVars, vars
<1> QED BY <1>1, <1>2, TypeInit, TypeStep, PTL DEF MCSpec

LEMMA StreamOfEvents == MCSpec => Live!Init /\ [][Live!Next]_Live!vars
<1>1. MCInit => Live!Init
  BY DEF MCInit
<1>2. [MCNext]_allVars => [Live!Next]_Live!vars
  BY DEF MCNext, allVars, streamVars, Live!vars, Live!server, Live!browser, Live!link
<1> QED BY <1>1, <1>2, PTL DEF MCSpec

(* Type correctness of ring, table, channel and browser.                    *)
THEOREM EventsTypeCorrect == MCSpec => []TypesOK
<1>1. Live!Init /\ [][Live!Next]_Live!vars => []Live!TypeOK
  BY ChannelAssumption, BrowserHolds
<1> QED BY <1>1, RingOfEvents, StreamOfEvents, PTL DEF TypesOK

(* StreamInOrder: a subscription carries what was added since, in order and *)
(* once each, up to the first event that found the channel full, and never  *)
(* repeats or reorders after that, for all capacities, limits and numbers   *)
(* of events (store.go:750-760, 2294-2312, server.go:627-645).              *)
THEOREM StreamCorrect == MCSpec => []StreamInOrder
<1>1. Live!Init /\ [][Live!Next]_Live!vars => []StreamInv
  BY ChannelAssumption, StreamHolds
<1>2. StreamInv => StreamInOrder
  BY InOrder DEF StreamInOrder
<1> QED BY <1>1, <1>2, StreamOfEvents, PTL
=============================================================================
