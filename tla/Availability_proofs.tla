------------------------- MODULE Availability_proofs -------------------------
(***************************************************************************)
(* Proofs about Availability, for all nodes, thresholds, periods and       *)
(* bounds: type correctness, that table and tracker agree, and that uptime *)
(* is neither understated nor inflated.                                    *)
(***************************************************************************)
EXTENDS Availability, FiniteSetTheorems, SequenceTheorems, WellFoundedInduction,
        NaturalsInduction, TLAPS

----------------------------------------------------------------------------
(* Numbers: a non-empty set has a least, and steps of one reach them all.   *)
LEMMA LeastElement ==
  ASSUME NEW S, S \subseteq Nat, S # {}
  PROVE  \E x \in S : \A y \in S : x <= y
<1> DEFINE R == {p \in Nat \X Nat : p[1] < p[2]}
<1>1. IsWellFoundedOn(R, Nat)
  BY NatLessThanWellFounded DEF OpToRel
<1>2. \A x, y \in Nat : <<y, x>> \in R <=> y < x
  OBVIOUS
<1> HIDE DEF R
<1>3. PICK x \in S : \A y \in S : ~ (<<y, x>> \in R)
  BY <1>1, WFMin
<1>4. ASSUME NEW y \in S PROVE x <= y
  <2>1. x \in Nat /\ y \in Nat
    OBVIOUS
  <2>2. ~ (y < x)
    BY <1>2, <1>3, <2>1
  <2> QED BY <2>1, <2>2
<1> QED BY <1>4

(* A set that holds 0 and, up to b, the successor of what it holds.         *)
LEMMA UpTo ==
  ASSUME NEW b \in Nat, NEW S, 0 \in S, \A i \in 0 .. b - 1 : i \in S => i + 1 \in S
  PROVE  0 .. b \subseteq S
<1> DEFINE out == {i \in 0 .. b : i \notin S}
<1> SUFFICES ASSUME out # {} PROVE FALSE
  OBVIOUS
<1>1. out \subseteq Nat
  OBVIOUS
<1> HIDE DEF out
<1>2. PICK i \in out : \A j \in out : i <= j
  BY <1>1, LeastElement
<1>3. i \in 0 .. b /\ i \notin S /\ i # 0
  BY DEF out
<1>4. i - 1 \in 0 .. b - 1 /\ i - 1 \in 0 .. b /\ ~ (i <= i - 1) /\ (i - 1) + 1 = i
  BY <1>3
<1>5. i - 1 \notin out
  BY <1>2, <1>4
<1>6. i - 1 \in S
  BY <1>4, <1>5 DEF out
<1> QED BY <1>3, <1>4, <1>6

----------------------------------------------------------------------------
(* A recursive function over 0 .. b exists when every turn stays in S.      *)
Turns(f, b, x, g) == f = [i \in 0 .. b |-> IF i = 0 THEN x ELSE g[i][f[i - 1]]]

LEMMA RecursionExists ==
  ASSUME NEW b \in Nat, NEW S, NEW x \in S, NEW g \in [1 .. b -> [S -> S]]
  PROVE  \E f \in [0 .. b -> S] : Turns(f, b, x, g)
<1> DEFINE Made(k) == {f \in [0 .. k -> S] :
                         f = [i \in 0 .. k |-> IF i = 0 THEN x ELSE g[i][f[i - 1]]]}
           K == {k \in 0 .. b : Made(k) # {}}
<1>1. 0 \in K
  <2>1. PICK f : f = [i \in 0 .. 0 |-> x]
    OBVIOUS
  <2>2. f \in [0 .. 0 -> S]
    BY <2>1
  <2>3. f = [i \in 0 .. 0 |-> IF i = 0 THEN x ELSE g[i][f[i - 1]]]
    BY <2>1
  <2> QED BY <2>2, <2>3
<1>2. ASSUME NEW k \in 0 .. b - 1, k \in K PROVE k + 1 \in K
  <2>1. PICK f : f \in Made(k)
    BY <1>2
  <2>2. /\ f \in [0 .. k -> S]
        /\ f = [i \in 0 .. k |-> IF i = 0 THEN x ELSE g[i][f[i - 1]]]
    BY <2>1
  <2>3. PICK y : y = g[k + 1][f[k]]
    OBVIOUS
  <2>4. y \in S
    <3>1. k \in 0 .. k /\ k + 1 \in 1 .. b
      OBVIOUS
    <3> QED BY <2>2, <2>3, <3>1
  <2>5. PICK h : h = [i \in 0 .. k + 1 |-> IF i = k + 1 THEN y ELSE f[i]]
    OBVIOUS
  <2>6. h \in [0 .. k + 1 -> S]
    BY <2>2, <2>4, <2>5
  <2>7. ASSUME NEW i \in 0 .. k + 1 PROVE h[i] = IF i = 0 THEN x ELSE g[i][h[i - 1]]
    <3>1. CASE i = k + 1
      <4>1. i # 0 /\ i - 1 = k /\ k \in 0 .. k + 1 /\ k # k + 1
        BY <3>1
      <4>2. h[k] = f[k] /\ h[i] = y
        BY <2>5, <3>1, <4>1
      <4> QED BY <2>3, <3>1, <4>1, <4>2
    <3>2. CASE i = 0
      <4>1. 0 \in 0 .. k /\ 0 \in 0 .. k + 1 /\ 0 # k + 1
        OBVIOUS
      <4>2. h[0] = f[0] /\ f[0] = x
        BY <2>2, <2>5, <4>1
      <4> QED BY <3>2, <4>2
    <3>3. CASE i # 0 /\ i # k + 1
      <4>1. i \in 0 .. k /\ i - 1 \in 0 .. k + 1 /\ i - 1 # k + 1
        BY <3>3
      <4>2. h[i] = f[i] /\ h[i - 1] = f[i - 1]
        BY <2>5, <3>3, <4>1
      <4>3. f[i] = g[i][f[i - 1]]
        BY <2>2, <3>3, <4>1
      <4> QED BY <3>3, <4>2, <4>3
    <3> QED BY <3>1, <3>2, <3>3
  <2>8. h \in Made(k + 1)
    <3>1. h = [i \in 0 .. k + 1 |-> IF i = 0 THEN x ELSE g[i][h[i - 1]]]
      BY <2>5, <2>7
    <3> QED BY <2>6, <3>1
  <2> QED BY <2>8
<1>3. 0 .. b \subseteq K
  <2> HIDE DEF K
  <2> QED BY <1>1, <1>2, UpTo
<1>4. Made(b) # {}
  BY <1>3
<1> QED BY <1>4 DEF Turns

----------------------------------------------------------------------------
(* Rows in the order of their times.                                        *)
Sorted(s) == \A i, j \in 1 .. Len(s) : i <= j => s[i].time <= s[j].time

(* The last row up to t says online.                                        *)
OnAt(s, t) ==
  \E i \in 1 .. Len(s) :
    /\ s[i].time <= t
    /\ s[i].event = "online"
    /\ i < Len(s) => t < s[i + 1].time

EndsOnline(s) == s # <<>> /\ Last(s).event = "online"

LEMMA RowType ==
  ASSUME NEW s \in Seq(Row), NEW i \in 1 .. Len(s)
  PROVE  s[i].time \in Nat /\ s[i].event \in {"online", "offline"} /\ s[i].node \in Nodes
<1>1. s[i] \in Row
  OBVIOUS
<1> QED BY <1>1 DEF Row

(* The state of a node from the k-th row to the next.                       *)
LEMMA OnBetween ==
  ASSUME NEW s \in Seq(Row), Sorted(s), NEW k \in 0 .. Len(s), NEW t \in Nat,
         k > 0 => s[k].time <= t, k < Len(s) => t < s[k + 1].time
  PROVE  OnAt(s, t) <=> k > 0 /\ s[k].event = "online"
<1>0. Len(s) \in Nat /\ k \in Nat
  OBVIOUS
<1>1. ASSUME OnAt(s, t) PROVE k > 0 /\ s[k].event = "online"
  <2>1. PICK i \in 1 .. Len(s) :
          s[i].time <= t /\ s[i].event = "online" /\ (i < Len(s) => t < s[i + 1].time)
    BY <1>1 DEF OnAt
  <2>2. i \in Nat /\ s[i].time \in Nat
    BY <2>1, RowType
  <2>3. ~ (i > k)
    <3> SUFFICES ASSUME i > k PROVE FALSE
      OBVIOUS
    <3>1. k + 1 \in 1 .. Len(s) /\ k + 1 <= i /\ k < Len(s)
      BY <1>0, <2>2
    <3>2. s[k + 1].time \in Nat /\ s[k + 1].time <= s[i].time
      BY <3>1, RowType DEF Sorted
    <3> QED BY <2>1, <2>2, <3>1, <3>2
  <2>4. ~ (i < k)
    <3> SUFFICES ASSUME i < k PROVE FALSE
      OBVIOUS
    <3>1. k \in 1 .. Len(s) /\ i + 1 \in 1 .. Len(s) /\ i + 1 <= k /\ i < Len(s) /\ k > 0
      BY <1>0, <2>2
    <3>2. s[k].time \in Nat /\ s[i + 1].time \in Nat /\ s[i + 1].time <= s[k].time
      BY <3>1, RowType DEF Sorted
    <3> QED BY <2>1, <3>1, <3>2
  <2>5. i = k
    BY <1>0, <2>2, <2>3, <2>4
  <2> QED BY <2>1, <2>5
<1>2. ASSUME k > 0, s[k].event = "online" PROVE OnAt(s, t)
  BY <1>0, <1>2 DEF OnAt
<1> QED BY <1>1, <1>2

(* A row at the end tells the state from its time on.                       *)
LEMMA AppendOn ==
  ASSUME NEW s \in Seq(Row), NEW x \in Row, Sorted(s), s # <<>> => Last(s).time <= x.time
  PROVE  /\ Append(s, x) \in Seq(Row) /\ Append(s, x) # <<>> /\ Last(Append(s, x)) = x
         /\ Sorted(Append(s, x))
         /\ \A t \in Nat : t < x.time => (OnAt(Append(s, x), t) <=> OnAt(s, t))
         /\ \A t \in Nat : x.time <= t => (OnAt(Append(s, x), t) <=> x.event = "online")
<1>0. PICK u : u = Append(s, x)
  OBVIOUS
<1>1. /\ u \in Seq(Row) /\ Len(u) = Len(s) + 1 /\ Len(s) \in Nat
      /\ u[Len(s) + 1] = x /\ u # <<>>
      /\ \A i \in 1 .. Len(s) : u[i] = s[i]
  BY <1>0
<1>2. x.time \in Nat
  BY DEF Row
<1>3. ASSUME NEW i \in 1 .. Len(s) PROVE s[i].time \in Nat /\ s[i].time <= x.time
  <2>1. Len(s) \in 1 .. Len(s) /\ s # <<>> /\ i <= Len(s)
    BY <1>1
  <2>2. s[Len(s)].time <= x.time
    BY <2>1 DEF Last
  <2>3. s[i].time \in Nat /\ s[Len(s)].time \in Nat /\ s[i].time <= s[Len(s)].time
    BY <2>1, RowType DEF Sorted
  <2> QED BY <1>2, <2>2, <2>3
<1>4. Sorted(u)
  <2> SUFFICES ASSUME NEW i \in 1 .. Len(u), NEW j \in 1 .. Len(u), i <= j
               PROVE  u[i].time <= u[j].time
    BY DEF Sorted
  <2>1. CASE j <= Len(s)
    <3>1. i \in 1 .. Len(s) /\ j \in 1 .. Len(s)
      BY <1>1, <2>1
    <3> QED BY <1>1, <3>1 DEF Sorted
  <2>2. CASE j = Len(s) + 1 /\ i <= Len(s)
    <3>1. i \in 1 .. Len(s)
      BY <1>1, <2>2
    <3> QED BY <1>1, <1>3, <2>2, <3>1
  <2>3. CASE j = Len(s) + 1 /\ i = Len(s) + 1
    BY <1>1, <1>2, <2>3
  <2> QED BY <1>1, <2>1, <2>2, <2>3
<1>5. ASSUME NEW t \in Nat, t < x.time PROVE OnAt(u, t) <=> OnAt(s, t)
  <2>1. ASSUME OnAt(u, t) PROVE OnAt(s, t)
    <3>1. PICK i \in 1 .. Len(u) :
            u[i].time <= t /\ u[i].event = "online" /\ (i < Len(u) => t < u[i + 1].time)
      BY <2>1 DEF OnAt
    <3>2. i # Len(s) + 1
      BY <1>1, <1>2, <1>5, <3>1
    <3>3. i \in 1 .. Len(s) /\ (i < Len(s) => i + 1 \in 1 .. Len(s) /\ i < Len(u))
      BY <1>1, <3>2
    <3> QED BY <1>1, <3>1, <3>3 DEF OnAt
  <2>2. ASSUME OnAt(s, t) PROVE OnAt(u, t)
    <3>1. PICK i \in 1 .. Len(s) :
            s[i].time <= t /\ s[i].event = "online" /\ (i < Len(s) => t < s[i + 1].time)
      BY <2>2 DEF OnAt
    <3>2. i \in 1 .. Len(u) /\ i < Len(u) /\ u[i] = s[i]
      BY <1>1
    <3>3. t < u[i + 1].time
      <4>1. CASE i < Len(s)
        <5>1. i + 1 \in 1 .. Len(s)
          BY <1>1, <4>1
        <5> QED BY <1>1, <3>1, <4>1, <5>1
      <4>2. CASE i = Len(s)
        BY <1>1, <1>5, <4>2
      <4> QED BY <1>1, <4>1, <4>2
    <3> QED BY <3>1, <3>2, <3>3 DEF OnAt
  <2> QED BY <2>1, <2>2
<1>6. ASSUME NEW t \in Nat, x.time <= t PROVE OnAt(u, t) <=> x.event = "online"
  <2>1. Len(u) \in 0 .. Len(u) /\ Len(u) > 0 /\ u[Len(u)] = x
    BY <1>1
  <2> QED BY <1>1, <1>4, <1>6, <2>1, OnBetween
<1>7. Last(u) = x
  BY <1>1 DEF Last
<1> QED BY <1>0, <1>1, <1>4, <1>5, <1>6, <1>7

(* Rows dropped at the front, the newest of which said offline.             *)
LEMMA DropOn ==
  ASSUME NEW s \in Seq(Row), Sorted(s), NEW k \in 0 .. Len(s),
         k > 0 => s[k].event = "offline",
         NEW u \in Seq(Row), Len(u) = Len(s) - k, \A i \in 1 .. Len(u) : u[i] = s[i + k]
  PROVE  /\ Sorted(u)
         /\ \A t \in Nat : OnAt(u, t) => OnAt(s, t)
         /\ \A t \in Nat : (k > 0 => s[k].time <= t) /\ OnAt(s, t) => OnAt(u, t)
         /\ u # <<>> => s # <<>> /\ Last(u) = Last(s)
         /\ EndsOnline(u) <=> EndsOnline(s)
<1>1. Len(s) \in Nat /\ Len(u) \in Nat /\ k \in Nat
  OBVIOUS
<1>2. Sorted(u)
  <2> SUFFICES ASSUME NEW i \in 1 .. Len(u), NEW j \in 1 .. Len(u), i <= j
               PROVE  u[i].time <= u[j].time
    BY DEF Sorted
  <2>1. i + k \in 1 .. Len(s) /\ j + k \in 1 .. Len(s) /\ i + k <= j + k
    BY <1>1
  <2> QED BY <2>1 DEF Sorted
<1>3. ASSUME NEW t \in Nat, OnAt(u, t) PROVE OnAt(s, t)
  <2>1. PICK i \in 1 .. Len(u) :
          u[i].time <= t /\ u[i].event = "online" /\ (i < Len(u) => t < u[i + 1].time)
    BY <1>3 DEF OnAt
  <2>2. i + k \in 1 .. Len(s) /\ u[i] = s[i + k]
    BY <1>1
  <2>3. ASSUME i + k < Len(s) PROVE t < s[(i + k) + 1].time
    <3>1. i < Len(u) /\ i + 1 \in 1 .. Len(u) /\ (i + 1) + k = (i + k) + 1
      BY <1>1, <2>3
    <3> QED BY <2>1, <3>1
  <2> QED BY <2>1, <2>2, <2>3 DEF OnAt
<1>4. ASSUME NEW t \in Nat, k > 0 => s[k].time <= t, OnAt(s, t) PROVE OnAt(u, t)
  <2>1. PICK i \in 1 .. Len(s) :
          s[i].time <= t /\ s[i].event = "online" /\ (i < Len(s) => t < s[i + 1].time)
    BY <1>4 DEF OnAt
  <2>2. i > k
    <3> SUFFICES ASSUME i <= k PROVE FALSE
      BY <1>1
    <3>1. k > 0 /\ k \in 1 .. Len(s)
      BY <1>1
    <3>2. CASE i = k
      BY <2>1, <3>1, <3>2
    <3>3. CASE i < k
      <4>1. i + 1 \in 1 .. Len(s) /\ i + 1 <= k /\ i < Len(s)
        BY <1>1, <3>3
      <4>2. s[i + 1].time \in Nat /\ s[k].time \in Nat /\ s[i + 1].time <= s[k].time
        BY <3>1, <4>1, RowType DEF Sorted
      <4> QED BY <1>4, <2>1, <3>1, <4>1, <4>2
    <3> QED BY <1>1, <3>2, <3>3
  <2>3. i - k \in 1 .. Len(u) /\ (i - k) + k = i
    BY <1>1, <2>2
  <2>4. u[i - k] = s[i]
    BY <2>3
  <2>5. ASSUME i - k < Len(u) PROVE t < u[(i - k) + 1].time
    <3>1. (i - k) + 1 \in 1 .. Len(u) /\ ((i - k) + 1) + k = i + 1 /\ i < Len(s)
      <4>1. i \in Nat /\ k \in Nat /\ Len(u) \in Nat /\ Len(s) \in Nat /\ Len(u) = Len(s) - k
        BY <1>1
      <4> QED BY <4>1, <2>2, <2>5
    <3>2. u[(i - k) + 1] = s[((i - k) + 1) + k]
      BY <3>1
    <3> QED BY <2>1, <3>1, <3>2
  <2> QED BY <2>1, <2>3, <2>4, <2>5 DEF OnAt
<1>5. ASSUME u # <<>> PROVE s # <<>> /\ Last(u) = Last(s)
  <2>1. Len(u) \in 1 .. Len(u) /\ Len(u) + k = Len(s) /\ Len(s) > 0
    BY <1>1, <1>5
  <2>2. u[Len(u)] = s[Len(u) + k]
    BY <2>1
  <2> QED BY <2>1, <2>2 DEF Last
<1>6. EndsOnline(u) <=> EndsOnline(s)
  <2>1. CASE u # <<>>
    BY <1>5, <2>1 DEF EndsOnline
  <2>2. CASE u = <<>> /\ s # <<>>
    <3>1. Len(u) = 0 /\ k = Len(s) /\ k > 0
      BY <1>1, <2>2
    <3> QED BY <2>2, <3>1 DEF EndsOnline, Last
  <2>3. CASE u = <<>> /\ s = <<>>
    BY <2>3
  <2> QED BY <2>1, <2>2, <2>3
<1> QED BY <1>2, <1>3, <1>4, <1>5, <1>6

----------------------------------------------------------------------------
(* What the cleanup leaves.                                                 *)

(* f[i] is what it leaves of the first i rows.                              *)
PrunedBy(f, s, c) ==
  f = [i \in 0 .. Len(s) |->
        IF i = 0 THEN <<>>
        ELSE IF s[i].time < c THEN f[i - 1] ELSE Append(f[i - 1], s[i])]

LEMMA PrunedExists ==
  ASSUME NEW s \in Seq(Row), NEW c \in Int
  PROVE  \E f \in [0 .. Len(s) -> Seq(Row)] :
           PrunedBy(f, s, c) /\ Pruned(s, c) = f[Len(s)]
<1>0. Len(s) \in Nat
  OBVIOUS
<1>1. PICK g : g = [i \in 1 .. Len(s) |->
                     [q \in Seq(Row) |-> IF s[i].time < c THEN q ELSE Append(q, s[i])]]
  OBVIOUS
<1>2. g \in [1 .. Len(s) -> [Seq(Row) -> Seq(Row)]]
  <2>1. ASSUME NEW i \in 1 .. Len(s), NEW q \in Seq(Row)
        PROVE  (IF s[i].time < c THEN q ELSE Append(q, s[i])) \in Seq(Row)
    <3>1. s[i] \in Row
      OBVIOUS
    <3>2. Append(q, s[i]) \in Seq(Row)
      BY <3>1
    <3> QED BY <3>2
  <2> QED BY <1>1, <2>1
<1>3. PICK f \in [0 .. Len(s) -> Seq(Row)] :
        f = [i \in 0 .. Len(s) |-> IF i = 0 THEN <<>> ELSE g[i][f[i - 1]]]
  <2>1. <<>> \in Seq(Row)
    OBVIOUS
  <2>2. \E f \in [0 .. Len(s) -> Seq(Row)] : Turns(f, Len(s), <<>>, g)
    BY <1>0, <1>2, <2>1, RecursionExists
  <2> QED BY <2>2 DEF Turns
<1>4. ASSUME NEW i \in 0 .. Len(s)
      PROVE  f[i] = IF i = 0 THEN <<>>
                    ELSE IF s[i].time < c THEN f[i - 1] ELSE Append(f[i - 1], s[i])
  <2>1. CASE i = 0
    BY <1>3, <2>1
  <2>2. CASE i # 0
    <3>1. i \in 1 .. Len(s) /\ i - 1 \in 0 .. Len(s)
      BY <1>0, <2>2
    <3>2. f[i - 1] \in Seq(Row)
      BY <3>1
    <3>3. f[i] = g[i][f[i - 1]]
      BY <1>3, <2>2
    <3> QED BY <1>1, <2>2, <3>1, <3>2, <3>3
  <2> QED BY <2>1, <2>2
<1>5. PrunedBy(f, s, c)
  <2>1. f = [i \in 0 .. Len(s) |-> f[i]]
    OBVIOUS
  <2>2. f = [i \in 0 .. Len(s) |->
              IF i = 0 THEN <<>>
              ELSE IF s[i].time < c THEN f[i - 1] ELSE Append(f[i - 1], s[i])]
    BY <1>4, <2>1
  <2> QED BY <2>2 DEF PrunedBy
<1> DEFINE kept == CHOOSE h : PrunedBy(h, s, c)
<1>6. PrunedBy(kept, s, c)
  BY <1>5
<1>7. Pruned(s, c) = kept[Len(s)]
  BY DEF Pruned, PrunedBy
<1>8. kept = f
  <2> SUFFICES ASSUME NEW h, PrunedBy(h, s, c) PROVE h = f
    BY <1>6
  <2> DEFINE K == {i \in 0 .. Len(s) : h[i] = f[i]}
  <2>1. h = [i \in 0 .. Len(s) |->
              IF i = 0 THEN <<>>
              ELSE IF s[i].time < c THEN h[i - 1] ELSE Append(h[i - 1], s[i])]
    BY DEF PrunedBy
  <2>2. 0 \in K
    BY <1>0, <1>4, <2>1
  <2>3. ASSUME NEW i \in 0 .. Len(s) - 1, i \in K PROVE i + 1 \in K
    <3>1. i + 1 \in 0 .. Len(s) /\ i + 1 # 0 /\ (i + 1) - 1 = i
      BY <1>0
    <3>2. h[i + 1] = IF s[i + 1].time < c THEN h[i] ELSE Append(h[i], s[i + 1])
      BY <2>1, <3>1
    <3>3. f[i + 1] = IF s[i + 1].time < c THEN f[i] ELSE Append(f[i], s[i + 1])
      BY <1>4, <3>1
    <3> QED BY <2>3, <3>1, <3>2, <3>3
  <2>4. 0 .. Len(s) \subseteq K
    <3> HIDE DEF K
    <3> QED BY <1>0, <2>2, <2>3, UpTo
  <2>5. \A i \in 0 .. Len(s) : h[i] = f[i]
    BY <2>4
  <2>6. h = [i \in 0 .. Len(s) |-> h[i]]
    BY <2>1
  <2> QED BY <2>5, <2>6
<1> QED BY <1>5, <1>7, <1>8

(* Of rows in order, those at the front go.                                 *)
LEMMA PrunedIs ==
  ASSUME NEW s \in Seq(Row), Sorted(s), NEW c \in Int
  PROVE  \E k \in 0 .. Len(s) :
           /\ \A i \in 1 .. Len(s) : s[i].time < c <=> i <= k
           /\ Pruned(s, c) \in Seq(Row)
           /\ Len(Pruned(s, c)) = Len(s) - k
           /\ \A i \in 1 .. Len(s) - k : Pruned(s, c)[i] = s[i + k]
<1>0. Len(s) \in Nat
  OBVIOUS
<1>1. PICK f \in [0 .. Len(s) -> Seq(Row)] : PrunedBy(f, s, c) /\ Pruned(s, c) = f[Len(s)]
  BY PrunedExists
<1>2. \A i \in 0 .. Len(s) :
        f[i] = IF i = 0 THEN <<>>
               ELSE IF s[i].time < c THEN f[i - 1] ELSE Append(f[i - 1], s[i])
  BY <1>1 DEF PrunedBy
<1> DEFINE P(i, k) == /\ k \in 0 .. i
                      /\ \A j \in 1 .. i : s[j].time < c <=> j <= k
                      /\ Len(f[i]) = i - k
                      /\ \A j \in 1 .. i - k : f[i][j] = s[j + k]
           K == {i \in 0 .. Len(s) : \E k \in 0 .. i : P(i, k)}
<1>3. 0 \in K
  <2>1. f[0] = <<>>
    BY <1>0, <1>2
  <2>2. P(0, 0)
    BY <2>1
  <2> QED BY <1>0, <2>2
<1>4. ASSUME NEW i \in 0 .. Len(s) - 1, i \in K PROVE i + 1 \in K
  <2>1. PICK k \in 0 .. i : P(i, k)
    BY <1>4
  <2>2. /\ i + 1 \in 1 .. Len(s) /\ i + 1 \in 0 .. Len(s) /\ i \in 0 .. Len(s)
        /\ (i + 1) - 1 = i /\ i + 1 # 0 /\ i \in Nat /\ k \in Nat
    BY <1>0
  <2>3. f[i + 1] = IF s[i + 1].time < c THEN f[i] ELSE Append(f[i], s[i + 1])
    BY <1>2, <2>2
  <2>4. f[i] \in Seq(Row) /\ s[i + 1] \in Row /\ s[i + 1].time \in Nat
    BY <2>2, RowType
  <2>5. CASE s[i + 1].time < c
    <3>1. k = i
      <4> SUFFICES ASSUME k < i PROVE FALSE
        BY <2>2
      <4>1. i \in 1 .. i /\ i \in 1 .. Len(s) /\ ~ (i <= k)
        BY <2>2
      <4>2. ~ (s[i].time < c)
        BY <2>1, <4>1
      <4>3. s[i].time \in Nat /\ s[i].time <= s[i + 1].time
        BY <2>2, <4>1, RowType DEF Sorted
      <4> QED BY <2>4, <2>5, <4>2, <4>3
    <3>2. f[i + 1] = f[i] /\ Len(f[i]) = 0
      BY <2>1, <2>2, <2>3, <2>5, <3>1
    <3>3. ASSUME NEW j \in 1 .. i + 1 PROVE s[j].time < c <=> j <= i + 1
      <4>1. j \in 1 .. i \/ j = i + 1
        BY <2>2
      <4> QED BY <2>1, <2>2, <2>5, <3>1, <4>1
    <3>4. P(i + 1, i + 1)
      BY <2>2, <3>2, <3>3
    <3> QED BY <2>2, <3>4
  <2>6. CASE ~ (s[i + 1].time < c)
    <3>1. PICK q : q = f[i]
      OBVIOUS
    <3>2. q \in Seq(Row) /\ Len(q) = i - k /\ \A j \in 1 .. i - k : q[j] = s[j + k]
      BY <2>1, <2>4, <3>1
    <3>3. PICK u : u = f[i + 1]
      OBVIOUS
    <3>4. u = Append(q, s[i + 1])
      BY <2>3, <2>6, <3>1, <3>3
    <3>5. /\ Len(u) = (i - k) + 1 /\ u[(i - k) + 1] = s[i + 1]
          /\ \A j \in 1 .. i - k : u[j] = q[j]
      BY <2>4, <3>2, <3>4
    <3>6. ASSUME NEW j \in 1 .. (i + 1) - k PROVE u[j] = s[j + k]
      <4>1. CASE j \in 1 .. i - k
        BY <3>2, <3>5, <4>1
      <4>2. CASE j = (i - k) + 1
        <5>1. j + k = i + 1
          BY <2>2, <4>2
        <5> QED BY <3>5, <4>2, <5>1
      <4> QED BY <2>2, <4>1, <4>2
    <3>7. ASSUME NEW j \in 1 .. i + 1 PROVE s[j].time < c <=> j <= k
      <4>1. j \in 1 .. i \/ (j = i + 1 /\ ~ (j <= k))
        BY <2>2
      <4> QED BY <2>1, <2>6, <4>1
    <3>8. Len(u) = (i + 1) - k /\ k \in 0 .. i + 1
      BY <2>2, <3>5
    <3>9. P(i + 1, k)
      BY <3>3, <3>6, <3>7, <3>8
    <3> QED BY <2>2, <3>8, <3>9
  <2> QED BY <2>5, <2>6
<1>5. 0 .. Len(s) \subseteq K
  <2> HIDE DEF K
  <2> QED BY <1>0, <1>3, <1>4, UpTo
<1>6. PICK k \in 0 .. Len(s) : P(Len(s), k)
  <2>1. Len(s) \in K
    <3> HIDE DEF K
    <3> QED BY <1>0, <1>5
  <2> HIDE DEF P
  <2> QED BY <2>1
<1>7. f[Len(s)] \in Seq(Row)
  BY <1>0
<1> QED BY <1>1, <1>6, <1>7

----------------------------------------------------------------------------
(* What NodeUptime adds up.                                                 *)

(* The ticks from a to b at which the rows say online.                      *)
OnIn(s, a, b) == {t \in a .. b - 1 : OnAt(s, t)}

LEMMA OnInFinite ==
  ASSUME NEW s, NEW a \in Nat, NEW b \in Nat
  PROVE  /\ IsFiniteSet(OnIn(s, a, b)) /\ Cardinality(OnIn(s, a, b)) \in Nat
         /\ a <= b => Cardinality(OnIn(s, a, b)) <= b - a
<1>1. /\ IsFiniteSet(a .. b - 1)
      /\ Cardinality(a .. b - 1) = IF a > b - 1 THEN 0 ELSE (b - 1) - a + 1
  BY FS_Interval
<1>2. OnIn(s, a, b) \in SUBSET (a .. b - 1)
  BY DEF OnIn
<1>3. IsFiniteSet(OnIn(s, a, b)) /\ Cardinality(OnIn(s, a, b)) <= Cardinality(a .. b - 1)
  BY <1>1, <1>2, FS_Subset
<1>4. Cardinality(OnIn(s, a, b)) \in Nat
  BY <1>3, FS_CardinalityType
<1> QED BY <1>1, <1>3, <1>4

(* The sum of a stretch in which nothing changes.                           *)
Stretch(on, a, b) == IF on THEN b - a ELSE 0

LEMMA OnInMore ==
  ASSUME NEW s, NEW a \in Nat, NEW b \in Nat, NEW c \in Nat, a <= b, b <= c,
         NEW on \in BOOLEAN, \A t \in b .. c - 1 : OnAt(s, t) <=> on
  PROVE  Cardinality(OnIn(s, a, c)) = Cardinality(OnIn(s, a, b)) + Stretch(on, b, c)
<1>1. /\ IsFiniteSet(b .. c - 1)
      /\ Cardinality(b .. c - 1) = IF b > c - 1 THEN 0 ELSE (c - 1) - b + 1
  BY FS_Interval
<1>2. IsFiniteSet(OnIn(s, a, b)) /\ Cardinality(OnIn(s, a, b)) \in Nat
  BY OnInFinite
<1>3. CASE on
  <2>1. OnIn(s, a, c) = OnIn(s, a, b) \cup (b .. c - 1)
    BY <1>3 DEF OnIn
  <2>2. OnIn(s, a, b) \cap (b .. c - 1) = {}
    BY DEF OnIn
  <2>3. Cardinality(OnIn(s, a, b) \cup (b .. c - 1)) =
          Cardinality(OnIn(s, a, b)) + Cardinality(b .. c - 1)
            - Cardinality(OnIn(s, a, b) \cap (b .. c - 1))
    BY <1>1, <1>2, FS_Union
  <2>4. Cardinality(OnIn(s, a, b) \cap (b .. c - 1)) = 0
    BY <2>2, FS_EmptySet
  <2>5. Cardinality(b .. c - 1) = c - b /\ Cardinality(b .. c - 1) \in Nat
    BY <1>1
  <2>6. Cardinality(OnIn(s, a, c)) = Cardinality(OnIn(s, a, b)) + Cardinality(b .. c - 1)
    <3>1. \A x, y \in Nat : \A z : z = x + y - 0 => z = x + y
      OBVIOUS
    <3> QED BY <1>2, <2>1, <2>3, <2>4, <2>5, <3>1
  <2> QED BY <1>3, <2>5, <2>6 DEF Stretch
<1>4. CASE ~ on
  <2>1. OnIn(s, a, c) = OnIn(s, a, b)
    BY <1>4 DEF OnIn
  <2> QED BY <1>2, <1>4, <2>1 DEF Stretch
<1> QED BY <1>3, <1>4

(* The rows walked so far; w[i] is the sum after the first i of them.       *)
Sum   == [on : BOOLEAN, since : Nat, total : Int, done : BOOLEAN]
Begun(from) == [on |-> FALSE, since |-> from, total |-> 0, done |-> FALSE]
WalkedBy(w, s, from, to) ==
  w = [i \in 0 .. Len(s) |-> IF i = 0 THEN Begun(from) ELSE Walk(w[i - 1], s[i], from, to)]

LEMMA WalkType ==
  ASSUME NEW acc \in Sum, NEW row \in Row, NEW from \in Nat, NEW to \in Nat
  PROVE  Walk(acc, row, from, to) \in Sum
<1>1. row.time \in Nat /\ acc.total \in Int /\ acc.since \in Nat /\ acc.on \in BOOLEAN
  BY DEF Row, Sum
<1>2. (row.event = "online") \in BOOLEAN
  OBVIOUS
<1>3. CASE acc.done \/ row.time > to
  BY <1>1, <1>3 DEF Walk, Sum
<1>4. CASE ~ (acc.done \/ row.time > to)
  BY <1>1, <1>2, <1>4 DEF Walk, Sum
<1> QED BY <1>3, <1>4

LEMMA WalkedExists ==
  ASSUME NEW s \in Seq(Row), NEW from \in Nat, NEW to \in Nat
  PROVE  \E w \in [0 .. Len(s) -> Sum] : WalkedBy(w, s, from, to)
<1>0. Len(s) \in Nat
  OBVIOUS
<1>1. PICK g : g = [i \in 1 .. Len(s) |-> [q \in Sum |-> Walk(q, s[i], from, to)]]
  OBVIOUS
<1>2. g \in [1 .. Len(s) -> [Sum -> Sum]]
  <2>1. ASSUME NEW i \in 1 .. Len(s), NEW q \in Sum PROVE Walk(q, s[i], from, to) \in Sum
    <3>1. s[i] \in Row
      OBVIOUS
    <3> QED BY <3>1, WalkType
  <2> QED BY <1>1, <2>1
<1>3. PICK w \in [0 .. Len(s) -> Sum] :
        w = [i \in 0 .. Len(s) |-> IF i = 0 THEN Begun(from) ELSE g[i][w[i - 1]]]
  <2>1. Begun(from) \in Sum
    BY DEF Begun, Sum
  <2>2. \E w \in [0 .. Len(s) -> Sum] : Turns(w, Len(s), Begun(from), g)
    BY <1>0, <1>2, <2>1, RecursionExists
  <2> QED BY <2>2 DEF Turns
<1>4. ASSUME NEW i \in 0 .. Len(s)
      PROVE  w[i] = IF i = 0 THEN Begun(from) ELSE Walk(w[i - 1], s[i], from, to)
  <2>1. CASE i = 0
    BY <1>3, <2>1
  <2>2. CASE i # 0
    <3>1. i \in 1 .. Len(s) /\ i - 1 \in 0 .. Len(s)
      BY <1>0, <2>2
    <3>2. w[i - 1] \in Sum
      BY <3>1
    <3>3. w[i] = g[i][w[i - 1]]
      BY <1>3, <2>2
    <3> QED BY <1>1, <2>2, <3>1, <3>2, <3>3
  <2> QED BY <2>1, <2>2
<1>5. w = [i \in 0 .. Len(s) |->
            IF i = 0 THEN Begun(from) ELSE Walk(w[i - 1], s[i], from, to)]
  BY <1>3, <1>4
<1> QED BY <1>5 DEF WalkedBy

(* Any two such functions are the same, so the one of NodeUptime is known   *)
(* by what follows from its definition.                                     *)
LEMMA UptimeOf ==
  ASSUME NEW s \in Seq(Row), NEW from \in Nat, NEW to \in Nat
  PROVE  \E w : /\ WalkedBy(w, s, from, to)
                /\ NodeUptime(s, from, to) =
                     LET all == w[Len(s)].total + Stretch(w[Len(s)].on, w[Len(s)].since, to)
                     IN  IF all > to - from THEN to - from ELSE all
<1> DEFINE walked == CHOOSE w : WalkedBy(w, s, from, to)
<1>1. WalkedBy(walked, s, from, to)
  BY WalkedExists
<1>2. NodeUptime(s, from, to) =
        LET all == walked[Len(s)].total
                     + Stretch(walked[Len(s)].on, walked[Len(s)].since, to)
        IN  IF all > to - from THEN to - from ELSE all
  BY DEF NodeUptime, WalkedBy, Begun, Stretch
<1> QED BY <1>1, <1>2

(* Where the walk is after k rows: it knows the state and the sum up to the *)
(* k-th.                                                                    *)
Clipped(s, k, from) == IF k = 0 THEN from ELSE IF s[k].time < from THEN from ELSE s[k].time

WalkOK(acc, s, k, from, to) ==
  /\ acc.since = Clipped(s, k, from)
  /\ acc.on <=> (k > 0 /\ s[k].event = "online")
  /\ acc.total = Cardinality(OnIn(s, from, acc.since))
  /\ k > 0 => s[k].time <= to

LEMMA WalkStep ==
  ASSUME NEW s \in Seq(Row), Sorted(s), NEW from \in Nat, NEW to \in Nat, from < to,
         NEW i \in 0 .. Len(s) - 1, NEW acc \in Sum, ~ acc.done,
         WalkOK(acc, s, i, from, to), s[i + 1].time <= to
  PROVE  WalkOK(Walk(acc, s[i + 1], from, to), s, i + 1, from, to)
<1>0. Len(s) \in Nat /\ i \in Nat /\ i + 1 \in 1 .. Len(s) /\ i \in 0 .. Len(s)
  OBVIOUS
<1>1. PICK row : row = s[i + 1]
  OBVIOUS
<1>2. row.time \in Nat /\ row.time <= to /\ acc.since \in Nat /\ acc.on \in BOOLEAN
  BY <1>0, <1>1, RowType DEF Sum
<1>3. PICK next : next = Walk(acc, row, from, to)
  OBVIOUS
<1>4. /\ next.on <=> row.event = "online"
      /\ next.since = IF row.time < from THEN from ELSE row.time
      /\ next.total = acc.total +
           IF acc.on /\ row.time >= from THEN row.time - acc.since ELSE 0
  <2>1. ~ (acc.done \/ row.time > to)
    BY <1>1, <1>2
  <2>2. next = [on    |-> row.event = "online",
                since |-> IF row.time < from THEN from ELSE row.time,
                total |-> acc.total +
                  IF acc.on /\ row.time >= from THEN row.time - acc.since ELSE 0,
                done  |-> FALSE]
    BY <1>3, <2>1 DEF Walk
  <2>3. next.on = (row.event = "online")
    BY <2>2, Zenon
  <2> QED BY <2>2, <2>3
<1>5. i > 0 => s[i].time \in Nat /\ s[i].time <= row.time
  <2> SUFFICES ASSUME i > 0 PROVE s[i].time \in Nat /\ s[i].time <= s[i + 1].time
    BY <1>1
  <2>1. i \in 1 .. Len(s) /\ i <= i + 1
    BY <1>0
  <2> QED BY <1>0, <2>1, RowType DEF Sorted
<1>6. i + 1 > 0 /\ i + 1 # 0
  BY <1>0
<1>7. CASE row.time < from
  <2>1. acc.since = from
    BY <1>2, <1>5, <1>7 DEF WalkOK, Clipped
  <2>2. next.since = from /\ next.total = acc.total
    <3>1. acc.total \in Int
      BY DEF Sum
    <3> QED BY <1>2, <1>4, <1>7, <3>1
  <2>3. next.total = Cardinality(OnIn(s, from, next.since))
    BY <2>1, <2>2 DEF WalkOK
  <2> QED BY <1>1, <1>2, <1>3, <1>4, <1>6, <1>7, <2>2, <2>3 DEF WalkOK, Clipped
<1>8. CASE ~ (row.time < from)
  <2>1. from <= acc.since /\ acc.since <= row.time
    BY <1>2, <1>5, <1>8 DEF WalkOK, Clipped
  <2>2. ASSUME NEW t \in acc.since .. row.time - 1 PROVE OnAt(s, t) <=> acc.on
    <3>1. t \in Nat /\ acc.since <= t /\ t < row.time
      BY <1>2
    <3>2. i > 0 => s[i].time <= t
      <4>1. i > 0 => s[i].time <= acc.since
        BY <1>5 DEF WalkOK, Clipped
      <4> QED BY <1>2, <1>5, <3>1, <4>1
    <3>3. i < Len(s) => t < s[i + 1].time
      BY <1>1, <3>1
    <3>4. OnAt(s, t) <=> i > 0 /\ s[i].event = "online"
      BY <1>0, <3>1, <3>2, <3>3, OnBetween
    <3> QED BY <3>4 DEF WalkOK
  <2>3. Cardinality(OnIn(s, from, row.time)) =
          Cardinality(OnIn(s, from, acc.since)) + Stretch(acc.on, acc.since, row.time)
    BY <1>2, <2>1, <2>2, OnInMore
  <2>4. next.since = row.time
    BY <1>2, <1>4, <1>8
  <2>5. next.total = acc.total + Stretch(acc.on, acc.since, row.time)
    BY <1>2, <1>4, <1>8 DEF Stretch
  <2>6. next.total = Cardinality(OnIn(s, from, next.since))
    BY <2>3, <2>4, <2>5 DEF WalkOK
  <2> QED BY <1>1, <1>2, <1>3, <1>4, <1>6, <1>8, <2>4, <2>6 DEF WalkOK, Clipped
<1> QED BY <1>2, <1>7, <1>8

(* NodeUptime (diagnostics.go:84-129) adds up stretches between rows; what  *)
(* it returns is the number of ticks of the window at which the node's      *)
(* latest row says online.                                                  *)
THEOREM UptimeIs ==
  ASSUME NEW s \in Seq(Row), Sorted(s), NEW from \in Nat, NEW to \in Nat, from < to
  PROVE  NodeUptime(s, from, to) = Cardinality(OnIn(s, from, to))
<1>0. Len(s) \in Nat
  OBVIOUS
<1>1. PICK w : /\ WalkedBy(w, s, from, to)
               /\ NodeUptime(s, from, to) =
                     LET all == w[Len(s)].total + Stretch(w[Len(s)].on, w[Len(s)].since, to)
                     IN  IF all > to - from THEN to - from ELSE all
  BY UptimeOf
<1> DEFINE Past(k)  == k < Len(s) /\ to < s[k + 1].time
           P(i, k)  == /\ w[i] \in Sum
                       /\ WalkOK(w[i], s, k, from, to)
                       /\ IF w[i].done THEN Past(k) ELSE k = i
           K == {i \in 0 .. Len(s) : \E k \in 0 .. i : P(i, k)}
<1>2. 0 \in K
  <2>1. w[0] = Begun(from)
    BY <1>0, <1>1 DEF WalkedBy
  <2>2. Begun(from) \in Sum
    BY DEF Begun, Sum
  <2>3. Cardinality(OnIn(s, from, from)) = 0
    <3>1. OnIn(s, from, from) = {}
      BY DEF OnIn
    <3> QED BY <3>1, FS_EmptySet
  <2>4. PICK acc : acc = Begun(from)
    OBVIOUS
  <2>5. acc.on = FALSE /\ acc.since = from /\ acc.total = 0 /\ acc.done = FALSE
    BY <2>4 DEF Begun
  <2>6. WalkOK(acc, s, 0, from, to)
    BY <2>3, <2>5 DEF WalkOK, Clipped
  <2>7. P(0, 0)
    BY <2>1, <2>2, <2>4, <2>5, <2>6
  <2> QED BY <1>0, <2>7
<1>3. ASSUME NEW i \in 0 .. Len(s) - 1, i \in K PROVE i + 1 \in K
  <2>1. PICK k \in 0 .. i : P(i, k)
    BY <1>3
  <2>2. /\ i + 1 \in 1 .. Len(s) /\ i + 1 \in 0 .. Len(s) /\ (i + 1) - 1 = i /\ i + 1 # 0
        /\ i \in 0 .. i + 1 /\ k \in 0 .. i + 1 /\ i + 1 \in 0 .. i + 1 /\ i < Len(s)
    BY <1>0
  <2>3. w[i + 1] = Walk(w[i], s[i + 1], from, to)
    BY <1>1, <2>2 DEF WalkedBy
  <2>4. PICK row : row = s[i + 1]
    OBVIOUS
  <2>5. row \in Row /\ row.time \in Nat
    BY <2>2, <2>4, RowType
  <2>6. PICK acc \in Sum : acc = w[i]
    BY <2>1
  <2>7. w[i + 1] \in Sum
    BY <2>3, <2>4, <2>5, <2>6, WalkType
  <2>8. CASE acc.done \/ row.time > to
    <3>1. w[i + 1] = [acc EXCEPT !.done = TRUE]
      BY <2>3, <2>4, <2>6, <2>8 DEF Walk
    <3>2. /\ w[i + 1].done /\ w[i + 1].on = acc.on /\ w[i + 1].since = acc.since
          /\ w[i + 1].total = acc.total
      BY <3>1 DEF Sum
    <3>3. WalkOK(w[i + 1], s, k, from, to)
      BY <2>1, <2>6, <3>2 DEF WalkOK
    <3>4. Past(k)
      <4>1. CASE acc.done
        BY <2>1, <2>6, <4>1
      <4>2. CASE ~ acc.done /\ row.time > to
        BY <2>1, <2>2, <2>4, <2>5, <2>6, <4>2
      <4> QED BY <2>8, <4>1, <4>2
    <3>5. P(i + 1, k)
      BY <2>7, <3>2, <3>3, <3>4
    <3> QED BY <2>2, <3>5
  <2>9. CASE ~ (acc.done \/ row.time > to)
    <3>1. k = i /\ WalkOK(acc, s, i, from, to)
      BY <2>1, <2>6, <2>9
    <3>2. row.time <= to
      BY <2>5, <2>9
    <3>3. WalkOK(w[i + 1], s, i + 1, from, to)
      BY <2>3, <2>4, <2>6, <2>9, <3>1, <3>2, WalkStep
    <3>4. ~ w[i + 1].done
      BY <2>3, <2>4, <2>6, <2>9 DEF Walk
    <3>5. P(i + 1, i + 1)
      BY <2>7, <3>3, <3>4
    <3> QED BY <2>2, <3>5
  <2> QED BY <2>8, <2>9
<1>4. Len(s) \in K
  <2> HIDE DEF K
  <2>1. 0 .. Len(s) \subseteq K
    BY <1>0, <1>2, <1>3, UpTo
  <2> QED BY <1>0, <2>1
<1>5. PICK k \in 0 .. Len(s) : P(Len(s), k)
  <2> HIDE DEF P
  <2> QED BY <1>4
<1>6. PICK end \in Sum : end = w[Len(s)]
  BY <1>5
<1>7. WalkOK(end, s, k, from, to) /\ (k < Len(s) => Past(k))
  BY <1>5, <1>6
<1>8. end.since \in Nat /\ end.on \in BOOLEAN /\ end.total \in Int
  BY DEF Sum
<1>9. k > 0 => s[k].time \in Nat /\ s[k].time <= end.since /\ s[k].time <= to
  <2> SUFFICES ASSUME k > 0 PROVE s[k].time \in Nat /\ s[k].time <= end.since /\ s[k].time <= to
    OBVIOUS
  <2>1. k \in 1 .. Len(s)
    BY <1>0
  <2>2. s[k].time \in Nat
    BY <2>1, RowType
  <2> QED BY <1>7, <2>2 DEF WalkOK, Clipped
<1>10. from <= end.since /\ end.since <= to
  BY <1>7, <1>9 DEF WalkOK, Clipped
<1>11. ASSUME NEW t \in end.since .. to - 1 PROVE OnAt(s, t) <=> end.on
  <2>1. t \in Nat /\ end.since <= t /\ t < to
    BY <1>8
  <2>2. k > 0 => s[k].time <= t
    BY <1>8, <1>9, <2>1
  <2>3. k < Len(s) => t < s[k + 1].time
    <3> SUFFICES ASSUME k < Len(s) PROVE t < s[k + 1].time
      OBVIOUS
    <3>1. k + 1 \in 1 .. Len(s)
      BY <1>0
    <3> QED BY <1>7, <2>1, <3>1, RowType
  <2>4. OnAt(s, t) <=> k > 0 /\ s[k].event = "online"
    BY <2>1, <2>2, <2>3, OnBetween
  <2> QED BY <1>7, <2>4 DEF WalkOK
<1>12. Cardinality(OnIn(s, from, to)) =
         Cardinality(OnIn(s, from, end.since)) + Stretch(end.on, end.since, to)
  BY <1>8, <1>10, <1>11, OnInMore
<1>13. end.total + Stretch(end.on, end.since, to) = Cardinality(OnIn(s, from, to))
  BY <1>7, <1>12 DEF WalkOK
<1>14. Cardinality(OnIn(s, from, to)) \in Nat /\ Cardinality(OnIn(s, from, to)) <= to - from
  BY OnInFinite
<1> QED BY <1>1, <1>6, <1>13, <1>14

----------------------------------------------------------------------------
(* The story a node's rows tell.                                            *)

(* The last row says what the tracker says, on; it is no newer than what    *)
(* the tracker knows, or than any frame still to be handled.                *)
LastFits(s, on, heard, c, f) ==
  /\ on <=> EndsOnline(s)
  /\ s # <<>> =>
       /\ on => Last(s).time <= heard
       /\ ~ on /\ heard # 0 => Last(s).time = heard + Threshold
       /\ ~ on /\ heard = 0 =>
            Last(s).time <= c /\ (f # NoFrame => Last(s).time <= f.time)

(* A tick within the threshold of a report is on.                           *)
CoverFits(s, R, c) ==
  \A r \in R : \A t \in Nat :
    r <= t /\ t < r + Threshold /\ c - Retention <= t => OnAt(s, t)

(* A tick that is on is within the threshold of a report r, or in a silence *)
(* after r that was too short for a scan to see, or in one not over yet.    *)
Bridging(t, r, R, scan) ==
  \E q \in R : /\ t < q
               /\ q - r <= Threshold + ScanPeriod
               /\ t < scan \/ scan - r <= Threshold
Backed(t, R, scan, on, heard) ==
  \E r \in R : /\ r <= t
               /\ t < r + Threshold \/ Bridging(t, r, R, scan) \/ (on /\ r = heard)
NoMoreFits(s, R, scan, on, heard) ==
  \A t \in Nat : OnAt(s, t) => Backed(t, R, scan, on, heard)

Story(s, on, heard, R, c, scan, f) ==
  /\ Sorted(s)
  /\ LastFits(s, on, heard, c, f)
  /\ CoverFits(s, R, c)
  /\ NoMoreFits(s, R, scan, on, heard)

(* Time passes, a scan finds nothing, a frame arrives.                      *)
LEMMA StoryQuiet ==
  ASSUME AvailabilityAssumption,
         NEW s \in Seq(Row), NEW on \in BOOLEAN, NEW heard \in Nat, NEW R, R \subseteq Nat,
         NEW c \in Nat, NEW scan \in Nat, NEW f, Story(s, on, heard, R, c, scan, f),
         NEW d \in Nat, c <= d, NEW again \in Nat, NEW g,
         again = scan \/ \A r \in R : r <= again,
         g # NoFrame => g = f \/ (g.time \in Nat /\ c <= g.time)
  PROVE  Story(s, on, heard, R, d, again, g)
<1>1. LastFits(s, on, heard, d, g)
  <2> SUFFICES ASSUME s # <<>>, ~ on, heard = 0
               PROVE  Last(s).time <= d /\ (g # NoFrame => Last(s).time <= g.time)
    BY DEF Story, LastFits
  <2>1. Last(s).time <= c /\ (f # NoFrame => Last(s).time <= f.time)
    BY DEF Story, LastFits
  <2>2. Last(s).time \in Nat
    <3>1. Len(s) \in 1 .. Len(s)
      OBVIOUS
    <3> QED BY <3>1, RowType DEF Last
  <2> QED BY <2>1, <2>2
<1>2. CoverFits(s, R, d)
  <2> SUFFICES ASSUME NEW r \in R, NEW t \in Nat, r <= t, t < r + Threshold, d - Retention <= t
               PROVE  OnAt(s, t)
    BY DEF CoverFits
  <2>1. c - Retention <= t
    BY DEF AvailabilityAssumption
  <2> QED BY <2>1 DEF Story, CoverFits
<1>3. ASSUME NEW t \in Nat, Backed(t, R, scan, on, heard) PROVE Backed(t, R, again, on, heard)
  <2>1. PICK r \in R :
          r <= t /\ (t < r + Threshold \/ Bridging(t, r, R, scan) \/ (on /\ r = heard))
    BY <1>3 DEF Backed
  <2>2. ASSUME Bridging(t, r, R, scan) PROVE Bridging(t, r, R, again)
    <3>1. CASE again = scan
      BY <2>2, <3>1
    <3>2. CASE \A x \in R : x <= again
      <4>1. PICK q \in R : t < q /\ q - r <= Threshold + ScanPeriod
        BY <2>2 DEF Bridging
      <4>2. q \in Nat /\ q <= again
        BY <3>2
      <4>3. t < again
        BY <4>1, <4>2
      <4> QED BY <4>1, <4>3 DEF Bridging
    <3> QED BY <3>1, <3>2
  <2> QED BY <2>1, <2>2 DEF Backed
<1>4. NoMoreFits(s, R, again, on, heard)
  BY <1>3 DEF Story, NoMoreFits
<1> QED BY <1>1, <1>2, <1>4 DEF Story

(* The cleanup takes rows at the front, the newest of which said offline.   *)
LEMMA StoryDrop ==
  ASSUME AvailabilityAssumption,
         NEW s \in Seq(Row), NEW on \in BOOLEAN, NEW heard \in Nat, NEW R, R \subseteq Nat,
         NEW c \in Nat, NEW scan \in Nat, NEW f, Story(s, on, heard, R, c, scan, f),
         NEW k \in 0 .. Len(s),
         k > 0 => s[k].event = "offline" /\ s[k].time < c - Retention,
         NEW u \in Seq(Row), Len(u) = Len(s) - k, \A i \in 1 .. Len(u) : u[i] = s[i + k]
  PROVE  Story(u, on, heard, R, c, scan, f)
<1>1. /\ Sorted(u)
      /\ \A t \in Nat : OnAt(u, t) => OnAt(s, t)
      /\ \A t \in Nat : (k > 0 => s[k].time <= t) /\ OnAt(s, t) => OnAt(u, t)
      /\ u # <<>> => s # <<>> /\ Last(u) = Last(s)
      /\ EndsOnline(u) <=> EndsOnline(s)
  BY DropOn DEF Story
<1>2. LastFits(u, on, heard, c, f)
  BY <1>1 DEF Story, LastFits
<1>3. CoverFits(u, R, c)
  <2> SUFFICES ASSUME NEW r \in R, NEW t \in Nat, r <= t, t < r + Threshold, c - Retention <= t
               PROVE  OnAt(u, t)
    BY DEF CoverFits
  <2>1. OnAt(s, t)
    BY DEF Story, CoverFits
  <2>2. k > 0 => s[k].time <= t
    <3> SUFFICES ASSUME k > 0 PROVE s[k].time <= t
      OBVIOUS
    <3>1. s[k].time \in Nat
      BY RowType
    <3> QED BY <3>1 DEF AvailabilityAssumption
  <2> QED BY <1>1, <2>1, <2>2
<1>4. NoMoreFits(u, R, scan, on, heard)
  BY <1>1 DEF Story, NoMoreFits
<1> QED BY <1>1, <1>2, <1>3, <1>4 DEF Story

(* A node that is online is heard again.                                    *)
LEMMA StoryHeard ==
  ASSUME AvailabilityAssumption,
         NEW s \in Seq(Row), NEW heard \in Nat, NEW R, R \subseteq Nat,
         NEW c \in Nat, NEW scan \in Nat, NEW f, Story(s, TRUE, heard, R, c, scan, f),
         heard \in R, NEW x \in Nat, heard <= x, x <= c, c <= scan + ScanPeriod,
         scan - heard <= Threshold
  PROVE  Story(s, TRUE, x, R \cup {x}, c, scan, NoFrame)
<1>0. Threshold \in Nat /\ ScanPeriod \in Nat
  BY DEF AvailabilityAssumption
<1>1. s # <<>> => Last(s).time \in Nat /\ Last(s).time <= heard /\ Last(s).time <= x
  <2> SUFFICES ASSUME s # <<>>
               PROVE  Last(s).time \in Nat /\ Last(s).time <= heard /\ Last(s).time <= x
    OBVIOUS
  <2>1. Len(s) \in 1 .. Len(s)
    OBVIOUS
  <2>2. Last(s).time \in Nat
    BY <2>1, RowType DEF Last
  <2>3. Last(s).time <= heard
    BY DEF Story, LastFits
  <2> QED BY <2>2, <2>3
<1>2. LastFits(s, TRUE, x, c, NoFrame)
  BY <1>1 DEF Story, LastFits
<1>3. CoverFits(s, R \cup {x}, c)
  <2> SUFFICES ASSUME NEW r \in R \cup {x}, NEW t \in Nat,
                      r <= t, t < r + Threshold, c - Retention <= t
               PROVE  OnAt(s, t)
    BY DEF CoverFits
  <2>1. CASE r \in R
    BY <2>1 DEF Story, CoverFits
  <2>2. CASE r = x
    <3>1. s # <<>> /\ Last(s).event = "online"
      BY DEF Story, LastFits, EndsOnline
    <3>2. Len(s) \in 0 .. Len(s) /\ Len(s) > 0
      BY <3>1
    <3>3. s[Len(s)].time <= t
      BY <1>1, <2>2, <3>1 DEF Last
    <3> QED BY <3>1, <3>2, <3>3, OnBetween DEF Story, Last
  <2> QED BY <2>1, <2>2
<1>4. ASSUME NEW t \in Nat, Backed(t, R, scan, TRUE, heard)
      PROVE  Backed(t, R \cup {x}, scan, TRUE, x)
  <2>1. PICK r \in R :
          r <= t /\ (t < r + Threshold \/ Bridging(t, r, R, scan) \/ r = heard)
    BY <1>4 DEF Backed
  <2>2. CASE t < r + Threshold
    BY <2>1, <2>2 DEF Backed
  <2>3. CASE Bridging(t, r, R, scan)
    <3>1. Bridging(t, r, R \cup {x}, scan)
      BY <2>3 DEF Bridging
    <3> QED BY <2>1, <3>1 DEF Backed
  <2>4. CASE r = heard /\ t < x
    <3>1. x - r <= Threshold + ScanPeriod /\ scan - r <= Threshold
      BY <1>0, <2>4
    <3>2. Bridging(t, r, R \cup {x}, scan)
      BY <2>4, <3>1 DEF Bridging
    <3> QED BY <2>1, <3>2 DEF Backed
  <2>5. CASE x <= t
    BY <2>5 DEF Backed
  <2>6. t < x \/ x <= t
    OBVIOUS
  <2> QED BY <2>1, <2>2, <2>3, <2>4, <2>5, <2>6
<1>5. NoMoreFits(s, R \cup {x}, scan, TRUE, x)
  BY <1>4 DEF Story, NoMoreFits
<1> QED BY <1>2, <1>3, <1>5 DEF Story

(* A node that is offline is heard.                                         *)
LEMMA StoryOpened ==
  ASSUME AvailabilityAssumption,
         NEW s \in Seq(Row), NEW heard \in Nat, NEW R, R \subseteq Nat,
         NEW c \in Nat, NEW scan \in Nat, NEW f, Story(s, FALSE, heard, R, c, scan, f),
         f # NoFrame, NEW x \in Row, x.event = "online", x.time = f.time,
         heard # 0 => heard + Threshold <= x.time
  PROVE  Append(s, x) \in Seq(Row) /\
         Story(Append(s, x), TRUE, x.time, R \cup {x.time}, c, scan, NoFrame)
<1>0. x.time \in Nat
  BY DEF Row
<1>1. s # <<>> => Last(s).time <= x.time
  BY DEF Story, LastFits
<1>2. PICK u : u = Append(s, x)
  OBVIOUS
<1>3. /\ u \in Seq(Row) /\ u # <<>> /\ Last(u) = x
      /\ Sorted(u)
      /\ \A t \in Nat : t < x.time => (OnAt(u, t) <=> OnAt(s, t))
      /\ \A t \in Nat : x.time <= t => OnAt(u, t)
  BY <1>1, <1>2, AppendOn DEF Story
<1>4. LastFits(u, TRUE, x.time, c, NoFrame)
  BY <1>0, <1>3 DEF LastFits, EndsOnline
<1>5. CoverFits(u, R \cup {x.time}, c)
  <2> SUFFICES ASSUME NEW r \in R \cup {x.time}, NEW t \in Nat,
                      r <= t, t < r + Threshold, c - Retention <= t
               PROVE  OnAt(u, t)
    BY DEF CoverFits
  <2>1. CASE x.time <= t
    BY <1>3, <2>1
  <2>2. CASE t < x.time
    <3>1. r \in R
      BY <1>0, <2>2
    <3>2. OnAt(s, t)
      BY <3>1 DEF Story, CoverFits
    <3> QED BY <1>3, <2>2, <3>2
  <2> QED BY <1>0, <2>1, <2>2
<1>6. ASSUME NEW t \in Nat, OnAt(u, t) PROVE Backed(t, R \cup {x.time}, scan, TRUE, x.time)
  <2>1. CASE x.time <= t
    BY <2>1 DEF Backed
  <2>2. CASE t < x.time
    <3>1. Backed(t, R, scan, FALSE, heard)
      BY <1>3, <1>6, <2>2 DEF Story, NoMoreFits
    <3>2. PICK r \in R : r <= t /\ (t < r + Threshold \/ Bridging(t, r, R, scan))
      BY <3>1 DEF Backed
    <3>3. Bridging(t, r, R, scan) => Bridging(t, r, R \cup {x.time}, scan)
      BY DEF Bridging
    <3> QED BY <3>2, <3>3 DEF Backed
  <2>3. x.time <= t \/ t < x.time
    BY <1>0
  <2> QED BY <2>1, <2>2, <2>3
<1>7. NoMoreFits(u, R \cup {x.time}, scan, TRUE, x.time)
  BY <1>6 DEF NoMoreFits
<1> QED BY <1>2, <1>3, <1>4, <1>5, <1>7 DEF Story

(* A scan finds a node silent.                                              *)
LEMMA StoryClosed ==
  ASSUME AvailabilityAssumption,
         NEW s \in Seq(Row), NEW heard \in Nat, NEW R, R \subseteq Nat,
         NEW c \in Nat, NEW scan \in Nat, NEW f, Story(s, TRUE, heard, R, c, scan, f),
         heard # 0, \A r \in R : r <= heard /\ r <= c,
         NEW x \in Row, x.event = "offline", x.time = heard + Threshold
  PROVE  Append(s, x) \in Seq(Row) /\ Story(Append(s, x), FALSE, heard, R, c, c, f)
<1>0. x.time \in Nat /\ Threshold \in Nat
  BY DEF Row, AvailabilityAssumption
<1>1. s # <<>> => Last(s).time <= x.time
  <2> SUFFICES ASSUME s # <<>> PROVE Last(s).time <= x.time
    OBVIOUS
  <2>1. Len(s) \in 1 .. Len(s)
    OBVIOUS
  <2>2. Last(s).time \in Nat
    BY <2>1, RowType DEF Last
  <2>3. Last(s).time <= heard
    BY DEF Story, LastFits
  <2> QED BY <1>0, <2>2, <2>3
<1>2. PICK u : u = Append(s, x)
  OBVIOUS
<1>3. /\ u \in Seq(Row) /\ u # <<>> /\ Last(u) = x
      /\ Sorted(u)
      /\ \A t \in Nat : t < x.time => (OnAt(u, t) <=> OnAt(s, t))
      /\ \A t \in Nat : x.time <= t => ~ OnAt(u, t)
  BY <1>1, <1>2, AppendOn DEF Story
<1>4. LastFits(u, FALSE, heard, c, f)
  BY <1>3 DEF LastFits, EndsOnline
<1>5. CoverFits(u, R, c)
  <2> SUFFICES ASSUME NEW r \in R, NEW t \in Nat,
                      r <= t, t < r + Threshold, c - Retention <= t
               PROVE  OnAt(u, t)
    BY DEF CoverFits
  <2>1. OnAt(s, t)
    BY DEF Story, CoverFits
  <2>2. r \in Nat /\ r <= heard
    OBVIOUS
  <2>3. t < x.time
    BY <1>0, <2>2
  <2> QED BY <1>3, <2>1, <2>3
<1>6. ASSUME NEW t \in Nat, OnAt(u, t) PROVE Backed(t, R, c, FALSE, heard)
  <2>1. t < x.time
    BY <1>0, <1>3, <1>6
  <2>2. Backed(t, R, scan, TRUE, heard)
    BY <1>3, <1>6, <2>1 DEF Story, NoMoreFits
  <2>3. PICK r \in R :
          r <= t /\ (t < r + Threshold \/ Bridging(t, r, R, scan) \/ r = heard)
    BY <2>2 DEF Backed
  <2>4. CASE t < r + Threshold
    BY <2>3, <2>4 DEF Backed
  <2>5. CASE Bridging(t, r, R, scan)
    <3>1. PICK q \in R : t < q /\ q - r <= Threshold + ScanPeriod
      BY <2>5 DEF Bridging
    <3>2. t < c
      BY <3>1
    <3>3. Bridging(t, r, R, c)
      BY <3>1, <3>2 DEF Bridging
    <3> QED BY <2>3, <3>3 DEF Backed
  <2>6. CASE r = heard
    BY <2>1, <2>3, <2>6 DEF Backed
  <2> QED BY <2>3, <2>4, <2>5, <2>6
<1>7. NoMoreFits(u, R, c, FALSE, heard)
  BY <1>6 DEF NoMoreFits
<1> QED BY <1>2, <1>3, <1>4, <1>5, <1>7 DEF Story

(* The process comes back: nobody is online, nobody was heard.              *)
LEMMA StoryRestart ==
  ASSUME AvailabilityAssumption,
         NEW s \in Seq(Row), NEW heard \in Nat, NEW R, R \subseteq Nat,
         NEW c \in Nat, NEW scan \in Nat, NEW f, Story(s, FALSE, heard, R, c, scan, f),
         heard # 0 => heard + Threshold <= c, \A r \in R : r <= c,
         NEW d \in Nat, c <= d
  PROVE  Story(s, FALSE, 0, R, d, d, NoFrame)
<1>1. \A r \in R : r <= d
  OBVIOUS
<1>2. Story(s, FALSE, heard, R, d, d, NoFrame)
  BY <1>1, StoryQuiet
<1>3. LastFits(s, FALSE, 0, d, NoFrame)
  <2>1. s # <<>> => Last(s).time <= d
    <3> SUFFICES ASSUME s # <<>> PROVE Last(s).time <= d
      OBVIOUS
    <3>1. heard # 0 => Last(s).time = heard + Threshold
      BY DEF Story, LastFits
    <3>2. heard = 0 => Last(s).time <= d
      BY <1>2 DEF Story, LastFits
    <3>3. heard + Threshold \in Nat
      BY DEF AvailabilityAssumption
    <3> QED BY <3>1, <3>2, <3>3
  <2> QED BY <1>2, <2>1 DEF Story, LastFits
<1>4. NoMoreFits(s, R, d, FALSE, 0)
  BY <1>2 DEF Story, NoMoreFits, Backed
<1> QED BY <1>2, <1>3, <1>4 DEF Story

----------------------------------------------------------------------------
(* The invariant.                                                           *)

(* All the rows of a node: those in the table, then the scanner's and the   *)
(* loop's on their way to it.                                               *)
Pending(n)  == \E row \in closing : row.node = n
Closings(n) == IF Pending(n) THEN <<CHOOSE row \in closing : row.node = n>> ELSE <<>>
Openings(n) == IF opening.node = n THEN <<opening>> ELSE <<>>
Rows(n)     == log[n] \o Closings(n) \o Openings(n)

(* The scanner is punctual, the loop handles one frame at a time, and the   *)
(* scanner owes at most one row for a node.                                 *)
ClockOK ==
  /\ clock >= 1
  /\ lastScan <= clock /\ clock <= lastScan + ScanPeriod
  /\ frame # NoFrame => /\ 1 <= frame.time /\ frame.time <= clock
                        /\ clock <= frame.time + HandlingBound
                        /\ opening = NoRow
  /\ opening # NoRow => /\ opening.time <= clock /\ clock <= opening.time + HandlingBound
                        /\ opening.event = "online"
                        /\ online[opening.node]
                        /\ lastHeard[opening.node] = opening.time
  /\ \A row \in closing : row.event = "offline"
  /\ \A row, other \in closing : row.node = other.node => row = other

(* No report is newer than the clock or than a frame still to be handled;   *)
(* a node that is online was heard lately, one that is offline long ago.    *)
HeardOK(n) ==
  /\ \A r \in reports[n] : r <= clock /\ (frame # NoFrame => r <= frame.time)
  /\ lastHeard[n] <= clock
  /\ frame # NoFrame => lastHeard[n] <= frame.time
  /\ online[n] => /\ lastHeard[n] \in reports[n] /\ lastHeard[n] # 0
                  /\ \A r \in reports[n] : r <= lastHeard[n]
                  /\ lastScan - lastHeard[n] <= Threshold
  /\ ~ online[n] /\ lastHeard[n] # 0 => lastHeard[n] + Threshold <= clock

TrackerInv == TypeOK /\ ClockOK /\ \A n \in Nodes : HeardOK(n)

StoryOK(n) ==
  ~ Excused(n, Reasons) =>
    Story(Rows(n), online[n], lastHeard[n], reports[n], clock, lastScan, frame)

AvailabilityInv == TrackerInv /\ \A n \in Nodes : StoryOK(n)
----------------------------------------------------------------------------
(* Types.                                                                   *)

LEMMA TypeInit == AvailabilityAssumption /\ Init => TypeOK
BY DEF AvailabilityAssumption, Init, TypeOK

LEMMA PrunedType ==
  ASSUME NEW s \in Seq(Row), NEW c \in Int
  PROVE  Pruned(s, c) \in Seq(Row)
<1>1. PICK f \in [0 .. Len(s) -> Seq(Row)] : PrunedBy(f, s, c) /\ Pruned(s, c) = f[Len(s)]
  BY PrunedExists
<1>2. Len(s) \in 0 .. Len(s)
  OBVIOUS
<1> QED BY <1>1, <1>2

LEMMA Framed ==
  ASSUME AvailabilityAssumption, TypeOK, frame # NoFrame
  PROVE  frame \in Frame /\ frame.node \in Nodes /\ frame.time \in Nat
BY DEF TypeOK, Frame

LEMMA Opened ==
  ASSUME AvailabilityAssumption, TypeOK
  PROVE  /\ opening # NoRow => opening \in Row /\ opening.node \in Nodes
         /\ opening = NoRow => \A n \in Nodes : opening.node # n
<1>1. opening # NoRow => opening \in Row /\ opening.node \in Nodes
  BY DEF TypeOK, Row
<1>2. opening = NoRow => opening.node = NoNode
  BY DEF NoRow
<1> QED BY <1>1, <1>2 DEF AvailabilityAssumption

(* Every step keeps tracker, rows in flight and table within their types.   *)
LEMMA TypeStep == AvailabilityAssumption /\ TypeOK /\ [Next]_vars => TypeOK'
<1> SUFFICES ASSUME AvailabilityAssumption, TypeOK, [Next]_vars PROVE TypeOK'
  OBVIOUS
<1>1. ASSUME NEW n \in Nodes, Decode(n) PROVE TypeOK'
  <2>1. frame' \in Frame
    BY <1>1 DEF Decode, TypeOK, Frame
  <2> QED BY <1>1, <2>1 DEF Decode, TypeOK
<1>2. CASE MarkNodeHeard
  <2>1. PICK n, t : n = frame.node /\ t = frame.time
    OBVIOUS
  <2>2. n \in Nodes /\ t \in Nat
    BY <1>2, <2>1, Framed DEF MarkNodeHeard
  <2>3. /\ lastHeard' = [lastHeard EXCEPT ![n] = t]
        /\ online' = [online EXCEPT ![n] = TRUE]
        /\ opening' = IF online[n] THEN NoRow ELSE [node |-> n, time |-> t, event |-> "online"]
        /\ reports' = [reports EXCEPT ![n] = @ \cup {t}]
        /\ excuses' \in {excuses, excuses \cup {<<n, "race">>}}
        /\ frame' = NoFrame
        /\ UNCHANGED <<clock, closing, lastScan, log, crashes>>
    BY <1>2, <2>1 DEF MarkNodeHeard
  <2>4. opening' \in Row \cup {NoRow}
    BY <2>2, <2>3 DEF Row
  <2>5. excuses' \subseteq Nodes \X Reasons
    BY <2>2, <2>3 DEF TypeOK, Reasons
  <2>6. reports' \in [Nodes -> SUBSET Nat]
    BY <2>2, <2>3 DEF TypeOK
  <2>7. lastHeard' \in [Nodes -> Nat] /\ online' \in [Nodes -> BOOLEAN]
    BY <2>2, <2>3 DEF TypeOK
  <2> QED BY <2>3, <2>4, <2>5, <2>6, <2>7 DEF TypeOK
<1>3. CASE InsertOnline
  <2>1. PICK n : n = opening.node
    OBVIOUS
  <2>2. n \in Nodes /\ opening \in Row
    BY <1>3, <2>1, Opened DEF InsertOnline
  <2>3. log' = log \/ log' = [log EXCEPT ![n] = Append(@, opening)]
    BY <1>3, <2>1 DEF InsertOnline
  <2>4. log' \in [Nodes -> Seq(Row)]
    <3>1. log \in [Nodes -> Seq(Row)] /\ log[n] \in Seq(Row)
      BY <2>2 DEF TypeOK
    <3>2. Append(log[n], opening) \in Seq(Row)
      BY <2>2, <3>1
    <3> QED BY <2>2, <2>3, <3>1, <3>2
  <2>5. excuses' \in {excuses, excuses \cup {<<n, "race">>}, excuses \cup {<<n, "insert">>}}
    BY <1>3, <2>1 DEF InsertOnline
  <2>6. excuses' \subseteq Nodes \X Reasons
    BY <2>2, <2>5 DEF TypeOK, Reasons
  <2> QED BY <1>3, <2>4, <2>6 DEF InsertOnline, TypeOK
<1>4. CASE ScanOffline
  <2>1. online' \in [Nodes -> BOOLEAN]
    BY <1>4 DEF ScanOffline, TypeOK
  <2>2. closing' \subseteq Row
    <3>1. \A n \in Nodes : lastHeard[n] + Threshold \in Nat
      BY DEF TypeOK, AvailabilityAssumption
    <3>2. \A n \in Nodes :
            [node |-> n, time |-> lastHeard[n] + Threshold, event |-> "offline"] \in Row
      BY <3>1 DEF Row
    <3> QED BY <1>4, <3>2 DEF ScanOffline
  <2> QED BY <1>4, <2>1, <2>2 DEF ScanOffline, TypeOK
<1>5. ASSUME NEW row \in closing, InsertOffline(row) PROVE TypeOK'
  <2>1. row \in Row /\ row.node \in Nodes
    BY DEF TypeOK, Row
  <2>2. log' \in [Nodes -> Seq(Row)]
    <3>1. log \in [Nodes -> Seq(Row)] /\ log[row.node] \in Seq(Row)
      BY <2>1 DEF TypeOK
    <3>2. Append(log[row.node], row) \in Seq(Row)
      BY <2>1, <3>1
    <3>3. log' = log \/ log' = [log EXCEPT ![row.node] = Append(@, row)]
      BY <1>5 DEF InsertOffline
    <3> QED BY <2>1, <3>1, <3>2, <3>3
  <2>3. excuses' \in {excuses, excuses \cup {<<row.node, "insert">>}}
    BY <1>5 DEF InsertOffline
  <2>4. excuses' \subseteq Nodes \X Reasons
    BY <2>1, <2>3 DEF TypeOK, Reasons
  <2> QED BY <1>5, <2>2, <2>4 DEF InsertOffline, TypeOK
<1>6. CASE Cleanup
  <2>1. clock - Retention \in Int
    BY DEF TypeOK, AvailabilityAssumption
  <2>2. log' = [n \in Nodes |-> Pruned(log[n], clock - Retention)]
    BY <1>6 DEF Cleanup
  <2>3. \A n \in Nodes : Pruned(log[n], clock - Retention) \in Seq(Row)
    BY <2>1, PrunedType DEF TypeOK
  <2>4. PICK N : N \subseteq Nodes /\ excuses' = excuses \cup (N \X {"retention"})
    BY <1>6 DEF Cleanup
  <2>5. excuses' \subseteq Nodes \X Reasons
    BY <2>4 DEF TypeOK, Reasons
  <2> QED BY <1>6, <2>2, <2>3, <2>5 DEF Cleanup, TypeOK
<1>7. CASE Restart
  <2>1. clock' \in Nat /\ lastScan' \in Nat /\ crashes' \in 0 .. MaxCrashes
    BY <1>7 DEF Restart, TypeOK, AvailabilityAssumption
  <2>2. PICK N : N \subseteq Nodes /\ excuses' = excuses \cup (N \X {"crash"})
    BY <1>7 DEF Restart
  <2>3. excuses' \subseteq Nodes \X Reasons
    BY <2>2 DEF TypeOK, Reasons
  <2> QED BY <1>7, <2>1, <2>3 DEF Restart, TypeOK
<1>8. CASE Tick
  BY <1>8 DEF Tick, TypeOK
<1>9. CASE UNCHANGED vars
  BY <1>9 DEF vars, TypeOK
<1> QED BY <1>1, <1>2, <1>3, <1>4, <1>5, <1>6, <1>7, <1>8, <1>9 DEF Next, ReadLoop, Scanner

----------------------------------------------------------------------------
(* Clock, scanner and loop.                                                 *)

LEMMA TrackerInit == AvailabilityAssumption /\ Init => TrackerInv
<1> SUFFICES ASSUME AvailabilityAssumption, Init PROVE TrackerInv
  OBVIOUS
<1>1. ClockOK
  BY DEF Init, ClockOK, AvailabilityAssumption
<1>2. ASSUME NEW n \in Nodes PROVE HeardOK(n)
  BY DEF Init, HeardOK, AvailabilityAssumption
<1> QED BY <1>1, <1>2, TypeInit DEF TrackerInv

(* MarkNodeHeard and the row it makes.                                      *)
LEMMA Marked ==
  ASSUME AvailabilityAssumption, TrackerInv, MarkNodeHeard
  PROVE  \E n \in Nodes : \E t \in Nat :
           /\ frame # NoFrame /\ n = frame.node /\ t = frame.time /\ opening = NoRow
           /\ 1 <= t /\ t <= clock /\ clock <= t + HandlingBound
           /\ lastHeard' = [lastHeard EXCEPT ![n] = t]
           /\ online' = [online EXCEPT ![n] = TRUE]
           /\ opening' = IF online[n] THEN NoRow
                         ELSE [node |-> n, time |-> t, event |-> "online"]
           /\ reports' = [reports EXCEPT ![n] = @ \cup {t}]
           /\ excuses' = IF Overtaken(n, t) THEN excuses \cup {<<n, "race">>} ELSE excuses
           /\ frame' = NoFrame
           /\ UNCHANGED <<clock, closing, lastScan, log, crashes>>
<1>1. frame # NoFrame
  BY DEF MarkNodeHeard
<1>2. frame.node \in Nodes /\ frame.time \in Nat
  BY <1>1, Framed DEF TrackerInv
<1>3. opening = NoRow /\ 1 <= frame.time /\ frame.time <= clock
      /\ clock <= frame.time + HandlingBound
  BY <1>1 DEF TrackerInv, ClockOK
<1> QED BY <1>1, <1>2, <1>3 DEF MarkNodeHeard

(* A scan that finds silent nodes.                                          *)
LEMMA Scanned ==
  ASSUME AvailabilityAssumption, TrackerInv, ScanOffline
  PROVE  LET expired == {n \in Nodes : online[n] /\ clock - lastHeard[n] > Threshold} IN
           /\ closing = {}
           /\ online' = [n \in Nodes |-> online[n] /\ n \notin expired]
           /\ closing' = {[node |-> n, time |-> lastHeard[n] + Threshold,
                           event |-> "offline"] : n \in expired}
           /\ lastScan' = clock
           /\ \A n \in expired : opening.node # n
           /\ UNCHANGED <<clock, lastHeard, frame, opening, log, reports, excuses, crashes>>
<1> DEFINE expired == {n \in Nodes : online[n] /\ clock - lastHeard[n] > Threshold}
<1>1. ASSUME NEW n \in expired PROVE opening.node # n
  <2> SUFFICES ASSUME opening.node = n PROVE FALSE
    OBVIOUS
  <2>1. opening # NoRow
    BY DEF NoRow, AvailabilityAssumption
  <2>2. opening \in Row
    BY <2>1, Opened DEF TrackerInv
  <2>3. clock <= lastHeard[n] + HandlingBound
    BY <2>1 DEF TrackerInv, ClockOK
  <2>4. clock \in Nat /\ lastHeard[n] \in Nat
    BY DEF TrackerInv, TypeOK
  <2> QED BY <2>3, <2>4 DEF AvailabilityAssumption
<1> QED BY <1>1 DEF ScanOffline

LEMMA ClockStep == AvailabilityAssumption /\ TrackerInv /\ [Next]_vars => ClockOK'
<1> SUFFICES ASSUME AvailabilityAssumption, TrackerInv, [Next]_vars PROVE ClockOK'
  OBVIOUS
<1>0. TypeOK /\ ClockOK
  BY DEF TrackerInv
<1>1. ASSUME NEW n \in Nodes, Decode(n) PROVE ClockOK'
  BY <1>0, <1>1 DEF Decode, ClockOK, TypeOK, AvailabilityAssumption, NoFrame
<1>2. CASE MarkNodeHeard
  <2>1. PICK n \in Nodes, t \in Nat :
           /\ opening = NoRow
           /\ 1 <= t /\ t <= clock /\ clock <= t + HandlingBound
           /\ lastHeard' = [lastHeard EXCEPT ![n] = t]
           /\ online' = [online EXCEPT ![n] = TRUE]
           /\ opening' = IF online[n] THEN NoRow
                         ELSE [node |-> n, time |-> t, event |-> "online"]
           /\ frame' = NoFrame
           /\ UNCHANGED <<clock, closing, lastScan, log, crashes>>
    BY <1>2, Marked
  <2>2. ASSUME opening' # NoRow
        PROVE  /\ opening'.time <= clock' /\ clock' <= opening'.time + HandlingBound
               /\ opening'.event = "online"
               /\ online'[opening'.node]
               /\ lastHeard'[opening'.node] = opening'.time
    <3>1. opening' = [node |-> n, time |-> t, event |-> "online"]
      BY <2>1, <2>2
    <3>2. opening'.node = n /\ opening'.time = t /\ opening'.event = "online"
      BY <3>1
    <3>3. online'[n] /\ lastHeard'[n] = t
      BY <1>0, <2>1 DEF TypeOK
    <3> QED BY <2>1, <3>2, <3>3
  <2>3. clock' >= 1 /\ lastScan' <= clock' /\ clock' <= lastScan' + ScanPeriod
    BY <1>0, <2>1 DEF ClockOK
  <2>4. /\ \A row \in closing' : row.event = "offline"
        /\ \A row, other \in closing' : row.node = other.node => row = other
    BY <1>0, <2>1 DEF ClockOK
  <2> QED BY <2>1, <2>2, <2>3, <2>4 DEF ClockOK
<1>3. CASE InsertOnline
  BY <1>0, <1>3 DEF InsertOnline, ClockOK
<1>4. CASE ScanOffline
  <2> DEFINE expired == {n \in Nodes : online[n] /\ clock - lastHeard[n] > Threshold}
  <2>1. /\ online' = [n \in Nodes |-> online[n] /\ n \notin expired]
        /\ closing' = {[node |-> n, time |-> lastHeard[n] + Threshold,
                        event |-> "offline"] : n \in expired}
        /\ lastScan' = clock
        /\ \A n \in expired : opening.node # n
        /\ UNCHANGED <<clock, lastHeard, frame, opening, log, reports, excuses, crashes>>
    BY <1>4, Scanned
  <2>2. /\ \A row \in closing' : row.event = "offline"
        /\ \A row, other \in closing' : row.node = other.node => row = other
    BY <2>1
  <2>3. clock' >= 1 /\ lastScan' <= clock' /\ clock' <= lastScan' + ScanPeriod
    BY <1>0, <2>1 DEF ClockOK, TypeOK, AvailabilityAssumption
  <2>4. opening # NoRow => online'[opening.node]
    BY <1>0, <2>1, Opened DEF ClockOK
  <2> QED BY <1>0, <2>1, <2>2, <2>3, <2>4 DEF ClockOK
<1>5. ASSUME NEW row \in closing, InsertOffline(row) PROVE ClockOK'
  BY <1>0, <1>5 DEF InsertOffline, ClockOK
<1>6. CASE Cleanup
  BY <1>0, <1>6 DEF Cleanup, ClockOK
<1>7. CASE Restart
  <2>1. /\ clock' \in Nat /\ clock <= clock' /\ lastScan' = clock'
        /\ frame' = NoFrame /\ opening' = NoRow /\ closing' = {}
    BY <1>0, <1>7 DEF Restart, TypeOK, AvailabilityAssumption
  <2>2. clock >= 1 /\ clock \in Nat /\ ScanPeriod \in Nat
    BY <1>0 DEF ClockOK, TypeOK, AvailabilityAssumption
  <2>3. clock' >= 1 /\ lastScan' <= clock' /\ clock' <= lastScan' + ScanPeriod
    <3>1. \A c, d, p \in Nat :
            c >= 1 /\ c <= d => d >= 1 /\ d <= d /\ d <= d + p
      OBVIOUS
    <3>2. clock' >= 1 /\ clock' <= clock' /\ clock' <= clock' + ScanPeriod
      BY <2>1, <2>2, <3>1
    <3> QED BY <2>1, <3>2
  <2> QED BY <2>1, <2>3 DEF ClockOK
<1>8. CASE Tick
  <2>1. /\ clock' = clock + 1 /\ clock < lastScan + ScanPeriod
        /\ frame # NoFrame => clock < frame.time + HandlingBound
        /\ opening # NoRow => clock < opening.time + HandlingBound
        /\ UNCHANGED <<lastHeard, online, frame, opening, closing, lastScan>>
    BY <1>8 DEF Tick
  <2>2. frame # NoFrame => frame.time \in Nat
    BY <1>0, Framed
  <2>3. opening # NoRow => opening.time \in Nat
    BY <1>0, Opened DEF Row
  <2>4. clock \in Nat /\ lastScan \in Nat /\ ScanPeriod \in Nat /\ HandlingBound \in Nat
    BY <1>0 DEF TypeOK, AvailabilityAssumption
  <2>5. clock' >= 1 /\ lastScan' <= clock' /\ clock' <= lastScan' + ScanPeriod
    BY <1>0, <2>1, <2>4 DEF ClockOK
  <2>6. frame # NoFrame => 1 <= frame.time /\ frame.time <= clock'
                           /\ clock' <= frame.time + HandlingBound /\ opening = NoRow
    BY <1>0, <2>1, <2>2, <2>4 DEF ClockOK
  <2>7. opening # NoRow => opening.time <= clock' /\ clock' <= opening.time + HandlingBound
    BY <1>0, <2>1, <2>3, <2>4 DEF ClockOK
  <2> QED BY <1>0, <2>1, <2>5, <2>6, <2>7 DEF ClockOK
<1>9. CASE UNCHANGED vars
  BY <1>0, <1>9 DEF vars, ClockOK
<1> QED BY <1>1, <1>2, <1>3, <1>4, <1>5, <1>6, <1>7, <1>8, <1>9 DEF Next, ReadLoop, Scanner

LEMMA HeardStep ==
  ASSUME AvailabilityAssumption, TrackerInv, [Next]_vars, NEW n \in Nodes
  PROVE  HeardOK(n)'
<1>0. TypeOK /\ ClockOK /\ HeardOK(n)
  BY DEF TrackerInv
<1>t. /\ clock \in Nat /\ lastScan \in Nat /\ lastHeard[n] \in Nat /\ online[n] \in BOOLEAN
      /\ reports[n] \subseteq Nat
      /\ Threshold \in Nat /\ HandlingBound \in Nat /\ HandlingBound < Threshold
  BY <1>0 DEF TypeOK, AvailabilityAssumption
<1>1. ASSUME NEW m \in Nodes, Decode(m) PROVE HeardOK(n)'
  <2>1. /\ frame'.time = clock
        /\ UNCHANGED <<clock, lastHeard, online, lastScan, reports>>
    BY <1>1 DEF Decode
  <2> QED BY <1>0, <1>t, <2>1 DEF HeardOK
<1>2. CASE MarkNodeHeard
  <2>1. PICK m \in Nodes, t \in Nat :
           /\ frame # NoFrame /\ t = frame.time
           /\ 1 <= t /\ t <= clock /\ clock <= t + HandlingBound
           /\ lastHeard' = [lastHeard EXCEPT ![m] = t]
           /\ online' = [online EXCEPT ![m] = TRUE]
           /\ reports' = [reports EXCEPT ![m] = @ \cup {t}]
           /\ frame' = NoFrame
           /\ UNCHANGED <<clock, closing, lastScan, log, crashes>>
    BY <1>2, Marked
  <2>2. CASE m = n
    <3>1. lastHeard'[n] = t /\ online'[n] /\ reports'[n] = reports[n] \cup {t}
      BY <1>0, <2>1, <2>2 DEF TypeOK
    <3>2. \A r \in reports'[n] : r <= t
      BY <1>0, <2>1, <3>1 DEF HeardOK
    <3>3. \A r \in reports'[n] : r <= clock
      BY <1>t, <2>1, <3>1, <3>2
    <3>4. lastScan - t <= Threshold
      BY <1>0, <1>t, <2>1 DEF ClockOK
    <3> QED BY <1>t, <2>1, <3>1, <3>2, <3>3, <3>4 DEF HeardOK
  <2>3. CASE m # n
    <3>1. lastHeard'[n] = lastHeard[n] /\ online'[n] = online[n] /\ reports'[n] = reports[n]
      BY <1>0, <2>1, <2>3 DEF TypeOK
    <3> QED BY <1>0, <2>1, <3>1 DEF HeardOK
  <2> QED BY <2>2, <2>3
<1>3. CASE InsertOnline
  BY <1>0, <1>3 DEF InsertOnline, HeardOK
<1>4. CASE ScanOffline
  <2>1. /\ online'[n] <=> online[n] /\ ~ (clock - lastHeard[n] > Threshold)
        /\ lastScan' = clock
        /\ UNCHANGED <<clock, lastHeard, frame, reports>>
    BY <1>4 DEF ScanOffline
  <2>2. CASE online[n] /\ clock - lastHeard[n] <= Threshold
    <3>1. online'[n]
      BY <1>t, <2>1, <2>2
    <3> QED BY <1>0, <1>t, <2>1, <2>2, <3>1 DEF HeardOK
  <2>3. CASE online[n] /\ clock - lastHeard[n] > Threshold
    <3>1. ~ online'[n] /\ lastHeard[n] + Threshold <= clock
      <4>1. lastHeard[n] + Threshold <= clock
        BY <1>t, <2>3
      <4> QED BY <2>1, <2>3, <4>1
    <3> QED BY <1>0, <1>t, <2>1, <3>1 DEF HeardOK
  <2>4. CASE ~ online[n]
    <3>1. ~ online'[n]
      BY <2>1, <2>4
    <3> QED BY <1>0, <1>t, <2>1, <2>4, <3>1 DEF HeardOK
  <2> QED BY <1>t, <2>2, <2>3, <2>4
<1>5. ASSUME NEW row \in closing, InsertOffline(row) PROVE HeardOK(n)'
  BY <1>0, <1>5 DEF InsertOffline, HeardOK
<1>6. CASE Cleanup
  BY <1>0, <1>6 DEF Cleanup, HeardOK
<1>7. CASE Restart
  <2>1. /\ clock' \in Nat /\ clock <= clock' /\ frame' = NoFrame
        /\ lastHeard'[n] = 0 /\ online'[n] = FALSE /\ reports' = reports
    BY <1>t, <1>7 DEF Restart, AvailabilityAssumption
  <2> QED BY <1>0, <1>t, <2>1 DEF HeardOK
<1>8. CASE Tick
  <2>1. clock' = clock + 1 /\ UNCHANGED <<lastHeard, online, frame, lastScan, reports>>
    BY <1>8 DEF Tick
  <2> QED BY <1>0, <1>t, <2>1 DEF HeardOK
<1>9. CASE UNCHANGED vars
  BY <1>0, <1>9 DEF vars, HeardOK
<1> QED BY <1>1, <1>2, <1>3, <1>4, <1>5, <1>6, <1>7, <1>8, <1>9 DEF Next, ReadLoop, Scanner

LEMMA TrackerStep ==
  AvailabilityAssumption /\ TrackerInv /\ [Next]_vars => TrackerInv'
BY TypeStep, ClockStep, HeardStep DEF TrackerInv

----------------------------------------------------------------------------
(* Rows on their way to the table.                                          *)

ClosingsKnown ==
  \A n \in Nodes :
    /\ \A row \in closing : row.node = n => Closings(n) = <<row>>
    /\ ~ Pending(n) => Closings(n) = <<>>

LEMMA ClosingsAre == ClockOK => ClosingsKnown
<1> SUFFICES ASSUME ClockOK, NEW n \in Nodes
             PROVE  /\ \A row \in closing : row.node = n => Closings(n) = <<row>>
                    /\ ~ Pending(n) => Closings(n) = <<>>
  BY DEF ClosingsKnown
<1>1. ASSUME NEW row \in closing, row.node = n PROVE Closings(n) = <<row>>
  <2>1. Pending(n)
    BY <1>1 DEF Pending
  <2>2. PICK c : c = CHOOSE x \in closing : x.node = n
    OBVIOUS
  <2>3. c \in closing /\ c.node = n
    BY <1>1, <2>2
  <2>4. c = row
    BY <1>1, <2>3 DEF ClockOK
  <2> QED BY <2>1, <2>2, <2>4 DEF Closings
<1> QED BY <1>1 DEF Closings

LEMMA RowsType ==
  ASSUME AvailabilityAssumption, TypeOK, ClockOK, NEW n \in Nodes
  PROVE  /\ log[n] \in Seq(Row) /\ Closings(n) \in Seq(Row) /\ Openings(n) \in Seq(Row)
         /\ Rows(n) \in Seq(Row)
<1>1. log[n] \in Seq(Row)
  BY DEF TypeOK
<1>2. Closings(n) \in Seq(Row)
  <2>1. CASE Pending(n)
    <3>1. PICK row \in closing : row.node = n
      BY <2>1 DEF Pending
    <3>2. row \in Row
      BY <3>1 DEF TypeOK
    <3>3. Closings(n) = <<row>>
      BY <3>1, ClosingsAre, Zenon DEF ClosingsKnown
    <3> QED BY <3>2, <3>3
  <2>2. CASE ~ Pending(n)
    BY <2>2 DEF Closings
  <2> QED BY <2>1, <2>2
<1>3. Openings(n) \in Seq(Row)
  <2>1. opening.node = n => opening \in Row
    BY Opened
  <2> QED BY <2>1 DEF Openings
<1>4. PICK a, b, c : a = log[n] /\ b = Closings(n) /\ c = Openings(n)
  OBVIOUS
<1>5. a \o b \o c \in Seq(Row)
  BY <1>1, <1>2, <1>3, <1>4
<1> QED BY <1>1, <1>2, <1>3, <1>4, <1>5 DEF Rows

(* A row goes from the end of one sequence to the end of another.           *)
LEMMA Concats ==
  ASSUME NEW a \in Seq(Row), NEW x \in Row, NEW b \in Seq(Row)
  PROVE  /\ a \o <<>> \o <<>> = a /\ a \o <<>> \o b = a \o b
         /\ a \o b \o <<>> = a \o b
         /\ a \o <<>> \o <<x>> = Append(a, x)
         /\ a \o <<x>> \o <<>> = Append(a, x)
         /\ Append(a, x) \o <<>> \o b = a \o <<x>> \o b
         /\ a \o b \o <<x>> = Append(a \o b, x)
<1>1. /\ a \o <<>> = a /\ a \o b \in Seq(Row) /\ (a \o b) \o <<>> = a \o b
      /\ <<x>> \in Seq(Row) /\ a \o <<x>> = Append(a, x) /\ Append(a, x) \in Seq(Row)
  OBVIOUS
<1>2. Append(a, x) \o <<>> = Append(a, x)
  BY <1>1
<1>3. (a \o b) \o <<x>> = Append(a \o b, x)
  BY <1>1
<1> QED BY <1>1, <1>2, <1>3

LEMMA RowsKept ==
  ASSUME NEW n, log'[n] = log[n], closing' = closing, opening'.node # n, opening.node # n
  PROVE  Rows(n)' = Rows(n)
BY DEF Rows, Closings, Openings, Pending

LEMMA RowsUntouched ==
  ASSUME NEW n, log'[n] = log[n], UNCHANGED <<closing, opening>>
  PROVE  Rows(n)' = Rows(n)
BY DEF Rows, Closings, Openings, Pending

(* Once excused, always excused.                                            *)
LEMMA ExcusesGrow ==
  ASSUME [Next]_vars, NEW n, ~ Excused(n, Reasons)'
  PROVE  ~ Excused(n, Reasons)
<1> SUFFICES excuses \subseteq excuses'
  BY DEF Excused
<1>1. ASSUME NEW m \in Nodes, Decode(m) PROVE excuses \subseteq excuses'
  BY <1>1 DEF Decode
<1>2. CASE MarkNodeHeard
  BY <1>2 DEF MarkNodeHeard
<1>3. CASE InsertOnline
  BY <1>3 DEF InsertOnline
<1>4. CASE ScanOffline
  BY <1>4 DEF ScanOffline
<1>5. ASSUME NEW row \in closing, InsertOffline(row) PROVE excuses \subseteq excuses'
  BY <1>5 DEF InsertOffline
<1>6. CASE Cleanup
  BY <1>6 DEF Cleanup
<1>7. CASE Restart
  BY <1>7 DEF Restart
<1>8. CASE Tick
  BY <1>8 DEF Tick
<1>9. CASE UNCHANGED vars
  BY <1>9 DEF vars
<1> QED
  BY <1>1, <1>2, <1>3, <1>4, <1>5, <1>6, <1>7, <1>8, <1>9 DEF Next, ReadLoop, Scanner

(* A scan that finds a node silent puts its row behind all others.          *)
LEMMA RowsScanned ==
  ASSUME AvailabilityAssumption, TrackerInv, ClockOK', ScanOffline, NEW n \in Nodes
  PROVE  LET silent == online[n] /\ clock - lastHeard[n] > Threshold
             x == [node |-> n, time |-> lastHeard[n] + Threshold, event |-> "offline"]
         IN  /\ silent => x \in Row /\ Rows(n)' = Append(Rows(n), x) /\ ~ online'[n]
             /\ ~ silent => Rows(n)' = Rows(n) /\ (online'[n] <=> online[n])
<1> DEFINE expired == {m \in Nodes : online[m] /\ clock - lastHeard[m] > Threshold}
<1>1. /\ closing = {}
      /\ online' = [m \in Nodes |-> online[m] /\ m \notin expired]
      /\ closing' = {[node |-> m, time |-> lastHeard[m] + Threshold,
                      event |-> "offline"] : m \in expired}
      /\ \A m \in expired : opening.node # m
      /\ UNCHANGED <<opening, log>>
  BY Scanned
<1>2. PICK x : x = [node |-> n, time |-> lastHeard[n] + Threshold, event |-> "offline"]
  OBVIOUS
<1>3. lastHeard[n] + Threshold \in Nat
  BY DEF TrackerInv, TypeOK, AvailabilityAssumption
<1>4. x \in Row /\ x.node = n
  BY <1>2, <1>3 DEF Row
<1>5. log[n] \in Seq(Row) /\ Openings(n) \in Seq(Row) /\ Openings(n)' = Openings(n)
  BY <1>1, RowsType DEF TrackerInv, Openings
<1>6. ~ Pending(n) /\ Closings(n) = <<>>
  BY <1>1 DEF Pending, Closings
<1>7. CASE n \in expired
  <2>1. x \in closing'
    BY <1>1, <1>2, <1>7
  <2>2. Closings(n)' = <<x>>
    <3>1. ClosingsKnown'
      BY ClosingsAre, PTL
    <3> QED BY <1>4, <2>1, <3>1, Zenon DEF ClosingsKnown
  <2>3. Openings(n) = <<>> /\ Openings(n)' = <<>>
    BY <1>1, <1>7 DEF Openings
  <2>4. Rows(n) = log[n] \o <<>> \o <<>> /\ Rows(n)' = log[n] \o <<x>> \o <<>>
    BY <1>1, <1>6, <2>2, <2>3 DEF Rows
  <2>5. Rows(n)' = Append(Rows(n), x)
    BY <1>4, <1>5, <2>4, Concats
  <2>6. ~ online'[n]
    BY <1>1, <1>7
  <2> QED BY <1>2, <1>4, <1>7, <2>5, <2>6
<1>8. CASE n \notin expired
  <2>1. ~ Pending(n)' /\ Closings(n)' = <<>>
    <3>1. \A row \in closing' : row.node # n
      BY <1>1, <1>8
    <3> QED BY <3>1 DEF Pending, Closings
  <2>2. Rows(n)' = Rows(n)
    BY <1>1, <1>5, <1>6, <2>1 DEF Rows
  <2>3. online'[n] <=> online[n]
    BY <1>1, <1>8
  <2> QED BY <1>8, <2>2, <2>3
<1> QED BY <1>7, <1>8

(* What is inserted was on its way before.                                  *)
LEMMA RowsOpened ==
  ASSUME AvailabilityAssumption, TrackerInv, InsertOnline, NEW n \in Nodes,
         ~ Excused(n, Reasons)'
  PROVE  Rows(n)' = Rows(n)
<1>0. TypeOK /\ ClockOK
  BY DEF TrackerInv
<1>1. opening # NoRow /\ opening \in Row /\ opening' = NoRow /\ opening'.node # n
  BY <1>0, Opened DEF InsertOnline, NoRow, AvailabilityAssumption
<1>2. log \in [Nodes -> Seq(Row)] /\ log[n] \in Seq(Row) /\ closing' = closing
  BY <1>0 DEF TypeOK, InsertOnline
<1>3. CASE opening.node = n
  <2>1. /\ log' = [log EXCEPT ![n] = Append(@, opening)]
        /\ ~ Pending(n)
    <3>1. <<n, "insert">> \notin excuses' /\ <<n, "race">> \notin excuses'
      BY DEF Excused, Reasons
    <3> QED BY <1>3, <3>1 DEF InsertOnline, Pending
  <2>2. Closings(n) = <<>> /\ Closings(n)' = <<>>
    BY <1>2, <2>1 DEF Closings, Pending
  <2>3. Openings(n) = <<opening>> /\ Openings(n)' = <<>>
    BY <1>1, <1>3 DEF Openings
  <2>4. log'[n] = Append(log[n], opening)
    BY <1>2, <2>1
  <2>5. Rows(n) = log[n] \o <<>> \o <<opening>> /\ Rows(n)' = log'[n] \o <<>> \o <<>>
    BY <2>2, <2>3 DEF Rows
  <2>6. Append(log[n], opening) \in Seq(Row)
    BY <1>1, <1>2
  <2>7. Append(log[n], opening) \o <<>> \o <<>> = Append(log[n], opening)
    BY <1>1, <2>6, Concats
  <2>8. log[n] \o <<>> \o <<opening>> = Append(log[n], opening)
    BY <1>1, <1>2, Concats
  <2> QED BY <2>4, <2>5, <2>7, <2>8
<1>4. CASE opening.node # n
  <2>1. log'[n] = log[n]
    BY <1>2, <1>4 DEF InsertOnline
  <2> QED BY <1>1, <1>2, <1>4, <2>1, RowsKept
<1> QED BY <1>3, <1>4

LEMMA RowsClosed ==
  ASSUME AvailabilityAssumption, TrackerInv, ClockOK', NEW row \in closing,
         InsertOffline(row), NEW n \in Nodes, ~ Excused(n, Reasons)'
  PROVE  Rows(n)' = Rows(n)
<1>0. TypeOK /\ ClockOK
  BY DEF TrackerInv
<1>1. /\ log \in [Nodes -> Seq(Row)] /\ log[n] \in Seq(Row) /\ row \in Row
      /\ Openings(n) \in Seq(Row) /\ Openings(n)' = Openings(n)
      /\ closing' = closing \ {row}
  BY <1>0, RowsType DEF TypeOK, InsertOffline, Openings
<1>2. CASE row.node = n
  <2>1. log' = [log EXCEPT ![n] = Append(@, row)]
    <3>1. <<n, "insert">> \notin excuses'
      BY DEF Excused, Reasons
    <3> QED BY <1>2, <3>1 DEF InsertOffline
  <2>2. Closings(n) = <<row>>
    BY <1>0, <1>2, ClosingsAre, Zenon DEF ClosingsKnown
  <2>3. Closings(n)' = <<>>
    <3>1. \A x \in closing' : x.node # n
      BY <1>0, <1>1, <1>2 DEF ClockOK
    <3> QED BY <3>1 DEF Closings, Pending
  <2>4. log'[n] = Append(log[n], row)
    BY <1>1, <2>1
  <2>5. Rows(n) = log[n] \o <<row>> \o Openings(n)
        /\ Rows(n)' = Append(log[n], row) \o <<>> \o Openings(n)
    BY <1>1, <2>2, <2>3, <2>4 DEF Rows
  <2> QED BY <1>1, <2>5, Concats
<1>3. CASE row.node # n
  <2>1. log'[n] = log[n]
    BY <1>1, <1>3 DEF InsertOffline
  <2>2. Closings(n)' = Closings(n)
    <3>1. CASE Pending(n)
      <4>1. PICK x \in closing : x.node = n
        BY <3>1 DEF Pending
      <4>2. x \in closing'
        BY <1>1, <1>3, <4>1
      <4>3. Closings(n) = <<x>>
        BY <1>0, <4>1, ClosingsAre, Zenon DEF ClosingsKnown
      <4>4. ClosingsKnown'
        BY ClosingsAre, PTL
      <4>5. Closings(n)' = <<x>>
        BY <4>1, <4>2, <4>4, Zenon DEF ClosingsKnown
      <4> QED BY <4>3, <4>5
    <3>2. CASE ~ Pending(n)
      <4>1. ~ Pending(n)'
        BY <1>1, <3>2 DEF Pending
      <4> QED BY <3>2, <4>1 DEF Closings
    <3> QED BY <3>1, <3>2
  <2> QED BY <1>1, <2>1, <2>2 DEF Rows
<1> QED BY <1>2, <1>3

(* What the lemmas about Story need of a state.                             *)
LEMMA StoryTypes ==
  ASSUME AvailabilityAssumption, TrackerInv, NEW n \in Nodes
  PROVE  /\ Rows(n) \in Seq(Row) /\ online[n] \in BOOLEAN /\ lastHeard[n] \in Nat
         /\ reports[n] \subseteq Nat /\ clock \in Nat /\ lastScan \in Nat
         /\ HeardOK(n) /\ TypeOK /\ ClockOK
<1>1. TypeOK /\ ClockOK /\ HeardOK(n)
  BY DEF TrackerInv
<1>2. Rows(n) \in Seq(Row)
  BY <1>1, RowsType
<1> QED BY <1>1, <1>2 DEF TypeOK

(* Nothing happens to n: at most time passes, or a frame comes or goes.     *)
LEMMA StoryIdle ==
  ASSUME AvailabilityAssumption, TrackerInv, NEW n \in Nodes, StoryOK(n),
         ~ Excused(n, Reasons), Rows(n)' = Rows(n), online'[n] = online[n],
         lastHeard'[n] = lastHeard[n], reports'[n] = reports[n],
         clock' \in Nat, clock <= clock', lastScan' \in {lastScan, clock},
         frame' # NoFrame => frame' = frame \/ frame'.time = clock
  PROVE  StoryOK(n)'
<1>1. PICK s, on, heard, R, c, scan, f, d, again, g :
        /\ s = Rows(n) /\ on = online[n] /\ heard = lastHeard[n] /\ R = reports[n]
        /\ c = clock /\ scan = lastScan /\ f = frame
        /\ d = clock' /\ again = lastScan' /\ g = frame'
  OBVIOUS
<1>2. /\ s \in Seq(Row) /\ on \in BOOLEAN /\ heard \in Nat /\ R \subseteq Nat
      /\ c \in Nat /\ scan \in Nat
  BY <1>1, StoryTypes
<1>3. again \in Nat /\ (again = scan \/ \A r \in R : r <= again)
  BY <1>1, <1>2, StoryTypes DEF HeardOK
<1>4. g # NoFrame => g = f \/ (g.time \in Nat /\ c <= g.time)
  BY <1>1, <1>2
<1>5. Story(s, on, heard, R, c, scan, f)
  BY <1>1 DEF StoryOK
<1>6. d \in Nat /\ c <= d
  BY <1>1
<1>7. Story(s, on, heard, R, d, again, g)
  BY <1>2, <1>3, <1>4, <1>5, <1>6, StoryQuiet
<1>8. Story(Rows(n)', online'[n], lastHeard'[n], reports'[n], clock', lastScan', frame')
  BY <1>1, <1>7
<1> QED BY <1>8 DEF StoryOK

LEMMA StoryMarked ==
  ASSUME AvailabilityAssumption, TrackerInv, TrackerInv', NEW n \in Nodes, StoryOK(n),
         ~ Excused(n, Reasons), ~ Excused(n, Reasons)', MarkNodeHeard
  PROVE  StoryOK(n)'
<1>1. PICK m \in Nodes : m = frame.node
  BY Framed DEF MarkNodeHeard, TrackerInv
<1>2. /\ lastHeard' = [lastHeard EXCEPT ![m] = frame.time]
      /\ online' = [online EXCEPT ![m] = TRUE]
      /\ opening' = IF online[m] THEN NoRow
                    ELSE [node |-> m, time |-> frame.time, event |-> "online"]
      /\ reports' = [reports EXCEPT ![m] = @ \cup {frame.time}]
      /\ excuses' = IF Overtaken(m, frame.time)
                    THEN excuses \cup {<<m, "race">>} ELSE excuses
      /\ frame # NoFrame /\ frame' = NoFrame
      /\ UNCHANGED <<clock, closing, lastScan, log>>
  BY <1>1 DEF MarkNodeHeard
<1>3. /\ lastHeard \in [Nodes -> Nat] /\ online \in [Nodes -> BOOLEAN]
      /\ reports \in [Nodes -> SUBSET Nat] /\ frame.time \in Nat
      /\ clock \in Nat /\ lastScan \in Nat
      /\ frame.time <= clock /\ opening = NoRow
      /\ NoRow.node \notin Nodes
  <2>1. TypeOK /\ ClockOK
    BY DEF TrackerInv
  <2>2. frame.time \in Nat
    BY <1>2, <2>1, Framed
  <2> QED BY <1>2, <2>1, <2>2 DEF TypeOK, ClockOK, NoRow, AvailabilityAssumption
<1>4. CASE m # n
  <2>1. opening'.node # n /\ opening.node # n
    BY <1>2, <1>3, <1>4 DEF NoRow
  <2>2. Rows(n)' = Rows(n)
    BY <1>2, <2>1, RowsKept
  <2>3. online'[n] = online[n] /\ lastHeard'[n] = lastHeard[n] /\ reports'[n] = reports[n]
    BY <1>2, <1>3, <1>4
  <2>4. /\ clock' \in Nat /\ clock <= clock' /\ lastScan' \in {lastScan, clock}
        /\ frame' # NoFrame => frame' = frame \/ frame'.time = clock
    BY <1>2, <1>3
  <2> QED BY <2>2, <2>3, <2>4, StoryIdle, Zenon
<1>5. ASSUME m = n PROVE StoryOK(n)'
  <2>1. PICK s, heard, R, c, scan, f, x :
          /\ s = Rows(n) /\ heard = lastHeard[n] /\ R = reports[n] /\ c = clock
          /\ scan = lastScan /\ f = frame /\ x = frame.time
    OBVIOUS
  <2>2. /\ s \in Seq(Row) /\ heard \in Nat /\ R \subseteq Nat /\ c \in Nat /\ scan \in Nat
        /\ x \in Nat /\ HeardOK(n) /\ TypeOK /\ ClockOK
    BY <1>3, <2>1, StoryTypes
  <2>3. Story(s, online[n], heard, R, c, scan, f)
    BY <2>1 DEF StoryOK
  <2>4. online'[n] = TRUE /\ lastHeard'[n] = x /\ reports'[n] = R \cup {x}
    BY <1>2, <1>3, <1>5, <2>1
  <2>5. ASSUME Rows(n)' \in Seq(Row), Story(Rows(n)', TRUE, x, R \cup {x}, c, scan, NoFrame)
        PROVE  StoryOK(n)'
    <3>1. Story(Rows(n)', online'[n], lastHeard'[n], reports'[n], clock', lastScan', frame')
      BY <1>2, <2>1, <2>4, <2>5
    <3> QED BY <3>1 DEF StoryOK
  <2>6. CASE online[n]
    <3>1. Rows(n)' = Rows(n)
      <4>1. opening' = NoRow
        BY <1>2, <1>5, <2>6
      <4> QED BY <1>2, <1>3, <4>1, RowsUntouched
    <3>2. Story(s, TRUE, heard, R, c, scan, f)
      <4>1. online[n] = TRUE
        BY <1>3, <2>6
      <4> QED BY <2>3, <4>1
    <3>3. heard \in R /\ heard <= x /\ scan - heard <= Threshold
      BY <1>2, <2>1, <2>2, <2>6 DEF HeardOK
    <3>4. x <= c /\ c <= scan + ScanPeriod
      BY <1>3, <2>1, <2>2 DEF ClockOK
    <3>5. Story(s, TRUE, x, R \cup {x}, c, scan, NoFrame)
      BY <2>2, <3>2, <3>3, <3>4, StoryHeard
    <3> QED BY <2>1, <2>2, <2>5, <3>1, <3>5
  <2>7. CASE ~ online[n]
    <3>1. PICK row : row = [node |-> n, time |-> x, event |-> "online"]
      OBVIOUS
    <3>2. row \in Row /\ row.event = "online" /\ row.time = x /\ row.node = n
      BY <2>2, <3>1 DEF Row
    <3>3. opening' = row /\ opening = NoRow
      BY <1>2, <1>3, <1>5, <2>1, <2>7, <3>1
    <3>4. Openings(n) = <<>> /\ Openings(n)' = <<row>>
      BY <1>3, <3>2, <3>3 DEF Openings
    <3>5. Closings(n)' = Closings(n) /\ log'[n] = log[n]
      BY <1>2 DEF Closings, Pending
    <3>6. log[n] \in Seq(Row) /\ Closings(n) \in Seq(Row)
      BY <2>2, RowsType
    <3>7. Rows(n) = log[n] \o Closings(n) \o <<>> /\ Rows(n)' = log[n] \o Closings(n) \o <<row>>
      BY <3>4, <3>5 DEF Rows
    <3>8. Rows(n)' = Append(s, row)
      BY <2>1, <3>2, <3>6, <3>7, Concats
    <3>9. heard # 0 => heard + Threshold <= x
      <4>1. ~ Overtaken(n, x)
        <5> SUFFICES ASSUME Overtaken(n, x) PROVE FALSE
          OBVIOUS
        <5>1. <<n, "race">> \in excuses'
          BY <1>2, <1>5, <2>1
        <5> QED BY <5>1 DEF Excused, Reasons
      <4> QED BY <2>1, <2>2, <2>7, <4>1 DEF Overtaken, AvailabilityAssumption
    <3>10. Story(s, FALSE, heard, R, c, scan, f)
      <4>1. online[n] = FALSE
        BY <1>3, <2>7
      <4> QED BY <2>3, <4>1
    <3>11. f # NoFrame /\ row.time = f.time /\ (heard # 0 => heard + Threshold <= row.time)
      BY <1>2, <2>1, <3>2, <3>9
    <3>12. /\ Append(s, row) \in Seq(Row)
           /\ Story(Append(s, row), TRUE, row.time, R \cup {row.time}, c, scan, NoFrame)
      BY <2>2, <3>2, <3>10, <3>11, StoryOpened
    <3> QED BY <2>5, <3>2, <3>8, <3>12
  <2> QED BY <2>6, <2>7
<1> QED BY <1>4, <1>5

LEMMA StoryScanned ==
  ASSUME AvailabilityAssumption, TrackerInv, TrackerInv', NEW n \in Nodes, StoryOK(n),
         ~ Excused(n, Reasons), ScanOffline
  PROVE  StoryOK(n)'
<1>1. PICK silent, x :
        /\ silent = (online[n] /\ clock - lastHeard[n] > Threshold)
        /\ x = [node |-> n, time |-> lastHeard[n] + Threshold, event |-> "offline"]
  OBVIOUS
<1>2. /\ silent => x \in Row /\ Rows(n)' = Append(Rows(n), x) /\ ~ online'[n]
      /\ ~ silent => Rows(n)' = Rows(n) /\ (online'[n] <=> online[n])
  <2>1. ClockOK'
    BY DEF TrackerInv
  <2> QED BY <1>1, <2>1, RowsScanned
<1>3. /\ UNCHANGED <<clock, lastHeard, frame, reports>> /\ lastScan' = clock
  BY DEF ScanOffline
<1>4. /\ Rows(n) \in Seq(Row) /\ online[n] \in BOOLEAN /\ lastHeard[n] \in Nat
      /\ reports[n] \subseteq Nat /\ clock \in Nat /\ lastScan \in Nat
      /\ HeardOK(n) /\ TypeOK /\ ClockOK
  BY StoryTypes
<1>5. online'[n] \in BOOLEAN
  BY DEF TrackerInv, TypeOK
<1>6. CASE ~ silent
  <2>1. online'[n] = online[n] /\ Rows(n)' = Rows(n)
    BY <1>2, <1>4, <1>5, <1>6
  <2> QED BY <1>3, <1>4, <2>1, StoryIdle
<1>7. CASE silent
  <2>1. PICK s, heard, R, c, scan, f :
          /\ s = Rows(n) /\ heard = lastHeard[n] /\ R = reports[n] /\ c = clock
          /\ scan = lastScan /\ f = frame
    OBVIOUS
  <2>2. online[n] = TRUE /\ online'[n] = FALSE
    BY <1>1, <1>2, <1>4, <1>5, <1>7
  <2>3. Story(s, TRUE, heard, R, c, scan, f)
    BY <2>1, <2>2 DEF StoryOK
  <2>4. heard # 0 /\ \A r \in R : r <= heard /\ r <= c
    BY <1>4, <2>1, <2>2 DEF HeardOK
  <2>5. x \in Row /\ x.event = "offline" /\ x.time = heard + Threshold
    BY <1>1, <1>2, <1>7, <2>1
  <2>6. Story(Append(s, x), FALSE, heard, R, c, c, f)
    BY <1>4, <2>1, <2>3, <2>4, <2>5, StoryClosed
  <2>7. Story(Rows(n)', online'[n], lastHeard'[n], reports'[n], clock', lastScan', frame')
    BY <1>2, <1>3, <1>7, <2>1, <2>2, <2>6
  <2> QED BY <2>7 DEF StoryOK
<1> QED BY <1>6, <1>7

LEMMA StoryPruned ==
  ASSUME AvailabilityAssumption, TrackerInv, TrackerInv', NEW n \in Nodes, StoryOK(n),
         ~ Excused(n, Reasons), ~ Excused(n, Reasons)', Cleanup
  PROVE  StoryOK(n)'
<1>1. PICK s, c, a, b : s = log[n] /\ c = clock - Retention /\ a = Closings(n) /\ b = Openings(n)
  OBVIOUS
<1>2. /\ s \in Seq(Row) /\ a \in Seq(Row) /\ b \in Seq(Row) /\ Rows(n) = s \o a \o b
      /\ c \in Int /\ clock \in Nat
  <2>1. TypeOK /\ ClockOK
    BY DEF TrackerInv
  <2> QED BY <1>1, <2>1, RowsType DEF Rows, TypeOK, AvailabilityAssumption
<1>3. Story(Rows(n), online[n], lastHeard[n], reports[n], clock, lastScan, frame)
  BY DEF StoryOK
<1>4. \A i \in 1 .. Len(s) : i \in 1 .. Len(Rows(n)) /\ Rows(n)[i] = s[i]
  BY <1>2
<1>5. Sorted(s)
  BY <1>3, <1>4 DEF Story, Sorted
<1>6. PICK k \in 0 .. Len(s) :
        /\ \A i \in 1 .. Len(s) : s[i].time < c <=> i <= k
        /\ Pruned(s, c) \in Seq(Row)
        /\ Len(Pruned(s, c)) = Len(s) - k
        /\ \A i \in 1 .. Len(s) - k : Pruned(s, c)[i] = s[i + k]
  BY <1>2, <1>5, PrunedIs
<1>7. PICK p : p = Pruned(s, c)
  OBVIOUS
<1>8. /\ log'[n] = p /\ Closings(n)' = a /\ Openings(n)' = b
      /\ UNCHANGED <<clock, online, lastHeard, reports, lastScan, frame>>
  BY <1>1, <1>7 DEF Cleanup, Closings, Openings, Pending
<1>9. k > 0 => s[k].event = "offline" /\ s[k].time < c
  <2> SUFFICES ASSUME k > 0 PROVE s[k].event = "offline" /\ s[k].time < c
    OBVIOUS
  <2>1. k \in 1 .. Len(s) /\ s[k].time < c
    BY <1>2, <1>6
  <2>2. \A j \in {i \in 1 .. Len(s) : s[i].time < c} : j <= k
    BY <1>6
  <2>3. s[k].event # "online"
    <3> SUFFICES ASSUME s[k].event = "online" PROVE FALSE
      OBVIOUS
    <3>1. <<n, "retention">> \in excuses'
      BY <1>1, <2>1, <2>2 DEF Cleanup
    <3> QED BY <3>1 DEF Excused, Reasons
  <2>4. s[k].event \in {"online", "offline"}
    BY <1>2, <2>1, RowType
  <2> QED BY <2>1, <2>3, <2>4
<1>10. PICK v, u : v = s \o a \o b /\ u = p \o a \o b
  OBVIOUS
<1>11. /\ v \in Seq(Row) /\ u \in Seq(Row) /\ k \in 0 .. Len(v) /\ Len(u) = Len(v) - k
       /\ \A i \in 1 .. Len(s) : v[i] = s[i]
       /\ \A i \in 1 .. Len(u) : u[i] = v[i + k]
  <2>1. p \in Seq(Row) /\ Len(p) = Len(s) - k /\ \A i \in 1 .. Len(p) : p[i] = s[i + k]
    BY <1>6, <1>7
  <2>2. PICK d : d = a \o b
    OBVIOUS
  <2>3. d \in Seq(Row) /\ v = s \o d /\ u = p \o d
    <3>1. d \in Seq(Row)
      BY <1>2, <2>2
    <3>2. (s \o a) \o b = s \o (a \o b) /\ (p \o a) \o b = p \o (a \o b)
      <4>1. \A x, y, z \in Seq(Row) : (x \o y) \o z = x \o (y \o z)
        BY ConcatAssociative
      <4> QED BY <1>2, <2>1, <4>1
    <3> QED BY <1>10, <2>2, <3>1, <3>2
  <2>4. /\ v \in Seq(Row) /\ u \in Seq(Row) /\ Len(v) = Len(s) + Len(d)
        /\ Len(u) = Len(s) - k + Len(d)
        /\ \A i \in 1 .. Len(s) : v[i] = s[i]
        /\ \A i \in 1 .. Len(v) : i > Len(s) => v[i] = d[i - Len(s)]
    <3>1. v \in Seq(Row) /\ u \in Seq(Row)
      BY <1>2, <2>1, <2>3
    <3>2. Len(v) = Len(s) + Len(d) /\ Len(u) = Len(p) + Len(d)
      <4>1. \A x, y \in Seq(Row) : Len(x \o y) = Len(x) + Len(y)
        OBVIOUS
      <4> QED BY <1>2, <2>1, <2>3, <4>1
    <3>3. \A i \in 1 .. Len(s) : v[i] = s[i]
      BY <1>2, <2>3
    <3>4. \A i \in 1 .. Len(v) : i > Len(s) => v[i] = d[i - Len(s)]
      BY <1>2, <2>3
    <3> QED BY <2>1, <3>1, <3>2, <3>3, <3>4
  <2>5. ASSUME NEW i \in 1 .. Len(u) PROVE u[i] = v[i + k]
    <3>1. CASE i <= Len(p)
      <4>1. u[i] = p[i] /\ p[i] = s[i + k] /\ i + k \in 1 .. Len(s)
        BY <1>2, <2>1, <2>3, <3>1
      <4> QED BY <2>4, <4>1
    <3>2. CASE i > Len(p)
      <4>1. u[i] = d[i - Len(p)]
        BY <1>2, <2>1, <2>3, <3>2
      <4>2. i + k \in 1 .. Len(v) /\ i + k > Len(s) /\ (i + k) - Len(s) = i - Len(p)
        BY <1>2, <2>1, <2>3, <2>4, <3>2
      <4>3. v[i + k] = d[(i + k) - Len(s)]
        BY <2>4, <4>2
      <4> QED BY <4>1, <4>2, <4>3
    <3>3. i \in Nat /\ Len(p) \in Nat
      BY <2>1
    <3> QED BY <3>1, <3>2, <3>3
  <2>6. k \in 0 .. Len(v) /\ Len(u) = Len(v) - k
    BY <1>2, <2>3, <2>4
  <2> QED BY <2>4, <2>5, <2>6
<1>12. Rows(n) = v /\ Rows(n)' = u
  BY <1>2, <1>8, <1>10 DEF Rows
<1>13. k > 0 => v[k].event = "offline" /\ v[k].time < clock - Retention
  <2>1. k > 0 => v[k] = s[k]
    BY <1>2, <1>11
  <2> QED BY <1>1, <1>9, <2>1
<1>14. PICK on, heard, R, scan, f, now :
         /\ on = online[n] /\ heard = lastHeard[n] /\ R = reports[n] /\ scan = lastScan
         /\ f = frame /\ now = clock
  OBVIOUS
<1>15. /\ on \in BOOLEAN /\ heard \in Nat /\ R \subseteq Nat /\ scan \in Nat /\ now \in Nat
  BY <1>14, StoryTypes
<1>16. Story(v, on, heard, R, now, scan, f)
  BY <1>3, <1>12, <1>14
<1>17. k > 0 => v[k].event = "offline" /\ v[k].time < now - Retention
  BY <1>13, <1>14
<1>18. Story(u, on, heard, R, now, scan, f)
  BY <1>11, <1>15, <1>16, <1>17, StoryDrop
<1>19. Story(Rows(n)', online'[n], lastHeard'[n], reports'[n], clock', lastScan', frame')
  BY <1>8, <1>12, <1>14, <1>18
<1> QED BY <1>19 DEF StoryOK

LEMMA StoryRestarted ==
  ASSUME AvailabilityAssumption, TrackerInv, NEW n \in Nodes, StoryOK(n),
         ~ Excused(n, Reasons), ~ Excused(n, Reasons)', Restart
  PROVE  StoryOK(n)'
<1>1. PICK s, heard, R, c, scan, f, d :
        /\ s = Rows(n) /\ heard = lastHeard[n] /\ R = reports[n] /\ c = clock
        /\ scan = lastScan /\ f = frame /\ d = clock'
  OBVIOUS
<1>2. /\ s \in Seq(Row) /\ online[n] \in BOOLEAN /\ heard \in Nat /\ R \subseteq Nat
      /\ c \in Nat /\ scan \in Nat /\ HeardOK(n) /\ TypeOK /\ ClockOK
  BY <1>1, StoryTypes
<1>3. /\ d \in Nat /\ c <= d /\ lastScan' = d /\ frame' = NoFrame
      /\ lastHeard'[n] = 0 /\ online'[n] = FALSE
      /\ opening' = NoRow /\ closing' = {} /\ log' = log /\ reports' = reports
  BY <1>1, <1>2 DEF Restart, AvailabilityAssumption
<1>4. ~ online[n] /\ ~ Pending(n)
  <2> SUFFICES ASSUME online[n] \/ Pending(n) PROVE FALSE
    OBVIOUS
  <2>1. <<n, "crash">> \in excuses'
    BY DEF Restart, Pending
  <2> QED BY <2>1 DEF Excused, Reasons
<1>5. opening.node # n
  BY <1>2, <1>4, Opened DEF ClockOK
<1>6. Openings(n) = <<>> /\ Openings(n)' = <<>> /\ Closings(n) = <<>> /\ Closings(n)' = <<>>
  BY <1>3, <1>4, <1>5 DEF Openings, Closings, Pending, NoRow, AvailabilityAssumption
<1>7. Rows(n)' = s
  BY <1>1, <1>3, <1>6 DEF Rows
<1>8. Story(s, FALSE, heard, R, c, scan, f)
  <2>1. online[n] = FALSE
    BY <1>2, <1>4
  <2> QED BY <1>1, <2>1 DEF StoryOK
<1>9. (heard # 0 => heard + Threshold <= c) /\ \A r \in R : r <= c
  BY <1>1, <1>2, <1>4 DEF HeardOK
<1>10. Story(s, FALSE, 0, R, d, d, NoFrame)
  BY <1>2, <1>3, <1>8, <1>9, StoryRestart
<1>11. Story(Rows(n)', online'[n], lastHeard'[n], reports'[n], clock', lastScan', frame')
  BY <1>1, <1>3, <1>7, <1>10
<1> QED BY <1>11 DEF StoryOK

(* Every step keeps the story of every node.                                *)
LEMMA StoryStep ==
  ASSUME AvailabilityAssumption, AvailabilityInv, TrackerInv', [Next]_vars, NEW n \in Nodes
  PROVE  StoryOK(n)'
<1> SUFFICES ASSUME ~ Excused(n, Reasons)' PROVE StoryOK(n)'
  BY DEF StoryOK
<1>0. TrackerInv /\ StoryOK(n) /\ ~ Excused(n, Reasons) /\ TypeOK /\ ClockOK'
  BY ExcusesGrow DEF AvailabilityInv, TrackerInv
<1>1. ASSUME Rows(n)' = Rows(n), UNCHANGED <<lastHeard, online, reports, lastScan>>,
             clock' \in Nat, clock <= clock',
             frame' # NoFrame => frame' = frame \/ frame'.time = clock
      PROVE  StoryOK(n)'
  BY <1>0, <1>1, StoryIdle
<1>2. clock \in Nat /\ clock <= clock
  BY <1>0 DEF TypeOK
<1>3. ASSUME NEW m \in Nodes, Decode(m) PROVE StoryOK(n)'
  <2>1. /\ log'[n] = log[n] /\ UNCHANGED <<closing, opening>>
        /\ UNCHANGED <<lastHeard, online, reports, lastScan, clock>>
        /\ frame'.time = clock
    BY <1>3 DEF Decode
  <2>2. Rows(n)' = Rows(n)
    BY <2>1, RowsUntouched
  <2> QED BY <1>1, <1>2, <2>1, <2>2
<1>4. CASE MarkNodeHeard
  BY <1>0, <1>4, StoryMarked
<1>5. CASE InsertOnline
  <2>1. Rows(n)' = Rows(n)
    BY <1>0, <1>5, RowsOpened
  <2>2. UNCHANGED <<lastHeard, online, reports, lastScan, clock, frame>>
    BY <1>5 DEF InsertOnline
  <2> QED BY <1>1, <1>2, <2>1, <2>2
<1>6. CASE ScanOffline
  BY <1>0, <1>6, StoryScanned
<1>7. ASSUME NEW row \in closing, InsertOffline(row) PROVE StoryOK(n)'
  <2>1. Rows(n)' = Rows(n)
    BY <1>0, <1>7, RowsClosed
  <2>2. UNCHANGED <<lastHeard, online, reports, lastScan, clock, frame>>
    BY <1>7 DEF InsertOffline
  <2> QED BY <1>1, <1>2, <2>1, <2>2
<1>8. CASE Cleanup
  BY <1>0, <1>8, StoryPruned
<1>9. CASE Restart
  BY <1>0, <1>9, StoryRestarted
<1>10. CASE Tick
  <2>1. /\ log'[n] = log[n] /\ UNCHANGED <<closing, opening>>
        /\ UNCHANGED <<lastHeard, online, reports, lastScan, frame>>
        /\ clock' \in Nat /\ clock <= clock'
    BY <1>2, <1>10 DEF Tick
  <2>2. Rows(n)' = Rows(n)
    BY <2>1, RowsUntouched
  <2> QED BY <1>1, <2>1, <2>2
<1>11. CASE UNCHANGED vars
  <2>1. /\ log'[n] = log[n] /\ UNCHANGED <<closing, opening>>
        /\ UNCHANGED <<lastHeard, online, reports, lastScan, frame, clock>>
    BY <1>11 DEF vars
  <2>2. Rows(n)' = Rows(n)
    BY <2>1, RowsUntouched
  <2> QED BY <1>1, <1>2, <2>1, <2>2
<1> QED
  BY <1>3, <1>4, <1>5, <1>6, <1>7, <1>8, <1>9, <1>10, <1>11 DEF Next, ReadLoop, Scanner

----------------------------------------------------------------------------
(* The invariant holds.                                                     *)

LEMMA InvInit == AvailabilityAssumption /\ Init => AvailabilityInv
<1> SUFFICES ASSUME AvailabilityAssumption, Init, NEW n \in Nodes
             PROVE  StoryOK(n)
  BY TrackerInit DEF AvailabilityInv
<1>1. Rows(n) = <<>>
  BY DEF Init, Rows, Closings, Openings, Pending, NoRow, AvailabilityAssumption
<1>2. PICK s, f : s = Rows(n) /\ f = frame
  OBVIOUS
<1>3. ~ OnAt(s, 1) /\ \A t \in Nat : ~ OnAt(s, t)
  BY <1>1, <1>2 DEF OnAt
<1>4. Story(s, FALSE, 0, {}, 1, 1, f)
  <2>1. s = <<>> /\ Len(s) = 0
    BY <1>1, <1>2
  <2>2. Sorted(s)
    BY <2>1 DEF Sorted
  <2>3. LastFits(s, FALSE, 0, 1, f)
    BY <2>1 DEF LastFits, EndsOnline
  <2>4. CoverFits(s, {}, 1) /\ NoMoreFits(s, {}, 1, FALSE, 0)
    BY <1>3 DEF CoverFits, NoMoreFits
  <2> QED BY <2>2, <2>3, <2>4 DEF Story
<1> QED BY <1>2, <1>4 DEF StoryOK, Init

LEMMA InvStep == AvailabilityAssumption /\ AvailabilityInv /\ [Next]_vars => AvailabilityInv'
<1> SUFFICES ASSUME AvailabilityAssumption, AvailabilityInv, [Next]_vars
             PROVE  AvailabilityInv'
  OBVIOUS
<1>1. TrackerInv'
  BY TrackerStep DEF AvailabilityInv
<1>2. \A n \in Nodes : StoryOK(n)'
  BY <1>1, StoryStep
<1> QED BY <1>1, <1>2 DEF AvailabilityInv

LEMMA InvHolds == AvailabilityAssumption => (Spec => []AvailabilityInv)
<1> SUFFICES ASSUME AvailabilityAssumption PROVE Spec => []AvailabilityInv
  OBVIOUS
<1>1. Init => AvailabilityInv
  BY InvInit
<1>2. AvailabilityInv /\ [Next]_vars => AvailabilityInv'
  BY InvStep
<1> QED BY <1>1, <1>2, PTL DEF Spec

----------------------------------------------------------------------------
(* What it means for what a reader of the table is told.                    *)

LEMMA Empty == \A s \in Seq(Row) : s \o <<>> = s
OBVIOUS

(* When all rows of n are in, the table tells its story.                    *)
LEMMA SettledStory ==
  ASSUME AvailabilityAssumption, AvailabilityInv, NEW n \in Nodes, Settled(n),
         ~ Excused(n, Reasons)
  PROVE  /\ log[n] \in Seq(Row)
         /\ Story(log[n], online[n], lastHeard[n], reports[n], clock, lastScan, frame)
<1>1. TypeOK /\ ClockOK /\ StoryOK(n)
  BY DEF AvailabilityInv, TrackerInv
<1>2. log[n] \in Seq(Row)
  BY <1>1 DEF TypeOK
<1>3. Closings(n) = <<>> /\ Openings(n) = <<>>
  BY DEF Settled, Closings, Pending, Openings
<1>4. PICK s : s = log[n]
  OBVIOUS
<1>5. Rows(n) = s \o <<>> \o <<>>
  BY <1>3, <1>4 DEF Rows
<1>6. s \o <<>> \o <<>> = s
  BY <1>2, <1>4, Empty
<1> QED BY <1>1, <1>2, <1>4, <1>5, <1>6 DEF StoryOK

LEMMA MatchFromInv ==
  AvailabilityAssumption /\ AvailabilityInv => LogMatchesTracker
<1> SUFFICES ASSUME AvailabilityAssumption, AvailabilityInv, NEW n \in Nodes, Settled(n),
                    ~ Excused(n, Reasons)
             PROVE  online[n] <=> log[n] # <<>> /\ Last(log[n]).event = "online"
  BY DEF LogMatchesTracker
<1>1. online[n] <=> EndsOnline(log[n])
  BY SettledStory DEF Story, LastFits
<1> QED BY <1>1 DEF EndsOnline

LEMMA CountedFromInv ==
  AvailabilityAssumption /\ AvailabilityInv => UptimeCounted
<1> SUFFICES ASSUME AvailabilityAssumption, AvailabilityInv, NEW n \in Nodes, Settled(n),
                    ~ Excused(n, Reasons), NEW w \in Windows
             PROVE  NodeUptime(log[n], w[1], w[2]) >= Cardinality(Heard(n, w[1], w[2]))
  BY DEF UptimeCounted
<1>1. PICK a, b, s : a = w[1] /\ b = w[2] /\ s = log[n]
  OBVIOUS
<1>2. a \in Nat /\ b \in Nat /\ a < b /\ a >= clock - Retention
  <2>1. clock \in Nat
    BY DEF AvailabilityInv, TrackerInv, TypeOK
  <2> QED BY <1>1, <2>1 DEF Windows, AvailabilityAssumption
<1>3. s \in Seq(Row) /\ Sorted(s) /\ CoverFits(s, reports[n], clock)
  BY <1>1, SettledStory DEF Story
<1>4. NodeUptime(s, a, b) = Cardinality(OnIn(s, a, b))
  BY <1>2, <1>3, UptimeIs
<1>5. Heard(n, a, b) \subseteq OnIn(s, a, b)
  <2> SUFFICES ASSUME NEW t \in a .. b - 1, NEW r \in reports[n], r <= t, t < r + Threshold
               PROVE  OnAt(s, t)
    BY DEF Heard, OnIn
  <2>1. t \in Nat /\ clock - Retention <= t
    <3>1. clock - Retention \in Int
      BY DEF AvailabilityInv, TrackerInv, TypeOK, AvailabilityAssumption
    <3> QED BY <1>2, <3>1
  <2> QED BY <1>3, <2>1 DEF CoverFits
<1>6. /\ IsFiniteSet(OnIn(s, a, b)) /\ Cardinality(OnIn(s, a, b)) \in Nat
  BY <1>2, OnInFinite
<1>7. /\ Cardinality(Heard(n, a, b)) \in Nat
      /\ Cardinality(Heard(n, a, b)) <= Cardinality(OnIn(s, a, b))
  BY <1>5, <1>6, FS_Subset, FS_CardinalityType
<1> QED BY <1>1, <1>4, <1>6, <1>7

LEMMA NotInflatedFromInv ==
  AvailabilityAssumption /\ AvailabilityInv => UptimeNotInflated
<1> SUFFICES ASSUME AvailabilityAssumption, AvailabilityInv, NEW n \in Nodes, Settled(n),
                    ~ Excused(n, Reasons), NEW w \in Windows
             PROVE  NodeUptime(log[n], w[1], w[2]) <=
                      Cardinality(Heard(n, w[1], w[2]) \cup Bridged(n, w[1], w[2]))
  BY DEF UptimeNotInflated, NotInflatedExcept
<1>1. PICK a, b, s : a = w[1] /\ b = w[2] /\ s = log[n]
  OBVIOUS
<1>2. /\ TypeOK /\ ClockOK /\ HeardOK(n) /\ clock \in Nat /\ lastScan \in Nat
      /\ reports[n] \subseteq Nat /\ Threshold \in Nat /\ ScanPeriod \in Nat
      /\ lastHeard[n] \in Nat
  <2>1. TrackerInv
    BY DEF AvailabilityInv
  <2> QED BY <2>1 DEF TrackerInv, TypeOK, AvailabilityAssumption
<1>3. a \in Nat /\ b \in Nat /\ a < b
  BY <1>1, <1>2 DEF Windows
<1>4. /\ s \in Seq(Row) /\ Sorted(s)
      /\ NoMoreFits(s, reports[n], lastScan, online[n], lastHeard[n])
  BY <1>1, SettledStory DEF Story
<1>5. NodeUptime(s, a, b) = Cardinality(OnIn(s, a, b))
  BY <1>3, <1>4, UptimeIs
<1>6. ASSUME NEW t \in a .. b - 1, OnAt(s, t) PROVE t \in Heard(n, a, b) \cup Bridged(n, a, b)
  <2>1. t \in Nat
    BY <1>3
  <2>2. PICK r \in reports[n] :
          /\ r <= t
          /\ \/ t < r + Threshold
             \/ Bridging(t, r, reports[n], lastScan)
             \/ online[n] /\ r = lastHeard[n]
    BY <1>4, <1>6, <2>1 DEF NoMoreFits, Backed
  <2>3. r \in Nat
    BY <1>2
  <2>4. CASE t < r + Threshold
    BY <2>2, <2>4 DEF Heard
  <2>5. CASE Bridging(t, r, reports[n], lastScan)
    <3>1. PICK q \in reports[n] : /\ t < q
                                  /\ q - r <= Threshold + ScanPeriod
                                  /\ t < lastScan \/ lastScan - r <= Threshold
      BY <2>5 DEF Bridging
    <3>2. t < lastScan \/ clock - r <= Threshold + ScanPeriod
      BY <1>2, <2>3, <3>1 DEF ClockOK
    <3> QED BY <2>2, <3>1, <3>2 DEF Bridged
  <2>6. CASE online[n] /\ r = lastHeard[n]
    <3>1. lastScan - r <= Threshold
      BY <1>2, <2>6 DEF HeardOK
    <3>2. clock - r <= Threshold + ScanPeriod
      BY <1>2, <2>3, <3>1 DEF ClockOK
    <3> QED BY <2>2, <3>2 DEF Bridged
  <2> QED BY <2>2, <2>4, <2>5, <2>6
<1>7. PICK H : H = Heard(n, a, b) \cup Bridged(n, a, b)
  OBVIOUS
<1>8. OnIn(s, a, b) \subseteq H /\ H \subseteq a .. b - 1
  BY <1>6, <1>7 DEF OnIn, Heard, Bridged
<1>9. IsFiniteSet(H)
  <2>1. IsFiniteSet(a .. b - 1)
    BY <1>3, FS_Interval
  <2> QED BY <1>8, <2>1, FS_Subset
<1>10. /\ Cardinality(OnIn(s, a, b)) <= Cardinality(H)
  BY <1>8, <1>9, FS_Subset
<1> QED BY <1>1, <1>5, <1>7, <1>10

(* Tracker, rows in flight and table stay within their types (diagnostics.go:*)
(* 14-34, 63-82; store.go:1090-1102).                                       *)
THEOREM TypeCorrect == AvailabilityAssumption => (Spec => []TypeOK)
<1> SUFFICES ASSUME AvailabilityAssumption PROVE Spec => []TypeOK
  OBVIOUS
<1>1. AvailabilityInv => TypeOK
  BY DEF AvailabilityInv, TrackerInv
<1>2. Spec => []AvailabilityInv
  BY InvHolds
<1> QED BY <1>1, <1>2, PTL

(* Tracker and table agree: once the rows of a node are in, and none of     *)
(* them was lost or inserted out of order, its newest row says what the     *)
(* tracker says (diagnostics.go:39-58, 63-82).                              *)
THEOREM TrackerCorrect == AvailabilityAssumption => (Spec => []LogMatchesTracker)
<1> SUFFICES ASSUME AvailabilityAssumption PROVE Spec => []LogMatchesTracker
  OBVIOUS
<1>1. AvailabilityInv => LogMatchesTracker
  BY MatchFromInv
<1>2. Spec => []AvailabilityInv
  BY InvHolds
<1> QED BY <1>1, <1>2, PTL

(* Uptime is never understated: every tick of a window that falls within    *)
(* the threshold of a report is counted (diagnostics.go:84-129).            *)
THEOREM UptimeComplete == AvailabilityAssumption => (Spec => []UptimeCounted)
<1> SUFFICES ASSUME AvailabilityAssumption PROVE Spec => []UptimeCounted
  OBVIOUS
<1>1. AvailabilityInv => UptimeCounted
  BY CountedFromInv
<1>2. Spec => []AvailabilityInv
  BY InvHolds
<1> QED BY <1>1, <1>2, PTL

(* Uptime is never overstated: a tick that is counted is within the         *)
(* threshold of a report or in a silence too short for a scan to see.       *)
THEOREM UptimeSound == AvailabilityAssumption => (Spec => []UptimeNotInflated)
<1> SUFFICES ASSUME AvailabilityAssumption PROVE Spec => []UptimeNotInflated
  OBVIOUS
<1>1. AvailabilityInv => UptimeNotInflated
  BY NotInflatedFromInv
<1>2. Spec => []AvailabilityInv
  BY InvHolds
<1> QED BY <1>1, <1>2, PTL
=============================================================================
