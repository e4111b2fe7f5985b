------------------------- MODULE RateBuckets_proofs -------------------------
(***************************************************************************)
(* The report is exact for every set of nodes, packets and configurations, *)
(* every cap, retention and load limit.                                    *)
(***************************************************************************)
EXTENDS RateBuckets, FiniteSetTheorems, WellFoundedInduction, NaturalsInduction, TLAPS

(* The packets of R that count for n and m: since the last reset, which was *)
(* at s, and for our own node before its number was known, which was at T.  *)
PoolOf(R, n, m, s, T) ==
  {e \in R : e.node = n /\ m \in ListsOf(e) /\ e.id >= s /\ (n = Self => e.id < T)}

(* The configurations that have trimmed lists of this process.              *)
Past == used \cup (IF restarts > 0 THEN {DefaultConfig} ELSE {})

(* The list B holds the newest packets of P: one it lacks has a full list   *)
(* after it, or was too old for a configuration of C at time t.             *)
BucketOK(B, P, C, t) ==
  /\ B \subseteq P
  /\ Cardinality(B) <= Cap
  /\ \A s \in B, f \in P : f.id > s.id => f \in B
  /\ \A e \in P \ B : \/ Cardinality({f \in P : f.id > e.id}) >= Cap
                      \/ \E c \in C : e.time < t - LargestWindow(c)

(* Packets are numbered in the order of their times.                        *)
Ordered(S) ==
  /\ \A x, y \in S : x.id = y.id => x = y
  /\ \A x, y \in S : x.id < y.id => x.time <= y.time

Seen == received \cup rows \cup owed

SeenOK ==
  /\ IsFiniteSet(Seen)
  /\ Ordered(Seen)
  /\ \A x \in Seen : x.id < nextId /\ x.time <= clock

ListsOK ==
  \A n \in Nodes, m \in Metrics :
    BucketOK(buckets[n][m], PoolOf(received, n, m, since[n], told), Past, clock)

Inv ==
  /\ TypeOK
  /\ SeenOK
  /\ cfg \in used
  /\ IF known THEN told <= nextId ELSE told = MaxEvents + 1
  /\ \A n \in Nodes : since[n] <= nextId
  /\ ListsOK

----------------------------------------------------------------------------
(* Numbers: a non-empty set has a least, and steps of one reach them all.   *)
LEMMA LeastElement ==
  ASSUME NEW S, S \subseteq Nat, S # {}
  PROVE  \E x \in S : \A y \in S : x <= y
<1> DEFINE R == {p \in Nat \X Nat : p[1] < p[2]}
<1>1. IsWellFoundedOn(R, Nat)
  BY NatLessThanWellFounded DEF OpToRel
<1>2. \A x, y \in Nat : <<y, x>> \in R <=> y < x
  OBVIOUS
<1> HIDE DEF R
<1>3. PICK x \in S : \A y \in S : ~ (<<y, x>> \in R)
  BY <1>1, WFMin
<1>4. ASSUME NEW y \in S PROVE x <= y
  <2>1. x \in Nat /\ y \in Nat
    OBVIOUS
  <2>2. ~ (y < x)
    BY <1>2, <1>3, <2>1
  <2> QED BY <2>1, <2>2
<1> QED BY <1>4

(* A set that holds 0 and, up to b, the successor of what it holds.         *)
LEMMA UpTo ==
  ASSUME NEW b \in Nat, NEW S, 0 \in S, \A i \in 0 .. b - 1 : i \in S => i + 1 \in S
  PROVE  0 .. b \subseteq S
<1> DEFINE out == {i \in 0 .. b : i \notin S}
<1> SUFFICES ASSUME out # {} PROVE FALSE
  OBVIOUS
<1>1. out \subseteq Nat
  OBVIOUS
<1> HIDE DEF out
<1>2. PICK i \in out : \A j \in out : i <= j
  BY <1>1, LeastElement
<1>3. i \in 0 .. b /\ i \notin S /\ i # 0
  BY DEF out
<1>4. i - 1 \in 0 .. b - 1 /\ i - 1 \in 0 .. b /\ ~ (i <= i - 1) /\ (i - 1) + 1 = i
  BY <1>3
<1>5. i - 1 \notin out
  BY <1>2, <1>4
<1>6. i - 1 \in S
  BY <1>4, <1>5 DEF out
<1> QED BY <1>3, <1>4, <1>6

LEMMA GreatestElement ==
  ASSUME NEW b \in Nat, NEW S, S \subseteq 0 .. b, S # {}
  PROVE  \E x \in S : \A y \in S : x >= y
<1> DEFINE T == {t \in Nat : \E x \in S : t = b - x}
<1>1. T \subseteq Nat
  OBVIOUS
<1>2. \A x \in S : b - x \in T
  OBVIOUS
<1>3. PICK t \in T : \A u \in T : t <= u
  <2>1. T # {}
    BY <1>2
  <2> HIDE DEF T
  <2> QED BY <1>1, <2>1, LeastElement
<1>4. PICK x \in S : t = b - x
  OBVIOUS
<1>5. ASSUME NEW y \in S PROVE x >= y
  <2>1. b - x <= b - y
    BY <1>2, <1>3, <1>4
  <2> QED BY <2>1
<1> QED BY <1>5

LEMMA MinIsLeast ==
  ASSUME NEW S, S \subseteq Nat, S # {}
  PROVE  Min(S) \in S /\ \A y \in S : Min(S) <= y
BY LeastElement DEF Min

LEMMA MaxIsGreatest ==
  ASSUME NEW b \in Nat, NEW S, S \subseteq 0 .. b, S # {}
  PROVE  Max(S) \in S /\ \A y \in S : Max(S) >= y
BY GreatestElement DEF Max

LEMMA FiniteMax ==
  ASSUME NEW S, S \subseteq Nat, IsFiniteSet(S), S # {}
  PROVE  Max(S) \in S /\ \A y \in S : Max(S) >= y
<1> DEFINE Top(T) == \E x \in T : \A y \in T : x >= y
           K == {k \in Nat : \E T \in SUBSET S : T # {} /\ Cardinality(T) = k /\ ~ Top(T)}
<1>1. K = {}
  <2> SUFFICES ASSUME K # {} PROVE FALSE
    OBVIOUS
  <2>1. K \subseteq Nat
    OBVIOUS
  <2>2. PICK k \in K : \A l \in K : k <= l
    <3> HIDE DEF K
    <3> QED BY <2>1, LeastElement
  <2>3. PICK T \in SUBSET S : T # {} /\ Cardinality(T) = k /\ ~ Top(T)
    OBVIOUS
  <2>4. PICK x : x \in T
    BY <2>3
  <2>5. PICK U : U = T \ {x}
    OBVIOUS
  <2>6. IsFiniteSet(T) /\ IsFiniteSet(U) /\ Cardinality(U) = Cardinality(T) - 1
    BY <2>4, <2>5, FS_Subset, FS_RemoveElement
  <2>7. Cardinality(U) \in Nat /\ Cardinality(T) \in Nat
    BY <2>6, FS_CardinalityType
  <2>8. U # {}
    BY <2>3, <2>4, <2>5
  <2>9. Top(U)
    <3> SUFFICES ASSUME ~ Top(U) PROVE FALSE
      OBVIOUS
    <3>1. U \in SUBSET S
      BY <2>5
    <3> HIDE DEF Top
    <3>2. Cardinality(U) \in K
      BY <2>7, <2>8, <3>1
    <3>3. k <= Cardinality(U)
      BY <2>2, <3>2
    <3> QED BY <2>3, <2>6, <2>7, <3>3
  <2>10. PICK y \in U : \A z \in U : y >= z
    BY <2>9
  <2>11. x \in Nat /\ y \in Nat /\ \A z \in T : z \in Nat
    BY <2>4, <2>5
  <2>12. CASE y >= x
    BY <2>3, <2>5, <2>10, <2>11, <2>12
  <2>13. CASE ~ (y >= x)
    BY <2>3, <2>4, <2>5, <2>10, <2>11, <2>13
  <2> QED BY <2>12, <2>13
<1>2. Cardinality(S) \in Nat
  BY FS_CardinalityType
<1>3. Top(S)
  BY <1>1, <1>2
<1> QED BY <1>3 DEF Max


LEMMA LargestIsMax ==
  ASSUME NEW c \in Configs
  PROVE  /\ LargestWindow(c) \in Nat
         /\ LargestWindow(c) >= MinWindow
         /\ \A x \in Metrics : c.enabled[x] => LargestWindow(c) >= c.window[x]
<1> DEFINE on == {x \in Metrics : c.enabled[x]}
           W  == {c.window[x] : x \in on}
<1>1. c \in Config /\ MinWindow \in Nat
  BY BucketsAssumption
<1>2. IsFiniteSet(on)
  <2>1. IsFiniteSet(Metrics)
    BY BucketsAssumption, FS_AddElement, FS_EmptySet, FS_Union DEF Metrics
  <2> QED BY <2>1, FS_Subset
<1>3. W \subseteq Nat
  BY <1>1 DEF Config
<1>4. IsFiniteSet(W)
  <2>1. PICK g : g = [x \in on |-> c.window[x]]
    OBVIOUS
  <2>2. g \in Surjection(on, W)
    BY <2>1 DEF Surjection
  <2> QED BY <1>2, <2>2, FS_Surjection
<1>5. PICK S : S = {MinWindow} \cup W
  OBVIOUS
<1>6. IsFiniteSet(S)
  <2>1. S = W \cup {MinWindow}
    BY <1>5
  <2> QED BY <1>4, <2>1, FS_AddElement
<1>7. S \subseteq Nat /\ S # {}
  BY <1>1, <1>3, <1>5
<1>8. Max(S) \in S /\ \A y \in S : Max(S) >= y
  BY <1>6, <1>7, FiniteMax
<1>9. LargestWindow(c) = Max(S)
  BY <1>5 DEF LargestWindow
<1> QED BY <1>5, <1>7, <1>8, <1>9

----------------------------------------------------------------------------
(* The n newest of a set of numbered packets.                               *)
LEMMA NewestIsSmall ==
  ASSUME NEW S, IsFiniteSet(S), \A e \in S : e.id \in Nat,
         \A x, y \in S : x.id = y.id => x = y, NEW n \in Nat
  PROVE  /\ IsFiniteSet(Newest(S, n))
         /\ Cardinality(Newest(S, n)) <= n
<1> DEFINE N == Newest(S, n)
           After(e) == {f \in S : f.id > e.id}
<1>1. N \subseteq S /\ \A e \in N : Cardinality(After(e)) < n
  BY DEF Newest
<1>2. IsFiniteSet(N)
  BY <1>1, FS_Subset
<1>3. CASE N = {}
  BY <1>2, <1>3, FS_EmptySet
<1>4. CASE N # {}
  <2>1. PICK I : I = {e.id : e \in N}
    OBVIOUS
  <2>2. I \subseteq Nat /\ I # {}
    BY <1>1, <1>4, <2>1
  <2>3. PICK i \in I : \A j \in I : i <= j
    BY <2>2, LeastElement
  <2>4. PICK e \in N : e.id = i
    BY <2>1
  <2>5. N \ {e} \subseteq After(e)
    <3>1. ASSUME NEW f \in N, f # e PROVE f \in S /\ f.id > e.id
      <4>1. f \in S /\ e \in S
        BY <1>1
      <4>2. f.id # e.id /\ f.id \in Nat /\ e.id \in Nat
        BY <3>1, <4>1
      <4>3. e.id <= f.id
        BY <2>1, <2>3, <2>4
      <4> QED BY <4>1, <4>2, <4>3
    <3> QED BY <3>1
  <2>6. IsFiniteSet(After(e)) /\ Cardinality(After(e)) < n
    BY <1>1, FS_Subset
  <2>7. Cardinality(N \ {e}) <= Cardinality(After(e))
    BY <2>5, <2>6, FS_Subset
  <2>8. Cardinality(N \ {e}) = Cardinality(N) - 1
    BY <1>2, <2>4, FS_RemoveElement
  <2>9. Cardinality(N) \in Nat /\ Cardinality(After(e)) \in Nat
    BY <1>2, <2>6, FS_CardinalityType
  <2> QED BY <1>2, <2>6, <2>7, <2>8, <2>9
<1> QED BY <1>3, <1>4

----------------------------------------------------------------------------
(* One list.                                                                *)

(* Time passes and configurations are added; the list stays what it was.    *)
LEMMA BucketLater ==
  ASSUME NEW B, NEW P, P \subseteq Event, NEW C, NEW D, C \subseteq D, D \subseteq Configs,
         NEW t \in Nat, NEW u \in Nat, t <= u, BucketOK(B, P, C, t)
  PROVE  BucketOK(B, P, D, u)
<1>1. ASSUME NEW e \in P, NEW c \in C, e.time < t - LargestWindow(c)
      PROVE  e.time < u - LargestWindow(c)
  <2>1. LargestWindow(c) \in Nat
    BY LargestIsMax
  <2>2. e.time \in Nat
    BY BucketsAssumption DEF Event
  <2> QED BY <1>1, <2>1, <2>2
<1> QED BY <1>1 DEF BucketOK

(* What trackRate leaves of a list when e arrives.                          *)
Trimmed(B, e, c) == Newest({s \in B : s.time >= e.time - LargestWindow(c)} \cup {e}, Cap)

LEMMA TrimStep ==
  ASSUME NEW P, P \subseteq Event, IsFiniteSet(P), NEW e \in Event,
         Ordered(P \cup {e}), \A f \in P : f.id < e.id,
         NEW C, C \subseteq Configs, NEW c \in C, NEW t \in Nat, e.time <= t,
         NEW B, BucketOK(B, P, C, t)
  PROVE  BucketOK(Trimmed(B, e, c), P \cup {e}, C, t)
<1> DEFINE L == LargestWindow(c)
           K == {s \in B : s.time >= e.time - L} \cup {e}
           Q == P \cup {e}
           N == Newest(K, Cap)
<1>1. /\ \A x \in Q : x.id \in Nat /\ x.time \in Nat
      /\ e \notin P
      /\ L \in Nat /\ Cap \in Nat /\ Cap # 0
  <2>1. \A x \in Event : x.id \in Nat /\ x.time \in Nat
    BY BucketsAssumption DEF Event
  <2>2. e \notin P
    BY <2>1
  <2> QED BY <2>1, <2>2, LargestIsMax, BucketsAssumption
<1>2. B \subseteq P /\ K \subseteq Q /\ N \subseteq K
  BY DEF BucketOK, Newest
<1>3. IsFiniteSet(Q) /\ IsFiniteSet(K)
  BY <1>2, FS_AddElement, FS_Subset
<1>4. Cardinality(N) <= Cap
  <2>1. \A x, y \in K : x.id = y.id => x = y
    BY <1>2 DEF Ordered
  <2>2. \A x \in K : x.id \in Nat
    BY <1>1, <1>2
  <2> QED BY <1>1, <1>3, <2>1, <2>2, NewestIsSmall
<1>5. \A s \in K, f \in Q : f.id > s.id => f \in K
  <2> SUFFICES ASSUME NEW s \in K, NEW f \in Q, f.id > s.id PROVE f \in K
    OBVIOUS
  <2>1. CASE f = e
    BY <2>1
  <2>2. CASE s = e
    BY <1>1, <2>2
  <2>3. CASE f # e /\ s # e
    <3>1. f \in P /\ s \in B /\ s.time >= e.time - L
      BY <2>3
    <3>2. f \in B
      BY <3>1 DEF BucketOK
    <3>3. s.time <= f.time
      BY <1>1, <1>2 DEF Ordered
    <3>4. f.time >= e.time - L
      <4>1. f.time \in Nat /\ s.time \in Nat /\ e.time \in Nat /\ L \in Nat
        BY <1>1, <1>2
      <4> HIDE DEF L
      <4> QED BY <3>1, <3>3, <4>1
    <3> QED BY <3>2, <3>4
  <2> QED BY <2>1, <2>2, <2>3
<1>6. \A s \in N, f \in Q : f.id > s.id => f \in N
  <2> SUFFICES ASSUME NEW s \in N, NEW f \in Q, f.id > s.id PROVE f \in N
    OBVIOUS
  <2>1. f \in K
    BY <1>2, <1>5
  <2>2. {g \in K : g.id > f.id} \subseteq {g \in K : g.id > s.id}
    BY <1>1, <1>2
  <2>3. IsFiniteSet({g \in K : g.id > s.id})
    BY <1>3, FS_Subset
  <2>4. Cardinality({g \in K : g.id > f.id}) <= Cardinality({g \in K : g.id > s.id})
    BY <2>2, <2>3, FS_Subset
  <2>5. Cardinality({g \in K : g.id > s.id}) < Cap
    BY DEF Newest
  <2>6. /\ Cardinality({g \in K : g.id > s.id}) \in Nat
        /\ Cardinality({g \in K : g.id > f.id}) \in Nat
    BY <2>2, <2>3, FS_Subset, FS_CardinalityType
  <2>7. Cardinality({g \in K : g.id > f.id}) < Cap
    <3>1. PICK x : x = Cardinality({g \in K : g.id > f.id})
      OBVIOUS
    <3>2. PICK y : y = Cardinality({g \in K : g.id > s.id})
      OBVIOUS
    <3>3. x \in Nat /\ y \in Nat /\ x <= y /\ y < Cap
      BY <2>4, <2>5, <2>6, <3>1, <3>2
    <3>4. x < Cap
      BY <1>1, <3>3
    <3> QED BY <3>1, <3>4
  <2> HIDE DEF K
  <2> QED BY <2>1, <2>7 DEF Newest
<1>7. ASSUME NEW x \in Q \ N
      PROVE  \/ Cardinality({f \in Q : f.id > x.id}) >= Cap
             \/ \E d \in C : x.time < t - LargestWindow(d)
  <2>1. IsFiniteSet({f \in Q : f.id > x.id})
    BY <1>3, FS_Subset
  <2>2. CASE x \in K
    <3>1. ~ (Cardinality({f \in K : f.id > x.id}) < Cap)
      <4> HIDE DEF K
      <4> QED BY <2>2, <1>7 DEF Newest
    <3>2. {f \in K : f.id > x.id} \subseteq {f \in Q : f.id > x.id}
      BY <1>2
    <3>3. /\ Cardinality({f \in K : f.id > x.id}) <= Cardinality({f \in Q : f.id > x.id})
          /\ Cardinality({f \in K : f.id > x.id}) \in Nat
          /\ Cardinality({f \in Q : f.id > x.id}) \in Nat
      BY <2>1, <3>2, FS_Subset, FS_CardinalityType
    <3> QED BY <1>1, <3>1, <3>3
  <2>3. CASE x \in B /\ x \notin K
    <3>1. x.time < e.time - L
      BY <1>1, <1>2, <2>3
    <3>2. x.time < t - L
      <4>1. x.time \in Nat /\ e.time \in Nat /\ L \in Nat
        BY <1>1
      <4> HIDE DEF L
      <4> QED BY <3>1, <4>1
    <3> QED BY <3>2
  <2>4. CASE x \notin B /\ x \notin K
    <3>1. x \in P \ B
      BY <2>4
    <3>2. CASE Cardinality({f \in P : f.id > x.id}) >= Cap
      <4>1. {f \in P : f.id > x.id} \subseteq {f \in Q : f.id > x.id}
        OBVIOUS
      <4>2. /\ Cardinality({f \in P : f.id > x.id}) <= Cardinality({f \in Q : f.id > x.id})
            /\ Cardinality({f \in P : f.id > x.id}) \in Nat
            /\ Cardinality({f \in Q : f.id > x.id}) \in Nat
        BY <2>1, <4>1, FS_Subset, FS_CardinalityType
      <4> QED BY <1>1, <3>2, <4>2
    <3> QED BY <3>1, <3>2 DEF BucketOK
  <2> QED BY <2>2, <2>3, <2>4
<1>8. Trimmed(B, e, c) = N
  BY DEF Trimmed
<1> HIDE DEF N
<1> QED BY <1>2, <1>4, <1>6, <1>7, <1>8 DEF BucketOK

(* What the list shows of a window is the newest of what is due in it, if   *)
(* no configuration of C had only shorter windows.                          *)
LEMMA WindowExact ==
  ASSUME NEW P, P \subseteq Event, IsFiniteSet(P), Ordered(P),
         NEW C, C \subseteq Configs, NEW t \in Nat,
         NEW B, BucketOK(B, P, C, t),
         NEW w \in Nat, \A c \in C : w <= LargestWindow(c)
  PROVE  {s \in B : s.time >= t - w} = Newest({e \in P : e.time >= t - w}, Cap)
<1> DEFINE W == {e \in P : e.time >= t - w}
           After(e) == {f \in W : f.id > e.id}
<1>1. /\ \A x \in P : x.id \in Nat /\ x.time \in Nat
      /\ B \subseteq P /\ Cap \in Nat
  BY BucketsAssumption DEF Event, BucketOK
<1>2. IsFiniteSet(B) /\ IsFiniteSet(W)
  BY <1>1, FS_Subset
<1>3. ASSUME NEW s \in B, s.time >= t - w PROVE Cardinality(After(s)) < Cap
  <2>1. After(s) \subseteq B \ {s}
    BY <1>1 DEF BucketOK
  <2>2. IsFiniteSet(B \ {s}) /\ Cardinality(B \ {s}) = Cardinality(B) - 1
    BY <1>2, FS_RemoveElement
  <2>3. Cardinality(After(s)) <= Cardinality(B \ {s}) /\ IsFiniteSet(After(s))
    BY <2>1, <2>2, FS_Subset
  <2>4. Cardinality(After(s)) \in Nat /\ Cardinality(B) \in Nat
    BY <1>2, <2>3, FS_CardinalityType
  <2>5. Cardinality(B) <= Cap
    BY DEF BucketOK
  <2> QED BY <1>1, <2>2, <2>3, <2>4, <2>5
<1>4. ASSUME NEW e \in W, Cardinality(After(e)) < Cap PROVE e \in B
  <2> SUFFICES ASSUME e \notin B PROVE FALSE
    OBVIOUS
  <2>1. {f \in P : f.id > e.id} = After(e)
    <3>1. ASSUME NEW f \in P, f.id > e.id PROVE f.time >= t - w
      <4>1. e.time <= f.time
        BY <3>1 DEF Ordered
      <4>2. e.time \in Nat /\ f.time \in Nat /\ e.time >= t - w
        BY <1>1
      <4> QED BY <4>1, <4>2
    <3> QED BY <3>1
  <2>2. Cardinality(After(e)) \in Nat
    BY <1>2, FS_Subset, FS_CardinalityType
  <2>3. ~ (Cardinality({f \in P : f.id > e.id}) >= Cap)
    <3>1. PICK x : x = Cardinality(After(e))
      OBVIOUS
    <3>2. x \in Nat /\ x < Cap
      BY <1>4, <2>2, <3>1
    <3>3. ~ (x >= Cap)
      BY <1>1, <3>2
    <3> QED BY <2>1, <3>1, <3>3
  <2>4. PICK c \in C : e.time < t - LargestWindow(c)
    BY <2>3 DEF BucketOK
  <2>5. LargestWindow(c) \in Nat /\ w <= LargestWindow(c) /\ e.time \in Nat
    BY <1>1, LargestIsMax
  <2> QED BY <2>4, <2>5
<1>5. {s \in B : s.time >= t - w} \subseteq Newest(W, Cap)
  BY <1>1, <1>3 DEF Newest
<1>6. Newest(W, Cap) \subseteq {s \in B : s.time >= t - w}
  BY <1>4 DEF Newest
<1> QED BY <1>5, <1>6

----------------------------------------------------------------------------
(* The most frequent hop_start.                                             *)
LEMMA ModeIsExact ==
  ASSUME NEW S, IsFiniteSet(S), \A s \in S : s.hop \in 0 .. MaxHop, NEW limit \in Nat
  PROVE  HopMode(S) > limit <=>
           \E v \in 0 .. MaxHop :
             /\ v > limit
             /\ Cardinality({s \in S : s.hop = v}) > 0
             /\ \A u \in 0 .. MaxHop :
                  Cardinality({s \in S : s.hop = u}) <= Cardinality({s \in S : s.hop = v})
<1> DEFINE With(v) == Cardinality({s \in S : s.hop = v})
           Top(v)  == \A u \in 0 .. MaxHop : With(u) <= With(v)
           Modes   == {v \in 0 .. MaxHop : Top(v)}
<1>1. \A v : With(v) \in Nat /\ With(v) <= Cardinality(S)
  BY FS_Subset, FS_CardinalityType
<1>2. Cardinality(S) \in Nat /\ MaxHop \in Nat /\ 0 \in 0 .. MaxHop
  BY FS_CardinalityType DEF MaxHop
<1>3. HopMode(S) = IF S = {} THEN -1 ELSE Max(Modes)
  BY DEF HopMode
<1>4. CASE S = {}
  <2>1. ~ (HopMode(S) > limit)
    BY <1>3, <1>4
  <2>2. \A v : {s \in S : s.hop = v} = {}
    BY <1>4
  <2>3. \A v : With(v) = 0
    BY <2>2, FS_EmptySet
  <2>4. ASSUME NEW v PROVE ~ (With(v) > 0)
    <3>1. With(v) = 0
      BY <2>3
    <3> HIDE DEF With
    <3> QED BY <3>1
  <2> QED BY <2>1, <2>4
<1>5. CASE S # {}
  <2>1. Modes # {}
    <3>1. PICK F : F = {With(v) : v \in 0 .. MaxHop}
      OBVIOUS
    <3>2. F # {} /\ F \subseteq 0 .. Cardinality(S)
      <4>1. With(0) \in F
        BY <1>2, <3>1
      <4>2. ASSUME NEW x \in F PROVE x \in 0 .. Cardinality(S)
        <5>1. PICK v \in 0 .. MaxHop : x = With(v)
          BY <3>1
        <5>2. x \in Nat /\ x <= Cardinality(S)
          BY <1>1, <5>1
        <5> QED BY <1>2, <5>2
      <4> QED BY <4>1, <4>2
    <3>3. PICK x \in F : \A y \in F : x >= y
      BY <1>2, <3>2, GreatestElement
    <3>4. PICK v \in 0 .. MaxHop : x = With(v)
      BY <3>1
    <3>5. ASSUME NEW u \in 0 .. MaxHop PROVE With(u) <= With(v)
      <4>1. With(u) \in F
        BY <3>1
      <4>2. x >= With(u) /\ With(u) \in Nat /\ x \in Nat
        BY <1>1, <3>3, <3>4, <4>1
      <4> HIDE DEF With
      <4> QED BY <3>4, <4>2
    <3> QED BY <3>5
  <2>2. Max(Modes) \in Modes /\ \A y \in Modes : Max(Modes) >= y
    <3>1. Modes \subseteq 0 .. MaxHop
      OBVIOUS
    <3> HIDE DEF Modes
    <3> QED BY <1>2, <2>1, <3>1, MaxIsGreatest
  <2>3. PICK M : M = Max(Modes)
    OBVIOUS
  <2>4. M \in 0 .. MaxHop /\ Top(M) /\ HopMode(S) = M /\ \A y \in Modes : M >= y
    BY <1>3, <1>5, <2>2, <2>3
  <2>5. With(M) > 0
    <3>1. PICK s : s \in S
      BY <1>5
    <3>2. PICK h : h = s.hop
      OBVIOUS
    <3>3. h \in 0 .. MaxHop /\ {s} \subseteq {x \in S : x.hop = h}
      BY <3>1, <3>2
    <3>4. Cardinality({s}) = 1 /\ Cardinality({s}) <= With(h)
      BY <3>3, FS_Singleton, FS_Subset
    <3>5. With(h) <= With(M) /\ With(h) \in Nat /\ With(M) \in Nat
      BY <1>1, <2>4, <3>3
    <3> HIDE DEF With
    <3> QED BY <3>4, <3>5
  <2> HIDE DEF With
  <2>6. ASSUME M > limit
        PROVE  \E v \in 0 .. MaxHop : v > limit /\ With(v) > 0 /\ Top(v)
    BY <2>4, <2>5, <2>6
  <2>7. ASSUME NEW v \in 0 .. MaxHop, v > limit, With(v) > 0, Top(v)
        PROVE  M > limit
    <3>1. v \in Modes
      BY <2>7
    <3>2. M >= v /\ M \in Nat /\ v \in Nat
      BY <1>2, <2>4, <3>1
    <3> QED BY <2>7, <3>2
  <2>8. M > limit <=> \E v \in 0 .. MaxHop : v > limit /\ With(v) > 0 /\ Top(v)
    BY <2>6, <2>7
  <2> USE DEF With
  <2> QED BY <2>4, <2>8
<1> QED BY <1>4, <1>5

----------------------------------------------------------------------------
(* A packet is taken in.                                                    *)

States == [known : BOOLEAN, buckets : [Nodes -> [Metrics -> SUBSET Event]]]

LEMMA ListsOfMetrics ==
  ASSUME NEW e PROVE ListsOf(e) \subseteq Metrics
BY DEF ListsOf

LEMMA TrackedList ==
  ASSUME NEW bs \in [Nodes -> [Metrics -> SUBSET Event]], NEW e \in Event, NEW c,
         NEW n \in Nodes, NEW m \in Metrics
  PROVE  Track(bs, e, c)[n][m] =
           IF n = e.node /\ m \in ListsOf(e) THEN Trimmed(bs[n][m], e, c) ELSE bs[n][m]
<1>1. e.node \in Nodes
  BY DEF Event
<1> QED BY <1>1 DEF Track, Trimmed

LEMMA IngestType ==
  ASSUME NEW st \in States, NEW e \in Event, NEW c
  PROVE  /\ Ingest(st, e, c) \in States
         /\ Ingest(st, e, c).known <=> st.known \/ e.type = "myinfo"
<1>1. Track(st.buckets, e, c) \in [Nodes -> [Metrics -> SUBSET Event]]
  <2>1. ASSUME NEW m \in Metrics PROVE Trimmed(st.buckets[e.node][m], e, c) \subseteq Event
    BY DEF Trimmed, Newest, States, Event
  <2> QED BY <2>1 DEF Track, Trimmed, States
<1> QED BY <1>1 DEF Ingest, States

(* Every list stays right, whoever sent the packet.                         *)
LEMMA IngestStep ==
  ASSUME NEW st \in States, NEW e \in Event,
         NEW C, C \subseteq Configs, NEW c \in C, NEW t \in Nat, e.time <= t,
         NEW n \in Nodes, NEW m \in Metrics,
         NEW P, P \subseteq Event, IsFiniteSet(P), Ordered(P \cup {e}), \A f \in P : f.id < e.id,
         BucketOK(st.buckets[n][m], P, C, t)
  PROVE  BucketOK(Ingest(st, e, c).buckets[n][m],
                  IF /\ e.node = n /\ m \in ListsOf(e)
                     /\ n = Self => ~ Ingest(st, e, c).known
                  THEN P \cup {e} ELSE P, C, t)
<1> DEFINE own == st.known \/ e.type = "myinfo"
           B == st.buckets[n][m]
<1>1. BucketOK(Trimmed(B, e, c), P \cup {e}, C, t)
  BY TrimStep
<1>2. st.buckets \in [Nodes -> [Metrics -> SUBSET Event]]
  BY DEF States
<1>3. Track(st.buckets, e, c)[n][m] =
        IF n = e.node /\ m \in ListsOf(e) THEN Trimmed(B, e, c) ELSE B
  BY <1>2, TrackedList
<1>4. /\ Ingest(st, e, c).known = own
      /\ Ingest(st, e, c).buckets = IF own /\ e.node = Self THEN st.buckets
                                    ELSE Track(st.buckets, e, c)
  BY DEF Ingest
<1>5. CASE e.node = n /\ m \in ListsOf(e) /\ (n = Self => ~ own)
  BY <1>1, <1>3, <1>4, <1>5
<1>6. CASE ~ (e.node = n /\ m \in ListsOf(e) /\ (n = Self => ~ own))
  <2>1. Ingest(st, e, c).buckets[n][m] = B
    BY <1>3, <1>4, <1>6
  <2> QED BY <1>4, <1>6, <2>1
<1> QED BY <1>5, <1>6

----------------------------------------------------------------------------
(* The replay.                                                              *)

Blank == [known |-> FALSE, buckets |-> [n \in Nodes |-> Empty]]

(* f[i] is the store after the packets numbered up to i.                    *)
Turns(f, events, c, k) ==
  f = [i \in 0 .. k |->
        IF i = 0 THEN Blank
        ELSE IF \E e \in events : e.id = i
             THEN Ingest(f[i - 1], CHOOSE e \in events : e.id = i, c)
             ELSE f[i - 1]]

LEMMA TurnsExist ==
  ASSUME NEW events, NEW c, NEW b \in Nat PROVE \E f : Turns(f, events, c, b)
<1> DEFINE S == {k \in 0 .. b : \E f : Turns(f, events, c, k)}
           Turn(x, i) == IF \E e \in events : e.id = i
                         THEN Ingest(x, CHOOSE e \in events : e.id = i, c) ELSE x
<1>0. ASSUME NEW f, NEW k
      PROVE  Turns(f, events, c, k) <=>
               f = [i \in 0 .. k |-> IF i = 0 THEN Blank ELSE Turn(f[i - 1], i)]
  BY DEF Turns
<1> HIDE DEF Turn
<1>1. 0 \in S
  <2>1. PICK f : f = [i \in 0 .. 0 |-> Blank]
    OBVIOUS
  <2>2. f = [i \in 0 .. 0 |-> IF i = 0 THEN Blank ELSE Turn(f[i - 1], i)]
    BY <2>1
  <2>3. Turns(f, events, c, 0)
    BY <1>0, <2>2
  <2> QED BY <2>3
<1>2. ASSUME NEW k \in 0 .. b - 1, k \in S PROVE k + 1 \in S
  <2>1. PICK f : Turns(f, events, c, k)
    BY <1>2
  <2>2. f = [i \in 0 .. k |-> IF i = 0 THEN Blank ELSE Turn(f[i - 1], i)]
    BY <1>0, <2>1
  <2>3. PICK g : g = [i \in 0 .. k + 1 |-> IF i = k + 1 THEN Turn(f[k], k + 1) ELSE f[i]]
    OBVIOUS
  <2>4. ASSUME NEW i \in 0 .. k + 1 PROVE g[i] = IF i = 0 THEN Blank ELSE Turn(g[i - 1], i)
    <3>1. CASE i = k + 1
      <4>1. k \in 0 .. k + 1 /\ i # 0 /\ i - 1 = k /\ k # k + 1
        BY <3>1
      <4>2. g[k] = f[k] /\ g[i] = Turn(f[k], k + 1)
        BY <2>3, <3>1, <4>1
      <4> QED BY <3>1, <4>1, <4>2
    <3>2. CASE i = 0
      <4>1. 0 \in 0 .. k /\ 0 \in 0 .. k + 1 /\ 0 # k + 1
        OBVIOUS
      <4>2. g[0] = f[0] /\ f[0] = Blank
        BY <2>2, <2>3, <4>1
      <4> QED BY <3>2, <4>2
    <3>3. CASE i # 0 /\ i # k + 1
      <4>1. i \in 0 .. k /\ i - 1 \in 0 .. k + 1 /\ i - 1 # k + 1
        BY <3>3
      <4>2. g[i] = f[i] /\ g[i - 1] = f[i - 1]
        BY <2>3, <3>3, <4>1
      <4>3. f[i] = Turn(f[i - 1], i)
        BY <2>2, <3>3, <4>1
      <4> QED BY <3>3, <4>2, <4>3
    <3> QED BY <3>1, <3>2, <3>3
  <2>5. Turns(g, events, c, k + 1)
    <3>1. g = [i \in 0 .. k + 1 |-> IF i = 0 THEN Blank ELSE Turn(g[i - 1], i)]
      BY <2>3, <2>4
    <3> QED BY <1>0, <3>1
  <2> QED BY <2>5
<1>3. 0 .. b \subseteq S
  <2> HIDE DEF S
  <2> QED BY <1>1, <1>2, UpTo
<1> QED BY <1>3

LEMMA ReplayIs ==
  ASSUME NEW events, NEW c
  PROVE  \E f : Turns(f, events, c, MaxEvents) /\ Replay(events, c) = f[MaxEvents]
<1> DEFINE after == CHOOSE f : Turns(f, events, c, MaxEvents)
<1>1. Turns(after, events, c, MaxEvents)
  BY TurnsExist, BucketsAssumption
<1>2. Replay(events, c) = after[MaxEvents]
  BY DEF Replay, Turns, Blank
<1> QED BY <1>1, <1>2

(* What the replayed list holds, and when our own number was learnt.        *)
Upto(events, i) == {e \in events : e.id <= i}
Learnt(events) == Min({MaxEvents + 1} \cup {e.id : e \in {f \in events : f.type = "myinfo"}})

LEMMA LearntIs ==
  ASSUME NEW R, R \subseteq Event
  PROVE  /\ Learnt(R) \in 1 .. MaxEvents + 1
         /\ \A e \in R : e.type = "myinfo" => Learnt(R) <= e.id
         /\ \/ Learnt(R) = MaxEvents + 1
            \/ \E e \in R : e.type = "myinfo" /\ e.id = Learnt(R)
<1> DEFINE S == {MaxEvents + 1} \cup {e.id : e \in {f \in R : f.type = "myinfo"}}
<1>1. \A e \in R : e.id \in 1 .. MaxEvents
  BY DEF Event
<1>2. S \subseteq 1 .. MaxEvents + 1 /\ S \subseteq Nat /\ S # {}
  BY <1>1, BucketsAssumption
<1>3. PICK T : T = S
  OBVIOUS
<1>4. Min(T) \in T /\ \A y \in T : Min(T) <= y
  BY <1>2, <1>3, MinIsLeast
<1>5. Learnt(R) = Min(T)
  BY <1>3 DEF Learnt
<1> QED BY <1>2, <1>3, <1>4, <1>5

LEMMA EmptyList ==
  ASSUME NEW C, NEW t PROVE BucketOK({}, {}, C, t)
BY FS_EmptySet, BucketsAssumption DEF BucketOK

LEMMA ReplayStep ==
  ASSUME NEW R, R \subseteq Event, IsFiniteSet(R), Ordered(R),
         NEW C, C \subseteq Configs, NEW c \in C, NEW t \in Nat, \A e \in R : e.time <= t,
         NEW k \in 0 .. MaxEvents - 1, NEW st \in States, NEW e \in R, e.id = k + 1,
         st.known <=> Learnt(R) <= k,
         \A n \in Nodes, m \in Metrics :
           BucketOK(st.buckets[n][m], PoolOf(Upto(R, k), n, m, 1, Learnt(R)), C, t)
  PROVE  /\ Ingest(st, e, c) \in States
         /\ Ingest(st, e, c).known <=> Learnt(R) <= k + 1
         /\ \A n \in Nodes, m \in Metrics :
              BucketOK(Ingest(st, e, c).buckets[n][m],
                       PoolOf(Upto(R, k + 1), n, m, 1, Learnt(R)), C, t)
<1> DEFINE T == Learnt(R)
           own == Ingest(st, e, c).known
<1>1. e \in Event /\ \A x \in R : x.id \in 1 .. MaxEvents
  BY DEF Event
<1>2. Ingest(st, e, c) \in States /\ (own <=> st.known \/ e.type = "myinfo")
  BY <1>1, IngestType
<1>3. T \in Nat /\ k \in Nat /\ MaxEvents \in Nat /\ k + 1 <= MaxEvents
  BY LearntIs, BucketsAssumption
<1>4. own <=> T <= k + 1
  <2>1. e.type = "myinfo" => T <= k + 1
    BY LearntIs
  <2>2. ASSUME T <= k + 1, ~ (T <= k) PROVE e.type = "myinfo"
    <3>1. T = k + 1 /\ T # MaxEvents + 1
      BY <1>3, <2>2
    <3>2. PICK x \in R : x.type = "myinfo" /\ x.id = T
      BY <3>1, LearntIs
    <3>3. x = e
      BY <3>1, <3>2 DEF Ordered
    <3> QED BY <3>2, <3>3
  <2>3. T <= k => T <= k + 1
    BY <1>3
  <2>4. own \in BOOLEAN
    BY <1>2 DEF States
  <2>5. st.known <=> T <= k
    OBVIOUS
  <2> HIDE DEF T, own
  <2> QED BY <1>2, <2>1, <2>2, <2>3, <2>4, <2>5
<1>5. ASSUME NEW n \in Nodes, NEW m \in Metrics
      PROVE  BucketOK(Ingest(st, e, c).buckets[n][m], PoolOf(Upto(R, k + 1), n, m, 1, T), C, t)
  <2>1. PICK P : P = PoolOf(Upto(R, k), n, m, 1, T)
    OBVIOUS
  <2>2. P \subseteq R /\ \A x \in P : x.id <= k
    BY <2>1 DEF PoolOf, Upto
  <2>3. P \subseteq Event /\ IsFiniteSet(P) /\ Ordered(P \cup {e}) /\ e.time <= t
    BY <2>2, FS_Subset DEF Ordered
  <2>4. \A f \in P : f.id < e.id
    BY <1>1, <1>3, <2>2
  <2>5. BucketOK(st.buckets[n][m], P, C, t)
    BY <2>1
  <2>6. BucketOK(Ingest(st, e, c).buckets[n][m],
                 IF e.node = n /\ m \in ListsOf(e) /\ (n = Self => ~ own)
                 THEN P \cup {e} ELSE P, C, t)
    BY <1>1, <2>3, <2>4, <2>5, IngestStep
  <2>7. \A x \in Upto(R, k + 1) : x \in Upto(R, k) \/ x = e
    BY <1>1, <1>3 DEF Upto, Ordered
  <2>8. Upto(R, k) \subseteq Upto(R, k + 1) /\ e \in Upto(R, k + 1)
    BY <1>1, <1>3 DEF Upto
  <2>9. e.id >= 1 /\ (e.id < T <=> ~ own)
    <3> HIDE DEF T, own
    <3> QED BY <1>3, <1>4
  <2>10. PoolOf(Upto(R, k + 1), n, m, 1, T) =
           IF e.node = n /\ m \in ListsOf(e) /\ (n = Self => ~ own) THEN P \cup {e} ELSE P
    <3> HIDE DEF T, own
    <3> QED BY <2>1, <2>7, <2>8, <2>9, <2>4 DEF PoolOf
  <2> QED BY <2>6, <2>10
<1> QED BY <1>2, <1>4, <1>5

LEMMA ReplayOK ==
  ASSUME NEW R, R \subseteq Event, IsFiniteSet(R), Ordered(R),
         NEW C, C \subseteq Configs, NEW c \in C, NEW t \in Nat, \A e \in R : e.time <= t
  PROVE  /\ Replay(R, c) \in States
         /\ Replay(R, c).known <=> Learnt(R) <= MaxEvents
         /\ \A n \in Nodes, m \in Metrics :
              BucketOK(Replay(R, c).buckets[n][m], PoolOf(R, n, m, 1, Learnt(R)), C, t)
<1> DEFINE Good(st, k) ==
             /\ st \in States
             /\ st.known <=> Learnt(R) <= k
             /\ \A n \in Nodes, m \in Metrics :
                  BucketOK(st.buckets[n][m], PoolOf(Upto(R, k), n, m, 1, Learnt(R)), C, t)
<1>1. PICK f : Turns(f, R, c, MaxEvents) /\ Replay(R, c) = f[MaxEvents]
  BY ReplayIs
<1>2. MaxEvents \in Nat /\ \A x \in R : x.id \in 1 .. MaxEvents
  BY BucketsAssumption DEF Event
<1>3. Good(f[0], 0)
  <2>1. 0 \in 0 .. MaxEvents
    BY <1>2
  <2>2. f[0] = Blank
    BY <1>1, <2>1 DEF Turns
  <2>3. Blank \in States /\ \A n \in Nodes, m \in Metrics : Blank.buckets[n][m] = {}
    BY DEF Blank, States, Empty
  <2>4. Learnt(R) \in 1 .. MaxEvents + 1
    BY LearntIs
  <2>5. ~ (Learnt(R) <= 0) /\ Blank.known = FALSE
    BY <1>2, <2>4 DEF Blank
  <2>6. Upto(R, 0) = {}
    BY <1>2 DEF Upto
  <2>7. \A n, m : PoolOf(Upto(R, 0), n, m, 1, Learnt(R)) = {}
    BY <2>6 DEF PoolOf
  <2>8. Blank.known <=> Learnt(R) <= 0
    BY <2>5
  <2> QED BY <2>2, <2>3, <2>7, <2>8, EmptyList
<1>4. ASSUME NEW k \in 0 .. MaxEvents - 1, Good(f[k], k) PROVE Good(f[k + 1], k + 1)
  <2>1. k + 1 \in 0 .. MaxEvents /\ k + 1 # 0 /\ (k + 1) - 1 = k
    BY <1>2
  <2>2. f[k + 1] = IF \E e \in R : e.id = k + 1
                   THEN Ingest(f[k], CHOOSE e \in R : e.id = k + 1, c) ELSE f[k]
    BY <1>1, <2>1 DEF Turns
  <2>3. CASE \E e \in R : e.id = k + 1
    <3>1. PICK e : e = CHOOSE x \in R : x.id = k + 1
      OBVIOUS
    <3>2. e \in R /\ e.id = k + 1
      BY <2>3, <3>1
    <3>3. f[k + 1] = Ingest(f[k], e, c)
      BY <2>2, <2>3, <3>1
    <3> QED BY <1>4, <3>2, <3>3, ReplayStep
  <2>4. CASE ~ \E e \in R : e.id = k + 1
    <3>1. Upto(R, k + 1) = Upto(R, k)
      BY <1>2, <2>4 DEF Upto
    <3>2. Learnt(R) # k + 1
      BY <1>2, <2>4, LearntIs
    <3>3. Learnt(R) \in 1 .. MaxEvents + 1
      BY LearntIs
    <3>4. Learnt(R) <= k <=> Learnt(R) <= k + 1
      BY <1>2, <3>2, <3>3
    <3> QED BY <1>4, <2>2, <2>4, <3>1, <3>4
  <2> QED BY <2>3, <2>4
<1>5. Good(f[MaxEvents], MaxEvents)
  <2> DEFINE S == {k \in 0 .. MaxEvents : Good(f[k], k)}
  <2>1. 0 \in S
    BY <1>2, <1>3
  <2>2. \A k \in 0 .. MaxEvents - 1 : k \in S => k + 1 \in S
    BY <1>2, <1>4
  <2>3. 0 .. MaxEvents \subseteq S
    <3> HIDE DEF S
    <3> QED BY <1>2, <2>1, <2>2, UpTo
  <2> QED BY <1>2, <2>3
<1>6. Upto(R, MaxEvents) = R
  BY <1>2 DEF Upto
<1> QED BY <1>1, <1>5, <1>6

----------------------------------------------------------------------------
(* The invariant.                                                           *)

LEMMA InitInv == Init => Inv
<1> SUFFICES ASSUME Init PROVE Inv
  OBVIOUS
<1>1. /\ received = {} /\ rows = {} /\ owed = {} /\ nextId = 1 /\ told = MaxEvents + 1
      /\ MaxEvents \in Nat /\ MaxTime \in Nat /\ MaxRestarts \in Nat /\ Cap \in Nat
      /\ DefaultConfig \in Configs
  BY BucketsAssumption DEF Init
<1>2. \A n \in Nodes, m \in Metrics : buckets[n][m] = {}
  BY DEF Init, Empty
<1>3. TypeOK
  <2>1. buckets \in [Nodes -> [Metrics -> SUBSET Event]]
    BY DEF Init, Empty
  <2>2. \A n \in Nodes, m \in Metrics : Cardinality(buckets[n][m]) <= Cap
    BY <1>1, <1>2, FS_EmptySet
  <2>3. 1 \in 1 .. MaxEvents + 1 /\ MaxEvents + 1 \in 1 .. MaxEvents + 1
    BY <1>1
  <2>4. 0 \in 0 .. MaxTime /\ 0 \in 0 .. MaxRestarts
    BY <1>1
  <2>5. clock = 0 /\ cfg \in Configs /\ saved \in Configs /\ known = FALSE
        /\ since = [n \in Nodes |-> 1] /\ used \subseteq Configs /\ restarts = 0
    BY <1>1 DEF Init
  <2> QED BY <1>1, <2>1, <2>2, <2>3, <2>4, <2>5 DEF TypeOK
<1>4. SeenOK
  BY <1>1, FS_EmptySet DEF SeenOK, Seen, Ordered
<1>5. ListsOK
  <2>1. \A n, m : PoolOf(received, n, m, since[n], told) = {}
    BY <1>1 DEF PoolOf
  <2> QED BY <1>2, <2>1, EmptyList DEF ListsOK
<1> QED BY <1>1, <1>3, <1>4, <1>5 DEF Init, Inv

(* What the invariant says of the packets received.                         *)
LEMMA PoolFacts ==
  ASSUME Inv, NEW n, NEW m, NEW s, NEW T
  PROVE  /\ PoolOf(received, n, m, s, T) \subseteq received
         /\ PoolOf(received, n, m, s, T) \subseteq Event
         /\ IsFiniteSet(PoolOf(received, n, m, s, T))
         /\ Ordered(PoolOf(received, n, m, s, T))
<1>1. received \subseteq Seen /\ received \subseteq Event
  BY DEF Seen, Inv, TypeOK
<1>2. PoolOf(received, n, m, s, T) \subseteq received
  BY DEF PoolOf
<1>3. IsFiniteSet(Seen) /\ Ordered(Seen)
  BY DEF Inv, SeenOK
<1> QED BY <1>1, <1>2, <1>3, FS_Subset DEF Ordered

(* The part of SeenOK that a smaller history keeps.                         *)
LEMMA SeenShrinks ==
  ASSUME SeenOK, NEW S, S \subseteq Seen,
         NEW i \in Nat, nextId <= i, nextId \in Nat, NEW t \in Nat, clock <= t, clock \in Nat,
         \A x \in Seen : x \in Event
  PROVE  /\ IsFiniteSet(S) /\ Ordered(S)
         /\ \A x \in S : x.id < i /\ x.time <= t
<1>1. \A x \in Event : x.id \in Nat /\ x.time \in Nat
  BY BucketsAssumption DEF Event
<1>2. \A x \in Seen : x.id < i /\ x.time <= t
  BY <1>1 DEF SeenOK
<1>3. IsFiniteSet(S)
  BY FS_Subset DEF SeenOK
<1> QED BY <1>2, <1>3 DEF SeenOK, Ordered

(* The cap is part of what a list is.                                       *)
Capped == \A n \in Nodes, m \in Metrics : Cardinality(buckets[n][m]) <= Cap

LEMMA ListsCapped == ListsOK => Capped
BY DEF ListsOK, BucketOK, Capped

(* store.Add                                                                *)
LEMMA AddInv ==
  ASSUME Inv, NEW p \in Packets, Add(p) PROVE Inv'
<1> DEFINE e  == [id |-> nextId, node |-> p.node, type |-> p.type, hop |-> p.hop,
                  time |-> clock]
           st == [known |-> known, buckets |-> buckets]
           nx == Ingest(st, e, cfg)
<1>1. /\ TypeOK /\ SeenOK /\ ListsOK /\ nextId \in 1 .. MaxEvents /\ clock \in Nat
      /\ MaxEvents \in Nat /\ nextId \in Nat /\ cfg \in Configs /\ cfg \in Past
      /\ Past \subseteq Configs
  BY BucketsAssumption DEF Inv, TypeOK, Add, Past
<1>2. e \in Event
  BY <1>1, BucketsAssumption DEF Event, Packet, TypeOK
<1>3. st \in States
  BY <1>1 DEF States, TypeOK
<1>4. /\ known' = nx.known
      /\ buckets' = nx.buckets
      /\ told' = IF nx.known /\ ~ known THEN nextId ELSE told
      /\ owed' = {e}
      /\ received' = received \cup {e}
      /\ nextId' = nextId + 1
      /\ UNCHANGED <<clock, cfg, saved, rows, since, used, restarts>>
  BY DEF Add
<1>5. PICK x : x = e
  OBVIOUS
<1>6. x \in Event /\ x.id = nextId /\ x.time = clock
  BY <1>2, <1>5
<1>7. nx \in States /\ (nx.known <=> known \/ x.type = "myinfo")
  BY <1>2, <1>3, <1>5, IngestType
<1>8. nx = Ingest(st, x, cfg) /\ owed' = {x} /\ received' = received \cup {x}
  BY <1>4, <1>5
<1> HIDE DEF e, nx
<1>9. known \in BOOLEAN /\ known' \in BOOLEAN /\ (known => known')
  BY <1>1, <1>4, <1>7 DEF TypeOK, States
<1>10. /\ \A y \in Seen : y \in Event /\ y.id < nextId /\ y.time <= clock
       /\ \A y \in Event : y.id \in Nat /\ y.time \in Nat
  BY <1>1, BucketsAssumption DEF TypeOK, SeenOK, Seen, Event
<1>11. SeenOK'
  <2>1. Seen' \subseteq Seen \cup {x}
    BY <1>4, <1>8 DEF Seen
  <2>2. IsFiniteSet(Seen')
    <3>1. IsFiniteSet(Seen \cup {x})
      BY <1>1, FS_AddElement DEF SeenOK
    <3> QED BY <2>1, <3>1, FS_Subset
  <2>3. \A y \in Seen : y.id # x.id /\ ~ (x.id < y.id) /\ y.time <= x.time
    BY <1>1, <1>6, <1>10
  <2>4. Ordered(Seen \cup {x})
    BY <1>1, <1>6, <2>3 DEF SeenOK, Ordered
  <2>5. Ordered(Seen')
    BY <2>1, <2>4 DEF Ordered
  <2>6. \A y \in Seen' : y.id < nextId + 1 /\ y.time <= clock
    BY <1>1, <1>6, <1>10, <2>1
  <2> QED BY <1>4, <2>2, <2>5, <2>6 DEF SeenOK
<1>12. IF known' THEN told' <= nextId' ELSE told' = MaxEvents + 1
  <2>1. IF known THEN told <= nextId ELSE told = MaxEvents + 1
    BY DEF Inv
  <2>2. told \in Nat
    BY <1>1 DEF TypeOK
  <2>3. told' = IF known' /\ ~ known THEN nextId ELSE told
    BY <1>4
  <2> QED BY <1>1, <1>4, <1>9, <2>1, <2>2, <2>3
<1>13. ASSUME NEW n \in Nodes, NEW m \in Metrics
       PROVE  BucketOK(buckets'[n][m], PoolOf(received', n, m, since'[n], told'), Past', clock')
  <2>1. PICK P : P = PoolOf(received, n, m, since[n], told)
    OBVIOUS
  <2>2. P \subseteq received /\ P \subseteq Event /\ IsFiniteSet(P)
    BY <2>1, PoolFacts
  <2>3. BucketOK(st.buckets[n][m], P, Past, clock)
    BY <1>1, <2>1 DEF ListsOK
  <2>4. received \subseteq Seen
    BY DEF Seen
  <2>5. \A f \in P : f.id < x.id
    BY <1>6, <1>10, <2>2, <2>4
  <2>6. Ordered(P \cup {x})
    <3>1. \A f \in P : f.id # x.id /\ ~ (x.id < f.id) /\ f.time <= x.time
      BY <1>1, <1>6, <1>10, <2>2, <2>4
    <3>2. Ordered(P)
      BY <2>1, PoolFacts
    <3> QED BY <1>1, <1>6, <3>1, <3>2 DEF Ordered
  <2>7. x.time <= clock
    BY <1>1, <1>6
  <2>8. BucketOK(Ingest(st, x, cfg).buckets[n][m],
                 IF x.node = n /\ m \in ListsOf(x) /\ (n = Self => ~ Ingest(st, x, cfg).known)
                 THEN P \cup {x} ELSE P, Past, clock)
    BY <1>1, <1>3, <1>6, <2>2, <2>3, <2>5, <2>6, <2>7, IngestStep
  <2>9. x.id >= since[n] /\ (x.id < told' <=> ~ known')
    <3>1. since[n] <= nextId
      BY DEF Inv
    <3>2. since[n] \in Nat
      BY <1>1 DEF TypeOK
    <3>3. IF known THEN told <= nextId ELSE told = MaxEvents + 1
      BY DEF Inv
    <3>4. told' = IF known' /\ ~ known THEN nextId ELSE told
      BY <1>4
    <3>5. told \in Nat
      BY <1>1 DEF TypeOK
    <3> QED BY <1>1, <1>6, <1>9, <3>1, <3>2, <3>3, <3>4, <3>5
  <2>10. \A f \in received : f.id < told <=> f.id < told'
    <3>1. told' = IF known' /\ ~ known THEN nextId ELSE told
      BY <1>4
    <3>2. ~ known => told = MaxEvents + 1
      BY DEF Inv
    <3>3. \A f \in received : f.id \in Nat /\ f.id < nextId
      BY <1>10, <2>4
    <3> QED BY <1>1, <1>9, <3>1, <3>2, <3>3
  <2>11. PoolOf(received', n, m, since'[n], told') =
           IF x.node = n /\ m \in ListsOf(x) /\ (n = Self => ~ Ingest(st, x, cfg).known)
           THEN P \cup {x} ELSE P
    <3>1. Ingest(st, x, cfg).known = known'
      BY <1>4, <1>8
    <3>2. since' = since /\ received' = received \cup {x}
      BY <1>4, <1>8
    <3> QED BY <2>1, <2>9, <2>10, <3>1, <3>2 DEF PoolOf
  <2>12. Past' = Past /\ clock' = clock /\ buckets' = Ingest(st, x, cfg).buckets
    BY <1>4, <1>8 DEF Past
  <2> QED BY <2>8, <2>11, <2>12
<1>14. ListsOK'
  BY <1>13 DEF ListsOK
<1>15. TypeOK'
  <2>1. buckets' \in [Nodes -> [Metrics -> SUBSET Event]]
    BY <1>4, <1>7 DEF States
  <2>2. Capped'
    BY <1>14, ListsCapped, PTL
  <2>3. told' \in 1 .. MaxEvents + 1
    <3>1. told' = told \/ told' = nextId
      BY <1>4
    <3> QED BY <1>1, <3>1 DEF TypeOK
  <2>4. nextId' \in 1 .. MaxEvents + 1
    BY <1>1, <1>4
  <2>5. owed' \subseteq Event /\ received' \subseteq Event
    BY <1>1, <1>6, <1>8 DEF TypeOK
  <2> QED BY <1>1, <1>4, <1>9, <2>1, <2>2, <2>3, <2>4, <2>5 DEF TypeOK, Capped
<1>16. cfg' \in used' /\ \A n \in Nodes : since'[n] <= nextId'
  <2>1. \A n \in Nodes : since[n] \in Nat /\ since[n] <= nextId
    BY <1>1 DEF Inv, TypeOK
  <2> QED BY <1>1, <1>4, <2>1 DEF Inv
<1> QED BY <1>11, <1>12, <1>14, <1>15, <1>16 DEF Inv

(* The other actions leave the lists as they are, or empty them.            *)
LEMMA InsertInv ==
  ASSUME Inv, InsertEvent PROVE Inv'
<1>1. /\ UNCHANGED <<clock, cfg, saved, known, buckets, nextId, received, since, told, used,
                     restarts>>
      /\ rows' \subseteq rows \cup owed /\ owed' = {}
  BY DEF InsertEvent, history
<1>2. TypeOK /\ SeenOK /\ ListsOK
  BY DEF Inv
<1>3. TypeOK'
  BY <1>1, <1>2 DEF TypeOK
<1>4. SeenOK'
  <2>1. Seen' \subseteq Seen
    BY <1>1 DEF Seen
  <2>2. \A x \in Seen : x \in Event
    BY <1>2 DEF TypeOK, Seen
  <2>3. nextId \in Nat /\ clock \in Nat
    BY <1>2, BucketsAssumption DEF TypeOK
  <2>4. nextId <= nextId /\ clock <= clock
    BY <2>3
  <2>5. IsFiniteSet(Seen') /\ Ordered(Seen') /\ \A x \in Seen' : x.id < nextId /\ x.time <= clock
    BY <1>2, <2>1, <2>2, <2>3, <2>4, SeenShrinks
  <2> QED BY <1>1, <2>5 DEF SeenOK
<1>5. ListsOK'
  BY <1>1, <1>2 DEF ListsOK, Past
<1> QED BY <1>1, <1>3, <1>4, <1>5 DEF Inv

LEMMA CleanupInv ==
  ASSUME Inv, Cleanup PROVE Inv'
<1>1. /\ UNCHANGED <<clock, cfg, saved, known, buckets, nextId, received, since, told, used,
                     restarts, owed>>
      /\ rows' \subseteq rows
  BY DEF Cleanup, history
<1>2. TypeOK /\ SeenOK /\ ListsOK
  BY DEF Inv
<1>3. TypeOK'
  BY <1>1, <1>2 DEF TypeOK
<1>4. SeenOK'
  <2>1. Seen' \subseteq Seen
    BY <1>1 DEF Seen
  <2>2. \A x \in Seen : x \in Event
    BY <1>2 DEF TypeOK, Seen
  <2>3. nextId \in Nat /\ clock \in Nat
    BY <1>2, BucketsAssumption DEF TypeOK
  <2>4. nextId <= nextId /\ clock <= clock
    BY <2>3
  <2>5. IsFiniteSet(Seen') /\ Ordered(Seen') /\ \A x \in Seen' : x.id < nextId /\ x.time <= clock
    BY <1>2, <2>1, <2>2, <2>3, <2>4, SeenShrinks
  <2> QED BY <1>1, <2>5 DEF SeenOK
<1>5. ListsOK'
  BY <1>1, <1>2 DEF ListsOK, Past
<1> QED BY <1>1, <1>3, <1>4, <1>5 DEF Inv

LEMMA IdentifyInv ==
  ASSUME Inv, Identify PROVE Inv'
<1>1. /\ UNCHANGED <<clock, cfg, saved, buckets, owed, rows, nextId, received, since, used,
                     restarts>>
      /\ ~ known /\ known' = TRUE /\ told' = nextId
  BY DEF Identify
<1>2. TypeOK /\ SeenOK /\ ListsOK /\ told = MaxEvents + 1 /\ nextId \in Nat
  BY <1>1, BucketsAssumption DEF Inv, TypeOK
<1>3. TypeOK'
  BY <1>1, <1>2 DEF TypeOK
<1>4. SeenOK'
  BY <1>1, <1>2 DEF SeenOK, Seen
<1>5. \A f \in received : f.id < told /\ f.id < nextId
  <2>1. \A f \in received : f.id < nextId
    BY <1>2 DEF SeenOK, Seen
  <2>2. \A f \in received : f.id \in 1 .. MaxEvents
    BY <1>2 DEF TypeOK, Event
  <2>3. MaxEvents \in Nat
    BY BucketsAssumption
  <2> QED BY <1>2, <2>1, <2>2, <2>3
<1>6. \A n, m : PoolOf(received, n, m, since[n], told) = PoolOf(received, n, m, since[n], told')
  BY <1>1, <1>5 DEF PoolOf
<1>7. ListsOK'
  BY <1>1, <1>2, <1>6 DEF ListsOK, Past
<1>8. told' <= nextId'
  BY <1>1, <1>2
<1> QED BY <1>1, <1>3, <1>4, <1>7, <1>8 DEF Inv

LEMMA PostInv ==
  ASSUME Inv, NEW c \in Configs, PostConfig(c) PROVE Inv'
<1>1. /\ UNCHANGED <<clock, known, buckets, owed, rows, nextId, received, since, told, restarts>>
      /\ cfg' = c /\ saved' \in {saved, c} /\ used' = used \cup {c}
  BY DEF PostConfig
<1>2. TypeOK /\ SeenOK /\ ListsOK
  BY DEF Inv
<1>3. TypeOK'
  BY <1>1, <1>2 DEF TypeOK
<1>4. SeenOK'
  BY <1>1, <1>2 DEF SeenOK, Seen
<1>5. Past \subseteq Past' /\ Past' \subseteq Configs /\ clock \in Nat /\ clock <= clock
  <2>1. clock \in Nat
    BY <1>2, BucketsAssumption DEF TypeOK
  <2> QED BY <1>1, <1>2, <2>1, BucketsAssumption DEF Past, TypeOK
<1>6. ASSUME NEW n \in Nodes, NEW m \in Metrics
      PROVE  BucketOK(buckets'[n][m], PoolOf(received', n, m, since'[n], told'), Past', clock')
  <2>1. PICK P : P = PoolOf(received, n, m, since[n], told)
    OBVIOUS
  <2>2. BucketOK(buckets[n][m], P, Past, clock) /\ P \subseteq Event
    BY <1>2, <2>1, PoolFacts DEF ListsOK
  <2>3. BucketOK(buckets[n][m], P, Past', clock)
    BY <1>5, <2>2, BucketLater
  <2> QED BY <1>1, <2>1, <2>3
<1>7. ListsOK'
  BY <1>6 DEF ListsOK
<1>8. cfg' \in used' /\ (IF known' THEN told' <= nextId' ELSE told' = MaxEvents + 1)
      /\ \A n \in Nodes : since'[n] <= nextId'
  BY <1>1 DEF Inv
<1> QED BY <1>3, <1>4, <1>7, <1>8 DEF Inv

LEMMA TickInv ==
  ASSUME Inv, Tick PROVE Inv'
<1>1. /\ UNCHANGED <<cfg, saved, known, buckets, owed, rows, nextId, received, since, told, used,
                     restarts>>
      /\ clock < MaxTime /\ clock' = clock + 1
  BY DEF Tick, history
<1>2. TypeOK /\ SeenOK /\ ListsOK /\ clock \in Nat /\ MaxTime \in Nat /\ nextId \in Nat
  BY BucketsAssumption DEF Inv, TypeOK
<1>3. clock' \in 0 .. MaxTime /\ clock' \in Nat /\ clock <= clock' /\ nextId <= nextId
  BY <1>1, <1>2
<1>4. TypeOK'
  BY <1>1, <1>2, <1>3 DEF TypeOK
<1>5. SeenOK'
  <2>1. Seen' = Seen
    BY <1>1 DEF Seen
  <2>2. \A x \in Seen : x \in Event
    BY <1>2 DEF TypeOK, Seen
  <2>3. IsFiniteSet(Seen) /\ Ordered(Seen) /\ \A x \in Seen : x.id < nextId /\ x.time <= clock'
    BY <1>2, <1>3, <2>2, SeenShrinks
  <2> QED BY <1>1, <2>1, <2>3 DEF SeenOK
<1>6. Past \subseteq Configs /\ Past' = Past
  BY <1>1, <1>2, BucketsAssumption DEF Past, TypeOK
<1>7. ASSUME NEW n \in Nodes, NEW m \in Metrics
      PROVE  BucketOK(buckets'[n][m], PoolOf(received', n, m, since'[n], told'), Past', clock')
  <2>1. PICK P : P = PoolOf(received, n, m, since[n], told)
    OBVIOUS
  <2>2. BucketOK(buckets[n][m], P, Past, clock) /\ P \subseteq Event
    BY <1>2, <2>1, PoolFacts DEF ListsOK
  <2>3. BucketOK(buckets[n][m], P, Past, clock')
    BY <1>2, <1>3, <1>6, <2>2, BucketLater
  <2> QED BY <1>1, <1>6, <2>1, <2>3
<1>8. ListsOK'
  BY <1>7 DEF ListsOK
<1> QED BY <1>1, <1>4, <1>5, <1>8 DEF Inv

LEMMA ResetInv ==
  ASSUME Inv, NEW n \in Nodes, ResetNode(n) PROVE Inv'
<1>1. /\ UNCHANGED <<clock, cfg, saved, known, owed, rows, nextId, received, told, used, restarts>>
      /\ buckets' = [buckets EXCEPT ![n] = Empty] /\ since' = [since EXCEPT ![n] = nextId]
  BY DEF ResetNode
<1>2. TypeOK /\ SeenOK /\ ListsOK /\ nextId \in Nat /\ Past' = Past
  BY <1>1, BucketsAssumption DEF Inv, TypeOK, Past
<1>3. SeenOK'
  BY <1>1, <1>2 DEF SeenOK, Seen
<1>4. ASSUME NEW k \in Nodes, NEW m \in Metrics
      PROVE  BucketOK(buckets'[k][m], PoolOf(received', k, m, since'[k], told'), Past', clock')
  <2>1. CASE k = n
    <3>1. buckets'[k][m] = {} /\ since'[k] = nextId
      BY <1>1, <1>2, <2>1 DEF Empty, TypeOK
    <3>2. \A f \in received : f.id < nextId
      BY <1>2 DEF SeenOK, Seen
    <3>3. \A f \in received : f.id \in Nat
      BY <1>2 DEF TypeOK, Event
    <3>4. PoolOf(received', k, m, since'[k], told') = {}
      BY <1>1, <1>2, <3>1, <3>2, <3>3 DEF PoolOf
    <3> QED BY <3>1, <3>4, EmptyList
  <2>2. CASE k # n
    <3>1. buckets'[k] = buckets[k] /\ since'[k] = since[k]
      BY <1>1, <1>2, <2>2 DEF TypeOK
    <3>2. BucketOK(buckets[k][m], PoolOf(received, k, m, since[k], told), Past, clock)
      BY <1>2 DEF ListsOK
    <3> QED BY <1>1, <1>2, <3>1, <3>2
  <2> QED BY <2>1, <2>2
<1>5. ListsOK'
  BY <1>4 DEF ListsOK
<1>6. TypeOK'
  <2>1. buckets' \in [Nodes -> [Metrics -> SUBSET Event]]
    BY <1>1, <1>2 DEF TypeOK, Empty
  <2>2. Capped'
    BY <1>5, ListsCapped, PTL
  <2>3. since' \in [Nodes -> 1 .. MaxEvents + 1]
    BY <1>1, <1>2 DEF TypeOK
  <2> QED BY <1>1, <1>2, <2>1, <2>2, <2>3 DEF TypeOK, Capped
<1>7. \A k \in Nodes : since'[k] <= nextId'
  <2>1. \A k \in Nodes : since[k] <= nextId
    BY DEF Inv
  <2>2. \A k \in Nodes : since'[k] = IF k = n THEN nextId ELSE since[k]
    BY <1>1, <1>2 DEF TypeOK
  <2> QED BY <1>1, <1>2, <2>1, <2>2
<1>8. cfg' \in used' /\ (IF known' THEN told' <= nextId' ELSE told' = MaxEvents + 1)
  BY <1>1 DEF Inv
<1> QED BY <1>3, <1>5, <1>6, <1>7, <1>8 DEF Inv

(* A new process that has replayed the table.                               *)
LEMMA RestartInv ==
  ASSUME Inv, Restart PROVE Inv'
<1> DEFINE loaded == Newest(rows, LoadLimit)
           st     == Replay(loaded, DefaultConfig)
<1>1. /\ TypeOK /\ SeenOK /\ nextId \in Nat /\ clock \in Nat /\ MaxEvents \in Nat
      /\ DefaultConfig \in Configs
  BY BucketsAssumption DEF Inv, TypeOK
<1>2. /\ known' = st.known /\ buckets' = st.buckets /\ received' = loaded
      /\ told' = Learnt(loaded)
      /\ cfg' = saved /\ used' = {saved} /\ owed' = {} /\ since' = [n \in Nodes |-> 1]
      /\ restarts' = restarts + 1 /\ restarts < MaxRestarts
      /\ UNCHANGED <<clock, saved, rows, nextId>>
  BY DEF Restart, Learnt
<1>3. PICK R : R = loaded
  OBVIOUS
<1>4. R \subseteq rows /\ R \subseteq Seen /\ R \subseteq Event
  BY <1>1, <1>3 DEF Newest, Seen, TypeOK
<1>5. \A x \in Seen : x \in Event
  BY <1>1 DEF TypeOK, Seen
<1>6. nextId <= nextId /\ clock <= clock
  BY <1>1
<1>7. /\ IsFiniteSet(R) /\ Ordered(R)
      /\ \A x \in R : x.id < nextId /\ x.time <= clock
  BY <1>1, <1>4, <1>5, <1>6, SeenShrinks
<1>8. restarts' \in 0 .. MaxRestarts /\ restarts' > 0
  BY <1>1, <1>2, BucketsAssumption DEF TypeOK
<1>9. Past' \subseteq Configs /\ DefaultConfig \in Past'
  BY <1>1, <1>2, <1>8 DEF Past, TypeOK
<1>10. PICK C : C = Past'
  OBVIOUS
<1>11. PICK y : y = Replay(R, DefaultConfig)
  OBVIOUS
<1>12. /\ y \in States
       /\ y.known <=> Learnt(R) <= MaxEvents
       /\ \A n \in Nodes, m \in Metrics :
            BucketOK(y.buckets[n][m], PoolOf(R, n, m, 1, Learnt(R)), C, clock)
  <2>1. C \subseteq Configs /\ DefaultConfig \in C
    BY <1>9, <1>10
  <2>2. \A x \in R : x.time <= clock
    BY <1>7
  <2>3. /\ Replay(R, DefaultConfig) \in States
        /\ Replay(R, DefaultConfig).known <=> Learnt(R) <= MaxEvents
        /\ \A n \in Nodes, m \in Metrics :
            BucketOK(Replay(R, DefaultConfig).buckets[n][m], PoolOf(R, n, m, 1, Learnt(R)),
                     C, clock)
    BY <1>1, <1>4, <1>7, <2>1, <2>2, ReplayOK
  <2> QED BY <1>11, <2>3
<1>13. /\ known' = y.known /\ buckets' = y.buckets /\ received' = R /\ told' = Learnt(R)
  BY <1>2, <1>3, <1>11
<1> HIDE DEF loaded, st
<1>14. ListsOK'
  <2>1. \A n \in Nodes : since'[n] = 1
    BY <1>2
  <2> QED BY <1>2, <1>10, <1>12, <1>13, <2>1 DEF ListsOK
<1>15. SeenOK'
  <2>1. Seen' \subseteq Seen
    BY <1>2, <1>4, <1>13 DEF Seen
  <2>2. IsFiniteSet(Seen') /\ Ordered(Seen') /\ \A x \in Seen' : x.id < nextId /\ x.time <= clock
    BY <1>1, <1>5, <1>6, <2>1, SeenShrinks
  <2> QED BY <1>2, <2>2 DEF SeenOK
<1>16. told' \in 1 .. MaxEvents + 1
  BY <1>4, <1>13, LearntIs
<1>17. TypeOK'
  <2>1. buckets' \in [Nodes -> [Metrics -> SUBSET Event]] /\ known' \in BOOLEAN
    BY <1>12, <1>13 DEF States
  <2>2. Capped'
    BY <1>14, ListsCapped, PTL
  <2>3. since' \in [Nodes -> 1 .. MaxEvents + 1]
    BY <1>1, <1>2
  <2> QED BY <1>1, <1>2, <1>4, <1>8, <1>13, <1>16, <2>1, <2>2, <2>3 DEF TypeOK, Capped
<1>18. IF known' THEN told' <= nextId' ELSE told' = MaxEvents + 1
  <2>1. CASE Learnt(R) = MaxEvents + 1
    <3>1. ~ known'
      BY <1>1, <1>12, <1>13, <2>1
    <3> QED BY <1>13, <2>1, <3>1
  <2>2. CASE Learnt(R) # MaxEvents + 1
    <3>1. PICK x \in R : x.type = "myinfo" /\ x.id = Learnt(R)
      BY <1>4, <2>2, LearntIs
    <3>2. Learnt(R) < nextId /\ Learnt(R) \in Nat
      BY <1>7, <1>13, <1>16, <3>1
    <3>3. Learnt(R) <= MaxEvents
      BY <1>1, <1>13, <1>16, <2>2
    <3>4. known'
      BY <1>12, <1>13, <3>3
    <3> QED BY <1>1, <1>2, <1>13, <3>2, <3>4
  <2> QED BY <2>1, <2>2
<1>19. \A n \in Nodes : since'[n] <= nextId'
  <2>1. nextId >= 1
    BY <1>1 DEF TypeOK
  <2> QED BY <1>1, <1>2, <2>1
<1>20. cfg' \in used'
  BY <1>2
<1> QED BY <1>14, <1>15, <1>17, <1>18, <1>19, <1>20 DEF Inv

LEMMA NextInv == Inv /\ [Next]_vars => Inv'
<1> SUFFICES ASSUME Inv, [Next]_vars PROVE Inv'
  OBVIOUS
<1>1. CASE UNCHANGED vars
  BY <1>1 DEF vars, history, Inv, TypeOK, SeenOK, Seen, ListsOK, Past
<1>2. CASE Next
  BY <1>2, AddInv, InsertInv, IdentifyInv, PostInv, ResetInv, CleanupInv, RestartInv, TickInv
     DEF Next
<1> QED BY <1>1, <1>2

----------------------------------------------------------------------------
(* The report.                                                              *)

(* A window in force that every earlier configuration covers.               *)
LEMMA Covered ==
  ASSUME NEW C, C \subseteq Configs, cfg \in Configs, CoveredBy(C),
         NEW m \in Metrics, cfg.enabled[m], NEW c \in C
  PROVE  cfg.window[m] <= LargestWindow(c)
<1>1. cfg \in Config /\ c \in Config /\ MinWindow \in Nat
  BY BucketsAssumption
<1>2. cfg.window[m] \in Nat /\ \A x \in Metrics : c.window[x] \in Nat
  BY <1>1 DEF Config
<1>3. \/ cfg.window[m] <= MinWindow
      \/ \E x \in Metrics : c.enabled[x] /\ cfg.window[m] <= c.window[x]
  BY DEF CoveredBy
<1>4. /\ LargestWindow(c) \in Nat
      /\ LargestWindow(c) >= MinWindow
      /\ \A x \in Metrics : c.enabled[x] => LargestWindow(c) >= c.window[x]
  BY LargestIsMax
<1>5. CASE cfg.window[m] <= MinWindow
  BY <1>1, <1>2, <1>4, <1>5
<1>6. ASSUME NEW x \in Metrics, c.enabled[x], cfg.window[m] <= c.window[x]
      PROVE  cfg.window[m] <= LargestWindow(c)
  BY <1>2, <1>4, <1>6
<1> QED BY <1>3, <1>5, <1>6

LEMMA ShownIsDue ==
  ASSUME Inv, CoveredBy(Past), NEW n \in Nodes, NEW m \in Metrics, cfg.enabled[m]
  PROVE  /\ InWindow(n, m) = Due(n, m)
         /\ IsFiniteSet(Due(n, m))
         /\ Due(n, m) \subseteq {e \in Event : m \in ListsOf(e)}
<1>1. PICK P : P = PoolOf(received, n, m, since[n], told)
  OBVIOUS
<1>2. P \subseteq Event /\ IsFiniteSet(P) /\ Ordered(P)
  BY <1>1, PoolFacts
<1>3. cfg \in Configs /\ Past \subseteq Configs /\ clock \in Nat
  BY BucketsAssumption DEF Inv, TypeOK, Past
<1>4. PICK w : w = cfg.window[m]
  OBVIOUS
<1>5. w \in Nat
  BY <1>3, <1>4, BucketsAssumption DEF Config
<1>6. \A c \in Past : w <= LargestWindow(c)
  BY <1>3, <1>4, Covered
<1>7. BucketOK(buckets[n][m], P, Past, clock)
  BY <1>1 DEF Inv, ListsOK
<1>8. {s \in buckets[n][m] : s.time >= clock - w} = Newest({e \in P : e.time >= clock - w}, Cap)
  <2>1. PICK B : B = buckets[n][m]
    OBVIOUS
  <2>2. PICK C : C = Past
    OBVIOUS
  <2>3. PICK t : t = clock
    OBVIOUS
  <2>4. /\ t \in Nat /\ C \subseteq Configs /\ BucketOK(B, P, C, t)
        /\ \A c \in C : w <= LargestWindow(c)
    BY <1>3, <1>6, <1>7, <2>1, <2>2, <2>3
  <2>5. {s \in B : s.time >= t - w} = Newest({e \in P : e.time >= t - w}, Cap)
    BY <1>2, <1>5, <2>4, WindowExact
  <2> QED BY <2>1, <2>3, <2>5
<1>9. {e \in P : e.time >= clock - w} =
        {e \in received : /\ e.node = n
                          /\ m \in ListsOf(e)
                          /\ e.id >= since[n]
                          /\ n = Self => e.id < told
                          /\ e.time >= clock - cfg.window[m]}
  BY <1>1, <1>4 DEF PoolOf
<1>10. InWindow(n, m) = Due(n, m)
  BY <1>4, <1>8, <1>9 DEF InWindow, Due
<1>11. Due(n, m) \subseteq P
  BY <1>9 DEF Due, Newest
<1> QED BY <1>1, <1>2, <1>10, <1>11, FS_Subset DEF PoolOf

LEMMA InvExact == Inv => ReportIsExact
<1> SUFFICES ASSUME Inv, CoveredBy(Past) PROVE Misbehaving = {n \in Nodes : Offends(n)}
  BY DEF ReportIsExact, ExactUnless, Past
<1>1. cfg \in Config /\ "hop" \notin Counted
  BY BucketsAssumption DEF Inv, TypeOK
<1>2. \A m \in Metrics : m # "hop" <=> m \in Counted
  BY <1>1 DEF Metrics
<1>3. Counted \subseteq Metrics /\ "hop" \in Metrics
  BY DEF Metrics
<1>4. ASSUME NEW n \in Nodes PROVE n \in Misbehaving <=> Offends(n)
  <2> DEFINE Over(m) == Cardinality(Due(n, m)) > cfg.limit[m]
             High == \E v \in 0 .. MaxHop :
                       /\ v > cfg.limit["hop"]
                       /\ Cardinality({e \in Due(n, "hop") : e.hop = v}) > 0
                       /\ \A u \in 0 .. MaxHop :
                            Cardinality({e \in Due(n, "hop") : e.hop = u})
                              <= Cardinality({e \in Due(n, "hop") : e.hop = v})
  <2>1. \A m \in Counted : cfg.enabled[m] =>
          (Cardinality(InWindow(n, m)) > cfg.limit[m] <=> Over(m))
    <3> SUFFICES ASSUME NEW m \in Counted, cfg.enabled[m]
                 PROVE  InWindow(n, m) = Due(n, m)
      OBVIOUS
    <3> QED BY <1>3, ShownIsDue
  <2>2. ASSUME cfg.enabled["hop"]
        PROVE  HopMode(InWindow(n, "hop")) > cfg.limit["hop"] <=> High
    <3>1. PICK S : S = Due(n, "hop")
      OBVIOUS
    <3>2. /\ InWindow(n, "hop") = S /\ IsFiniteSet(S)
          /\ S \subseteq {e \in Event : "hop" \in ListsOf(e)}
      BY <1>3, <2>2, <3>1, ShownIsDue
    <3>3. \A s \in S : s.hop \in 0 .. MaxHop
      <4>1. \A s \in S : s \in Event /\ "hop" \in ListsOf(s)
        BY <3>2
      <4>2. \A s \in S : s.type # "hop"
        BY <1>1, <4>1 DEF Event, Types
      <4>3. \A s \in S : s.hop \in Nat /\ s.hop <= MaxHop
        BY <4>1, <4>2 DEF ListsOf, Event
      <4> QED BY <4>3 DEF MaxHop
    <3>4. cfg.limit["hop"] \in Nat
      BY <1>1, <1>3 DEF Config
    <3>5. PICK limit : limit = cfg.limit["hop"]
      OBVIOUS
    <3>6. HopMode(S) > limit <=>
           \E v \in 0 .. MaxHop :
             /\ v > limit
             /\ Cardinality({s \in S : s.hop = v}) > 0
             /\ \A u \in 0 .. MaxHop :
                  Cardinality({s \in S : s.hop = u}) <= Cardinality({s \in S : s.hop = v})
      <4>1. limit \in Nat
        BY <3>4, <3>5
      <4> QED BY <3>2, <3>3, <4>1, ModeIsExact
    <3> QED BY <3>1, <3>2, <3>5, <3>6
  <2>3. Offends(n) <=> \/ \E m \in Counted : cfg.enabled[m] /\ Over(m)
                       \/ cfg.enabled["hop"] /\ High
    <3>1. Offends(n) <=> \E m \in Metrics : cfg.enabled[m] /\ IF m # "hop" THEN Over(m) ELSE High
      BY DEF Offends
    <3> HIDE DEF Over, High
    <3> QED BY <1>2, <1>3, <3>1
  <2>4. n \in Misbehaving <=>
          \/ \E m \in Counted : cfg.enabled[m] /\ Cardinality(InWindow(n, m)) > cfg.limit[m]
          \/ cfg.enabled["hop"] /\ HopMode(InWindow(n, "hop")) > cfg.limit["hop"]
    BY DEF Misbehaving
  <2> HIDE DEF Over, High
  <2> QED BY <2>1, <2>2, <2>3, <2>4
<1>5. Misbehaving \subseteq Nodes
  BY DEF Misbehaving
<1> QED BY <1>4, <1>5

----------------------------------------------------------------------------
(* Type correctness: the lists, the table and the settings hold what the    *)
(* code's types say, and no list outgrows its cap (store.go:1850-1854).     *)
THEOREM TypeCorrect == Spec => []TypeOK
<1>1. Inv => TypeOK
  BY DEF Inv
<1> QED BY <1>1, InitInv, NextInv, PTL DEF Spec

(* The report names exactly the nodes whose packets exceed a limit in the   *)
(* windows in force (store.go:1794-1856, 1921-1964), whatever trimmed the   *)
(* lists, unless a window is longer than all those of an earlier            *)
(* configuration.                                                           *)
THEOREM ReportCorrect == Spec => []ReportIsExact
BY InitInv, NextInv, InvExact, PTL DEF Spec
=============================================================================
