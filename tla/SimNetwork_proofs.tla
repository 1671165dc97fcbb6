-------------------------- MODULE SimNetwork_proofs --------------------------
(***************************************************************************)
(* Proofs about SimLink, for queues of any length: which vehicles the      *)
(* loops of do_sim_step take, and that the buffer keeps within the flow    *)
(* capacity.  Then proofs about SimNetwork: flow capacity and stuck        *)
(* timers, storage, caches and vehicles.                                   *)
(*                                                                         *)
(* Facts about recursive functions are proved by the least number for      *)
(* which they would fail.                                                  *)
(***************************************************************************)
EXTENDS SimNetwork, SequenceFacts, FiniteSetTheorems, TLAPS

-----------------------------------------------------------------------------
(* The vehicles that go on.                                                 *)

IsGoOn(g, s, n, A) ==
  \A i \in 0..n : g[i] = IF i = 0 THEN <<>> ELSE IF s[i] \in A THEN g[i - 1]
                         ELSE Append(g[i - 1], s[i])

LEMMA GoOnExists ==
  ASSUME NEW s \in Seq(Vehicles), NEW A
  PROVE  \E g \in [0..Len(s) -> Seq(Vehicles)] : IsGoOn(g, s, Len(s), A)
PROOF
  <1> DEFINE P(n) == \E g \in [0..n -> Seq(Vehicles)] : IsGoOn(g, s, n, A)
             T == {n \in 0..Len(s) : ~P(n)}
  <1>1. SUFFICES ASSUME T # {} PROVE FALSE
    OBVIOUS
  <1>2. PICK n \in T : \A k \in T : n <= k
    <2>1. T \subseteq Nat
      OBVIOUS
    <2> HIDE DEF T
    <2> QED BY <1>1, <2>1, LeastNumber
  <1>3. P(0)
    <2> DEFINE g == [i \in 0..0 |-> <<>>]
    <2>1. g \in [0..0 -> Seq(Vehicles)] /\ g[0] = <<>>
      OBVIOUS
    <2>2. IsGoOn(g, s, 0, A)
      BY <2>1 DEF IsGoOn
    <2> QED BY <2>1, <2>2
  <1>4. n \in 1..Len(s) /\ n - 1 \in 0..Len(s) /\ n - 1 \in Nat
    <2>1. n \in 0..Len(s) /\ ~P(n)
      BY <1>2
    <2>2. n # 0
      BY <1>3, <2>1
    <2> QED BY <2>1, <2>2
  <1>5. P(n - 1)
    <2>1. n - 1 \notin T
      <3> HIDE DEF T
      <3> QED BY <1>2, <1>4
    <2> QED BY <1>4, <2>1
  <1>6. PICK g \in [0..(n - 1) -> Seq(Vehicles)] : IsGoOn(g, s, n - 1, A)
    BY <1>5
  <1> DEFINE h == [i \in 0..n |-> IF i < n THEN g[i] ELSE
                     IF s[n] \in A THEN g[n - 1] ELSE Append(g[n - 1], s[n])]
  <1>7. g[n - 1] \in Seq(Vehicles) /\ s[n] \in Vehicles
    BY <1>4
  <1>8. h \in [0..n -> Seq(Vehicles)]
    <2>1. ASSUME NEW i \in 0..n PROVE h[i] \in Seq(Vehicles)
      <3>1. CASE i < n
        BY <1>4, <3>1
      <3>2. CASE ~(i < n)
        BY <1>7, <3>2
      <3> QED BY <3>1, <3>2
    <2> QED BY <2>1
  <1>9. ASSUME NEW i \in 0..n
        PROVE  h[i] = IF i = 0 THEN <<>> ELSE IF s[i] \in A THEN h[i - 1]
                      ELSE Append(h[i - 1], s[i])
    <2>1. CASE i = n
      <3>1. h[i - 1] = g[n - 1] /\ i # 0
        BY <1>4, <2>1
      <3> QED BY <2>1, <3>1
    <2>2. CASE i # n
      <3>1. i \in 0..(n - 1) /\ h[i] = g[i] /\ (i # 0 => h[i - 1] = g[i - 1])
        BY <1>4, <2>2
      <3> QED BY <1>6, <3>1 DEF IsGoOn
    <2> QED BY <2>1, <2>2
  <1>10. P(n)
    <2> HIDE DEF h
    <2> QED BY <1>8, <1>9 DEF IsGoOn
  <1> QED BY <1>2, <1>10

\* GoOn, one vehicle after the other.
LEMMA GoOnRec ==
  ASSUME NEW s \in Seq(Vehicles), NEW A
  PROVE  /\ GoOn(s, 0, A) = <<>>
         /\ \A m \in 0..Len(s) : GoOn(s, m, A) \in Seq(Vehicles)
         /\ \A m \in 1..Len(s) :
              GoOn(s, m, A) = IF s[m] \in A THEN GoOn(s, m - 1, A)
                              ELSE Append(GoOn(s, m - 1, A), s[m])
PROOF
  <1> DEFINE Def(f) == [i \in 0..Len(s) |-> IF i = 0 THEN <<>>
                          ELSE IF s[i] \in A THEN f[i - 1] ELSE Append(f[i - 1], s[i])]
             on == CHOOSE f : f = Def(f)
  <1>1. PICK g \in [0..Len(s) -> Seq(Vehicles)] : IsGoOn(g, s, Len(s), A)
    BY GoOnExists
  <1>2. g = Def(g)
    BY <1>1 DEF IsGoOn
  <1>3. on = Def(on)
    <2> HIDE DEF Def
    <2> QED BY <1>2
  <1>4. \A m : GoOn(s, m, A) = on[m]
    BY DEF GoOn
  <1>5. Len(s) \in Nat
    OBVIOUS
  <1>6. /\ on[0] = <<>>
        /\ \A m \in 1..Len(s) : on[m] = IF s[m] \in A THEN on[m - 1] ELSE Append(on[m - 1], s[m])
    <2> HIDE DEF on
    <2>1. \A m \in 0..Len(s) : Def(on)[m] = IF m = 0 THEN <<>>
            ELSE IF s[m] \in A THEN on[m - 1] ELSE Append(on[m - 1], s[m])
      OBVIOUS
    <2> HIDE DEF Def
    <2>2. \A m \in 0..Len(s) : on[m] = IF m = 0 THEN <<>>
            ELSE IF s[m] \in A THEN on[m - 1] ELSE Append(on[m - 1], s[m])
      BY <1>3, <2>1
    <2> QED BY <1>5, <2>2
  <1> HIDE DEF on, Def
  <1> DEFINE T == {m \in 0..Len(s) : on[m] \notin Seq(Vehicles)}
  <1>7. T = {}
    <2> SUFFICES ASSUME T # {} PROVE FALSE
      OBVIOUS
    <2>1. PICK n \in T : \A k \in T : n <= k
      <3>1. T \subseteq Nat
        OBVIOUS
      <3> HIDE DEF T
      <3> QED BY <3>1, LeastNumber
    <2>2. n # 0
      <3>1. on[n] \notin Seq(Vehicles) /\ <<>> \in Seq(Vehicles)
        BY <2>1
      <3> QED BY <1>6, <3>1
    <2>3. n \in 1..Len(s) /\ n - 1 \in 0..Len(s) /\ on[n - 1] \in Seq(Vehicles) /\ s[n] \in Vehicles
      BY <2>1, <2>2
    <2>4. on[n] \in Seq(Vehicles)
      <3>1. on[n] = IF s[n] \in A THEN on[n - 1] ELSE Append(on[n - 1], s[n])
        BY <1>6, <2>3
      <3> QED BY <2>3, <3>1
    <2> QED BY <2>1, <2>4
  <1> QED BY <1>4, <1>5, <1>6, <1>7

-----------------------------------------------------------------------------
(* Sums of passenger car equivalents.                                       *)

IsSum(g, s, n) == \A i \in 0..n : g[i] = IF i = 0 THEN 0 ELSE g[i - 1] + Pce[s[i]]

LEMMA SumExists ==
  ASSUME NEW s \in Seq(Vehicles)
  PROVE  \E g \in [0..Len(s) -> Nat] : IsSum(g, s, Len(s))
PROOF
  <1> DEFINE P(n) == \E g \in [0..n -> Nat] : IsSum(g, s, n)
             T == {n \in 0..Len(s) : ~P(n)}
  <1>1. SUFFICES ASSUME T # {} PROVE FALSE
    OBVIOUS
  <1>2. PICK n \in T : \A k \in T : n <= k
    <2>1. T \subseteq Nat
      OBVIOUS
    <2> HIDE DEF T
    <2> QED BY <1>1, <2>1, LeastNumber
  <1>3. P(0)
    <2> DEFINE g == [i \in 0..0 |-> 0]
    <2>1. g \in [0..0 -> Nat] /\ g[0] = 0
      OBVIOUS
    <2>2. IsSum(g, s, 0)
      BY <2>1 DEF IsSum
    <2> QED BY <2>1, <2>2
  <1>4. n \in 1..Len(s) /\ n - 1 \in 0..Len(s) /\ n - 1 \in Nat
    <2>1. n \in 0..Len(s) /\ ~P(n)
      BY <1>2
    <2>2. n # 0
      BY <1>3, <2>1
    <2> QED BY <2>1, <2>2
  <1>5. P(n - 1)
    <2>1. n - 1 \notin T
      <3> HIDE DEF T
      <3> QED BY <1>2, <1>4
    <2> QED BY <1>4, <2>1
  <1>6. PICK g \in [0..(n - 1) -> Nat] : IsSum(g, s, n - 1)
    BY <1>5
  <1> DEFINE h == [i \in 0..n |-> IF i < n THEN g[i] ELSE g[n - 1] + Pce[s[n]]]
  <1>7. g[n - 1] \in Nat /\ s[n] \in Vehicles /\ Pce[s[n]] \in Nat
    BY <1>4, LinkAssumption
  <1>8. h \in [0..n -> Nat]
    <2>1. ASSUME NEW i \in 0..n PROVE h[i] \in Nat
      <3>1. CASE i < n
        BY <1>4, <3>1
      <3>2. CASE ~(i < n)
        BY <1>7, <3>2
      <3> QED BY <3>1, <3>2
    <2> QED BY <2>1
  <1>9. ASSUME NEW i \in 0..n
        PROVE  h[i] = IF i = 0 THEN 0 ELSE h[i - 1] + Pce[s[i]]
    <2>1. CASE i = n
      <3>1. h[i - 1] = g[n - 1] /\ i # 0
        BY <1>4, <2>1
      <3> QED BY <2>1, <3>1
    <2>2. CASE i # n
      <3>1. i \in 0..(n - 1) /\ h[i] = g[i] /\ (i # 0 => h[i - 1] = g[i - 1])
        BY <1>4, <2>2
      <3> QED BY <1>6, <3>1 DEF IsSum
    <2> QED BY <2>1, <2>2
  <1>10. P(n)
    <2> HIDE DEF h
    <2> QED BY <1>8, <1>9 DEF IsSum
  <1> QED BY <1>2, <1>10

\* The sums of two sequences agree as long as the sequences do.
LEMMA SumUnique ==
  ASSUME NEW s, NEW t, NEW n \in Nat, NEW g, NEW h,
         IsSum(g, s, n), IsSum(h, t, n)
  PROVE  (\A i \in 1..n : s[i] = t[i]) => g[n] = h[n]
PROOF
  <1> DEFINE T == {i \in 0..n : g[i] # h[i]}
  <1> HAVE \A i \in 1..n : s[i] = t[i]
  <1>1. SUFFICES ASSUME T # {} PROVE FALSE
    OBVIOUS
  <1>2. PICK i \in T : \A k \in T : i <= k
    <2>1. T \subseteq Nat
      OBVIOUS
    <2> HIDE DEF T
    <2> QED BY <1>1, <2>1, LeastNumber
  <1>3. i \in 0..n /\ g[i] # h[i]
    BY <1>2
  <1>4. i # 0
    BY <1>3 DEF IsSum
  <1>5. i \in 1..n /\ i - 1 \in 0..n /\ g[i - 1] = h[i - 1]
    BY <1>2, <1>3, <1>4
  <1>6. g[i] = g[i - 1] + Pce[s[i]] /\ h[i] = h[i - 1] + Pce[t[i]] /\ s[i] = t[i]
    BY <1>3, <1>4, <1>5 DEF IsSum
  <1> QED BY <1>3, <1>5, <1>6

LEMMA PceSumIs ==
  ASSUME NEW s \in Seq(Vehicles), NEW g, IsSum(g, s, Len(s))
  PROVE  PceSum(s) = g[Len(s)] /\ PceSum(s) \in Nat
PROOF
  <1> DEFINE Def(f) == [i \in 0..Len(s) |-> IF i = 0 THEN 0 ELSE f[i - 1] + Pce[s[i]]]
             sum == CHOOSE f : f = Def(f)
  <1>1. PICK h \in [0..Len(s) -> Nat] : IsSum(h, s, Len(s))
    BY SumExists
  <1>2. h = Def(h)
    BY <1>1 DEF IsSum
  <1>3. sum = Def(sum)
    <2> HIDE DEF Def
    <2> QED BY <1>2
  <1>4. PceSum(s) = sum[Len(s)]
    BY DEF PceSum
  <1>5. IsSum(sum, s, Len(s))
    <2> HIDE DEF sum
    <2>1. \A i \in 0..Len(s) : Def(sum)[i] = IF i = 0 THEN 0 ELSE sum[i - 1] + Pce[s[i]]
      OBVIOUS
    <2> HIDE DEF Def
    <2> QED BY <1>3, <2>1 DEF IsSum
  <1> HIDE DEF sum, Def
  <1>6. Len(s) \in Nat
    OBVIOUS
  <1>7. sum[Len(s)] = g[Len(s)] /\ sum[Len(s)] = h[Len(s)]
    BY <1>1, <1>5, <1>6, SumUnique
  <1>8. h[Len(s)] \in Nat
    BY <1>1, <1>6
  <1> QED BY <1>4, <1>7, <1>8

LEMMA PceSumAppend ==
  ASSUME NEW s \in Seq(Vehicles), NEW v \in Vehicles
  PROVE  /\ PceSum(s) \in Nat /\ Pce[v] \in Nat \ {0}
         /\ PceSum(Append(s, v)) = PceSum(s) + Pce[v]
PROOF
  <1> DEFINE t == Append(s, v)
  <1>1. /\ t \in Seq(Vehicles) /\ Len(t) = Len(s) + 1 /\ Len(s) \in Nat /\ t[Len(t)] = v
        /\ \A i \in 1..Len(s) : t[i] = s[i]
    OBVIOUS
  <1>2. PICK g \in [0..Len(s) -> Nat] : IsSum(g, s, Len(s))
    BY SumExists
  <1> HIDE DEF t
  <1>3. PICK h \in [0..Len(t) -> Nat] : IsSum(h, t, Len(t))
    BY <1>1, SumExists
  <1>4. IsSum(h, t, Len(s)) /\ h[Len(t)] = h[Len(s)] + Pce[v]
    BY SMTT(30), <1>1, <1>3 DEF IsSum
  <1>5. g[Len(s)] = h[Len(s)]
    <2>1. Len(s) \in Nat /\ \A i \in 1..Len(s) : s[i] = t[i]
      BY <1>1
    <2>2. IsSum(g, s, Len(s)) /\ IsSum(h, t, Len(s))
      BY <1>2, <1>4
    <2>3. (\A i \in 1..Len(s) : s[i] = t[i]) => g[Len(s)] = h[Len(s)]
      BY <2>1, <2>2, SumUnique
    <2> QED BY <2>1, <2>3
  <1>6. /\ PceSum(s) = g[Len(s)] /\ PceSum(s) \in Nat
        /\ PceSum(t) = h[Len(t)]
    BY <1>1, <1>2, <1>3, PceSumIs
  <1>7. Pce[v] \in Nat \ {0}
    BY LinkAssumption
  <1> QED BY <1>4, <1>5, <1>6, <1>7 DEF t

LEMMA PceSumEmpty == PceSum(<<>>) = 0
PROOF
  <1> DEFINE s == <<>>
  <1>1. s \in Seq(Vehicles) /\ Len(s) = 0
    OBVIOUS
  <1> HIDE DEF s
  <1>2. PICK g \in [0..Len(s) -> Nat] : IsSum(g, s, Len(s))
    BY <1>1, SumExists
  <1>3. PceSum(s) = g[0] /\ g[0] = 0
    BY <1>1, <1>2, PceSumIs DEF IsSum
  <1> QED BY <1>3 DEF s

LEMMA PrefixAppend ==
  ASSUME NEW S, NEW t \in Seq(S), NEW n \in 1..Len(t)
  PROVE  /\ SubSeq(t, 1, n - 1) \in Seq(S) /\ t[n] \in S
         /\ SubSeq(t, 1, n) = Append(SubSeq(t, 1, n - 1), t[n])
PROOF
  <1> DEFINE u == SubSeq(t, 1, n - 1)
             a == Append(u, t[n])
             w == SubSeq(t, 1, n)
  <1>1. u \in Seq(S) /\ Len(u) = n - 1 /\ \A i \in 1..(n - 1) : u[i] = t[i]
    OBVIOUS
  <1>2. w \in Seq(S) /\ Len(w) = n /\ \A i \in 1..n : w[i] = t[i]
    OBVIOUS
  <1>3. t[n] \in S
    OBVIOUS
  <1> HIDE DEF u, w
  <1>4. /\ a \in Seq(S) /\ Len(a) = n /\ \A i \in 1..(n - 1) : a[i] = u[i]
        /\ a[n] = t[n]
    BY <1>1, <1>3
  <1> HIDE DEF a
  <1>5. \A i \in 1..n : a[i] = w[i]
    BY SMTT(30), <1>1, <1>2, <1>4
  <1>6. a = w
    BY <1>2, <1>4, <1>5
  <1> QED BY <1>1, <1>3, <1>6 DEF a, u, w

LEMMA PceSumCat ==
  ASSUME NEW s \in Seq(Vehicles), NEW t \in Seq(Vehicles)
  PROVE  PceSum(s \o t) = PceSum(s) + PceSum(t)
PROOF
  <1> DEFINE U(n) == SubSeq(t, 1, n)
             T == {n \in 0..Len(t) : PceSum(s \o U(n)) # PceSum(s) + PceSum(U(n))}
  <1>1. T = {}
    <2> SUFFICES ASSUME T # {} PROVE FALSE
      OBVIOUS
    <2>1. PICK n \in T : \A k \in T : n <= k
      <3>1. T \subseteq Nat
        OBVIOUS
      <3> HIDE DEF T
      <3> QED BY <3>1, LeastNumber
    <2>2. n \in 0..Len(t) /\ PceSum(s \o U(n)) # PceSum(s) + PceSum(U(n))
      BY <2>1
    <2>3. n # 0
      <3>1. U(0) = <<>> /\ s \o <<>> = s
        OBVIOUS
      <3>2. PceSum(s) + 0 = PceSum(s)
        BY PceSumIs, SumExists
      <3> QED BY <2>2, <3>1, <3>2, PceSumEmpty
    <2>4. n \in 1..Len(t) /\ n - 1 \in 0..Len(t) /\ ~(n <= n - 1)
      BY <2>2, <2>3
    <2>5. PceSum(s \o U(n - 1)) = PceSum(s) + PceSum(U(n - 1))
      BY <2>1, <2>4
    <2>6. U(n - 1) \in Seq(Vehicles) /\ t[n] \in Vehicles /\ U(n) = Append(U(n - 1), t[n])
      BY <2>4, PrefixAppend
    <2> HIDE DEF U
    <2>7. s \o U(n) = Append(s \o U(n - 1), t[n]) /\ s \o U(n - 1) \in Seq(Vehicles)
      BY SMTT(30), <2>6, CatAppend
    <2>8. /\ PceSum(s \o U(n)) = PceSum(s \o U(n - 1)) + Pce[t[n]]
          /\ PceSum(U(n)) = PceSum(U(n - 1)) + Pce[t[n]]
          /\ PceSum(U(n - 1)) \in Nat /\ Pce[t[n]] \in Nat /\ PceSum(s) \in Nat
      BY <2>6, <2>7, PceSumAppend
    <2> QED BY <2>2, <2>5, <2>8
  <1>2. Len(t) \in 0..Len(t) /\ U(Len(t)) = t
    OBVIOUS
  <1> QED BY <1>1, <1>2

\* PceSum of a buffer is that of its first vehicle and of the others.
LEMMA PceSumHead ==
  ASSUME NEW s \in Seq(Vehicles), s # <<>>
  PROVE  /\ Head(s) \in Vehicles /\ Tail(s) \in Seq(Vehicles)
         /\ PceSum(s) = Pce[Head(s)] + PceSum(Tail(s))
PROOF
  <1> DEFINE h == Head(s)
             t == Tail(s)
             one == <<h>>
  <1>1. /\ h \in Vehicles /\ t \in Seq(Vehicles) /\ one \in Seq(Vehicles)
        /\ s = one \o t /\ one = Append(<<>>, h) /\ <<>> \in Seq(Vehicles)
    OBVIOUS
  <1> HIDE DEF h, t, one
  <1>2. PceSum(one) = PceSum(<<>>) + Pce[h] /\ Pce[h] \in Nat
    BY <1>1, PceSumAppend
  <1>3. PceSum(one \o t) = PceSum(one) + PceSum(t)
    BY <1>1, PceSumCat
  <1>4. PceSum(s) = Pce[h] + PceSum(t)
    BY <1>1, <1>2, <1>3, PceSumEmpty
  <1> QED BY <1>1, <1>4 DEF h, t

-----------------------------------------------------------------------------
(* How far a loop over a queue gets.                                        *)

LEMMA TakenFacts ==
  ASSUME NEW n \in Nat, NEW goes, goes \subseteq 1..n
  PROVE  /\ Taken(goes) \in 0..n
         /\ 1..Taken(goes) \subseteq goes
         /\ Taken(goes) + 1 \notin goes
PROOF
  <1> DEFINE T == {m \in Nat : m + 1 \notin goes}
  <1>1. PICK m \in T : \A k \in T : m <= k
    <2>1. T \subseteq Nat /\ n \in T
      OBVIOUS
    <2> HIDE DEF T
    <2> QED BY <2>1, LeastNumber
  <1>2. m \in Nat /\ m + 1 \notin goes
    BY <1>1
  <1>3. 1..m \subseteq goes
    <2> SUFFICES ASSUME NEW i \in 1..m, i \notin goes PROVE FALSE
      OBVIOUS
    <2>1. i - 1 \in Nat /\ (i - 1) + 1 = i /\ ~(m <= i - 1)
      BY <1>2
    <2> QED BY <1>1, <2>1
  <1>4. IsFiniteSet(1..n) /\ IsFiniteSet(goes)
    <2>1. IsFiniteSet(1..n)
      <3>1. 1 \in Int /\ n \in Int
        OBVIOUS
      <3> QED BY <3>1, FS_Interval
    <2> QED BY <2>1, FS_Subset
  <1>5. Cardinality(1..m) <= Cardinality(goes) /\ Cardinality(1..m) = m
    <2>1. Cardinality(1..m) = IF 1 > m THEN 0 ELSE m - 1 + 1
      BY <1>2, FS_Interval
    <2>2. Cardinality(1..m) <= Cardinality(goes)
      BY <1>3, <1>4, FS_Subset
    <2> QED BY <1>2, <2>1, <2>2
  <1>6. Cardinality(goes) \in Nat
    BY <1>4, FS_CardinalityType
  <1>7. m \in 0..Cardinality(goes)
    BY <1>2, <1>5, <1>6
  <1> DEFINE t == Taken(goes)
  <1>8. t \in 0..Cardinality(goes) /\ 1..t \subseteq goes /\ t + 1 \notin goes
    BY <1>2, <1>3, <1>7 DEF Taken
  <1>9. t \in Nat /\ t <= n
    <2> HIDE DEF t
    <2>1. t \in Nat
      BY <1>6, <1>8
    <2> QED BY <1>8, <2>1
  <1> QED BY <1>8, <1>9

-----------------------------------------------------------------------------
(* All vehicles of a buffer but the last one fit into the flow capacity.    *)

Fits(b, flow) == b # <<>> => PceSum(SubSeq(b, 1, Len(b) - 1)) < flow

LEMMA FitsAppend ==
  ASSUME NEW b \in Seq(Vehicles), NEW v \in Vehicles, NEW flow \in Int, PceSum(b) < flow
  PROVE  Fits(Append(b, v), flow)
PROOF
  <1> DEFINE a == Append(b, v)
  <1>1. a # <<>> /\ SubSeq(a, 1, Len(a) - 1) = b
    OBVIOUS
  <1> QED BY <1>1 DEF Fits

\* What a loop of do_sim_step puts into the buffer fits.
LEMMA FitsGrows ==
  ASSUME NEW b \in Seq(Vehicles), NEW s \in Seq(Vehicles), NEW A, NEW flow \in Int,
         Fits(b, flow), NEW m \in 0..Len(s),
         \A i \in 1..m : s[i] \in A \/ flow - PceSum(b \o GoOn(s, i - 1, A)) > 0
  PROVE  Fits(b \o GoOn(s, m, A), flow)
PROOF
  <1> DEFINE T == {n \in 0..m : ~Fits(b \o GoOn(s, n, A), flow)}
  <1>1. SUFFICES ASSUME T # {} PROVE FALSE
    OBVIOUS
  <1>2. PICK n \in T : \A k \in T : n <= k
    <2>1. T \subseteq Nat
      OBVIOUS
    <2> HIDE DEF T
    <2> QED BY <1>1, <2>1, LeastNumber
  <1>3. n \in 0..m /\ ~Fits(b \o GoOn(s, n, A), flow)
    BY <1>2
  <1>4. n # 0
    <2>1. b \o GoOn(s, 0, A) = b
      BY GoOnRec
    <2> QED BY <1>3, <2>1
  <1>5. n \in 1..m /\ n \in 1..Len(s) /\ n - 1 \in 0..m /\ n - 1 \in 0..Len(s) /\ ~(n <= n - 1)
    BY <1>3, <1>4
  <1> DEFINE G(i) == GoOn(s, i, A)
  <1>6. Fits(b \o G(n - 1), flow)
    BY <1>2, <1>5
  <1>7. /\ G(n - 1) \in Seq(Vehicles) /\ s[n] \in Vehicles
        /\ G(n) = IF s[n] \in A THEN G(n - 1) ELSE Append(G(n - 1), s[n])
    BY SMTT(30), <1>5, GoOnRec
  <1>8. CASE s[n] \in A
    BY <1>3, <1>6, <1>7, <1>8
  <1>9. CASE s[n] \notin A
    <2>1. flow - PceSum(b \o G(n - 1)) > 0
      BY <1>5, <1>9
    <2> HIDE DEF G
    <2>2. b \o G(n - 1) \in Seq(Vehicles) /\ b \o G(n) = Append(b \o G(n - 1), s[n])
      BY SMTT(30), <1>7, <1>9, CatAppend
    <2>3. PceSum(b \o G(n - 1)) \in Nat
      BY <1>7, <2>2, PceSumAppend
    <2>4. Fits(b \o G(n), flow)
      <3>1. PceSum(b \o G(n - 1)) < flow
        BY <2>1, <2>3
      <3>2. Fits(Append(b \o G(n - 1), s[n]), flow)
        BY <1>7, <2>2, <3>1, FitsAppend
      <3> QED BY <2>2, <3>2
    <2> QED BY <1>3, <2>4 DEF G
  <1> QED BY <1>8, <1>9

\* The end node takes the first vehicle and its share of the flow capacity.
LEMMA FitsShrinks ==
  ASSUME NEW b \in Seq(Vehicles), b # <<>>, NEW flow \in Int, Fits(b, flow)
  PROVE  Fits(Tail(b), flow - Pce[Head(b)])
PROOF
  <1> SUFFICES ASSUME Tail(b) # <<>>
               PROVE  PceSum(SubSeq(Tail(b), 1, Len(Tail(b)) - 1)) < flow - Pce[Head(b)]
    BY DEF Fits
  <1> DEFINE f == SubSeq(b, 1, Len(b) - 1)
             u == SubSeq(Tail(b), 1, Len(Tail(b)) - 1)
  <1>1. /\ f \in Seq(Vehicles) /\ f # <<>> /\ Head(f) = Head(b) /\ Tail(f) = u
        /\ Head(b) \in Vehicles
    OBVIOUS
  <1>2. PceSum(f) < flow
    BY DEF Fits
  <1> HIDE DEF f, u
  <1>3. PceSum(f) = Pce[Head(b)] + PceSum(u) /\ u \in Seq(Vehicles)
    BY <1>1, PceSumHead
  <1>4. PceSum(u) \in Nat /\ Pce[Head(b)] \in Nat
    BY <1>1, <1>3, PceSumAppend
  <1> QED BY <1>2, <1>3, <1>4 DEF u

-----------------------------------------------------------------------------
(* The parts of do_sim_step.                                                *)

\* What holds of a link in every state: its vehicles fit.
SoundLink(k, l) == k \in LinkStates /\ k.flow <= FlowPerTick[l] /\ Fits(k.buffer, k.flow)

\* More flow capacity does no harm.
LEMMA FitsMore ==
  ASSUME NEW b \in Seq(Vehicles), NEW f \in Int, NEW g \in Int, f <= g, Fits(b, f)
  PROVE  Fits(b, g)
PROOF
  <1> SUFFICES ASSUME b # <<>> PROVE PceSum(SubSeq(b, 1, Len(b) - 1)) < g
    BY DEF Fits
  <1> DEFINE u == SubSeq(b, 1, Len(b) - 1)
  <1>1. u \in Seq(Vehicles)
    OBVIOUS
  <1>2. PceSum(u) < f
    BY DEF Fits
  <1> HIDE DEF u
  <1>3. PceSum(u) \in Nat
    BY <1>1, SumExists, PceSumIs
  <1>4. PceSum(u) < g
    BY <1>2, <1>3
  <1> QED BY <1>4 DEF u

LEMMA UpdateKeeps ==
  ASSUME NEW l \in Links, NEW k, SoundLink(k, l), NEW t \in Nat
  PROVE  LET u == UpdateFlowCap(k, l, t) IN
           /\ SoundLink(u, l)
           /\ u.q = k.q /\ u.buffer = k.buffer /\ u.waiting = k.waiting
           /\ u.used = k.used /\ u.timer = k.timer
PROOF
  <1> DEFINE F == FlowPerTick[l]
             acc == (t - k.updated) * F + k.flow
             g == IF acc < F THEN acc ELSE F
             u == UpdateFlowCap(k, l, t)
  <1>1. F \in Nat \ {0} /\ k \in LinkStates /\ k.flow \in Int /\ k.updated \in Nat /\ k.flow <= F
    BY LinkAssumption DEF SoundLink, LinkStates
  <1>2. CASE k.updated < t
    <2>1. u = [k EXCEPT !.flow = g, !.updated = t]
      BY <1>2 DEF UpdateFlowCap
    <2>2. (t - k.updated) * F \in Nat
      <3> DEFINE d == t - k.updated
      <3>1. d \in Nat
        BY <1>1, <1>2
      <3> HIDE DEF d, F
      <3>2. d * F \in Nat
        BY <1>1, <3>1
      <3> QED BY <3>2 DEF d
    <2>3. g \in Int /\ k.flow <= g /\ g <= F
      <3> DEFINE e == (t - k.updated) * F
      <3> HIDE DEF e, F
      <3>1. e \in Nat
        BY <2>2 DEF e, F
      <3>2. acc = e + k.flow
        BY DEF e
      <3> QED BY <1>1, <3>1, <3>2
    <2> HIDE DEF g, F
    <2>4. /\ u \in LinkStates /\ u.flow = g
          /\ u.q = k.q /\ u.buffer = k.buffer /\ u.waiting = k.waiting
          /\ u.used = k.used /\ u.timer = k.timer
      BY <1>1, <2>1, <2>3 DEF LinkStates
    <2>5. Fits(u.buffer, u.flow)
      <3>1. k.buffer \in Seq(Vehicles) /\ Fits(k.buffer, k.flow)
        BY DEF SoundLink, LinkStates
      <3> QED BY <1>1, <2>3, <2>4, <3>1, FitsMore
    <2> QED BY <2>3, <2>4, <2>5 DEF SoundLink, F
  <1>3. CASE ~(k.updated < t)
    BY <1>3 DEF UpdateFlowCap
  <1> QED BY <1>2, <1>3

\* w is link k after the first m vehicles of its waiting list have left it.
WaitingMoved(k, w, ended, m, A) ==
  /\ m \in 0..Len(k.waiting)
  /\ w.buffer = k.buffer \o GoOn(k.waiting, m, A)
  /\ w.waiting = SubSeq(k.waiting, m + 1, Len(k.waiting))
  /\ ended = Arrived(k.waiting, m, A)
  /\ w.q = k.q /\ w.used = k.used

LEMMA WaitingKeeps ==
  ASSUME NEW l \in Links, NEW k, SoundLink(k, l), NEW A
  PROVE  LET w == AddWaitingToBuffer(k, A).link IN
           /\ SoundLink(w, l) /\ w.timer = k.timer /\ w.flow = k.flow
           /\ \E m : WaitingMoved(k, w, AddWaitingToBuffer(k, A).ended, m, A)
PROOF
  <1> DEFINE s == k.waiting
             goes == {i \in 1..Len(k.waiting) :
                        \/ k.waiting[i] \in A
                        \/ HasFlowCapacityLeft(k, GoOn(k.waiting, i - 1, A))}
             m == Taken(goes)
             b == k.buffer \o GoOn(k.waiting, m, A)
             rest == SubSeq(k.waiting, m + 1, Len(k.waiting))
             w == AddWaitingToBuffer(k, A).link
  <1>1. k \in LinkStates /\ k.waiting \in Seq(Vehicles) /\ k.buffer \in Seq(Vehicles) /\ k.flow \in Int
    BY DEF SoundLink, LinkStates
  <1>2. /\ w = [k EXCEPT !.buffer = b, !.waiting = rest]
        /\ AddWaitingToBuffer(k, A).ended = Arrived(k.waiting, m, A)
    BY DEF AddWaitingToBuffer
  <1>3. m \in 0..Len(k.waiting) /\ 1..m \subseteq goes
    <2>1. goes \subseteq 1..Len(k.waiting) /\ Len(k.waiting) \in Nat
      BY <1>1
    <2> HIDE DEF goes
    <2> QED BY <2>1, TakenFacts
  <1>4. \A i \in 1..m : \/ k.waiting[i] \in A
                        \/ k.flow - PceSum(k.buffer \o GoOn(k.waiting, i - 1, A)) > 0
    <2> HIDE DEF m
    <2> QED BY <1>3 DEF HasFlowCapacityLeft
  <1> HIDE DEF m, goes
  <1>5. Fits(b, k.flow)
    <2>1. Fits(k.buffer, k.flow)
      BY DEF SoundLink
    <2> QED BY <1>1, <1>3, <1>4, <2>1, FitsGrows
  <1>6. GoOn(k.waiting, m, A) \in Seq(Vehicles)
    BY <1>1, <1>3, GoOnRec
  <1>7. b \in Seq(Vehicles) /\ rest \in Seq(Vehicles)
    BY <1>1, <1>3, <1>6
  <1> HIDE DEF b, rest, w
  <1>8. /\ w \in LinkStates /\ w.buffer = b /\ w.waiting = rest /\ w.q = k.q /\ w.used = k.used
        /\ w.timer = k.timer /\ w.flow = k.flow
    BY <1>1, <1>2, <1>7 DEF LinkStates
  <1>9. SoundLink(w, l)
    BY <1>5, <1>8 DEF SoundLink
  <1>10. WaitingMoved(k, w, AddWaitingToBuffer(k, A).ended, m, A)
    BY <1>2, <1>3, <1>8 DEF WaitingMoved, b, rest
  <1> QED BY <1>8, <1>9, <1>10 DEF w

LEMMA VehsIs ==
  ASSUME NEW q \in Seq(QueueEntries)
  PROVE  /\ Vehs(q) \in Seq(Vehicles) /\ Len(Vehs(q)) = Len(q) /\ Len(q) \in Nat
         /\ \A i \in 1..Len(q) : Vehs(q)[i] = q[i].veh
PROOF
  <1>1. Len(q) \in Nat /\ \A i \in 1..Len(q) : q[i] \in QueueEntries
    OBVIOUS
  <1>2. \A i \in 1..Len(q) : q[i].veh \in Vehicles
    BY <1>1 DEF QueueEntries
  <1> QED BY <1>1, <1>2 DEF Vehs

\* w is link k after the first m vehicles of its queue have left it.
QueueMoved(k, w, ended, m, A) ==
  /\ m \in 0..Len(k.q)
  /\ w.buffer = k.buffer \o GoOn(Vehs(k.q), m, A)
  /\ w.q = SubSeq(k.q, m + 1, Len(k.q))
  /\ w.used = k.used - PceSum(SubSeq(Vehs(k.q), 1, m))
  /\ ended = Arrived(Vehs(k.q), m, A)
  /\ w.waiting = k.waiting

LEMMA QueueKeeps ==
  ASSUME NEW l \in Links, NEW k, SoundLink(k, l), NEW A, NEW t \in Nat
  PROVE  LET w == AddQueueToBuffer(k, A, t).link IN
           /\ SoundLink(w, l) /\ w.timer = k.timer /\ w.flow = k.flow
           /\ \E m : QueueMoved(k, w, AddQueueToBuffer(k, A, t).ended, m, A)
PROOF
  <1> DEFINE s == Vehs(k.q)
             goes == {i \in 1..Len(k.q) :
                        /\ Exits(k.q[i], t)
                        /\ \/ s[i] \in A
                           \/ HasFlowCapacityLeft(k, GoOn(s, i - 1, A))}
             m == Taken(goes)
             b == k.buffer \o GoOn(s, m, A)
             rest == SubSeq(k.q, m + 1, Len(k.q))
             used == k.used - PceSum(SubSeq(s, 1, m))
             w == AddQueueToBuffer(k, A, t).link
  <1>1. /\ k \in LinkStates /\ k.q \in Seq(QueueEntries)
        /\ k.buffer \in Seq(Vehicles) /\ k.flow \in Int /\ k.used \in Int
    BY DEF SoundLink, LinkStates
  <1>2. s \in Seq(Vehicles) /\ Len(s) = Len(k.q) /\ Len(k.q) \in Nat
    BY <1>1, VehsIs
  <1>3. /\ w = [k EXCEPT !.buffer = b, !.used = used, !.q = rest]
        /\ AddQueueToBuffer(k, A, t).ended = Arrived(s, m, A)
    BY DEF AddQueueToBuffer
  <1> HIDE DEF s
  <1>4. m \in 0..Len(k.q) /\ 1..m \subseteq goes
    <2>1. goes \subseteq 1..Len(k.q)
      OBVIOUS
    <2> HIDE DEF goes
    <2> QED BY <1>2, <2>1, TakenFacts
  <1>5. \A i \in 1..m : s[i] \in A \/ k.flow - PceSum(k.buffer \o GoOn(s, i - 1, A)) > 0
    <2> HIDE DEF m
    <2> QED BY <1>4 DEF HasFlowCapacityLeft
  <1> HIDE DEF m, goes
  <1>6. Fits(b, k.flow)
    <2>1. Fits(k.buffer, k.flow)
      BY DEF SoundLink
    <2> QED BY <1>1, <1>2, <1>4, <1>5, <2>1, FitsGrows
  <1>7. GoOn(s, m, A) \in Seq(Vehicles)
    BY <1>2, <1>4, GoOnRec
  <1>8. b \in Seq(Vehicles) /\ rest \in Seq(QueueEntries)
    <2>1. rest \in Seq(QueueEntries)
      BY <1>1, <1>4, SuffixIs
    <2> QED BY <1>1, <1>7, <2>1
  <1>9. used \in Int
    <2>1. SubSeq(s, 1, m) \in Seq(Vehicles)
      BY <1>2, <1>4
    <2>2. PceSum(SubSeq(s, 1, m)) \in Nat
      BY <2>1, SumExists, PceSumIs
    <2> QED BY <1>1, <2>2
  <1> HIDE DEF b, rest, w, used
  <1>10. /\ w \in LinkStates /\ w.buffer = b /\ w.waiting = k.waiting /\ w.q = rest
         /\ w.used = used /\ w.timer = k.timer /\ w.flow = k.flow
    BY <1>1, <1>3, <1>8, <1>9 DEF LinkStates
  <1>11. SoundLink(w, l)
    BY <1>6, <1>10 DEF SoundLink
  <1>12. QueueMoved(k, w, AddQueueToBuffer(k, A, t).ended, m, A)
    BY <1>3, <1>4, <1>10 DEF QueueMoved, b, rest, used, s
  <1> QED BY <1>10, <1>11, <1>12 DEF w

-----------------------------------------------------------------------------
(* The operations of a link keep it sound.                                  *)

LEMMA SimStepKeeps ==
  ASSUME NEW l \in Links, NEW k, SoundLink(k, l), NEW A, NEW t \in Nat
  PROVE  LET d == DoSimStep(k, l, A, t).link IN
           /\ SoundLink(d, l) /\ d.timer = k.timer
           /\ k.buffer # <<>> => d.buffer # <<>>
PROOF
  <1> DEFINE u == UpdateFlowCap(k, l, t)
             w == AddWaitingToBuffer(u, A).link
             d == AddQueueToBuffer(w, A, t).link
  <1>1. DoSimStep(k, l, A, t).link = d
    BY DEF DoSimStep
  <1>2. SoundLink(u, l) /\ u.buffer = k.buffer /\ u.timer = k.timer
    BY UpdateKeeps
  <1> HIDE DEF u
  <1>3. /\ SoundLink(w, l) /\ w.timer = u.timer
        /\ \E m : WaitingMoved(u, w, AddWaitingToBuffer(u, A).ended, m, A)
    BY <1>2, WaitingKeeps
  <1> HIDE DEF w
  <1>4. /\ SoundLink(d, l) /\ d.timer = w.timer
        /\ \E m : QueueMoved(w, d, AddQueueToBuffer(w, A, t).ended, m, A)
    BY <1>3, QueueKeeps
  <1> HIDE DEF d
  <1>5. ASSUME NEW b \in Seq(Vehicles), NEW c \in Seq(Vehicles), b # <<>> PROVE b \o c # <<>>
    BY <1>5
  <1>6. u.buffer # <<>> => w.buffer # <<>>
    <2>1. u.buffer \in Seq(Vehicles) /\ u.waiting \in Seq(Vehicles)
      BY <1>2 DEF SoundLink, LinkStates
    <2> QED BY <1>3, <1>5, <2>1, GoOnRec DEF WaitingMoved
  <1>7. w.buffer # <<>> => d.buffer # <<>>
    <2>1. w.buffer \in Seq(Vehicles) /\ w.q \in Seq(QueueEntries)
      BY <1>3 DEF SoundLink, LinkStates
    <2>2. Vehs(w.q) \in Seq(Vehicles) /\ Len(Vehs(w.q)) = Len(w.q)
      BY <2>1, VehsIs
    <2> QED BY <1>4, <1>5, <2>1, <2>2, GoOnRec DEF QueueMoved
  <1> QED BY <1>1, <1>2, <1>3, <1>4, <1>6, <1>7

\* A vehicle in the buffer is offered: the flow capacity is never used up before it.
LEMMA SoundOffers ==
  ASSUME NEW l \in Links, NEW k, SoundLink(k, l)
  PROVE  OffersVeh(k) <=> k.buffer # <<>>
PROOF
  <1> SUFFICES ASSUME k.buffer # <<>> PROVE k.flow > 0
    BY DEF OffersVeh
  <1> DEFINE u == SubSeq(k.buffer, 1, Len(k.buffer) - 1)
  <1>1. k.buffer \in Seq(Vehicles) /\ k.flow \in Int
    BY DEF SoundLink, LinkStates
  <1>2. u \in Seq(Vehicles)
    BY <1>1
  <1>3. PceSum(u) < k.flow
    BY DEF SoundLink, Fits
  <1> HIDE DEF u
  <1>4. PceSum(u) \in Nat
    BY <1>2, SumExists, PceSumIs
  <1> QED BY <1>1, <1>3, <1>4

LEMMA AskedKeeps ==
  ASSUME NEW l \in Links, NEW k, SoundLink(k, l), NEW t \in Nat
  PROVE  LET a == Asked(k, t) IN
           /\ SoundLink(a, l)
           /\ a.q = k.q /\ a.buffer = k.buffer /\ a.waiting = k.waiting /\ a.used = k.used
           /\ a.flow = k.flow
           /\ a.timer = IF k.buffer # <<>> /\ k.timer = Stopped THEN t ELSE k.timer
PROOF
  <1> DEFINE a == Asked(k, t)
  <1>1. k \in LinkStates /\ (OffersVeh(k) <=> k.buffer # <<>>)
    BY SoundOffers DEF SoundLink
  <1>2. a = IF k.buffer # <<>> /\ k.timer = Stopped THEN [k EXCEPT !.timer = t] ELSE k
    BY <1>1 DEF Asked, StartTimer
  <1> HIDE DEF a
  <1>3. /\ a \in LinkStates
        /\ a.q = k.q /\ a.buffer = k.buffer /\ a.waiting = k.waiting /\ a.used = k.used
        /\ a.flow = k.flow
        /\ a.timer = IF k.buffer # <<>> /\ k.timer = Stopped THEN t ELSE k.timer
    BY <1>1, <1>2 DEF LinkStates
  <1>4. SoundLink(a, l)
    BY <1>3 DEF SoundLink
  <1> QED BY <1>3, <1>4 DEF a

LEMMA PopKeeps ==
  ASSUME NEW l \in Links, NEW k, SoundLink(k, l), k.buffer # <<>>
  PROVE  LET p == PopVeh(k) IN
           /\ SoundLink(p, l)
           /\ p.q = k.q /\ p.buffer = Tail(k.buffer) /\ p.waiting = k.waiting /\ p.used = k.used
           /\ p.timer = Stopped
PROOF
  <1> DEFINE p == PopVeh(k)
             f == k.flow - Pce[Head(k.buffer)]
  <1>1. k \in LinkStates /\ k.buffer \in Seq(Vehicles) /\ k.flow \in Int
    BY DEF SoundLink, LinkStates
  <1>2. Head(k.buffer) \in Vehicles /\ Tail(k.buffer) \in Seq(Vehicles)
    BY <1>1
  <1>3. Pce[Head(k.buffer)] \in Nat
    BY <1>2, LinkAssumption
  <1>4. f \in Int /\ f <= FlowPerTick[l]
    BY <1>1, <1>3, LinkAssumption DEF SoundLink
  <1>5. Fits(Tail(k.buffer), f)
    BY <1>1, FitsShrinks DEF SoundLink
  <1>6. p = [k EXCEPT !.buffer = Tail(k.buffer), !.flow = f, !.timer = Stopped]
    BY DEF PopVeh
  <1> HIDE DEF p, f
  <1>7. /\ p \in LinkStates /\ p.flow = f
        /\ p.q = k.q /\ p.buffer = Tail(k.buffer) /\ p.waiting = k.waiting /\ p.used = k.used
        /\ p.timer = Stopped
    BY <1>1, <1>2, <1>4, <1>6 DEF LinkStates
  <1>8. SoundLink(p, l)
    BY <1>4, <1>5, <1>7 DEF SoundLink
  <1> QED BY <1>7, <1>8 DEF p

\* Free speed travel times are whole ticks.
LEMMA DurationIs == \A l \in Links, v \in Vehicles : Duration[l][v] \in Nat
  BY LinkAssumption

\* Entering the queue or the waiting list leaves buffer, flow and timer alone.
LEMMA PushQueueKeeps ==
  ASSUME NEW l \in Links, NEW k, SoundLink(k, l), NEW v \in Vehicles, NEW t \in Nat
  PROVE  LET e == PushVehToQueue(k, l, v, t) IN
           /\ SoundLink(e, l)
           /\ e.q = Append(k.q, [veh |-> v, exit |-> t + Duration[l][v]])
           /\ e.buffer = k.buffer /\ e.waiting = k.waiting /\ e.used = k.used + Pce[v]
           /\ e.flow = k.flow /\ e.timer = k.timer
PROOF
  <1> DEFINE entry == [veh |-> v, exit |-> t + Duration[l][v]]
             q == Append(k.q, entry)
             used == k.used + Pce[v]
             e == PushVehToQueue(k, l, v, t)
  <1>1. /\ k \in LinkStates /\ k.q \in Seq(QueueEntries) /\ k.used \in Int
        /\ Duration[l][v] \in Nat /\ Pce[v] \in Nat
    BY LinkAssumption DEF SoundLink, LinkStates
  <1>2. entry \in QueueEntries
    BY <1>1 DEF QueueEntries
  <1>3. used \in Int
    BY <1>1
  <1>4. e = [k EXCEPT !.q = q, !.used = used]
    BY DEF PushVehToQueue
  <1> HIDE DEF used, e, entry
  <1>5. q \in Seq(QueueEntries)
    BY <1>1, <1>2
  <1> HIDE DEF q
  <1>6. /\ e \in LinkStates
        /\ e.q = q /\ e.buffer = k.buffer /\ e.waiting = k.waiting /\ e.used = used
        /\ e.flow = k.flow /\ e.timer = k.timer
    BY <1>1, <1>3, <1>4, <1>5 DEF LinkStates
  <1>7. SoundLink(e, l)
    BY <1>6 DEF SoundLink
  <1> QED BY <1>6, <1>7 DEF e, q, used, entry

LEMMA PushQueueSame ==
  ASSUME NEW l \in Links, NEW k, SoundLink(k, l), NEW v \in Vehicles, NEW t \in Nat
  PROVE  LET e == PushVehToQueue(k, l, v, t) IN
           SoundLink(e, l) /\ e.buffer = k.buffer /\ e.timer = k.timer
  BY PushQueueKeeps

LEMMA PushWaitingKeeps ==
  ASSUME NEW l \in Links, NEW k, SoundLink(k, l), NEW v \in Vehicles
  PROVE  LET e == PushVehToWaitingList(k, v) IN
           /\ SoundLink(e, l)
           /\ e.q = k.q /\ e.buffer = k.buffer /\ e.waiting = Append(k.waiting, v)
           /\ e.used = k.used /\ e.flow = k.flow /\ e.timer = k.timer
PROOF
  <1> DEFINE waiting == Append(k.waiting, v)
             e == PushVehToWaitingList(k, v)
  <1>1. k \in LinkStates /\ waiting \in Seq(Vehicles)
    BY DEF SoundLink, LinkStates
  <1>2. e = [k EXCEPT !.waiting = waiting]
    BY DEF PushVehToWaitingList
  <1> HIDE DEF waiting, e
  <1>3. /\ e \in LinkStates
        /\ e.q = k.q /\ e.buffer = k.buffer /\ e.waiting = waiting /\ e.used = k.used
        /\ e.flow = k.flow /\ e.timer = k.timer
    BY <1>1, <1>2 DEF LinkStates
  <1>4. SoundLink(e, l)
    BY <1>3 DEF SoundLink
  <1> QED BY <1>3, <1>4 DEF e, waiting

-----------------------------------------------------------------------------
(* Which vehicles the operations of a link move.                            *)

LEMMA RangeEmpty == SeqRange(<<>>) = {} /\ Once(<<>>)
  BY DEF SeqRange, Once

LEMMA RangeAppend ==
  ASSUME NEW S, NEW s \in Seq(S), NEW x \in S
  PROVE  /\ SeqRange(Append(s, x)) = SeqRange(s) \cup {x}
         /\ Once(s) /\ x \notin SeqRange(s) => Once(Append(s, x))
PROOF
  <1> DEFINE a == Append(s, x)
  <1>1. /\ Len(s) \in Nat /\ Len(a) = Len(s) + 1
        /\ \A i \in 1..Len(s) : a[i] = s[i]
        /\ a[Len(s) + 1] = x
    OBVIOUS
  <1> HIDE DEF a
  <1>2. \A i : i \in 1..Len(a) <=> i \in 1..Len(s) \/ i = Len(s) + 1
    BY <1>1
  <1>3. SeqRange(a) = SeqRange(s) \cup {x}
    BY <1>1, <1>2 DEF SeqRange
  <1>4. Once(s) /\ x \notin SeqRange(s) => Once(a)
    BY <1>1, <1>2 DEF SeqRange, Once
  <1> QED BY <1>3, <1>4 DEF a

LEMMA RangeTail ==
  ASSUME NEW S, NEW s \in Seq(S), s # <<>>
  PROVE  /\ SeqRange(s) = {Head(s)} \cup SeqRange(Tail(s))
         /\ Once(s) => Head(s) \notin SeqRange(Tail(s)) /\ Once(Tail(s))
PROOF
  <1> DEFINE t == Tail(s)
  <1>1. /\ Len(s) \in Nat \ {0} /\ Len(t) = Len(s) - 1 /\ Head(s) = s[1]
        /\ \A i \in 1..Len(t) : t[i] = s[i + 1]
    OBVIOUS
  <1> HIDE DEF t
  <1>2. /\ \A i \in 1..Len(t) : i + 1 \in 1..Len(s) /\ i + 1 # 1
        /\ \A i \in 1..Len(s) : i = 1 \/ (i - 1 \in 1..Len(t) /\ s[i] = t[i - 1])
    BY <1>1
  <1>3. SeqRange(s) = {s[1]} \cup SeqRange(t)
    <2>1. 1 \in 1..Len(s)
      BY <1>1
    <2>2. SeqRange(t) \subseteq SeqRange(s)
      BY <1>1, <1>2 DEF SeqRange
    <2>3. SeqRange(s) \subseteq {s[1]} \cup SeqRange(t)
      BY <1>1, <1>2 DEF SeqRange
    <2>4. s[1] \in SeqRange(s)
      BY <2>1 DEF SeqRange
    <2> QED BY <2>2, <2>3, <2>4
  <1>4. Once(s) => s[1] \notin SeqRange(t)
    <2> SUFFICES ASSUME Once(s), NEW i \in 1..Len(t), t[i] = s[1] PROVE FALSE
      BY DEF SeqRange
    <2>1. 1 \in 1..Len(s) /\ i + 1 \in 1..Len(s) /\ i + 1 # 1 /\ s[i + 1] = s[1]
      BY <1>1, <1>2
    <2> QED BY <2>1 DEF Once
  <1>5. Once(s) => Once(t)
    <2> SUFFICES ASSUME Once(s), NEW i \in 1..Len(t), NEW j \in 1..Len(t), t[i] = t[j] PROVE i = j
      BY DEF Once
    <2>1. i + 1 \in 1..Len(s) /\ j + 1 \in 1..Len(s) /\ s[i + 1] = s[j + 1]
      BY <1>1, <1>2
    <2>2. i + 1 = j + 1
      BY <2>1 DEF Once
    <2> QED BY <2>2
  <1> QED BY <1>1, <1>3, <1>4, <1>5 DEF t

LEMMA RangeCat ==
  ASSUME NEW S, NEW s \in Seq(S), NEW t \in Seq(S)
  PROVE  /\ SeqRange(s \o t) = SeqRange(s) \cup SeqRange(t)
         /\ Once(s) /\ Once(t) /\ SeqRange(s) \cap SeqRange(t) = {} => Once(s \o t)
PROOF
  <1> DEFINE c == s \o t
  <1>1. /\ Len(s) \in Nat /\ Len(t) \in Nat /\ Len(c) = Len(s) + Len(t)
        /\ \A i \in 1..Len(c) : c[i] = IF i <= Len(s) THEN s[i] ELSE t[i - Len(s)]
    OBVIOUS
  <1> HIDE DEF c
  <1>2. /\ \A i \in 1..Len(s) : i \in 1..Len(c) /\ c[i] = s[i]
        /\ \A i \in 1..Len(t) : Len(s) + i \in 1..Len(c) /\ c[Len(s) + i] = t[i]
        /\ \A i \in 1..Len(c) : \/ i \in 1..Len(s) /\ c[i] = s[i]
                                \/ i > Len(s) /\ i - Len(s) \in 1..Len(t) /\ c[i] = t[i - Len(s)]
    BY <1>1
  <1>3. SeqRange(c) = SeqRange(s) \cup SeqRange(t)
    <2>1. SeqRange(s) \subseteq SeqRange(c)
      BY <1>2 DEF SeqRange
    <2>2. SeqRange(t) \subseteq SeqRange(c)
      BY <1>2 DEF SeqRange
    <2>3. SeqRange(c) \subseteq SeqRange(s) \cup SeqRange(t)
      BY <1>2 DEF SeqRange
    <2> QED BY <2>1, <2>2, <2>3
  <1>4. ASSUME Once(s), Once(t), SeqRange(s) \cap SeqRange(t) = {} PROVE Once(c)
    <2> SUFFICES ASSUME NEW i \in 1..Len(c), NEW j \in 1..Len(c), c[i] = c[j] PROVE i = j
      BY DEF Once
    <2>1. \A a \in 1..Len(s), b \in 1..Len(t) : s[a] # t[b]
      BY <1>4 DEF SeqRange
    <2>2. CASE i \in 1..Len(s) /\ c[i] = s[i]
      <3>1. j \in 1..Len(s) /\ c[j] = s[j]
        BY <1>2, <2>1, <2>2
      <3> QED BY <1>4, <2>2, <3>1 DEF Once
    <2>3. CASE i > Len(s) /\ i - Len(s) \in 1..Len(t) /\ c[i] = t[i - Len(s)]
      <3>1. j > Len(s) /\ j - Len(s) \in 1..Len(t) /\ c[j] = t[j - Len(s)]
        BY <1>2, <2>1, <2>3
      <3>2. i - Len(s) = j - Len(s)
        BY <1>4, <2>3, <3>1 DEF Once
      <3> QED BY <1>1, <3>2
    <2> QED BY <1>2, <2>2, <2>3
  <1> QED BY <1>3, <1>4 DEF c

LEMMA RangeSuffix ==
  ASSUME NEW S, NEW s \in Seq(S), NEW m \in 0..Len(s)
  PROVE  LET u == SubSeq(s, m + 1, Len(s))
             p == {s[i] : i \in 1..m}
         IN  /\ SeqRange(s) = p \cup SeqRange(u)
             /\ Once(s) => p \cap SeqRange(u) = {} /\ Once(u)
PROOF
  <1> DEFINE u == SubSeq(s, m + 1, Len(s))
             p == {s[i] : i \in 1..m}
  <1>1. /\ Len(s) \in Nat /\ Len(u) = Len(s) - m /\ m \in Nat
        /\ \A i \in 1..(Len(s) - m) : u[i] = s[m + i]
    BY SuffixIs
  <1> HIDE DEF u
  <1>2. /\ \A i \in 1..Len(u) : m + i \in 1..Len(s) /\ u[i] = s[m + i] /\ m + i \notin 1..m
        /\ \A i \in 1..m : i \in 1..Len(s)
        /\ \A i \in 1..Len(s) : i \in 1..m \/ (i - m \in 1..Len(u) /\ u[i - m] = s[i])
    BY <1>1
  <1>3. SeqRange(s) = p \cup SeqRange(u)
    <2>1. p \subseteq SeqRange(s)
      BY <1>2 DEF SeqRange
    <2>2. SeqRange(u) \subseteq SeqRange(s)
      <3>1. \A i \in 1..Len(u) : u[i] \in SeqRange(s)
        BY <1>2 DEF SeqRange
      <3> QED BY <3>1 DEF SeqRange
    <2>3. SeqRange(s) \subseteq p \cup SeqRange(u)
      BY <1>2 DEF SeqRange
    <2> QED BY <2>1, <2>2, <2>3
  <1>4. Once(s) => p \cap SeqRange(u) = {}
    <2> SUFFICES ASSUME Once(s), NEW i \in 1..m, NEW j \in 1..Len(u), s[i] = u[j] PROVE FALSE
      BY DEF SeqRange
    <2>1. i \in 1..Len(s) /\ m + j \in 1..Len(s) /\ s[i] = s[m + j] /\ i # m + j
      BY <1>2
    <2> QED BY <2>1 DEF Once
  <1>5. Once(s) => Once(u)
    <2> SUFFICES ASSUME Once(s), NEW i \in 1..Len(u), NEW j \in 1..Len(u), u[i] = u[j] PROVE i = j
      BY DEF Once
    <2>1. m + i \in 1..Len(s) /\ m + j \in 1..Len(s) /\ s[m + i] = s[m + j]
      BY <1>2
    <2>2. m + i = m + j
      BY <2>1 DEF Once
    <2> QED BY <1>1, <2>2
  <1> QED BY <1>3, <1>4, <1>5 DEF u

\* GoOn keeps the vehicles that do not arrive.
LEMMA RangeGoOn ==
  ASSUME NEW s \in Seq(Vehicles), NEW A, NEW m \in 0..Len(s)
  PROVE  /\ SeqRange(GoOn(s, m, A)) = {s[i] : i \in 1..m} \ A
         /\ Once(s) => Once(GoOn(s, m, A))
PROOF
  <1> DEFINE P(n) == {s[i] : i \in 1..n}
             G(n) == /\ SeqRange(GoOn(s, n, A)) = P(n) \ A
                     /\ Once(s) => Once(GoOn(s, n, A))
             T == {n \in 0..Len(s) : ~G(n)}
  <1>1. Len(s) \in Nat
    OBVIOUS
  <1>2. G(0)
    <2>1. GoOn(s, 0, A) = <<>> /\ P(0) = {}
      BY GoOnRec
    <2> QED BY <2>1, RangeEmpty
  <1>3. ASSUME NEW n \in 1..Len(s), G(n - 1) PROVE G(n)
    <2> DEFINE o == GoOn(s, n - 1, A)
    <2>1. /\ o \in Seq(Vehicles)
          /\ GoOn(s, n, A) = IF s[n] \in A THEN o ELSE Append(o, s[n])
      <3>1. n - 1 \in 0..Len(s)
        BY <1>1
      <3> QED BY <3>1, GoOnRec
    <2>2. s[n] \in Vehicles
      BY <1>1
    <2>3. P(n) = P(n - 1) \cup {s[n]}
      <3>1. \A i : i \in 1..n <=> i \in 1..(n - 1) \/ i = n
        BY <1>1
      <3> QED BY <3>1
    <2>4. SeqRange(o) = P(n - 1) \ A /\ (Once(s) => Once(o))
      BY <1>3
    <2>5. Once(s) => s[n] \notin P(n - 1)
      <3> SUFFICES ASSUME Once(s), NEW i \in 1..(n - 1), s[i] = s[n] PROVE FALSE
        OBVIOUS
      <3>1. i \in 1..Len(s) /\ i # n
        BY <1>1
      <3> QED BY <3>1 DEF Once
    <2> HIDE DEF o, P
    <2>6. CASE s[n] \in A
      BY <2>1, <2>3, <2>4, <2>6
    <2>7. CASE s[n] \notin A
      <3>1. /\ SeqRange(Append(o, s[n])) = SeqRange(o) \cup {s[n]}
            /\ Once(o) /\ s[n] \notin SeqRange(o) => Once(Append(o, s[n]))
        BY <2>1, <2>2, RangeAppend
      <3> QED BY <2>1, <2>3, <2>4, <2>5, <2>7, <3>1
    <2> QED BY <2>6, <2>7
  <1>4. T = {}
    <2> SUFFICES ASSUME T # {} PROVE FALSE
      OBVIOUS
    <2> HIDE DEF G
    <2>1. T \subseteq Nat
      BY <1>1
    <2>2. PICK n \in T : \A k \in T : n <= k
      <3> HIDE DEF T
      <3> QED BY <2>1, LeastNumber
    <2>3. n \in 1..Len(s)
      BY <1>1, <1>2, <2>2
    <2>4. n - 1 \notin T /\ n - 1 \in 0..Len(s)
      BY <1>1, <2>2, <2>3
    <2>5. G(n - 1)
      BY <2>4
    <2> QED BY <1>3, <2>2, <2>3, <2>5
  <1>5. G(m)
    BY <1>4
  <1> QED BY <1>5

\* A loop of do_sim_step: the first m vehicles of list s leave it, those in A for good,
\* the others for the buffer b.
LEMMA LoopMoves ==
  ASSUME NEW b \in Seq(Vehicles), NEW s \in Seq(Vehicles), NEW A, NEW m \in 0..Len(s),
         Once(b), Once(s), SeqRange(b) \cap SeqRange(s) = {}
  PROVE  LET c == b \o GoOn(s, m, A)
             u == SubSeq(s, m + 1, Len(s))
             e == Arrived(s, m, A)
         IN  /\ Once(c) /\ Once(u) /\ SeqRange(c) \cap SeqRange(u) = {}
             /\ e \subseteq A /\ e \cap (SeqRange(c) \cup SeqRange(u)) = {}
             /\ SeqRange(c) \cup SeqRange(u) \cup e = SeqRange(b) \cup SeqRange(s)
             /\ SeqRange(c) \cap A \subseteq SeqRange(b)
             /\ SeqRange(b) \subseteq SeqRange(c) /\ SeqRange(u) \cup e \subseteq SeqRange(s)
PROOF
  <1> DEFINE g == GoOn(s, m, A)
             u == SubSeq(s, m + 1, Len(s))
             p == {s[i] : i \in 1..m}
  <1>1. g \in Seq(Vehicles) /\ SeqRange(g) = p \ A /\ Once(g)
    BY GoOnRec, RangeGoOn
  <1>2. SeqRange(s) = p \cup SeqRange(u) /\ p \cap SeqRange(u) = {} /\ Once(u)
    BY RangeSuffix
  <1>3. Arrived(s, m, A) = p \cap A
    BY DEF Arrived
  <1> HIDE DEF g, u, p
  <1>4. SeqRange(b \o g) = SeqRange(b) \cup SeqRange(g) /\ Once(b \o g)
    <2>1. SeqRange(b) \cap SeqRange(g) = {}
      BY <1>1, <1>2
    <2> QED BY <1>1, <2>1, RangeCat
  <1> QED BY <1>1, <1>2, <1>3, <1>4 DEF g, u

LEMMA VehsSuffix ==
  ASSUME NEW q \in Seq(QueueEntries), NEW m \in 0..Len(q)
  PROVE  Vehs(SubSeq(q, m + 1, Len(q))) = SubSeq(Vehs(q), m + 1, Len(q))
PROOF
  <1> DEFINE r == SubSeq(q, m + 1, Len(q))
             v == Vehs(q)
             x == SubSeq(v, m + 1, Len(q))
  <1>1. v \in Seq(Vehicles) /\ Len(v) = Len(q) /\ \A i \in 1..Len(q) : v[i] = q[i].veh
    BY VehsIs
  <1>2. Len(q) \in Nat /\ m \in Nat /\ \A i \in 1..(Len(q) - m) : m + i \in 1..Len(q)
    OBVIOUS
  <1>3. /\ r \in Seq(QueueEntries) /\ Len(r) = Len(q) - m
        /\ \A i \in 1..(Len(q) - m) : r[i] = q[m + i]
    BY SuffixIs
  <1>4. /\ x \in Seq(Vehicles) /\ Len(x) = Len(q) - m
        /\ \A i \in 1..(Len(q) - m) : x[i] = v[m + i]
    <2> HIDE DEF v
    <2> QED BY <1>1, SuffixIs
  <1> HIDE DEF r, v, x
  <1>5. /\ Vehs(r) \in Seq(Vehicles) /\ Len(Vehs(r)) = Len(q) - m
        /\ \A i \in 1..(Len(q) - m) : Vehs(r)[i] = r[i].veh
    BY <1>3, VehsIs
  <1>6. \A i \in 1..(Len(q) - m) : Vehs(r)[i] = x[i]
    BY <1>1, <1>2, <1>3, <1>4, <1>5
  <1>7. Vehs(r) = x
    BY <1>4, <1>5, <1>6
  <1> QED BY <1>7 DEF r, v, x

LEMMA VehsCat ==
  ASSUME NEW q \in Seq(QueueEntries), NEW p \in Seq(QueueEntries)
  PROVE  Vehs(q \o p) = Vehs(q) \o Vehs(p)
PROOF
  <1> DEFINE c == q \o p
             d == Vehs(q) \o Vehs(p)
  <1>1. /\ Vehs(q) \in Seq(Vehicles) /\ Len(Vehs(q)) = Len(q) /\ Len(q) \in Nat
        /\ Vehs(p) \in Seq(Vehicles) /\ Len(Vehs(p)) = Len(p) /\ Len(p) \in Nat
        /\ \A i \in 1..Len(q) : Vehs(q)[i] = q[i].veh
        /\ \A i \in 1..Len(p) : Vehs(p)[i] = p[i].veh
    BY VehsIs
  <1>2. /\ c \in Seq(QueueEntries) /\ Len(c) = Len(q) + Len(p)
        /\ \A i \in 1..Len(c) : c[i] = IF i <= Len(q) THEN q[i] ELSE p[i - Len(q)]
    OBVIOUS
  <1>3. /\ d \in Seq(Vehicles) /\ Len(d) = Len(q) + Len(p)
        /\ \A i \in 1..Len(d) : d[i] = IF i <= Len(q) THEN Vehs(q)[i] ELSE Vehs(p)[i - Len(q)]
    <2> DEFINE a == Vehs(q)
               b == Vehs(p)
    <2>1. a \in Seq(Vehicles) /\ b \in Seq(Vehicles) /\ Len(a) = Len(q) /\ Len(b) = Len(p)
      BY <1>1
    <2>2. d = a \o b
      OBVIOUS
    <2> HIDE DEF a, b, d
    <2>4. /\ a \o b \in Seq(Vehicles) /\ Len(a \o b) = Len(a) + Len(b)
          /\ \A i \in 1..Len(a \o b) : (a \o b)[i] = IF i <= Len(a) THEN a[i] ELSE b[i - Len(a)]
      BY <2>1, CatIs
    <2>3. /\ d \in Seq(Vehicles) /\ Len(d) = Len(a) + Len(b)
          /\ \A i \in 1..Len(d) : d[i] = IF i <= Len(a) THEN a[i] ELSE b[i - Len(a)]
      BY <2>2, <2>4, Zenon
    <2> QED BY <2>1, <2>3 DEF a, b
  <1> HIDE DEF c, d
  <1>4. /\ Vehs(c) \in Seq(Vehicles) /\ Len(Vehs(c)) = Len(c)
        /\ \A i \in 1..Len(c) : Vehs(c)[i] = c[i].veh
    BY <1>2, VehsIs
  <1>5. \A i \in 1..Len(c) : Vehs(c)[i] = d[i]
    <2> TAKE i \in 1..Len(c)
    <2>1. CASE i <= Len(q)
      <3>1. i \in 1..Len(q)
        BY <1>1, <1>2, <2>1
      <3> QED BY <1>1, <1>2, <1>3, <1>4, <2>1, <3>1
    <2>2. CASE ~(i <= Len(q))
      <3>1. i - Len(q) \in 1..Len(p)
        BY <1>1, <1>2, <2>2
      <3> QED BY <1>1, <1>2, <1>3, <1>4, <2>2, <3>1
    <2> QED BY <2>1, <2>2
  <1>6. Vehs(c) = d
    BY <1>1, <1>2, <1>3, <1>4, <1>5
  <1> QED BY <1>6 DEF c, d

\* Link d is link k after vehicles have moved towards its end, those in e, a part of A,
\* for good.
Moved(k, d, e, A) ==
  /\ Distinct(d)
  /\ e \subseteq A /\ e \cap OnLink(d) = {} /\ OnLink(d) \cup e = OnLink(k)
  /\ SeqRange(d.buffer) \cap A \subseteq SeqRange(k.buffer)
  /\ d.used \in Int /\ d.used <= k.used
  /\ k.used = PceSum(Vehs(k.q)) => d.used = PceSum(Vehs(d.q))

LEMMA WaitingMoves ==
  ASSUME NEW l \in Links, NEW k, SoundLink(k, l), NEW w, SoundLink(w, l), NEW e, NEW m, NEW A,
         Distinct(k), WaitingMoved(k, w, e, m, A)
  PROVE  Moved(k, w, e, A)
PROOF
  <1>1. k.buffer \in Seq(Vehicles) /\ k.waiting \in Seq(Vehicles) /\ k.used \in Int
    BY DEF SoundLink, LinkStates
  <1>2. /\ Once(k.buffer) /\ Once(k.waiting) /\ SeqRange(k.buffer) \cap SeqRange(k.waiting) = {}
        /\ m \in 0..Len(k.waiting)
    BY DEF Distinct, WaitingMoved
  <1> DEFINE c == k.buffer \o GoOn(k.waiting, m, A)
             u == SubSeq(k.waiting, m + 1, Len(k.waiting))
             x == Arrived(k.waiting, m, A)
  <1>3. /\ Once(c) /\ Once(u) /\ SeqRange(c) \cap SeqRange(u) = {}
        /\ x \subseteq A /\ x \cap (SeqRange(c) \cup SeqRange(u)) = {}
        /\ SeqRange(c) \cup SeqRange(u) \cup x = SeqRange(k.buffer) \cup SeqRange(k.waiting)
        /\ SeqRange(c) \cap A \subseteq SeqRange(k.buffer)
    BY <1>1, <1>2, LoopMoves
  <1>4. w.buffer = c /\ w.waiting = u /\ e = x /\ w.q = k.q /\ w.used = k.used
    BY DEF WaitingMoved
  <1> HIDE DEF c, u, x
  <1>5. Distinct(w)
    BY <1>3, <1>4 DEF Distinct
  <1>6. e \cap OnLink(w) = {} /\ OnLink(w) \cup e = OnLink(k)
    BY <1>3, <1>4 DEF Distinct, OnLink
  <1> QED BY <1>1, <1>3, <1>4, <1>5, <1>6 DEF Moved

LEMMA QueueMoves ==
  ASSUME NEW l \in Links, NEW k, SoundLink(k, l), NEW w, SoundLink(w, l), NEW e, NEW m, NEW A,
         Distinct(k), QueueMoved(k, w, e, m, A)
  PROVE  Moved(k, w, e, A)
PROOF
  <1> DEFINE s == Vehs(k.q)
             c == k.buffer \o GoOn(s, m, A)
             u == SubSeq(s, m + 1, Len(s))
             p == SubSeq(s, 1, m)
             x == Arrived(s, m, A)
  <1>1. /\ k.buffer \in Seq(Vehicles) /\ k.q \in Seq(QueueEntries) /\ k.used \in Int
        /\ s \in Seq(Vehicles) /\ Len(s) = Len(k.q)
    BY VehsIs DEF SoundLink, LinkStates
  <1>2. /\ Once(k.buffer) /\ Once(s) /\ SeqRange(k.buffer) \cap SeqRange(s) = {}
        /\ m \in 0..Len(k.q)
    BY DEF Distinct, QueueMoved
  <1>3. /\ w.buffer = c /\ w.q = SubSeq(k.q, m + 1, Len(k.q)) /\ e = x
        /\ w.used = k.used - PceSum(p) /\ w.waiting = k.waiting
    BY DEF QueueMoved
  <1>4. Vehs(w.q) = u
    BY <1>1, <1>2, <1>3, VehsSuffix
  <1> HIDE DEF s
  <1>5. /\ Once(c) /\ Once(u) /\ SeqRange(c) \cap SeqRange(u) = {}
        /\ x \subseteq A /\ x \cap (SeqRange(c) \cup SeqRange(u)) = {}
        /\ SeqRange(c) \cup SeqRange(u) \cup x = SeqRange(k.buffer) \cup SeqRange(s)
        /\ SeqRange(c) \cap A \subseteq SeqRange(k.buffer)
    BY <1>1, <1>2, LoopMoves
  <1>6. PceSum(s) = PceSum(p) + PceSum(u) /\ PceSum(p) \in Nat /\ PceSum(u) \in Nat
    <2>1. /\ s = p \o u /\ p \in Seq(Vehicles) /\ u \in Seq(Vehicles)
      BY <1>1, <1>2, SplitAt
    <2> HIDE DEF p, u
    <2>2. PceSum(p) \in Nat /\ PceSum(u) \in Nat
      BY <2>1, SumExists, PceSumIs
    <2> QED BY <2>1, <2>2, PceSumCat
  <1> HIDE DEF c, u, x, p
  <1>7. Distinct(w)
    BY <1>3, <1>4, <1>5 DEF Distinct, s
  <1>8. e \cap OnLink(w) = {} /\ OnLink(w) \cup e = OnLink(k)
    BY <1>3, <1>4, <1>5 DEF Distinct, OnLink, s
  <1>9. /\ w.used \in Int /\ w.used <= k.used
        /\ k.used = PceSum(s) => w.used = PceSum(Vehs(w.q))
    BY <1>1, <1>3, <1>4, <1>6
  <1> QED BY <1>3, <1>5, <1>7, <1>8, <1>9 DEF Moved, s

\* do_sim_step loses and duplicates no vehicle, and returns those that arrive.
LEMMA SimStepMoves ==
  ASSUME NEW l \in Links, NEW k, SoundLink(k, l), Distinct(k), NEW A, NEW t \in Nat
  PROVE  LET d == DoSimStep(k, l, A, t) IN Moved(k, d.link, d.ended, A)
PROOF
  <1> DEFINE u == UpdateFlowCap(k, l, t)
             w == AddWaitingToBuffer(u, A).link
             e == AddWaitingToBuffer(u, A).ended
             d == AddQueueToBuffer(w, A, t).link
             f == AddQueueToBuffer(w, A, t).ended
  <1>1. DoSimStep(k, l, A, t).link = d /\ DoSimStep(k, l, A, t).ended = e \cup f
    BY DEF DoSimStep
  <1>2. /\ SoundLink(u, l) /\ u.q = k.q /\ u.buffer = k.buffer /\ u.waiting = k.waiting
        /\ u.used = k.used
    BY UpdateKeeps
  <1>3. Distinct(u) /\ OnLink(u) = OnLink(k)
    BY <1>2 DEF Distinct, OnLink
  <1> HIDE DEF u
  <1>4. SoundLink(w, l) /\ \E m : WaitingMoved(u, w, e, m, A)
    BY <1>2, WaitingKeeps
  <1> HIDE DEF w, e
  <1>5. Moved(u, w, e, A)
    BY <1>2, <1>3, <1>4, WaitingMoves
  <1>6. SoundLink(d, l) /\ \E m : QueueMoved(w, d, f, m, A)
    BY <1>4, QueueKeeps
  <1> HIDE DEF d, f
  <1>7. Moved(w, d, f, A)
    <2>1. Distinct(w)
      BY <1>5 DEF Moved
    <2> QED BY <1>4, <1>6, <2>1, QueueMoves
  <1>8. k.used \in Int
    BY DEF SoundLink, LinkStates
  <1>9. Moved(k, d, e \cup f, A)
    <2>1. /\ Distinct(d) /\ e \cup f \subseteq A
          /\ (e \cup f) \cap OnLink(d) = {} /\ OnLink(d) \cup (e \cup f) = OnLink(k)
          /\ SeqRange(d.buffer) \cap A \subseteq SeqRange(k.buffer)
      BY <1>2, <1>3, <1>5, <1>7 DEF Moved
    <2>2. /\ d.used \in Int /\ d.used <= k.used
          /\ k.used = PceSum(Vehs(k.q)) => d.used = PceSum(Vehs(d.q))
      BY <1>2, <1>5, <1>7, <1>8 DEF Moved
    <2> QED BY <2>1, <2>2 DEF Moved
  <1> QED BY <1>1, <1>9

\* Link e is link k after the vehicles of S have come to it.
Entered(k, e, S) ==
  /\ Distinct(e) /\ OnLink(e) = OnLink(k) \cup S
  /\ SeqRange(e.buffer) = SeqRange(k.buffer)
  /\ k.used = PceSum(Vehs(k.q)) => e.used = PceSum(Vehs(e.q))

LEMMA PushWaitingEnters ==
  ASSUME NEW l \in Links, NEW k, SoundLink(k, l), Distinct(k), NEW v \in Vehicles, v \notin OnLink(k)
  PROVE  Entered(k, PushVehToWaitingList(k, v), {v})
PROOF
  <1> DEFINE e == PushVehToWaitingList(k, v)
  <1>1. e.q = k.q /\ e.buffer = k.buffer /\ e.waiting = Append(k.waiting, v) /\ e.used = k.used
    BY PushWaitingKeeps
  <1>2. k.waiting \in Seq(Vehicles) /\ Once(k.waiting) /\ v \notin SeqRange(k.waiting)
    BY DEF SoundLink, LinkStates, Distinct, OnLink
  <1>3. SeqRange(e.waiting) = SeqRange(k.waiting) \cup {v} /\ Once(e.waiting)
    <2>1. /\ SeqRange(Append(k.waiting, v)) = SeqRange(k.waiting) \cup {v}
          /\ Once(Append(k.waiting, v))
      BY <1>2, RangeAppend
    <2> QED BY <1>1, <2>1
  <1> HIDE DEF e
  <1>4. Distinct(e) /\ OnLink(e) = OnLink(k) \cup {v}
    BY <1>1, <1>3 DEF Distinct, OnLink
  <1>5. Entered(k, e, {v})
    BY <1>1, <1>4 DEF Entered
  <1> QED BY <1>5 DEF e

\* Vehicles vs enter the queue with entries p.
LEMMA QueueEnters ==
  ASSUME NEW l \in Links, NEW k, SoundLink(k, l), Distinct(k), NEW p \in Seq(QueueEntries),
         NEW e, e.q = k.q \o p, e.buffer = k.buffer, e.waiting = k.waiting,
         e.used = k.used + PceSum(Vehs(p)), Once(Vehs(p)), SeqRange(Vehs(p)) \cap OnLink(k) = {}
  PROVE  Entered(k, e, SeqRange(Vehs(p)))
PROOF
  <1> DEFINE a == Vehs(k.q)
             b == Vehs(p)
  <1>1. /\ k.q \in Seq(QueueEntries) /\ a \in Seq(Vehicles) /\ b \in Seq(Vehicles)
    BY VehsIs DEF SoundLink, LinkStates
  <1>2. Vehs(e.q) = a \o b
    BY <1>1, VehsCat
  <1>3. Once(a) /\ Once(b) /\ SeqRange(a) \cap SeqRange(b) = {}
    BY DEF Distinct, OnLink
  <1> HIDE DEF a, b
  <1>4. SeqRange(Vehs(e.q)) = SeqRange(a) \cup SeqRange(b) /\ Once(Vehs(e.q))
    <2>1. SeqRange(a \o b) = SeqRange(a) \cup SeqRange(b) /\ Once(a \o b)
      BY <1>1, <1>3, RangeCat
    <2> QED BY <1>2, <2>1
  <1>5. PceSum(Vehs(e.q)) = PceSum(a) + PceSum(b)
    BY <1>1, <1>2, PceSumCat
  <1>6. Distinct(e) /\ OnLink(e) = OnLink(k) \cup SeqRange(b)
    BY <1>4 DEF Distinct, OnLink, a, b
  <1> QED BY <1>5, <1>6 DEF Entered, a, b

LEMMA PushQueueEnters ==
  ASSUME NEW l \in Links, NEW k, SoundLink(k, l), Distinct(k),
         NEW v \in Vehicles, v \notin OnLink(k), NEW t \in Nat
  PROVE  Entered(k, PushVehToQueue(k, l, v, t), {v})
PROOF
  <1> DEFINE e == PushVehToQueue(k, l, v, t)
             x == [veh |-> v, exit |-> t + Duration[l][v]]
             p == <<x>>
  <1>1. /\ e.q = Append(k.q, x) /\ e.buffer = k.buffer /\ e.waiting = k.waiting
        /\ e.used = k.used + Pce[v]
    BY PushQueueKeeps
  <1>2. x \in QueueEntries /\ x.veh = v
    <2>1. t + Duration[l][v] \in Nat
      BY LinkAssumption
    <2> QED BY <2>1 DEF QueueEntries
  <1>3. k.q \in Seq(QueueEntries)
    BY DEF SoundLink, LinkStates
  <1> HIDE DEF x, e
  <1>4. p \in Seq(QueueEntries) /\ Append(k.q, x) = k.q \o p
    BY <1>2, <1>3
  <1>5. Vehs(p) = <<v>>
    BY <1>2 DEF Vehs
  <1>6. SeqRange(<<v>>) = {v} /\ Once(<<v>>)
    BY DEF SeqRange, Once
  <1>7. PceSum(<<v>>) = Pce[v]
    <2>1. <<v>> = Append(<<>>, v) /\ <<>> \in Seq(Vehicles)
      OBVIOUS
    <2>2. PceSum(Append(<<>>, v)) = PceSum(<<>>) + Pce[v] /\ Pce[v] \in Nat
      BY <2>1, PceSumAppend
    <2> QED BY <2>1, <2>2, PceSumEmpty
  <1> HIDE DEF p
  <1>8. Entered(k, e, SeqRange(Vehs(p)))
    BY <1>1, <1>4, <1>5, <1>6, <1>7, QueueEnters
  <1> QED BY <1>5, <1>6, <1>8 DEF e

LEMMA PopLeaves ==
  ASSUME NEW l \in Links, NEW k, SoundLink(k, l), Distinct(k), k.buffer # <<>>
  PROVE  LET p == PopVeh(k)
             v == Head(k.buffer)
         IN  /\ Distinct(p) /\ v \in SeqRange(k.buffer) /\ v \notin OnLink(p)
             /\ OnLink(k) = OnLink(p) \cup {v}
             /\ SeqRange(p.buffer) \subseteq SeqRange(k.buffer)
             /\ k.used = PceSum(Vehs(k.q)) => p.used = PceSum(Vehs(p.q))
PROOF
  <1> DEFINE p == PopVeh(k)
             v == Head(k.buffer)
  <1>1. p.q = k.q /\ p.buffer = Tail(k.buffer) /\ p.waiting = k.waiting /\ p.used = k.used
    BY PopKeeps
  <1>2. k.buffer \in Seq(Vehicles) /\ Once(k.buffer)
    BY DEF SoundLink, LinkStates, Distinct
  <1>3. /\ SeqRange(k.buffer) = {v} \cup SeqRange(Tail(k.buffer))
        /\ v \notin SeqRange(Tail(k.buffer)) /\ Once(Tail(k.buffer))
    BY <1>2, RangeTail
  <1> HIDE DEF p, v
  <1>4. Distinct(p) /\ v \notin OnLink(p) /\ OnLink(k) = OnLink(p) \cup {v}
    BY <1>1, <1>3 DEF Distinct, OnLink
  <1> QED BY <1>1, <1>3, <1>4 DEF p, v

LEMMA AskedSame ==
  ASSUME NEW l \in Links, NEW k, SoundLink(k, l), NEW t \in Nat
  PROVE  LET a == Asked(k, t) IN
           /\ OnLink(a) = OnLink(k) /\ a.buffer = k.buffer /\ (Distinct(k) => Distinct(a))
           /\ a.used = k.used /\ a.q = k.q
  BY AskedKeeps DEF OnLink, Distinct

LEMMA NoneInEmpty ==
  ASSUME NEW S, NEW s \in Seq(S)
  PROVE  s # <<>> <=> SeqRange(s) # {}
PROOF
  <1>1. ASSUME s # <<>> PROVE SeqRange(s) # {}
    <2>1. 1 \in 1..Len(s)
      BY <1>1
    <2> QED BY <2>1 DEF SeqRange
  <1> QED BY <1>1, RangeEmpty

\* A link is active exactly if there are vehicles on it.
LEMMA ActiveIsOccupied ==
  ASSUME NEW l \in Links, NEW k, SoundLink(k, l)
  PROVE  IsActive(k) <=> OnLink(k) # {}
PROOF
  <1>1. k.q \in Seq(QueueEntries) /\ k.buffer \in Seq(Vehicles) /\ k.waiting \in Seq(Vehicles)
    BY DEF SoundLink, LinkStates
  <1>2. Vehs(k.q) \in Seq(Vehicles) /\ (k.q # <<>> <=> Vehs(k.q) # <<>>)
    <2>1. Vehs(k.q) \in Seq(Vehicles) /\ Len(Vehs(k.q)) = Len(k.q)
      BY <1>1, VehsIs
    <2>2. /\ k.q # <<>> <=> Len(k.q) # 0
          /\ Vehs(k.q) # <<>> <=> Len(Vehs(k.q)) # 0
      BY <1>1, <2>1
    <2> QED BY <2>1, <2>2
  <1>3. /\ Vehs(k.q) # <<>> <=> SeqRange(Vehs(k.q)) # {}
        /\ k.buffer # <<>> <=> SeqRange(k.buffer) # {}
        /\ k.waiting # <<>> <=> SeqRange(k.waiting) # {}
    BY <1>1, <1>2, NoneInEmpty
  <1> QED BY <1>2, <1>3 DEF IsActive, OnLink

-----------------------------------------------------------------------------
(* Sums over finite sets: SumOver takes the elements in some order of its   *)
(* own; the sum does not depend on it.                                      *)

Pick(T) == CHOOSE x \in T : TRUE

IsSumOn(g, f, D) == \A T \in D : g[T] = IF T = {} THEN 0 ELSE f[Pick(T)] + g[T \ {Pick(T)}]

\* The part of a set that is left when an element is taken away is smaller.
LEMMA OneLess ==
  ASSUME NEW S, IsFiniteSet(S), NEW T, T \subseteq S, NEW x \in T
  PROVE  /\ Cardinality(T) \in Nat /\ Cardinality(T) \in 1..Cardinality(S)
         /\ T \ {x} \subseteq S /\ Cardinality(T \ {x}) = Cardinality(T) - 1
PROOF
  <1>1. IsFiniteSet(T) /\ Cardinality(T) <= Cardinality(S)
    BY FS_Subset
  <1>2. Cardinality(T) \in Nat /\ Cardinality(S) \in Nat
    BY <1>1, FS_CardinalityType
  <1>3. Cardinality(T) # 0
    BY <1>1, FS_EmptySet
  <1>4. Cardinality(T \ {x}) = Cardinality(T) - 1
    BY <1>1, FS_RemoveElement
  <1> QED BY <1>1, <1>2, <1>3, <1>4

LEMMA PickIs == \A T : T # {} => Pick(T) \in T
  BY DEF Pick

LEMMA SumOnExists ==
  ASSUME NEW S, IsFiniteSet(S), NEW f, \A x \in S : f[x] \in Int
  PROVE  \E g \in [SUBSET S -> Int] : IsSumOn(g, f, SUBSET S)
PROOF
  <1> DEFINE N == Cardinality(S)
             D(n) == {T \in SUBSET S : Cardinality(T) <= n}
             P(n) == \E g \in [D(n) -> Int] : IsSumOn(g, f, D(n))
             Bad == {n \in 0..N : ~P(n)}
  <1>1. N \in Nat
    BY FS_CardinalityType
  <1>2. D(N) = SUBSET S
    BY FS_Subset
  <1>3. SUFFICES ASSUME Bad # {} PROVE FALSE
    <2>1. SUFFICES P(N)
      BY <1>2
    <2>2. N \in 0..N
      BY <1>1
    <2> HIDE DEF P, N
    <2> QED BY <2>2
  <1>4. PICK n \in Bad : \A k \in Bad : n <= k
    <2>1. Bad \subseteq Nat
      BY <1>1
    <2> HIDE DEF Bad
    <2> QED BY <1>3, <2>1, LeastNumber
  <1>5. P(0)
    <2> DEFINE g == [T \in D(0) |-> 0]
    <2>1. ASSUME NEW T \in D(0) PROVE T = {}
      <3>1. IsFiniteSet(T)
        BY FS_Subset
      <3>2. Cardinality(T) \in Nat /\ Cardinality(T) <= 0
        BY <3>1, FS_CardinalityType
      <3> QED BY <3>1, <3>2, FS_EmptySet
    <2>2. g \in [D(0) -> Int] /\ \A T \in D(0) : g[T] = 0
      OBVIOUS
    <2>3. IsSumOn(g, f, D(0))
      BY <2>1, <2>2 DEF IsSumOn
    <2> QED BY <2>2, <2>3
  <1>6. n \in 0..N /\ n # 0 /\ ~P(n)
    BY <1>4, <1>5
  <1>7. n - 1 \in 0..N /\ ~(n <= n - 1)
    BY <1>1, <1>6
  <1>8. P(n - 1)
    <2>1. n - 1 \notin Bad
      <3> HIDE DEF Bad
      <3> QED BY <1>4, <1>7
    <2> HIDE DEF P
    <2> QED BY <1>7, <2>1
  <1>9. PICK g \in [D(n - 1) -> Int] : IsSumOn(g, f, D(n - 1))
    BY <1>8
  <1> DEFINE h == [T \in D(n) |-> IF T = {} THEN 0 ELSE f[Pick(T)] + g[T \ {Pick(T)}]]
  <1>10. ASSUME NEW T \in D(n), T # {}
         PROVE  Pick(T) \in S /\ T \ {Pick(T)} \in D(n - 1) /\ T \ {Pick(T)} \in D(n)
    <2>1. Pick(T) \in T /\ T \subseteq S /\ Cardinality(T) <= n
      BY <1>10, PickIs
    <2>2. /\ Cardinality(T) \in Nat /\ T \ {Pick(T)} \subseteq S
          /\ Cardinality(T \ {Pick(T)}) = Cardinality(T) - 1
      BY <2>1, OneLess
    <2> QED BY <1>6, <2>1, <2>2
  <1>11. h \in [D(n) -> Int]
    <2>1. ASSUME NEW T \in D(n)
          PROVE  (IF T = {} THEN 0 ELSE f[Pick(T)] + g[T \ {Pick(T)}]) \in Int
      <3>1. CASE T = {}
        BY <3>1
      <3>2. CASE T # {}
        <4>1. f[Pick(T)] \in Int /\ g[T \ {Pick(T)}] \in Int
          BY <1>10, <3>2
        <4> QED BY <3>2, <4>1
      <3> QED BY <3>1, <3>2
    <2> QED BY <2>1
  <1>12. ASSUME NEW T \in D(n)
         PROVE  h[T] = IF T = {} THEN 0 ELSE f[Pick(T)] + g[T \ {Pick(T)}]
    OBVIOUS
  <1>13. ASSUME NEW T \in D(n - 1) PROVE T \in D(n) /\ h[T] = g[T]
    <2>1. T \in D(n)
      <3>1. Cardinality(T) \in Nat /\ Cardinality(T) <= n - 1 /\ T \in SUBSET S
        BY FS_Subset, FS_CardinalityType
      <3> QED BY <1>6, <3>1
    <2>2. g[T] = IF T = {} THEN 0 ELSE f[Pick(T)] + g[T \ {Pick(T)}]
      BY <1>9 DEF IsSumOn
    <2> HIDE DEF h, D
    <2> QED BY <1>12, <2>1, <2>2
  <1> HIDE DEF h
  <1>14. IsSumOn(h, f, D(n))
    <2>1. ASSUME NEW T \in D(n)
          PROVE  h[T] = IF T = {} THEN 0 ELSE f[Pick(T)] + h[T \ {Pick(T)}]
      <3>1. CASE T = {}
        BY <1>12, <3>1
      <3>2. CASE T # {}
        <4>1. h[T \ {Pick(T)}] = g[T \ {Pick(T)}]
          <5> HIDE DEF D
          <5> QED BY <1>10, <1>13, <3>2
        <4> QED BY <1>12, <3>2, <4>1
      <3> QED BY <3>1, <3>2
    <2> HIDE DEF D
    <2> QED BY <2>1 DEF IsSumOn
  <1> QED BY <1>6, <1>11, <1>14

\* Sums of functions that agree on S agree on its parts.
LEMMA SumOnAgrees ==
  ASSUME NEW S, IsFiniteSet(S), NEW f, NEW e, \A x \in S : f[x] = e[x],
         NEW g, IsSumOn(g, f, SUBSET S), NEW h, IsSumOn(h, e, SUBSET S)
  PROVE  \A T \in SUBSET S : g[T] = h[T]
PROOF
  <1> DEFINE Bad == {n \in 0..Cardinality(S) : \E T \in SUBSET S : Cardinality(T) = n /\ g[T] # h[T]}
  <1>1. Cardinality(S) \in Nat
    BY FS_CardinalityType
  <1>2. SUFFICES ASSUME Bad # {} PROVE FALSE
    <2>1. \A T \in SUBSET S : Cardinality(T) \in 0..Cardinality(S)
      BY <1>1, FS_Subset, FS_CardinalityType
    <2> QED BY <2>1
  <1>3. PICK n \in Bad : \A k \in Bad : n <= k
    <2>1. Bad \subseteq Nat
      BY <1>1
    <2> HIDE DEF Bad
    <2> QED BY <1>2, <2>1, LeastNumber
  <1>4. PICK T \in SUBSET S : Cardinality(T) = n /\ g[T] # h[T]
    BY <1>3
  <1>5. T # {}
    BY <1>4 DEF IsSumOn
  <1> DEFINE x == Pick(T)
             U == T \ {x}
  <1>6. x \in T
    BY <1>5, PickIs
  <1>7. /\ g[T] = f[x] + g[U] /\ h[T] = e[x] + h[U]
    BY <1>5 DEF IsSumOn
  <1>8. U \subseteq S /\ Cardinality(U) = n - 1 /\ n \in 1..Cardinality(S)
    BY <1>4, <1>6, OneLess
  <1> HIDE DEF x, U
  <1>9. g[U] # h[U]
    BY <1>4, <1>6, <1>7
  <1>10. n - 1 \in Bad
    BY <1>1, <1>8, <1>9
  <1>11. n <= n - 1
    <2> HIDE DEF Bad
    <2> QED BY <1>3, <1>10
  <1> QED BY <1>1, <1>8, <1>11

LEMMA SumOverIs ==
  ASSUME NEW S, IsFiniteSet(S), NEW f, \A x \in S : f[x] \in Int,
         NEW g, IsSumOn(g, f, SUBSET S), NEW T \in SUBSET S
  PROVE  SumOver(f, T) = g[T] /\ SumOver(f, T) \in Int
PROOF
  <1> DEFINE Def(u) == [U \in SUBSET T |->
                          IF U = {} THEN 0
                          ELSE LET x == CHOOSE x \in U : TRUE IN f[x] + u[U \ {x}]]
             sum == CHOOSE u : u = Def(u)
  <1>1. IsFiniteSet(T) /\ \A x \in T : f[x] \in Int
    BY FS_Subset
  <1>2. PICK h \in [SUBSET T -> Int] : IsSumOn(h, f, SUBSET T)
    BY <1>1, SumOnExists
  <1>3. h = Def(h)
    BY <1>2 DEF IsSumOn, Pick
  <1>4. sum = Def(sum)
    <2> HIDE DEF Def
    <2> QED BY <1>3
  <1>5. SumOver(f, T) = sum[T]
    BY DEF SumOver
  <1>6. IsSumOn(sum, f, SUBSET T)
    <2> HIDE DEF sum
    <2>1. \A U \in SUBSET T : Def(sum)[U] =
            IF U = {} THEN 0 ELSE f[Pick(U)] + sum[U \ {Pick(U)}]
      BY DEF Pick
    <2> HIDE DEF Def
    <2> QED BY <1>4, <2>1 DEF IsSumOn
  <1> HIDE DEF sum, Def
  <1>7. IsSumOn(g, f, SUBSET T)
    BY DEF IsSumOn
  <1>8. T \in SUBSET T
    OBVIOUS
  <1>9. sum[T] = g[T]
    BY <1>1, <1>6, <1>7, <1>8, SumOnAgrees
  <1>10. sum[T] = h[T]
    BY <1>1, <1>2, <1>6, <1>8, SumOnAgrees
  <1>11. h[T] \in Int
    BY <1>2, <1>8
  <1> QED BY <1>5, <1>9, <1>10, <1>11

LEMMA SumOverEmpty == \A f : SumOver(f, {}) = 0
PROOF
  <1> SUFFICES ASSUME NEW f PROVE SumOver(f, {}) = 0
    OBVIOUS
  <1>1. IsFiniteSet({}) /\ \A x \in {} : f[x] \in Int
    BY FS_EmptySet
  <1>2. PICK g \in [SUBSET {} -> Int] : IsSumOn(g, f, SUBSET {})
    BY <1>1, SumOnExists
  <1>3. {} \in SUBSET {}
    OBVIOUS
  <1>4. SumOver(f, {}) = g[{}]
    BY <1>1, <1>2, <1>3, SumOverIs
  <1> QED BY <1>2, <1>3, <1>4 DEF IsSumOn

LEMMA SumOverType ==
  ASSUME NEW S, IsFiniteSet(S), NEW f, \A x \in S : f[x] \in Int
  PROVE  SumOver(f, S) \in Int
PROOF
  <1>1. PICK g \in [SUBSET S -> Int] : IsSumOn(g, f, SUBSET S)
    BY SumOnExists
  <1>2. S \in SUBSET S
    OBVIOUS
  <1> QED BY <1>1, <1>2, SumOverIs

LEMMA SumOverSame ==
  ASSUME NEW S, IsFiniteSet(S), NEW f, NEW e, \A x \in S : f[x] = e[x] /\ f[x] \in Int
  PROVE  SumOver(f, S) = SumOver(e, S)
PROOF
  <1>1. PICK g \in [SUBSET S -> Int] : IsSumOn(g, f, SUBSET S)
    BY SumOnExists
  <1>2. PICK h \in [SUBSET S -> Int] : IsSumOn(h, e, SUBSET S)
    BY SumOnExists
  <1>3. S \in SUBSET S
    OBVIOUS
  <1>4. SumOver(f, S) = g[S] /\ SumOver(e, S) = h[S]
    BY <1>1, <1>2, <1>3, SumOverIs
  <1>5. g[S] = h[S]
    BY <1>1, <1>2, <1>3, SumOnAgrees
  <1> QED BY <1>4, <1>5

Adds(g, f, S) == \A A \in SUBSET S : \A a \in S \ A : g[A \cup {a}] = f[a] + g[A]

\* Whatever element the sum takes first, a new one adds its own number.
LEMMA SumOnAdds ==
  ASSUME NEW S, IsFiniteSet(S), NEW f, \A x \in S : f[x] \in Int,
         NEW g \in [SUBSET S -> Int], IsSumOn(g, f, SUBSET S)
  PROVE  Adds(g, f, S)
PROOF
  <1> USE DEF Adds
  <1> DEFINE Bad == {n \in 0..Cardinality(S) : \E T \in SUBSET S :
                       \E y \in S \ T : Cardinality(T) = n /\ g[T \cup {y}] # f[y] + g[T]}
  <1>1. Cardinality(S) \in Nat
    BY FS_CardinalityType
  <1>2. SUFFICES ASSUME Bad # {} PROVE FALSE
    <2>1. \A T \in SUBSET S : Cardinality(T) \in 0..Cardinality(S)
      BY <1>1, FS_Subset, FS_CardinalityType
    <2> QED BY <2>1
  <1>3. PICK n \in Bad : \A k \in Bad : n <= k
    <2>1. Bad \subseteq Nat
      BY <1>1
    <2> HIDE DEF Bad
    <2> QED BY <1>2, <2>1, LeastNumber
  <1>4. PICK T \in SUBSET S : \E y \in S \ T : Cardinality(T) = n /\ g[T \cup {y}] # f[y] + g[T]
    BY <1>3
  <1>5. PICK y \in S \ T : Cardinality(T) = n /\ g[T \cup {y}] # f[y] + g[T]
    BY <1>4
  <1> DEFINE Z == T \cup {y}
             p == Pick(Z)
             U == T \ {p}
  <1>6. p \in Z
    BY PickIs
  <1>7. g[Z] = f[p] + g[Z \ {p}]
    BY DEF IsSumOn
  <1> HIDE DEF p
  <1>8. p # y
    <2> SUFFICES ASSUME p = y PROVE FALSE
      OBVIOUS
    <2>1. Z \ {p} = T
      OBVIOUS
    <2> QED BY <1>5, <1>7, <2>1
  <1>9. p \in T /\ Z \ {p} = U \cup {y} /\ U \cup {p} = T
    BY <1>6, <1>8
  <1>10. U \subseteq S /\ Cardinality(U) = n - 1 /\ n \in 1..Cardinality(S)
    BY <1>5, <1>9, OneLess
  <1> HIDE DEF U
  <1>11. n - 1 \in 0..Cardinality(S) /\ ~(n <= n - 1)
    BY <1>1, <1>10
  <1>12. n - 1 \notin Bad
    <2> HIDE DEF Bad
    <2> QED BY <1>3, <1>11
  <1>13. \A z \in S \ U : g[U \cup {z}] = f[z] + g[U]
    BY <1>10, <1>11, <1>12
  <1>14. y \in S \ U /\ p \in S \ U
    BY <1>9 DEF U
  <1>15. g[Z \ {p}] = f[y] + g[U] /\ g[T] = f[p] + g[U]
    BY <1>9, <1>13, <1>14
  <1>16. f[y] \in Int /\ f[p] \in Int /\ g[U] \in Int
    BY <1>10, <1>14
  <1> QED BY <1>5, <1>7, <1>15, <1>16

LEMMA SumOverAdd ==
  ASSUME NEW A, IsFiniteSet(A), NEW a, a \notin A, NEW f, \A x \in A \cup {a} : f[x] \in Int
  PROVE  SumOver(f, A \cup {a}) = f[a] + SumOver(f, A)
PROOF
  <1> DEFINE S == A \cup {a}
  <1>1. IsFiniteSet(S) /\ \A x \in S : f[x] \in Int
    BY FS_AddElement
  <1>2. S \in SUBSET S /\ A \in SUBSET S /\ a \in S \ A
    OBVIOUS
  <1> HIDE DEF S
  <1>3. PICK g \in [SUBSET S -> Int] : IsSumOn(g, f, SUBSET S)
    BY <1>1, SumOnExists
  <1>4. SumOver(f, S) = g[S] /\ SumOver(f, A) = g[A]
    BY <1>1, <1>2, <1>3, SumOverIs
  <1>5. Adds(g, f, S)
    BY <1>1, <1>3, SumOnAdds
  <1>6. g[A \cup {a}] = f[a] + g[A]
    BY <1>2, <1>5 DEF Adds
  <1> QED BY <1>4, <1>6 DEF S

LEMMA PceSumPrefix ==
  ASSUME NEW s \in Seq(Vehicles), NEW n \in 1..Len(s)
  PROVE  /\ SubSeq(s, 1, n - 1) \in Seq(Vehicles) /\ s[n] \in Vehicles
         /\ PceSum(SubSeq(s, 1, n - 1)) \in Nat /\ Pce[s[n]] \in Nat
         /\ PceSum(SubSeq(s, 1, n)) = PceSum(SubSeq(s, 1, n - 1)) + Pce[s[n]]
         /\ SeqRange(SubSeq(s, 1, n)) = SeqRange(SubSeq(s, 1, n - 1)) \cup {s[n]}
         /\ Once(s) => s[n] \notin SeqRange(SubSeq(s, 1, n - 1))
PROOF
  <1> DEFINE u == SubSeq(s, 1, n - 1)
  <1>1. u \in Seq(Vehicles) /\ s[n] \in Vehicles /\ SubSeq(s, 1, n) = Append(u, s[n])
    BY PrefixAppend
  <1>2. Len(u) = n - 1 /\ \A i \in 1..(n - 1) : u[i] = s[i] /\ i \in 1..Len(s) /\ i # n
    OBVIOUS
  <1> HIDE DEF u
  <1>3. Once(s) => s[n] \notin SeqRange(u)
    BY <1>2 DEF Once, SeqRange
  <1>4. /\ PceSum(u) \in Nat /\ Pce[s[n]] \in Nat
        /\ PceSum(Append(u, s[n])) = PceSum(u) + Pce[s[n]]
    BY <1>1, PceSumAppend
  <1>5. SeqRange(Append(u, s[n])) = SeqRange(u) \cup {s[n]}
    BY <1>1, RangeAppend
  <1> QED BY <1>1, <1>3, <1>4, <1>5 DEF u

\* The sum over the vehicles of a sequence is the sum of the sequence.
LEMMA SumOverSequence ==
  ASSUME NEW A, A \subseteq Vehicles, NEW s \in Seq(Vehicles), Once(s), SeqRange(s) \cap A = {}
  PROVE  SumOver(Pce, A \cup SeqRange(s)) = SumOver(Pce, A) + PceSum(s)
PROOF
  <1> DEFINE U(n) == SubSeq(s, 1, n)
             R(n) == SeqRange(U(n))
             Bad == {n \in 0..Len(s) :
                       SumOver(Pce, A \cup R(n)) # SumOver(Pce, A) + PceSum(U(n))}
  <1>1. \A B : B \subseteq Vehicles => IsFiniteSet(B) /\ \A x \in B : Pce[x] \in Int
    BY LinkAssumption, FS_Subset
  <1>2. SumOver(Pce, A) \in Int
    BY <1>1, SumOverType
  <1>3. Bad = {}
    <2> SUFFICES ASSUME Bad # {} PROVE FALSE
      OBVIOUS
    <2>1. PICK n \in Bad : \A k \in Bad : n <= k
      <3>1. Bad \subseteq Nat
        OBVIOUS
      <3> HIDE DEF Bad
      <3> QED BY <3>1, LeastNumber
    <2>2. n \in 0..Len(s) /\ SumOver(Pce, A \cup R(n)) # SumOver(Pce, A) + PceSum(U(n))
      BY <2>1
    <2>3. n # 0
      <3> SUFFICES ASSUME n = 0 PROVE FALSE
        OBVIOUS
      <3>1. U(n) = <<>>
        OBVIOUS
      <3>2. R(n) = {} /\ PceSum(U(n)) = 0
        BY <3>1, RangeEmpty, PceSumEmpty
      <3>3. A \cup R(n) = A
        BY <3>2
      <3> HIDE DEF U, R
      <3> QED BY <1>2, <2>2, <3>2, <3>3
    <2>4. n \in 1..Len(s) /\ n - 1 \in 0..Len(s) /\ ~(n <= n - 1)
      BY <2>2, <2>3
    <2>5. SumOver(Pce, A \cup R(n - 1)) = SumOver(Pce, A) + PceSum(U(n - 1))
      BY <2>1, <2>4
    <2>6. /\ U(n - 1) \in Seq(Vehicles) /\ s[n] \in Vehicles
          /\ PceSum(U(n - 1)) \in Nat /\ Pce[s[n]] \in Nat
          /\ PceSum(U(n)) = PceSum(U(n - 1)) + Pce[s[n]]
          /\ R(n) = R(n - 1) \cup {s[n]} /\ s[n] \notin R(n - 1)
      BY <2>4, PceSumPrefix
    <2>7. s[n] \in SeqRange(s)
      BY <2>4 DEF SeqRange
    <2>8. R(n - 1) \subseteq Vehicles
      <3> HIDE DEF U
      <3> QED BY <2>6 DEF SeqRange
    <2> HIDE DEF U, R
    <2>9. s[n] \notin A \cup R(n - 1) /\ A \cup R(n) = (A \cup R(n - 1)) \cup {s[n]}
      BY <2>6, <2>7
    <2>10. IsFiniteSet(A \cup R(n - 1)) /\ \A x \in (A \cup R(n - 1)) \cup {s[n]} : Pce[x] \in Int
      BY <1>1, <2>6, <2>8
    <2>11. SumOver(Pce, A \cup R(n)) = Pce[s[n]] + SumOver(Pce, A \cup R(n - 1))
      BY ZenonT(40), <2>9, <2>10, SumOverAdd
    <2> QED BY <1>2, <2>2, <2>5, <2>6, <2>11
  <1>4. Len(s) \in 0..Len(s) /\ U(Len(s)) = s
    OBVIOUS
  <1> QED BY <1>3, <1>4

-----------------------------------------------------------------------------
(* The loops over the queues leave nobody behind who could go.              *)

\* Who is at the front of the queue after AddQueueToBuffer cannot go yet.
LEMMA QueueServed ==
  ASSUME NEW l \in Links, NEW k, SoundLink(k, l), NEW A, NEW t \in Nat,
         LET w == AddQueueToBuffer(k, A, t).link IN w.q # <<>> /\ w.q[1].exit <= t
  PROVE  LET w == AddQueueToBuffer(k, A, t).link IN
           w.q[1].veh \notin A /\ ~HasFlowCapacityLeft(w, <<>>)
PROOF
  <1> DEFINE s == Vehs(k.q)
             goes == {i \in 1..Len(k.q) :
                        /\ Exits(k.q[i], t)
                        /\ \/ s[i] \in A
                           \/ HasFlowCapacityLeft(k, GoOn(s, i - 1, A))}
             m == Taken(goes)
             b == k.buffer \o GoOn(s, m, A)
             rest == SubSeq(k.q, m + 1, Len(k.q))
             used == k.used - PceSum(SubSeq(s, 1, m))
             w == AddQueueToBuffer(k, A, t).link
  <1>1. /\ k \in LinkStates /\ k.q \in Seq(QueueEntries) /\ k.buffer \in Seq(Vehicles)
    BY DEF SoundLink, LinkStates
  <1>2. s \in Seq(Vehicles) /\ Len(s) = Len(k.q) /\ Len(k.q) \in Nat
        /\ \A i \in 1..Len(k.q) : s[i] = k.q[i].veh
    BY <1>1, VehsIs
  <1>3. w = [k EXCEPT !.buffer = b, !.used = used, !.q = rest]
    BY DEF AddQueueToBuffer
  <1> HIDE DEF s
  <1>4. m \in 0..Len(k.q) /\ m + 1 \notin goes
    <2>1. goes \subseteq 1..Len(k.q)
      OBVIOUS
    <2> HIDE DEF goes
    <2> QED BY <1>2, <2>1, TakenFacts
  <1> HIDE DEF m, b, used
  <1>5. w.q = rest /\ w.buffer = b /\ w.flow = k.flow
    BY <1>1, <1>3 DEF LinkStates
  <1>6. m + 1 \in 1..Len(k.q) /\ rest[1] = k.q[m + 1]
    <2>1. rest # <<>>
      BY <1>5
    <2>2. rest \in Seq(QueueEntries) /\ Len(rest) = Len(k.q) - m
          /\ \A i \in 1..(Len(k.q) - m) : rest[i] = k.q[m + i]
      BY <1>1, <1>4, SuffixIs
    <2> HIDE DEF rest
    <2>3. 1 \in 1..(Len(k.q) - m)
      BY <1>2, <1>4, <2>1, <2>2
    <2> QED BY <1>2, <1>4, <2>2, <2>3
  <1>7. Exits(k.q[m + 1], t)
    BY <1>5, <1>6 DEF Exits
  <1>8. s[m + 1] \notin A /\ ~HasFlowCapacityLeft(k, GoOn(s, (m + 1) - 1, A))
    BY <1>4, <1>6, <1>7
  <1>9. (m + 1) - 1 = m
    BY <1>2, <1>4
  <1>10. b \o <<>> = b
    <2>1. GoOn(s, m, A) \in Seq(Vehicles)
      BY <1>2, <1>4, GoOnRec
    <2>2. b \in Seq(Vehicles)
      BY <1>1, <2>1 DEF b
    <2> QED BY <2>2
  <1>11. ~HasFlowCapacityLeft(w, <<>>)
    BY <1>5, <1>8, <1>9, <1>10 DEF HasFlowCapacityLeft, b
  <1>12. w.q[1].veh \notin A
    BY <1>2, <1>5, <1>6, <1>8
  <1> QED BY <1>11, <1>12

\* So it is after do_sim_step, and after the timer of the link has been started.
LEMMA SimStepServed ==
  ASSUME NEW l \in Links, NEW k, SoundLink(k, l), NEW A, NEW t \in Nat, NEW u \in Nat,
         LET d == Asked(DoSimStep(k, l, A, t).link, u) IN d.q # <<>> /\ d.q[1].exit < t + 1
  PROVE  LET d == Asked(DoSimStep(k, l, A, t).link, u) IN
           d.q[1].veh \notin A /\ ~HasFlowCapacityLeft(d, <<>>)
PROOF
  <1> DEFINE c == UpdateFlowCap(k, l, t)
             w == AddWaitingToBuffer(c, A).link
             e == AddQueueToBuffer(w, A, t).link
             d == Asked(e, u)
  <1>1. DoSimStep(k, l, A, t).link = e
    BY DEF DoSimStep
  <1>2. SoundLink(c, l)
    BY UpdateKeeps
  <1> HIDE DEF c
  <1>3. SoundLink(w, l)
    BY <1>2, WaitingKeeps
  <1> HIDE DEF w
  <1>4. SoundLink(e, l)
    BY <1>3, QueueKeeps
  <1>5. e.q # <<>> /\ e.q[1].exit <= t => e.q[1].veh \notin A /\ ~HasFlowCapacityLeft(e, <<>>)
    BY <1>3, QueueServed
  <1> HIDE DEF e
  <1>6. d.q = e.q /\ d.buffer = e.buffer /\ d.flow = e.flow
    BY <1>4, AskedKeeps
  <1>7. d.q # <<>> /\ d.q[1].exit < t + 1
    BY <1>1
  <1> HIDE DEF d
  <1>8. d.q[1].exit \in Nat
    <2>1. e.q \in Seq(QueueEntries)
      BY <1>4 DEF SoundLink, LinkStates
    <2>2. e.q[1] \in QueueEntries
      BY <1>6, <1>7, <2>1
    <2> QED BY <1>6, <2>2 DEF QueueEntries
  <1>9. e.q # <<>> /\ e.q[1].exit <= t
    BY <1>6, <1>7, <1>8
  <1>10. d.q[1].veh \notin A /\ ~HasFlowCapacityLeft(d, <<>>)
    BY <1>5, <1>6, <1>9 DEF HasFlowCapacityLeft
  <1> QED BY <1>1, <1>10 DEF d

-----------------------------------------------------------------------------
(* The network.                                                              *)

LEMMA OwnerIs == \A l \in Links : Owner(l) \in Ranks /\ To[l] \in Nodes /\ Part[To[l]] = Owner(l)
  BY NetworkAssumption DEF Owner

LEMMA SoundLinks ==
  LinkInv <=>
    /\ NetTypes
    /\ \A l \in Links : /\ SoundLink(link[l], l)
                        /\ BufferCached(l, Owner(l)) /\ TimerRuns(l, Owner(l))
PROOF
  <1>1. ASSUME NEW l \in Links, NetTypes PROVE link[l] \in LinkStates
    BY <1>1 DEF NetTypes
  <1> QED BY <1>1 DEF LinkInv, FlowBalance, SoundLink, Fits

\* The rest of the types, when the links are sound.
OtherTypes ==
  /\ pc \in [Ranks -> {"depart", "nodes", "exchange", "done"}] /\ now \in [Ranks -> Nat]
  /\ todo \in [Ranks -> SUBSET Nodes] /\ activeNodes \in [Ranks -> SUBSET Nodes]
  /\ activeLinks = [r \in Ranks |-> activeLinks[r]]
  /\ \A r \in Ranks : \A n \in todo[r] \cup activeNodes[r] : Part[n] = r
  /\ outQ \in [Links -> Seq(Vehicles)]
  /\ \A m \in msgs : m.vehs \in [{l \in OutOf(m.from) : Owner(l) = m.to} -> Seq(Vehicles)]

LEMMA LinkInvIs ==
  LinkInv <=>
    /\ OtherTypes /\ link = [l \in Links |-> link[l]]
    /\ \A l \in Links : /\ SoundLink(link[l], l)
                        /\ BufferCached(l, Owner(l)) /\ TimerRuns(l, Owner(l))
PROOF
  <1>1. NetTypes <=> OtherTypes /\ link \in [Links -> LinkStates]
    BY DEF NetTypes, OtherTypes
  <1>2. ASSUME \A l \in Links : SoundLink(link[l], l), link = [l \in Links |-> link[l]]
        PROVE  link \in [Links -> LinkStates]
    BY <1>2 DEF SoundLink
  <1> QED BY <1>1, <1>2, SoundLinks

LEMMA LinkInvNext ==
  ASSUME OtherTypes', link' = [l \in Links |-> link'[l]],
         \A l \in Links : SoundLink(link'[l], l),
         \A l \in Links : BufferCached(l, Owner(l))' /\ TimerRuns(l, Owner(l))'
  PROVE  LinkInv'
PROOF
  <1>1. link' \in [Links -> LinkStates]
    BY DEF SoundLink
  <1>2. NetTypes'
    BY <1>1 DEF NetTypes, OtherTypes
  <1>3. FlowBalance'
    BY DEF FlowBalance, SoundLink, Fits
  <1> QED BY <1>2, <1>3 DEF LinkInv

LEMMA LinkInit == NetInit => LinkInv
PROOF
  <1> SUFFICES ASSUME NetInit PROVE LinkInv OBVIOUS
  <1>1. ASSUME NEW l \in Links
        PROVE  /\ SoundLink(link[l], l) /\ link[l].buffer = <<>> /\ link[l].timer = Stopped
    <2> DEFINE k == link[l]
    <2>1. k = [q |-> <<>>, buffer |-> <<>>, waiting |-> <<>>, used |-> 0,
               flow |-> FlowPerTick[l], updated |-> 0, timer |-> Stopped]
      BY DEF NetInit, NewLink
    <2> HIDE DEF k
    <2>2. /\ <<>> \in Seq(Vehicles) /\ <<>> \in Seq(QueueEntries)
          /\ FlowPerTick[l] \in Nat
      BY LinkAssumption
    <2>3. k \in LinkStates /\ k.buffer = <<>> /\ k.timer = Stopped /\ k.flow = FlowPerTick[l]
      BY <2>1, <2>2 DEF LinkStates
    <2>4. SoundLink(k, l)
      BY <2>2, <2>3 DEF SoundLink, Fits
    <2> QED BY <2>3, <2>4 DEF k
  <1>2. OtherTypes
    BY DEF NetInit, OtherTypes
  <1>3. link = [l \in Links |-> link[l]]
    BY DEF NetInit
  <1> QED BY <1>1, <1>2, <1>3, LinkInvIs DEF BufferCached, TimerRuns

LEMMA DepartKeeps ==
  ASSUME LinkInv, NEW r \in Ranks, NEW v \in Vehicles, Depart(r, v)
  PROVE  LinkInv'
PROOF
  <1> DEFINE l0 == Route[v][1]
  <1>1. l0 \in Links /\ Owner(l0) = r
    BY NetworkAssumption DEF Depart
  <1>2. /\ OtherTypes /\ link = [l \in Links |-> link[l]]
        /\ \A l \in Links : /\ SoundLink(link[l], l)
                            /\ BufferCached(l, Owner(l)) /\ TimerRuns(l, Owner(l))
    BY LinkInvIs
  <1>3. /\ link' = [link EXCEPT ![l0] = PushVehToWaitingList(link[l0], v)]
        /\ activeLinks' = [activeLinks EXCEPT ![r] = @ \cup {l0}]
        /\ UNCHANGED <<pc, now, todo, outQ, outUsed, activeNodes, msgs>>
    BY DEF Depart
  <1> HIDE DEF l0
  <1>4. OtherTypes'
    BY <1>1, <1>2, <1>3 DEF OtherTypes
  <1>5. ASSUME NEW l \in Links
        PROVE  /\ SoundLink(link'[l], l)
               /\ link'[l].buffer = link[l].buffer /\ link'[l].timer = link[l].timer
    <2>1. CASE l = l0
      BY <1>2, <1>3, <2>1, PushWaitingKeeps
    <2>2. CASE l # l0
      BY <1>2, <1>3, <2>2
    <2> QED BY <2>1, <2>2
  <1>6. link' = [l \in Links |-> link'[l]]
    BY <1>2, <1>3
  <1>7. ASSUME NEW l \in Links PROVE BufferCached(l, Owner(l))' /\ TimerRuns(l, Owner(l))'
    <2>1. activeLinks[Owner(l)] \subseteq activeLinks'[Owner(l)]
      BY <1>2, <1>3, OwnerIs DEF OtherTypes
    <2>2. Owner(l)' = Owner(l)
      BY DEF Owner
    <2> QED BY <1>2, <1>3, <1>5, <2>1, <2>2 DEF BufferCached, TimerRuns
  <1> QED BY <1>4, <1>5, <1>6, <1>7, LinkInvNext

LEMMA StartNodesKeeps ==
  ASSUME LinkInv, NEW r \in Ranks, StartNodes(r)
  PROVE  LinkInv'
PROOF
  <1>1. /\ OtherTypes /\ link = [l \in Links |-> link[l]]
        /\ \A l \in Links : /\ SoundLink(link[l], l)
                            /\ BufferCached(l, Owner(l)) /\ TimerRuns(l, Owner(l))
    BY LinkInvIs
  <1>2. /\ pc[r] = "depart" /\ pc' = [pc EXCEPT ![r] = "nodes"]
        /\ todo' = [todo EXCEPT ![r] = activeNodes[r]]
        /\ UNCHANGED <<now, link, outQ, activeLinks, activeNodes, msgs>>
    BY DEF StartNodes
  <1>3. OtherTypes'
    BY <1>1, <1>2 DEF OtherTypes
  <1>4. ASSUME NEW l \in Links PROVE BufferCached(l, Owner(l))' /\ TimerRuns(l, Owner(l))'
    <2>1. Owner(l) \in Ranks /\ Owner(l)' = Owner(l)
      BY OwnerIs DEF Owner
    <2>2. CASE Owner(l) = r
      <3>1. pc'[r] = "nodes" /\ todo'[r] = activeNodes[r]
        BY <1>1, <1>2 DEF OtherTypes
      <3>2. BufferCached(l, r) /\ TimerRuns(l, r)
        BY <1>1, <2>2
      <3> QED BY <1>2, <2>1, <2>2, <3>1, <3>2 DEF BufferCached, TimerRuns
    <2>3. CASE Owner(l) # r
      <3>1. pc'[Owner(l)] = pc[Owner(l)] /\ todo'[Owner(l)] = todo[Owner(l)]
        BY <1>1, <1>2, <2>1, <2>3 DEF OtherTypes
      <3> QED BY <1>1, <1>2, <2>1, <3>1 DEF BufferCached, TimerRuns
    <2> QED BY <2>2, <2>3
  <1> QED BY <1>1, <1>2, <1>3, <1>4, LinkInvNext

LEMMA MoveVehicleKeeps ==
  ASSUME LinkInv, NEW r \in Ranks, NEW n \in Nodes, NEW l0 \in Links, MoveVehicle(r, n, l0)
  PROVE  LinkInv'
PROOF
  <1> DEFINE v == Head(link[l0].buffer)
             next == NextLink(v)
             popped == [link EXCEPT ![l0] = PopVeh(link[l0])]
             pushed == IF IsSplit(next) THEN popped
                       ELSE [popped EXCEPT ![next] = PushVehToQueue(popped[next], next, v, now[r])]
  <1>1. /\ OtherTypes /\ link = [l \in Links |-> link[l]]
        /\ \A l \in Links : /\ SoundLink(link[l], l)
                            /\ BufferCached(l, Owner(l)) /\ TimerRuns(l, Owner(l))
    BY LinkInvIs
  <1>2. /\ pc[r] = "nodes" /\ n \in todo[r] /\ To[l0] = n /\ l0 \in activeLinks[r]
        /\ ShouldVehMoveOut(l0, now[r])
        /\ link' = pushed
        /\ \/ outQ' = [outQ EXCEPT ![next] = Append(@, v)]
           \/ outQ' = outQ
        /\ activeLinks' = [activeLinks EXCEPT ![r] =
                             ((@ \cup {next}) \ {l0}) \cup StillActive(l0, pushed[l0])]
        /\ UNCHANGED <<pc, now, todo, activeNodes, msgs>>
    BY Zenon DEF MoveVehicle, InLinks
  <1>3. Owner(l0) = r
    BY <1>1, <1>2, OwnerIs DEF OtherTypes
  <1>4. link[l0].buffer # <<>> /\ link[l0].buffer \in Seq(Vehicles) /\ v \in Vehicles
    <2>1. link[l0].buffer # <<>> /\ link[l0].buffer \in Seq(Vehicles)
      BY <1>1, <1>2 DEF ShouldVehMoveOut, OffersVeh, SoundLink, LinkStates
    <2> QED BY <2>1
  <1> HIDE DEF v, next
  <1>5. ASSUME NEW l \in Links
        PROVE  /\ SoundLink(popped[l], l)
               /\ l # l0 => /\ popped[l].buffer = link[l].buffer
                            /\ popped[l].timer = link[l].timer
               /\ l = l0 => popped[l].timer = Stopped
    <2>1. CASE l = l0
      <3>1. popped[l] = PopVeh(link[l0])
        BY <1>1, <2>1
      <3> QED BY <1>1, <1>4, <2>1, <3>1, PopKeeps
    <2>2. CASE l # l0
      BY <1>1, <2>2
    <2> QED BY <2>1, <2>2
  <1>6. popped = [l \in Links |-> popped[l]]
    BY <1>1
  <1> HIDE DEF popped
  <1>7. now[r] \in Nat
    BY <1>1 DEF OtherTypes
  <1>9. /\ pushed = [l \in Links |-> pushed[l]]
        /\ \A l \in Links : pushed[l] = IF l = next /\ ~IsSplit(next)
                                        THEN PushVehToQueue(popped[l], l, v, now[r])
                                        ELSE popped[l]
    BY <1>6
  <1> HIDE DEF pushed
  <1>8. ASSUME NEW l \in Links
        PROVE  /\ SoundLink(pushed[l], l)
               /\ pushed[l].buffer = popped[l].buffer /\ pushed[l].timer = popped[l].timer
    <2>1. SoundLink(popped[l], l)
      BY <1>5
    <2>2. LET e == PushVehToQueue(popped[l], l, v, now[r]) IN
            SoundLink(e, l) /\ e.buffer = popped[l].buffer /\ e.timer = popped[l].timer
      <3> DEFINE k == popped[l]
                 t == now[r]
                 e == PushVehToQueue(k, l, v, t)
      <3>1. SoundLink(k, l) /\ v \in Vehicles /\ t \in Nat
        BY <1>4, <1>7, <2>1
      <3> HIDE DEF k, t
      <3>2. SoundLink(e, l) /\ e.buffer = k.buffer /\ e.timer = k.timer
        BY <3>1, PushQueueSame
      <3> QED BY <3>2, Zenon DEF k, t
    <2> QED BY <1>9, <2>1, <2>2
  <1>10. OtherTypes'
    <2>1. activeLinks' = [s \in Ranks |-> activeLinks'[s]]
      BY <1>1, <1>2 DEF OtherTypes
    <2>2. outQ' \in [Links -> Seq(Vehicles)]
      <3>1. CASE next \in Links
        <4>1. Append(outQ[next], v) \in Seq(Vehicles)
          BY <1>1, <1>4, <3>1 DEF OtherTypes
        <4> QED BY <1>1, <1>2, <4>1 DEF OtherTypes
      <3>2. CASE next \notin Links
        BY <1>1, <1>2, <3>2 DEF OtherTypes
      <3> QED BY <3>1, <3>2
    <2> QED BY <1>1, <1>2, <2>1, <2>2 DEF OtherTypes
  <1>11. ASSUME NEW l \in Links PROVE BufferCached(l, Owner(l))' /\ TimerRuns(l, Owner(l))'
    <2>1. Owner(l) \in Ranks /\ Owner(l)' = Owner(l)
      BY OwnerIs DEF Owner
    <2>2. BufferCached(l, Owner(l)) /\ TimerRuns(l, Owner(l))
      BY <1>1
    <2>3. CASE l = l0
      <3>1. link'[l].timer = Stopped
        BY <1>2, <1>5, <1>8, <2>3
      <3>2. link'[l].buffer # <<>> => l \in activeLinks'[r]
        <4>1. pushed[l0].buffer # <<>> => l0 \in StillActive(l0, pushed[l0])
          BY DEF StillActive, IsActive
        <4> QED BY <1>1, <1>2, <2>3, <4>1 DEF OtherTypes
      <3> QED BY <1>2, <1>3, <2>1, <2>3, <3>1, <3>2 DEF BufferCached, TimerRuns
    <2>4. CASE l # l0
      <3>1. link'[l].timer = link[l].timer /\ link'[l].buffer = link[l].buffer
        BY <1>2, <1>5, <1>8, <2>4
      <3>2. l \in activeLinks[Owner(l)] => l \in activeLinks'[Owner(l)]
        BY <1>1, <1>2, <2>1, <2>4 DEF OtherTypes
      <3> QED BY <1>2, <2>1, <2>2, <3>1, <3>2 DEF BufferCached, TimerRuns
    <2> QED BY <2>3, <2>4
  <1>12. link' = [l \in Links |-> link'[l]] /\ \A l \in Links : SoundLink(link'[l], l)
    BY <1>2, <1>8, <1>9
  <1> QED BY <1>10, <1>11, <1>12, LinkInvNext

LEMMA FinishNodeKeeps ==
  ASSUME LinkInv, NEW r \in Ranks, NEW n \in Nodes, FinishNode(r, n)
  PROVE  LinkInv'
PROOF
  <1> DEFINE ins == InLinks(n) \cap activeLinks[r]
             t == now[r]
  <1>1. /\ OtherTypes /\ link = [l \in Links |-> link[l]]
        /\ \A l \in Links : /\ SoundLink(link[l], l)
                            /\ BufferCached(l, Owner(l)) /\ TimerRuns(l, Owner(l))
    BY LinkInvIs
  <1>2. /\ pc[r] = "nodes" /\ n \in todo[r]
        /\ \A l \in ins : ~ShouldVehMoveOut(l, t)
        /\ link' = [l \in Links |-> IF l \in ins THEN Asked(link[l], t) ELSE link[l]]
        /\ \/ activeNodes' = activeNodes
           \/ activeNodes' = [activeNodes EXCEPT ![r] = @ \ {n}]
        /\ todo' = [todo EXCEPT ![r] = @ \ {n}]
        /\ UNCHANGED <<pc, now, outQ, activeLinks, msgs>>
    <2>1. activeNodes' = [activeNodes EXCEPT ![r] =
                            IF \E l \in ins : OffersVeh(link[l]) THEN @ ELSE @ \ {n}]
      BY DEF FinishNode
    <2>2. \/ activeNodes' = activeNodes
          \/ activeNodes' = [activeNodes EXCEPT ![r] = @ \ {n}]
      BY <1>1, <2>1 DEF OtherTypes
    <2> QED BY <2>2 DEF FinishNode
  <1>3. t \in Nat /\ pc'[r] = pc[r] /\ todo'[r] = todo[r] \ {n} /\ Part[n] = r
    BY <1>1, <1>2 DEF OtherTypes
  <1>4. OtherTypes'
    <2>1. activeNodes' \in [Ranks -> SUBSET Nodes] /\ todo' \in [Ranks -> SUBSET Nodes]
      BY ZenonT(40), <1>1, <1>2 DEF OtherTypes
    <2>2. \A s \in Ranks : activeNodes'[s] \subseteq activeNodes[s] /\ todo'[s] \subseteq todo[s]
      BY <1>1, <1>2 DEF OtherTypes
    <2>3. \A s \in Ranks : \A x \in todo'[s] \cup activeNodes'[s] : Part[x] = s
      BY <1>1, <2>2 DEF OtherTypes
    <2> QED BY <1>1, <1>2, <2>1, <2>3 DEF OtherTypes
  <1>5. ASSUME NEW l \in Links
        PROVE  /\ SoundLink(link'[l], l) /\ link'[l].buffer = link[l].buffer
               /\ l \in ins => /\ link'[l] = Asked(link[l], t)
                               /\ link'[l].timer = IF link[l].buffer # <<>> /\ link[l].timer = Stopped
                                                   THEN t ELSE link[l].timer
               /\ l \notin ins => link'[l] = link[l]
    <2>1. LET a == Asked(link[l], t) IN
            /\ SoundLink(a, l) /\ a.buffer = link[l].buffer
            /\ a.timer = IF link[l].buffer # <<>> /\ link[l].timer = Stopped
                         THEN t ELSE link[l].timer
      BY <1>1, <1>3, AskedKeeps
    <2>2. link'[l] = IF l \in ins THEN Asked(link[l], t) ELSE link[l]
      BY <1>2
    <2> HIDE DEF ins, t
    <2> QED BY <1>1, <2>1, <2>2
  <1>6. ASSUME NEW l \in Links PROVE BufferCached(l, Owner(l))' /\ TimerRuns(l, Owner(l))'
    <2>1. Owner(l) \in Ranks /\ Owner(l)' = Owner(l) /\ Owner(l) = Part[To[l]]
      BY OwnerIs DEF Owner
    <2>2. BufferCached(l, Owner(l)) /\ TimerRuns(l, Owner(l))
      BY <1>1
    <2>3. CASE Owner(l) # r
      <3>1. l \notin ins /\ activeNodes'[Owner(l)] = activeNodes[Owner(l)]
                         /\ todo'[Owner(l)] = todo[Owner(l)]
        BY <1>1, <1>2, <1>3, <2>1, <2>3 DEF InLinks, OtherTypes
      <3> QED BY <1>2, <1>5, <2>1, <2>2, <3>1 DEF BufferCached, TimerRuns
    <2>4. CASE Owner(l) = r
      <3>1. BufferCached(l, r)' /\ (link[l].buffer # <<>> => l \in activeLinks[r])
        BY <1>2, <1>5, <2>2, <2>4 DEF BufferCached
      <3>2. TimerRuns(l, r)'
        <4>1. CASE l \in ins
          <5>1. ~ShouldVehMoveOut(l, t)
            BY <1>2, <4>1
          <5>2. link[l].buffer # <<>> => ~IsStuck(link'[l], t)
            BY <1>1, <1>5, <4>1, <5>1, SoundOffers DEF ShouldVehMoveOut
          <5>3. link[l].timer # Stopped => link[l].buffer # <<>> /\ link[l].timer <= t
            BY <1>2, <2>2, <2>4 DEF TimerRuns
          <5>4. link'[l].timer # Stopped =>
                  /\ link'[l].buffer # <<>> /\ link'[l].timer <= t
                  /\ ~IsStuck(link'[l], t)
            <6> HIDE DEF t, ins
            <6> QED BY <1>3, <1>5, <4>1, <5>2, <5>3
          <5>5. link'[l].timer \in Nat \cup {Stopped}
            BY <1>5 DEF SoundLink, LinkStates
          <5>6. link'[l].timer # Stopped => t - link'[l].timer < Threshold
            <6> HIDE DEF t
            <6> QED BY <1>3, <5>4, <5>5, LinkAssumption DEF IsStuck, Stopped
          <5> QED BY <1>2, <1>3, <5>4, <5>6 DEF TimerRuns
        <4>2. CASE l \notin ins
          <5>1. link'[l] = link[l]
            BY <1>5, <4>2
          <5>2. link[l].timer # Stopped => To[l] # n
            BY <2>2, <2>4, <3>1, <4>2 DEF TimerRuns, InLinks
          <5> QED BY <1>2, <1>3, <2>2, <2>4, <5>1, <5>2 DEF TimerRuns
        <4> QED BY <4>1, <4>2
      <3> QED BY <2>1, <2>4, <3>1, <3>2
    <2> QED BY <2>3, <2>4
  <1>7. link' = [l \in Links |-> link'[l]]
    BY <1>2
  <1> QED BY <1>4, <1>5, <1>6, <1>7, LinkInvNext

LEMMA MoveLinksKeeps ==
  ASSUME LinkInv, NEW r \in Ranks, MoveLinks(r)
  PROVE  LinkInv'
PROOF
  <1> DEFINE act == activeLinks[r] \cap LocalTo(r)
             t == now[r]
             step == [l \in act |-> DoSimStep(link[l], l, Arriving, t)]
             moved == [l \in act |-> step[l].link]
             d(l) == DoSimStep(link[l], l, Arriving, t).link
             sent(n) == [from |-> r, to |-> n, time |-> t,
                         vehs |-> [l \in {o \in OutOf(r) : Owner(o) = n} |-> outQ[l]],
                         caps |-> [l \in {i \in InTo(r) : Part[From[i]] = n} |->
                                     IF l \in act THEN Released(l, moved[l]) ELSE 0]]
  <1>1. /\ OtherTypes /\ link = [l \in Links |-> link[l]]
        /\ \A l \in Links : /\ SoundLink(link[l], l)
                            /\ BufferCached(l, Owner(l)) /\ TimerRuns(l, Owner(l))
    BY LinkInvIs
  <1>2. /\ pc[r] = "nodes" /\ todo[r] = {}
        /\ link' = [l \in Links |-> IF l \in act THEN Asked(moved[l], t + 1) ELSE link[l]]
        /\ activeNodes' = [activeNodes EXCEPT ![r] =
                             @ \cup {To[l] : l \in {a \in act : ToNodesActive(a, moved[a])}}]
        /\ activeLinks' = [activeLinks EXCEPT ![r] = {l \in act : IsActive(moved[l])}]
        /\ outQ' = TakeVeh(r)
        /\ msgs' = msgs \cup {sent(n) : n \in Neighbours(r)}
        /\ pc' = [pc EXCEPT ![r] = "exchange"]
        /\ UNCHANGED <<now, todo>>
    BY Zenon DEF MoveLinks
  <1>3. \A l \in act : moved[l] = d(l)
    OBVIOUS
  <1>4. \A l \in act : l \in Links /\ Owner(l) = r
    BY DEF LocalTo
  <1>5. t \in Nat /\ t + 1 \in Nat
    BY <1>1 DEF OtherTypes
  <1>6. \A m \in msgs' : m.vehs \in [{l \in OutOf(m.from) : Owner(l) = m.to} -> Seq(Vehicles)]
    <2>1. ASSUME NEW n \in Neighbours(r)
          PROVE  sent(n).vehs \in [{l \in OutOf(sent(n).from) : Owner(l) = sent(n).to} -> Seq(Vehicles)]
      <3>1. sent(n).from = r /\ sent(n).to = n
                /\ sent(n).vehs = [l \in {o \in OutOf(r) : Owner(o) = n} |-> outQ[l]]
        OBVIOUS
      <3> HIDE DEF sent
      <3> QED BY <1>1, <3>1 DEF OtherTypes, OutOf
    <2> HIDE DEF sent
    <2> TAKE m \in msgs'
    <2>2. CASE m \in msgs
      BY <1>1, <2>2 DEF OtherTypes
    <2>3. CASE \E n \in Neighbours(r) : m = sent(n)
      BY <2>1, <2>3, Zenon
    <2> QED BY <1>2, <2>2, <2>3, Zenon
  <1> HIDE DEF sent, act, step, moved, t
  <1>7. ASSUME NEW l \in act
        PROVE  /\ SoundLink(moved[l], l) /\ moved[l].timer = link[l].timer
               /\ link[l].buffer # <<>> => moved[l].buffer # <<>>
    <2>1. l \in Links /\ SoundLink(link[l], l) /\ moved[l] = d(l)
      BY <1>1, <1>3, <1>4
    <2>2. /\ SoundLink(d(l), l) /\ d(l).timer = link[l].timer
          /\ link[l].buffer # <<>> => d(l).buffer # <<>>
      BY <1>5, <2>1, SimStepKeeps
    <2> QED BY <2>1, <2>2
  <1>8. ASSUME NEW l \in act
        PROVE  /\ SoundLink(link'[l], l) /\ link'[l].buffer = moved[l].buffer
               /\ link'[l].timer = IF moved[l].buffer # <<>> /\ link[l].timer = Stopped
                                   THEN t + 1 ELSE link[l].timer
    <2>1. link'[l] = Asked(moved[l], t + 1)
      BY <1>2, <1>4
    <2> QED BY <1>4, <1>5, <1>7, <2>1, AskedKeeps
  <1>9. \A l \in Links \ act : link'[l] = link[l]
    BY <1>2
  <1>10. OtherTypes'
    <2>1. outQ' \in [Links -> Seq(Vehicles)]
      BY <1>1, <1>2 DEF OtherTypes, TakeVeh
    <2>2. \A l \in act : To[l] \in Nodes /\ Part[To[l]] = r
      BY <1>4, OwnerIs
    <2>3. /\ activeNodes' \in [Ranks -> SUBSET Nodes]
          /\ \A s \in Ranks : \A n \in activeNodes'[s] : n \in activeNodes[s] \/ Part[n] = s
      BY <1>1, <1>2, <2>2 DEF OtherTypes
    <2>4. activeLinks' = [s \in Ranks |-> activeLinks'[s]] /\ pc' \in [Ranks -> {"depart", "nodes", "exchange", "done"}]
      BY <1>1, <1>2 DEF OtherTypes
    <2> QED BY <1>1, <1>2, <1>6, <2>1, <2>3, <2>4 DEF OtherTypes
  <1>11. ASSUME NEW l \in Links PROVE BufferCached(l, Owner(l))' /\ TimerRuns(l, Owner(l))'
    <2>1. Owner(l) \in Ranks /\ Owner(l)' = Owner(l) /\ Owner(l) = Part[To[l]]
      BY OwnerIs DEF Owner
    <2>2. BufferCached(l, Owner(l)) /\ TimerRuns(l, Owner(l))
      BY <1>1
    <2>3. CASE Owner(l) # r
      <3>1. /\ l \notin act /\ activeNodes'[Owner(l)] = activeNodes[Owner(l)]
            /\ activeLinks'[Owner(l)] = activeLinks[Owner(l)] /\ pc'[Owner(l)] = pc[Owner(l)]
        BY <1>1, <1>2, <1>4, <2>1, <2>3 DEF OtherTypes
      <3> QED BY <1>2, <1>9, <2>1, <2>2, <3>1 DEF BufferCached, TimerRuns
    <2>4. CASE Owner(l) = r /\ l \in act
      <3>1. link'[l].buffer # <<>> => l \in activeLinks'[r] /\ To[l] \in activeNodes'[r]
        <4>1. moved[l].buffer # <<>> => ToNodesActive(l, moved[l]) /\ IsActive(moved[l])
          BY <1>7, <2>4, SoundOffers DEF ToNodesActive, IsActive
        <4> QED BY <1>1, <1>2, <1>8, <2>4, <4>1 DEF OtherTypes
      <3>2. pc'[r] = "exchange" /\ now'[r] = t /\ Threshold \in Nat
        BY <1>1, <1>2, LinkAssumption DEF OtherTypes, t
      <3>3. link[l].timer # Stopped => /\ link[l].buffer # <<>> /\ link[l].timer <= t
                                       /\ t - link[l].timer < Threshold
        BY <1>2, <2>2, <2>4 DEF TimerRuns, t
      <3>4. link[l].timer \in Nat \cup {Stopped}
        BY <1>1 DEF SoundLink, LinkStates
      <3>5. link'[l].timer # Stopped => /\ link'[l].buffer # <<>> /\ link'[l].timer <= t + 1
                                        /\ t - link'[l].timer < Threshold
        BY <1>5, <1>7, <1>8, <2>4, <3>2, <3>3, <3>4 DEF Stopped
      <3> QED BY <2>1, <2>4, <3>1, <3>2, <3>5 DEF BufferCached, TimerRuns
    <2>5. CASE Owner(l) = r /\ l \notin act
      <3>1. link[l].buffer = <<>>
        BY <2>2, <2>5 DEF BufferCached, act, LocalTo
      <3> QED BY <1>9, <2>1, <2>2, <2>5, <3>1 DEF BufferCached, TimerRuns
    <2> QED BY <2>3, <2>4, <2>5
  <1>12. link' = [l \in Links |-> link'[l]] /\ \A l \in Links : SoundLink(link'[l], l)
    BY <1>1, <1>2, <1>8, <1>9
  <1> QED BY <1>10, <1>11, <1>12, LinkInvNext

\* The queue entries of vehicles vs that come over In link l.
EntriesOf(l, vs, t) == [i \in 1..Len(vs) |-> [veh |-> vs[i], exit |-> t + Duration[l][vs[i]]]]

\* The vehicles of a message enter the queue; buffer, flow and timer stay.
LEMMA PushReceivedKeeps ==
  ASSUME NEW l \in Links, NEW k, SoundLink(k, l), NEW vs \in Seq(Vehicles), NEW t \in Nat
  PROVE  LET e == PushReceived(k, l, vs, t) IN
           /\ SoundLink(e, l)
           /\ EntriesOf(l, vs, t) \in Seq(QueueEntries) /\ e.q = k.q \o EntriesOf(l, vs, t)
           /\ e.buffer = k.buffer /\ e.waiting = k.waiting /\ e.used = k.used + PceSum(vs)
           /\ e.flow = k.flow /\ e.timer = k.timer
PROOF
  <1> DEFINE entry(i) == [veh |-> vs[i], exit |-> t + Duration[l][vs[i]]]
             new == EntriesOf(l, vs, t)
             q == k.q \o new
             used == k.used + PceSum(vs)
             e == PushReceived(k, l, vs, t)
  <1>1. /\ k \in LinkStates /\ k.q \in Seq(QueueEntries) /\ k.used \in Int
        /\ k.flow <= FlowPerTick[l] /\ Fits(k.buffer, k.flow)
    BY DEF SoundLink, LinkStates
  <1>2. ASSUME NEW i \in 1..Len(vs) PROVE entry(i) \in QueueEntries
    <2>1. vs[i] \in Vehicles
      OBVIOUS
    <2>2. t + Duration[l][vs[i]] \in Nat
      BY <2>1, DurationIs
    <2> QED BY <2>1, <2>2 DEF QueueEntries
  <1>3. new \in Seq(QueueEntries)
    <2>1. Len(vs) \in Nat
      OBVIOUS
    <2>2. new = [i \in 1..Len(vs) |-> entry(i)]
      BY DEF EntriesOf
    <2> HIDE DEF entry, new
    <2> QED BY <1>2, <2>1, <2>2
  <1>4. q \in Seq(QueueEntries)
    BY <1>1, <1>3
  <1>5. used \in Int
    <2>1. PICK g \in [0..Len(vs) -> Nat] : IsSum(g, vs, Len(vs))
      BY SumExists
    <2>2. PceSum(vs) \in Nat
      BY <2>1, PceSumIs
    <2> QED BY <1>1, <2>2
  <1>6. e = [k EXCEPT !.q = q, !.used = used]
    BY DEF PushReceived, EntriesOf
  <1> HIDE DEF q, used, e
  <1>7. /\ e \in LinkStates /\ e.q = q /\ e.used = used
        /\ e.buffer = k.buffer /\ e.waiting = k.waiting /\ e.flow = k.flow /\ e.timer = k.timer
    BY <1>1, <1>4, <1>5, <1>6 DEF LinkStates
  <1>8. SoundLink(e, l)
    BY <1>1, <1>7 DEF SoundLink
  <1> QED BY <1>3, <1>7, <1>8 DEF e, q, used

\* Every In link of a rank is in a message that the rank waits for.
LEMMA ReceivedTyped ==
  ASSUME OtherTypes, NEW r \in Ranks,
         NEW got, got \subseteq msgs, \A m \in got : m.to = r,
         {m.from : m \in got} = Neighbours(r), NEW l \in InTo(r)
  PROVE  (CHOOSE m \in got : l \in DOMAIN m.vehs).vehs[l] \in Seq(Vehicles)
PROOF
  <1>1. ASSUME NEW m \in got
        PROVE  m.vehs \in [{k \in OutOf(m.from) : Owner(k) = r} -> Seq(Vehicles)]
    <2>1. m \in msgs /\ m.to = r
      OBVIOUS
    <2>2. m.vehs \in [{k \in OutOf(m.from) : Owner(k) = m.to} -> Seq(Vehicles)]
      BY <2>1 DEF OtherTypes
    <2> QED BY <2>1, <2>2, Zenon
  <1>2. l \in Links /\ IsSplit(l) /\ Owner(l) = r /\ Part[From[l]] \in Neighbours(r)
    BY DEF InTo, LocalTo, Neighbours
  <1>3. PICK m \in got : m.from = Part[From[l]]
    BY <1>2
  <1>4. l \in DOMAIN m.vehs
    BY <1>1, <1>2, <1>3 DEF OutOf
  <1> DEFINE c == CHOOSE x \in got : l \in DOMAIN x.vehs
  <1>5. c \in got /\ l \in DOMAIN c.vehs
    BY <1>4
  <1> HIDE DEF c
  <1>6. c.vehs[l] \in Seq(Vehicles)
    BY <1>1, <1>5
  <1> QED BY <1>6 DEF c

LEMMA ExchangeKeeps ==
  ASSUME LinkInv, NEW r \in Ranks, Exchange(r)
  PROVE  LinkInv'
PROOF
  <1> DEFINE got == {m \in msgs : m.to = r /\ m.time = now[r]}
             vehsOn == [l \in InTo(r) |-> (CHOOSE m \in got : l \in DOMAIN m.vehs).vehs[l]]
             entered == {l \in InTo(r) : vehsOn[l] # <<>>}
  <1>1. /\ OtherTypes /\ link = [l \in Links |-> link[l]]
        /\ \A l \in Links : /\ SoundLink(link[l], l)
                            /\ BufferCached(l, Owner(l)) /\ TimerRuns(l, Owner(l))
    BY LinkInvIs
  <1>2. /\ pc[r] = "exchange"
        /\ {m.from : m \in got} = Neighbours(r)
        /\ msgs' = msgs \ got
        /\ link' = [l \in Links |->
                      IF l \in entered THEN PushReceived(link[l], l, vehsOn[l], now[r])
                      ELSE link[l]]
        /\ activeLinks' = [activeLinks EXCEPT ![r] = @ \cup entered]
        /\ now' = [now EXCEPT ![r] = @ + 1]
        /\ pc' = [pc EXCEPT ![r] = IF now[r] < EndTick THEN "depart" ELSE "done"]
        /\ UNCHANGED <<todo, outQ, activeNodes>>
    BY Zenon DEF Exchange
  <1>3. \A l \in entered : l \in Links /\ vehsOn[l] \in Seq(Vehicles)
    <2>1. got \subseteq msgs /\ \A m \in got : m.to = r
      OBVIOUS
    <2>2. \A l \in InTo(r) : vehsOn[l] = (CHOOSE m \in got : l \in DOMAIN m.vehs).vehs[l]
      OBVIOUS
    <2> HIDE DEF got
    <2>3. \A l \in InTo(r) : (CHOOSE m \in got : l \in DOMAIN m.vehs).vehs[l] \in Seq(Vehicles)
      BY ZenonT(40), <1>1, <1>2, <2>1, ReceivedTyped
    <2> HIDE DEF vehsOn
    <2> QED BY <2>2, <2>3 DEF InTo, LocalTo
  <1>4. got \subseteq msgs
    OBVIOUS
  <1>5. now[r] \in Nat
    BY <1>1 DEF OtherTypes
  <1> HIDE DEF got, vehsOn, entered
  <1>6. OtherTypes'
    <2>1. now' \in [Ranks -> Nat] /\ pc' \in [Ranks -> {"depart", "nodes", "exchange", "done"}]
      BY <1>1, <1>2 DEF OtherTypes
    <2>2. activeLinks' = [s \in Ranks |-> activeLinks'[s]]
      BY <1>1, <1>2 DEF OtherTypes
    <2> QED BY <1>1, <1>2, <1>4, <2>1, <2>2 DEF OtherTypes
  <1>7. ASSUME NEW l \in Links
        PROVE  /\ SoundLink(link'[l], l)
               /\ link'[l].buffer = link[l].buffer /\ link'[l].timer = link[l].timer
    <2>1. CASE l \in entered
      <3>1. link'[l] = PushReceived(link[l], l, vehsOn[l], now[r])
        BY <1>2, <2>1
      <3>2. SoundLink(link[l], l) /\ vehsOn[l] \in Seq(Vehicles)
        BY <1>1, <1>3, <2>1
      <3> QED BY <1>5, <3>1, <3>2, PushReceivedKeeps
    <2>2. CASE l \notin entered
      BY <1>1, <1>2, <2>2
    <2> QED BY <2>1, <2>2
  <1>8. ASSUME NEW l \in Links PROVE BufferCached(l, Owner(l))' /\ TimerRuns(l, Owner(l))'
    <2>1. Owner(l) \in Ranks /\ Owner(l)' = Owner(l)
      BY OwnerIs DEF Owner
    <2>2. BufferCached(l, Owner(l)) /\ TimerRuns(l, Owner(l))
      BY <1>1
    <2>3. CASE Owner(l) # r
      <3>1. /\ pc'[Owner(l)] = pc[Owner(l)] /\ now'[Owner(l)] = now[Owner(l)]
            /\ activeLinks'[Owner(l)] = activeLinks[Owner(l)]
        BY <1>1, <1>2, <2>1, <2>3 DEF OtherTypes
      <3> QED BY <1>2, <1>7, <2>1, <2>2, <3>1 DEF BufferCached, TimerRuns
    <2>4. CASE Owner(l) = r
      <3>1. /\ pc'[r] \in {"depart", "done"} /\ now'[r] = now[r] + 1
            /\ activeLinks[r] \subseteq activeLinks'[r]
        BY <1>1, <1>2 DEF OtherTypes
      <3> QED BY <1>2, <1>7, <2>1, <2>2, <2>4, <3>1 DEF BufferCached, TimerRuns
    <2> QED BY <2>3, <2>4
  <1>9. link' = [l \in Links |-> link'[l]]
    BY <1>2
  <1> QED BY <1>6, <1>7, <1>8, <1>9, LinkInvNext

LEMMA LinkStep == LinkInv /\ [NetNext]_netVars => LinkInv'
PROOF
  <1> SUFFICES ASSUME LinkInv, [NetNext]_netVars PROVE LinkInv'
    OBVIOUS
  <1>1. CASE UNCHANGED netVars
    BY <1>1 DEF netVars, LinkInv, NetTypes, FlowBalance, BufferCached, TimerRuns, Owner
  <1>2. CASE \E r \in Ranks : PartitionNext(r)
    <2>1. PICK r \in Ranks : PartitionNext(r)
      BY <1>2
    <2> QED BY <2>1, DepartKeeps, StartNodesKeeps, FinishNodeKeeps, MoveVehicleKeeps,
               MoveLinksKeeps, ExchangeKeeps DEF PartitionNext
  <1> QED BY <1>1, <1>2 DEF NetNext, NetTerminated

\* Stuck timers (StuckTimer, offers_veh, should_veh_move_out): in every run, for every
\* network and any number of ranks, a running timer belongs to a vehicle that is
\* offered, never lies in the future when move_nodes subtracts it from the unsigned
\* tick, and no link is left with a vehicle beyond the threshold.
THEOREM TimersAreSound == NetSpec => []StuckTimerSound
PROOF
  <1>1. LinkInv => StuckTimerSound
    <2> SUFFICES ASSUME LinkInv, NEW l \in Links, link[l].timer # Stopped
                 PROVE  /\ OffersVeh(link[l])
                        /\ pc[Owner(l)] \in {"depart", "nodes"} => link[l].timer <= now[Owner(l)]
                        /\ pc[Owner(l)] = "exchange" => now[Owner(l)] - link[l].timer < Threshold
      BY DEF StuckTimerSound
    <2>1. SoundLink(link[l], l) /\ TimerRuns(l, Owner(l))
      BY LinkInvIs
    <2> QED BY <2>1, SoundOffers DEF TimerRuns
  <1> QED BY <1>1, LinkInit, LinkStep, PTL DEF NetSpec

\* Flow capacity (Flowcap, add_waiting_to_buffer, add_queue_to_buffer, pop_veh): all
\* vehicles of a buffer but the last fit into what is left of the link's flow
\* capacity, for every network, whatever ticks the link slept and whatever it was
\* overdrawn by.
THEOREM FlowIsBalanced == NetSpec => []FlowBalance
PROOF
  <1>1. LinkInv => FlowBalance
    BY DEF LinkInv
  <1> QED BY <1>1, LinkInit, LinkStep, PTL DEF NetSpec

-----------------------------------------------------------------------------
(* The places of the vehicles.                                              *)

LEMMA MsgsKept ==
  ASSUME MsgsApart, msgs' = msgs, now' = now,
         \A r \in Ranks : pc[r] = "exchange" => pc'[r] = "exchange"
  PROVE  MsgsApart'
  BY DEF MsgsApart

\* Nothing moves.
LEMMA VehsStay ==
  ASSUME VehInv, UNCHANGED <<outQ, msgs, pos>>, MsgsApart',
         \A l \in Links : /\ Distinct(link'[l]) /\ OnLink(link'[l]) = OnLink(link[l])
                          /\ link'[l].buffer = link[l].buffer
  PROVE  VehInv'
PROOF
  <1>1. ASSUME NEW l \in Links
        PROVE  /\ InFlight(l)' = InFlight(l) /\ Placed(l)' = Placed(l)
               /\ PlacesApart(l)' /\ OnRoute(l)'
    <2>1. InFlight(l)' = InFlight(l)
      BY DEF InFlight
    <2>2. Placed(l)' = Placed(l)
      BY <2>1 DEF Placed
    <2>3. PlacesApart(l)'
      BY <2>1 DEF VehInv, PlacesApart
    <2>4. OnRoute(l)
      BY DEF VehInv
    <2>5. OnRoute(l)'
      BY <2>2, <2>4 DEF OnRoute, CurrLink
    <2> QED BY <2>1, <2>2, <2>3, <2>5
  <1>2. ASSUME NEW v \in Vehicles, NEW l \in Links, pos'[v] \in 1..Len(Route[v]), CurrLink(v)' = l
        PROVE  v \in Placed(l)'
    <2>1. CurrLink(v) = l
      BY <1>2 DEF CurrLink
    <2> QED BY <1>1, <1>2, <2>1 DEF VehInv
  <1> QED BY <1>1, <1>2 DEF VehInv

\* Vehicle v goes to link l1, place p of its route.
LEMMA VehMoves ==
  ASSUME VehInv, NEW v \in Vehicles, NEW p \in 1..Len(Route[v]), NEW l1 \in Links,
         Route[v][p] = l1, pos' = [pos EXCEPT ![v] = p], MsgsApart',
         \A l \in Links : PlacesApart(l)',
         \A l \in Links : Placed(l)' = (Placed(l) \ {v}) \cup (IF l = l1 THEN {v} ELSE {}),
         \A l \in Links : \A w \in SeqRange(link'[l].buffer) :
           w # v /\ w \in SeqRange(link[l].buffer)
  PROVE  VehInv'
PROOF
  <1>1. /\ pos' \in [Vehicles -> Nat] /\ pos'[v] = p
        /\ \A w \in Vehicles \ {v} : pos'[w] = pos[w]
    <2>1. p \in Nat
      BY NetworkAssumption
    <2> QED BY <2>1 DEF VehInv
  <1>2. ASSUME NEW l \in Links PROVE OnRoute(l)'
    <2>1. OnRoute(l)
      BY DEF VehInv
    <2>2. ASSUME NEW w \in Placed(l)'
          PROVE  w \in Vehicles /\ pos'[w] \in 1..Len(Route[w]) /\ Route[w][pos'[w]] = l
      <3>1. CASE w = v
        <4>1. l = l1
          BY <2>2, <3>1
        <4> QED BY <1>1, <3>1, <4>1
      <3>2. CASE w # v
        <4>1. w \in Placed(l)
          BY <2>2, <3>2
        <4> QED BY <1>1, <2>1, <3>2, <4>1 DEF OnRoute, CurrLink
      <3> QED BY <3>1, <3>2
    <2>3. ASSUME NEW w \in SeqRange(link'[l].buffer) PROVE pos'[w] # Len(Route[w])
      <3>1. w # v /\ w \in SeqRange(link[l].buffer)
        BY <2>3
      <3>2. w \in Placed(l)
        BY <3>1 DEF Placed, OnLink
      <3> QED BY <1>1, <2>1, <3>1, <3>2 DEF OnRoute
    <2> QED BY <2>2, <2>3 DEF OnRoute, CurrLink
  <1>3. ASSUME NEW w \in Vehicles, NEW l \in Links, pos'[w] \in 1..Len(Route[w]), CurrLink(w)' = l
        PROVE  w \in Placed(l)'
    <2>1. CASE w = v
      <3>1. l = l1
        BY <1>1, <1>3, <2>1 DEF CurrLink
      <3> QED BY <2>1, <3>1
    <2>2. CASE w # v
      <3>1. pos'[w] = pos[w] /\ CurrLink(w) = l
        BY <1>1, <1>3, <2>2 DEF CurrLink
      <3>2. w \in Placed(l)
        BY <1>3, <3>1 DEF VehInv
      <3> QED BY <2>2, <3>2
    <2> QED BY <2>1, <2>2
  <1> QED BY <1>1, <1>2, <1>3 DEF VehInv

LEMMA DepartPlaces ==
  ASSUME LinkInv, VehInv, NEW r \in Ranks, NEW v \in Vehicles, Depart(r, v)
  PROVE  VehInv' /\ v \notin Placed(Route[v][1])
         /\ Entered(link[Route[v][1]], link'[Route[v][1]], {v})
         /\ Route[v][1] \in Links
PROOF
  <1> DEFINE l0 == Route[v][1]
  <1>1. l0 \in Links /\ pos[v] = 0 /\ 1 \in 1..Len(Route[v])
    BY NetworkAssumption DEF Depart
  <1>2. \A l \in Links : SoundLink(link[l], l) /\ Distinct(link[l]) /\ PlacesApart(l) /\ OnRoute(l)
    BY LinkInvIs DEF VehInv, PlacesApart
  <1>3. /\ link' = [link EXCEPT ![l0] = PushVehToWaitingList(link[l0], v)]
        /\ pos' = [pos EXCEPT ![v] = 1]
        /\ UNCHANGED <<pc, now, outQ, msgs>>
    BY DEF Depart
  <1>4. link = [l \in Links |-> link[l]]
    BY LinkInvIs
  <1>5. \A l \in Links : v \notin Placed(l)
    BY <1>1, <1>2 DEF OnRoute
  <1> HIDE DEF l0
  <1>6. /\ link'[l0] = PushVehToWaitingList(link[l0], v)
        /\ \A l \in Links \ {l0} : link'[l] = link[l]
    BY <1>1, <1>3, <1>4
  <1>7. Entered(link[l0], link'[l0], {v})
    <2>1. v \notin OnLink(link[l0]) /\ SoundLink(link[l0], l0) /\ Distinct(link[l0])
      BY <1>1, <1>2, <1>5 DEF Placed
    <2> QED BY <1>1, <1>6, <2>1, PushWaitingEnters
  <1>8. ASSUME NEW l \in Links
        PROVE  /\ OnLink(link'[l]) = OnLink(link[l]) \cup (IF l = l0 THEN {v} ELSE {})
               /\ Distinct(link'[l]) /\ SeqRange(link'[l].buffer) = SeqRange(link[l].buffer)
    BY <1>2, <1>6, <1>7 DEF Entered
  <1>9. ASSUME NEW l \in Links
        PROVE  /\ PlacesApart(l)'
               /\ Placed(l)' = (Placed(l) \ {v}) \cup (IF l = l0 THEN {v} ELSE {})
               /\ \A w \in SeqRange(link'[l].buffer) : w # v /\ w \in SeqRange(link[l].buffer)
    <2>1. InFlight(l)' = InFlight(l) /\ outQ'[l] = outQ[l]
      BY <1>3 DEF InFlight
    <2>2. PlacesApart(l) /\ v \notin Placed(l)
      BY <1>2, <1>5
    <2>3. PlacesApart(l)'
      BY <1>8, <2>1, <2>2 DEF PlacesApart, Placed
    <2>4. Placed(l)' = (Placed(l) \ {v}) \cup (IF l = l0 THEN {v} ELSE {})
      BY <1>8, <2>1, <2>2 DEF Placed
    <2>5. \A w \in SeqRange(link'[l].buffer) : w # v /\ w \in SeqRange(link[l].buffer)
      BY <1>8, <2>2 DEF Placed, OnLink
    <2> QED BY <2>3, <2>4, <2>5
  <1>10. MsgsApart'
    BY <1>3, MsgsKept DEF VehInv
  <1>11. VehInv'
    <2>1. 1 \in 1..Len(Route[v]) /\ l0 \in Links /\ Route[v][1] = l0
      BY <1>1 DEF l0
    <2> QED BY <1>3, <1>9, <1>10, <2>1, VehMoves
  <1> QED BY <1>1, <1>5, <1>7, <1>11 DEF l0

LEMMA StartNodesPlaces ==
  ASSUME VehInv, NEW r \in Ranks, StartNodes(r)
  PROVE  VehInv'
PROOF
  <1>1. /\ pc[r] = "depart" /\ pc' = [pc EXCEPT ![r] = "nodes"]
        /\ UNCHANGED <<now, link, outQ, pos, msgs>>
    BY DEF StartNodes
  <1>2. \A s \in Ranks : pc[s] = "exchange" => pc'[s] = "exchange"
    BY <1>1
  <1>3. MsgsApart'
    BY <1>1, <1>2, MsgsKept DEF VehInv
  <1>4. \A l \in Links : Distinct(link[l])
    BY DEF VehInv, PlacesApart
  <1> QED BY <1>1, <1>3, <1>4, VehsStay

LEMMA FinishNodePlaces ==
  ASSUME LinkInv, VehInv, NEW r \in Ranks, NEW n \in Nodes, FinishNode(r, n)
  PROVE  /\ VehInv'
         /\ \A l \in Links : /\ OnLink(link'[l]) = OnLink(link[l])
                             /\ link'[l].used = link[l].used /\ link'[l].q = link[l].q
PROOF
  <1> DEFINE ins == InLinks(n) \cap activeLinks[r]
  <1>1. /\ link' = [l \in Links |-> IF l \in ins THEN Asked(link[l], now[r]) ELSE link[l]]
        /\ UNCHANGED <<pc, now, outQ, pos, msgs>>
    BY DEF FinishNode
  <1>2. \A l \in Links : SoundLink(link[l], l) /\ Distinct(link[l])
    BY LinkInvIs DEF VehInv, PlacesApart
  <1>3. now[r] \in Nat
    BY LinkInvIs DEF OtherTypes
  <1> HIDE DEF ins
  <1>4. ASSUME NEW l \in Links
        PROVE  /\ Distinct(link'[l]) /\ OnLink(link'[l]) = OnLink(link[l])
               /\ link'[l].buffer = link[l].buffer
               /\ link'[l].used = link[l].used /\ link'[l].q = link[l].q
    <2>1. link'[l] = IF l \in ins THEN Asked(link[l], now[r]) ELSE link[l]
      BY <1>1
    <2>2. LET a == Asked(link[l], now[r]) IN
            /\ OnLink(a) = OnLink(link[l]) /\ a.buffer = link[l].buffer /\ Distinct(a)
            /\ a.used = link[l].used /\ a.q = link[l].q
      BY <1>2, <1>3, AskedSame
    <2> QED BY <1>2, <2>1, <2>2
  <1>5. MsgsApart'
    BY <1>1, MsgsKept DEF VehInv
  <1>6. VehInv'
    BY <1>1, <1>4, <1>5, VehsStay
  <1> QED BY <1>4, <1>6

\* The next link of a vehicle in the buffer begins where the link ends.
LEMMA NextIs ==
  ASSUME VehInv, NEW l \in Links, NEW v \in SeqRange(link[l].buffer)
  PROVE  /\ v \in Vehicles /\ pos[v] \in 1..Len(Route[v]) /\ Route[v][pos[v]] = l
         /\ pos[v] + 1 \in 1..Len(Route[v])
         /\ NextLink(v) \in Links /\ NextLink(v) = Route[v][pos[v] + 1]
         /\ From[NextLink(v)] = To[l]
PROOF
  <1>1. v \in Placed(l)
    BY DEF Placed, OnLink
  <1>2. v \in Vehicles /\ pos[v] \in 1..Len(Route[v]) /\ Route[v][pos[v]] = l /\ pos[v] # Len(Route[v])
    BY <1>1 DEF VehInv, OnRoute, CurrLink
  <1>3. Route[v] \in Seq(Links) /\ \A i \in 1..Len(Route[v]) - 1 : To[Route[v][i]] = From[Route[v][i + 1]]
    BY <1>2, NetworkAssumption
  <1>4. pos[v] \in 1..Len(Route[v]) - 1 /\ pos[v] + 1 \in 1..Len(Route[v])
    BY <1>2, <1>3
  <1> QED BY <1>2, <1>3, <1>4 DEF NextLink

\* What moving a vehicle over a node does to the vehicles of a link.
VehicleMoved(l, l0, v, next) ==
  /\ OnLink(link'[l]) = (OnLink(link[l]) \ {v})
                          \cup (IF l = next /\ ~IsSplit(next) THEN {v} ELSE {})
  /\ Distinct(link'[l])
  /\ \A w \in SeqRange(link'[l].buffer) : w # v /\ w \in SeqRange(link[l].buffer)
  /\ SeqRange(outQ'[l]) = SeqRange(outQ[l])
                            \cup (IF l = next /\ IsSplit(next) THEN {v} ELSE {})
  /\ Once(outQ'[l])
  /\ outQ'[l] = IF l = next /\ IsSplit(next) THEN Append(outQ[l], v) ELSE outQ[l]
  /\ link[l].used = PceSum(Vehs(link[l].q)) => link'[l].used = PceSum(Vehs(link'[l].q))
  /\ link'[l].used = link[l].used + (IF l = next /\ ~IsSplit(next) THEN Pce[v] ELSE 0)

LEMMA VehicleMoves ==
  ASSUME LinkInv, VehInv, NEW r \in Ranks, NEW n \in Nodes, NEW l0 \in Links, MoveVehicle(r, n, l0)
  PROVE  LET v == Head(link[l0].buffer) IN
           /\ v \in SeqRange(link[l0].buffer)
           /\ \A l \in Links : VehicleMoved(l, l0, v, NextLink(v))
           /\ pos' = [pos EXCEPT ![v] = @ + 1]
PROOF
  <1> DEFINE v == Head(link[l0].buffer)
             next == NextLink(v)
             popped == [link EXCEPT ![l0] = PopVeh(link[l0])]
             pushed == IF IsSplit(next) THEN popped
                       ELSE [popped EXCEPT ![next] = PushVehToQueue(popped[next], next, v, now[r])]
  <1>1. /\ OtherTypes /\ link = [l \in Links |-> link[l]] /\ now[r] \in Nat
        /\ \A l \in Links : SoundLink(link[l], l) /\ Distinct(link[l])
        /\ \A l \in Links : PlacesApart(l) /\ OnRoute(l)
    BY LinkInvIs DEF VehInv, PlacesApart, OtherTypes
  <1>2. /\ ShouldVehMoveOut(l0, now[r]) /\ link' = pushed
        /\ IsSplit(next) => outQ' = [outQ EXCEPT ![next] = Append(@, v)]
        /\ ~IsSplit(next) => outQ' = outQ
        /\ pos' = [pos EXCEPT ![v] = @ + 1]
    BY Zenon DEF MoveVehicle
  <1>3. link[l0].buffer # <<>>
    BY <1>2 DEF ShouldVehMoveOut, OffersVeh
  <1>4. /\ v \in SeqRange(link[l0].buffer)
        /\ LET p == PopVeh(link[l0]) IN
             /\ SoundLink(p, l0)
             /\ Distinct(p) /\ v \notin OnLink(p) /\ OnLink(link[l0]) = OnLink(p) \cup {v}
             /\ SeqRange(p.buffer) \subseteq SeqRange(link[l0].buffer)
             /\ link[l0].used = PceSum(Vehs(link[l0].q)) => p.used = PceSum(Vehs(p.q))
             /\ p.used = link[l0].used
    BY <1>1, <1>3, PopLeaves, PopKeeps
  <1> HIDE DEF v
  <1>5. v \in Vehicles /\ next \in Links /\ Route[v][pos[v]] = l0
    BY <1>4, NextIs
  <1>6. /\ \A l \in Links \ {l0} : v \notin Placed(l)
        /\ v \in OnLink(link[l0])
    BY <1>1, <1>4, <1>5 DEF OnRoute, CurrLink, OnLink
  <1>7. /\ \A l \in Links : v \notin SeqRange(outQ[l])
        /\ \A l \in Links \ {l0} : v \notin OnLink(link[l])
    BY <1>1, <1>6 DEF PlacesApart, Placed
  <1> HIDE DEF next
  <1>8. ASSUME NEW l \in Links
        PROVE  /\ SoundLink(popped[l], l) /\ Distinct(popped[l]) /\ v \notin OnLink(popped[l])
               /\ OnLink(popped[l]) = OnLink(link[l]) \ {v}
               /\ SeqRange(popped[l].buffer) \subseteq SeqRange(link[l].buffer)
               /\ link[l].used = PceSum(Vehs(link[l].q)) => popped[l].used = PceSum(Vehs(popped[l].q))
               /\ popped[l].used = link[l].used /\ link[l].used \in Int
    <2> link[l].used \in Int
      BY <1>1 DEF SoundLink, LinkStates
    <2>1. CASE l = l0
      <3>1. popped[l] = PopVeh(link[l0])
        BY <1>1, <2>1
      <3> QED BY <1>4, <2>1, <3>1
    <2>2. CASE l # l0
      <3>1. popped[l] = link[l]
        BY <1>1, <2>2
      <3> QED BY <1>1, <1>7, <1>8, <2>2, <3>1
    <2> QED BY <2>1, <2>2
  <1>9. popped = [l \in Links |-> popped[l]]
    BY <1>1
  <1> HIDE DEF popped
  <1>10. \A l \in Links : pushed[l] = IF l = next /\ ~IsSplit(next)
                                      THEN PushVehToQueue(popped[l], l, v, now[r])
                                      ELSE popped[l]
    BY <1>9
  <1> HIDE DEF pushed
  <1>11. ASSUME NEW l \in Links
         PROVE  /\ SeqRange(outQ'[l]) = SeqRange(outQ[l])
                            \cup (IF l = next /\ IsSplit(next) THEN {v} ELSE {})
                /\ Once(outQ'[l])
                /\ outQ'[l] = IF l = next /\ IsSplit(next) THEN Append(outQ[l], v) ELSE outQ[l]
    <2>1. outQ[l] \in Seq(Vehicles) /\ Once(outQ[l])
      BY <1>1 DEF OtherTypes, PlacesApart
    <2>2. outQ'[l] = IF l = next /\ IsSplit(next) THEN Append(outQ[l], v) ELSE outQ[l]
      BY <1>1, <1>2 DEF OtherTypes
    <2>3. SeqRange(Append(outQ[l], v)) = SeqRange(outQ[l]) \cup {v} /\ Once(Append(outQ[l], v))
      BY <1>5, <1>7, <2>1, RangeAppend
    <2> QED BY <2>1, <2>2, <2>3
  <1>12. ASSUME NEW l \in Links PROVE VehicleMoved(l, l0, v, next)
    <2>1. v \notin SeqRange(popped[l].buffer)
      BY <1>8 DEF OnLink
    <2>2. CASE l = next /\ ~IsSplit(next)
      <3>1. link'[l] = PushVehToQueue(popped[l], l, v, now[r])
        BY <1>2, <1>10, <2>2
      <3>2. Entered(popped[l], link'[l], {v})
        BY <1>1, <1>5, <1>8, <3>1, PushQueueEnters
      <3>3. link'[l].used = popped[l].used + Pce[v]
        <4>1. SoundLink(popped[l], l) /\ now[r] \in Nat /\ v \in Vehicles
          BY <1>1, <1>5, <1>8
        <4>2. PushVehToQueue(popped[l], l, v, now[r]).used = popped[l].used + Pce[v]
          BY ZenonT(40), <4>1, PushQueueKeeps
        <4> QED BY <3>1, <4>2
      <3> QED BY <1>8, <1>11, <2>1, <2>2, <3>2, <3>3 DEF VehicleMoved, Entered
    <2>3. CASE ~(l = next /\ ~IsSplit(next))
      <3>1. link'[l] = popped[l]
        BY <1>2, <1>10, <2>3
      <3>2. link'[l].used = link[l].used + (IF l = next /\ ~IsSplit(next) THEN Pce[v] ELSE 0)
        BY <1>8, <2>3, <3>1
      <3>3. OnLink(link'[l]) = (OnLink(link[l]) \ {v})
                                 \cup (IF l = next /\ ~IsSplit(next) THEN {v} ELSE {})
        BY <1>8, <2>3, <3>1
      <3>4. /\ Distinct(link'[l])
            /\ \A w \in SeqRange(link'[l].buffer) : w # v /\ w \in SeqRange(link[l].buffer)
            /\ link[l].used = PceSum(Vehs(link[l].q)) => link'[l].used = PceSum(Vehs(link'[l].q))
        BY <1>8, <2>1, <3>1
      <3> QED BY <1>11, <3>2, <3>3, <3>4 DEF VehicleMoved
    <2> QED BY <2>2, <2>3
  <1> QED BY <1>2, <1>4, <1>12 DEF v, next

LEMMA MoveVehiclePlaces ==
  ASSUME LinkInv, VehInv, NEW r \in Ranks, NEW n \in Nodes, NEW l0 \in Links, MoveVehicle(r, n, l0)
  PROVE  VehInv'
PROOF
  <1> DEFINE v == Head(link[l0].buffer)
             next == NextLink(v)
             p == pos[v] + 1
  <1>1. /\ v \in SeqRange(link[l0].buffer)
        /\ \A l \in Links : VehicleMoved(l, l0, v, next)
        /\ pos' = [pos EXCEPT ![v] = @ + 1]
    BY VehicleMoves
  <1>2. UNCHANGED <<pc, now, msgs>>
    BY Zenon DEF MoveVehicle
  <1> HIDE DEF v
  <1>3. /\ v \in Vehicles /\ next \in Links /\ p \in 1..Len(Route[v]) /\ Route[v][p] = next
        /\ Route[v][pos[v]] = l0
    BY <1>1, NextIs
  <1>4. pos' = [pos EXCEPT ![v] = p]
    BY <1>1, <1>3 DEF VehInv
  <1> HIDE DEF next, p
  <1>5. \A l \in Links : PlacesApart(l) /\ OnRoute(l)
    BY DEF VehInv
  <1>6. /\ \A l \in Links \ {l0} : v \notin Placed(l)
        /\ v \in OnLink(link[l0])
    BY <1>1, <1>3, <1>5 DEF OnRoute, CurrLink, OnLink
  <1>7. ASSUME NEW l \in Links
        PROVE  /\ PlacesApart(l)'
               /\ Placed(l)' = (Placed(l) \ {v}) \cup (IF l = next THEN {v} ELSE {})
               /\ \A w \in SeqRange(link'[l].buffer) : w # v /\ w \in SeqRange(link[l].buffer)
    <2>1. InFlight(l)' = InFlight(l)
      BY <1>2 DEF InFlight
    <2>2. PlacesApart(l) /\ v \notin InFlight(l) /\ v \notin SeqRange(outQ[l])
      BY <1>5, <1>6 DEF PlacesApart, Placed
    <2>3. VehicleMoved(l, l0, v, next)
      BY <1>1
    <2>4. PlacesApart(l)'
      BY <2>1, <2>2, <2>3 DEF PlacesApart, VehicleMoved
    <2>5. Placed(l)' = (Placed(l) \ {v}) \cup (IF l = next THEN {v} ELSE {})
      BY <2>1, <2>2, <2>3 DEF Placed, VehicleMoved
    <2> QED BY <2>3, <2>4, <2>5 DEF VehicleMoved
  <1>8. MsgsApart'
    BY <1>2, MsgsKept DEF VehInv
  <1> QED BY <1>3, <1>4, <1>7, <1>8, VehMoves

\* The message of rank r for n, caps being the storage it reports.
MsgOf(r, n, caps) ==
  [from |-> r, to |-> n, time |-> now[r],
   vehs |-> [l \in {o \in OutOf(r) : Owner(o) = n} |-> outQ[l]],
   caps |-> caps]

\* The messages of rank r join those on their way.
LEMMA SendPlaces ==
  ASSUME OtherTypes, VehInv, NEW r \in Ranks, pc[r] = "nodes", pc' = [pc EXCEPT ![r] = "exchange"],
         now' = now, NEW C, msgs' = msgs \cup {MsgOf(r, n, C[n]) : n \in Neighbours(r)}
  PROVE  /\ MsgsApart'
         /\ \A l \in Links : InFlight(l)' = InFlight(l) \cup
                               (IF l \in OutOf(r) THEN SeqRange(outQ[l]) ELSE {})
PROOF
  <1> DEFINE new == {MsgOf(r, n, C[n]) : n \in Neighbours(r)}
  <1>1. ASSUME NEW m \in new
        PROVE  /\ m.from = r /\ m.time = now[r] /\ m.to \in Neighbours(r)
               /\ m = MsgOf(r, m.to, C[m.to])
               /\ DOMAIN m.vehs = {o \in OutOf(r) : Owner(o) = m.to}
               /\ \A l \in DOMAIN m.vehs : m.vehs[l] = outQ[l]
    <2>1. PICK n \in Neighbours(r) : m = MsgOf(r, n, C[n])
      BY <1>1
    <2>2. m.from = r /\ m.time = now[r] /\ m.to = n
          /\ m.vehs = [l \in {o \in OutOf(r) : Owner(o) = n} |-> outQ[l]]
      BY <2>1 DEF MsgOf
    <2> QED BY <2>1, <2>2
  <1>2. \A n \in Neighbours(r) : MsgOf(r, n, C[n]) \in new /\ MsgOf(r, n, C[n]).to = n
    BY DEF MsgOf
  <1> HIDE DEF new
  <1>3. msgs' = msgs \cup new
    BY DEF new
  <1>4. ASSUME NEW l \in Links
        PROVE  InFlight(l)' = InFlight(l) \cup
                               (IF l \in OutOf(r) THEN SeqRange(outQ[l]) ELSE {})
    <2>1. ASSUME NEW v PROVE v \in InFlight(l)' <=>
                               \E m \in msgs' : l \in DOMAIN m.vehs /\ v \in SeqRange(m.vehs[l])
      BY DEF InFlight, SeqRange
    <2>2. ASSUME NEW v PROVE v \in InFlight(l) <=>
                               \E m \in msgs : l \in DOMAIN m.vehs /\ v \in SeqRange(m.vehs[l])
      BY DEF InFlight
    <2>3. ASSUME NEW v
          PROVE  (\E m \in new : l \in DOMAIN m.vehs /\ v \in SeqRange(m.vehs[l]))
                   <=> l \in OutOf(r) /\ v \in SeqRange(outQ[l])
      <3>1. ASSUME l \in OutOf(r), v \in SeqRange(outQ[l])
            PROVE  \E m \in new : l \in DOMAIN m.vehs /\ v \in SeqRange(m.vehs[l])
        <4>1. Owner(l) \in Neighbours(r)
          BY <3>1 DEF Neighbours
        <4> DEFINE m == MsgOf(r, Owner(l), C[Owner(l)])
        <4>2. m \in new /\ m.to = Owner(l)
          BY <1>2, <4>1
        <4> HIDE DEF m
        <4>3. l \in DOMAIN m.vehs /\ m.vehs[l] = outQ[l]
          BY <1>1, <3>1, <4>2
        <4> QED BY <3>1, <4>2, <4>3
      <3> QED BY <1>1, <3>1
    <2> QED BY <1>3, <2>1, <2>2, <2>3
  <1>5. MsgsApart /\ \A l \in Links : PlacesApart(l)
    BY DEF VehInv
  <1>6. \A m \in msgs : /\ m.from \in Ranks /\ (m.from = r => m.time < now[r])
                        /\ \A l \in DOMAIN m.vehs : l \in Links /\ SeqRange(m.vehs[l]) \subseteq InFlight(l)
    <2>1. \A m \in msgs : DOMAIN m.vehs \subseteq Links
      BY DEF OtherTypes, OutOf
    <2> QED BY <1>5, <2>1 DEF MsgsApart, InFlight
  <1>7. pc'[r] = "exchange" /\ \A s \in Ranks : pc[s] = "exchange" => pc'[s] = "exchange"
    BY DEF OtherTypes
  <1>8. now[r] \in Nat
    BY DEF OtherTypes
  <1>9. \A m \in msgs' : /\ m.from \in Ranks /\ m.time \in Nat
                         /\ \/ m.time < now'[m.from]
                            \/ m.time = now'[m.from] /\ pc'[m.from] = "exchange"
                         /\ \A l \in DOMAIN m.vehs : Once(m.vehs[l])
    <2> TAKE m \in msgs'
    <2>1. CASE m \in msgs
      BY <1>5, <1>7, <2>1 DEF MsgsApart
    <2>2. CASE m \in new
      <3>1. \A l \in OutOf(r) : Once(outQ[l])
        BY <1>5 DEF PlacesApart, OutOf
      <3> QED BY <1>1, <1>7, <1>8, <2>2, <3>1
    <2> QED BY <1>3, <2>1, <2>2
  <1>10. \A m, n \in msgs' : m.from = n.from /\ m.to = n.to /\ m.time = n.time => m = n
    <2> TAKE m, n \in msgs'
    <2>1. CASE m \in msgs /\ n \in msgs
      BY <1>5, <2>1 DEF MsgsApart
    <2>2. CASE m \in new /\ n \in new
      BY <1>1, <2>2
    <2>3. CASE m \in msgs /\ n \in new
      BY <1>1, <1>6, <1>8, <2>3
    <2>4. CASE m \in new /\ n \in msgs
      BY <1>1, <1>6, <1>8, <2>4
    <2> QED BY <1>3, <2>1, <2>2, <2>3, <2>4
  <1>11. ASSUME NEW m \in new, NEW n \in msgs, NEW l \in DOMAIN m.vehs \cap DOMAIN n.vehs
         PROVE  SeqRange(m.vehs[l]) \cap SeqRange(n.vehs[l]) = {}
    <2>1. l \in Links /\ SeqRange(n.vehs[l]) \subseteq InFlight(l) /\ m.vehs[l] = outQ[l]
      BY <1>1, <1>6
    <2> QED BY <1>5, <2>1 DEF PlacesApart
  <1>12. \A m, n \in msgs' : m # n => \A l \in DOMAIN m.vehs \cap DOMAIN n.vehs :
                     SeqRange(m.vehs[l]) \cap SeqRange(n.vehs[l]) = {}
    <2> SUFFICES ASSUME NEW m \in msgs', NEW n \in msgs', m # n,
                        NEW l \in DOMAIN m.vehs \cap DOMAIN n.vehs
                 PROVE  SeqRange(m.vehs[l]) \cap SeqRange(n.vehs[l]) = {}
      OBVIOUS
    <2>1. CASE m \in msgs /\ n \in msgs
      BY <1>5, <2>1 DEF MsgsApart
    <2>2. CASE m \in new /\ n \in new
      <3>1. Owner(l) = m.to /\ Owner(l) = n.to
        BY <1>1, <2>2
      <3> QED BY <1>1, <2>2, <3>1
    <2>3. CASE m \in msgs /\ n \in new
      BY <1>11, <2>3
    <2>4. CASE m \in new /\ n \in msgs
      BY <1>11, <2>4
    <2> QED BY <1>3, <2>1, <2>2, <2>3, <2>4
  <1> QED BY <1>4, <1>9, <1>10, <1>12 DEF MsgsApart

\* What move_links and the messages do to the vehicles of a rank; E are those whose leg
\* ends.
LinksMoved(r, E) ==
  /\ E \subseteq Arriving
  /\ E \subseteq UNION {OnLink(link[l]) : l \in LocalTo(r)}
  /\ \A l \in Links :
       /\ OnLink(link'[l]) = OnLink(link[l]) \ E
       /\ Distinct(link'[l])
       /\ SeqRange(link'[l].buffer) \cap Arriving \subseteq SeqRange(link[l].buffer)
       /\ outQ'[l] = IF l \in OutOf(r) THEN <<>> ELSE outQ[l]
       /\ link[l].used = PceSum(Vehs(link[l].q)) => link'[l].used = PceSum(Vehs(link'[l].q))
       /\ link'[l].used <= link[l].used
  /\ pos' = [v \in Vehicles |-> IF v \in E THEN pos[v] + 1 ELSE pos[v]]
  /\ vehCounter' = [vehCounter EXCEPT ![r] = @ - Cardinality(LeavingNet(r, E))]

LEMMA LinksMove ==
  ASSUME LinkInv, VehInv, NEW r \in Ranks, MoveLinks(r)
  PROVE  \E E : LinksMoved(r, E)
PROOF
  <1> DEFINE act == activeLinks[r] \cap LocalTo(r)
             t == now[r]
             step == [l \in act |-> DoSimStep(link[l], l, Arriving, t)]
             moved == [l \in act |-> step[l].link]
             E == UNION {step[l].ended : l \in act}
             d(l) == DoSimStep(link[l], l, Arriving, t)
  <1>1. /\ OtherTypes /\ link = [l \in Links |-> link[l]] /\ t \in Nat
        /\ \A l \in Links : SoundLink(link[l], l) /\ Distinct(link[l])
        /\ \A l \in Links : PlacesApart(l) /\ OnRoute(l)
    BY LinkInvIs DEF VehInv, PlacesApart, OtherTypes
  <1>2. /\ link' = [l \in Links |-> IF l \in act THEN Asked(moved[l], t + 1) ELSE link[l]]
        /\ outQ' = TakeVeh(r)
        /\ pos' = [v \in Vehicles |-> IF v \in E THEN pos[v] + 1 ELSE pos[v]]
        /\ vehCounter' = [vehCounter EXCEPT ![r] = @ - Cardinality(LeavingNet(r, E))]
    BY Zenon DEF MoveLinks
  <1>3. \A l \in act : step[l] = d(l) /\ moved[l] = step[l].link
    OBVIOUS
  <1>4. act \subseteq LocalTo(r) /\ LocalTo(r) \subseteq Links
    BY DEF LocalTo
  <1> HIDE DEF act, step, moved
  <1>5. ASSUME NEW l \in act
        PROVE  SoundLink(moved[l], l) /\ Moved(link[l], moved[l], step[l].ended, Arriving)
    <2>1. SoundLink(link[l], l) /\ Distinct(link[l]) /\ l \in Links
      BY <1>1, <1>4
    <2>2. SoundLink(d(l).link, l)
      BY <1>1, <2>1, SimStepKeeps
    <2>3. Moved(link[l], d(l).link, d(l).ended, Arriving)
      BY <1>1, <2>1, SimStepMoves
    <2> HIDE DEF d
    <2> QED BY <1>3, <2>2, <2>3
  <1>6. /\ E \subseteq Arriving
        /\ \A v \in E : \E l \in act : v \in step[l].ended /\ v \in OnLink(link[l])
    BY <1>5 DEF Moved
  <1>7. ASSUME NEW l \in Links, NEW v \in OnLink(link[l]), v \in E
        PROVE  l \in act /\ v \in step[l].ended
    <2>1. PICK a \in act : v \in step[a].ended /\ v \in OnLink(link[a])
      BY <1>6, <1>7
    <2>2. a \in Links /\ v \in Placed(a) /\ v \in Placed(l)
      BY <1>4, <2>1 DEF Placed
    <2>3. CurrLink(v) = a /\ CurrLink(v) = l
      BY <1>1, <2>2 DEF OnRoute
    <2> QED BY <2>1, <2>3
  <1>8. \A l \in act : step[l].ended \subseteq E
    OBVIOUS
  <1> HIDE DEF E
  <1>9. ASSUME NEW l \in Links
        PROVE  /\ OnLink(link'[l]) = OnLink(link[l]) \ E
               /\ Distinct(link'[l])
               /\ SeqRange(link'[l].buffer) \cap Arriving \subseteq SeqRange(link[l].buffer)
               /\ link[l].used = PceSum(Vehs(link[l].q)) => link'[l].used = PceSum(Vehs(link'[l].q))
               /\ link'[l].used <= link[l].used
    <2>1. CASE l \in act
      <3>1. link'[l] = Asked(moved[l], t + 1)
        BY <1>2, <2>1
      <3>2. t + 1 \in Nat
        BY <1>1
      <3>3. SoundLink(moved[l], l) /\ Moved(link[l], moved[l], step[l].ended, Arriving)
        BY <1>5, <2>1
      <3>4. /\ OnLink(link'[l]) = OnLink(moved[l]) /\ link'[l].buffer = moved[l].buffer
            /\ Distinct(link'[l]) /\ link'[l].used = moved[l].used /\ link'[l].q = moved[l].q
        BY <3>1, <3>2, <3>3, AskedSame DEF Moved
      <3>5. OnLink(moved[l]) = OnLink(link[l]) \ E
        BY <1>7, <1>8, <2>1, <3>3 DEF Moved
      <3> QED BY <3>3, <3>4, <3>5 DEF Moved
    <2>2. CASE l \notin act
      <3>1. link'[l] = link[l] /\ link[l].used \in Int
        BY <1>1, <1>2, <2>2 DEF SoundLink, LinkStates
      <3>2. OnLink(link[l]) \cap E = {}
        BY <1>7, <2>2
      <3> QED BY <1>1, <3>1, <3>2
    <2> QED BY <2>1, <2>2
  <1>10. \A l \in Links : outQ'[l] = IF l \in OutOf(r) THEN <<>> ELSE outQ[l]
    BY <1>2 DEF TakeVeh
  <1>11. E \subseteq UNION {OnLink(link[l]) : l \in LocalTo(r)}
    BY <1>4, <1>6
  <1>12. LinksMoved(r, E)
    BY <1>2, <1>6, <1>9, <1>10, <1>11 DEF LinksMoved
  <1> QED BY <1>12

\* The storage that rank r reports to n when move_links turns its active links into moved.
CapsOf(r, n, moved) ==
  [l \in {i \in InTo(r) : Part[From[i]] = n} |->
     IF l \in activeLinks[r] \cap LocalTo(r) THEN Released(l, moved[l]) ELSE 0]

LEMMA MoveLinksPlaces ==
  ASSUME LinkInv, VehInv, NEW r \in Ranks, MoveLinks(r)
  PROVE  /\ VehInv'
         /\ \A l \in Links : InFlight(l)' = InFlight(l) \cup
                               (IF l \in OutOf(r) THEN SeqRange(outQ[l]) ELSE {})
PROOF
  <1>1. PICK E : LinksMoved(r, E)
    BY LinksMove
  <1>2. OtherTypes
    BY LinkInvIs
  <1>3. /\ MsgsApart'
        /\ \A l \in Links : InFlight(l)' = InFlight(l) \cup
                              (IF l \in OutOf(r) THEN SeqRange(outQ[l]) ELSE {})
    <2> DEFINE act == activeLinks[r] \cap LocalTo(r)
               step == [l \in act |-> DoSimStep(link[l], l, Arriving, now[r])]
               moved == [l \in act |-> step[l].link]
               C == [n \in Neighbours(r) |-> CapsOf(r, n, moved)]
    <2>1. /\ pc[r] = "nodes" /\ pc' = [pc EXCEPT ![r] = "exchange"] /\ now' = now
          /\ msgs' = msgs \cup
               {[from |-> r, to |-> n, time |-> now[r],
                 vehs |-> [l \in {o \in OutOf(r) : Owner(o) = n} |-> outQ[l]],
                 caps |-> [l \in {i \in InTo(r) : Part[From[i]] = n} |->
                             IF l \in act THEN Released(l, moved[l]) ELSE 0]] :
                n \in Neighbours(r)}
      BY Zenon DEF MoveLinks
    <2>2. msgs' = msgs \cup {MsgOf(r, n, CapsOf(r, n, moved)) : n \in Neighbours(r)}
      BY <2>1, Zenon DEF MsgOf, CapsOf
    <2> HIDE DEF moved
    <2>3. {MsgOf(r, n, CapsOf(r, n, moved)) : n \in Neighbours(r)}
            = {MsgOf(r, n, C[n]) : n \in Neighbours(r)}
      <3>1. \A n \in Neighbours(r) : C[n] = CapsOf(r, n, moved)
        OBVIOUS
      <3> HIDE DEF C
      <3> QED BY <3>1
    <2> HIDE DEF C
    <2>4. msgs' = msgs \cup {MsgOf(r, n, C[n]) : n \in Neighbours(r)}
      BY <2>2, <2>3
    <2> QED BY <1>2, <2>1, <2>4, SendPlaces
  <1>4. \A l \in Links : PlacesApart(l) /\ OnRoute(l)
    BY DEF VehInv
  <1>5. ASSUME NEW l \in Links
        PROVE  Placed(l)' = Placed(l) \ E /\ PlacesApart(l)' /\ OnRoute(l)'
    <2>1. /\ OnLink(link'[l]) = OnLink(link[l]) \ E
          /\ Distinct(link'[l])
          /\ SeqRange(link'[l].buffer) \cap Arriving \subseteq SeqRange(link[l].buffer)
          /\ outQ'[l] = IF l \in OutOf(r) THEN <<>> ELSE outQ[l]
      BY <1>1 DEF LinksMoved
    <2>2. InFlight(l)' = InFlight(l) \cup (IF l \in OutOf(r) THEN SeqRange(outQ[l]) ELSE {})
      BY <1>3
    <2>3. (InFlight(l) \cup SeqRange(outQ[l])) \cap E = {}
      <3>1. ASSUME NEW v \in InFlight(l) \cup SeqRange(outQ[l]), v \in E PROVE FALSE
        <4>1. PICK a \in LocalTo(r) : v \in OnLink(link[a])
          BY <1>1, <3>1 DEF LinksMoved
        <4>2. a \in Links /\ v \in Placed(a) /\ v \in Placed(l)
          BY <3>1, <4>1 DEF LocalTo, Placed
        <4>3. CurrLink(v) = a /\ CurrLink(v) = l
          BY <1>4, <4>2 DEF OnRoute
        <4> QED BY <1>4, <3>1, <4>1, <4>2, <4>3 DEF PlacesApart
      <3> QED BY <3>1
    <2>4. Placed(l)' = Placed(l) \ E
      BY <2>1, <2>2, <2>3, RangeEmpty DEF Placed
    <2>5. PlacesApart(l)'
      <3>1. PlacesApart(l)
        BY <1>4
      <3> QED BY <2>1, <2>2, <3>1, RangeEmpty DEF PlacesApart
    <2>6. ASSUME NEW v \in Placed(l)'
          PROVE  v \in Vehicles /\ pos'[v] = pos[v] /\ pos[v] \in 1..Len(Route[v]) /\ Route[v][pos[v]] = l
      <3>1. v \in Placed(l) /\ v \notin E
        BY <2>4, <2>6
      <3>2. v \in Vehicles /\ pos[v] \in 1..Len(Route[v]) /\ Route[v][pos[v]] = l
        BY <1>4, <3>1 DEF OnRoute, CurrLink
      <3> QED BY <1>1, <3>1, <3>2 DEF LinksMoved
    <2>7. ASSUME NEW v \in SeqRange(link'[l].buffer) PROVE pos'[v] # Len(Route[v])
      <3>1. v \in Placed(l)'
        BY <2>7 DEF Placed, OnLink
      <3>2. CASE v \in SeqRange(link[l].buffer)
        BY <1>4, <2>6, <3>1, <3>2 DEF OnRoute
      <3>3. CASE v \notin Arriving
        BY <2>6, <3>1, <3>3 DEF Arriving
      <3> QED BY <2>1, <2>7, <3>2, <3>3
    <2>8. OnRoute(l)'
      BY <2>6, <2>7 DEF OnRoute, CurrLink
    <2> QED BY <2>4, <2>5, <2>8
  <1>6. /\ pos' = [v \in Vehicles |-> IF v \in E THEN pos[v] + 1 ELSE pos[v]]
        /\ pos \in [Vehicles -> Nat] /\ E \subseteq Arriving
    BY <1>1 DEF LinksMoved, VehInv
  <1>7. pos' \in [Vehicles -> Nat]
    BY <1>6
  <1>8. ASSUME NEW v \in Vehicles, NEW l \in Links, pos'[v] \in 1..Len(Route[v]), CurrLink(v)' = l
        PROVE  v \in Placed(l)'
    <2>1. v \notin E
      <3> SUFFICES ASSUME v \in E PROVE FALSE
        OBVIOUS
      <3>1. pos[v] = Len(Route[v]) /\ pos'[v] = pos[v] + 1
        BY <1>6 DEF Arriving
      <3>2. Len(Route[v]) \in Nat
        BY NetworkAssumption
      <3> QED BY <1>8, <3>1, <3>2
    <2>2. pos'[v] = pos[v] /\ CurrLink(v) = l
      BY <1>6, <1>8, <2>1 DEF CurrLink
    <2>3. v \in Placed(l)
      BY <1>8, <2>2 DEF VehInv
    <2> QED BY <1>5, <2>1, <2>3
  <1> QED BY <1>3, <1>5, <1>7, <1>8 DEF VehInv

\* What the exchange of a tick brings to the vehicles of a rank; on[l] are those that
\* come over In link l.
VehiclesReceived(r, on) ==
  /\ \A l \in InTo(r) : on[l] \in Seq(Vehicles) /\ Once(on[l]) /\ SeqRange(on[l]) \subseteq InFlight(l)
  /\ \A l \in Links :
       /\ InFlight(l)' = InFlight(l) \ (IF l \in InTo(r) THEN SeqRange(on[l]) ELSE {})
       /\ OnLink(link'[l]) = OnLink(link[l]) \cup (IF l \in InTo(r) THEN SeqRange(on[l]) ELSE {})
       /\ Distinct(link'[l])
       /\ link'[l].buffer = link[l].buffer
       /\ link[l].used = PceSum(Vehs(link[l].q)) => link'[l].used = PceSum(Vehs(link'[l].q))
       /\ link'[l].used = link[l].used + (IF l \in InTo(r) THEN PceSum(on[l]) ELSE 0)
  /\ LET entered == {l \in InTo(r) : on[l] # <<>>} IN
       /\ activeLinks' = [activeLinks EXCEPT ![r] = @ \cup entered]
       /\ vehCounter' = [vehCounter EXCEPT ![r] =
            @ + Cardinality(UNION {SeqRange(on[l]) : l \in entered})]
  /\ UNCHANGED <<outQ, pos>>

LEMMA PushReceivedEnters ==
  ASSUME NEW l \in Links, NEW k, SoundLink(k, l), Distinct(k), NEW vs \in Seq(Vehicles), Once(vs),
         SeqRange(vs) \cap OnLink(k) = {}, NEW t \in Nat
  PROVE  Entered(k, PushReceived(k, l, vs, t), SeqRange(vs))
PROOF
  <1> DEFINE e == PushReceived(k, l, vs, t)
             entry(i) == [veh |-> vs[i], exit |-> t + Duration[l][vs[i]]]
             p == EntriesOf(l, vs, t)
  <1>1. /\ e.q = k.q \o p /\ e.buffer = k.buffer /\ e.waiting = k.waiting
        /\ e.used = k.used + PceSum(vs)
        /\ p \in Seq(QueueEntries)
    BY PushReceivedKeeps
  <1>2. Len(vs) \in Nat
    OBVIOUS
  <1>3. ASSUME NEW i \in 1..Len(vs) PROVE entry(i) \in QueueEntries /\ entry(i).veh = vs[i]
    <2>1. vs[i] \in Vehicles
      OBVIOUS
    <2>2. t + Duration[l][vs[i]] \in Nat
      BY <2>1, DurationIs
    <2> QED BY <2>1, <2>2 DEF QueueEntries
  <1>4. Len(p) = Len(vs) /\ \A i \in 1..Len(vs) : p[i] = entry(i)
    BY <1>2 DEF EntriesOf
  <1> HIDE DEF entry, e, p
  <1>5. /\ Vehs(p) \in Seq(Vehicles) /\ Len(Vehs(p)) = Len(vs)
        /\ \A i \in 1..Len(vs) : Vehs(p)[i] = vs[i]
    BY <1>1, <1>3, <1>4, VehsIs
  <1>6. Vehs(p) = vs
    BY <1>5, SequencesEqual
  <1>7. Entered(k, e, SeqRange(Vehs(p)))
    BY <1>1, <1>4, <1>6, QueueEnters
  <1> QED BY <1>6, <1>7 DEF e

LEMMA TakenMsgs ==
  ASSUME OtherTypes, MsgsApart, NEW r \in Ranks,
         NEW got, got \subseteq msgs, \A m \in got : m.to = r /\ m.time = now[r],
         \A n \in Neighbours(r) : \E m \in got : m.from = n, NEW l \in InTo(r)
  PROVE  \E c \in got :
           /\ l \in DOMAIN c.vehs /\ c.vehs[l] \in Seq(Vehicles) /\ Once(c.vehs[l])
           /\ \A m \in got : l \in DOMAIN m.vehs => m = c
           /\ (CHOOSE m \in got : l \in DOMAIN m.vehs) = c
PROOF
  <1>1. ASSUME NEW m \in got
        PROVE  /\ m \in msgs /\ m.to = r /\ m.time = now[r]
               /\ m.vehs \in [{k \in OutOf(m.from) : Owner(k) = r} -> Seq(Vehicles)]
    <2>1. m \in msgs /\ m.to = r /\ m.time = now[r]
      OBVIOUS
    <2>2. m.vehs \in [{k \in OutOf(m.from) : Owner(k) = m.to} -> Seq(Vehicles)]
      BY <2>1 DEF OtherTypes
    <2> QED BY <2>1, <2>2, Zenon
  <1>2. l \in Links /\ IsSplit(l) /\ Owner(l) = r /\ Part[From[l]] \in Neighbours(r)
    BY DEF InTo, LocalTo, Neighbours
  <1>3. PICK m \in got : m.from = Part[From[l]]
    BY <1>2
  <1>4. l \in DOMAIN m.vehs
    BY <1>1, <1>2, <1>3 DEF OutOf
  <1>5. ASSUME NEW n \in got, l \in DOMAIN n.vehs PROVE n.from = Part[From[l]]
    <2>1. DOMAIN n.vehs = {k \in OutOf(n.from) : Owner(k) = r}
      BY <1>1
    <2>2. l \in OutOf(n.from)
      BY <1>5, <2>1
    <2> QED BY <2>2 DEF OutOf
  <1>6. \A n \in got : l \in DOMAIN n.vehs => n = m
    BY <1>1, <1>3, <1>5 DEF MsgsApart
  <1>7. (CHOOSE x \in got : l \in DOMAIN x.vehs) = m
    BY <1>4, <1>6
  <1>8. m.vehs[l] \in Seq(Vehicles) /\ Once(m.vehs[l])
    <2>1. m.vehs[l] \in Seq(Vehicles)
      BY <1>1, <1>4
    <2>2. m \in msgs
      BY <1>1
    <2> QED BY <1>4, <2>1, <2>2 DEF MsgsApart
  <1> QED BY <1>4, <1>6, <1>7, <1>8

LEMMA ExchangeReceives ==
  ASSUME LinkInv, VehInv, NEW r \in Ranks, Exchange(r)
  PROVE  \E on : VehiclesReceived(r, on)
PROOF
  <1> DEFINE got == {m \in msgs : m.to = r /\ m.time = now[r]}
             on == [l \in InTo(r) |-> (CHOOSE m \in got : l \in DOMAIN m.vehs).vehs[l]]
             entered == {l \in InTo(r) : on[l] # <<>>}
  <1>1. /\ OtherTypes /\ link = [l \in Links |-> link[l]] /\ now[r] \in Nat
        /\ \A l \in Links : SoundLink(link[l], l) /\ Distinct(link[l])
        /\ \A l \in Links : PlacesApart(l)
        /\ MsgsApart
    BY LinkInvIs DEF VehInv, PlacesApart, OtherTypes
  <1>2. /\ {m.from : m \in got} = Neighbours(r)
        /\ msgs' = msgs \ got
        /\ link' = [l \in Links |->
                      IF l \in entered THEN PushReceived(link[l], l, on[l], now[r])
                      ELSE link[l]]
        /\ activeLinks' = [activeLinks EXCEPT ![r] = @ \cup entered]
        /\ vehCounter' = [vehCounter EXCEPT ![r] =
             @ + Cardinality(UNION {SeqRange(on[l]) : l \in entered})]
        /\ UNCHANGED <<outQ, pos>>
    BY Zenon DEF Exchange
  <1>3. ASSUME NEW l \in InTo(r)
        PROVE  \E c \in got : /\ l \in DOMAIN c.vehs /\ on[l] = c.vehs[l]
                              /\ on[l] \in Seq(Vehicles) /\ Once(on[l])
                              /\ \A m \in got : l \in DOMAIN m.vehs => m = c
    <2>1. on[l] = (CHOOSE m \in got : l \in DOMAIN m.vehs).vehs[l]
      OBVIOUS
    <2>2. got \subseteq msgs /\ \A m \in got : m.to = r /\ m.time = now[r]
      OBVIOUS
    <2>4. \A n \in Neighbours(r) : \E m \in got : m.from = n
      BY <1>2
    <2> HIDE DEF got, on
    <2>3. PICK c \in got :
           /\ l \in DOMAIN c.vehs /\ c.vehs[l] \in Seq(Vehicles) /\ Once(c.vehs[l])
           /\ \A m \in got : l \in DOMAIN m.vehs => m = c
           /\ (CHOOSE m \in got : l \in DOMAIN m.vehs) = c
      BY <1>1, <2>2, <2>4, TakenMsgs
    <2> QED BY <2>1, <2>3
  <1>4. ASSUME NEW m \in got PROVE m \in msgs /\ DOMAIN m.vehs \subseteq InTo(r)
    <2>1. m \in msgs /\ m.to = r
      OBVIOUS
    <2>2. DOMAIN m.vehs = {k \in OutOf(m.from) : Owner(k) = m.to}
      BY <1>1, <2>1 DEF OtherTypes
    <2> QED BY <2>1, <2>2 DEF OutOf, InTo, LocalTo
  <1> HIDE DEF got, on
  <1>5. ASSUME NEW l \in InTo(r) PROVE SeqRange(on[l]) \subseteq InFlight(l)
    BY <1>3, <1>4 DEF InFlight
  <1>6. ASSUME NEW l \in Links
        PROVE  InFlight(l)' = InFlight(l) \ (IF l \in InTo(r) THEN SeqRange(on[l]) ELSE {})
    <2>1. ASSUME NEW v PROVE v \in InFlight(l)' <=>
                               \E m \in msgs \ got : l \in DOMAIN m.vehs /\ v \in SeqRange(m.vehs[l])
      BY <1>2 DEF InFlight, SeqRange
    <2>2. ASSUME NEW v PROVE v \in InFlight(l) <=>
                               \E m \in msgs : l \in DOMAIN m.vehs /\ v \in SeqRange(m.vehs[l])
      BY DEF InFlight
    <2>3. CASE l \notin InTo(r)
      BY <1>4, <2>1, <2>2, <2>3
    <2>4. CASE l \in InTo(r)
      <3>1. PICK c \in got : /\ l \in DOMAIN c.vehs /\ on[l] = c.vehs[l]
                             /\ \A m \in got : l \in DOMAIN m.vehs => m = c
        BY <1>3, <2>4
      <3>2. \A m \in msgs \ got : l \in DOMAIN m.vehs =>
              SeqRange(m.vehs[l]) \cap SeqRange(c.vehs[l]) = {}
        BY <1>1, <1>4, <3>1 DEF MsgsApart
      <3>3. ASSUME NEW v PROVE v \in InFlight(l)' <=> v \in InFlight(l) /\ v \notin SeqRange(on[l])
        BY <1>4, <2>1, <2>2, <3>1, <3>2
      <3> QED BY <2>4, <3>3
    <2> QED BY <2>3, <2>4
  <1>7. ASSUME NEW l \in Links
        PROVE  /\ OnLink(link'[l]) = OnLink(link[l]) \cup (IF l \in InTo(r) THEN SeqRange(on[l]) ELSE {})
               /\ Distinct(link'[l])
               /\ link'[l].buffer = link[l].buffer
               /\ link[l].used = PceSum(Vehs(link[l].q)) => link'[l].used = PceSum(Vehs(link'[l].q))
               /\ link'[l].used = link[l].used + (IF l \in InTo(r) THEN PceSum(on[l]) ELSE 0)
    <2>1. CASE l \in entered
      <3>1. l \in InTo(r) /\ link'[l] = PushReceived(link[l], l, on[l], now[r])
        BY <1>2, <2>1
      <3>2. on[l] \in Seq(Vehicles) /\ Once(on[l])
        BY <1>3, <3>1
      <3>3. SeqRange(on[l]) \cap OnLink(link[l]) = {}
        BY <1>1, <1>5, <3>1 DEF PlacesApart
      <3>4. SoundLink(link[l], l) /\ Distinct(link[l])
        BY <1>1
      <3>5. Entered(link[l], link'[l], SeqRange(on[l]))
        BY <1>1, <3>1, <3>2, <3>3, <3>4, PushReceivedEnters
      <3>6. link'[l].buffer = link[l].buffer /\ link'[l].used = link[l].used + PceSum(on[l])
        BY <1>1, <3>1, <3>2, <3>4, PushReceivedKeeps
      <3> QED BY <3>1, <3>5, <3>6 DEF Entered
    <2>2. CASE l \notin entered
      <3>1. link'[l] = link[l]
        BY <1>2, <2>2
      <3>2. l \in InTo(r) => SeqRange(on[l]) = {} /\ PceSum(on[l]) = 0
        BY <2>2, RangeEmpty, PceSumEmpty
      <3>3. link[l].used \in Int
        BY <1>1 DEF SoundLink, LinkStates
      <3> QED BY <1>1, <3>1, <3>2, <3>3
    <2> QED BY <2>1, <2>2
  <1>8. \A l \in InTo(r) : on[l] \in Seq(Vehicles) /\ Once(on[l])
    BY <1>3
  <1>9. VehiclesReceived(r, on)
    BY <1>2, <1>5, <1>6, <1>7, <1>8 DEF VehiclesReceived
  <1> QED BY <1>9

LEMMA ExchangePlaces ==
  ASSUME LinkInv, VehInv, NEW r \in Ranks, Exchange(r)
  PROVE  VehInv'
PROOF
  <1>1. PICK on : VehiclesReceived(r, on)
    BY ExchangeReceives
  <1>2. /\ msgs' \subseteq msgs /\ pos' = pos /\ outQ' = outQ
        /\ pc[r] = "exchange" /\ now' = [now EXCEPT ![r] = @ + 1]
        /\ pc' = [pc EXCEPT ![r] = IF now[r] < EndTick THEN "depart" ELSE "done"]
    BY DEF Exchange
  <1>3. OtherTypes /\ MsgsApart /\ now[r] \in Nat
    BY LinkInvIs DEF VehInv, OtherTypes
  <1>4. MsgsApart'
    <2>1. ASSUME NEW m \in msgs'
          PROVE  /\ m.from \in Ranks /\ m.time \in Nat
                 /\ \/ m.time < now'[m.from]
                    \/ m.time = now'[m.from] /\ pc'[m.from] = "exchange"
                 /\ \A l \in DOMAIN m.vehs : Once(m.vehs[l])
      <3>1. /\ m.from \in Ranks /\ m.time \in Nat
            /\ \/ m.time < now[m.from]
               \/ m.time = now[m.from] /\ pc[m.from] = "exchange"
            /\ \A l \in DOMAIN m.vehs : Once(m.vehs[l])
        BY <1>2, <1>3 DEF MsgsApart
      <3>2. CASE m.from = r
        <4>1. now'[r] = now[r] + 1
          BY <1>2, <1>3 DEF OtherTypes
        <4> QED BY <1>3, <3>1, <3>2, <4>1
      <3>3. CASE m.from # r
        <4>1. now'[m.from] = now[m.from] /\ pc'[m.from] = pc[m.from]
          BY <1>2, <1>3, <3>1, <3>3 DEF OtherTypes
        <4> QED BY <3>1, <4>1
      <3> QED BY <3>2, <3>3
    <2> QED BY <1>2, <1>3, <2>1 DEF MsgsApart
  <1>5. \A l \in Links : PlacesApart(l) /\ OnRoute(l)
    BY DEF VehInv
  <1>6. ASSUME NEW l \in Links
        PROVE  Placed(l)' = Placed(l) /\ PlacesApart(l)' /\ OnRoute(l)'
    <2> DEFINE S == IF l \in InTo(r) THEN SeqRange(on[l]) ELSE {}
    <2>1. /\ InFlight(l)' = InFlight(l) \ S /\ OnLink(link'[l]) = OnLink(link[l]) \cup S
          /\ Distinct(link'[l]) /\ link'[l].buffer = link[l].buffer
          /\ S \subseteq InFlight(l)
      BY <1>1 DEF VehiclesReceived
    <2> HIDE DEF S
    <2>2. Placed(l)' = Placed(l)
      BY <1>2, <2>1 DEF Placed
    <2>3. PlacesApart(l)'
      BY <1>2, <1>5, <2>1 DEF PlacesApart
    <2>4. OnRoute(l)'
      BY <1>2, <1>5, <2>1, <2>2 DEF OnRoute, CurrLink
    <2> QED BY <2>2, <2>3, <2>4
  <1>7. ASSUME NEW v \in Vehicles, NEW l \in Links, pos'[v] \in 1..Len(Route[v]), CurrLink(v)' = l
        PROVE  v \in Placed(l)'
    <2>1. CurrLink(v) = l
      BY <1>2, <1>7 DEF CurrLink
    <2> QED BY <1>2, <1>6, <1>7, <2>1 DEF VehInv
  <1> QED BY <1>2, <1>4, <1>6, <1>7 DEF VehInv

LEMMA PlacesInit == NetInit => VehInv
PROOF
  <1> SUFFICES ASSUME NetInit PROVE VehInv OBVIOUS
  <1>1. /\ msgs = {} /\ pos = [v \in Vehicles |-> 0]
        /\ \A l \in Links : /\ link[l].q = <<>> /\ link[l].buffer = <<>> /\ link[l].waiting = <<>>
                            /\ outQ[l] = <<>>
    BY DEF NetInit, NewLink
  <1>2. Vehs(<<>>) = <<>>
    BY DEF Vehs
  <1>3. ASSUME NEW l \in Links
        PROVE  /\ Distinct(link[l]) /\ OnLink(link[l]) = {} /\ SeqRange(outQ[l]) = {} /\ Once(outQ[l])
               /\ InFlight(l) = {} /\ SeqRange(link[l].buffer) = {}
    BY <1>1, <1>2, RangeEmpty DEF Distinct, OnLink, InFlight
  <1>4. \A l \in Links : PlacesApart(l) /\ OnRoute(l)
    BY <1>3 DEF PlacesApart, OnRoute, Placed
  <1>5. \A v \in Vehicles : ~(pos[v] \in 1..Len(Route[v]))
    BY <1>1
  <1>6. MsgsApart
    BY <1>1 DEF MsgsApart
  <1> QED BY <1>1, <1>4, <1>5, <1>6 DEF VehInv

LEMMA PlacesStep == LinkInv /\ VehInv /\ [NetNext]_netVars => VehInv'
PROOF
  <1> SUFFICES ASSUME LinkInv, VehInv, [NetNext]_netVars PROVE VehInv'
    OBVIOUS
  <1>1. CASE UNCHANGED netVars
    <2>1. UNCHANGED <<outQ, msgs, pos, link, now, pc>>
      BY <1>1 DEF netVars
    <2>2. MsgsApart' /\ \A l \in Links : Distinct(link[l])
      BY <2>1, MsgsKept DEF VehInv, PlacesApart
    <2> QED BY <2>1, <2>2, VehsStay
  <1>2. CASE \E r \in Ranks : PartitionNext(r)
    <2>1. PICK r \in Ranks : PartitionNext(r)
      BY <1>2
    <2> QED BY <2>1, DepartPlaces, StartNodesPlaces, FinishNodePlaces, MoveVehiclePlaces,
               MoveLinksPlaces, ExchangePlaces DEF PartitionNext
  <1> QED BY <1>1, <1>2 DEF NetNext, NetTerminated

-----------------------------------------------------------------------------
(* veh_on_net() counts the vehicles on the partition's links.               *)

LEMMA OneLink ==
  ASSUME VehInv, NEW l \in Links, NEW k \in Links, NEW v \in Placed(l), v \in Placed(k)
  PROVE  l = k
  BY DEF VehInv, OnRoute

LEMMA OnNetIs ==
  ASSUME NEW r, NEW v
  PROVE  /\ v \in VehOnNet(r) <=> \/ \E l \in LocalTo(r) : v \in OnLink(link[l])
                                  \/ \E l \in OutOf(r) : v \in SeqRange(outQ[l])
         /\ v \in VehOnNet(r)' <=> \/ \E l \in LocalTo(r) : v \in OnLink(link'[l])
                                   \/ \E l \in OutOf(r) : v \in SeqRange(outQ'[l])
PROOF
  <1>1. VehOnNet(r)' = (UNION {OnLink(link'[l]) : l \in LocalTo(r)})
                         \cup (UNION {SeqRange(outQ'[l]) : l \in OutOf(r)})
    BY DEF VehOnNet, LocalTo, OutOf, Owner, IsSplit, OnLink, SeqRange, Vehs
  <1> QED BY <1>1 DEF VehOnNet

LEMMA OnNetFinite ==
  ASSUME VehInv, NEW r
  PROVE  IsFiniteSet(VehOnNet(r)) /\ Cardinality(VehOnNet(r)) \in Nat
PROOF
  <1>1. VehOnNet(r) \subseteq Vehicles
    <2>1. \A l \in Links : Placed(l) \subseteq Vehicles
      BY DEF VehInv, OnRoute
    <2> QED BY <2>1, OnNetIs DEF Placed, LocalTo, OutOf
  <1>2. IsFiniteSet(Vehicles)
    BY LinkAssumption
  <1> QED BY <1>1, <1>2, FS_Subset, FS_CardinalityType

CountInv ==
  /\ vehCounter = [r \in Ranks |-> vehCounter[r]]
  /\ \A r \in Ranks : vehCounter[r] = Cardinality(VehOnNet(r))

LEMMA CountSame ==
  ASSUME CountInv, vehCounter' = vehCounter, \A r \in Ranks : VehOnNet(r)' = VehOnNet(r)
  PROVE  CountInv'
  BY DEF CountInv

LEMMA CountChanges ==
  ASSUME CountInv, NEW r \in Ranks, NEW d, vehCounter' = [vehCounter EXCEPT ![r] = d],
         Cardinality(VehOnNet(r)') = d,
         \A s \in Ranks \ {r} : VehOnNet(s)' = VehOnNet(s)
  PROVE  CountInv'
  BY DEF CountInv

LEMMA DepartCounts ==
  ASSUME LinkInv, VehInv, CountInv, NEW r \in Ranks, NEW v \in Vehicles, Depart(r, v)
  PROVE  CountInv'
PROOF
  <1> DEFINE l0 == Route[v][1]
  <1>1. /\ Owner(l0) = r /\ UNCHANGED outQ
        /\ vehCounter' = [vehCounter EXCEPT ![r] = vehCounter[r] + 1]
        /\ link' = [link EXCEPT ![l0] = PushVehToWaitingList(link[l0], v)]
    BY DEF Depart
  <1>2. /\ l0 \in Links
        /\ OnLink(link'[l0]) = OnLink(link[l0]) \cup {v}
        /\ v \notin Placed(l0) /\ pos[v] = 0
    BY DepartPlaces DEF Entered, Depart
  <1> HIDE DEF l0
  <1>3. \A l \in Links \ {l0} : link'[l] = link[l]
    BY <1>1, LinkInvIs
  <1>4. v \notin VehOnNet(r)
    <2>1. \A l \in Links : v \notin Placed(l)
      BY <1>2 DEF VehInv, OnRoute
    <2> QED BY <2>1, OnNetIs DEF Placed, LocalTo, OutOf
  <1>5. VehOnNet(r)' = VehOnNet(r) \cup {v}
    <2>1. l0 \in LocalTo(r)
      BY <1>1, <1>2 DEF LocalTo
    <2>2. ASSUME NEW w PROVE w \in VehOnNet(r)' <=> w \in VehOnNet(r) \/ w = v
      <3>1. ASSUME NEW l \in LocalTo(r)
            PROVE  w \in OnLink(link'[l]) <=> w \in OnLink(link[l]) \/ (l = l0 /\ w = v)
        BY <1>2, <1>3 DEF LocalTo
      <3> QED BY <1>1, <2>1, <3>1, OnNetIs
    <2> QED BY <2>2
  <1>6. ASSUME NEW s \in Ranks \ {r} PROVE VehOnNet(s)' = VehOnNet(s)
    <2>1. \A l \in LocalTo(s) : link'[l] = link[l]
      BY <1>1, <1>3 DEF LocalTo
    <2>2. ASSUME NEW w PROVE w \in VehOnNet(s)' <=> w \in VehOnNet(s)
      BY <1>1, <2>1, OnNetIs
    <2> QED BY <2>2
  <1>7. Cardinality(VehOnNet(r)') = vehCounter[r] + 1
    <2>1. Cardinality(VehOnNet(r) \cup {v}) = Cardinality(VehOnNet(r)) + 1
      BY <1>4, OnNetFinite, FS_AddElement
    <2> QED BY <1>5, <2>1 DEF CountInv
  <1> QED BY <1>1, <1>6, <1>7, CountChanges

LEMMA MoveVehicleCounts ==
  ASSUME LinkInv, VehInv, CountInv, NEW r \in Ranks, NEW n \in Nodes, NEW l0 \in Links,
         MoveVehicle(r, n, l0)
  PROVE  CountInv'
PROOF
  <1> DEFINE v == Head(link[l0].buffer)
             next == NextLink(v)
  <1>1. /\ v \in SeqRange(link[l0].buffer)
        /\ \A l \in Links : VehicleMoved(l, l0, v, next)
    BY VehicleMoves
  <1>2. vehCounter' = vehCounter /\ To[l0] = n /\ n \in todo[r]
    BY Zenon DEF MoveVehicle, InLinks
  <1> HIDE DEF v
  <1>3. next \in Links /\ From[next] = n
    BY <1>1, <1>2, NextIs
  <1>4. Part[n] = r
    BY <1>2, LinkInvIs DEF OtherTypes
  <1> HIDE DEF next
  <1>5. /\ l0 \in LocalTo(r)
        /\ ~IsSplit(next) => next \in LocalTo(r)
        /\ IsSplit(next) => next \in OutOf(r)
    BY <1>2, <1>3, <1>4 DEF LocalTo, OutOf, Owner, IsSplit
  <1>6. v \in Placed(l0) /\ v \in OnLink(link[l0])
    BY <1>1 DEF Placed, OnLink
  <1>7. ASSUME NEW s \in Ranks PROVE VehOnNet(s)' = VehOnNet(s)
    <2>1. LocalTo(s) \subseteq Links /\ OutOf(s) \subseteq Links
      BY DEF LocalTo, OutOf
    <2>2. ASSUME NEW w, w # v PROVE w \in VehOnNet(s)' <=> w \in VehOnNet(s)
      <3>1. \A l \in Links : /\ w \in OnLink(link'[l]) <=> w \in OnLink(link[l])
                             /\ w \in SeqRange(outQ'[l]) <=> w \in SeqRange(outQ[l])
        BY <1>1, <2>2 DEF VehicleMoved
      <3> QED BY <2>1, <3>1, OnNetIs
    <2>3. v \in VehOnNet(s)' <=> v \in VehOnNet(s)
      <3>1. CASE s = r
        <4>1. v \in VehOnNet(r)
          BY <1>5, <1>6, OnNetIs
        <4>2. v \in VehOnNet(r)'
          <5>1. CASE IsSplit(next)
            BY <1>1, <1>3, <1>5, <5>1, OnNetIs DEF VehicleMoved
          <5>2. CASE ~IsSplit(next)
            BY <1>1, <1>3, <1>5, <5>2, OnNetIs DEF VehicleMoved
          <5> QED BY <5>1, <5>2
        <4> QED BY <3>1, <4>1, <4>2
      <3>2. CASE s # r
        <4>1. \A l \in LocalTo(s) : l \notin LocalTo(r)
          BY <3>2 DEF LocalTo
        <4>2. \A l \in OutOf(s) : l \notin OutOf(r)
          BY <3>2 DEF OutOf
        <4>3. \A l \in Links : l # l0 => v \notin OnLink(link[l])
          BY <1>6, OneLink DEF Placed
        <4>4. \A l \in Links : v \notin SeqRange(outQ[l])
          <5> SUFFICES ASSUME NEW l \in Links, v \in SeqRange(outQ[l]) PROVE FALSE
            OBVIOUS
          <5>1. l = l0
            BY <1>6, OneLink DEF Placed
          <5> QED BY <1>6, <5>1 DEF VehInv, PlacesApart
        <4>5. v \notin VehOnNet(s)
          BY <1>5, <2>1, <4>1, <4>3, <4>4, OnNetIs
        <4>6. v \notin VehOnNet(s)'
          <5>1. \A l \in LocalTo(s) : v \notin OnLink(link'[l])
            BY <1>1, <1>5, <2>1, <4>1 DEF VehicleMoved
          <5>2. \A l \in OutOf(s) : v \notin SeqRange(outQ'[l])
            BY <1>1, <1>5, <2>1, <4>2, <4>4 DEF VehicleMoved
          <5> QED BY <5>1, <5>2, OnNetIs
        <4> QED BY <4>5, <4>6
      <3> QED BY <3>1, <3>2
    <2> QED BY <2>2, <2>3
  <1> QED BY <1>2, <1>7, CountSame

\* A vehicle on a link is on no other link and in no vehicle queue of a boundary.
LEMMA OnOneLink ==
  ASSUME VehInv, NEW l \in Links, NEW v \in OnLink(link[l])
  PROVE  /\ \A k \in Links : v \in OnLink(link[k]) => k = l
         /\ \A k \in Links : v \notin SeqRange(outQ[k])
PROOF
  <1>1. v \in Placed(l)
    BY DEF Placed
  <1>2. \A k \in Links : v \in OnLink(link[k]) => k = l
    BY <1>1, OneLink DEF Placed
  <1>3. ASSUME NEW k \in Links, v \in SeqRange(outQ[k]) PROVE FALSE
    <2>1. k = l
      BY <1>1, <1>3, OneLink DEF Placed
    <2> QED BY <1>3, <2>1 DEF VehInv, PlacesApart
  <1> QED BY <1>2, <1>3

LEMMA MoveLinksCounts ==
  ASSUME LinkInv, VehInv, CountInv, NEW r \in Ranks, MoveLinks(r)
  PROVE  CountInv'
PROOF
  <1>1. PICK E : LinksMoved(r, E)
    BY LinksMove
  <1> DEFINE L == LeavingNet(r, E)
  <1>2. /\ \A l \in Links : OnLink(link'[l]) = OnLink(link[l]) \ E
        /\ \A l \in Links : outQ'[l] = IF l \in OutOf(r) THEN <<>> ELSE outQ[l]
        /\ \A w \in E : \E l \in LocalTo(r) : w \in OnLink(link[l])
        /\ vehCounter' = [vehCounter EXCEPT ![r] = @ - Cardinality(L)]
    BY <1>1 DEF LinksMoved
  <1>3. \A s : LocalTo(s) \subseteq Links /\ OutOf(s) \subseteq Links
    BY DEF LocalTo, OutOf
  <1>4. \A w : w \in L <=> w \in E \/ \E l \in OutOf(r) : w \in SeqRange(outQ[l])
    BY DEF LeavingNet
  <1> HIDE DEF L
  <1>5. VehOnNet(r)' = VehOnNet(r) \ L
    <2>1. \A l \in OutOf(r) : SeqRange(outQ'[l]) = {}
      BY <1>2, <1>3, RangeEmpty
    <2>2. ASSUME NEW w
          PROVE  w \in VehOnNet(r)' <=> \E l \in LocalTo(r) : w \in OnLink(link[l]) \ E
      <3>1. \A l \in LocalTo(r) : w \in OnLink(link'[l]) <=> w \in OnLink(link[l]) \ E
        BY <1>2, <1>3
      <3>2. w \in VehOnNet(r)' <=> \E l \in LocalTo(r) : w \in OnLink(link'[l])
        BY <2>1, OnNetIs
      <3> QED BY <3>1, <3>2
    <2>3. ASSUME NEW w PROVE w \in VehOnNet(r)' <=> w \in VehOnNet(r) /\ w \notin L
      <3>1. ASSUME NEW l \in LocalTo(r), w \in OnLink(link[l])
            PROVE  \A k \in OutOf(r) : w \notin SeqRange(outQ[k])
        BY <1>3, <3>1, OnOneLink
      <3> QED BY <1>4, <2>2, <3>1, OnNetIs
    <2> QED BY <2>3
  <1>6. L \subseteq VehOnNet(r)
    BY <1>2, <1>4, OnNetIs
  <1>7. ASSUME NEW s \in Ranks \ {r} PROVE VehOnNet(s)' = VehOnNet(s)
    <2>1. \A l \in OutOf(s) : outQ'[l] = outQ[l]
      BY <1>2 DEF OutOf
    <2>2. ASSUME NEW l \in LocalTo(s), NEW w \in OnLink(link[l]) PROVE w \notin E
      <3> SUFFICES ASSUME w \in E PROVE FALSE
        OBVIOUS
      <3>1. PICK k \in LocalTo(r) : w \in OnLink(link[k])
        BY <1>2
      <3>2. k = l
        BY <1>3, <3>1, OnOneLink
      <3> QED BY <3>2 DEF LocalTo
    <2>3. \A l \in LocalTo(s) : OnLink(link'[l]) = OnLink(link[l])
      BY <1>2, <1>3, <2>2
    <2>4. ASSUME NEW w PROVE w \in VehOnNet(s)' <=> w \in VehOnNet(s)
      BY <2>1, <2>3, OnNetIs
    <2> QED BY <2>4
  <1>8. Cardinality(VehOnNet(r)') = vehCounter[r] - Cardinality(L)
    <2>1. Cardinality(VehOnNet(r) \ L) = Cardinality(VehOnNet(r)) - Cardinality(VehOnNet(r) \cap L)
      BY OnNetFinite, FS_Difference
    <2>2. VehOnNet(r) \cap L = L
      BY <1>6
    <2> QED BY <1>5, <2>1, <2>2 DEF CountInv
  <1> QED BY <1>2, <1>7, <1>8, CountChanges

LEMMA ExchangeCounts ==
  ASSUME LinkInv, VehInv, CountInv, NEW r \in Ranks, Exchange(r)
  PROVE  CountInv'
PROOF
  <1>1. PICK on : VehiclesReceived(r, on)
    BY ExchangeReceives
  <1> DEFINE entered == {l \in InTo(r) : on[l] # <<>>}
             new == UNION {SeqRange(on[l]) : l \in entered}
  <1>2. /\ \A l \in InTo(r) : SeqRange(on[l]) \subseteq InFlight(l)
        /\ \A l \in Links : OnLink(link'[l]) =
             OnLink(link[l]) \cup (IF l \in InTo(r) THEN SeqRange(on[l]) ELSE {})
        /\ vehCounter' = [vehCounter EXCEPT ![r] = @ + Cardinality(new)]
        /\ outQ' = outQ
    BY <1>1 DEF VehiclesReceived
  <1>3. /\ \A s : LocalTo(s) \subseteq Links /\ OutOf(s) \subseteq Links
        /\ InTo(r) \subseteq LocalTo(r)
    BY DEF LocalTo, OutOf, InTo
  <1>4. \A w : w \in new <=> \E l \in InTo(r) : w \in SeqRange(on[l])
    BY RangeEmpty
  <1> HIDE DEF new
  <1>5. VehOnNet(r)' = VehOnNet(r) \cup new
    <2>1. ASSUME NEW w PROVE w \in VehOnNet(r)' <=> w \in VehOnNet(r) \/ w \in new
      BY <1>2, <1>3, <1>4, OnNetIs
    <2> QED BY <2>1
  <1>6. VehOnNet(r) \cap new = {}
    <2> SUFFICES ASSUME NEW w \in VehOnNet(r), w \in new PROVE FALSE
      OBVIOUS
    <2>1. PICK l \in Links : w \in InFlight(l)
      BY <1>2, <1>3, <1>4
    <2>2. PICK k \in Links : w \in OnLink(link[k]) \cup SeqRange(outQ[k])
      BY <1>3, OnNetIs
    <2>3. k = l
      BY <2>1, <2>2, OneLink DEF Placed
    <2> QED BY <2>1, <2>2, <2>3 DEF VehInv, PlacesApart
  <1>7. new \subseteq Vehicles
    <2>1. ASSUME NEW w \in new PROVE w \in Vehicles
      <3>1. PICK l \in Links : w \in InFlight(l)
        BY <1>2, <1>3, <1>4
      <3> QED BY <3>1 DEF VehInv, OnRoute, Placed
    <2> QED BY <2>1
  <1>8. ASSUME NEW s \in Ranks \ {r} PROVE VehOnNet(s)' = VehOnNet(s)
    <2>1. \A l \in LocalTo(s) : OnLink(link'[l]) = OnLink(link[l])
      BY <1>2, <1>3 DEF LocalTo
    <2>2. ASSUME NEW w PROVE w \in VehOnNet(s)' <=> w \in VehOnNet(s)
      BY <1>2, <2>1, OnNetIs
    <2> QED BY <2>2
  <1>9. Cardinality(VehOnNet(r)') = vehCounter[r] + Cardinality(new)
    <2>1. IsFiniteSet(new)
      BY <1>7, LinkAssumption, FS_Subset
    <2>2. Cardinality(VehOnNet(r) \cup new)
            = Cardinality(VehOnNet(r)) + Cardinality(new) - Cardinality(VehOnNet(r) \cap new)
      BY <2>1, OnNetFinite, FS_Union
    <2>3. Cardinality(VehOnNet(r) \cap new) = 0
      BY <1>6, FS_EmptySet
    <2>4. Cardinality(VehOnNet(r)) \in Nat /\ Cardinality(new) \in Nat
      BY <2>1, OnNetFinite, FS_CardinalityType
    <2> QED BY <1>5, <2>2, <2>3, <2>4 DEF CountInv
  <1> QED BY <1>2, <1>8, <1>9, CountChanges

LEMMA CountInit == NetInit => CountInv
PROOF
  <1> SUFFICES ASSUME NetInit PROVE CountInv OBVIOUS
  <1>1. /\ vehCounter = [r \in Ranks |-> 0]
        /\ \A l \in Links : /\ link[l].q = <<>> /\ link[l].buffer = <<>> /\ link[l].waiting = <<>>
                            /\ outQ[l] = <<>>
    BY DEF NetInit, NewLink
  <1>2. \A l \in Links : OnLink(link[l]) = {} /\ SeqRange(outQ[l]) = {}
    <2>1. Vehs(<<>>) = <<>>
      BY DEF Vehs
    <2> QED BY <1>1, <2>1, RangeEmpty DEF OnLink
  <1>3. \A r \in Ranks : VehOnNet(r) = {}
    BY <1>2 DEF VehOnNet, LocalTo, OutOf
  <1> QED BY <1>1, <1>3, FS_EmptySet DEF CountInv

LEMMA CountStep == LinkInv /\ VehInv /\ CountInv /\ [NetNext]_netVars => CountInv'
PROOF
  <1> SUFFICES ASSUME LinkInv, VehInv, CountInv, [NetNext]_netVars PROVE CountInv'
    OBVIOUS
  <1>1. ASSUME \A l \in Links : OnLink(link'[l]) = OnLink(link[l]), outQ' = outQ,
               vehCounter' = vehCounter
        PROVE  CountInv'
    <2>1. ASSUME NEW r \in Ranks PROVE VehOnNet(r)' = VehOnNet(r)
      <3>1. ASSUME NEW w PROVE w \in VehOnNet(r)' <=> w \in VehOnNet(r)
        BY <1>1, OnNetIs DEF LocalTo
      <3> QED BY <3>1
    <2> QED BY <1>1, <2>1, CountSame
  <1>2. CASE UNCHANGED netVars
    BY <1>1, <1>2 DEF netVars
  <1>3. CASE \E r \in Ranks : PartitionNext(r)
    <2>1. PICK r \in Ranks : PartitionNext(r)
      BY <1>3
    <2>2. CASE StartNodes(r)
      BY <1>1, <2>2 DEF StartNodes
    <2>3. ASSUME NEW n \in Nodes, FinishNode(r, n) PROVE CountInv'
      <3>1. outQ' = outQ /\ vehCounter' = vehCounter
        BY <2>3 DEF FinishNode
      <3> QED BY <1>1, <2>3, <3>1, FinishNodePlaces
    <2> QED BY <2>1, <2>2, <2>3, DepartCounts, MoveVehicleCounts, MoveLinksCounts, ExchangeCounts
            DEF PartitionNext
  <1> QED BY <1>2, <1>3 DEF NetNext, NetTerminated

\* A vehicle on its leg is in one place of one link.
LEMMA PlacesAre ==
  ASSUME VehInv, NEW v \in Vehicles
  PROVE  IF pos[v] \in 1..Len(Route[v])
           THEN \E p \in PlacesOf(v) : PlacesOf(v) = {p} /\ p[1] = CurrLink(v)
           ELSE PlacesOf(v) = {}
PROOF
  <1> DEFINE Parts == {"q", "buffer", "waiting", "out", "flight"}
  <1>1. ASSUME NEW l \in Links
        PROVE  /\ v \in Placed(l) <=> \E part \in Parts : v \in VehsAt(l, part)
               /\ \A a, b \in Parts : v \in VehsAt(l, a) /\ v \in VehsAt(l, b) => a = b
    <2>1. /\ VehsAt(l, "q") = SeqRange(Vehs(link[l].q))
          /\ VehsAt(l, "buffer") = SeqRange(link[l].buffer)
          /\ VehsAt(l, "waiting") = SeqRange(link[l].waiting)
          /\ VehsAt(l, "out") = SeqRange(outQ[l])
          /\ VehsAt(l, "flight") = InFlight(l)
      BY DEF VehsAt
    <2>2. PlacesApart(l)
      BY DEF VehInv
    <2> QED BY <2>1, <2>2 DEF PlacesApart, Placed, Distinct, OnLink
  <1>2. ASSUME NEW p \in PlacesOf(v)
        PROVE  /\ p[1] \in Links /\ p[2] \in Parts /\ p = <<p[1], p[2]>> /\ v \in VehsAt(p[1], p[2])
               /\ v \in Placed(p[1]) /\ pos[v] \in 1..Len(Route[v]) /\ p[1] = CurrLink(v)
    <2>1. p[1] \in Links /\ p[2] \in Parts /\ p = <<p[1], p[2]>> /\ v \in VehsAt(p[1], p[2])
      BY DEF PlacesOf
    <2>2. v \in Placed(p[1])
      BY <1>1, <2>1
    <2> QED BY <2>1, <2>2 DEF VehInv, OnRoute
  <1>3. CASE pos[v] \in 1..Len(Route[v])
    <2> DEFINE l == CurrLink(v)
    <2>1. l \in Links /\ v \in Placed(l)
      BY <1>3, NetworkAssumption DEF CurrLink, VehInv
    <2>2. PICK part \in Parts : v \in VehsAt(l, part)
      BY <1>1, <2>1
    <2>3. <<l, part>> \in PlacesOf(v)
      BY <2>1, <2>2 DEF PlacesOf
    <2>4. \A p \in PlacesOf(v) : p = <<l, part>>
      BY <1>1, <1>2, <2>1, <2>2
    <2> QED BY <1>3, <2>3, <2>4
  <1>4. CASE pos[v] \notin 1..Len(Route[v])
    BY <1>2, <1>4
  <1> QED BY <1>3, <1>4

\* Every vehicle on its leg is in exactly one place of the link its route pointer says,
\* and veh_on_net() counts the vehicles on a partition's links: partition boundaries
\* neither lose nor duplicate a vehicle, for every network, route and interleaving.
THEOREM VehiclesAreOnce == NetSpec => []VehiclesOnce
PROOF
  <1>1. NetInit => LinkInv /\ VehInv /\ CountInv
    BY LinkInit, PlacesInit, CountInit
  <1>2. LinkInv /\ VehInv /\ CountInv /\ [NetNext]_netVars => (LinkInv /\ VehInv /\ CountInv)'
    BY LinkStep, PlacesStep, CountStep
  <1>3. LinkInv /\ VehInv /\ CountInv => VehiclesOnce
    BY PlacesAre DEF CountInv, VehiclesOnce
  <1> QED BY <1>1, <1>2, <1>3, PTL DEF NetSpec

-----------------------------------------------------------------------------
(* The caches of active links.                                              *)

RankCached(r) ==
  /\ \A l \in LocalTo(r) : OnLink(link[l]) # {} => l \in activeLinks[r]
  /\ \A l \in OutOf(r) : SeqRange(outQ[l]) # {} => l \in activeLinks[r] /\ pc[r] = "nodes"
  /\ pc[r] # "nodes" => \A l \in activeLinks[r] : l \in LocalTo(r) /\ OnLink(link[l]) # {}

LEMMA CacheIs ==
  ASSUME LinkInv
  PROVE  CacheInv <=> \A r \in Ranks : RankCached(r)
PROOF
  <1>1. ASSUME NEW l \in Links
        PROVE  /\ IsActive(link[l]) <=> OnLink(link[l]) # {}
               /\ outQ[l] # <<>> <=> SeqRange(outQ[l]) # {}
    <2>1. SoundLink(link[l], l) /\ outQ[l] \in Seq(Vehicles)
      BY LinkInvIs DEF OtherTypes
    <2> QED BY <2>1, ActiveIsOccupied, NoneInEmpty
  <1>2. \A r : LocalTo(r) \subseteq Links /\ OutOf(r) \subseteq Links
    BY DEF LocalTo, OutOf
  <1> QED BY <1>1, <1>2 DEF CacheInv, RankCached

LEMMA CacheIsNext ==
  ASSUME LinkInv', \A r \in Ranks : RankCached(r)'
  PROVE  CacheInv'
PROOF
  <1>1. ASSUME NEW l \in Links
        PROVE  /\ IsActive(link'[l]) <=> OnLink(link'[l]) # {}
               /\ outQ'[l] # <<>> <=> SeqRange(outQ'[l]) # {}
    <2>1. link'[l] \in LinkStates /\ outQ'[l] \in Seq(Vehicles)
      BY DEF LinkInv, NetTypes
    <2>2. link'[l].flow <= FlowPerTick[l] /\ Fits(link'[l].buffer, link'[l].flow)
      BY DEF LinkInv, FlowBalance, Fits
    <2>3. SoundLink(link'[l], l)
      BY <2>1, <2>2 DEF SoundLink
    <2> QED BY <2>1, <2>3, ActiveIsOccupied, NoneInEmpty
  <1>2. \A r : LocalTo(r) \subseteq Links /\ OutOf(r) \subseteq Links
    BY DEF LocalTo, OutOf
  <1>3. \A r \in Ranks :
          /\ \A l \in LocalTo(r) : OnLink(link'[l]) # {} => l \in activeLinks'[r]
          /\ \A l \in OutOf(r) : SeqRange(outQ'[l]) # {} => l \in activeLinks'[r] /\ pc'[r] = "nodes"
          /\ pc'[r] # "nodes" => \A l \in activeLinks'[r] : l \in LocalTo(r) /\ OnLink(link'[l]) # {}
    BY DEF RankCached, OnLink, SeqRange, Vehs, LocalTo, OutOf, Owner, IsSplit
  <1>4. \A r \in Ranks :
          /\ \A l \in LocalTo(r) : IsActive(link'[l]) => l \in activeLinks'[r]
          /\ \A l \in OutOf(r) : outQ'[l] # <<>> => l \in activeLinks'[r] /\ pc'[r] = "nodes"
          /\ pc'[r] # "nodes" => \A l \in activeLinks'[r] : l \in LocalTo(r) /\ IsActive(link'[l])
    BY <1>1, <1>2, <1>3
  <1> QED BY <1>4 DEF CacheInv, IsActive, LocalTo, OutOf, Owner, IsSplit

\* RankCached in the next state.
LEMMA CachedNext ==
  ASSUME NEW r,
         \A l \in LocalTo(r) : OnLink(link'[l]) # {} => l \in activeLinks'[r],
         \A l \in OutOf(r) : SeqRange(outQ'[l]) # {} => l \in activeLinks'[r] /\ pc'[r] = "nodes",
         pc'[r] # "nodes" => \A l \in activeLinks'[r] : l \in LocalTo(r) /\ OnLink(link'[l]) # {}
  PROVE  RankCached(r)'
  BY DEF RankCached, OnLink, SeqRange, Vehs, LocalTo, OutOf, Owner, IsSplit

LEMMA CachedStays ==
  ASSUME NEW s, RankCached(s), activeLinks'[s] = activeLinks[s], pc'[s] = pc[s],
         \A l \in LocalTo(s) : OnLink(link'[l]) = OnLink(link[l]),
         \A l \in OutOf(s) : SeqRange(outQ'[l]) = SeqRange(outQ[l])
  PROVE  RankCached(s)'
  BY CachedNext DEF RankCached

LEMMA DepartCaches ==
  ASSUME LinkInv, VehInv, \A s \in Ranks : RankCached(s),
         NEW r \in Ranks, NEW v \in Vehicles, Depart(r, v)
  PROVE  \A s \in Ranks : RankCached(s)'
PROOF
  <1> DEFINE l0 == Route[v][1]
  <1>1. /\ Owner(l0) = r /\ pc[r] = "depart" /\ UNCHANGED <<pc, outQ>>
        /\ link' = [link EXCEPT ![l0] = PushVehToWaitingList(link[l0], v)]
        /\ activeLinks' = [activeLinks EXCEPT ![r] = @ \cup {l0}]
    BY DEF Depart
  <1>2. l0 \in Links /\ OnLink(link'[l0]) = OnLink(link[l0]) \cup {v}
    BY DepartPlaces DEF Entered
  <1> HIDE DEF l0
  <1>3. \A l \in Links \ {l0} : link'[l] = link[l]
    BY <1>1, LinkInvIs
  <1>4. \A s \in Ranks : activeLinks'[s] = IF s = r THEN activeLinks[r] \cup {l0} ELSE activeLinks[s]
    BY <1>1, LinkInvIs DEF OtherTypes
  <1>5. l0 \in LocalTo(r) /\ \A s : LocalTo(s) \subseteq Links
    BY <1>1, <1>2 DEF LocalTo
  <1>6. RankCached(r)'
    <2>1. \A l \in LocalTo(r) : OnLink(link'[l]) # {} => l \in activeLinks'[r]
      BY <1>3, <1>4, <1>5 DEF RankCached
    <2>2. \A l \in OutOf(r) : SeqRange(outQ'[l]) = {}
      BY <1>1 DEF RankCached
    <2>3. \A l \in activeLinks'[r] : l \in LocalTo(r) /\ OnLink(link'[l]) # {}
      BY <1>1, <1>2, <1>3, <1>4, <1>5 DEF RankCached
    <2> QED BY <2>1, <2>2, <2>3, CachedNext
  <1>7. ASSUME NEW s \in Ranks \ {r} PROVE RankCached(s)'
    <2>1. \A l \in LocalTo(s) : OnLink(link'[l]) = OnLink(link[l])
      BY <1>1, <1>3 DEF LocalTo
    <2> QED BY <1>1, <1>4, <2>1, CachedStays
  <1> QED BY <1>6, <1>7

LEMMA StartNodesCaches ==
  ASSUME LinkInv, \A s \in Ranks : RankCached(s), NEW r \in Ranks, StartNodes(r)
  PROVE  \A s \in Ranks : RankCached(s)'
PROOF
  <1>1. /\ pc[r] = "depart" /\ pc' = [pc EXCEPT ![r] = "nodes"]
        /\ UNCHANGED <<link, outQ, activeLinks>>
    BY DEF StartNodes
  <1>2. pc'[r] = "nodes" /\ \A s \in Ranks \ {r} : pc'[s] = pc[s]
    BY <1>1, LinkInvIs DEF OtherTypes
  <1>3. RankCached(r)'
    <2>1. RankCached(r)
      OBVIOUS
    <2> QED BY <1>1, <1>2, <2>1, CachedNext DEF RankCached
  <1>4. ASSUME NEW s \in Ranks \ {r} PROVE RankCached(s)'
    BY <1>1, <1>2, CachedStays
  <1> QED BY <1>3, <1>4

LEMMA FinishNodeCaches ==
  ASSUME LinkInv, VehInv, \A s \in Ranks : RankCached(s), NEW r \in Ranks, NEW n \in Nodes, FinishNode(r, n)
  PROVE  \A s \in Ranks : RankCached(s)'
PROOF
  <1>1. UNCHANGED <<pc, outQ, activeLinks>>
    BY DEF FinishNode
  <1>2. \A s : \A l \in LocalTo(s) : OnLink(link'[l]) = OnLink(link[l])
    BY FinishNodePlaces DEF LocalTo
  <1> QED BY <1>1, <1>2, CachedStays

LEMMA MoveVehicleCaches ==
  ASSUME LinkInv, LinkInv', VehInv, \A s \in Ranks : RankCached(s),
         NEW r \in Ranks, NEW n \in Nodes, NEW l0 \in Links, MoveVehicle(r, n, l0)
  PROVE  \A s \in Ranks : RankCached(s)'
PROOF
  <1> DEFINE v == Head(link[l0].buffer)
             next == NextLink(v)
             popped == [link EXCEPT ![l0] = PopVeh(@)]
             pushed == IF IsSplit(next) THEN popped
                       ELSE [popped EXCEPT ![next] = PushVehToQueue(@, next, v, now[r])]
  <1>1. /\ v \in SeqRange(link[l0].buffer)
        /\ \A l \in Links : VehicleMoved(l, l0, v, next)
    BY VehicleMoves
  <1>2. /\ To[l0] = n /\ n \in todo[r] /\ pc[r] = "nodes" /\ pc' = pc
        /\ link' = pushed
        /\ activeLinks' = [activeLinks EXCEPT ![r] =
                             ((@ \cup {next}) \ {l0}) \cup StillActive(l0, pushed[l0])]
    BY Zenon DEF MoveVehicle, InLinks
  <1>3. activeLinks' = [activeLinks EXCEPT ![r] =
                          ((@ \cup {next}) \ {l0}) \cup StillActive(l0, link'[l0])]
    BY <1>2, Zenon
  <1> HIDE DEF v
  <1>4. next \in Links /\ From[next] = n
    BY <1>1, <1>2, NextIs
  <1>5. Part[n] = r
    BY <1>2, LinkInvIs DEF OtherTypes
  <1> HIDE DEF next, popped, pushed
  <1>6. /\ l0 \in LocalTo(r) /\ l0 \notin OutOf(r)
        /\ ~IsSplit(next) => next \in LocalTo(r)
        /\ IsSplit(next) => next \in OutOf(r)
    BY <1>2, <1>4, <1>5 DEF LocalTo, OutOf, Owner, IsSplit
  <1>7. \A s \in Ranks : activeLinks'[s] =
          IF s = r THEN ((activeLinks[r] \cup {next}) \ {l0}) \cup StillActive(l0, link'[l0])
          ELSE activeLinks[s]
    BY <1>3, LinkInvIs DEF OtherTypes
  <1>8. OnLink(link'[l0]) # {} => StillActive(l0, link'[l0]) = {l0}
    <2>1. SoundLink(link'[l0], l0)
      BY DEF LinkInv, NetTypes, FlowBalance, SoundLink, Fits
    <2> QED BY <2>1, ActiveIsOccupied DEF StillActive
  <1>9. v \in OnLink(link[l0])
    BY <1>1 DEF OnLink
  <1>10. \A s : LocalTo(s) \subseteq Links /\ OutOf(s) \subseteq Links
    BY DEF LocalTo, OutOf
  <1>11. RankCached(r)'
    <2>1. ASSUME NEW l \in LocalTo(r), OnLink(link'[l]) # {} PROVE l \in activeLinks'[r]
      <3>1. CASE l = l0
        BY <1>7, <1>8, <2>1, <3>1
      <3>2. CASE l # l0 /\ l = next
        BY <1>7, <3>2
      <3>3. CASE l # l0 /\ l # next
        <4>1. OnLink(link[l]) # {}
          BY <1>1, <1>10, <2>1, <3>3 DEF VehicleMoved
        <4> QED BY <1>7, <3>3, <4>1 DEF RankCached
      <3> QED BY <3>1, <3>2, <3>3
    <2>2. ASSUME NEW l \in OutOf(r), SeqRange(outQ'[l]) # {}
          PROVE  l \in activeLinks'[r] /\ pc'[r] = "nodes"
      <3>1. SeqRange(outQ'[l]) = SeqRange(outQ[l]) \/ l = next
        BY <1>1, <1>10 DEF VehicleMoved
      <3>2. l \in activeLinks[r] \/ l = next
        BY <2>2, <3>1 DEF RankCached
      <3> QED BY <1>2, <1>6, <1>7, <3>2
    <2> QED BY <1>2, <2>1, <2>2, CachedNext
  <1>12. ASSUME NEW s \in Ranks \ {r} PROVE RankCached(s)'
    <2>1. ASSUME NEW l \in LocalTo(s) PROVE OnLink(link'[l]) = OnLink(link[l])
      <3>1. l \in Links /\ l \notin LocalTo(r)
        BY DEF LocalTo
      <3>2. v \notin OnLink(link[l])
        BY <1>6, <1>9, <3>1, OnOneLink
      <3>3. OnLink(link'[l]) = OnLink(link[l]) \ {v}
        BY <1>1, <1>6, <3>1 DEF VehicleMoved
      <3> QED BY <3>2, <3>3
    <2>2. ASSUME NEW l \in OutOf(s) PROVE SeqRange(outQ'[l]) = SeqRange(outQ[l])
      <3>1. l \in Links /\ l \notin OutOf(r)
        BY DEF OutOf
      <3> QED BY <1>1, <1>6, <3>1 DEF VehicleMoved
    <2> QED BY <1>2, <1>7, <2>1, <2>2, CachedStays
  <1> QED BY <1>11, <1>12

\* move_links takes no vehicle from the links of another rank.
LEMMA OthersUnmoved ==
  ASSUME VehInv, NEW r, NEW E, LinksMoved(r, E), NEW s, s # r
  PROVE  /\ \A l \in LocalTo(s) : OnLink(link'[l]) = OnLink(link[l])
         /\ \A l \in OutOf(s) : outQ'[l] = outQ[l]
PROOF
  <1>1. \A l \in OutOf(s) : outQ'[l] = outQ[l]
    BY DEF LinksMoved, OutOf
  <1>2. ASSUME NEW l \in LocalTo(s), NEW w \in OnLink(link[l]), w \in E PROVE FALSE
    <2>1. l \in Links /\ Owner(l) = s
      BY DEF LocalTo
    <2>2. PICK k \in LocalTo(r) : w \in OnLink(link[k])
      BY <1>2 DEF LinksMoved
    <2>3. k \in Links /\ Owner(k) = r
      BY DEF LocalTo
    <2> QED BY <2>1, <2>2, <2>3, OnOneLink
  <1>3. \A l \in LocalTo(s) : OnLink(link'[l]) = OnLink(link[l]) \ E
    BY DEF LinksMoved, LocalTo
  <1> QED BY <1>1, <1>2, <1>3

LEMMA MoveLinksCaches ==
  ASSUME LinkInv, LinkInv', VehInv, \A s \in Ranks : RankCached(s),
         NEW r \in Ranks, MoveLinks(r)
  PROVE  \A s \in Ranks : RankCached(s)'
PROOF
  <1>1. PICK E : LinksMoved(r, E)
    BY LinksMove
  <1> DEFINE act == activeLinks[r] \cap LocalTo(r)
             step == [l \in act |-> DoSimStep(link[l], l, Arriving, now[r])]
             moved == [l \in act |-> step[l].link]
  <1>2. /\ pc' = [pc EXCEPT ![r] = "exchange"]
        /\ link' = [l \in Links |-> IF l \in act THEN Asked(moved[l], now[r] + 1) ELSE link[l]]
        /\ activeLinks' = [activeLinks EXCEPT ![r] = {l \in act : IsActive(moved[l])}]
    BY Zenon DEF MoveLinks
  <1> HIDE DEF moved
  <1>3. ASSUME NEW l \in act PROVE IsActive(moved[l]) <=> OnLink(link'[l]) # {}
    <2>1. l \in Links /\ link'[l] = Asked(moved[l], now[r] + 1)
      BY <1>2 DEF LocalTo
    <2>2. SoundLink(link'[l], l)
      BY <2>1 DEF LinkInv, NetTypes, FlowBalance, SoundLink, Fits
    <2>3. IsActive(link'[l]) <=> IsActive(moved[l])
      <3> DEFINE k == moved[l]
                 t == now[r] + 1
      <3> HIDE DEF k, t
      <3>1. IsActive(Asked(k, t)) <=> IsActive(k)
        BY DEF Asked, StartTimer, IsActive
      <3> QED BY <2>1, <3>1 DEF k, t
    <2> QED BY <2>1, <2>2, <2>3, ActiveIsOccupied
  <1>4. /\ pc'[r] = "exchange" /\ \A s \in Ranks \ {r} : pc'[s] = pc[s]
        /\ activeLinks'[r] = {l \in act : IsActive(moved[l])}
        /\ \A s \in Ranks \ {r} : activeLinks'[s] = activeLinks[s]
    BY <1>2, LinkInvIs DEF OtherTypes
  <1>5. RankCached(r)'
    <2>1. ASSUME NEW l \in LocalTo(r), OnLink(link'[l]) # {} PROVE l \in activeLinks'[r]
      <3>1. OnLink(link[l]) # {}
        BY <1>1, <2>1 DEF LinksMoved, LocalTo
      <3>2. l \in act
        BY <3>1 DEF RankCached
      <3> QED BY <1>3, <1>4, <2>1, <3>2
    <2>2. \A l \in OutOf(r) : SeqRange(outQ'[l]) = {}
      BY <1>1, RangeEmpty DEF LinksMoved, OutOf
    <2>3. \A l \in activeLinks'[r] : l \in LocalTo(r) /\ OnLink(link'[l]) # {}
      BY <1>3, <1>4
    <2> QED BY <2>1, <2>2, <2>3, CachedNext
  <1>6. ASSUME NEW s \in Ranks \ {r} PROVE RankCached(s)'
    <2>1. /\ \A l \in LocalTo(s) : OnLink(link'[l]) = OnLink(link[l])
          /\ \A l \in OutOf(s) : outQ'[l] = outQ[l]
      BY <1>1, OthersUnmoved
    <2> QED BY <1>4, <2>1, CachedStays
  <1> QED BY <1>5, <1>6

LEMMA ExchangeCaches ==
  ASSUME LinkInv, VehInv, \A s \in Ranks : RankCached(s), NEW r \in Ranks, Exchange(r)
  PROVE  \A s \in Ranks : RankCached(s)'
PROOF
  <1>1. PICK on : VehiclesReceived(r, on)
    BY ExchangeReceives
  <1> DEFINE entered == {l \in InTo(r) : on[l] # <<>>}
  <1>2. /\ \A l \in InTo(r) : on[l] \in Seq(Vehicles)
        /\ \A l \in Links : OnLink(link'[l]) =
             OnLink(link[l]) \cup (IF l \in InTo(r) THEN SeqRange(on[l]) ELSE {})
        /\ activeLinks' = [activeLinks EXCEPT ![r] = @ \cup entered]
        /\ outQ' = outQ
    BY <1>1 DEF VehiclesReceived
  <1>3. pc[r] = "exchange" /\ pc' = [pc EXCEPT ![r] = IF now[r] < EndTick THEN "depart" ELSE "done"]
    BY DEF Exchange
  <1>4. /\ pc'[r] # "nodes" /\ \A s \in Ranks \ {r} : pc'[s] = pc[s]
        /\ activeLinks'[r] = activeLinks[r] \cup entered
        /\ \A s \in Ranks \ {r} : activeLinks'[s] = activeLinks[s]
    BY <1>2, <1>3, LinkInvIs DEF OtherTypes
  <1>5. \A l \in InTo(r) : l \in entered <=> SeqRange(on[l]) # {}
    BY <1>2, NoneInEmpty
  <1>6. /\ \A s : LocalTo(s) \subseteq Links
        /\ InTo(r) \subseteq LocalTo(r) /\ entered \subseteq InTo(r)
    BY DEF LocalTo, InTo
  <1> HIDE DEF entered
  <1>7. RankCached(r)'
    <2>1. ASSUME NEW l \in LocalTo(r), OnLink(link'[l]) # {} PROVE l \in activeLinks'[r]
      BY ZenonT(40), <1>2, <1>4, <1>5, <1>6, <2>1 DEF RankCached
    <2>2. \A l \in OutOf(r) : SeqRange(outQ'[l]) = {}
      BY <1>2, <1>3 DEF RankCached
    <2>3. ASSUME NEW l \in activeLinks'[r] PROVE l \in LocalTo(r) /\ OnLink(link'[l]) # {}
      <3>1. CASE l \in entered
        BY <1>2, <1>5, <1>6, <3>1
      <3>2. CASE l \in activeLinks[r]
        BY <1>2, <1>3, <1>6, <3>2 DEF RankCached
      <3> QED BY <1>4, <3>1, <3>2
    <2> QED BY <2>1, <2>2, <2>3, CachedNext
  <1>8. ASSUME NEW s \in Ranks \ {r} PROVE RankCached(s)'
    <2>1. \A l \in LocalTo(s) : OnLink(link'[l]) = OnLink(link[l])
      BY <1>2, <1>6 DEF LocalTo
    <2> QED BY <1>2, <1>4, <2>1, CachedStays
  <1> QED BY <1>7, <1>8

LEMMA CacheInit == NetInit => CacheInv
PROOF
  <1> SUFFICES ASSUME NetInit PROVE CacheInv OBVIOUS
  <1>1. /\ activeLinks = [r \in Ranks |-> {}]
        /\ \A l \in Links : ~IsActive(link[l]) /\ outQ[l] = <<>>
    BY DEF NetInit, NewLink, IsActive
  <1> QED BY <1>1 DEF CacheInv, LocalTo, OutOf

LEMMA CacheStep == LinkInv /\ VehInv /\ CacheInv /\ [NetNext]_netVars => CacheInv'
PROOF
  <1> SUFFICES ASSUME LinkInv, VehInv, CacheInv, [NetNext]_netVars PROVE CacheInv'
    OBVIOUS
  <1>1. LinkInv' /\ \A s \in Ranks : RankCached(s)
    BY LinkStep, CacheIs
  <1>2. \A s \in Ranks : RankCached(s)'
    <2>1. CASE UNCHANGED netVars
      BY <1>1, <2>1, CachedStays DEF netVars
    <2>2. CASE \E r \in Ranks : PartitionNext(r)
      <3>1. PICK r \in Ranks : PartitionNext(r)
        BY <2>2
      <3> QED BY <1>1, <3>1, DepartCaches, StartNodesCaches, FinishNodeCaches, MoveVehicleCaches,
                 MoveLinksCaches, ExchangeCaches DEF PartitionNext
    <2> QED BY <2>1, <2>2 DEF NetNext, NetTerminated
  <1> QED BY <1>1, <1>2, CacheIsNext

\* Every link with a vehicle on it, and every node with a vehicle to take over, is in the
\* cache that move_links and move_nodes work through; between two ticks no other link is:
\* a vehicle is never left standing because its link was dropped from the cache.
THEOREM CachesAreComplete == NetSpec => []CachesCover
PROOF
  <1>1. NetInit => LinkInv /\ VehInv /\ CacheInv
    BY LinkInit, PlacesInit, CacheInit
  <1>2. LinkInv /\ VehInv /\ CacheInv /\ [NetNext]_netVars => (LinkInv /\ VehInv /\ CacheInv)'
    BY LinkStep, PlacesStep, CacheStep
  <1>3. LinkInv /\ CacheInv => CachesCover
    <2> SUFFICES ASSUME LinkInv, CacheInv, NEW r \in Ranks
                 PROVE  LET busy == {l \in LocalTo(r) : IsActive(link[l])}
                                      \cup {l \in OutOf(r) : outQ[l] # <<>>}
                        IN /\ busy \subseteq activeLinks[r]
                           /\ pc[r] \in {"depart", "done"} => activeLinks[r] = busy
                           /\ pc[r] \in {"depart", "exchange", "done"} =>
                                \A l \in LocalTo(r) : OffersVeh(link[l]) => To[l] \in activeNodes[r]
      BY DEF CachesCover
    <2> DEFINE busy == {l \in LocalTo(r) : IsActive(link[l])} \cup {l \in OutOf(r) : outQ[l] # <<>>}
    <2>1. busy \subseteq activeLinks[r]
      BY DEF CacheInv
    <2>2. pc[r] \in {"depart", "done"} => activeLinks[r] = busy
      <3>1. ASSUME pc[r] \in {"depart", "done"} PROVE activeLinks[r] \subseteq busy
        BY <3>1 DEF CacheInv
      <3> QED BY <2>1, <3>1
    <2>3. ASSUME pc[r] \in {"depart", "exchange", "done"}, NEW l \in LocalTo(r), OffersVeh(link[l])
          PROVE  To[l] \in activeNodes[r]
      <3>1. l \in Links /\ Owner(l) = r
        BY DEF LocalTo
      <3>2. BufferCached(l, r)
        BY <3>1 DEF LinkInv
      <3> QED BY <2>3, <3>2 DEF BufferCached, OffersVeh
    <2> QED BY <2>1, <2>2, <2>3
  <1> QED BY <1>1, <1>2, <1>3, PTL DEF NetSpec

-----------------------------------------------------------------------------
(* The storage accounts on both sides of a partition boundary.              *)

\* FreedInFlight for the reports R.
FreedBy(l, R) == SumOver([m \in R |-> m.caps[l]], R)

LEMMA FreedAdds ==
  ASSUME NEW l, NEW R, IsFiniteSet(R), NEW m, m \notin R, \A x \in R \cup {m} : x.caps[l] \in Int
  PROVE  FreedBy(l, R \cup {m}) = m.caps[l] + FreedBy(l, R) /\ FreedBy(l, R) \in Int
PROOF
  <1> DEFINE f == [x \in R |-> x.caps[l]]
             e == [x \in R \cup {m} |-> x.caps[l]]
  <1>1. /\ \A x \in R : f[x] = e[x] /\ f[x] \in Int
        /\ \A x \in R \cup {m} : e[x] \in Int
        /\ e[m] = m.caps[l]
    OBVIOUS
  <1>2. FreedBy(l, R \cup {m}) = SumOver(e, R \cup {m}) /\ FreedBy(l, R) = SumOver(f, R)
    BY DEF FreedBy
  <1> HIDE DEF e, f
  <1>3. SumOver(f, R) = SumOver(e, R) /\ SumOver(f, R) \in Int
    BY <1>1, SumOverSame, SumOverType
  <1>4. SumOver(e, R \cup {m}) = e[m] + SumOver(e, R)
    BY <1>1, SumOverAdd
  <1> QED BY <1>1, <1>2, <1>3, <1>4

LEMMA FreedRemoves ==
  ASSUME NEW l, NEW R, IsFiniteSet(R), NEW m \in R, \A x \in R : x.caps[l] \in Int
  PROVE  FreedBy(l, R) = m.caps[l] + FreedBy(l, R \ {m}) /\ FreedBy(l, R \ {m}) \in Int
PROOF
  <1> DEFINE S == R \ {m}
  <1>1. IsFiniteSet(S) /\ m \notin S /\ S \cup {m} = R
    BY FS_RemoveElement
  <1> HIDE DEF S
  <1>2. FreedBy(l, S \cup {m}) = m.caps[l] + FreedBy(l, S) /\ FreedBy(l, S) \in Int
    BY <1>1, FreedAdds
  <1> QED BY <1>1, <1>2 DEF S

\* What the storage accounts of link l are.
LinkAccounts(l) ==
  /\ link[l].used = PceSum(Vehs(link[l].q))
  /\ IsSplit(l) => BoundaryAccount(l)
  /\ Threshold > EndTick => NotOverfull(l)

\* The numbers in the accounts.
LEMMA AccountTypes ==
  ASSUME LinkInv, VehInv, StorageInv, NEW l \in Links
  PROVE  /\ link[l].used \in Int /\ outUsed[l] \in Int /\ Held(l) \in Int /\ Storage[l] \in Nat
         /\ outQ[l] \in Seq(Vehicles) /\ Once(outQ[l]) /\ PceSum(outQ[l]) \in Int
         /\ InFlight(l) \subseteq Vehicles /\ IsFiniteSet(InFlight(l))
         /\ SumOver(Pce, InFlight(l)) \in Int
         /\ IsFiniteSet(Reports(l)) /\ \A m \in Reports(l) : m.caps[l] \in Int
         /\ FreedInFlight(l) = FreedBy(l, Reports(l)) /\ FreedBy(l, Reports(l)) \in Int
         /\ LinkAccounts(l)
PROOF
  <1>1. link[l].used \in Int /\ outUsed[l] \in Int /\ Storage[l] \in Nat
    BY LinkAssumption DEF LinkInv, NetTypes, LinkStates, StorageInv
  <1>2. outQ[l] \in Seq(Vehicles) /\ Once(outQ[l])
    BY DEF LinkInv, NetTypes, VehInv, PlacesApart
  <1>3. PceSum(outQ[l]) \in Int
    BY <1>2, PceSumIs, SumExists
  <1>4. InFlight(l) \subseteq Vehicles
    BY DEF VehInv, OnRoute, Placed
  <1>5. IsFiniteSet(InFlight(l)) /\ \A v \in InFlight(l) : Pce[v] \in Int
    BY <1>4, LinkAssumption, FS_Subset
  <1>6. IsFiniteSet(Reports(l)) /\ \A m \in Reports(l) : m.caps[l] \in Int
    <2>1. IsFiniteSet(Reports(l))
      BY DEF StorageInv
    <2>2. ASSUME NEW m \in Reports(l) PROVE m.caps[l] \in Int
      <3>1. /\ l \in DOMAIN m.caps
            /\ m.caps \in [{k \in InTo(m.from) : Part[From[k]] = m.to} -> Nat]
        BY DEF Reports, StorageInv
      <3> QED BY <3>1
    <2> QED BY <2>1, <2>2
  <1>7. FreedBy(l, Reports(l)) \in Int
    <2> DEFINE f == [m \in Reports(l) |-> m.caps[l]]
    <2>1. \A m \in Reports(l) : f[m] \in Int
      BY <1>6
    <2> HIDE DEF f
    <2>2. SumOver(f, Reports(l)) \in Int
      BY <1>6, <2>1, SumOverType
    <2> QED BY <2>2 DEF FreedBy, f
  <1>8. LinkAccounts(l)
    BY DEF LinkAccounts, StorageInv, StorageAccounted
  <1> QED BY <1>1, <1>2, <1>3, <1>4, <1>5, <1>6, <1>7, <1>8, SumOverType DEF Held, FreedInFlight, FreedBy

\* The next state's accounts of a link.
LEMMA AccountNext ==
  ASSUME NEW l \in Links,
         link'[l].used = PceSum(Vehs(link'[l].q)),
         IsSplit(l) => outUsed'[l] = PceSum(outQ'[l]) + SumOver(Pce, InFlight(l)')
                                       + link'[l].used + FreedBy(l, Reports(l)'),
         Threshold > EndTick =>
           LET h == IF IsSplit(l) THEN outUsed'[l] ELSE link'[l].used IN
             h > Storage[l] => \E v \in Vehicles : h < Storage[l] + Pce[v]
  PROVE  LinkAccounts(l)'
PROOF
  <1>1. Held(l)' = IF IsSplit(l) THEN outUsed'[l] ELSE link'[l].used
    BY DEF Held, IsSplit
  <1>2. FreedInFlight(l)' = FreedBy(l, Reports(l)')
    BY DEF FreedInFlight, FreedBy
  <1>3. IsSplit(l) => BoundaryAccount(l)'
    <2>1. BoundaryAccount(l)' <=> outUsed'[l] = PceSum(outQ'[l]) + SumOver(Pce, InFlight(l)')
                                                  + link'[l].used + FreedInFlight(l)'
      BY DEF BoundaryAccount, PceSum, SumOver
    <2> QED BY <1>2, <2>1
  <1>4. Threshold > EndTick => NotOverfull(l)'
    BY <1>1 DEF NotOverfull
  <1>5. (link[l].used = PceSum(Vehs(link[l].q)))'
    BY DEF PceSum, Vehs
  <1> QED BY <1>3, <1>4, <1>5 DEF LinkAccounts, IsSplit

LEMMA StorageNext ==
  ASSUME outUsed' \in [Links -> Int],
         \A r \in Ranks : pc'[r] # "done" => now'[r] <= EndTick,
         \A m \in msgs' : m.caps \in [{l \in InTo(m.from) : Part[From[l]] = m.to} -> Nat],
         \A l \in Links : IsFiniteSet(Reports(l)') /\ LinkAccounts(l)'
  PROVE  StorageInv'
PROOF
  <1>1. \A l \in Links : IsFiniteSet(Reports(l))'
    BY DEF IsFiniteSet
  <1>2. \A l \in Links : LinkAccounts(l)'
    OBVIOUS
  <1>3. StorageAccounted'
    BY <1>2 DEF StorageAccounted, LinkAccounts
  <1>4. (\A m \in msgs : m.caps \in [{l \in InTo(m.from) : Part[From[l]] = m.to} -> Nat])'
    BY DEF InTo, LocalTo, Owner, IsSplit
  <1> QED BY <1>1, <1>3, <1>4 DEF StorageInv

\* Steps that change no account.
LEMMA AccountsStay ==
  ASSUME LinkInv, VehInv, StorageInv, UNCHANGED <<outQ, outUsed, msgs, now>>,
         \A r \in Ranks : pc'[r] # "done" => pc[r] # "done",
         \A l \in Links : link'[l].used = link[l].used /\ link'[l].q = link[l].q
  PROVE  StorageInv'
PROOF
  <1>1. ASSUME NEW l \in Links PROVE IsFiniteSet(Reports(l)') /\ LinkAccounts(l)'
    <2>1. Reports(l)' = Reports(l) /\ InFlight(l)' = InFlight(l)
      BY DEF Reports, InFlight
    <2>2. /\ IsFiniteSet(Reports(l)) /\ FreedInFlight(l) = FreedBy(l, Reports(l))
          /\ LinkAccounts(l)
      BY AccountTypes
    <2>3. LinkAccounts(l)'
      BY <2>1, <2>2, AccountNext DEF LinkAccounts, BoundaryAccount, NotOverfull, Held
    <2> QED BY <2>1, <2>2, <2>3
  <1> QED BY <1>1, StorageNext DEF StorageInv

LEMMA DepartStorage ==
  ASSUME LinkInv, VehInv, StorageInv, NEW r \in Ranks, NEW v \in Vehicles, Depart(r, v)
  PROVE  StorageInv'
PROOF
  <1> DEFINE l0 == Route[v][1]
  <1>1. /\ UNCHANGED <<outQ, outUsed, msgs, now, pc>>
        /\ link' = [link EXCEPT ![l0] = PushVehToWaitingList(link[l0], v)]
    BY DEF Depart
  <1>2. l0 \in Links
    BY DepartPlaces
  <1> HIDE DEF l0
  <1>3. ASSUME NEW l \in Links PROVE link'[l].used = link[l].used /\ link'[l].q = link[l].q
    <2>1. CASE l = l0
      <3>1. SoundLink(link[l0], l0) /\ link'[l0] = PushVehToWaitingList(link[l0], v)
        BY <1>1, <1>2, LinkInvIs
      <3> QED BY <1>2, <2>1, <3>1, PushWaitingKeeps
    <2>2. CASE l # l0
      BY <1>1, <2>2, LinkInvIs
    <2> QED BY <2>1, <2>2
  <1> QED BY <1>1, <1>3, AccountsStay

\* Before the threshold is reached, a vehicle only moves to a link with room for it.
LEMMA MovesToRoom ==
  ASSUME LinkInv, StorageInv, NEW r \in Ranks, NEW n \in Nodes, NEW l0 \in Links,
         MoveVehicle(r, n, l0), Threshold > EndTick
  PROVE  IsAvailable(NextLink(Head(link[l0].buffer)))
PROOF
  <1> DEFINE t == now[r]
             k == Asked(link[l0], t)
  <1>1. ShouldVehMoveOut(l0, t) /\ pc[r] = "nodes"
    BY Zenon DEF MoveVehicle
  <1>2. t \in Nat /\ t <= EndTick /\ EndTick \in Nat /\ Threshold \in Nat
    BY <1>1, NetworkAssumption, LinkAssumption DEF StorageInv, LinkInv, NetTypes
  <1>3. SoundLink(link[l0], l0)
    BY LinkInvIs
  <1> HIDE DEF t
  <1>4. SoundLink(k, l0)
    BY <1>2, <1>3, AskedKeeps
  <1>5. k.timer \in Nat \cup {Stopped}
    BY <1>4 DEF SoundLink, LinkStates
  <1> HIDE DEF k
  <1>6. ~IsStuck(k, t)
    BY <1>2, <1>5 DEF IsStuck
  <1> QED BY <1>1, <1>6 DEF ShouldVehMoveOut, k

LEMMA MoveVehicleStorage ==
  ASSUME LinkInv, VehInv, StorageInv, NEW r \in Ranks, NEW n \in Nodes, NEW l0 \in Links,
         MoveVehicle(r, n, l0)
  PROVE  StorageInv'
PROOF
  <1> DEFINE v == Head(link[l0].buffer)
             next == NextLink(v)
  <1>1. /\ v \in SeqRange(link[l0].buffer)
        /\ \A l \in Links : VehicleMoved(l, l0, v, next)
        /\ Threshold > EndTick => IsAvailable(next)
    BY VehicleMoves, MovesToRoom
  <1>2. /\ UNCHANGED <<pc, now, msgs>>
        /\ IsSplit(next) => outUsed' = [outUsed EXCEPT ![next] = @ + Pce[v]]
        /\ ~IsSplit(next) => outUsed' = outUsed
    BY Zenon DEF MoveVehicle
  <1> HIDE DEF v
  <1>3. v \in Vehicles /\ next \in Links
    BY <1>1, NextIs
  <1>4. Pce[v] \in Nat \ {0}
    BY <1>3, LinkAssumption
  <1> HIDE DEF next
  <1>5. outUsed \in [Links -> Int]
    BY DEF StorageInv
  <1>6. \A l \in Links : outUsed'[l] = outUsed[l] + (IF l = next /\ IsSplit(next) THEN Pce[v] ELSE 0)
    BY <1>2, <1>5
  <1>7. outUsed' \in [Links -> Int]
    BY <1>2, <1>4, <1>5
  <1>8. ASSUME NEW l \in Links PROVE IsFiniteSet(Reports(l)') /\ LinkAccounts(l)'
    <2>1. Reports(l)' = Reports(l) /\ InFlight(l)' = InFlight(l)
      BY <1>2 DEF Reports, InFlight
    <2>2. /\ link[l].used \in Int /\ outUsed[l] \in Int /\ Held(l) \in Int /\ Storage[l] \in Nat
          /\ outQ[l] \in Seq(Vehicles) /\ PceSum(outQ[l]) \in Int
          /\ SumOver(Pce, InFlight(l)) \in Int
          /\ IsFiniteSet(Reports(l)) /\ FreedInFlight(l) = FreedBy(l, Reports(l))
          /\ FreedBy(l, Reports(l)) \in Int /\ LinkAccounts(l)
      BY AccountTypes
    <2>3. /\ outQ'[l] = IF l = next /\ IsSplit(next) THEN Append(outQ[l], v) ELSE outQ[l]
          /\ link'[l].used = link[l].used + (IF l = next /\ ~IsSplit(next) THEN Pce[v] ELSE 0)
          /\ link'[l].used = PceSum(Vehs(link'[l].q))
      BY <1>1, <2>2 DEF VehicleMoved, LinkAccounts
    <2>4. PceSum(outQ'[l]) = PceSum(outQ[l]) + (IF l = next /\ IsSplit(next) THEN Pce[v] ELSE 0)
      <3>1. PceSum(Append(outQ[l], v)) = PceSum(outQ[l]) + Pce[v]
        BY <1>3, <2>2, PceSumAppend
      <3> QED BY <2>2, <2>3, <3>1
    <2>5. IsSplit(l) => outUsed'[l] = PceSum(outQ'[l]) + SumOver(Pce, InFlight(l)')
                                       + link'[l].used + FreedBy(l, Reports(l)')
      <3> SUFFICES ASSUME IsSplit(l)
                   PROVE  outUsed'[l] = PceSum(outQ'[l]) + SumOver(Pce, InFlight(l))
                                         + link'[l].used + FreedBy(l, Reports(l))
        BY <2>1
      <3>1. outUsed[l] = PceSum(outQ[l]) + SumOver(Pce, InFlight(l))
                          + link[l].used + FreedBy(l, Reports(l))
        BY <2>2 DEF LinkAccounts, BoundaryAccount
      <3>2. link'[l].used = link[l].used
        BY <2>2, <2>3
      <3> QED BY SMTT(30), <1>4, <1>6, <2>2, <2>4, <3>1, <3>2
    <2> DEFINE h == IF IsSplit(l) THEN outUsed'[l] ELSE link'[l].used
    <2>6. h = Held(l) + (IF l = next THEN Pce[v] ELSE 0)
      BY <1>4, <1>6, <2>2, <2>3 DEF Held
    <2> HIDE DEF h
    <2>7. Threshold > EndTick => (h > Storage[l] => \E w \in Vehicles : h < Storage[l] + Pce[w])
      <3> SUFFICES ASSUME Threshold > EndTick, h > Storage[l]
                   PROVE  \E w \in Vehicles : h < Storage[l] + Pce[w]
        OBVIOUS
      <3>1. CASE l = next
        <4>1. Held(l) < Storage[l]
          BY <1>1, <2>2, <3>1 DEF IsAvailable
        <4> QED BY <1>3, <1>4, <2>2, <2>6, <3>1, <4>1
      <3>2. CASE l # next
        <4>1. h = Held(l)
          BY <2>2, <2>6, <3>2
        <4> QED BY <2>2, <4>1 DEF LinkAccounts, NotOverfull
      <3> QED BY <3>1, <3>2
    <2>8. LinkAccounts(l)'
      BY <2>3, <2>5, <2>7, AccountNext DEF h
    <2> QED BY <2>1, <2>2, <2>8
  <1> QED BY <1>2, <1>7, <1>8, StorageNext DEF StorageInv

\* move_links reports what it has freed on every In link, in one message for each.
LEMMA ReportsSent ==
  ASSUME LinkInv, LinkInv', VehInv, StorageInv, NEW r \in Ranks, MoveLinks(r)
  PROVE  /\ \A m \in msgs' : m.caps \in [{l \in InTo(m.from) : Part[From[l]] = m.to} -> Nat]
         /\ \A l \in InTo(r) : \E m : /\ m \notin Reports(l) /\ Reports(l)' = Reports(l) \cup {m}
                                      /\ m.caps[l] = link[l].used - link'[l].used
         /\ \A l \in Links \ InTo(r) : Reports(l)' = Reports(l)
PROOF
  <1>1. PICK E : LinksMoved(r, E)
    BY LinksMove
  <1> DEFINE act == activeLinks[r] \cap LocalTo(r)
             step == [l \in act |-> DoSimStep(link[l], l, Arriving, now[r])]
             moved == [l \in act |-> step[l].link]
             M(n) == MsgOf(r, n, CapsOf(r, n, moved))
             new == {M(n) : n \in Neighbours(r)}
  <1>2. /\ pc[r] = "nodes"
        /\ link' = [l \in Links |-> IF l \in act THEN Asked(moved[l], now[r] + 1) ELSE link[l]]
        /\ msgs' = msgs \cup
             {[from |-> r, to |-> n, time |-> now[r],
               vehs |-> [l \in {o \in OutOf(r) : Owner(o) = n} |-> outQ[l]],
               caps |-> [l \in {i \in InTo(r) : Part[From[i]] = n} |->
                           IF l \in act THEN Released(l, moved[l]) ELSE 0]] :
              n \in Neighbours(r)}
    BY Zenon DEF MoveLinks
  <1>3. msgs' = msgs \cup new
    BY <1>2, Zenon DEF MsgOf, CapsOf
  <1> HIDE DEF moved
  <1>4. ASSUME NEW l \in InTo(r)
        PROVE  /\ (IF l \in act THEN Released(l, moved[l]) ELSE 0) = link[l].used - link'[l].used
               /\ link[l].used - link'[l].used \in Nat
    <2>1. l \in Links
      BY DEF InTo, LocalTo
    <2>2. /\ link'[l].used <= link[l].used
          /\ link[l].used \in Int /\ link'[l].used \in Int
      BY <1>1, <2>1 DEF LinksMoved, LinkInv, NetTypes, LinkStates
    <2>3. l \in act => link'[l].used = moved[l].used
      <3> SUFFICES ASSUME l \in act PROVE link'[l].used = moved[l].used
        OBVIOUS
      <3> DEFINE k == moved[l]
                 t == now[r] + 1
      <3>1. link'[l] = Asked(k, t)
        BY <1>2, <2>1
      <3> HIDE DEF k, t
      <3>2. Asked(k, t).used = k.used
        BY DEF Asked, StartTimer
      <3> QED BY <3>1, <3>2 DEF k
    <2>4. l \notin act => link'[l].used = link[l].used
      BY <1>2, <2>1
    <2> QED BY <2>2, <2>3, <2>4 DEF Released
  <1>5. ASSUME NEW n \in Neighbours(r)
        PROVE  /\ M(n).from = r /\ M(n).to = n /\ M(n).time = now[r]
               /\ M(n).caps \in [{l \in InTo(r) : Part[From[l]] = n} -> Nat]
               /\ \A l \in InTo(r) : Part[From[l]] = n =>
                    M(n).caps[l] = link[l].used - link'[l].used
    <2>1. CapsOf(r, n, moved) \in [{l \in InTo(r) : Part[From[l]] = n} -> Nat]
      BY <1>4 DEF CapsOf
    <2>2. \A l \in InTo(r) : Part[From[l]] = n =>
            CapsOf(r, n, moved)[l] = link[l].used - link'[l].used
      BY <1>4 DEF CapsOf
    <2> QED BY <2>1, <2>2 DEF MsgOf
  <1> HIDE DEF M
  <1>6. \A m \in msgs' : m.caps \in [{l \in InTo(m.from) : Part[From[l]] = m.to} -> Nat]
    <2>1. \A m \in msgs : m.caps \in [{l \in InTo(m.from) : Part[From[l]] = m.to} -> Nat]
      BY DEF StorageInv
    <2>2. ASSUME NEW m \in new
          PROVE  m.caps \in [{l \in InTo(m.from) : Part[From[l]] = m.to} -> Nat]
      <3>1. PICK n \in Neighbours(r) : m = M(n)
        OBVIOUS
      <3>2. m.from = r /\ m.to = n /\ m.caps \in [{l \in InTo(r) : Part[From[l]] = n} -> Nat]
        BY <1>5, <3>1
      <3> QED BY <3>2, Zenon
    <2> QED BY <1>3, <2>1, <2>2
  <1>7. \A m \in new : m \notin msgs
    <2>1. ASSUME NEW m \in msgs, m.from = r PROVE m.time # now[r]
      <3>1. \/ m.time < now[m.from]
            \/ m.time = now[m.from] /\ pc[m.from] = "exchange"
        BY DEF VehInv, MsgsApart
      <3>2. m.time \in Nat /\ now[r] \in Nat
        BY DEF VehInv, MsgsApart, LinkInv, NetTypes
      <3> QED BY <1>2, <2>1, <3>1, <3>2
    <2>2. ASSUME NEW m \in new PROVE m \notin msgs
      <3>1. PICK n \in Neighbours(r) : m = M(n)
        OBVIOUS
      <3>2. m.from = r /\ m.time = now[r]
        BY <1>5, <3>1
      <3> QED BY <2>1, <3>2
    <2> QED BY <2>2
  <1>8. ASSUME NEW l \in InTo(r)
        PROVE  \E m : /\ m \notin Reports(l) /\ Reports(l)' = Reports(l) \cup {m}
                      /\ m.caps[l] = link[l].used - link'[l].used
    <2> DEFINE n == Part[From[l]]
    <2>1. n \in Neighbours(r)
      BY DEF Neighbours
    <2>2. /\ l \in DOMAIN M(n).caps /\ M(n).caps[l] = link[l].used - link'[l].used
          /\ M(n) \notin msgs /\ M(n) \in msgs'
      BY <1>3, <1>5, <1>7, <2>1
    <2>3. \A m \in new : l \in DOMAIN m.caps => m = M(n)
      BY ZenonT(40), <1>5
    <2>4. Reports(l)' = Reports(l) \cup {M(n)}
      BY <1>3, <2>2, <2>3 DEF Reports
    <2> QED BY <2>2, <2>4 DEF Reports
  <1>9. ASSUME NEW l \in Links \ InTo(r) PROVE Reports(l)' = Reports(l)
    <2>1. \A m \in new : l \notin DOMAIN m.caps
      BY <1>5
    <2> QED BY <1>3, <2>1 DEF Reports
  <1> QED BY <1>6, <1>8, <1>9

LEMMA MoveLinksStorage ==
  ASSUME LinkInv, LinkInv', VehInv, StorageInv, NEW r \in Ranks, MoveLinks(r)
  PROVE  StorageInv'
PROOF
  <1>1. PICK E : LinksMoved(r, E)
    BY LinksMove
  <1>2. /\ outUsed' = outUsed /\ now' = now /\ pc[r] = "nodes"
        /\ pc' = [pc EXCEPT ![r] = "exchange"]
    BY DEF MoveLinks
  <1>3. \A s \in Ranks : pc'[s] # "done" => now'[s] <= EndTick
    BY <1>2 DEF StorageInv, LinkInv, NetTypes
  <1>4. ASSUME NEW l \in Links PROVE IsFiniteSet(Reports(l)') /\ LinkAccounts(l)'
    <2>1. /\ link[l].used \in Int /\ outUsed[l] \in Int /\ Held(l) \in Int /\ Storage[l] \in Nat
          /\ outQ[l] \in Seq(Vehicles) /\ Once(outQ[l]) /\ PceSum(outQ[l]) \in Int
          /\ InFlight(l) \subseteq Vehicles /\ SumOver(Pce, InFlight(l)) \in Int
          /\ IsFiniteSet(Reports(l)) /\ \A m \in Reports(l) : m.caps[l] \in Int
          /\ FreedInFlight(l) = FreedBy(l, Reports(l)) /\ FreedBy(l, Reports(l)) \in Int
          /\ LinkAccounts(l)
      BY AccountTypes
    <2>2. /\ outQ'[l] = IF l \in OutOf(r) THEN <<>> ELSE outQ[l]
          /\ link'[l].used = PceSum(Vehs(link'[l].q))
          /\ link'[l].used <= link[l].used
          /\ link'[l].used \in Int
      BY <1>1, <2>1 DEF LinksMoved, LinkAccounts, LinkInv, NetTypes, LinkStates
    <2>3. PceSum(outQ'[l]) + SumOver(Pce, InFlight(l)') = PceSum(outQ[l]) + SumOver(Pce, InFlight(l))
      <3>1. InFlight(l)' = InFlight(l) \cup (IF l \in OutOf(r) THEN SeqRange(outQ[l]) ELSE {})
        BY MoveLinksPlaces
      <3>2. CASE l \in OutOf(r)
        <4>1. SeqRange(outQ[l]) \cap InFlight(l) = {}
          BY DEF VehInv, PlacesApart
        <4>2. SumOver(Pce, InFlight(l) \cup SeqRange(outQ[l])) = SumOver(Pce, InFlight(l)) + PceSum(outQ[l])
          BY <2>1, <4>1, SumOverSequence
        <4>3. PceSum(outQ'[l]) = 0
          BY <2>2, <3>2, PceSumEmpty
        <4>4. InFlight(l)' = InFlight(l) \cup SeqRange(outQ[l])
          BY <3>1, <3>2
        <4>5. SumOver(Pce, InFlight(l)') = SumOver(Pce, InFlight(l)) + PceSum(outQ[l])
          BY <4>2, <4>4
        <4> QED BY <2>1, <4>3, <4>5
      <3>3. CASE l \notin OutOf(r)
        <4>1. outQ'[l] = outQ[l] /\ InFlight(l)' = InFlight(l)
          BY <2>2, <3>1, <3>3
        <4> QED BY <4>1
      <3> QED BY <3>2, <3>3
    <2>4. /\ IsFiniteSet(Reports(l)')
          /\ IsSplit(l) => link'[l].used + FreedBy(l, Reports(l)') = link[l].used + FreedBy(l, Reports(l))
      <3>1. CASE l \in InTo(r)
        <4>1. PICK m : /\ m \notin Reports(l) /\ Reports(l)' = Reports(l) \cup {m}
                       /\ m.caps[l] = link[l].used - link'[l].used
          BY <3>1, ReportsSent
        <4>2. \A x \in Reports(l) \cup {m} : x.caps[l] \in Int
          BY <2>1, <2>2, <4>1
        <4>3. FreedBy(l, Reports(l) \cup {m}) = m.caps[l] + FreedBy(l, Reports(l))
          BY <2>1, <4>1, <4>2, FreedAdds
        <4>4. FreedBy(l, Reports(l)') = m.caps[l] + FreedBy(l, Reports(l))
          BY <4>1, <4>3
        <4>5. IsFiniteSet(Reports(l) \cup {m})
          BY <2>1, FS_AddElement
        <4>6. IsFiniteSet(Reports(l)')
          BY <4>1, <4>5
        <4> QED BY <2>1, <2>2, <4>1, <4>4, <4>6
      <3>2. CASE l \notin InTo(r)
        <4>1. Reports(l)' = Reports(l)
          BY <3>2, ReportsSent
        <4>2. IsSplit(l) => link'[l] = link[l]
          <5> SUFFICES ASSUME IsSplit(l) PROVE link'[l] = link[l]
            OBVIOUS
          <5>1. l \notin LocalTo(r)
            BY <3>2 DEF InTo
          <5> DEFINE act == activeLinks[r] \cap LocalTo(r)
                     step == [k \in act |-> DoSimStep(link[k], k, Arriving, now[r])]
                     moved == [k \in act |-> step[k].link]
          <5>2. link' = [k \in Links |-> IF k \in act THEN Asked(moved[k], now[r] + 1) ELSE link[k]]
            BY Zenon DEF MoveLinks
          <5> HIDE DEF moved
          <5> QED BY <5>1, <5>2
        <4>3. IsSplit(l) => link'[l].used = link[l].used
          BY <4>2
        <4> QED BY <2>1, <4>1, <4>3
      <3> QED BY <3>1, <3>2
    <2>5. IsSplit(l) => outUsed'[l] = PceSum(outQ'[l]) + SumOver(Pce, InFlight(l)')
                                       + link'[l].used + FreedBy(l, Reports(l)')
      <3> SUFFICES ASSUME IsSplit(l)
                   PROVE  outUsed[l] = PceSum(outQ'[l]) + SumOver(Pce, InFlight(l)')
                                         + link'[l].used + FreedBy(l, Reports(l)')
        BY <1>2
      <3>1. outUsed[l] = PceSum(outQ[l]) + SumOver(Pce, InFlight(l))
                          + link[l].used + FreedBy(l, Reports(l))
        BY <2>1 DEF LinkAccounts, BoundaryAccount
      <3>2. PceSum(outQ'[l]) \in Int /\ SumOver(Pce, InFlight(l)') \in Int /\ FreedBy(l, Reports(l)') \in Int
        <4>1. PceSum(outQ'[l]) \in Int
          BY <2>1, <2>2, PceSumEmpty
        <4>2. InFlight(l)' \subseteq Vehicles
          <5>1. InFlight(l)' = InFlight(l) \cup (IF l \in OutOf(r) THEN SeqRange(outQ[l]) ELSE {})
            BY MoveLinksPlaces
          <5>2. SeqRange(outQ[l]) \subseteq Vehicles
            BY <2>1 DEF SeqRange
          <5> QED BY <2>1, <5>1, <5>2
        <4>3. SumOver(Pce, InFlight(l)') \in Int
          <5>1. IsFiniteSet(InFlight(l)') /\ \A w \in InFlight(l)' : Pce[w] \in Int
            BY <4>2, LinkAssumption, FS_Subset
          <5> QED BY <5>1, SumOverType
        <4>4. FreedBy(l, Reports(l)') \in Int
          <5>1. \A m \in Reports(l)' : m.caps[l] \in Int
            <6>1. ASSUME NEW m \in Reports(l)' PROVE m.caps[l] \in Int
              <7>1. /\ m \in msgs' /\ l \in DOMAIN m.caps
                BY DEF Reports
              <7>2. m.caps \in [{k \in InTo(m.from) : Part[From[k]] = m.to} -> Nat]
                BY <7>1, ReportsSent
              <7> QED BY <7>1, <7>2
            <6> QED BY <6>1
          <5> DEFINE R == Reports(l)'
                     f == [m \in R |-> m.caps[l]]
          <5>2. IsFiniteSet(R) /\ \A m \in R : f[m] \in Int
            BY <2>4, <5>1
          <5>3. FreedBy(l, R) = SumOver(f, R)
            BY DEF FreedBy
          <5> HIDE DEF f, R
          <5>4. SumOver(f, R) \in Int
            BY <5>2, SumOverType
          <5> QED BY <5>3, <5>4 DEF R
        <4> QED BY <4>1, <4>3, <4>4
      <3> DEFINE a == PceSum(outQ[l])
                 b == SumOver(Pce, InFlight(l))
                 c == FreedBy(l, Reports(l))
                 d == PceSum(outQ'[l])
                 e == SumOver(Pce, InFlight(l)')
                 f == FreedBy(l, Reports(l)')
                 u == link[l].used
                 w == link'[l].used
      <3>3. /\ a \in Int /\ b \in Int /\ c \in Int /\ d \in Int /\ e \in Int /\ f \in Int
            /\ u \in Int /\ w \in Int
        BY <2>1, <2>2, <3>2
      <3>4. d + e = a + b /\ w + f = u + c /\ outUsed[l] = a + b + u + c
        BY <2>3, <2>4, <3>1
      <3>5. SUFFICES outUsed[l] = d + e + w + f
        OBVIOUS
      <3> HIDE DEF a, b, c, d, e, f, u, w
      <3> QED BY <3>3, <3>4
    <2> DEFINE h == IF IsSplit(l) THEN outUsed'[l] ELSE link'[l].used
    <2>6. h <= Held(l) /\ h \in Int
      BY <1>2, <2>1, <2>2 DEF Held
    <2> HIDE DEF h
    <2>7. Threshold > EndTick => (h > Storage[l] => \E w \in Vehicles : h < Storage[l] + Pce[w])
      <3>1. \A w \in Vehicles : Pce[w] \in Int
        BY LinkAssumption
      <3> QED BY <2>1, <2>6, <3>1 DEF LinkAccounts, NotOverfull
    <2>8. LinkAccounts(l)'
      BY <2>2, <2>5, <2>7, AccountNext DEF h
    <2> QED BY <2>4, <2>8
  <1> QED BY <1>2, <1>3, <1>4, ReportsSent, StorageNext DEF StorageInv

\* The storage updates of the tick, one for every Out link, are taken from the messages.
LEMMA ReportsTaken ==
  ASSUME LinkInv, VehInv, StorageInv, NEW r \in Ranks, Exchange(r)
  PROVE  /\ \A l \in OutOf(r) : \E c \in Reports(l) :
              Reports(l)' = Reports(l) \ {c} /\ outUsed'[l] = outUsed[l] - c.caps[l]
         /\ \A l \in Links \ OutOf(r) : Reports(l)' = Reports(l) /\ outUsed'[l] = outUsed[l]
         /\ msgs' \subseteq msgs
PROOF
  <1> DEFINE got == {m \in msgs : m.to = r /\ m.time = now[r]}
             freed == [l \in OutOf(r) |-> (CHOOSE m \in got : l \in DOMAIN m.caps).caps[l]]
  <1>1. /\ {m.from : m \in got} = Neighbours(r)
        /\ msgs' = msgs \ got
        /\ outUsed' = [l \in Links |->
                         IF l \in OutOf(r) THEN outUsed[l] - freed[l] ELSE outUsed[l]]
    BY Zenon DEF Exchange
  <1>2. ASSUME NEW m \in got
        PROVE  /\ m \in msgs /\ m.to = r /\ m.time = now[r]
               /\ \A l : l \in DOMAIN m.caps <=> l \in InTo(m.from) /\ Part[From[l]] = r
    <2>1. m \in msgs /\ m.to = r /\ m.time = now[r]
      OBVIOUS
    <2>2. m.caps \in [{l \in InTo(m.from) : Part[From[l]] = m.to} -> Nat]
      BY <2>1 DEF StorageInv
    <2> QED BY <2>1, <2>2
  <1>3. \A n \in Neighbours(r) : \E m \in got : m.from = n
    BY <1>1
  <1>4. \A l \in OutOf(r) : freed[l] = (CHOOSE m \in got : l \in DOMAIN m.caps).caps[l]
    OBVIOUS
  <1> HIDE DEF got, freed
  <1>5. ASSUME NEW l \in OutOf(r)
        PROVE  \E c \in Reports(l) :
                 Reports(l)' = Reports(l) \ {c} /\ outUsed'[l] = outUsed[l] - c.caps[l]
    <2>1. l \in Links /\ IsSplit(l) /\ Part[From[l]] = r /\ l \in InTo(Owner(l)) /\ Owner(l) \in Neighbours(r)
      BY DEF OutOf, InTo, LocalTo, Neighbours
    <2>2. PICK c \in got : c.from = Owner(l)
      BY <1>3, <2>1
    <2>3. l \in DOMAIN c.caps /\ c \in Reports(l)
      BY <1>2, <2>1, <2>2 DEF Reports
    <2>4. ASSUME NEW m \in got, l \in DOMAIN m.caps PROVE m = c
      <3>1. m.from = Owner(l)
        BY <1>2, <2>4 DEF InTo, LocalTo
      <3> QED BY <1>2, <2>2, <3>1 DEF VehInv, MsgsApart
    <2>5. (CHOOSE m \in got : l \in DOMAIN m.caps) = c
      BY <2>3, <2>4
    <2>6. freed[l] = c.caps[l]
      BY <1>4, <2>5
    <2>7. Reports(l)' = Reports(l) \ {c}
      BY <1>1, <2>3, <2>4 DEF Reports
    <2> QED BY <1>1, <2>1, <2>3, <2>6, <2>7
  <1>6. ASSUME NEW l \in Links \ OutOf(r)
        PROVE  Reports(l)' = Reports(l) /\ outUsed'[l] = outUsed[l]
    <2>1. ASSUME NEW m \in got PROVE l \notin DOMAIN m.caps
      <3> SUFFICES ASSUME l \in DOMAIN m.caps PROVE FALSE
        OBVIOUS
      <3>1. l \in InTo(m.from) /\ Part[From[l]] = r
        BY <1>2
      <3> QED BY <3>1 DEF InTo, OutOf
    <2> QED BY <1>1, <2>1 DEF Reports
  <1> QED BY <1>1, <1>5, <1>6

LEMMA ExchangeStorage ==
  ASSUME LinkInv, LinkInv', VehInv, StorageInv, NEW r \in Ranks, Exchange(r)
  PROVE  StorageInv'
PROOF
  <1>1. PICK on : VehiclesReceived(r, on)
    BY ExchangeReceives
  <1>2. /\ now' = [now EXCEPT ![r] = @ + 1]
        /\ pc' = [pc EXCEPT ![r] = IF now[r] < EndTick THEN "depart" ELSE "done"]
        /\ outUsed' = [l \in Links |-> outUsed'[l]]
    <2>1. outUsed' = [l \in Links |-> outUsed'[l]]
      BY DEF Exchange
    <2> QED BY <2>1, Zenon DEF Exchange
  <1>3. \A s \in Ranks : pc'[s] # "done" => now'[s] <= EndTick
    <2>1. pc'[r] # "done" => now'[r] <= EndTick
      <3>1. now[r] \in Nat /\ EndTick \in Nat
        BY NetworkAssumption DEF LinkInv, NetTypes
      <3>2. now'[r] = now[r] + 1 /\ pc'[r] = IF now[r] < EndTick THEN "depart" ELSE "done"
        BY <1>2 DEF LinkInv, NetTypes
      <3> QED BY <3>1, <3>2
    <2>2. \A s \in Ranks \ {r} : now'[s] = now[s] /\ pc'[s] = pc[s]
      BY <1>2 DEF LinkInv, NetTypes
    <2> QED BY <2>1, <2>2 DEF StorageInv
  <1>4. \A m \in msgs' : m.caps \in [{l \in InTo(m.from) : Part[From[l]] = m.to} -> Nat]
    BY ReportsTaken DEF StorageInv
  <1>5. \A l \in Links : \A c \in Reports(l) : c.caps[l] \in Nat
    <2> SUFFICES ASSUME NEW l \in Links, NEW c \in Reports(l) PROVE c.caps[l] \in Nat
      OBVIOUS
    <2>1. /\ l \in DOMAIN c.caps
          /\ c.caps \in [{k \in InTo(c.from) : Part[From[k]] = c.to} -> Nat]
      BY DEF Reports, StorageInv
    <2> QED BY <2>1
  <1>6. ASSUME NEW l \in Links
        PROVE  outUsed'[l] \in Int /\ IsFiniteSet(Reports(l)') /\ LinkAccounts(l)'
    <2>1. /\ link[l].used \in Int /\ outUsed[l] \in Int /\ Held(l) \in Int /\ Storage[l] \in Nat
          /\ PceSum(outQ[l]) \in Int
          /\ InFlight(l) \subseteq Vehicles /\ SumOver(Pce, InFlight(l)) \in Int
          /\ IsFiniteSet(Reports(l)) /\ \A m \in Reports(l) : m.caps[l] \in Int
          /\ FreedInFlight(l) = FreedBy(l, Reports(l)) /\ FreedBy(l, Reports(l)) \in Int
          /\ LinkAccounts(l)
      BY AccountTypes
    <2>2. /\ outQ' = outQ
          /\ link'[l].used = PceSum(Vehs(link'[l].q))
          /\ link'[l].used \in Int
          /\ link'[l].used = link[l].used + (IF l \in InTo(r) THEN PceSum(on[l]) ELSE 0)
          /\ InFlight(l)' = InFlight(l) \ (IF l \in InTo(r) THEN SeqRange(on[l]) ELSE {})
      BY <1>1, <2>1 DEF VehiclesReceived, LinkAccounts, LinkInv, NetTypes, LinkStates
    <2>3. /\ SumOver(Pce, InFlight(l)') + link'[l].used = SumOver(Pce, InFlight(l)) + link[l].used
          /\ SumOver(Pce, InFlight(l)') \in Int
      <3> DEFINE A == InFlight(l)'
      <3>1. A \subseteq Vehicles
        BY <2>1, <2>2
      <3>2. IsFiniteSet(A) /\ \A w \in A : Pce[w] \in Int
        BY <3>1, LinkAssumption, FS_Subset
      <3>3. SumOver(Pce, A) \in Int
        <4> HIDE DEF A
        <4> QED BY <3>2, SumOverType
      <3>4. CASE l \in InTo(r)
        <4>1. on[l] \in Seq(Vehicles) /\ Once(on[l]) /\ SeqRange(on[l]) \subseteq InFlight(l)
          BY <1>1, <3>4 DEF VehiclesReceived
        <4>2. SeqRange(on[l]) \cap A = {} /\ A \cup SeqRange(on[l]) = InFlight(l)
          BY <2>2, <3>4, <4>1
        <4>3. PceSum(on[l]) \in Int
          BY <4>1, PceSumIs, SumExists
        <4> HIDE DEF A
        <4>4. SumOver(Pce, A \cup SeqRange(on[l])) = SumOver(Pce, A) + PceSum(on[l])
          BY <3>1, <4>1, <4>2, SumOverSequence
        <4>5. SumOver(Pce, InFlight(l)) = SumOver(Pce, A) + PceSum(on[l])
          BY <4>2, <4>4
        <4>6. link'[l].used = link[l].used + PceSum(on[l])
          BY <2>2, <3>4
        <4>7. SumOver(Pce, A) + link'[l].used = SumOver(Pce, InFlight(l)) + link[l].used
          BY <2>1, <3>3, <4>3, <4>5, <4>6
        <4> QED BY <3>3, <4>7 DEF A
      <3>5. CASE l \notin InTo(r)
        <4>1. InFlight(l)' = InFlight(l) /\ link'[l].used = link[l].used
          BY <2>1, <2>2, <3>5
        <4> QED BY <2>1, <4>1
      <3> QED BY <3>4, <3>5
    <2>4. /\ IsFiniteSet(Reports(l)') /\ FreedBy(l, Reports(l)') \in Int
          /\ outUsed'[l] \in Int /\ outUsed'[l] <= outUsed[l]
          /\ outUsed'[l] - FreedBy(l, Reports(l)') = outUsed[l] - FreedBy(l, Reports(l))
      <3>1. CASE l \in OutOf(r)
        <4>1. PICK c \in Reports(l) : Reports(l)' = Reports(l) \ {c} /\ outUsed'[l] = outUsed[l] - c.caps[l]
          BY <3>1, ReportsTaken
        <4>2. /\ FreedBy(l, Reports(l)) = c.caps[l] + FreedBy(l, Reports(l) \ {c})
              /\ FreedBy(l, Reports(l) \ {c}) \in Int
          BY <2>1, FreedRemoves
        <4>3. IsFiniteSet(Reports(l) \ {c})
          BY <2>1, FS_RemoveElement
        <4>4. c.caps[l] \in Nat
          BY <1>5
        <4> DEFINE R == Reports(l)'
        <4>5. R = Reports(l) \ {c}
          BY <4>1
        <4> HIDE DEF R
        <4>6. /\ IsFiniteSet(R) /\ FreedBy(l, R) \in Int
              /\ FreedBy(l, Reports(l)) = c.caps[l] + FreedBy(l, R)
          BY <4>2, <4>3, <4>5
        <4>7. /\ outUsed'[l] \in Int /\ outUsed'[l] <= outUsed[l]
              /\ outUsed'[l] - FreedBy(l, R) = outUsed[l] - FreedBy(l, Reports(l))
          BY <2>1, <4>1, <4>4, <4>6
        <4> QED BY <4>6, <4>7 DEF R
      <3>2. CASE l \notin OutOf(r)
        <4>1. Reports(l)' = Reports(l) /\ outUsed'[l] = outUsed[l]
          BY <3>2, ReportsTaken
        <4> QED BY <2>1, <4>1
      <3> QED BY <3>1, <3>2
    <2>5. IsSplit(l) => outUsed'[l] = PceSum(outQ'[l]) + SumOver(Pce, InFlight(l)')
                                       + link'[l].used + FreedBy(l, Reports(l)')
      <3> HAVE IsSplit(l)
      <3> DEFINE a == PceSum(outQ[l])
                 b == SumOver(Pce, InFlight(l))
                 c == FreedBy(l, Reports(l))
                 d == PceSum(outQ'[l])
                 e == SumOver(Pce, InFlight(l)')
                 f == FreedBy(l, Reports(l)')
                 u == link[l].used
                 w == link'[l].used
                 o == outUsed[l]
                 p == outUsed'[l]
      <3>1. o = a + b + u + c
        BY <2>1 DEF LinkAccounts, BoundaryAccount
      <3>2. /\ a \in Int /\ b \in Int /\ c \in Int /\ e \in Int /\ f \in Int
            /\ u \in Int /\ w \in Int /\ o \in Int /\ p \in Int
        BY <2>1, <2>2, <2>3, <2>4
      <3>3. d = a /\ e + w = b + u /\ p - f = o - c
        BY <2>2, <2>3, <2>4
      <3>4. SUFFICES p = d + e + w + f
        OBVIOUS
      <3> HIDE DEF a, b, c, d, e, f, u, w, o, p
      <3> QED BY <3>1, <3>2, <3>3
    <2> DEFINE h == IF IsSplit(l) THEN outUsed'[l] ELSE link'[l].used
    <2>6. h <= Held(l) /\ h \in Int
      <3>1. ~IsSplit(l) => link'[l].used = link[l].used
        BY <2>1, <2>2 DEF InTo
      <3> QED BY <2>1, <2>4, <3>1 DEF Held
    <2> HIDE DEF h
    <2>7. Threshold > EndTick => (h > Storage[l] => \E w \in Vehicles : h < Storage[l] + Pce[w])
      <3>1. \A w \in Vehicles : Pce[w] \in Int
        BY LinkAssumption
      <3> QED BY <2>1, <2>6, <3>1 DEF LinkAccounts, NotOverfull
    <2>8. LinkAccounts(l)'
      BY <2>2, <2>5, <2>7, AccountNext DEF h
    <2> QED BY <2>4, <2>8
  <1>7. outUsed' \in [Links -> Int]
    BY <1>2, <1>6
  <1> QED BY <1>3, <1>4, <1>6, <1>7, StorageNext

LEMMA StorageInit == NetInit => StorageInv
PROOF
  <1> SUFFICES ASSUME NetInit PROVE StorageInv OBVIOUS
  <1>1. /\ msgs = {} /\ outUsed = [l \in Links |-> 0] /\ now = [r \in Ranks |-> 0]
        /\ \A l \in Links : link[l].q = <<>> /\ link[l].used = 0 /\ outQ[l] = <<>>
    BY DEF NetInit, NewLink
  <1>2. ASSUME NEW l \in Links
        PROVE  IsFiniteSet(Reports(l)) /\ LinkAccounts(l)
    <2>1. Reports(l) = {} /\ InFlight(l) = {}
      BY <1>1 DEF Reports, InFlight
    <2>2. PceSum(outQ[l]) = 0 /\ PceSum(Vehs(link[l].q)) = 0
      <3>1. Vehs(<<>>) = <<>>
        BY DEF Vehs
      <3> QED BY <1>1, <3>1, PceSumEmpty
    <2>3. IsFiniteSet(Reports(l)) /\ SumOver(Pce, InFlight(l)) = 0 /\ FreedInFlight(l) = 0
      BY <2>1, FS_EmptySet, SumOverEmpty DEF FreedInFlight
    <2>4. ~(Held(l) > Storage[l])
      BY <1>1, LinkAssumption DEF Held
    <2> QED BY <1>1, <2>2, <2>3, <2>4 DEF LinkAccounts, BoundaryAccount, NotOverfull
  <1>3. \A r \in Ranks : now[r] <= EndTick
    BY <1>1, NetworkAssumption
  <1> QED BY <1>1, <1>2, <1>3 DEF StorageInv, StorageAccounted, LinkAccounts

LEMMA StorageStep == LinkInv /\ VehInv /\ StorageInv /\ [NetNext]_netVars => StorageInv'
PROOF
  <1> SUFFICES ASSUME LinkInv, VehInv, StorageInv, [NetNext]_netVars PROVE StorageInv'
    OBVIOUS
  <1>1. LinkInv'
    BY LinkStep
  <1>2. CASE UNCHANGED netVars
    BY <1>2, AccountsStay DEF netVars
  <1>3. CASE \E r \in Ranks : PartitionNext(r)
    <2>1. PICK r \in Ranks : PartitionNext(r)
      BY <1>3
    <2>2. CASE StartNodes(r)
      <3>1. /\ UNCHANGED <<outQ, outUsed, msgs, now, link>> /\ pc[r] = "depart"
            /\ pc' = [pc EXCEPT ![r] = "nodes"]
        BY <2>2 DEF StartNodes
      <3>2. \A s \in Ranks : pc'[s] # "done" => pc[s] # "done"
        BY <3>1 DEF LinkInv, NetTypes
      <3> QED BY <3>1, <3>2, AccountsStay
    <2>3. ASSUME NEW n \in Nodes, FinishNode(r, n) PROVE StorageInv'
      <3>1. UNCHANGED <<pc, outQ, outUsed, msgs, now>>
        BY <2>3 DEF FinishNode
      <3>2. \A l \in Links : link'[l].used = link[l].used /\ link'[l].q = link[l].q
        BY <2>3, FinishNodePlaces
      <3> QED BY <3>1, <3>2, AccountsStay
    <2> QED BY <1>1, <2>1, <2>2, <2>3, DepartStorage, MoveVehicleStorage, MoveLinksStorage,
               ExchangeStorage DEF PartitionNext
  <1> QED BY <1>2, <1>3 DEF NetNext, NetTerminated

\* The storage account of every link is what its queue takes up, on both sides of a
\* partition boundary and with vehicles and updates on their way, and no link is filled
\* by a whole vehicle or more above its storage before the stuck threshold can be reached.
THEOREM StorageIsAccounted == NetSpec => []StorageAccounted
PROOF
  <1>1. NetInit => LinkInv /\ VehInv /\ StorageInv
    BY LinkInit, PlacesInit, StorageInit
  <1>2. LinkInv /\ VehInv /\ StorageInv /\ [NetNext]_netVars => (LinkInv /\ VehInv /\ StorageInv)'
    BY LinkStep, PlacesStep, StorageStep
  <1>3. StorageInv => StorageAccounted
    BY DEF StorageInv
  <1> QED BY <1>1, <1>2, <1>3, PTL DEF NetSpec

-----------------------------------------------------------------------------
(* The service of the queues.                                               *)

\* The links over which a boundary runs take a vehicle at least a tick.
SlowBoundaries == \A l \in Links, v \in Vehicles : IsSplit(l) => Duration[l][v] > 0

\* Link l is the same for the vehicle that has waited longest in its queue.
SameFront(l) ==
  /\ link'[l].q # <<>> => link[l].q # <<>> /\ link'[l].q[1] = link[l].q[1]
  /\ link'[l].buffer = link[l].buffer /\ link'[l].flow = link[l].flow

LEMMA FrontIs ==
  ASSUME LinkInv, NEW l \in Links, link[l].q # <<>>
  PROVE  link[l].q[1].exit \in Nat /\ link[l].q[1].veh \in OnLink(link[l])
PROOF
  <1>1. link[l].q \in Seq(QueueEntries)
    BY DEF LinkInv, NetTypes, LinkStates
  <1>2. 1 \in 1..Len(link[l].q) /\ link[l].q[1] \in QueueEntries
    BY <1>1
  <1>3. Vehs(link[l].q)[1] = link[l].q[1].veh /\ Len(Vehs(link[l].q)) = Len(link[l].q)
    BY <1>1, <1>2, VehsIs
  <1>4. link[l].q[1].veh \in SeqRange(Vehs(link[l].q))
    BY <1>2, <1>3 DEF SeqRange
  <1> QED BY <1>2, <1>4 DEF QueueEntries, OnLink

LEMMA ServedNext ==
  ASSUME \A l \in Links : pc'[Owner(l)] # "nodes" =>
           ServedBefore(link'[l], IF pc'[Owner(l)] = "exchange" THEN now'[Owner(l)] + 1
                                  ELSE now'[Owner(l)], Arriving')
  PROVE  ServedInv'
PROOF
  <1>1. ASSUME NEW l \in Links
        PROVE  /\ Owner(l)' = Owner(l)
               /\ ServedBefore(link[l], ServedTick(Owner(l)), Arriving)' <=>
                  ServedBefore(link'[l], IF pc'[Owner(l)] = "exchange" THEN now'[Owner(l)] + 1
                                         ELSE now'[Owner(l)], Arriving')
    BY DEF Owner, ServedBefore, ServedTick, HasFlowCapacityLeft, PceSum
  <1> QED BY <1>1 DEF ServedInv

\* The links of s stay as they are for those who wait at the front of their queues.
RankSame(s) ==
  /\ pc'[s] = pc[s] /\ now'[s] = now[s]
  /\ \A l \in LocalTo(s) : /\ SameFront(l)
                           /\ \A v \in OnLink(link[l]) : v \in Arriving' => v \in Arriving

LEMMA ServedSame ==
  ASSUME LinkInv, ServedInv, NEW l \in Links, RankSame(Owner(l)), pc'[Owner(l)] # "nodes"
  PROVE  ServedBefore(link'[l], IF pc'[Owner(l)] = "exchange" THEN now'[Owner(l)] + 1
                                ELSE now'[Owner(l)], Arriving')
PROOF
  <1> DEFINE t == ServedTick(Owner(l))
  <1>1. t = IF pc'[Owner(l)] = "exchange" THEN now'[Owner(l)] + 1 ELSE now'[Owner(l)]
    BY DEF RankSame, ServedTick
  <1>2. ServedBefore(link[l], t, Arriving)
    BY DEF ServedInv, RankSame
  <1>3. SameFront(l) /\ \A v \in OnLink(link[l]) : v \in Arriving' => v \in Arriving
    BY DEF RankSame, LocalTo
  <1> HIDE DEF t
  <1>4. ASSUME link'[l].q # <<>>, link'[l].q[1].exit < t
        PROVE  link'[l].q[1].veh \notin Arriving' /\ ~HasFlowCapacityLeft(link'[l], <<>>)
    <2>1. link[l].q # <<>> /\ link'[l].q[1] = link[l].q[1]
      BY <1>3, <1>4 DEF SameFront
    <2>2. link[l].q[1].veh \in OnLink(link[l])
      BY <2>1, FrontIs
    <2>3. link[l].q[1].veh \notin Arriving /\ ~HasFlowCapacityLeft(link[l], <<>>)
      BY <1>2, <1>4, <2>1 DEF ServedBefore
    <2>4. ~HasFlowCapacityLeft(link'[l], <<>>)
      BY <1>3, <2>3 DEF SameFront, HasFlowCapacityLeft
    <2> QED BY <1>3, <2>1, <2>2, <2>3, <2>4
  <1>5. ServedBefore(link'[l], t, Arriving')
    BY <1>4 DEF ServedBefore
  <1> QED BY <1>1, <1>5

\* A step of rank r into move_nodes or within it.
LEMMA ServedInNodes ==
  ASSUME LinkInv, ServedInv, NEW r \in Ranks, pc'[r] = "nodes", \A s \in Ranks \ {r} : RankSame(s)
  PROVE  ServedInv'
PROOF
  <1>1. ASSUME NEW l \in Links, pc'[Owner(l)] # "nodes"
        PROVE  ServedBefore(link'[l], IF pc'[Owner(l)] = "exchange" THEN now'[Owner(l)] + 1
                                      ELSE now'[Owner(l)], Arriving')
    <2>1. RankSame(Owner(l))
      BY <1>1, OwnerIs
    <2> QED BY <1>1, <2>1, ServedSame
  <1> QED BY <1>1, ServedNext

LEMMA DepartServed ==
  ASSUME LinkInv, VehInv, ServedInv, NEW r \in Ranks, NEW v \in Vehicles, Depart(r, v)
  PROVE  ServedInv'
PROOF
  <1> DEFINE l0 == Route[v][1]
  <1>1. /\ UNCHANGED <<pc, now>> /\ pos[v] = 0 /\ pos' = [pos EXCEPT ![v] = 1]
        /\ link' = [link EXCEPT ![l0] = PushVehToWaitingList(link[l0], v)]
    BY DEF Depart
  <1>2. /\ pos \in [Vehicles -> Nat] /\ link = [l \in Links |-> link[l]]
        /\ \A l \in Links : SoundLink(link[l], l)
        /\ \A l \in Links : \A w \in Placed(l) : pos[w] # 0
    BY LinkInvIs DEF VehInv, OnRoute
  <1>3. ASSUME NEW l \in Links PROVE SameFront(l)
    <2>1. CASE l = l0
      <3>1. link'[l] = PushVehToWaitingList(link[l], v)
        BY <1>1, <1>2, <2>1
      <3>2. link'[l].q = link[l].q /\ link'[l].buffer = link[l].buffer /\ link'[l].flow = link[l].flow
        BY <3>1 DEF PushVehToWaitingList
      <3> QED BY <3>2 DEF SameFront
    <2>2. CASE l # l0
      <3>1. link'[l] = link[l]
        BY <1>1, <1>2, <2>2
      <3> QED BY <3>1 DEF SameFront
    <2> QED BY <2>1, <2>2
  <1>4. ASSUME NEW l \in Links, NEW w \in OnLink(link[l]), w \in Arriving' PROVE w \in Arriving
    <2>1. pos[w] # 0
      BY <1>2 DEF Placed
    <2>2. w \in Vehicles /\ pos'[w] = Len(Route[w])
      BY <1>4 DEF Arriving
    <2>3. pos'[w] = pos[w]
      BY <1>1, <1>2, <2>1, <2>2
    <2> QED BY <2>2, <2>3 DEF Arriving
  <1>5. \A s \in Ranks : RankSame(s)
    BY <1>1, <1>3, <1>4 DEF RankSame, LocalTo
  <1>6. \A l \in Links : RankSame(Owner(l))
    BY <1>5, OwnerIs
  <1> QED BY <1>6, ServedSame, ServedNext

LEMMA StartNodesServed ==
  ASSUME LinkInv, VehInv, ServedInv, NEW r \in Ranks, StartNodes(r)
  PROVE  ServedInv'
PROOF
  <1>1. UNCHANGED <<now, link, pos>> /\ pc' = [pc EXCEPT ![r] = "nodes"]
    BY DEF StartNodes
  <1>2. pc \in [Ranks -> {"depart", "nodes", "exchange", "done"}]
    BY DEF LinkInv, NetTypes
  <1>3. Arriving' = Arriving
    BY <1>1 DEF Arriving
  <1>4. pc'[r] = "nodes" /\ \A s \in Ranks \ {r} : RankSame(s)
    BY <1>1, <1>2, <1>3 DEF RankSame, SameFront
  <1> QED BY <1>4, ServedInNodes

LEMMA FinishNodeServed ==
  ASSUME LinkInv, VehInv, ServedInv, NEW r \in Ranks, NEW n \in Nodes, FinishNode(r, n)
  PROVE  ServedInv'
PROOF
  <1> DEFINE ins == InLinks(n) \cap activeLinks[r]
  <1>1. /\ UNCHANGED <<pc, now, pos>> /\ pc[r] = "nodes" /\ n \in todo[r]
        /\ link' = [l \in Links |-> IF l \in ins THEN Asked(link[l], now[r]) ELSE link[l]]
    BY DEF FinishNode
  <1>2. \A l \in ins : Owner(l) = r
    BY <1>1 DEF LinkInv, NetTypes, InLinks, Owner
  <1>3. Arriving' = Arriving
    BY <1>1 DEF Arriving
  <1>4. ASSUME NEW s \in Ranks \ {r} PROVE RankSame(s)
    <2>1. ASSUME NEW l \in LocalTo(s) PROVE link'[l] = link[l]
      <3>1. l \in Links /\ l \notin ins
        BY <1>2 DEF LocalTo
      <3> QED BY <1>1, <3>1
    <2> QED BY <1>1, <1>3, <2>1 DEF RankSame, SameFront
  <1> QED BY <1>1, <1>4, ServedInNodes

LEMMA MoveVehicleServed ==
  ASSUME LinkInv, VehInv, ServedInv, NEW r \in Ranks, NEW n \in Nodes, NEW l0 \in Links,
         MoveVehicle(r, n, l0)
  PROVE  ServedInv'
PROOF
  <1> DEFINE v == Head(link[l0].buffer)
             next == NextLink(v)
             popped == [link EXCEPT ![l0] = PopVeh(link[l0])]
             pushed == IF IsSplit(next) THEN popped
                       ELSE [popped EXCEPT ![next] = PushVehToQueue(popped[next], next, v, now[r])]
  <1>1. /\ pc[r] = "nodes" /\ n \in todo[r] /\ To[l0] = n
        /\ link' = pushed
        /\ UNCHANGED <<pc, now>>
    BY Zenon DEF MoveVehicle, InLinks
  <1>2. /\ v \in SeqRange(link[l0].buffer) /\ pos' = [pos EXCEPT ![v] = @ + 1]
    BY VehicleMoves
  <1>3. link = [l \in Links |-> link[l]] /\ pos \in [Vehicles -> Nat] /\ Part[n] = r
    BY <1>1 DEF LinkInv, NetTypes, VehInv
  <1> HIDE DEF v
  <1>4. v \in Vehicles /\ next \in Links /\ From[next] = To[l0]
    BY <1>2, NextIs
  <1>5. Owner(l0) = r /\ (~IsSplit(next) => Owner(next) = r)
    BY <1>1, <1>3, <1>4 DEF Owner, IsSplit
  <1> HIDE DEF next
  <1>6. ASSUME NEW l \in Links, Owner(l) # r PROVE link'[l] = link[l]
    <2>1. popped[l] = link[l] /\ popped = [k \in Links |-> popped[k]]
      BY <1>3, <1>5, <1>6
    <2> HIDE DEF popped
    <2>2. pushed[l] = popped[l]
      BY <1>5, <1>6, <2>1
    <2> QED BY <1>1, <2>1, <2>2
  <1>7. ASSUME NEW l \in Links, Owner(l) # r, NEW w \in OnLink(link[l]), w \in Arriving'
        PROVE  w \in Arriving
    <2>1. v \in OnLink(link[l0])
      BY <1>2 DEF OnLink
    <2>2. w # v
      BY <1>5, <1>7, <2>1, OnOneLink
    <2>3. w \in Vehicles /\ pos'[w] = Len(Route[w])
      BY <1>7 DEF Arriving
    <2>4. pos'[w] = pos[w]
      BY <1>2, <1>3, <2>2, <2>3
    <2> QED BY <2>3, <2>4 DEF Arriving
  <1>8. ASSUME NEW s \in Ranks \ {r} PROVE RankSame(s)
    BY <1>1, <1>6, <1>7 DEF RankSame, SameFront, LocalTo
  <1> QED BY <1>1, <1>8, ServedInNodes

LEMMA MoveLinksServed ==
  ASSUME LinkInv, VehInv, CacheInv, ServedInv, NEW r \in Ranks, MoveLinks(r)
  PROVE  ServedInv'
PROOF
  <1> DEFINE act == activeLinks[r] \cap LocalTo(r)
             t == now[r]
             step == [l \in act |-> DoSimStep(link[l], l, Arriving, t)]
             moved == [l \in act |-> step[l].link]
             d(l) == Asked(DoSimStep(link[l], l, Arriving, t).link, t + 1)
  <1>1. PICK E : LinksMoved(r, E)
    BY LinksMove
  <1>2. /\ link' = [l \in Links |-> IF l \in act THEN Asked(moved[l], t + 1) ELSE link[l]]
        /\ now' = now /\ pc' = [pc EXCEPT ![r] = "exchange"]
    BY Zenon DEF MoveLinks
  <1>3. /\ pc \in [Ranks -> {"depart", "nodes", "exchange", "done"}] /\ t \in Nat /\ t + 1 \in Nat
        /\ pos \in [Vehicles -> Nat]
        /\ \A l \in Links : SoundLink(link[l], l)
    <2>1. OtherTypes /\ \A l \in Links : SoundLink(link[l], l)
      BY LinkInvIs
    <2>2. pc \in [Ranks -> {"depart", "nodes", "exchange", "done"}] /\ t \in Nat
      BY <2>1 DEF OtherTypes
    <2>3. pos \in [Vehicles -> Nat]
      BY DEF VehInv
    <2> QED BY <2>1, <2>2, <2>3
  <1>4. Arriving' \subseteq Arriving
    <2> SUFFICES ASSUME NEW w \in Arriving' PROVE w \in Arriving
      OBVIOUS
    <2>1. w \in Vehicles /\ pos'[w] = Len(Route[w])
      BY DEF Arriving
    <2>2. w \in E => pos[w] = Len(Route[w]) /\ pos'[w] = pos[w] + 1
      BY <1>1, <2>1 DEF LinksMoved, Arriving
    <2>3. w \notin E
      BY <1>3, <2>1, <2>2
    <2>4. pos'[w] = pos[w]
      BY <1>1, <2>1, <2>3 DEF LinksMoved
    <2> QED BY <2>1, <2>4 DEF Arriving
  <1>5. \A l \in act : Asked(moved[l], t + 1) = d(l)
    OBVIOUS
  <1>6. ASSUME NEW l \in Links, Owner(l) = r
        PROVE  ServedBefore(link'[l], t + 1, Arriving')
    <2> SUFFICES ASSUME link'[l].q # <<>>, link'[l].q[1].exit < t + 1
                 PROVE  link'[l].q[1].veh \notin Arriving' /\ ~HasFlowCapacityLeft(link'[l], <<>>)
      BY DEF ServedBefore
    <2>1. l \in act
      <3> SUFFICES ASSUME l \notin act PROVE FALSE
        OBVIOUS
      <3>1. link'[l] = link[l]
        BY <1>2
      <3>2. l \in LocalTo(r) /\ IsActive(link[l])
        BY <1>6, <3>1 DEF LocalTo, IsActive
      <3> QED BY <3>2 DEF CacheInv
    <2>2. link'[l] = d(l)
      BY <1>2, <1>5, <2>1
    <2>3. d(l).q # <<>> /\ d(l).q[1].exit < t + 1
      BY <2>2
    <2>4. SoundLink(link[l], l)
      BY <1>3
    <2> HIDE DEF t
    <2>5. d(l).q[1].veh \notin Arriving /\ ~HasFlowCapacityLeft(d(l), <<>>)
      BY <1>3, <2>3, <2>4, SimStepServed
    <2> QED BY <1>4, <2>2, <2>5
  <1>7. ASSUME NEW s \in Ranks \ {r} PROVE RankSame(s)
    <2>1. ASSUME NEW l \in LocalTo(s) PROVE link'[l] = link[l]
      <3>1. l \in Links /\ l \notin act
        BY DEF LocalTo
      <3> QED BY <1>2, <3>1
    <2>2. pc'[s] = pc[s] /\ now'[s] = now[s]
      BY <1>2, <1>3
    <2> QED BY <1>4, <2>1, <2>2 DEF RankSame, SameFront
  <1>8. ASSUME NEW l \in Links, pc'[Owner(l)] # "nodes"
        PROVE  ServedBefore(link'[l], IF pc'[Owner(l)] = "exchange" THEN now'[Owner(l)] + 1
                                      ELSE now'[Owner(l)], Arriving')
    <2>1. CASE Owner(l) = r
      <3>1. pc'[r] = "exchange" /\ now'[r] + 1 = t + 1
        BY <1>2, <1>3
      <3>2. ServedBefore(link'[l], t + 1, Arriving')
        BY <1>6, <2>1
      <3> QED BY <2>1, <3>1, <3>2
    <2>2. CASE Owner(l) # r
      BY <1>7, <1>8, <2>2, OwnerIs, ServedSame
    <2> QED BY <2>1, <2>2
  <1> QED BY <1>8, ServedNext

\* A vehicle that crosses a boundary enters the queue in the tick before the one in which
\* move_links could first move it on.
LEMMA ExchangeServed ==
  ASSUME LinkInv, VehInv, ServedInv, SlowBoundaries, NEW r \in Ranks, Exchange(r)
  PROVE  ServedInv'
PROOF
  <1> DEFINE got == {m \in msgs : m.to = r /\ m.time = now[r]}
             vehsOn == [l \in InTo(r) |-> (CHOOSE m \in got : l \in DOMAIN m.vehs).vehs[l]]
             entered == {l \in InTo(r) : vehsOn[l] # <<>>}
             t == now[r]
  <1>1. /\ OtherTypes /\ link = [l \in Links |-> link[l]]
        /\ \A l \in Links : SoundLink(link[l], l)
    BY LinkInvIs
  <1>2. /\ pc[r] = "exchange"
        /\ {m.from : m \in got} = Neighbours(r)
        /\ link' = [l \in Links |->
                      IF l \in entered THEN PushReceived(link[l], l, vehsOn[l], now[r])
                      ELSE link[l]]
        /\ now' = [now EXCEPT ![r] = @ + 1]
        /\ pc' = [pc EXCEPT ![r] = IF now[r] < EndTick THEN "depart" ELSE "done"]
        /\ pos' = pos
    BY Zenon DEF Exchange
  <1>3. \A l \in entered : l \in InTo(r) /\ l \in Links /\ vehsOn[l] \in Seq(Vehicles) /\ vehsOn[l] # <<>>
    <2>1. got \subseteq msgs /\ \A m \in got : m.to = r
      OBVIOUS
    <2>2. \A l \in InTo(r) : vehsOn[l] = (CHOOSE m \in got : l \in DOMAIN m.vehs).vehs[l]
      OBVIOUS
    <2> HIDE DEF got
    <2>3. \A l \in InTo(r) : (CHOOSE m \in got : l \in DOMAIN m.vehs).vehs[l] \in Seq(Vehicles)
      <3>1. OtherTypes /\ {m.from : m \in got} = Neighbours(r)
        BY <1>1, <1>2, Zenon
      <3> QED BY <2>1, <3>1, ReceivedTyped, Zenon
    <2> HIDE DEF vehsOn
    <2> QED BY <2>2, <2>3, Zenon DEF InTo, LocalTo
  <1>4. t \in Nat /\ Arriving' = Arriving
    BY <1>1, <1>2 DEF OtherTypes, Arriving
  <1> HIDE DEF got, vehsOn, entered
  <1>7. ASSUME NEW l \in Links, l \notin entered PROVE link'[l] = link[l]
    <2>1. link' = [k \in Links |-> IF k \in entered THEN PushReceived(link[k], k, vehsOn[k], now[r])
                                  ELSE link[k]]
      BY <1>2, Zenon
    <2> QED BY <1>7, <2>1, Zenon
  <1>5. ASSUME NEW l \in Links, Owner(l) = r
        PROVE  ServedBefore(link'[l], t + 1, Arriving)
    <2>1. ServedBefore(link[l], t + 1, Arriving)
      BY <1>2, <1>5 DEF ServedInv, ServedTick
    <2>2. CASE l \notin entered
      <3>1. link'[l] = link[l]
        BY <1>7, <2>2, Zenon
      <3> QED BY <2>1, <3>1, Zenon
    <2>3. CASE l \in entered
      <3> DEFINE vs == vehsOn[l]
                 k == link[l]
                 e == PushReceived(k, l, vs, t)
                 new == EntriesOf(l, vs, t)
      <3>1. /\ link'[l] = e /\ vs \in Seq(Vehicles) /\ vs # <<>> /\ SoundLink(k, l)
            /\ k.q \in Seq(QueueEntries) /\ IsSplit(l)
        BY <1>1, <1>2, <1>3, <2>3 DEF SoundLink, LinkStates, InTo
      <3> HIDE DEF vs, k
      <3>2. /\ new \in Seq(QueueEntries) /\ e.q = k.q \o new
            /\ e.buffer = k.buffer /\ e.flow = k.flow
        <4>1. l \in Links /\ t \in Nat /\ vs \in Seq(Vehicles) /\ SoundLink(k, l)
          BY <1>4, <3>1
        <4> HIDE DEF t, new, e
        <4>2. LET f == PushReceived(k, l, vs, t) IN
              /\ EntriesOf(l, vs, t) \in Seq(QueueEntries) /\ f.q = k.q \o EntriesOf(l, vs, t)
              /\ f.buffer = k.buffer /\ f.flow = k.flow
          BY <4>1, PushReceivedKeeps
        <4> QED BY <4>2, Zenon DEF new, e
      <3>3. /\ vs[1] \in Vehicles /\ Len(new) = Len(vs) /\ 1 \in 1..Len(vs)
            /\ new[1] = [veh |-> vs[1], exit |-> t + Duration[l][vs[1]]]
        <4>1. Len(vs) \in Nat /\ 1 \in 1..Len(vs) /\ vs[1] \in Vehicles
          BY <3>1, FirstOfSequence, Zenon
        <4>2. new = [i \in 1..Len(vs) |-> [veh |-> vs[i], exit |-> t + Duration[l][vs[i]]]]
          BY Zenon DEF EntriesOf
        <4> HIDE DEF new
        <4>3. new[1] = [veh |-> vs[1], exit |-> t + Duration[l][vs[1]]]
          BY <4>1, <4>2
        <4>4. Len(new) = Len(vs)
          BY <4>1, <4>2
        <4> QED BY <4>1, <4>3, <4>4
      <3>4. new[1].exit = t + Duration[l][vs[1]] /\ Duration[l][vs[1]] \in Nat /\ Duration[l][vs[1]] > 0
        BY <3>1, <3>3, DurationIs DEF SlowBoundaries
      <3>5. ~(new[1].exit < t + 1)
        BY <1>4, <3>4
      <3> HIDE DEF new, e
      <3>6. CASE k.q = <<>>
        <4>1. e.q = new
          BY <3>2, <3>6
        <4> QED BY <3>1, <3>5, <4>1 DEF ServedBefore
      <3>7. CASE k.q # <<>>
        <4>1. e.q[1] = k.q[1]
          BY <3>1, <3>2, <3>7
        <4>2. HasFlowCapacityLeft(e, <<>>) <=> HasFlowCapacityLeft(k, <<>>)
          BY <3>2 DEF HasFlowCapacityLeft
        <4>3. ServedBefore(k, t + 1, Arriving)
          BY <2>1 DEF k
        <4> QED BY <3>1, <3>7, <4>1, <4>2, <4>3 DEF ServedBefore
      <3> QED BY <3>6, <3>7
    <2> QED BY <2>2, <2>3
  <1>6. ASSUME NEW s \in Ranks \ {r} PROVE RankSame(s)
    <2>1. ASSUME NEW l \in LocalTo(s) PROVE link'[l] = link[l]
      <3>1. l \in Links /\ l \notin entered
        BY <1>3 DEF LocalTo, InTo
      <3> QED BY <1>2, <3>1
    <2>2. pc'[s] = pc[s] /\ now'[s] = now[s]
      BY <1>1, <1>2 DEF OtherTypes
    <2> QED BY <1>4, <2>1, <2>2 DEF RankSame, SameFront
  <1>8. ASSUME NEW l \in Links, pc'[Owner(l)] # "nodes"
        PROVE  ServedBefore(link'[l], IF pc'[Owner(l)] = "exchange" THEN now'[Owner(l)] + 1
                                      ELSE now'[Owner(l)], Arriving')
    <2>1. CASE Owner(l) = r
      <3>1. pc'[r] # "exchange" /\ now'[r] = t + 1
        BY <1>1, <1>2 DEF OtherTypes
      <3>2. ServedBefore(link'[l], t + 1, Arriving')
        BY <1>4, <1>5, <2>1
      <3> QED BY <2>1, <3>1, <3>2
    <2>2. CASE Owner(l) # r
      BY <1>6, <1>8, <2>2, OwnerIs, ServedSame
    <2> QED BY <2>1, <2>2
  <1> QED BY <1>8, ServedNext

LEMMA ServedInit == NetInit => ServedInv
  BY DEF NetInit, NewLink, ServedInv, ServedBefore

LEMMA ServedStep ==
  SlowBoundaries /\ LinkInv /\ VehInv /\ CacheInv /\ ServedInv /\ [NetNext]_netVars => ServedInv'
PROOF
  <1> SUFFICES ASSUME SlowBoundaries, LinkInv, VehInv, CacheInv, ServedInv, [NetNext]_netVars
               PROVE  ServedInv'
    OBVIOUS
  <1>1. CASE UNCHANGED netVars
    <2>1. UNCHANGED <<pc, now, link>> /\ Arriving' = Arriving
      BY <1>1 DEF netVars, Arriving
    <2>2. \A s \in Ranks : RankSame(s)
      BY <2>1 DEF RankSame, SameFront
    <2>3. \A l \in Links : RankSame(Owner(l))
      BY <2>2, OwnerIs
    <2> QED BY <2>3, ServedSame, ServedNext
  <1>2. CASE \E r \in Ranks : PartitionNext(r)
    <2>1. PICK r \in Ranks : PartitionNext(r)
      BY <1>2
    <2> QED BY <2>1, DepartServed, StartNodesServed, FinishNodeServed, MoveVehicleServed,
               MoveLinksServed, ExchangeServed DEF PartitionNext
  <1> QED BY <1>1, <1>2 DEF NetNext, NetTerminated

\* If no link across a boundary is shorter than a tick, no vehicle stays at the front of a
\* queue after its earliest exit time unless the flow capacity is used up: move_links
\* serves every queue in every tick, on both sides of a boundary alike.
THEOREM QueuesAreServed ==
  ASSUME SlowBoundaries
  PROVE  NetSpec => []QueueServedOnTime
PROOF
  <1>1. NetInit => LinkInv /\ VehInv /\ CacheInv /\ ServedInv
    BY LinkInit, PlacesInit, CacheInit, ServedInit
  <1>2. LinkInv /\ VehInv /\ CacheInv /\ ServedInv /\ [NetNext]_netVars
          => (LinkInv /\ VehInv /\ CacheInv /\ ServedInv)'
    BY LinkStep, PlacesStep, CacheStep, ServedStep
  <1>3. ServedInv => QueueServedOnTime
    BY DEF ServedInv, QueueServedOnTime, ServedTick
  <1> QED BY <1>1, <1>2, <1>3, PTL DEF NetSpec
=============================================================================
