---------------------------- MODULE AStar_proofs ----------------------------
(***************************************************************************)
(* Theorems about AStar, for every network, request and heuristic that     *)
(* AStarAssumption allows:                                                 *)
(*   - the graph is that of the network's links for the mode               *)
(*     (GraphOfNetwork);                                                   *)
(*   - a node taken from the queue has its least cost (SettledIsFinal);    *)
(*   - the route is a least cost path, and there is one exactly when the   *)
(*     links can be connected (RouteIsLeastCost).                          *)
(*                                                                         *)
(* The reference, LeastCosts, is a table by the number of links of a way.  *)
(* Against it a label is a lower bound (by induction over the links of a   *)
(* way, ForwardLower and BackwardLower: the estimates must be consistent)  *)
(* and an upper one (AtMost: the table's row k is no more than the label   *)
(* after k nodes).  The inductive invariant is AInv.                       *)
(***************************************************************************)
EXTENDS AStar, SequenceFacts, FiniteSetTheorems, TLAPS

-----------------------------------------------------------------------------
(* Rows of links.                                                           *)

\* The elements of S below x.
Below(S, x) == {y \in S : y < x}

\* Sorted numbers every element of a finite set of ids once.
LEMMA SortedIs ==
  ASSUME NEW S, S \subseteq Nat, IsFiniteSet(S)
  PROVE  /\ Cardinality(S) \in Nat /\ Sorted(S) \in [1..Cardinality(S) -> S]
         /\ \A i, j \in 1..Cardinality(S) : Sorted(S)[i] = Sorted(S)[j] => i = j
         /\ \A x \in S : \E i \in 1..Cardinality(S) : Sorted(S)[i] = x
PROOF
  <1> DEFINE n == Cardinality(S)
             rank == [x \in S |-> Cardinality(Below(S, x)) + 1]
  <1>1. n \in Nat
    BY FS_CardinalityType
  <1>2. ASSUME NEW x \in S
        PROVE  /\ IsFiniteSet(Below(S, x)) /\ Cardinality(Below(S, x)) \in Nat /\ Cardinality(Below(S, x)) < n
               /\ IsFiniteSet(Below(S, x) \cup {x})
               /\ Cardinality(Below(S, x) \cup {x}) = Cardinality(Below(S, x)) + 1
    <2>1. Below(S, x) \in SUBSET (S \ {x}) /\ x \notin Below(S, x)
      BY DEF Below
    <2>2. IsFiniteSet(S \ {x}) /\ Cardinality(S \ {x}) = n - 1
      BY FS_RemoveElement
    <2>3. IsFiniteSet(Below(S, x)) /\ Cardinality(Below(S, x)) <= n - 1
      BY <2>1, <2>2, FS_Subset
    <2>4. Cardinality(Below(S, x)) \in Nat
      BY <2>3, FS_CardinalityType
    <2>5. /\ IsFiniteSet(Below(S, x) \cup {x})
          /\ Cardinality(Below(S, x) \cup {x}) = Cardinality(Below(S, x)) + 1
      BY <2>1, <2>3, FS_AddElement
    <2> HIDE DEF n
    <2> QED BY <1>1, <2>3, <2>4, <2>5
  <1>3. ASSUME NEW x \in S, NEW y \in S, x < y PROVE Cardinality(Below(S, x)) < Cardinality(Below(S, y))
    <2>0. \A z \in Below(S, x) : z \in S /\ z < y
      BY <1>3 DEF Below
    <2>1. Below(S, x) \cup {x} \in SUBSET Below(S, y)
      BY <1>3, <2>0 DEF Below
    <2>2. Cardinality(Below(S, x) \cup {x}) <= Cardinality(Below(S, y))
      BY <1>2, <2>1, FS_Subset
    <2>3. /\ Cardinality(Below(S, x)) \in Nat /\ Cardinality(Below(S, y)) \in Nat
          /\ Cardinality(Below(S, x) \cup {x}) = Cardinality(Below(S, x)) + 1
      BY <1>2
    <2> QED BY <2>2, <2>3
  <1>4. rank \in [S -> 1..n]
    <2>1. ASSUME NEW x \in S PROVE Cardinality(Below(S, x)) + 1 \in 1..n
      <3>1. Cardinality(Below(S, x)) \in Nat /\ Cardinality(Below(S, x)) < n
        BY <1>2
      <3> QED BY <1>1, <3>1
    <2> QED BY <2>1
  <1>5. \A x, y \in S : rank[x] = rank[y] => x = y
    <2> SUFFICES ASSUME NEW x \in S, NEW y \in S, rank[x] = rank[y] PROVE x = y
      OBVIOUS
    <2>1. Cardinality(Below(S, x)) + 1 = Cardinality(Below(S, y)) + 1
      <3> QED OBVIOUS
    <2>2. Cardinality(Below(S, x)) \in Nat /\ Cardinality(Below(S, y)) \in Nat
      BY <1>2
    <2>3. x < y => Cardinality(Below(S, x)) < Cardinality(Below(S, y))
      BY <1>3
    <2>4. y < x => Cardinality(Below(S, y)) < Cardinality(Below(S, x))
      BY <1>3
    <2>5. x \in Nat /\ y \in Nat
      OBVIOUS
    <2> HIDE DEF rank
    <2> QED BY <2>1, <2>2, <2>3, <2>4, <2>5
  <1>6. IsFiniteSet(1..n) /\ Cardinality(1..n) = n
    <2>1. n \in Int /\ 1 \in Int
      BY <1>1
    <2> HIDE DEF n
    <2>2. IsFiniteSet(1..n) /\ Cardinality(1..n) = IF 1 > n THEN 0 ELSE n - 1 + 1
      BY <2>1, FS_Interval
    <2> QED BY <1>1, <2>2
  <1>7. rank \in Surjection(S, 1..n)
    <2> HIDE DEF rank
    <2>1. rank \in Injection(S, 1..n)
      BY <1>4, <1>5 DEF Injection, IsInjective
    <2>2. Cardinality(1..n) = Cardinality(S)
      BY <1>6
    <2> QED BY <1>6, <2>1, <2>2, FS_Injection
  <1>8. \A i \in 1..n : \E x \in S : rank[x] = i
    <2> HIDE DEF rank, n
    <2> QED BY <1>7 DEF Surjection
  <1> DEFINE s == [i \in 1..n |-> CHOOSE x \in S : Cardinality(Below(S, x)) = i - 1]
  <1>9. ASSUME NEW i \in 1..n PROVE s[i] \in S /\ rank[s[i]] = i
    <2>1. PICK x \in S : rank[x] = i
      BY <1>8
    <2>2. Cardinality(Below(S, x)) = i - 1
      <3>1. Cardinality(Below(S, x)) + 1 = i
        <4> QED BY <2>1
      <3>2. Cardinality(Below(S, x)) \in Nat
        BY <1>2
      <3> QED BY <3>1, <3>2
    <2>3. s[i] \in S /\ Cardinality(Below(S, s[i])) = i - 1
      <3> HIDE DEF n
      <3> QED BY <2>2
    <2>4. rank[s[i]] = Cardinality(Below(S, s[i])) + 1
      <3> HIDE DEF s
      <3> QED BY <2>3
    <2> HIDE DEF rank, s, n
    <2> QED BY <1>1, <2>3, <2>4
  <1>10. Sorted(S) = s
    BY DEF Sorted, Below
  <1>11. s \in [1..n -> S]
    <2> HIDE DEF n, rank
    <2> QED BY <1>9
  <1>12. \A x \in S : rank[x] \in 1..n /\ s[rank[x]] = x
    <2> HIDE DEF s, rank, n
    <2> QED BY <1>4, <1>5, <1>9
  <1> HIDE DEF s, rank
  <1> QED BY <1>1, <1>9, <1>10, <1>11, <1>12

\* FirstOut counts the elements of the rows before.
LEMMA FirstOutIs ==
  ASSUME NEW S, NEW rows \in Seq(Seq(S))
  PROVE  \E b \in [0..Len(rows) -> Nat] :
           /\ b[0] = 0 /\ \A i \in 1..Len(rows) : b[i] = b[i - 1] + Len(rows[i])
           /\ FirstOut(rows) = [i \in 1..Len(rows) + 1 |-> 1 + b[i - 1]]
PROOF
  <1> DEFINE n == Len(rows)
             X == Nat
             x == 0
             step == [p \in (1..n) \X X |-> p[2] + Len(rows[p[1]])]
             Def(h) == [i \in 0..n |-> IF i = 0 THEN 0 ELSE h[i - 1] + Len(rows[i])]
             f == CHOOSE h : h = Def(h)
  <1>1. n \in Nat /\ x \in X
    OBVIOUS
  <1>2. ASSUME NEW i \in 1..n, NEW y \in X PROVE y + Len(rows[i]) \in X
    OBVIOUS
  <1>3. step \in [(1..n) \X X -> X]
    <2>1. ASSUME NEW p \in (1..n) \X X PROVE p[2] + Len(rows[p[1]]) \in X
      <3>1. p[1] \in 1..n /\ p[2] \in X
        OBVIOUS
      <3> HIDE DEF n, X
      <3> QED BY <1>2, <3>1
    <2> HIDE DEF n, X
    <2> QED BY <2>1
  <1>4. PICK g \in [0..n -> X] : IsRecursion(g, x, n, step)
    <2> HIDE DEF n, X, x, step
    <2> QED BY <1>1, <1>3, RecursionExists
  <1>5. g = Def(g)
    <2>1. \A i \in 0..n : g[i] = IF i = 0 THEN x ELSE step[<<i, g[i - 1]>>]
      <3> HIDE DEF n, X, x, step
      <3> QED BY <1>4 DEF IsRecursion
    <2>2. ASSUME NEW i \in 1..n PROVE step[<<i, g[i - 1]>>] = g[i - 1] + Len(rows[i])
      <3>1. <<i, g[i - 1]>> \in (1..n) \X X
        <4> HIDE DEF n, X
        <4> QED BY <1>1
      <3> HIDE DEF n, X
      <3> QED BY <3>1
    <2>3. \A i \in 0..n : i = 0 \/ i \in 1..n
      BY <1>1
    <2>4. \A i \in 0..n : g[i] = IF i = 0 THEN 0 ELSE g[i - 1] + Len(rows[i])
      <3> HIDE DEF n, X, step
      <3> QED BY <2>1, <2>2, <2>3
    <2> HIDE DEF n, X, x, step
    <2> QED BY <2>4
  <1>6. f = Def(f)
    <2> HIDE DEF Def
    <2> QED BY <1>5
  <1>7. \A i \in 0..n : f[i] = IF i = 0 THEN 0 ELSE f[i - 1] + Len(rows[i])
    <2> HIDE DEF f, n
    <2> QED BY <1>6
  <1>8. FirstOut(rows) = [i \in 1..n + 1 |-> 1 + f[i - 1]]
    BY Zenon DEF FirstOut
  <1>9. \A i \in 0..n : f[i] \in X
    <2> DEFINE P == {i \in 0..n : f[i] \in X}
    <2> HIDE DEF f, X, n
    <2>1. 0 \in P
      BY <1>1, <1>7
    <2>2. ASSUME NEW i \in 1..n, i - 1 \in P PROVE i \in P
      <3>1. i \in 0..n /\ i # 0 /\ f[i - 1] \in X
        BY <1>1, <2>2
      <3>2. f[i] = f[i - 1] + Len(rows[i])
        BY <1>7, <3>1
      <3>3. f[i - 1] + Len(rows[i]) \in X
        BY <1>2, <3>1
      <3> QED BY <3>1, <3>2, <3>3
    <2>3. \A i \in 0..n : i \in P
      <3> HIDE DEF P
      <3> QED BY <1>1, <2>1, <2>2, UpTo
    <2> QED BY <2>3
  <1>10. f \in [0..n -> X]
    <2>1. f = [i \in 0..n |-> f[i]]
      <3> HIDE DEF f, n
      <3> QED BY <1>6
    <2> HIDE DEF f, n, X, Def
    <2> QED BY <1>9, <2>1
  <1> HIDE DEF f, Def, step
  <1>11. f[0] = 0 /\ \A i \in 1..n : f[i] = f[i - 1] + Len(rows[i])
    <2>1. 0 \in 0..n /\ \A i \in 1..n : i \in 0..n /\ i # 0
      BY <1>1
    <2> HIDE DEF n
    <2> QED BY <1>7, <2>1
  <1> QED BY <1>8, <1>10, <1>11

\* InARow puts one row behind the other.
LEMMA InARowIs ==
  ASSUME NEW S, NEW rows \in Seq(Seq(S))
  PROVE  \E u \in [0..Len(rows) -> Seq(S)] :
           /\ u[0] = <<>> /\ \A i \in 1..Len(rows) : u[i] = u[i - 1] \o rows[i]
           /\ InARow(rows) = u[Len(rows)]
PROOF
  <1> DEFINE n == Len(rows)
             X == Seq(S)
             x == <<>>
             step == [p \in (1..n) \X X |-> p[2] \o rows[p[1]]]
             Def(h) == [i \in 0..n |-> IF i = 0 THEN <<>> ELSE h[i - 1] \o rows[i]]
             f == CHOOSE h : h = Def(h)
  <1>1. n \in Nat /\ x \in X
    OBVIOUS
  <1>2. ASSUME NEW i \in 1..n, NEW y \in X PROVE y \o rows[i] \in X
    OBVIOUS
  <1>3. step \in [(1..n) \X X -> X]
    <2>1. ASSUME NEW p \in (1..n) \X X PROVE p[2] \o rows[p[1]] \in X
      <3>1. p[1] \in 1..n /\ p[2] \in X
        OBVIOUS
      <3> HIDE DEF n, X
      <3> QED BY <1>2, <3>1
    <2> HIDE DEF n, X
    <2> QED BY <2>1
  <1>4. PICK g \in [0..n -> X] : IsRecursion(g, x, n, step)
    <2> HIDE DEF n, X, x, step
    <2> QED BY <1>1, <1>3, RecursionExists
  <1>5. g = Def(g)
    <2>1. \A i \in 0..n : g[i] = IF i = 0 THEN x ELSE step[<<i, g[i - 1]>>]
      <3> HIDE DEF n, X, x, step
      <3> QED BY <1>4 DEF IsRecursion
    <2>2. ASSUME NEW i \in 1..n PROVE step[<<i, g[i - 1]>>] = g[i - 1] \o rows[i]
      <3>1. <<i, g[i - 1]>> \in (1..n) \X X
        <4> HIDE DEF n, X
        <4> QED BY <1>1
      <3> HIDE DEF n, X
      <3> QED BY <3>1
    <2>3. \A i \in 0..n : i = 0 \/ i \in 1..n
      BY <1>1
    <2>4. \A i \in 0..n : g[i] = IF i = 0 THEN <<>> ELSE g[i - 1] \o rows[i]
      <3> HIDE DEF n, X, step
      <3> QED BY <2>1, <2>2, <2>3
    <2> HIDE DEF n, X, x, step
    <2> QED BY <2>4
  <1>6. f = Def(f)
    <2> HIDE DEF Def
    <2> QED BY <1>5
  <1>7. \A i \in 0..n : f[i] = IF i = 0 THEN <<>> ELSE f[i - 1] \o rows[i]
    <2> HIDE DEF f, n
    <2> QED BY <1>6
  <1>8. InARow(rows) = f[n]
    BY Zenon DEF InARow
  <1>9. \A i \in 0..n : f[i] \in X
    <2> DEFINE P == {i \in 0..n : f[i] \in X}
    <2> HIDE DEF f, X, n
    <2>1. 0 \in P
      BY <1>1, <1>7
    <2>2. ASSUME NEW i \in 1..n, i - 1 \in P PROVE i \in P
      <3>1. i \in 0..n /\ i # 0 /\ f[i - 1] \in X
        BY <1>1, <2>2
      <3>2. f[i] = f[i - 1] \o rows[i]
        BY <1>7, <3>1
      <3>3. f[i - 1] \o rows[i] \in X
        BY <1>2, <3>1
      <3> QED BY <3>1, <3>2, <3>3
    <2>3. \A i \in 0..n : i \in P
      <3> HIDE DEF P
      <3> QED BY <1>1, <2>1, <2>2, UpTo
    <2> QED BY <2>3
  <1>10. f \in [0..n -> X]
    <2>1. f = [i \in 0..n |-> f[i]]
      <3> HIDE DEF f, n
      <3> QED BY <1>6
    <2> HIDE DEF f, n, X, Def
    <2> QED BY <1>9, <2>1
  <1> HIDE DEF f, Def, step
  <1>11. f[0] = <<>> /\ \A i \in 1..n : f[i] = f[i - 1] \o rows[i]
    <2>1. 0 \in 0..n /\ \A i \in 1..n : i \in 0..n /\ i # 0
      BY <1>1
    <2> HIDE DEF n
    <2> QED BY <1>7, <2>1
  <1> QED BY <1>8, <1>10, <1>11

\* s is the first i rows, one behind the other, b[r] the elements of the first r.
IsUpTo(rows, b, s, i) ==
  /\ Len(s) = b[i]
  /\ \A r \in 1..i : \A j \in 1..Len(rows[r]) :
       b[r - 1] + j \in 1..b[i] /\ s[b[r - 1] + j] = rows[r][j]
  /\ \A k \in 1..b[i] : \E r \in 1..i : \E j \in 1..Len(rows[r]) : k = b[r - 1] + j

\* Appending the next row keeps what is known of the rows so far.
LEMMA OneRowMore ==
  ASSUME NEW S, NEW rows \in Seq(Seq(S)), NEW b \in [0..Len(rows) -> Nat], NEW i \in 1..Len(rows),
         b[i] = b[i - 1] + Len(rows[i]), NEW s \in Seq(S), IsUpTo(rows, b, s, i - 1)
  PROVE  IsUpTo(rows, b, s \o rows[i], i)
PROOF
  <1> DEFINE t == s \o rows[i]
             m == b[i - 1]
  <1>0. Len(rows) \in Nat /\ i \in Nat /\ i - 1 \in 0..Len(rows) /\ i \in 0..Len(rows)
    OBVIOUS
  <1>a. m \in Nat
    BY <1>0
  <1>b. rows[i] \in Seq(S)
    OBVIOUS
  <1>1. m \in Nat /\ rows[i] \in Seq(S) /\ Len(rows[i]) \in Nat
    BY <1>a, <1>b
  <1>2. Len(s) = m
    BY DEF IsUpTo
  <1>3. /\ Len(t) = m + Len(rows[i])
        /\ \A k \in 1..Len(t) : t[k] = IF k <= m THEN s[k] ELSE rows[i][k - m]
    <2>1. /\ Len(t) = Len(s) + Len(rows[i])
          /\ \A k \in 1..Len(t) : t[k] = IF k <= Len(s) THEN s[k] ELSE rows[i][k - Len(s)]
      BY <1>1, CatIs
    <2> QED BY <1>2, <2>1
  <1> DEFINE p == rows[i]
             e == b[i]
  <1>e. e = m + Len(p) /\ e \in Nat
    BY <1>1
  <1>4. ASSUME NEW r \in 1..i, NEW j \in 1..Len(rows[r])
        PROVE  b[r - 1] + j \in 1..e /\ t[b[r - 1] + j] = rows[r][j]
    <2>1. CASE r = i
      <3> HIDE DEF t
      <3>1. m + j \in 1..e /\ ~(m + j <= m) /\ (m + j) - m = j
        <4>1. j \in 1..Len(p) /\ m \in Nat /\ Len(p) \in Nat
          BY <1>1, <2>1
        <4> HIDE DEF e, p, m
        <4> QED BY <1>e, <4>1
      <3> QED BY <1>3, <1>e, <2>1, <3>1
    <2>2. CASE r # i
      <3>1. r \in 1..(i - 1)
        BY <1>0, <2>2
      <3>2. b[r - 1] + j \in 1..m /\ s[b[r - 1] + j] = rows[r][j]
        BY <3>1 DEF IsUpTo
      <3> DEFINE x == b[r - 1] + j
      <3>3. Len(p) \in Nat /\ x \in 1..m
        BY <1>1, <3>2
      <3> HIDE DEF t, m, p, e, x
      <3>4. x \in 1..e /\ x <= m /\ x \in 1..(m + Len(p))
        BY <1>a, <1>e, <3>3
      <3>5. t[x] = s[x]
        BY <1>3, <3>4 DEF p
      <3> QED BY <3>2, <3>4, <3>5 DEF x
    <2> QED BY <2>1, <2>2
  <1>5. ASSUME NEW k \in 1..e
        PROVE  \E r \in 1..i : \E j \in 1..Len(rows[r]) : k = b[r - 1] + j
    <2>1. CASE k <= m
      <3>1. k \in 1..m
        BY <1>1, <2>1
      <3>2. PICK r \in 1..(i - 1) : \E j \in 1..Len(rows[r]) : k = b[r - 1] + j
        BY <3>1 DEF IsUpTo
      <3>3. r \in 1..i
        BY <1>0
      <3> QED BY <3>2, <3>3
    <2>2. CASE ~(k <= m)
      <3> HIDE DEF e
      <3>1. k - m \in 1..Len(p) /\ k = m + (k - m)
        <4>1. m \in Nat /\ Len(p) \in Nat
          BY <1>1
        <4> HIDE DEF p, m
        <4> QED BY <1>e, <2>2, <4>1
      <3>2. i \in 1..i
        BY <1>0
      <3> QED BY <3>1, <3>2
    <2> QED BY <2>1, <2>2
  <1> HIDE DEF t
  <1> QED BY <1>3, <1>e, <1>4, <1>5 DEF IsUpTo, t

\* Where the elements of the rows are, when they are one behind the other.
IsInARow(rows, first, all) ==
  /\ \A r \in 1..Len(rows) : first[r] \in Nat \ {0} /\ first[r + 1] = first[r] + Len(rows[r])
  /\ \A r \in 1..Len(rows) : \A j \in 1..Len(rows[r]) :
       first[r] + j - 1 \in 1..Len(all) /\ all[first[r] + j - 1] = rows[r][j]
  /\ \A k \in 1..Len(all) : \E r \in 1..Len(rows) : \E j \in 1..Len(rows[r]) : k = first[r] + j - 1

\* InARow puts the rows one after the other, where FirstOut says.
LEMMA RowsAre ==
  ASSUME NEW S, NEW rows \in Seq(Seq(S))
  PROVE  InARow(rows) \in Seq(S) /\ IsInARow(rows, FirstOut(rows), InARow(rows))
PROOF
  <1> DEFINE n == Len(rows)
  <1>1. n \in Nat /\ n \in 0..n /\ 0 \in 0..n
    OBVIOUS
  <1>2. PICK b \in [0..n -> Nat] :
          /\ b[0] = 0 /\ \A i \in 1..n : b[i] = b[i - 1] + Len(rows[i])
          /\ FirstOut(rows) = [i \in 1..n + 1 |-> 1 + b[i - 1]]
    BY FirstOutIs
  <1>3. PICK u \in [0..n -> Seq(S)] :
          /\ u[0] = <<>> /\ \A i \in 1..n : u[i] = u[i - 1] \o rows[i]
          /\ InARow(rows) = u[n]
    BY InARowIs
  <1> DEFINE P == {i \in 0..n : IsUpTo(rows, b, u[i], i)}
  <1>4. 0 \in P
    BY <1>1, <1>2, <1>3 DEF IsUpTo
  <1>5. ASSUME NEW i \in 1..n, i - 1 \in P PROVE i \in P
    <2>a. i \in 0..n /\ i - 1 \in 0..n
      BY <1>1
    <2>b. IsUpTo(rows, b, u[i - 1], i - 1)
      BY <1>5
    <2>1. i \in 0..n /\ u[i - 1] \in Seq(S) /\ IsUpTo(rows, b, u[i - 1], i - 1)
      <3> HIDE DEF n, P
      <3> QED BY <2>a, <2>b
    <2>2. b[i] = b[i - 1] + Len(rows[i])
      BY <1>2
    <2>3. IsUpTo(rows, b, u[i - 1] \o rows[i], i)
      BY <2>1, <2>2, OneRowMore
    <2> QED BY <1>3, <2>1, <2>3
  <1>6. IsUpTo(rows, b, u[n], n)
    <2>1. \A i \in 0..n : i \in P
      <3> HIDE DEF P, n
      <3> QED BY <1>1, <1>4, <1>5, UpTo
    <2> QED BY <1>1, <2>1
  <1> DEFINE all == InARow(rows)
             first == FirstOut(rows)
  <1>7. IsUpTo(rows, b, all, n) /\ all \in Seq(S)
    BY <1>1, <1>3, <1>6
  <1>8. ASSUME NEW r \in 1..n PROVE /\ first[r] = 1 + b[r - 1] /\ first[r + 1] = 1 + b[r]
                                    /\ b[r] = b[r - 1] + Len(rows[r])
                                    /\ b[r - 1] \in Nat /\ b[r] \in Nat /\ Len(rows[r]) \in Nat
    <2>1. /\ r \in 1..n + 1 /\ r + 1 \in 1..n + 1 /\ (r + 1) - 1 = r /\ r \in 0..n /\ r - 1 \in 0..n
          /\ rows[r] \in Seq(S)
      BY <1>1
    <2>2. b[r] = b[r - 1] + Len(rows[r]) /\ b[r - 1] \in Nat /\ b[r] \in Nat
      <3> HIDE DEF n, first
      <3> QED BY <1>2, <2>1
    <2>3. first = [i \in 1..n + 1 |-> 1 + b[i - 1]]
      BY <1>2
    <2>4. first[r] = 1 + b[r - 1] /\ first[r + 1] = 1 + b[r]
      <3> HIDE DEF n, first
      <3> QED BY <2>1, <2>3
    <2>5. Len(rows[r]) \in Nat
      <3> HIDE DEF n, first
      <3> QED BY <2>1
    <2> QED BY <2>2, <2>4, <2>5
  <1> HIDE DEF first, all, P
  <1>9. ASSUME NEW r \in 1..n PROVE first[r] \in Nat \ {0} /\ first[r + 1] = first[r] + Len(rows[r])
    <2>1. /\ first[r] = 1 + b[r - 1] /\ first[r + 1] = 1 + b[r] /\ b[r] = b[r - 1] + Len(rows[r])
          /\ b[r - 1] \in Nat /\ Len(rows[r]) \in Nat
      BY <1>8
    <2>2. first[r] \in Nat \ {0}
      BY <2>1
    <2>3. first[r + 1] = first[r] + Len(rows[r])
      BY <2>1
    <2> QED BY <2>2, <2>3
  <1>10. ASSUME NEW r \in 1..n, NEW j \in 1..Len(rows[r])
         PROVE  first[r] + j - 1 \in 1..Len(all) /\ all[first[r] + j - 1] = rows[r][j]
    <2>1. first[r] + j - 1 = b[r - 1] + j
      BY <1>8
    <2> QED BY <1>7, <2>1 DEF IsUpTo
  <1>11. ASSUME NEW k \in 1..Len(all)
         PROVE  \E r \in 1..n : \E j \in 1..Len(rows[r]) : k = first[r] + j - 1
    <2>1. PICK r \in 1..n : \E j \in 1..Len(rows[r]) : k = b[r - 1] + j
      BY <1>7 DEF IsUpTo
    <2>2. PICK j \in 1..Len(rows[r]) : k = b[r - 1] + j
      BY <2>1
    <2>3. k = first[r] + j - 1
      <3>1. first[r] = 1 + b[r - 1] /\ b[r - 1] \in Nat /\ Len(rows[r]) \in Nat
        BY <1>8
      <3>2. j \in Nat
        BY <3>1
      <3> QED BY <2>2, <3>1, <3>2
    <2> QED BY <2>3
  <1> QED BY <1>7, <1>9, <1>10, <1>11 DEF IsInARow, all, first

\* Row i of rows has the links that end has at nodes[i], each once.
RowsByEnd(rows, c, nodes, L, end) ==
  /\ rows \in Seq(Seq(L)) /\ Len(rows) = c
  /\ \A i \in 1..c :
       /\ NoRepeats(rows[i])
       /\ \A j \in 1..Len(rows[i]) : end[rows[i][j]] = nodes[i]
       /\ \A l \in L : end[l] = nodes[i] => \E j \in 1..Len(rows[i]) : rows[i][j] = l

\* get_links gives each node the links that end there, each once.
LEMMA SortedRows ==
  ASSUME NEW c \in Nat, NEW nodes, NEW L, L \subseteq Nat, IsFiniteSet(L), NEW end,
         NEW rows, rows = [i \in 1..c |-> Sorted({l \in L : end[l] = nodes[i]})]
  PROVE  RowsByEnd(rows, c, nodes, L, end)
PROOF
  <1> DEFINE at(i) == {l \in L : end[l] = nodes[i]}
  <1>1. ASSUME NEW i \in 1..c
        PROVE  /\ rows[i] \in Seq(L)
               /\ \A j \in 1..Len(rows[i]) : rows[i][j] \in L /\ end[rows[i][j]] = nodes[i]
               /\ NoRepeats(rows[i])
               /\ \A l \in L : end[l] = nodes[i] => \E j \in 1..Len(rows[i]) : rows[i][j] = l
    <2> DEFINE S == at(i)
               s == Sorted(S)
    <2>1. S \in SUBSET L /\ S \subseteq Nat
      OBVIOUS
    <2>2. IsFiniteSet(S)
      <3> HIDE DEF S
      <3> QED BY <2>1, FS_Subset
    <2>3. /\ Cardinality(S) \in Nat /\ s \in [1..Cardinality(S) -> S]
          /\ \A k, j \in 1..Cardinality(S) : s[k] = s[j] => k = j
          /\ \A x \in S : \E k \in 1..Cardinality(S) : s[k] = x
      <3> HIDE DEF S
      <3> QED BY <2>1, <2>2, SortedIs
    <2>4. rows[i] = s
      OBVIOUS
    <2> HIDE DEF s
    <2>5. s \in Seq(S) /\ Len(s) = Cardinality(S)
      <3> HIDE DEF S
      <3> QED BY <2>3
    <2>6. s \in Seq(L) /\ \A j \in 1..Len(s) : s[j] \in S
      <3> HIDE DEF S
      <3>1. s \in [1..Cardinality(S) -> L]
        BY <2>1, <2>3
      <3> QED BY <2>3, <2>5, <3>1
    <2>7. NoRepeats(s)
      <3> HIDE DEF S
      <3> QED BY <2>3, <2>5 DEF NoRepeats
    <2>8. \A l \in S : \E j \in 1..Len(s) : s[j] = l
      <3> HIDE DEF S
      <3> QED BY <2>3, <2>5
    <2> QED BY <2>4, <2>6, <2>7, <2>8
  <1>2. rows \in Seq(Seq(L)) /\ Len(rows) = c
    <2>1. rows = [i \in 1..c |-> rows[i]]
      OBVIOUS
    <2>2. rows \in [1..c -> Seq(L)]
      BY <1>1, <2>1
    <2> QED BY <2>2
  <1> QED BY <1>1, <1>2 DEF RowsByEnd

\* The rows of the links L by their end at a node, one behind the other: every link is
\* there once, and a node's row has the links that end there.
IsHalf(rows, all, c, nodes, L, end) ==
  /\ all \in Seq(L) /\ NoRepeats(all) /\ RangeOf(all) = L
  /\ \A i \in 1..c :
       /\ Row(FirstOut(rows), i) \in Seq(1..Len(all))
       /\ RangeOf(Row(FirstOut(rows), i)) = {k \in 1..Len(all) : end[all[k]] = nodes[i]}

\* One half of the graph: every link once, in the row of its node.
LEMMA HalfIs ==
  ASSUME NEW c \in Nat, NEW nodes, \A i, j \in 1..c : nodes[i] = nodes[j] => i = j,
         NEW L, NEW end, \A l \in L : \E i \in 1..c : nodes[i] = end[l],
         NEW rows, RowsByEnd(rows, c, nodes, L, end)
  PROVE  IsHalf(rows, InARow(rows), c, nodes, L, end)
PROOF
  <1> DEFINE all == InARow(rows)
             first == FirstOut(rows)
  <1>2. rows \in Seq(Seq(L)) /\ Len(rows) = c
    BY DEF RowsByEnd
  <1>1. ASSUME NEW i \in 1..c
        PROVE  /\ rows[i] \in Seq(L) /\ NoRepeats(rows[i])
               /\ \A j \in 1..Len(rows[i]) : end[rows[i][j]] = nodes[i]
               /\ \A l \in L : end[l] = nodes[i] => \E j \in 1..Len(rows[i]) : rows[i][j] = l
    <2>1. rows[i] \in Seq(L)
      BY <1>2
    <2> QED BY <2>1, Zenon DEF RowsByEnd
  <1>3. all \in Seq(L) /\ IsInARow(rows, first, all)
    BY <1>2, RowsAre
  <1> HIDE DEF all, first
  <1>4. Len(all) \in Nat /\ \A k \in 1..Len(all) : all[k] \in L
    BY <1>3
  <1>5. ASSUME NEW i \in 1..c
        PROVE  /\ first[i] \in Nat \ {0} /\ first[i + 1] = first[i] + Len(rows[i]) /\ Len(rows[i]) \in Nat
               /\ \A j \in 1..Len(rows[i]) :
                    first[i] + j - 1 \in 1..Len(all) /\ all[first[i] + j - 1] = rows[i][j]
    <2>1. i \in 1..Len(rows)
      BY <1>2
    <2>2. Len(rows[i]) \in Nat
      BY <1>1
    <2>3. first[i] \in Nat \ {0} /\ first[i + 1] = first[i] + Len(rows[i])
      BY <1>3, <2>1, Zenon DEF IsInARow
    <2>4. \A j \in 1..Len(rows[i]) :
            first[i] + j - 1 \in 1..Len(all) /\ all[first[i] + j - 1] = rows[i][j]
      BY <1>3, <2>1, Zenon DEF IsInARow
    <2> QED BY <2>2, <2>3, <2>4
  <1>6. ASSUME NEW k \in 1..Len(all)
        PROVE  \E i \in 1..c : \E j \in 1..Len(rows[i]) :
                 k = first[i] + j - 1 /\ all[k] = rows[i][j] /\ end[all[k]] = nodes[i]
    <2>1. PICK i \in 1..c : \E j \in 1..Len(rows[i]) : k = first[i] + j - 1
      BY <1>2, <1>3 DEF IsInARow
    <2>2. PICK j \in 1..Len(rows[i]) : k = first[i] + j - 1
      BY <2>1
    <2>3. all[k] = rows[i][j]
      BY <1>5, <2>2
    <2>4. end[all[k]] = nodes[i]
      BY <1>1, <2>3
    <2>5. \E h \in 1..Len(rows[i]) : k = first[i] + h - 1 /\ all[k] = rows[i][h] /\ end[all[k]] = nodes[i]
      BY <2>2, <2>3, <2>4
    <2> QED BY <2>5
  <1>7. NoRepeats(all)
    <2> SUFFICES ASSUME NEW k \in 1..Len(all), NEW m \in 1..Len(all), all[k] = all[m] PROVE k = m
      BY DEF NoRepeats
    <2>1. PICK i \in 1..c : \E j \in 1..Len(rows[i]) :
            k = first[i] + j - 1 /\ all[k] = rows[i][j] /\ end[all[k]] = nodes[i]
      BY <1>6
    <2>2. PICK j \in 1..Len(rows[i]) : k = first[i] + j - 1 /\ all[k] = rows[i][j]
      BY <2>1
    <2>3. PICK i2 \in 1..c : \E j2 \in 1..Len(rows[i2]) :
            m = first[i2] + j2 - 1 /\ all[m] = rows[i2][j2] /\ end[all[m]] = nodes[i2]
      BY <1>6
    <2>4. PICK j2 \in 1..Len(rows[i2]) : m = first[i2] + j2 - 1 /\ all[m] = rows[i2][j2]
      BY <2>3
    <2>5. i = i2
      BY <2>1, <2>3
    <2>6. j = j2
      <3>1. NoRepeats(rows[i]) /\ j2 \in 1..Len(rows[i]) /\ rows[i][j] = rows[i][j2]
        BY <1>1, <2>2, <2>4, <2>5
      <3> QED BY <3>1 DEF NoRepeats
    <2> QED BY <2>2, <2>4, <2>5, <2>6
  <1>8. RangeOf(all) = L
    <2>1. ASSUME NEW l \in L PROVE l \in RangeOf(all)
      <3>1. PICK i \in 1..c : nodes[i] = end[l]
        OBVIOUS
      <3>2. PICK j \in 1..Len(rows[i]) : rows[i][j] = l
        BY <1>1, <3>1
      <3>3. first[i] + j - 1 \in 1..Len(all) /\ all[first[i] + j - 1] = l
        BY <1>5, <3>2
      <3> QED BY <3>3 DEF RangeOf
    <2>2. RangeOf(all) \subseteq L
      BY <1>4 DEF RangeOf
    <2> QED BY <2>1, <2>2
  <1>9. ASSUME NEW i \in 1..c
        PROVE  /\ Row(first, i) \in Seq(1..Len(all))
               /\ RangeOf(Row(first, i)) = {k \in 1..Len(all) : end[all[k]] = nodes[i]}
    <2> DEFINE m == Len(rows[i])
               row == [j \in 1..m |-> first[i] + j - 1]
    <2>a. m \in Nat /\ first[i] \in Nat /\ first[i + 1] = first[i] + m
      BY <1>5
    <2>1. m \in Nat /\ first[i] \in Nat /\ first[i + 1] - first[i] = m
      BY <2>a
    <2>2. Row(first, i) = row
      BY <2>1 DEF Row
    <2>3. \A j \in 1..m : first[i] + j - 1 \in 1..Len(all) /\ all[first[i] + j - 1] = rows[i][j]
      BY <1>5
    <2>4. row \in Seq(1..Len(all)) /\ Len(row) = m
      <3>1. \A j \in 1..m : first[i] + j - 1 \in 1..Len(all)
        BY <2>3
      <3> HIDE DEF m
      <3>2. row \in [1..m -> 1..Len(all)]
        BY <3>1
      <3> HIDE DEF row
      <3> QED BY <2>1, <3>2
    <2>5. \A j \in 1..m : row[j] = first[i] + j - 1
      OBVIOUS
    <2> HIDE DEF row
    <2>6. ASSUME NEW k \in RangeOf(row) PROVE k \in 1..Len(all) /\ end[all[k]] = nodes[i]
      <3>1. PICK j \in 1..m : k = first[i] + j - 1
        BY <2>4, <2>5 DEF RangeOf
      <3>2. k \in 1..Len(all) /\ all[k] = rows[i][j]
        BY <2>3, <3>1
      <3>3. end[rows[i][j]] = nodes[i]
        BY <1>1
      <3> QED BY <3>2, <3>3
    <2>7. ASSUME NEW k \in 1..Len(all), end[all[k]] = nodes[i] PROVE k \in RangeOf(row)
      <3>1. PICK i2 \in 1..c : \E j \in 1..Len(rows[i2]) :
              k = first[i2] + j - 1 /\ all[k] = rows[i2][j] /\ end[all[k]] = nodes[i2]
        BY <1>6
      <3>2. i2 = i
        BY <2>7, <3>1
      <3>3. PICK j \in 1..m : k = first[i] + j - 1
        BY <3>1, <3>2
      <3> QED BY <2>4, <2>5, <3>3 DEF RangeOf
    <2> QED BY <2>2, <2>4, <2>6, <2>7
  <1>10. IsHalf(rows, all, c, nodes, L, end)
    BY <1>3, <1>7, <1>8, <1>9, Zenon DEF IsHalf, first
  <1> QED BY <1>10 DEF all

-----------------------------------------------------------------------------
(* The graph.                                                               *)

\* The links that convert_network_for_mode takes.
LinksOf(n, mode) == {l \in DOMAIN n : mode = AnyMode \/ ContainsMode(n[l], mode)}

\* What stands at an index of the graph.
NodeOf(g, i) == g.node_id_by_index[i]
LinkOf(g, k) == g.forward_link_id_by_index[k]
Edges(g) == 1..Len(g.forward_link_id_by_index)

\* Nodes and links of n have an index each, an edge leads from its link's start to its
\* end, and a node has the edges that start or end at it.
IsGraphOf(g, n, L) ==
  /\ NodeIndices(g) = 1..Cardinality(NodeIdsOf(n))
  /\ \A i \in NodeIndices(g) : NodeOf(g, i) \in NodeIdsOf(n)
  /\ \A i, j \in NodeIndices(g) : NodeOf(g, i) = NodeOf(g, j) => i = j
  /\ \A x \in NodeIdsOf(n) : \E i \in NodeIndices(g) : NodeOf(g, i) = x
  /\ DOMAIN g.forward_link_id_by_index = Edges(g)
  /\ \A k \in Edges(g) : LinkOf(g, k) \in L
  /\ \A k, j \in Edges(g) : LinkOf(g, k) = LinkOf(g, j) => k = j
  /\ \A l \in L : \E k \in Edges(g) : LinkOf(g, k) = l
  /\ \A k \in Edges(g) :
       /\ EndNodeAsIdx(g, k) \in NodeIndices(g)
       /\ NodeOf(g, EndNodeAsIdx(g, k)) = n[LinkOf(g, k)].to
       /\ StartNodeAsIdx(g, k) \in NodeIndices(g)
       /\ NodeOf(g, StartNodeAsIdx(g, k)) = n[LinkOf(g, k)].from
  /\ \A i \in NodeIndices(g) :
       /\ OutgoingEdgesAsIdx(g, i) \in Seq(Edges(g))
       /\ RangeOf(OutgoingEdgesAsIdx(g, i)) = {k \in Edges(g) : n[LinkOf(g, k)].from = NodeOf(g, i)}
       /\ IncomingEdgesAsIdx(g, i) \in Seq(Edges(g))
       /\ RangeOf(IncomingEdgesAsIdx(g, i)) = {k \in Edges(g) : n[LinkOf(g, k)].to = NodeOf(g, i)}

\* Looking up what is there finds where it is.
LEMMA IndexInIs ==
  ASSUME NEW q, NEW i \in DOMAIN q
  PROVE  IndexIn(q, q[i]) \in DOMAIN q /\ q[IndexIn(q, q[i])] = q[i]
  BY DEF IndexIn

\* The ids of a network's nodes are finitely many numbers.
LEMMA NodeIdsAre ==
  ASSUME NEW n, IsNetwork(n)
  PROVE  /\ NodeIdsOf(n) \subseteq Nat /\ IsFiniteSet(NodeIdsOf(n)) /\ Cardinality(NodeIdsOf(n)) \in Nat
         /\ \A l \in DOMAIN n : n[l].from \in NodeIdsOf(n) /\ n[l].to \in NodeIdsOf(n)
PROOF
  <1> DEFINE A == {n[l].from : l \in DOMAIN n}
             B == {n[l].to : l \in DOMAIN n}
             f == [l \in DOMAIN n |-> n[l].from]
             t == [l \in DOMAIN n |-> n[l].to]
  <1>1. f \in Surjection(DOMAIN n, A) /\ t \in Surjection(DOMAIN n, B)
    BY DEF Surjection
  <1>2. IsFiniteSet(DOMAIN n)
    BY DEF IsNetwork
  <1>3. IsFiniteSet(A) /\ IsFiniteSet(B)
    <2> HIDE DEF A, B, f, t
    <2> QED BY <1>1, <1>2, FS_Surjection
  <1>4. IsFiniteSet(A \cup B)
    <2> HIDE DEF A, B
    <2> QED BY <1>3, FS_Union
  <1>5. NodeIdsOf(n) = A \cup B
    BY DEF NodeIdsOf
  <1>6. Cardinality(NodeIdsOf(n)) \in Nat
    BY <1>4, <1>5, FS_CardinalityType
  <1>7. NodeIdsOf(n) \subseteq Nat
    BY <1>5 DEF IsNetwork
  <1> QED BY <1>4, <1>5, <1>6, <1>7

\* convert_network_for_mode builds the graph of the network's links for the mode.
LEMMA GraphIs ==
  ASSUME NEW n, IsNetwork(n), NEW mode
  PROVE  IsGraphOf(ConvertNetworkForMode(n, mode), n, LinksOf(n, mode))
PROOF
  <1> DEFINE V == NodeIdsOf(n)
             c == Cardinality(V)
             L == LinksOf(n, mode)
             nodes == Sorted(V)
             outLinks(i) == GetLinks(n, {l \in DOMAIN n : n[l].from = nodes[i]}, mode)
             inLinks(i) == GetLinks(n, {l \in DOMAIN n : n[l].to = nodes[i]}, mode)
             out == [i \in 1..c |-> outLinks(i)]
             in == [i \in 1..c |-> inLinks(i)]
             F == InARow(out)
             B == InARow(in)
             g == ConvertNetworkForMode(n, mode)
             from == [l \in L |-> n[l].from]
             to == [l \in L |-> n[l].to]
  <1>1. /\ V \subseteq Nat /\ IsFiniteSet(V) /\ c \in Nat
        /\ \A l \in DOMAIN n : n[l].from \in V /\ n[l].to \in V
    BY NodeIdsAre
  <1>2. /\ nodes \in [1..c -> V] /\ \A i, j \in 1..c : nodes[i] = nodes[j] => i = j
        /\ \A x \in V : \E i \in 1..c : nodes[i] = x
    <2> HIDE DEF V
    <2> QED BY <1>1, SortedIs
  <1>3. L \subseteq DOMAIN n /\ L \subseteq Nat /\ IsFiniteSet(L)
    <2>1. L \in SUBSET (DOMAIN n)
      BY DEF LinksOf
    <2>2. IsFiniteSet(DOMAIN n) /\ DOMAIN n \subseteq Nat
      BY DEF IsNetwork
    <2> QED BY <2>1, <2>2, FS_Subset
  <1>4. /\ g.node_id_by_index = nodes
        /\ g.forward_first_out = FirstOut(out) /\ g.forward_head = ForwardHead(n, nodes, F)
        /\ g.forward_link_id_by_index = F
        /\ g.backward_first_out = FirstOut(in) /\ g.backward_head = BackwardHead(n, nodes, B)
        /\ g.backward_link_id_by_index = B
    <2>1. DOMAIN nodes = 1..c
      BY <1>2
    <2> DEFINE h(x, y) == [node_id_by_index |-> nodes,
                           forward_first_out |-> FirstOut(x),
                           forward_head |-> ForwardHead(n, nodes, InARow(x)),
                           forward_link_id_by_index |-> InARow(x),
                           backward_first_out |-> FirstOut(y),
                           backward_head |-> BackwardHead(n, nodes, InARow(y)),
                           backward_link_id_by_index |-> InARow(y)]
    <2>2. g = h([i \in DOMAIN nodes |-> outLinks(i)], [i \in DOMAIN nodes |-> inLinks(i)])
      BY Zenon DEF ConvertNetworkForMode
    <2>3. g = h(out, in)
      BY <2>1, <2>2, Zenon
    <2> HIDE DEF g, out, in, nodes
    <2> QED BY <2>3
  <1>5. out = [i \in 1..c |-> Sorted({l \in L : from[l] = nodes[i]})]
    <2>1. ASSUME NEW i \in 1..c PROVE outLinks(i) = Sorted({l \in L : from[l] = nodes[i]})
      <3> HIDE DEF nodes, V, c
      <3>1. {l \in {x \in DOMAIN n : n[x].from = nodes[i]} : mode = AnyMode \/ ContainsMode(n[l], mode)}
              = {l \in L : from[l] = nodes[i]}
        BY DEF LinksOf
      <3> QED BY <3>1, Zenon DEF GetLinks
    <2> HIDE DEF nodes, outLinks, c, L, from
    <2> QED BY <2>1
  <1>6. in = [i \in 1..c |-> Sorted({l \in L : to[l] = nodes[i]})]
    <2>1. ASSUME NEW i \in 1..c PROVE inLinks(i) = Sorted({l \in L : to[l] = nodes[i]})
      <3> HIDE DEF nodes, V, c
      <3>1. {l \in {x \in DOMAIN n : n[x].to = nodes[i]} : mode = AnyMode \/ ContainsMode(n[l], mode)}
              = {l \in L : to[l] = nodes[i]}
        BY DEF LinksOf
      <3> QED BY <3>1, Zenon DEF GetLinks
    <2> HIDE DEF nodes, inLinks, c, L, to
    <2> QED BY <2>1
  <1>7. \A l \in L : /\ from[l] = n[l].from /\ to[l] = n[l].to
                     /\ \E i \in 1..c : nodes[i] = from[l]
                     /\ \E i \in 1..c : nodes[i] = to[l]
    <2> HIDE DEF nodes, L, V, c
    <2> QED BY <1>1, <1>2, <1>3
  <1> HIDE DEF nodes, L, V, c, out, in, from, to
  <1>8. /\ F \in Seq(L) /\ NoRepeats(F) /\ RangeOf(F) = L
        /\ \A i \in 1..c : /\ Row(FirstOut(out), i) \in Seq(1..Len(F))
                           /\ RangeOf(Row(FirstOut(out), i)) = {k \in 1..Len(F) : from[F[k]] = nodes[i]}
    <2>1. RowsByEnd(out, c, nodes, L, from)
      BY <1>1, <1>3, <1>5, SortedRows
    <2>2. /\ \A i, j \in 1..c : nodes[i] = nodes[j] => i = j
          /\ \A l \in L : \E i \in 1..c : nodes[i] = from[l]
      BY <1>2, <1>7
    <2>3. IsHalf(out, InARow(out), c, nodes, L, from)
      BY <1>1, <2>1, <2>2, HalfIs
    <2> QED BY <2>3, Zenon DEF F, IsHalf
  <1>9. /\ B \in Seq(L) /\ NoRepeats(B) /\ RangeOf(B) = L
        /\ \A i \in 1..c : /\ Row(FirstOut(in), i) \in Seq(1..Len(B))
                           /\ RangeOf(Row(FirstOut(in), i)) = {k \in 1..Len(B) : to[B[k]] = nodes[i]}
    <2>1. RowsByEnd(in, c, nodes, L, to)
      BY <1>1, <1>3, <1>6, SortedRows
    <2>2. /\ \A i, j \in 1..c : nodes[i] = nodes[j] => i = j
          /\ \A l \in L : \E i \in 1..c : nodes[i] = to[l]
      BY <1>2, <1>7
    <2>3. IsHalf(in, InARow(in), c, nodes, L, to)
      BY <1>1, <2>1, <2>2, HalfIs
    <2> QED BY <2>3, Zenon DEF B, IsHalf
  <1> HIDE DEF F, B, g
  <1>10. NodeIndices(g) = 1..c /\ Edges(g) = 1..Len(F) /\ DOMAIN F = 1..Len(F) /\ DOMAIN B = 1..Len(B)
    BY <1>2, <1>4, <1>8, <1>9 DEF NodeIndices, Edges
  <1>11. /\ \A i \in 1..c : NodeOf(g, i) = nodes[i]
         /\ \A k \in 1..Len(F) : LinkOf(g, k) = F[k] /\ F[k] \in L
    BY <1>4, <1>8 DEF NodeOf, LinkOf
  <1>12. ASSUME NEW x \in V PROVE IndexIn(nodes, x) \in 1..c /\ nodes[IndexIn(nodes, x)] = x
    <2>1. PICK i \in 1..c : nodes[i] = x
      BY <1>2
    <2>2. DOMAIN nodes = 1..c
      BY <1>2
    <2> QED BY <2>1, <2>2, IndexInIs
  <1>13. ASSUME NEW k \in 1..Len(F)
         PROVE  /\ IndexIn(B, F[k]) \in 1..Len(B) /\ B[IndexIn(B, F[k])] = F[k]
                /\ F[k] \in DOMAIN n
    <2>1. F[k] \in RangeOf(B) /\ F[k] \in DOMAIN n
      BY <1>3, <1>9, <1>11
    <2>2. PICK j \in 1..Len(B) : B[j] = F[k]
      BY <2>1 DEF RangeOf
    <2> QED BY <1>10, <2>1, <2>2, IndexInIs
  <1>14. ASSUME NEW k \in 1..Len(F)
         PROVE  /\ EndNodeAsIdx(g, k) \in 1..c /\ nodes[EndNodeAsIdx(g, k)] = n[F[k]].to
                /\ StartNodeAsIdx(g, k) \in 1..c /\ nodes[StartNodeAsIdx(g, k)] = n[F[k]].from
    <2>1. EndNodeAsIdx(g, k) = IndexIn(nodes, n[F[k]].to)
      BY <1>4, <1>10 DEF EndNodeAsIdx, ForwardHead
    <2> DEFINE j == IndexIn(B, F[k])
    <2>2. j \in 1..Len(B) /\ B[j] = F[k]
      BY <1>13
    <2>3. StartNodeAsIdx(g, k) = BackwardHead(n, nodes, B)[j]
      BY <1>4 DEF StartNodeAsIdx, BackwardLinkIdx
    <2> HIDE DEF j
    <2>4. StartNodeAsIdx(g, k) = IndexIn(nodes, n[B[j]].from)
      BY <1>10, <2>2, <2>3 DEF BackwardHead
    <2>5. n[F[k]].to \in V /\ n[F[k]].from \in V
      BY <1>1, <1>13
    <2> QED BY <1>12, <2>1, <2>2, <2>4, <2>5
  <1>15. ASSUME NEW i \in 1..c
         PROVE  /\ OutgoingEdgesAsIdx(g, i) \in Seq(1..Len(F))
                /\ RangeOf(OutgoingEdgesAsIdx(g, i)) = {k \in 1..Len(F) : n[F[k]].from = nodes[i]}
    <2>1. OutgoingEdgesAsIdx(g, i) = Row(FirstOut(out), i)
      BY <1>4 DEF OutgoingEdgesAsIdx
    <2>2. {k \in 1..Len(F) : from[F[k]] = nodes[i]} = {k \in 1..Len(F) : n[F[k]].from = nodes[i]}
      BY <1>7, <1>11
    <2> QED BY <1>8, <2>1, <2>2
  <1>16. ASSUME NEW i \in 1..c
         PROVE  /\ IncomingEdgesAsIdx(g, i) \in Seq(1..Len(F))
                /\ RangeOf(IncomingEdgesAsIdx(g, i)) = {k \in 1..Len(F) : n[F[k]].to = nodes[i]}
    <2> DEFINE row == Row(FirstOut(in), i)
               e == [j \in 1..Len(row) |-> IndexIn(F, B[row[j]])]
    <2>1. row \in Seq(1..Len(B)) /\ RangeOf(row) = {k \in 1..Len(B) : to[B[k]] = nodes[i]}
      BY <1>9
    <2>2. IncomingEdgesAsIdx(g, i) = e
      <3>1. DOMAIN row = 1..Len(row)
        BY <2>1
      <3>2. IncomingEdgesAsIdx(g, i) = [j \in DOMAIN row |-> LinkIdx(g, g.backward_link_id_by_index[row[j]])]
        BY <1>4, Zenon DEF IncomingEdgesAsIdx
      <3>3. \A j \in 1..Len(row) : LinkIdx(g, g.backward_link_id_by_index[row[j]]) = IndexIn(F, B[row[j]])
        BY <1>4 DEF LinkIdx
      <3> HIDE DEF row
      <3> QED BY <3>1, <3>2, <3>3
    <2> HIDE DEF row
    <2>3. ASSUME NEW l \in L PROVE IndexIn(F, l) \in 1..Len(F) /\ F[IndexIn(F, l)] = l
      <3>1. PICK k \in 1..Len(F) : F[k] = l
        BY <1>8 DEF RangeOf
      <3> QED BY <1>10, <3>1, IndexInIs
    <2>4. ASSUME NEW j \in 1..Len(row)
          PROVE  /\ row[j] \in 1..Len(B) /\ B[row[j]] \in L /\ n[B[row[j]]].to = nodes[i]
                 /\ e[j] = IndexIn(F, B[row[j]])
      <3>1. row[j] \in RangeOf(row)
        BY DEF RangeOf
      <3>2. row[j] \in 1..Len(B) /\ to[B[row[j]]] = nodes[i]
        BY <2>1, <3>1
      <3>3. B[row[j]] \in L
        BY <1>9, <3>2
      <3> QED BY <1>7, <3>2, <3>3
    <2>5. ASSUME NEW j \in 1..Len(row)
          PROVE  e[j] \in 1..Len(F) /\ F[e[j]] = B[row[j]] /\ n[F[e[j]]].to = nodes[i]
      BY <2>3, <2>4
    <2>6. Len(row) \in Nat
      BY <2>1
    <2>7. e \in Seq(1..Len(F)) /\ Len(e) = Len(row)
      <3>1. e = [j \in 1..Len(row) |-> e[j]]
        OBVIOUS
      <3> HIDE DEF e
      <3>2. e \in [1..Len(row) -> 1..Len(F)]
        BY <2>5, <3>1
      <3> QED BY <2>6, <3>2
    <2> HIDE DEF e
    <2>8. ASSUME NEW k \in 1..Len(F), n[F[k]].to = nodes[i] PROVE k \in RangeOf(e)
      <3>1. PICK b \in 1..Len(B) : B[b] = F[k]
        BY <1>13
      <3>2. to[B[b]] = nodes[i]
        BY <1>7, <1>11, <2>8, <3>1
      <3>3. b \in RangeOf(row)
        BY <2>1, <3>2
      <3>4. PICK j \in 1..Len(row) : row[j] = b
        BY <3>3 DEF RangeOf
      <3>5. e[j] \in 1..Len(F) /\ F[e[j]] = F[k]
        BY <2>5, <3>1, <3>4
      <3>6. e[j] = k
        BY <1>8, <3>5 DEF NoRepeats
      <3> QED BY <2>7, <3>4, <3>6 DEF RangeOf
    <2>9. ASSUME NEW k \in RangeOf(e) PROVE k \in 1..Len(F) /\ n[F[k]].to = nodes[i]
      <3>1. PICK j \in 1..Len(row) : e[j] = k
        BY <2>7 DEF RangeOf
      <3> QED BY <2>5, <3>1
    <2> QED BY <2>2, <2>7, <2>8, <2>9
  <1>17. \A k, j \in 1..Len(F) : F[k] = F[j] => k = j
    BY <1>8 DEF NoRepeats
  <1>18. \A l \in L : \E k \in 1..Len(F) : F[k] = l
    BY <1>8 DEF RangeOf
  <1>19. DOMAIN g.forward_link_id_by_index = 1..Len(F)
    BY <1>4, <1>10
  <1>20. \A i \in 1..c : NodeOf(g, i) \in V
    BY <1>2, <1>11
  <1>21. \A k \in 1..Len(F) : LinkOf(g, k) \in L
    BY <1>11
  <1> QED
    <2>1. \A k \in 1..Len(F) :
            /\ EndNodeAsIdx(g, k) \in 1..c /\ NodeOf(g, EndNodeAsIdx(g, k)) = n[LinkOf(g, k)].to
            /\ StartNodeAsIdx(g, k) \in 1..c /\ NodeOf(g, StartNodeAsIdx(g, k)) = n[LinkOf(g, k)].from
      BY <1>11, <1>14
    <2>2. \A i \in 1..c :
            /\ {k \in 1..Len(F) : n[F[k]].from = nodes[i]} = {k \in 1..Len(F) : n[LinkOf(g, k)].from = NodeOf(g, i)}
            /\ {k \in 1..Len(F) : n[F[k]].to = nodes[i]} = {k \in 1..Len(F) : n[LinkOf(g, k)].to = NodeOf(g, i)}
      BY <1>11
    <2>3. /\ \A i, j \in 1..c : NodeOf(g, i) = NodeOf(g, j) => i = j
          /\ \A x \in V : \E i \in 1..c : NodeOf(g, i) = x
      BY <1>2, <1>11
    <2>4. /\ \A k, j \in 1..Len(F) : LinkOf(g, k) = LinkOf(g, j) => k = j
          /\ \A l \in L : \E k \in 1..Len(F) : LinkOf(g, k) = l
      BY <1>11, <1>17, <1>18
    <2>5. /\ NodeIndices(g) = 1..Cardinality(NodeIdsOf(n))
          /\ \A i \in NodeIndices(g) : NodeOf(g, i) \in NodeIdsOf(n)
          /\ \A x \in NodeIdsOf(n) : \E i \in NodeIndices(g) : NodeOf(g, i) = x
      BY <1>10, <1>20, <2>3 DEF V, c
    <2>6. \A i, j \in NodeIndices(g) : NodeOf(g, i) = NodeOf(g, j) => i = j
      BY <1>10, <2>3
    <2>7. DOMAIN g.forward_link_id_by_index = Edges(g)
      BY <1>10, <1>19
    <2>8. /\ \A k \in Edges(g) : LinkOf(g, k) \in L
          /\ \A k, j \in Edges(g) : LinkOf(g, k) = LinkOf(g, j) => k = j
          /\ \A l \in L : \E k \in Edges(g) : LinkOf(g, k) = l
      BY <1>10, <1>21, <2>4
    <2>9. \A k \in Edges(g) :
            /\ EndNodeAsIdx(g, k) \in NodeIndices(g)
            /\ NodeOf(g, EndNodeAsIdx(g, k)) = n[LinkOf(g, k)].to
            /\ StartNodeAsIdx(g, k) \in NodeIndices(g)
            /\ NodeOf(g, StartNodeAsIdx(g, k)) = n[LinkOf(g, k)].from
      BY <1>10, <2>1
    <2>10. \A i \in NodeIndices(g) :
             /\ OutgoingEdgesAsIdx(g, i) \in Seq(Edges(g))
             /\ RangeOf(OutgoingEdgesAsIdx(g, i)) = {k \in Edges(g) : n[LinkOf(g, k)].from = NodeOf(g, i)}
             /\ IncomingEdgesAsIdx(g, i) \in Seq(Edges(g))
             /\ RangeOf(IncomingEdgesAsIdx(g, i)) = {k \in Edges(g) : n[LinkOf(g, k)].to = NodeOf(g, i)}
      <3> SUFFICES ASSUME NEW i \in 1..c
                   PROVE  /\ OutgoingEdgesAsIdx(g, i) \in Seq(1..Len(F))
                          /\ RangeOf(OutgoingEdgesAsIdx(g, i)) = {k \in 1..Len(F) : n[LinkOf(g, k)].from = NodeOf(g, i)}
                          /\ IncomingEdgesAsIdx(g, i) \in Seq(1..Len(F))
                          /\ RangeOf(IncomingEdgesAsIdx(g, i)) = {k \in 1..Len(F) : n[LinkOf(g, k)].to = NodeOf(g, i)}
        BY <1>10, Zenon
      <3>1. /\ {k \in 1..Len(F) : n[F[k]].from = nodes[i]} = {k \in 1..Len(F) : n[LinkOf(g, k)].from = NodeOf(g, i)}
            /\ {k \in 1..Len(F) : n[F[k]].to = nodes[i]} = {k \in 1..Len(F) : n[LinkOf(g, k)].to = NodeOf(g, i)}
        BY <2>2
      <3> QED BY <1>15, <1>16, <3>1
    <2>11. IsGraphOf(g, n, L)
      BY <2>5, <2>6, <2>7, <2>8, <2>9, <2>10, Zenon DEF IsGraphOf
    <2> QED BY <2>11, Zenon DEF g, L

\* The network, the request and the graph stay what they are.
GraphInv ==
  /\ net \in Networks /\ request \in Requests /\ heuristic \in Heuristics
  /\ graph = ConvertNetworkForMode(net, request.mode)

\* Init, and every step, keep the graph the one of the network.
LEMMA GraphInit == AStarInit => GraphInv
  BY Zenon DEF AStarInit, GraphInv

\* No step changes the network, the graph or the request.
LEMMA GraphStep == GraphInv /\ [AStarNext]_astarVars => GraphInv'
PROOF
  <1> SUFFICES ASSUME GraphInv, [AStarNext]_astarVars PROVE GraphInv'
    OBVIOUS
  <1>1. UNCHANGED <<net, graph, heuristic, request>>
    <2>1. CASE AStarStep
      BY <2>1 DEF AStarStep, NewDijkstra, NewAlt, LandmarkSearchDone, LandmarkBackward,
                  CalcLeastCostPath, RouteSearchDone, ExtractLink, ReturnPath, Settle
    <2>2. CASE UNCHANGED astarVars
      BY <2>2 DEF astarVars
    <2> QED BY <2>1, <2>2 DEF AStarNext, AStarFinished
  <1> QED BY <1>1 DEF GraphInv

\* The graph is always that of the network.
LEMMA GraphInvariant == AStarSpec => []GraphInv
  BY GraphInit, GraphStep, PTL DEF AStarSpec

\* What the other lemmas use of the graph.
LEMMA GraphFits == GraphInv => IsNetwork(net) /\ IsGraphOf(graph, net, ModeLinks)
PROOF
  <1> SUFFICES ASSUME GraphInv PROVE IsNetwork(net) /\ IsGraphOf(graph, net, ModeLinks)
    OBVIOUS
  <1>1. IsNetwork(net)
    BY AStarAssumption DEF GraphInv
  <1>2. ModeLinks = LinksOf(net, request.mode)
    BY DEF ModeLinks, LinksOf, ContainsMode
  <1>3. graph = ConvertNetworkForMode(net, request.mode)
    BY DEF GraphInv
  <1> QED BY <1>1, <1>2, <1>3, GraphIs

\* A link of the mode is found by its id, and so are its nodes.
LEMMA LinkFound ==
  ASSUME IsGraphOf(graph, net, ModeLinks), NEW l \in ModeLinks
  PROVE  /\ HasLink(graph, l) /\ LinkIdx(graph, l) \in Edges(graph)
         /\ LinkOf(graph, LinkIdx(graph, l)) = l
         /\ StartNode(graph, l) = net[l].from /\ EndNode(graph, l) = net[l].to
PROOF
  <1> DEFINE k == LinkIdx(graph, l)
  <1>1. PICK j \in Edges(graph) : LinkOf(graph, j) = l
    BY DEF IsGraphOf
  <1>2. DOMAIN graph.forward_link_id_by_index = Edges(graph)
    BY DEF IsGraphOf
  <1>3. HasLink(graph, l)
    BY <1>1, <1>2 DEF HasLink, LinkOf
  <1>4. k \in Edges(graph) /\ LinkOf(graph, k) = l
    BY <1>1, <1>2, IndexInIs DEF LinkIdx, LinkOf
  <1> HIDE DEF k
  <1>5. /\ NodeOf(graph, StartNodeAsIdx(graph, k)) = net[l].from
        /\ NodeOf(graph, EndNodeAsIdx(graph, k)) = net[l].to
    BY <1>4, Zenon DEF IsGraphOf
  <1>6. StartNode(graph, l) = net[l].from /\ EndNode(graph, l) = net[l].to
    BY <1>5, Zenon DEF StartNode, EndNode, NodeOf, k
  <1> QED BY <1>3, <1>4, <1>6 DEF k

\* For every network and mode: the graph has the links that allow the mode, once from
\* their start node and once from their end node, and no others.
THEOREM GraphIsOfNetwork == AStarSpec => []GraphOfNetwork
PROOF
  <1>1. GraphInv => GraphOfNetwork
    <2> SUFFICES ASSUME GraphInv PROVE GraphOfNetwork
      OBVIOUS
    <2>1. IsGraphOf(graph, net, ModeLinks)
      BY GraphFits
    <2>2. ASSUME NEW l \in DOMAIN net PROVE HasLink(graph, l) <=> l \in ModeLinks
      <3>1. ASSUME HasLink(graph, l) PROVE l \in ModeLinks
        <4>1. PICK k \in DOMAIN graph.forward_link_id_by_index : LinkOf(graph, k) = l
          BY <3>1 DEF HasLink, LinkOf
        <4> QED BY <2>1, <4>1, Zenon DEF IsGraphOf
      <3> QED BY <2>1, <3>1, LinkFound
    <2>3. \A l \in ModeLinks : StartNode(graph, l) = net[l].from /\ EndNode(graph, l) = net[l].to
      BY <2>1, LinkFound
    <2>4. ASSUME NEW i \in NodeIndices(graph)
          PROVE  /\ {graph.forward_link_id_by_index[k] : k \in Range(OutgoingEdgesAsIdx(graph, i))} =
                      {l \in ModeLinks : net[l].from = graph.node_id_by_index[i]}
                 /\ {graph.forward_link_id_by_index[k] : k \in Range(IncomingEdgesAsIdx(graph, i))} =
                      {l \in ModeLinks : net[l].to = graph.node_id_by_index[i]}
      <3>1. /\ OutgoingEdgesAsIdx(graph, i) \in Seq(Edges(graph))
            /\ RangeOf(OutgoingEdgesAsIdx(graph, i)) = {k \in Edges(graph) : net[LinkOf(graph, k)].from = NodeOf(graph, i)}
            /\ IncomingEdgesAsIdx(graph, i) \in Seq(Edges(graph))
            /\ RangeOf(IncomingEdgesAsIdx(graph, i)) = {k \in Edges(graph) : net[LinkOf(graph, k)].to = NodeOf(graph, i)}
        BY <2>1, Zenon DEF IsGraphOf
      <3>2. ASSUME NEW e \in Seq(Edges(graph)) PROVE Range(e) = RangeOf(e)
        BY DEF Range, RangeOf
      <3>3. /\ \A k \in Edges(graph) : LinkOf(graph, k) \in ModeLinks
            /\ \A l \in ModeLinks : \E k \in Edges(graph) : LinkOf(graph, k) = l
        BY <2>1, Zenon DEF IsGraphOf
      <3>4. {LinkOf(graph, k) : k \in {j \in Edges(graph) : net[LinkOf(graph, j)].from = NodeOf(graph, i)}} =
              {l \in ModeLinks : net[l].from = NodeOf(graph, i)}
        BY <3>3
      <3>5. {LinkOf(graph, k) : k \in {j \in Edges(graph) : net[LinkOf(graph, j)].to = NodeOf(graph, i)}} =
              {l \in ModeLinks : net[l].to = NodeOf(graph, i)}
        BY <3>3
      <3>6. /\ Range(OutgoingEdgesAsIdx(graph, i)) = {k \in Edges(graph) : net[LinkOf(graph, k)].from = NodeOf(graph, i)}
            /\ Range(IncomingEdgesAsIdx(graph, i)) = {k \in Edges(graph) : net[LinkOf(graph, k)].to = NodeOf(graph, i)}
        BY <3>1, <3>2
      <3>7. /\ {LinkOf(graph, k) : k \in Range(OutgoingEdgesAsIdx(graph, i))} = {l \in ModeLinks : net[l].from = NodeOf(graph, i)}
            /\ {LinkOf(graph, k) : k \in Range(IncomingEdgesAsIdx(graph, i))} = {l \in ModeLinks : net[l].to = NodeOf(graph, i)}
        BY <3>4, <3>5, <3>6, Zenon
      <3> QED BY <3>7, Zenon DEF LinkOf, NodeOf
    <2> QED BY <2>2, <2>3, <2>4, Zenon DEF GraphOfNetwork
  <1> QED BY <1>1, GraphInvariant, PTL

-----------------------------------------------------------------------------
(* The reference.                                                           *)

\* The minimum of a set of numbers.
LEMMA MinIs ==
  ASSUME NEW S, S \subseteq Nat, S # {}
  PROVE  Min(S) \in S /\ \A y \in S : Min(S) <= y
PROOF
  <1>1. \E x \in S : \A y \in S : x <= y
    BY LeastNumber
  <1> QED BY <1>1 DEF Min

\* No way costs more with one link more allowed, or more than a way to a link's start
\* and the link.
LEMMA OneLinkMoreIs ==
  ASSUME IsNetwork(net), NEW L \in SUBSET (DOMAIN net), NEW w \in [L -> Nat],
         NEW d \in [NodeIdsOf(net) -> 0..Inf]
  PROVE  /\ OneLinkMore(d, w) \in [NodeIdsOf(net) -> 0..Inf]
         /\ \A x \in NodeIdsOf(net) : OneLinkMore(d, w)[x] <= d[x]
         /\ \A l \in L : OneLinkMore(d, w)[net[l].to] <= d[net[l].from] + w[l]
         /\ \A x \in NodeIdsOf(net) :
              \/ OneLinkMore(d, w)[x] = d[x]
              \/ \E l \in L : net[l].to = x /\ OneLinkMore(d, w)[x] = d[net[l].from] + w[l]
PROOF
  <1> DEFINE V == NodeIdsOf(net)
             by(x) == {l \in DOMAIN w : net[l].to = x}
             S(x) == {d[x]} \cup {d[net[l].from] + w[l] : l \in by(x)}
             e == OneLinkMore(d, w)
  <1>1. /\ \A l \in L : net[l].from \in V /\ net[l].to \in V
        /\ Inf \in Nat /\ DOMAIN w = L
    BY NodeIdsAre, AStarAssumption
  <1>2. ASSUME NEW x \in V
        PROVE  /\ e[x] \in S(x) /\ \A y \in S(x) : e[x] <= y
               /\ S(x) \subseteq Nat
    <2>1. ASSUME NEW l \in by(x) PROVE d[net[l].from] + w[l] \in Nat
      <3>1. d[net[l].from] \in Nat /\ w[l] \in Nat
        BY <1>1
      <3> QED BY <3>1
    <2>2. d[x] \in Nat
      BY <1>1
    <2>3. S(x) \subseteq Nat /\ S(x) # {}
      BY <2>1, <2>2
    <2>4. e = [z \in V |-> Min(S(z))]
      BY Zenon DEF OneLinkMore
    <2>5. e[x] = Min(S(x))
      <3> HIDE DEF e, S, V
      <3> QED BY <2>4
    <2> HIDE DEF S, e
    <2> QED BY <2>3, <2>5, MinIs
  <1>3. ASSUME NEW x \in V PROVE e[x] <= d[x] /\ e[x] \in Nat
    <2>1. d[x] \in S(x)
      OBVIOUS
    <2> HIDE DEF S, e, V
    <2> QED BY <1>2, <2>1
  <1>4. ASSUME NEW l \in L PROVE e[net[l].to] <= d[net[l].from] + w[l]
    <2>1. net[l].to \in V /\ l \in by(net[l].to)
      BY <1>1
    <2>2. d[net[l].from] + w[l] \in S(net[l].to)
      BY <2>1
    <2> HIDE DEF S, e, V
    <2> QED BY <1>2, <2>1, <2>2
  <1>5. ASSUME NEW x \in V
        PROVE  e[x] = d[x] \/ \E l \in L : net[l].to = x /\ e[x] = d[net[l].from] + w[l]
    <2>1. e[x] \in S(x)
      BY <1>2
    <2> HIDE DEF e, V
    <2> QED BY <1>1, <2>1
  <1>6. e \in [V -> 0..Inf]
    <2>1. e = [x \in V |-> e[x]]
      BY DEF OneLinkMore
    <2>2. \A x \in V : d[x] \in 0..Inf
      OBVIOUS
    <2> HIDE DEF e, V
    <2>3. \A x \in V : e[x] \in 0..Inf
      BY <1>1, <1>3, <2>2
    <2> QED BY <2>1, <2>3
  <1> HIDE DEF e
  <1> QED BY <1>3, <1>4, <1>5, <1>6 DEF e

\* D[k] are the least costs from `from` over at most k of the links L, w their costs.
IsLeast(D, from, L, w) ==
  /\ D \in [0..Cardinality(NodeIdsOf(net)) -> [NodeIdsOf(net) -> 0..Inf]]
  /\ \A x \in NodeIdsOf(net) : D[0][x] = IF x = from THEN 0 ELSE Inf
  /\ \A k \in 1..Cardinality(NodeIdsOf(net)) :
       /\ \A x \in NodeIdsOf(net) : D[k][x] <= D[k - 1][x]
       /\ \A l \in L : D[k][net[l].to] <= D[k - 1][net[l].from] + w[l]
       /\ \A x \in NodeIdsOf(net) :
            \/ D[k][x] = D[k - 1][x]
            \/ \E l \in L : net[l].to = x /\ D[k][x] = D[k - 1][net[l].from] + w[l]

\* There are such costs, and the reference is the last of them.
LEMMA LeastCostsAre ==
  ASSUME IsNetwork(net), NEW from, NEW L \in SUBSET (DOMAIN net), NEW w \in [L -> Nat]
  PROVE  \E D : IsLeast(D, from, L, w) /\ LeastCosts(from, w) = D[Cardinality(NodeIdsOf(net))]
PROOF
  <1> DEFINE n == Cardinality(NodeIdsOf(net))
             X == [NodeIdsOf(net) -> 0..Inf]
             x == [v \in NodeIdsOf(net) |-> IF v = from THEN 0 ELSE Inf]
             step == [p \in (1..n) \X X |-> OneLinkMore(p[2], w)]
             Def(h) == [i \in 0..n |-> IF i = 0 THEN [v \in NodeIdsOf(net) |-> IF v = from THEN 0 ELSE Inf] ELSE OneLinkMore(h[i - 1], w)]
             f == CHOOSE h : h = Def(h)
  <1>1. n \in Nat /\ x \in X
    BY NodeIdsAre, AStarAssumption
  <1>2. ASSUME NEW i \in 1..n, NEW y \in X PROVE OneLinkMore(y, w) \in X
    BY OneLinkMoreIs
  <1>3. step \in [(1..n) \X X -> X]
    <2>1. ASSUME NEW p \in (1..n) \X X PROVE OneLinkMore(p[2], w) \in X
      <3>1. p[1] \in 1..n /\ p[2] \in X
        OBVIOUS
      <3> HIDE DEF n, X
      <3> QED BY <1>2, <3>1
    <2> HIDE DEF n, X
    <2> QED BY <2>1
  <1>4. PICK g \in [0..n -> X] : IsRecursion(g, x, n, step)
    <2> HIDE DEF n, X, x, step
    <2> QED BY <1>1, <1>3, RecursionExists
  <1>5. g = Def(g)
    <2>1. \A i \in 0..n : g[i] = IF i = 0 THEN x ELSE step[<<i, g[i - 1]>>]
      <3> HIDE DEF n, X, x, step
      <3> QED BY <1>4 DEF IsRecursion
    <2>2. ASSUME NEW i \in 1..n PROVE step[<<i, g[i - 1]>>] = OneLinkMore(g[i - 1], w)
      <3>1. <<i, g[i - 1]>> \in (1..n) \X X
        <4> HIDE DEF n, X
        <4> QED BY <1>1
      <3> HIDE DEF n, X
      <3> QED BY <3>1
    <2>3. \A i \in 0..n : i = 0 \/ i \in 1..n
      BY <1>1
    <2>4. \A i \in 0..n : g[i] = IF i = 0 THEN [v \in NodeIdsOf(net) |-> IF v = from THEN 0 ELSE Inf] ELSE OneLinkMore(g[i - 1], w)
      <3> HIDE DEF n, X, step
      <3> QED BY <2>1, <2>2, <2>3
    <2> HIDE DEF n, X, x, step
    <2> QED BY <2>4
  <1>6. f = Def(f)
    <2> HIDE DEF Def
    <2> QED BY <1>5
  <1>7. \A i \in 0..n : f[i] = IF i = 0 THEN [v \in NodeIdsOf(net) |-> IF v = from THEN 0 ELSE Inf] ELSE OneLinkMore(f[i - 1], w)
    <2> HIDE DEF f, n
    <2> QED BY <1>6
  <1>8. LeastCosts(from, w) = f[n]
    BY Zenon DEF LeastCosts
  <1>9. \A i \in 0..n : f[i] \in X
    <2> DEFINE P == {i \in 0..n : f[i] \in X}
    <2> HIDE DEF f, X, n
    <2>1. 0 \in P
      BY <1>1, <1>7
    <2>2. ASSUME NEW i \in 1..n, i - 1 \in P PROVE i \in P
      <3>1. i \in 0..n /\ i # 0 /\ f[i - 1] \in X
        BY <1>1, <2>2
      <3>2. f[i] = OneLinkMore(f[i - 1], w)
        BY <1>7, <3>1
      <3>3. OneLinkMore(f[i - 1], w) \in X
        BY <1>2, <3>1
      <3> QED BY <3>1, <3>2, <3>3
    <2>3. \A i \in 0..n : i \in P
      <3> HIDE DEF P
      <3> QED BY <1>1, <2>1, <2>2, UpTo
    <2> QED BY <2>3
  <1>10. f \in [0..n -> X]
    <2>1. f = [i \in 0..n |-> f[i]]
      <3> HIDE DEF f, n
      <3> QED BY <1>6
    <2> HIDE DEF f, n, X, Def
    <2> QED BY <1>9, <2>1
  <1> HIDE DEF f, Def, step
  <1>11. f[0] = [v \in NodeIdsOf(net) |-> IF v = from THEN 0 ELSE Inf] /\ \A i \in 1..n : f[i] = OneLinkMore(f[i - 1], w)
    <2>1. 0 \in 0..n /\ \A i \in 1..n : i \in 0..n /\ i # 0
      BY <1>1
    <2> HIDE DEF n
    <2> QED BY <1>7, <2>1
  <1>12. ASSUME NEW k \in 1..n
         PROVE  /\ \A v \in NodeIdsOf(net) : f[k][v] <= f[k - 1][v]
                /\ \A l \in L : f[k][net[l].to] <= f[k - 1][net[l].from] + w[l]
                /\ \A v \in NodeIdsOf(net) :
                     \/ f[k][v] = f[k - 1][v]
                     \/ \E l \in L : net[l].to = v /\ f[k][v] = f[k - 1][net[l].from] + w[l]
    <2> DEFINE d == f[k - 1]
    <2>1. d \in [NodeIdsOf(net) -> 0..Inf] /\ f[k] = OneLinkMore(d, w)
      <3>1. k - 1 \in 0..n
        BY <1>1
      <3> HIDE DEF n
      <3> QED BY <1>9, <1>11, <3>1
    <2> HIDE DEF d
    <2>2. /\ \A v \in NodeIdsOf(net) : OneLinkMore(d, w)[v] <= d[v]
          /\ \A l \in L : OneLinkMore(d, w)[net[l].to] <= d[net[l].from] + w[l]
          /\ \A v \in NodeIdsOf(net) :
               \/ OneLinkMore(d, w)[v] = d[v]
               \/ \E l \in L : net[l].to = v /\ OneLinkMore(d, w)[v] = d[net[l].from] + w[l]
      BY <2>1, OneLinkMoreIs
    <2>3. /\ \A v \in NodeIdsOf(net) : f[k][v] <= d[v]
          /\ \A l \in L : f[k][net[l].to] <= d[net[l].from] + w[l]
          /\ \A v \in NodeIdsOf(net) :
               \/ f[k][v] = d[v]
               \/ \E l \in L : net[l].to = v /\ f[k][v] = d[net[l].from] + w[l]
      <3> DEFINE e == f[k]
      <3>1. e = OneLinkMore(d, w)
        BY <2>1
      <3> HIDE DEF e
      <3>2. /\ \A v \in NodeIdsOf(net) : e[v] <= d[v]
            /\ \A l \in L : e[net[l].to] <= d[net[l].from] + w[l]
            /\ \A v \in NodeIdsOf(net) :
                 \/ e[v] = d[v]
                 \/ \E l \in L : net[l].to = v /\ e[v] = d[net[l].from] + w[l]
        BY <2>2, <3>1
      <3> QED BY <3>2 DEF e
    <2> QED BY <2>3, Zenon DEF d
  <1>13. \A v \in NodeIdsOf(net) : f[0][v] = IF v = from THEN 0 ELSE Inf
    BY <1>11
  <1>14. IsLeast(f, from, L, w)
    BY <1>10, <1>12, <1>13, Zenon DEF IsLeast
  <1> QED BY <1>8, <1>14

-----------------------------------------------------------------------------
(* Costs.                                                                   *)

\* Whole seconds: a division falls with its divisor.
LEMMA QuotientIs ==
  ASSUME NEW a \in Nat, NEW b \in Nat \ {0}, NEW c \in Nat \ {0}, b <= c
  PROVE  a \div b \in Nat /\ a \div b <= a /\ a \div c <= a \div b
PROOF
  <1>1. ASSUME NEW e \in Nat \ {0}
        PROVE  /\ a \div e \in Nat /\ e * (a \div e) <= a /\ a < e * (a \div e) + e
    <2>1. a \div e \in Int /\ a % e \in 0..(e - 1) /\ a = e * (a \div e) + (a % e)
      OBVIOUS
    <2> QED BY <2>1
  <1> DEFINE p == a \div b
             q == a \div c
  <1>2. /\ p \in Nat /\ q \in Nat
        /\ b * p <= a /\ a < b * p + b /\ c * q <= a
    BY <1>1
  <1> HIDE DEF p, q
  <1>3. p <= b * p
    BY <1>2
  <1>4. b * q <= c * q
    BY <1>2
  <1>5. q <= p
    <2> SUFFICES ASSUME q >= p + 1 PROVE FALSE
      BY <1>2
    <2>1. b * q >= b * (p + 1)
      BY <1>2
    <2>2. b * (p + 1) = b * p + b
      BY <1>2
    <2> QED BY <1>2, <1>4, <2>1, <2>2
  <1>6. p <= a
    BY <1>2, <1>3
  <1> QED BY <1>2, <1>5, <1>6 DEF p, q

\* A vehicle takes a whole number of seconds, no more than the link's length, and no less
\* than without a maximum speed.
LEMMA TravelTimeIs ==
  ASSUME IsNetwork(net), NEW l \in DOMAIN net, NEW v \in {NoVehicle} \cup (Nat \ {0})
  PROVE  /\ LinkTravelTime(net[l], v) \in Nat
         /\ LinkTravelTime(net[l], v) <= net[l].length
         /\ LinkTravelTime(net[l], NoVehicle) <= LinkTravelTime(net[l], v)
PROOF
  <1> DEFINE a == net[l].length
             c == net[l].freespeed
             b == IF v = NoVehicle THEN c ELSE Min({v, c})
  <1>1. a \in Nat /\ c \in Nat \ {0}
    BY DEF IsNetwork
  <1>2. b \in Nat \ {0} /\ b <= c
    <2>1. CASE v = NoVehicle
      BY <1>1, <2>1
    <2>2. CASE v # NoVehicle
      <3>1. {v, c} \subseteq Nat /\ {v, c} # {}
        BY <1>1, <2>2
      <3>2. Min({v, c}) \in {v, c} /\ Min({v, c}) <= c
        BY <3>1, MinIs
      <3> QED BY <1>1, <2>2, <3>2
    <2> QED BY <2>1, <2>2
  <1>3. LinkTravelTime(net[l], v) = a \div b
    BY Zenon DEF LinkTravelTime
  <1>4. LinkTravelTime(net[l], NoVehicle) = a \div c
    BY DEF LinkTravelTime
  <1> HIDE DEF a, b, c
  <1>5. a \div b \in Nat /\ a \div b <= a /\ a \div c <= a \div b
    BY <1>1, <1>2, QuotientIs
  <1> QED BY <1>3, <1>4, <1>5, Zenon DEF a

\* What a search of a kind adds up, and where it goes on from a node.
CostOf(kind, l) ==
  IF kind = "route" THEN LinkTravelTime(net[l], request.vehicle) ELSE LinkMinTravelDisutility(net[l])
\* The costs of all links of the mode.
CostsOf(kind) == [l \in ModeLinks |-> CostOf(kind, l)]

\* Ids by index, and all indices.
Id(i) == NodeOf(graph, i)
Nodes == NodeIndices(graph)

\* In the direction of the search, l leads from u to m.
Leads(kind, u, l, m) ==
  /\ l \in ModeLinks
  /\ IF kind = "backward" THEN net[l].to = Id(u) /\ net[l].from = Id(m)
     ELSE net[l].from = Id(u) /\ net[l].to = Id(m)

\* Costs are numbers, and never below the minimum of the link.
LEMMA CostsAre ==
  ASSUME GraphInv, NEW kind
  PROVE  /\ ModeLinks \subseteq DOMAIN net /\ request.vehicle \in {NoVehicle} \cup (Nat \ {0})
         /\ CostsOf(kind) \in [ModeLinks -> Nat]
         /\ \A l \in ModeLinks : /\ CostsOf(kind)[l] = CostOf(kind, l) /\ CostOf(kind, l) \in Nat
                                 /\ CostOf(kind, l) <= net[l].length
                                 /\ LinkMinTravelDisutility(net[l]) <= CostOf(kind, l)
PROOF
  <1>1. IsNetwork(net)
    BY GraphFits
  <1>2. request.vehicle \in {NoVehicle} \cup (Nat \ {0})
    BY AStarAssumption DEF GraphInv
  <1>3. ModeLinks \subseteq DOMAIN net
    BY DEF ModeLinks
  <1>4. ASSUME NEW l \in ModeLinks
        PROVE  /\ CostOf(kind, l) \in Nat /\ CostOf(kind, l) <= net[l].length
               /\ LinkMinTravelDisutility(net[l]) <= CostOf(kind, l)
    <2>1. l \in DOMAIN net
      BY <1>3
    <2>2. /\ LinkTravelTime(net[l], request.vehicle) \in Nat
          /\ LinkTravelTime(net[l], request.vehicle) <= net[l].length
          /\ LinkTravelTime(net[l], NoVehicle) <= LinkTravelTime(net[l], request.vehicle)
      BY <1>1, <1>2, <2>1, TravelTimeIs
    <2>3. /\ LinkTravelTime(net[l], NoVehicle) \in Nat
          /\ LinkTravelTime(net[l], NoVehicle) <= net[l].length
      BY <1>1, <2>1, TravelTimeIs
    <2> QED BY <2>2, <2>3 DEF CostOf, LinkMinTravelDisutility
  <1> QED BY <1>2, <1>3, <1>4 DEF CostsOf

-----------------------------------------------------------------------------
(* What a search compares with.                                             *)

\* How many nodes the network has.
NodeCount == Cardinality(NodeIdsOf(net))

\* Indices and ids of nodes belong to each other one to one.
LEMMA NodesAre ==
  ASSUME GraphInv
  PROVE  /\ NodeCount \in Nat /\ Nodes = 1..NodeCount /\ Inf \in Nat \ {0}
         /\ IsFiniteSet(Nodes) /\ Cardinality(Nodes) = NodeCount
         /\ \A i \in Nodes : Id(i) \in NodeIdsOf(net)
         /\ \A i, j \in Nodes : Id(i) = Id(j) => i = j
         /\ \A v \in NodeIdsOf(net) : \E i \in Nodes : Id(i) = v
         /\ \A l \in ModeLinks : net[l].from \in NodeIdsOf(net) /\ net[l].to \in NodeIdsOf(net)
PROOF
  <1>1. IsNetwork(net) /\ IsGraphOf(graph, net, ModeLinks)
    BY GraphFits
  <1>2. NodeCount \in Nat /\ Inf \in Nat \ {0}
    BY <1>1, NodeIdsAre, AStarAssumption DEF NodeCount
  <1>3. /\ Nodes = 1..NodeCount
        /\ \A i \in Nodes : Id(i) \in NodeIdsOf(net)
        /\ \A i, j \in Nodes : Id(i) = Id(j) => i = j
        /\ \A v \in NodeIdsOf(net) : \E i \in Nodes : Id(i) = v
    BY <1>1, Zenon DEF IsGraphOf, Nodes, Id, NodeCount
  <1>4. \A l \in ModeLinks : net[l].from \in NodeIdsOf(net) /\ net[l].to \in NodeIdsOf(net)
    BY <1>1, NodeIdsAre, CostsAre
  <1>5. IsFiniteSet(1..NodeCount) /\ Cardinality(1..NodeCount) = NodeCount
    <2>1. 1 \in Int /\ NodeCount \in Int
      BY <1>2
    <2>2. IsFiniteSet(1..NodeCount) /\ Cardinality(1..NodeCount) = IF 1 > NodeCount THEN 0 ELSE NodeCount - 1 + 1
      BY <2>1, FS_Interval
    <2> QED BY <1>2, <2>2
  <1> QED BY <1>2, <1>3, <1>4, <1>5

\* The costs for k links, of whatever type.
LEMMA LeastIs ==
  ASSUME GraphInv, NEW D, NEW from, NEW kind, IsLeast(D, from, ModeLinks, CostsOf(kind))
  PROVE  /\ \A k \in 0..NodeCount : \A v \in NodeIdsOf(net) : D[k][v] \in 0..Inf
         /\ \A v \in NodeIdsOf(net) : D[0][v] = IF v = from THEN 0 ELSE Inf
         /\ \A k \in 1..NodeCount :
              /\ k - 1 \in 0..NodeCount /\ k \in 0..NodeCount
              /\ \A v \in NodeIdsOf(net) : D[k][v] <= D[k - 1][v]
              /\ \A l \in ModeLinks : D[k][net[l].to] <= D[k - 1][net[l].from] + CostOf(kind, l)
              /\ \A v \in NodeIdsOf(net) :
                   \/ D[k][v] = D[k - 1][v]
                   \/ \E l \in ModeLinks : net[l].to = v /\ D[k][v] = D[k - 1][net[l].from] + CostOf(kind, l)
PROOF
  <1>1. NodeCount \in Nat /\ \A l \in ModeLinks : CostsOf(kind)[l] = CostOf(kind, l)
    BY NodesAre, CostsAre
  <1>2. D \in [0..NodeCount -> [NodeIdsOf(net) -> 0..Inf]]
    BY Zenon DEF IsLeast, NodeCount
  <1>3. \A v \in NodeIdsOf(net) : D[0][v] = IF v = from THEN 0 ELSE Inf
    BY Zenon DEF IsLeast
  <1>4. ASSUME NEW k \in 0..NodeCount, NEW v \in NodeIdsOf(net) PROVE D[k][v] \in 0..Inf
    BY <1>2
  <1>5. ASSUME NEW k \in 1..NodeCount
        PROVE  /\ k - 1 \in 0..NodeCount /\ k \in 0..NodeCount
               /\ \A v \in NodeIdsOf(net) : D[k][v] <= D[k - 1][v]
               /\ \A l \in ModeLinks : D[k][net[l].to] <= D[k - 1][net[l].from] + CostOf(kind, l)
               /\ \A v \in NodeIdsOf(net) :
                    \/ D[k][v] = D[k - 1][v]
                    \/ \E l \in ModeLinks : net[l].to = v /\ D[k][v] = D[k - 1][net[l].from] + CostOf(kind, l)
    <2>1. /\ \A v \in NodeIdsOf(net) : D[k][v] <= D[k - 1][v]
          /\ \A l \in ModeLinks : D[k][net[l].to] <= D[k - 1][net[l].from] + CostsOf(kind)[l]
          /\ \A v \in NodeIdsOf(net) :
               \/ D[k][v] = D[k - 1][v]
               \/ \E l \in ModeLinks : net[l].to = v /\ D[k][v] = D[k - 1][net[l].from] + CostsOf(kind)[l]
      BY Zenon DEF IsLeast, NodeCount
    <2>2. k - 1 \in 0..NodeCount /\ k \in 0..NodeCount
      BY <1>1
    <2>3. \A l \in ModeLinks : D[k][net[l].to] <= D[k - 1][net[l].from] + CostOf(kind, l)
      BY <1>1, <2>1, Zenon
    <2>4. \A v \in NodeIdsOf(net) :
            \/ D[k][v] = D[k - 1][v]
            \/ \E l \in ModeLinks : net[l].to = v /\ D[k][v] = D[k - 1][net[l].from] + CostOf(kind, l)
      <3> SUFFICES ASSUME NEW v \in NodeIdsOf(net), D[k][v] # D[k - 1][v]
                   PROVE  \E l \in ModeLinks : net[l].to = v /\ D[k][v] = D[k - 1][net[l].from] + CostOf(kind, l)
        OBVIOUS
      <3>1. PICK l \in ModeLinks : net[l].to = v /\ D[k][v] = D[k - 1][net[l].from] + CostsOf(kind)[l]
        BY <2>1
      <3>2. D[k][v] = D[k - 1][net[l].from] + CostOf(kind, l)
        BY <1>1, <3>1, Zenon
      <3> QED BY <3>1, <3>2
    <2> QED BY <2>1, <2>2, <2>3, <2>4
  <1> QED BY <1>3, <1>4, <1>5

\* The table of least costs behind LeastCosts.
LEMMA LeastExists ==
  ASSUME GraphInv, NEW kind, NEW from
  PROVE  \E D : IsLeast(D, from, ModeLinks, CostsOf(kind)) /\ LeastCosts(from, CostsOf(kind)) = D[NodeCount]
PROOF
  <1>1. IsNetwork(net) /\ ModeLinks \in SUBSET (DOMAIN net) /\ CostsOf(kind) \in [ModeLinks -> Nat]
    BY GraphFits, CostsAre
  <1> QED BY <1>1, LeastCostsAre DEF NodeCount

\* A bound for k links is one for more links.
LEMMA LeastFalls ==
  ASSUME GraphInv, NEW kind, NEW from, NEW D, IsLeast(D, from, ModeLinks, CostsOf(kind)),
         NEW k \in 0..NodeCount, NEW x \in NodeIdsOf(net)
  PROVE  D[NodeCount][x] <= D[k][x]
PROOF
  <1> DEFINE P == {j \in 0..NodeCount : k <= j => D[j][x] <= D[k][x]}
  <1>1. NodeCount \in Nat /\ \A j \in 0..NodeCount : D[j][x] \in 0..Inf
    BY NodesAre, LeastIs
  <1>2. Inf \in Nat
    BY NodesAre
  <1>3. 0 \in P
    BY <1>1, <1>2
  <1>4. ASSUME NEW j \in 1..NodeCount, j - 1 \in P PROVE j \in P
    <2>1. j - 1 \in 0..NodeCount /\ j \in 0..NodeCount /\ D[j][x] <= D[j - 1][x]
      BY LeastIs
    <2>2. D[j][x] \in Nat /\ D[j - 1][x] \in Nat /\ D[k][x] \in Nat
      BY <1>1, <1>2, <2>1
    <2>3. k <= j - 1 => D[j - 1][x] <= D[k][x]
      BY <1>4
    <2>4. k <= j => k = j \/ k <= j - 1
      OBVIOUS
    <2>5. k <= j => D[j][x] <= D[k][x]
      BY <2>1, <2>2, <2>3, <2>4
    <2> QED BY <2>1, <2>5
  <1>5. NodeCount \in P
    <2>1. \A j \in 0..NodeCount : j \in P
      <3> HIDE DEF P
      <3> QED BY <1>1, <1>3, <1>4, UpTo
    <2> QED BY <1>1, <2>1
  <1> QED BY <1>1, <1>5

\* A link in front of a way adds its costs.
LEMMA LinkInFront ==
  ASSUME GraphInv, NEW kind, NEW l \in ModeLinks, NEW x \in NodeIdsOf(net),
         NEW D, IsLeast(D, net[l].from, ModeLinks, CostsOf(kind)),
         NEW E, IsLeast(E, net[l].to, ModeLinks, CostsOf(kind)),
         NEW k \in 1..NodeCount
  PROVE  D[k][x] <= CostOf(kind, l) + E[k - 1][x]
PROOF
  <1> DEFINE V == NodeIdsOf(net)
             w == CostOf(kind, l)
             P == {j \in 0..(NodeCount - 1) : \A v \in V : D[j + 1][v] <= w + E[j][v]}
  <1>1. /\ NodeCount \in Nat /\ NodeCount - 1 \in Nat /\ Inf \in Nat /\ w \in Nat
        /\ net[l].from \in V /\ net[l].to \in V
    BY NodesAre, CostsAre
  <1>2. \A j \in 0..NodeCount : \A v \in V : D[j][v] \in Nat /\ D[j][v] <= Inf /\ E[j][v] \in Nat /\ E[j][v] <= Inf
    <2>1. \A j \in 0..NodeCount : \A v \in V : D[j][v] \in 0..Inf /\ E[j][v] \in 0..Inf
      BY LeastIs
    <2> QED BY <1>1, <2>1
  <1>3. 0 \in P
    <2>1. ASSUME NEW v \in V PROVE D[1][v] <= w + E[0][v]
      <3>1. 1 \in 1..NodeCount /\ 0 \in 0..NodeCount /\ 1 \in 0..NodeCount
        BY <1>1
      <3>2. CASE v = net[l].to
        <4>1. D[1][net[l].to] <= D[1 - 1][net[l].from] + w
          BY <3>1, LeastIs
        <4>2. D[0][net[l].from] = 0 /\ E[0][v] = 0
          BY <1>1, <3>2, LeastIs
        <4> QED BY <1>1, <3>2, <4>1, <4>2
      <3>3. CASE v # net[l].to
        <4>1. E[0][v] = Inf
          BY <3>3, LeastIs
        <4>2. D[1][v] \in Nat /\ D[1][v] <= Inf
          BY <1>2, <3>1
        <4> QED BY <1>1, <4>1, <4>2
      <3> QED BY <3>2, <3>3
    <2> QED BY <1>1, <2>1
  <1>4. ASSUME NEW j \in 1..(NodeCount - 1), j - 1 \in P PROVE j \in P
    <2>1. /\ j \in 1..NodeCount /\ j + 1 \in 1..NodeCount /\ (j + 1) - 1 = j /\ (j - 1) + 1 = j
          /\ j \in 0..NodeCount /\ j + 1 \in 0..NodeCount /\ j - 1 \in 0..NodeCount
          /\ j \in 0..(NodeCount - 1)
      BY <1>1
    <2>2. \A v \in V : D[j][v] <= w + E[j - 1][v]
      BY <1>4, <2>1
    <2>3. ASSUME NEW v \in V PROVE D[j + 1][v] <= w + E[j][v]
      <3>1. /\ D[j + 1][v] \in Nat /\ D[j][v] \in Nat /\ E[j][v] \in Nat /\ E[j - 1][v] \in Nat
            /\ D[j + 1][v] <= D[j][v] /\ D[j][v] <= w + E[j - 1][v]
        BY <1>2, <2>1, <2>2, LeastIs
      <3>2. CASE E[j][v] = E[j - 1][v]
        BY <1>1, <3>1, <3>2
      <3>3. ASSUME NEW m \in ModeLinks, net[m].to = v, E[j][v] = E[j - 1][net[m].from] + CostOf(kind, m)
            PROVE  D[j + 1][v] <= w + E[j][v]
        <4>1. net[m].from \in V /\ CostOf(kind, m) \in Nat
          BY NodesAre, CostsAre
        <4>2. D[j + 1][v] <= D[j][net[m].from] + CostOf(kind, m)
          <5>1. D[j + 1][net[m].to] <= D[(j + 1) - 1][net[m].from] + CostOf(kind, m)
            BY <2>1, LeastIs
          <5> QED BY <2>1, <3>3, <5>1
        <4>3. D[j][net[m].from] <= w + E[j - 1][net[m].from]
          BY <2>2, <4>1
        <4>4. D[j][net[m].from] \in Nat /\ E[j - 1][net[m].from] \in Nat
          BY <1>2, <2>1, <4>1
        <4> QED BY <1>1, <3>1, <3>3, <4>1, <4>2, <4>3, <4>4
      <3>4. \/ E[j][v] = E[j - 1][v]
            \/ \E m \in ModeLinks : net[m].to = v /\ E[j][v] = E[j - 1][net[m].from] + CostOf(kind, m)
        BY <2>1, LeastIs
      <3> QED BY <3>2, <3>3, <3>4
    <2> QED BY <2>1, <2>3
  <1>5. \A j \in 0..(NodeCount - 1) : j \in P
    <2> HIDE DEF P
    <2> QED BY <1>1, <1>3, <1>4, UpTo
  <1>6. k - 1 \in 0..(NodeCount - 1) /\ (k - 1) + 1 = k
    BY <1>1
  <1>7. k - 1 \in P
    BY <1>5, <1>6
  <1>8. \A v \in V : D[(k - 1) + 1][v] <= w + E[k - 1][v]
    BY <1>7
  <1> QED BY <1>6, <1>8

-----------------------------------------------------------------------------
(* Upper and lower bounds of the least costs.                               *)

\* A way over at most k links between s, where the search starts, and x costs v or less.
AtMost(kind, s, x, k, v) ==
  \A D : IF kind = "backward"
         THEN IsLeast(D, Id(x), ModeLinks, CostsOf(kind)) => D[k][Id(s)] <= v
         ELSE IsLeast(D, Id(s), ModeLinks, CostsOf(kind)) => D[k][Id(x)] <= v

\* What the search has to find for x.
CostTo(kind, s, x) ==
  IF kind = "backward" THEN LeastCosts(Id(x), CostsOf(kind))[Id(s)]
  ELSE LeastCosts(Id(s), CostsOf(kind))[Id(x)]

\* With no link, only the start is reached.
LEMMA AtMostStart ==
  ASSUME GraphInv, NEW kind, NEW s \in Nodes, NEW x \in Nodes
  PROVE  AtMost(kind, s, x, 0, IF x = s THEN 0 ELSE Inf)
PROOF
  <1>1. /\ Id(s) \in NodeIdsOf(net) /\ Id(x) \in NodeIdsOf(net) /\ (Id(x) = Id(s) => x = s)
        /\ Inf \in Nat /\ (x = s => Id(x) = Id(s))
    BY NodesAre
  <1>2. ASSUME NEW D, IsLeast(D, Id(x), ModeLinks, CostsOf(kind))
        PROVE  D[0][Id(s)] <= IF x = s THEN 0 ELSE Inf
    <2>1. D[0][Id(s)] = IF Id(s) = Id(x) THEN 0 ELSE Inf
      BY <1>1, <1>2, LeastIs
    <2>2. CASE x = s
      <3>1. D[0][Id(s)] = 0
        BY <1>1, <2>1, <2>2
      <3> QED BY <2>2, <3>1
    <2>3. CASE x # s
      <3>1. D[0][Id(s)] = Inf
        BY <1>1, <2>1, <2>3
      <3> QED BY <1>1, <2>3, <3>1
    <2> QED BY <2>2, <2>3
  <1>3. ASSUME NEW D, IsLeast(D, Id(s), ModeLinks, CostsOf(kind))
        PROVE  D[0][Id(x)] <= IF x = s THEN 0 ELSE Inf
    <2>1. D[0][Id(x)] = IF Id(x) = Id(s) THEN 0 ELSE Inf
      BY <1>1, <1>3, LeastIs
    <2>2. CASE x = s
      <3>1. D[0][Id(x)] = 0
        BY <1>1, <2>1, <2>2
      <3> QED BY <2>2, <3>1
    <2>3. CASE x # s
      <3>1. D[0][Id(x)] = Inf
        BY <1>1, <2>1, <2>3
      <3> QED BY <1>1, <2>3, <3>1
    <2> QED BY <2>2, <2>3
  <1> QED BY <1>2, <1>3 DEF AtMost

\* A bound for fewer links is one for more.
LEMMA AtMostMore ==
  ASSUME GraphInv, NEW kind, NEW s \in Nodes, NEW x \in Nodes, NEW k \in 1..NodeCount,
         NEW v \in Nat, AtMost(kind, s, x, k - 1, v)
  PROVE  AtMost(kind, s, x, k, v)
PROOF
  <1>1. Id(s) \in NodeIdsOf(net) /\ Id(x) \in NodeIdsOf(net) /\ Inf \in Nat
    BY NodesAre
  <1>2. ASSUME NEW D, NEW from, IsLeast(D, from, ModeLinks, CostsOf(kind)), NEW y \in NodeIdsOf(net),
               D[k - 1][y] <= v
        PROVE  D[k][y] <= v
    <2>1. /\ k - 1 \in 0..NodeCount /\ k \in 0..NodeCount /\ D[k][y] <= D[k - 1][y]
      BY <1>2, LeastIs
    <2>2. D[k][y] \in 0..Inf /\ D[k - 1][y] \in 0..Inf
      BY <1>2, <2>1, LeastIs
    <2> QED BY <1>1, <1>2, <2>1, <2>2
  <1> QED BY <1>1, <1>2 DEF AtMost

\* A bound for a node gives one for its neighbour.
LEMMA AtMostLink ==
  ASSUME GraphInv, NEW kind, NEW s \in Nodes, NEW u \in Nodes, NEW m \in Nodes, NEW l,
         Leads(kind, u, l, m), NEW k \in 1..NodeCount, NEW v \in Nat, AtMost(kind, s, u, k - 1, v)
  PROVE  AtMost(kind, s, m, k, v + CostOf(kind, l))
PROOF
  <1>1. /\ Id(s) \in NodeIdsOf(net) /\ Id(u) \in NodeIdsOf(net) /\ Id(m) \in NodeIdsOf(net) /\ Inf \in Nat
        /\ l \in ModeLinks
    BY NodesAre DEF Leads
  <1>2. CostOf(kind, l) \in Nat
    BY <1>1, CostsAre
  <1>3. CASE kind = "backward"
    <2> SUFFICES ASSUME NEW D, IsLeast(D, Id(m), ModeLinks, CostsOf(kind))
                 PROVE  D[k][Id(s)] <= v + CostOf(kind, l)
      BY <1>3 DEF AtMost
    <2>1. net[l].to = Id(u) /\ net[l].from = Id(m)
      BY <1>3 DEF Leads
    <2>2. PICK E : IsLeast(E, Id(u), ModeLinks, CostsOf(kind))
      BY LeastExists
    <2>3. E[k - 1][Id(s)] <= v
      BY <1>3, <2>2 DEF AtMost
    <2>4. D[k][Id(s)] <= CostOf(kind, l) + E[k - 1][Id(s)]
      <3>1. IsLeast(D, net[l].from, ModeLinks, CostsOf(kind)) /\ IsLeast(E, net[l].to, ModeLinks, CostsOf(kind))
        BY <2>1, <2>2
      <3> QED BY <1>1, <3>1, LinkInFront
    <2>5. k - 1 \in 0..NodeCount /\ k \in 0..NodeCount
      BY <2>2, LeastIs
    <2>6. D[k][Id(s)] \in 0..Inf /\ E[k - 1][Id(s)] \in 0..Inf
      BY <1>1, <2>2, <2>5, LeastIs
    <2> QED BY <1>1, <1>2, <2>3, <2>4, <2>6
  <1>4. CASE kind # "backward"
    <2> SUFFICES ASSUME NEW D, IsLeast(D, Id(s), ModeLinks, CostsOf(kind))
                 PROVE  D[k][Id(m)] <= v + CostOf(kind, l)
      BY <1>4 DEF AtMost
    <2>1. net[l].from = Id(u) /\ net[l].to = Id(m)
      BY <1>4 DEF Leads
    <2>2. D[k - 1][Id(u)] <= v
      BY <1>4 DEF AtMost
    <2>3. D[k][net[l].to] <= D[k - 1][net[l].from] + CostOf(kind, l)
      BY <1>1, LeastIs
    <2>4. k - 1 \in 0..NodeCount /\ k \in 0..NodeCount
      BY LeastIs
    <2>5. D[k][Id(m)] \in 0..Inf /\ D[k - 1][Id(u)] \in 0..Inf
      BY <1>1, <2>4, LeastIs
    <2>6. D[k][Id(m)] <= D[k - 1][Id(u)] + CostOf(kind, l)
      BY <2>1, <2>3
    <2> QED BY <1>1, <1>2, <2>2, <2>5, <2>6
  <1> QED BY <1>3, <1>4

\* What bounds the table bounds the least cost.
LEMMA CostToIs ==
  ASSUME GraphInv, NEW kind, NEW s \in Nodes, NEW x \in Nodes
  PROVE  /\ CostTo(kind, s, x) \in 0..Inf
         /\ \A k \in 0..NodeCount : \A v \in Nat : AtMost(kind, s, x, k, v) => CostTo(kind, s, x) <= v
PROOF
  <1>1. Id(s) \in NodeIdsOf(net) /\ Id(x) \in NodeIdsOf(net) /\ Inf \in Nat /\ NodeCount \in 0..NodeCount
    BY NodesAre
  <1>2. ASSUME NEW from, NEW y \in NodeIdsOf(net), NEW k \in 0..NodeCount, NEW v \in Nat,
               \A D : IsLeast(D, from, ModeLinks, CostsOf(kind)) => D[k][y] <= v
        PROVE  LeastCosts(from, CostsOf(kind))[y] <= v
    <2>1. PICK D : IsLeast(D, from, ModeLinks, CostsOf(kind)) /\ LeastCosts(from, CostsOf(kind)) = D[NodeCount]
      BY LeastExists
    <2>2. D[NodeCount][y] <= D[k][y] /\ D[k][y] <= v
      BY <1>2, <2>1, LeastFalls
    <2>3. D[NodeCount][y] \in 0..Inf /\ D[k][y] \in 0..Inf
      BY <1>1, <2>1, LeastIs
    <2> QED BY <1>1, <2>1, <2>2, <2>3
  <1>3. ASSUME NEW from, NEW y \in NodeIdsOf(net)
        PROVE  LeastCosts(from, CostsOf(kind))[y] \in 0..Inf
    <2>1. PICK D : IsLeast(D, from, ModeLinks, CostsOf(kind)) /\ LeastCosts(from, CostsOf(kind)) = D[NodeCount]
      BY LeastExists
    <2>2. D[NodeCount][y] \in 0..Inf
      BY <1>1, <2>1, LeastIs
    <2> QED BY <2>1, <2>2
  <1>4. CASE kind = "backward"
    <2>1. CostTo(kind, s, x) = LeastCosts(Id(x), CostsOf(kind))[Id(s)]
      BY <1>4 DEF CostTo
    <2>2. \A k \in 0..NodeCount : \A v \in Nat : AtMost(kind, s, x, k, v) =>
            \A D : IsLeast(D, Id(x), ModeLinks, CostsOf(kind)) => D[k][Id(s)] <= v
      BY <1>4 DEF AtMost
    <2> QED BY <1>1, <1>2, <1>3, <2>1, <2>2
  <1>5. CASE kind # "backward"
    <2>1. CostTo(kind, s, x) = LeastCosts(Id(s), CostsOf(kind))[Id(x)]
      BY <1>5 DEF CostTo
    <2>2. \A k \in 0..NodeCount : \A v \in Nat : AtMost(kind, s, x, k, v) =>
            \A D : IsLeast(D, Id(s), ModeLinks, CostsOf(kind)) => D[k][Id(x)] <= v
      BY <1>5 DEF AtMost
    <2> QED BY <1>1, <1>2, <1>3, <2>1, <2>2
  <1> QED BY <1>4, <1>5

\* The labels d, of the nodes that are not in the queue final as far as their links go.
Relaxes(kind, s, q, d) ==
  /\ q \subseteq Nodes /\ d \in [Nodes -> 0..Inf] /\ s \in Nodes /\ d[s] = 0
  /\ \A u \in Nodes \ q : \A m \in Nodes : \A l : Leads(kind, u, l, m) => d[m] <= d[u] + CostOf(kind, l)

\* Never more than a link's costs less is ahead at its end.
Consistent(kind, h) ==
  \A u, m \in Nodes : \A l : Leads(kind, u, l, m) => h[u] <= CostOf(kind, l) + h[m]

\* Nothing reaches x for less than its label, when every node of the queue is at least as far
\* away by label and estimate: by induction over the links of a way from the start.
LEMMA ForwardLower ==
  ASSUME GraphInv, NEW kind, kind # "backward", NEW s, NEW q, NEW d, Relaxes(kind, s, q, d),
         NEW h \in [Nodes -> Nat], Consistent(kind, h),
         NEW b \in Nat, \A y \in q : b <= d[y] + h[y],
         NEW x \in Nodes, d[x] + h[x] <= b
  PROVE  d[x] <= CostTo(kind, s, x)
PROOF
  <1>1. /\ NodeCount \in Nat /\ Inf \in Nat
        /\ \A i \in Nodes : Id(i) \in NodeIdsOf(net)
        /\ \A i, j \in Nodes : Id(i) = Id(j) => i = j
        /\ \A v \in NodeIdsOf(net) : \E i \in Nodes : Id(i) = v
        /\ \A l \in ModeLinks : net[l].from \in NodeIdsOf(net) /\ net[l].to \in NodeIdsOf(net)
    BY NodesAre
  <1>2. /\ q \subseteq Nodes /\ s \in Nodes /\ d[s] = 0 /\ d \in [Nodes -> 0..Inf]
        /\ \A u \in Nodes \ q : \A m \in Nodes : \A l : Leads(kind, u, l, m) => d[m] <= d[u] + CostOf(kind, l)
    BY Zenon DEF Relaxes
  <1>a. \A i \in Nodes : d[i] \in Nat /\ d[i] <= Inf /\ h[i] \in Nat
    BY <1>1, <1>2
  <1>3. PICK D : IsLeast(D, Id(s), ModeLinks, CostsOf(kind)) /\ LeastCosts(Id(s), CostsOf(kind)) = D[NodeCount]
    BY LeastExists
  <1>4. \A k \in 0..NodeCount : \A i \in Nodes : D[k][Id(i)] \in Nat
    <2>1. \A k \in 0..NodeCount : \A v \in NodeIdsOf(net) : D[k][v] \in 0..Inf
      BY <1>3, LeastIs
    <2> QED BY <1>1, <2>1
  <1> DEFINE Known(k, i) == d[i] <= D[k][Id(i)] \/ b <= D[k][Id(i)] + h[i]
             P == {k \in 0..NodeCount : \A i \in Nodes : Known(k, i)}
  <1>5. 0 \in P
    <2>1. ASSUME NEW i \in Nodes PROVE d[i] <= D[0][Id(i)]
      <3>1. D[0][Id(i)] = IF Id(i) = Id(s) THEN 0 ELSE Inf
        BY <1>1, <1>3, LeastIs
      <3>2. Id(i) = Id(s) => i = s
        BY <1>1, <1>2
      <3> QED BY <1>2, <1>a, <3>1, <3>2
    <2> QED BY <1>1, <2>1
  <1>6. ASSUME NEW k \in 1..NodeCount, k - 1 \in P PROVE k \in P
    <2>1. k - 1 \in 0..NodeCount /\ k \in 0..NodeCount
      BY <1>1
    <2>2. \A i \in Nodes : Known(k - 1, i)
      BY <1>6
    <2>3. ASSUME NEW i \in Nodes PROVE Known(k, i)
      <3>1. \/ D[k][Id(i)] = D[k - 1][Id(i)]
            \/ \E l \in ModeLinks : net[l].to = Id(i) /\ D[k][Id(i)] = D[k - 1][net[l].from] + CostOf(kind, l)
        BY <1>1, <1>3, LeastIs
      <3>2. CASE D[k][Id(i)] = D[k - 1][Id(i)]
        BY <2>2, <3>2
      <3>3. ASSUME NEW l \in ModeLinks, net[l].to = Id(i), D[k][Id(i)] = D[k - 1][net[l].from] + CostOf(kind, l)
            PROVE  Known(k, i)
        <4>1. PICK u \in Nodes : Id(u) = net[l].from
          BY <1>1
        <4>2. Leads(kind, u, l, i) /\ CostOf(kind, l) \in Nat
          BY <3>3, <4>1, CostsAre DEF Leads
        <4> DEFINE e == D[k - 1][Id(u)]
                   f == D[k][Id(i)]
                   w == CostOf(kind, l)
        <4>3. e \in Nat /\ f \in Nat /\ w \in Nat /\ f = e + w
          BY <1>4, <2>1, <3>3, <4>1, <4>2
        <4>4. d[u] <= e \/ b <= e + h[u]
          BY <2>2
        <4>5. h[u] <= w + h[i]
          BY <4>2 DEF Consistent
        <4>6. d[u] \in Nat /\ d[i] \in Nat /\ h[u] \in Nat /\ h[i] \in Nat
          BY <1>a
        <4>7. d[i] <= f \/ b <= f + h[i]
          <5>1. CASE b <= e + h[u]
            <6> HIDE DEF e, f, w
            <6> QED BY <4>3, <4>5, <4>6, <5>1
          <5>2. CASE d[u] <= e /\ u \in q
            <6>1. b <= d[u] + h[u]
              BY <5>2
            <6> HIDE DEF e, f, w
            <6> QED BY <4>3, <4>5, <4>6, <5>2, <6>1
          <5>3. CASE d[u] <= e /\ u \notin q
            <6>1. d[i] <= d[u] + w
              BY <1>2, <4>2, <5>3
            <6> HIDE DEF e, f, w
            <6> QED BY <4>3, <4>6, <5>3, <6>1
          <5> QED BY <4>4, <5>1, <5>2, <5>3
        <4> QED BY <4>7
      <3> QED BY <3>1, <3>2, <3>3
    <2> QED BY <2>1, <2>3
  <1>7. NodeCount \in P
    <2>1. \A k \in 0..NodeCount : k \in P
      <3> HIDE DEF P
      <3> QED BY <1>1, <1>5, <1>6, UpTo
    <2> QED BY <1>1, <2>1
  <1>8. Known(NodeCount, x)
    BY <1>7
  <1>9. CostTo(kind, s, x) = D[NodeCount][Id(x)]
    BY <1>3 DEF CostTo
  <1>10. D[NodeCount][Id(x)] \in Nat /\ d[x] \in Nat /\ h[x] \in Nat
    BY <1>1, <1>4, <1>a
  <1> QED BY <1>8, <1>9, <1>10

\* The same for a search against the links, which has no estimates: by induction over the
\* links of a way, from its end.
LEMMA BackwardLower ==
  ASSUME GraphInv, NEW kind, kind = "backward", NEW s, NEW q, NEW d, Relaxes(kind, s, q, d),
         NEW x \in Nodes, \A y \in q : d[x] <= d[y]
  PROVE  d[x] <= CostTo(kind, s, x)
PROOF
  <1>1. /\ NodeCount \in Nat /\ Inf \in Nat
        /\ \A i \in Nodes : Id(i) \in NodeIdsOf(net)
        /\ \A i, j \in Nodes : Id(i) = Id(j) => i = j
        /\ \A v \in NodeIdsOf(net) : \E i \in Nodes : Id(i) = v
        /\ \A l \in ModeLinks : net[l].from \in NodeIdsOf(net) /\ net[l].to \in NodeIdsOf(net)
    BY NodesAre
  <1>2. /\ q \subseteq Nodes /\ s \in Nodes /\ d[s] = 0 /\ d \in [Nodes -> 0..Inf]
        /\ \A u \in Nodes \ q : \A m \in Nodes : \A l : Leads(kind, u, l, m) => d[m] <= d[u] + CostOf(kind, l)
    BY Zenon DEF Relaxes
  <1>a. \A i \in Nodes : d[i] \in Nat /\ d[i] <= Inf
    BY <1>1, <1>2
  <1>3. PICK D : IsLeast(D, Id(x), ModeLinks, CostsOf(kind)) /\ LeastCosts(Id(x), CostsOf(kind)) = D[NodeCount]
    BY LeastExists
  <1>4. \A k \in 0..NodeCount : \A i \in Nodes : D[k][Id(i)] \in Nat
    <2>1. \A k \in 0..NodeCount : \A v \in NodeIdsOf(net) : D[k][v] \in 0..Inf
      BY <1>3, LeastIs
    <2> QED BY <1>1, <2>1
  <1> DEFINE P == {k \in 0..NodeCount : \A i \in Nodes : d[x] <= D[k][Id(i)] + d[i]}
  <1>5. 0 \in P
    <2>1. ASSUME NEW i \in Nodes PROVE d[x] <= D[0][Id(i)] + d[i]
      <3>1. D[0][Id(i)] = IF Id(i) = Id(x) THEN 0 ELSE Inf
        BY <1>1, <1>3, LeastIs
      <3>2. Id(i) = Id(x) => i = x
        BY <1>1
      <3> QED BY <1>1, <1>a, <3>1, <3>2
    <2> QED BY <1>1, <2>1
  <1>6. ASSUME NEW k \in 1..NodeCount, k - 1 \in P PROVE k \in P
    <2>1. k - 1 \in 0..NodeCount /\ k \in 0..NodeCount
      BY <1>1
    <2>2. \A i \in Nodes : d[x] <= D[k - 1][Id(i)] + d[i]
      BY <1>6
    <2>3. ASSUME NEW i \in Nodes PROVE d[x] <= D[k][Id(i)] + d[i]
      <3>1. \/ D[k][Id(i)] = D[k - 1][Id(i)]
            \/ \E l \in ModeLinks : net[l].to = Id(i) /\ D[k][Id(i)] = D[k - 1][net[l].from] + CostOf(kind, l)
        BY <1>1, <1>3, LeastIs
      <3>2. CASE D[k][Id(i)] = D[k - 1][Id(i)]
        BY <2>2, <3>2
      <3>3. ASSUME NEW l \in ModeLinks, net[l].to = Id(i), D[k][Id(i)] = D[k - 1][net[l].from] + CostOf(kind, l)
            PROVE  d[x] <= D[k][Id(i)] + d[i]
        <4>1. PICK u \in Nodes : Id(u) = net[l].from
          BY <1>1
        <4>2. Leads(kind, i, l, u) /\ CostOf(kind, l) \in Nat
          BY <3>3, <4>1, CostsAre DEF Leads
        <4> DEFINE e == D[k - 1][Id(u)]
                   f == D[k][Id(i)]
                   w == CostOf(kind, l)
        <4>3. e \in Nat /\ f \in Nat /\ w \in Nat /\ f = e + w
          BY <1>4, <2>1, <3>3, <4>1, <4>2
        <4>4. d[x] <= e + d[u]
          BY <2>2
        <4>5. d[u] \in Nat /\ d[i] \in Nat /\ d[x] \in Nat
          BY <1>a
        <4>6. d[x] <= f + d[i]
          <5>1. CASE i \in q
            <6>1. d[x] <= d[i]
              BY <5>1
            <6> HIDE DEF e, f, w
            <6> QED BY <4>3, <4>5, <6>1
          <5>2. CASE i \notin q
            <6>1. d[u] <= d[i] + w
              BY <1>2, <4>2, <5>2
            <6> HIDE DEF e, f, w
            <6> QED BY <4>3, <4>4, <4>5, <6>1
          <5> QED BY <5>1, <5>2
        <4> QED BY <4>6
      <3> QED BY <3>1, <3>2, <3>3
    <2> QED BY <2>1, <2>3
  <1>7. NodeCount \in P
    <2>1. \A k \in 0..NodeCount : k \in P
      <3> HIDE DEF P
      <3> QED BY <1>1, <1>5, <1>6, UpTo
    <2> QED BY <1>1, <2>1
  <1>8. d[x] <= D[NodeCount][Id(s)] + d[s]
    BY <1>2, <1>7
  <1>9. CostTo(kind, s, x) = D[NodeCount][Id(s)]
    BY <1>3 DEF CostTo
  <1>10. D[NodeCount][Id(s)] \in Nat /\ d[x] \in Nat
    BY <1>1, <1>2, <1>4, <1>a
  <1> QED BY <1>2, <1>8, <1>9, <1>10

-----------------------------------------------------------------------------
(* The inductive invariant of the search.                                   *)

\* The labels a search keeps of the nodes.
Labels == [dist : [Nodes -> 0..Inf], prio : [Nodes -> Nat], arrival : [Nodes -> Nat], parent : [Nodes -> Nat]]

\* After k nodes, what is known is no more than k links' share of Inf.
Bounded(k, d) == \A x \in Nodes : d[x] = Inf \/ 2 * NodeCount * d[x] <= k * (Inf - 1)

\* The parent link of a reached node comes from a node whose label is final.
Backtracks(kind, s, q, lab) ==
  /\ lab.parent[s] = NoParent
  /\ \A x \in Nodes \ {s} : lab.dist[x] # Inf =>
       /\ lab.parent[x] \in Edges(graph)
       /\ \E u \in Nodes \ q : /\ Leads(kind, u, LinkOf(graph, lab.parent[x]), x)
                               /\ lab.dist[x] = lab.dist[u] + CostOf(kind, LinkOf(graph, lab.parent[x]))

\* The time on the way is its disutility.
Arrives(kind, lab) ==
  kind = "route" => \A x \in Nodes : lab.dist[x] # Inf => lab.arrival[x] = request.departure_time + lab.dist[x]

\* The queue goes by the label and the estimate h.
Queued(s, q, lab, h) ==
  /\ s \in q => q = Nodes /\ \A x \in Nodes \ {s} : lab.dist[x] = Inf
  /\ \A x \in q : lab.prio[x] = IF x = s THEN 0 ELSE IF lab.dist[x] = Inf THEN Inf ELSE lab.dist[x] + h[x]

\* What is in the queue is no nearer than what was taken from it.
Ordered(q, d, h) == \A x \in Nodes \ q, y \in q : d[x] + h[x] <= d[y] + h[y]

\* A search of the given kind from s, by the estimates h.
SearchOK(kind, s, q, lab, h) ==
  /\ lab \in Labels /\ q \subseteq Nodes /\ s \in Nodes /\ lab.dist[s] = 0
  /\ \A x \in Nodes : AtMost(kind, s, x, Cardinality(Nodes \ q), lab.dist[x])
  /\ \A x \in Nodes \ q : lab.dist[x] # Inf
  /\ Bounded(Cardinality(Nodes \ q), lab.dist)
  /\ Queued(s, q, lab, h)
  /\ Consistent(kind, h) => Relaxes(kind, s, q, lab.dist) /\ Ordered(q, lab.dist, h)
  /\ Backtracks(kind, s, q, lab)
  /\ Arrives(kind, lab)

\* Where the search begins, and the estimates of all nodes.
RouteStart == NodeIdx(graph, EndNode(graph, request.from))
Start == IF job = "route" THEN RouteStart ELSE landmark
Estimates == [n \in Nodes |-> Estimate(n)]

\* The search that is running.
SearchInv == phase = "search" => SearchOK(job, Start, queue, label, Estimates) /\ (job = "route" => ToNode \in queue)

\* All costs from or to the landmark.
Known(kind, s, d) ==
  /\ Relaxes(kind, s, {}, d)
  /\ \A x \in Nodes : d[x] = CostTo(kind, s, x)
  /\ \A x \in Nodes : d[x] = Inf \/ 2 * d[x] < Inf

\* What a phase and a job allow.
PhaseInv ==
  /\ phase \in {"new", "search", "backward", "ready", "extract", "done"}
  /\ job \in {"none", "forward", "backward", "route"}
  /\ phase = "search" <=> job # "none"
  /\ heuristic = "zero" => job \in {"none", "route"} /\ phase # "backward"
  /\ heuristic = "alt" /\ phase # "new" => landmark \in Nodes
  /\ job = "route" \/ phase = "extract" => {request.from, request.to} \subseteq ModeLinks
  /\ phase # "done" => result = NoPath
  /\ DOMAIN to_all = {"forward", "backward"}
  /\ phase \notin {"extract", "done"} => path = <<>>

\* Both tables of the ALT heuristic are complete when the router is ready.
LandmarkInv ==
  heuristic = "alt" =>
    /\ phase \in {"backward", "ready"} \/ job \in {"backward", "route"} => Known("forward", landmark, to_all.forward)
    /\ phase = "ready" \/ job = "route" => Known("backward", landmark, to_all.backward)

\* path leads from n to x.
Way(n, x, p) ==
  /\ p \in Seq(ModeLinks)
  /\ IF p = <<>> THEN n = x ELSE net[p[1]].from = Id(n) /\ net[p[Len(p)]].to = Id(x)
  /\ \A i \in 1..Len(p) - 1 : net[p[i]].to = net[p[i + 1]].from

\* The rest of the way is the path; the labels are those that the search has left.
ExtractInv ==
  phase = "extract" =>
    /\ label \in Labels /\ queue \subseteq Nodes /\ cursor \in Nodes
    /\ label.dist[RouteStart] = 0 /\ label.dist[ToNode] # Inf /\ label.dist[cursor] # Inf
    /\ Backtracks("route", RouteStart, queue, label) /\ Arrives("route", label)
    /\ (heuristic = "alt" => Symmetric) => label.dist[ToNode] = CostTo("route", RouteStart, ToNode)
    /\ Way(cursor, ToNode, path)
    /\ label.dist[cursor] + PathCost(path) = label.dist[ToNode]

\* All parts.
AInv == GraphInv /\ PhaseInv /\ LandmarkInv /\ SearchInv /\ ExtractInv /\ RouteIsLeastCost

-----------------------------------------------------------------------------
(* The world of a search stays as it is.                                    *)

\* What depends on the network and the request only.
LEMMA SameNetwork ==
  ASSUME net' = net, request' = request, graph' = graph
  PROVE  /\ ModeLinks' = ModeLinks /\ Nodes' = Nodes /\ NodeCount' = NodeCount /\ Labels' = Labels
         /\ ToNode' = ToNode /\ RouteStart' = RouteStart
         /\ \A i : Id(i)' = Id(i)
         /\ \A k, l : CostOf(k, l)' = CostOf(k, l)
         /\ \A k : CostsOf(k)' = CostsOf(k)
         /\ \A k, u, l, m : Leads(k, u, l, m)' <=> Leads(k, u, l, m)
         /\ \A D, from, L, w : IsLeast(D, from, L, w)' <=> IsLeast(D, from, L, w)
         /\ \A from, w : LeastCosts(from, w)' = LeastCosts(from, w)
PROOF
  <1>1. ModeLinks' = ModeLinks
    BY DEF ModeLinks
  <1>2. Nodes' = Nodes /\ NodeCount' = NodeCount
    BY DEF Nodes, NodeCount
  <1>3. Labels' = Labels
    BY <1>2 DEF Labels
  <1>4. ToNode' = ToNode /\ RouteStart' = RouteStart
    BY DEF ToNode, RouteStart
  <1>5. \A i : Id(i)' = Id(i)
    BY DEF Id
  <1>6. \A k, l : CostOf(k, l)' = CostOf(k, l)
    BY DEF CostOf, LinkMinTravelDisutility
  <1>7. \A k : CostsOf(k)' = CostsOf(k)
    BY <1>1, <1>6 DEF CostsOf
  <1>8. \A k, u, l, m : Leads(k, u, l, m)' <=> Leads(k, u, l, m)
    BY <1>1, <1>5 DEF Leads
  <1>9. \A D, from, L, w : IsLeast(D, from, L, w)' <=> IsLeast(D, from, L, w)
    BY DEF IsLeast
  <1>10. \A d, w : OneLinkMore(d, w)' = OneLinkMore(d, w)
    BY Zenon DEF OneLinkMore
  <1>11. \A from, w : LeastCosts(from, w)' = LeastCosts(from, w)
    BY <1>10, Zenon DEF LeastCosts
  <1> QED BY <1>1, <1>2, <1>3, <1>4, <1>5, <1>6, <1>7, <1>8, <1>9, <1>11

\* The same for what the invariant says of a search.
LEMMA SameSearch ==
  ASSUME net' = net, request' = request, graph' = graph
  PROVE  /\ \A k, s, x : CostTo(k, s, x)' = CostTo(k, s, x)
         /\ \A k, s, q, lab, h : SearchOK(k, s, q, lab, h)' <=> SearchOK(k, s, q, lab, h)
         /\ \A k, s, d : Known(k, s, d)' <=> Known(k, s, d)
         /\ \A k, s, q, lab : Backtracks(k, s, q, lab)' <=> Backtracks(k, s, q, lab)
         /\ \A k, lab : Arrives(k, lab)' <=> Arrives(k, lab)
         /\ \A n, x, p : Way(n, x, p)' <=> Way(n, x, p)
         /\ \A p : PathCost(p)' = PathCost(p)
         /\ Symmetric' <=> Symmetric
         /\ \A a : RequestCosts(a)' = RequestCosts(a)
PROOF
  <1>1. /\ ModeLinks' = ModeLinks /\ Nodes' = Nodes /\ NodeCount' = NodeCount /\ Labels' = Labels
        /\ \A i : Id(i)' = Id(i)
        /\ \A k, l : CostOf(k, l)' = CostOf(k, l)
        /\ \A k : CostsOf(k)' = CostsOf(k)
        /\ \A k, u, l, m : Leads(k, u, l, m)' <=> Leads(k, u, l, m)
        /\ \A D, from, L, w : IsLeast(D, from, L, w)' <=> IsLeast(D, from, L, w)
        /\ \A from, w : LeastCosts(from, w)' = LeastCosts(from, w)
    BY SameNetwork
  <1>2. \A k, s, x : CostTo(k, s, x)' = CostTo(k, s, x)
    BY <1>1 DEF CostTo
  <1>3. \A k, s, x, j, v : AtMost(k, s, x, j, v)' <=> AtMost(k, s, x, j, v)
    BY <1>1 DEF AtMost
  <1>4. \A k, s, q, d : Relaxes(k, s, q, d)' <=> Relaxes(k, s, q, d)
    BY <1>1 DEF Relaxes
  <1>5. \A k, h : Consistent(k, h)' <=> Consistent(k, h)
    BY <1>1 DEF Consistent
  <1>6. \A k, d : Bounded(k, d)' <=> Bounded(k, d)
    BY <1>1 DEF Bounded
  <1>7. \A k, s, q, lab : Backtracks(k, s, q, lab)' <=> Backtracks(k, s, q, lab)
    BY <1>1 DEF Backtracks
  <1>8. \A k, lab : Arrives(k, lab)' <=> Arrives(k, lab)
    BY <1>1 DEF Arrives
  <1>9. \A s, q, lab, h : Queued(s, q, lab, h)' <=> Queued(s, q, lab, h)
    BY <1>1 DEF Queued
  <1>10. \A q, d, h : Ordered(q, d, h)' <=> Ordered(q, d, h)
    BY <1>1 DEF Ordered
  <1>11. \A k, s, q, lab, h : SearchOK(k, s, q, lab, h)' <=> SearchOK(k, s, q, lab, h)
    BY <1>1, <1>3, <1>4, <1>5, <1>6, <1>7, <1>8, <1>9, <1>10 DEF SearchOK
  <1>12. \A k, s, d : Known(k, s, d)' <=> Known(k, s, d)
    BY <1>1, <1>2, <1>4 DEF Known
  <1>13. \A n, x, p : Way(n, x, p)' <=> Way(n, x, p)
    BY <1>1 DEF Way
  <1>14. \A p : PathCost(p)' = PathCost(p)
    BY Zenon DEF PathCost
  <1>15. Symmetric' <=> Symmetric
    <2>1. \A a : MinCosts(a)' = MinCosts(a)
      <3>1. [l \in ModeLinks |-> LinkMinTravelDisutility(net[l])]' = [l \in ModeLinks |-> LinkMinTravelDisutility(net[l])]
        BY <1>1
      <3> DEFINE w == [l \in ModeLinks |-> LinkMinTravelDisutility(net[l])]
      <3>2. \A a : MinCosts(a) = LeastCosts(a, w)
        BY DEF MinCosts
      <3>3. \A a : MinCosts(a)' = LeastCosts(a, w)'
        BY DEF MinCosts
      <3> QED BY <1>1, <3>1, <3>2, <3>3
    <2> QED BY <2>1 DEF Symmetric
  <1>16. \A a : RequestCosts(a)' = RequestCosts(a)
    <2> DEFINE w == [l \in ModeLinks |-> LinkTravelTime(net[l], request.vehicle)]
    <2>1. w' = w
      BY <1>1
    <2>2. \A a : RequestCosts(a) = LeastCosts(a, w)
      BY DEF RequestCosts
    <2>3. \A a : RequestCosts(a)' = LeastCosts(a, w)'
      BY DEF RequestCosts
    <2> QED BY <1>1, <2>1, <2>2, <2>3
  <1> QED BY <1>2, <1>7, <1>8, <1>11, <1>12, <1>13, <1>14, <1>15, <1>16

-----------------------------------------------------------------------------
(* The neighbours of a node.                                                *)

\* The edges of a node are the links that lead on from it, and no other.
LEMMA NeighboursAre ==
  ASSUME GraphInv, NEW n \in Nodes
  PROVE  /\ NeighbourEdges(n) \in Seq(Edges(graph))
         /\ \A k \in RangeOf(NeighbourEdges(n)) :
              /\ k \in Edges(graph) /\ Neighbour(k) \in Nodes
              /\ Leads(job, n, LinkOf(graph, k), Neighbour(k))
              /\ Disutility(k) = CostOf(job, LinkOf(graph, k)) /\ Disutility(k) \in Nat
              /\ LinkTravelTime(LinkAt(k), request.vehicle) \in Nat
              /\ job = "route" => LinkTravelTime(LinkAt(k), request.vehicle) = Disutility(k)
         /\ \A m \in Nodes : \A l : Leads(job, n, l, m) =>
              \E k \in RangeOf(NeighbourEdges(n)) : LinkOf(graph, k) = l /\ Neighbour(k) = m
PROOF
  <1> DEFINE es == NeighbourEdges(n)
  <1>1. /\ \A k \in Edges(graph) : LinkOf(graph, k) \in ModeLinks
        /\ \A l \in ModeLinks : \E k \in Edges(graph) : LinkOf(graph, k) = l
        /\ \A k \in Edges(graph) :
             /\ EndNodeAsIdx(graph, k) \in Nodes /\ Id(EndNodeAsIdx(graph, k)) = net[LinkOf(graph, k)].to
             /\ StartNodeAsIdx(graph, k) \in Nodes /\ Id(StartNodeAsIdx(graph, k)) = net[LinkOf(graph, k)].from
        /\ OutgoingEdgesAsIdx(graph, n) \in Seq(Edges(graph))
        /\ RangeOf(OutgoingEdgesAsIdx(graph, n)) = {k \in Edges(graph) : net[LinkOf(graph, k)].from = Id(n)}
        /\ IncomingEdgesAsIdx(graph, n) \in Seq(Edges(graph))
        /\ RangeOf(IncomingEdgesAsIdx(graph, n)) = {k \in Edges(graph) : net[LinkOf(graph, k)].to = Id(n)}
    BY GraphFits, Zenon DEF IsGraphOf, Nodes, Id
  <1>2. /\ es \in Seq(Edges(graph))
        /\ RangeOf(es) = {k \in Edges(graph) : IF job = "backward" THEN net[LinkOf(graph, k)].to = Id(n)
                                               ELSE net[LinkOf(graph, k)].from = Id(n)}
    BY <1>1 DEF NeighbourEdges
  <1> HIDE DEF es
  <1>3. \A k \in Edges(graph) :
          /\ Neighbour(k) \in Nodes
          /\ Id(Neighbour(k)) = IF job = "backward" THEN net[LinkOf(graph, k)].from ELSE net[LinkOf(graph, k)].to
    BY <1>1 DEF Neighbour
  <1>4. ASSUME NEW k \in Edges(graph)
        PROVE  /\ Disutility(k) = CostOf(job, LinkOf(graph, k)) /\ Disutility(k) \in Nat
               /\ LinkTravelTime(LinkAt(k), request.vehicle) \in Nat
               /\ job = "route" => LinkTravelTime(LinkAt(k), request.vehicle) = Disutility(k)
    <2>1. LinkAt(k) = net[LinkOf(graph, k)]
      BY DEF LinkAt, LinkOf
    <2>2. Disutility(k) = CostOf(job, LinkOf(graph, k))
      BY <2>1 DEF Disutility, CostOf
    <2>3. LinkOf(graph, k) \in ModeLinks
      BY <1>1
    <2>4. CostOf(job, LinkOf(graph, k)) \in Nat /\ CostOf("route", LinkOf(graph, k)) \in Nat
      BY <2>3, CostsAre
    <2>5. CostOf("route", LinkOf(graph, k)) = LinkTravelTime(net[LinkOf(graph, k)], request.vehicle)
      BY DEF CostOf
    <2> QED BY <2>1, <2>2, <2>4, <2>5
  <1>5. \A k \in RangeOf(es) : k \in Edges(graph) /\ Leads(job, n, LinkOf(graph, k), Neighbour(k))
    BY <1>1, <1>2, <1>3 DEF Leads
  <1>6. ASSUME NEW m \in Nodes, NEW l, Leads(job, n, l, m)
        PROVE  \E k \in RangeOf(es) : LinkOf(graph, k) = l /\ Neighbour(k) = m
    <2>1. PICK k \in Edges(graph) : LinkOf(graph, k) = l
      BY <1>1, <1>6 DEF Leads
    <2>2. k \in RangeOf(es) /\ Id(Neighbour(k)) = Id(m)
      BY <1>2, <1>3, <1>6, <2>1 DEF Leads
    <2>3. Neighbour(k) = m
      BY <1>3, <2>2, NodesAre
    <2> QED BY <2>1, <2>2, <2>3
  <1> QED BY <1>2, <1>3, <1>4, <1>5, <1>6 DEF es

-----------------------------------------------------------------------------
(* What is done at a node.                                                  *)

\* m in lab is as it was, or was reached over k from n, in a better way.
LeftAlone(m, lab) ==
  /\ lab.dist[m] = label.dist[m] /\ lab.prio[m] = label.prio[m]
  /\ lab.arrival[m] = label.arrival[m] /\ lab.parent[m] = label.parent[m]
\* m was reached over k.
Reached(n, m, k, lab) ==
  /\ Neighbour(k) = m /\ m \in queue \ {n}
  /\ lab.dist[m] = label.dist[n] + Disutility(k) /\ lab.dist[m] < label.dist[m]
  /\ lab.prio[m] = lab.dist[m] + Estimate(m)
  /\ lab.arrival[m] = label.arrival[n] + LinkTravelTime(LinkAt(k), request.vehicle)
  /\ lab.parent[m] = k
\* Every node was left alone or reached over an edge of n.
IsAfter(n, lab) ==
  /\ lab \in Labels
  /\ \A m \in Nodes : LeftAlone(m, lab) \/ \E k \in RangeOf(NeighbourEdges(n)) : Reached(n, m, k, lab)

\* What a search may assume of its labels and estimates.
Typed == label \in Labels /\ queue \subseteq Nodes /\ \A m \in Nodes : Estimate(m) \in 0..Inf

\* The fields of labels.
LEMMA LabelFields ==
  ASSUME NEW lab \in Labels
  PROVE  /\ lab.dist \in [Nodes -> 0..Inf] /\ lab.prio \in [Nodes -> Nat]
         /\ lab.arrival \in [Nodes -> Nat] /\ lab.parent \in [Nodes -> Nat]
         /\ lab = [dist |-> lab.dist, prio |-> lab.prio, arrival |-> lab.arrival, parent |-> lab.parent]
  BY DEF Labels

\* The link of one edge is looked at.
LEMMA RelaxIs ==
  ASSUME GraphInv, Typed, NEW n \in Nodes, NEW lab, IsAfter(n, lab), NEW k \in RangeOf(NeighbourEdges(n))
  PROVE  /\ IsAfter(n, Relax(n, lab, k))
         /\ \A x \in Nodes : Relax(n, lab, k).dist[x] <= lab.dist[x]
         /\ Neighbour(k) \in queue \ {n} =>
              Relax(n, lab, k).dist[Neighbour(k)] <= label.dist[n] + Disutility(k)
PROOF
  <1> DEFINE m == Neighbour(k)
             d == lab.dist[n] + Disutility(k)
             arr == lab.arrival[n] + LinkTravelTime(LinkAt(k), request.vehicle)
             r == Relax(n, lab, k)
  <1>1. /\ lab \in Labels /\ lab.dist \in [Nodes -> 0..Inf] /\ lab.prio \in [Nodes -> Nat]
        /\ lab.arrival \in [Nodes -> Nat] /\ lab.parent \in [Nodes -> Nat]
        /\ label.dist \in [Nodes -> 0..Inf] /\ label.arrival \in [Nodes -> Nat] /\ Inf \in Nat
    BY LabelFields, NodesAre DEF IsAfter, Typed
  <1>2. k \in Edges(graph) /\ m \in Nodes /\ Disutility(k) \in Nat /\ LinkTravelTime(LinkAt(k), request.vehicle) \in Nat
    BY NeighboursAre
  <1>3. LeftAlone(n, lab)
    BY DEF IsAfter, Reached
  <1>4. lab.dist[n] = label.dist[n] /\ lab.arrival[n] = label.arrival[n]
    BY <1>3 DEF LeftAlone
  <1>5. d = label.dist[n] + Disutility(k) /\ d \in Nat /\ arr \in Nat
        /\ arr = label.arrival[n] + LinkTravelTime(LinkAt(k), request.vehicle)
    BY <1>1, <1>2, <1>4
  <1>6. CASE m \in queue \ {n} /\ lab.dist[m] > d
    <2>1. r = [dist |-> [lab.dist EXCEPT ![m] = d], arrival |-> [lab.arrival EXCEPT ![m] = arr],
               prio |-> [lab.prio EXCEPT ![m] = d + Estimate(m)], parent |-> [lab.parent EXCEPT ![m] = k]]
      BY <1>6 DEF Relax, Priority, ParentLink
    <2>2. Estimate(m) \in Nat /\ k \in Nat
      <3>1. Estimate(m) \in 0..Inf
        BY <1>2 DEF Typed
      <3>2. k \in Nat
        BY <1>2 DEF Edges
      <3> QED BY <1>1, <3>1, <3>2
    <2>3. d \in 0..Inf /\ d + Estimate(m) \in Nat
      <3>1. lab.dist[m] \in 0..Inf
        BY <1>1, <1>2
      <3> HIDE DEF d, m
      <3> QED BY <1>1, <1>5, <1>6, <2>2, <3>1
    <2> HIDE DEF d, arr, m, r
    <2>4. r \in Labels
      BY <1>1, <1>2, <1>5, <2>1, <2>2, <2>3 DEF Labels
    <2>5. /\ r.dist[m] = d /\ r.prio[m] = d + Estimate(m) /\ r.arrival[m] = arr /\ r.parent[m] = k
          /\ \A x \in Nodes \ {m} : /\ r.dist[x] = lab.dist[x] /\ r.prio[x] = lab.prio[x]
                                    /\ r.arrival[x] = lab.arrival[x] /\ r.parent[x] = lab.parent[x]
      BY <1>1, <1>2, <2>1
    <2>6. lab.dist[m] <= label.dist[m]
      <3>1. LeftAlone(m, lab) \/ \E j \in RangeOf(NeighbourEdges(n)) : Reached(n, m, j, lab)
        BY <1>2 DEF IsAfter
      <3>2. lab.dist[m] = label.dist[m] \/ lab.dist[m] < label.dist[m]
        BY <3>1 DEF LeftAlone, Reached
      <3>3. lab.dist[m] \in 0..Inf /\ label.dist[m] \in 0..Inf
        BY <1>1, <1>2
      <3> QED BY <1>1, <3>2, <3>3
    <2>7. Reached(n, m, k, r)
      <3>1. r.dist[m] < label.dist[m]
        <4>1. lab.dist[m] \in 0..Inf /\ label.dist[m] \in 0..Inf
          BY <1>1, <1>2
        <4> QED BY <1>1, <1>5, <1>6, <2>5, <2>6, <4>1
      <3> QED BY <1>5, <1>6, <2>5, <3>1 DEF Reached, m
    <2>8. ASSUME NEW x \in Nodes \ {m}
          PROVE  LeftAlone(x, r) \/ \E j \in RangeOf(NeighbourEdges(n)) : Reached(n, x, j, r)
      <3>1. LeftAlone(x, lab) \/ \E j \in RangeOf(NeighbourEdges(n)) : Reached(n, x, j, lab)
        BY DEF IsAfter
      <3> QED BY <2>5, <3>1 DEF LeftAlone, Reached
    <2>9. IsAfter(n, r)
      BY <2>4, <2>7, <2>8 DEF IsAfter
    <2>10. \A x \in Nodes : r.dist[x] <= lab.dist[x]
      <3> SUFFICES ASSUME NEW x \in Nodes PROVE r.dist[x] <= lab.dist[x]
        OBVIOUS
      <3>1. lab.dist[x] \in 0..Inf
        BY <1>1
      <3> QED BY <1>1, <1>5, <1>6, <2>5, <3>1
    <2> QED BY <1>5, <2>5, <2>9, <2>10 DEF r, m
  <1>7. CASE ~(m \in queue \ {n} /\ lab.dist[m] > d)
    <2>1. r = lab
      BY <1>7, Zenon DEF Relax
    <2>2. m \in queue \ {n} => lab.dist[m] <= d
      <3>1. lab.dist[m] \in 0..Inf
        BY <1>1, <1>2
      <3> HIDE DEF d, m
      <3> QED BY <1>1, <1>5, <1>7, <3>1
    <2>3. \A x \in Nodes : lab.dist[x] <= lab.dist[x]
      BY <1>1
    <2> HIDE DEF d, r, m
    <2> QED BY <1>5, <2>1, <2>2, <2>3 DEF r, m
  <1> QED BY <1>6, <1>7

\* All edges have been looked at.
LEMMA RelaxedIs ==
  ASSUME GraphInv, Typed, NEW n0 \in Nodes
  PROVE  /\ IsAfter(n0, Relaxed(n0))
         /\ \A k \in RangeOf(NeighbourEdges(n0)) : Neighbour(k) \in queue \ {n0} =>
              Relaxed(n0).dist[Neighbour(k)] <= label.dist[n0] + Disutility(k)
PROOF
  <1> DEFINE n == Len(NeighbourEdges(n0))
             X == {lab \in Labels : IsAfter(n0, lab)}
             x == label
             step == [p \in (1..n) \X X |-> Relax(n0, p[2], NeighbourEdges(n0)[p[1]])]
             Def(h) == [i \in 0..n |-> IF i = 0 THEN label ELSE Relax(n0, h[i - 1], NeighbourEdges(n0)[i])]
             f == CHOOSE h : h = Def(h)
  <1>1. n \in Nat /\ x \in X
    <2>1. n \in Nat
      BY NeighboursAre
    <2>2. IsAfter(n0, label)
      BY DEF IsAfter, LeftAlone, Typed
    <2> QED BY <2>1, <2>2 DEF IsAfter
  <1>2. ASSUME NEW i \in 1..n, NEW y \in X PROVE Relax(n0, y, NeighbourEdges(n0)[i]) \in X
    <2>1. NeighbourEdges(n0)[i] \in RangeOf(NeighbourEdges(n0)) /\ IsAfter(n0, y)
      BY DEF RangeOf
    <2>2. IsAfter(n0, Relax(n0, y, NeighbourEdges(n0)[i]))
      BY <2>1, RelaxIs
    <2> QED BY <2>2 DEF IsAfter
  <1>3. step \in [(1..n) \X X -> X]
    <2>1. ASSUME NEW p \in (1..n) \X X PROVE Relax(n0, p[2], NeighbourEdges(n0)[p[1]]) \in X
      <3>1. p[1] \in 1..n /\ p[2] \in X
        OBVIOUS
      <3> HIDE DEF n, X
      <3> QED BY <1>2, <3>1
    <2> HIDE DEF n, X
    <2> QED BY <2>1
  <1>4. PICK g \in [0..n -> X] : IsRecursion(g, x, n, step)
    <2> HIDE DEF n, X, x, step
    <2> QED BY <1>1, <1>3, RecursionExists
  <1>5. g = Def(g)
    <2>1. \A i \in 0..n : g[i] = IF i = 0 THEN x ELSE step[<<i, g[i - 1]>>]
      <3> HIDE DEF n, X, x, step
      <3> QED BY <1>4 DEF IsRecursion
    <2>2. ASSUME NEW i \in 1..n PROVE step[<<i, g[i - 1]>>] = Relax(n0, g[i - 1], NeighbourEdges(n0)[i])
      <3>1. <<i, g[i - 1]>> \in (1..n) \X X
        <4> HIDE DEF n, X
        <4> QED BY <1>1
      <3> HIDE DEF n, X
      <3> QED BY <3>1
    <2>3. \A i \in 0..n : i = 0 \/ i \in 1..n
      BY <1>1
    <2>4. \A i \in 0..n : g[i] = IF i = 0 THEN label ELSE Relax(n0, g[i - 1], NeighbourEdges(n0)[i])
      <3> HIDE DEF n, X, step
      <3> QED BY <2>1, <2>2, <2>3
    <2> HIDE DEF n, X, x, step
    <2> QED BY <2>4
  <1>6. f = Def(f)
    <2> HIDE DEF Def
    <2> QED BY <1>5
  <1>7. \A i \in 0..n : f[i] = IF i = 0 THEN label ELSE Relax(n0, f[i - 1], NeighbourEdges(n0)[i])
    <2> HIDE DEF f, n
    <2> QED BY <1>6
  <1>8. Relaxed(n0) = f[n]
    BY Zenon DEF Relaxed
  <1>9. \A i \in 0..n : f[i] \in X
    <2> DEFINE P == {i \in 0..n : f[i] \in X}
    <2> HIDE DEF f, X, n
    <2>1. 0 \in P
      BY <1>1, <1>7
    <2>2. ASSUME NEW i \in 1..n, i - 1 \in P PROVE i \in P
      <3>1. i \in 0..n /\ i # 0 /\ f[i - 1] \in X
        BY <1>1, <2>2
      <3>2. f[i] = Relax(n0, f[i - 1], NeighbourEdges(n0)[i])
        BY <1>7, <3>1
      <3>3. Relax(n0, f[i - 1], NeighbourEdges(n0)[i]) \in X
        BY <1>2, <3>1
      <3> QED BY <3>1, <3>2, <3>3
    <2>3. \A i \in 0..n : i \in P
      <3> HIDE DEF P
      <3> QED BY <1>1, <2>1, <2>2, UpTo
    <2> QED BY <2>3
  <1>10. f \in [0..n -> X]
    <2>1. f = [i \in 0..n |-> f[i]]
      <3> HIDE DEF f, n
      <3> QED BY <1>6
    <2> HIDE DEF f, n, X, Def
    <2> QED BY <1>9, <2>1
  <1> HIDE DEF f, Def, step
  <1>11. f[0] = label /\ \A i \in 1..n : f[i] = Relax(n0, f[i - 1], NeighbourEdges(n0)[i])
    <2>1. 0 \in 0..n /\ \A i \in 1..n : i \in 0..n /\ i # 0
      BY <1>1
    <2> HIDE DEF n
    <2> QED BY <1>7, <2>1
  <1> DEFINE e(i) == NeighbourEdges(n0)[i]
             T == {i \in 0..n : \A j \in 1..i : Neighbour(e(j)) \in queue \ {n0} =>
                                  f[i].dist[Neighbour(e(j))] <= label.dist[n0] + Disutility(e(j))}
  <1>12. \A i \in 0..n : IsAfter(n0, f[i]) /\ f[i] \in Labels
    BY <1>9
  <1>13. \A i \in 1..n : e(i) \in RangeOf(NeighbourEdges(n0))
    BY DEF RangeOf
  <1>14. 0 \in T
    BY <1>1
  <1>15. ASSUME NEW i \in 1..n, i - 1 \in T PROVE i \in T
    <2> DEFINE a == f[i - 1]
               b == f[i]
    <2>1. i - 1 \in 0..n /\ i \in 0..n
      BY <1>1
    <2>2. b = Relax(n0, a, e(i))
      BY <1>11
    <2>3. IsAfter(n0, a) /\ a \in Labels /\ b \in Labels
      BY <1>12, <2>1
    <2>4. \A j \in 1..(i - 1) : Neighbour(e(j)) \in queue \ {n0} =>
            a.dist[Neighbour(e(j))] <= label.dist[n0] + Disutility(e(j))
      BY <1>15
    <2> HIDE DEF a, b, n
    <2>5. /\ \A v \in Nodes : b.dist[v] <= a.dist[v]
          /\ Neighbour(e(i)) \in queue \ {n0} => b.dist[Neighbour(e(i))] <= label.dist[n0] + Disutility(e(i))
      BY <1>13, <2>2, <2>3, RelaxIs
    <2>6. ASSUME NEW j \in 1..i, Neighbour(e(j)) \in queue \ {n0}
          PROVE  b.dist[Neighbour(e(j))] <= label.dist[n0] + Disutility(e(j))
      <3>1. CASE j = i
        BY <2>5, <2>6, <3>1
      <3>2. CASE j # i
        <4>1. j \in 1..(i - 1) /\ j \in 1..n
          BY <1>1, <3>2
        <4>2. a.dist[Neighbour(e(j))] <= label.dist[n0] + Disutility(e(j))
          BY <2>4, <2>6, <4>1
        <4>3. e(j) \in RangeOf(NeighbourEdges(n0))
          BY <1>13, <4>1
        <4>4. Neighbour(e(j)) \in Nodes /\ Disutility(e(j)) \in Nat
          BY <4>3, NeighboursAre
        <4>5. b.dist[Neighbour(e(j))] <= a.dist[Neighbour(e(j))]
          BY <2>5, <4>4
        <4>6. a.dist \in [Nodes -> 0..Inf] /\ b.dist \in [Nodes -> 0..Inf] /\ label.dist \in [Nodes -> 0..Inf] /\ Inf \in Nat
          BY <2>3, LabelFields, NodesAre DEF Typed
        <4>7. a.dist[Neighbour(e(j))] \in 0..Inf /\ b.dist[Neighbour(e(j))] \in 0..Inf /\ label.dist[n0] \in 0..Inf
          BY <4>4, <4>6
        <4> HIDE DEF e
        <4> QED BY <4>2, <4>4, <4>5, <4>6, <4>7
      <3> QED BY <3>1, <3>2
    <2> QED BY <2>1, <2>6 DEF b
  <1>16. n \in T
    <2>1. \A i \in 0..n : i \in T
      <3> HIDE DEF T, n
      <3> QED BY <1>1, <1>14, <1>15, UpTo
    <2> HIDE DEF T, n
    <2> QED BY <1>1, <2>1
  <1>17. ASSUME NEW k \in RangeOf(NeighbourEdges(n0)), Neighbour(k) \in queue \ {n0}
         PROVE  f[n].dist[Neighbour(k)] <= label.dist[n0] + Disutility(k)
    <2>1. PICK j \in 1..n : k = NeighbourEdges(n0)[j]
      BY DEF RangeOf
    <2> QED BY <1>16, <1>17, <2>1
  <1>18. n \in 0..n
    BY <1>1
  <1> QED BY <1>8, <1>12, <1>17, <1>18

-----------------------------------------------------------------------------
(* A node is taken from the queue.                                          *)

\* What happens to the labels, in terms of the network.
LEMMA SettledIs ==
  ASSUME GraphInv, Typed, NEW n \in Nodes
  PROVE  /\ Relaxed(n) \in Labels
         /\ \A x \in Nodes :
              \/ LeftAlone(x, Relaxed(n))
              \/ /\ x \in queue \ {n} /\ Relaxed(n).parent[x] \in Edges(graph)
                 /\ Leads(job, n, LinkOf(graph, Relaxed(n).parent[x]), x)
                 /\ Relaxed(n).dist[x] = label.dist[n] + CostOf(job, LinkOf(graph, Relaxed(n).parent[x]))
                 /\ Relaxed(n).dist[x] < label.dist[x]
                 /\ Relaxed(n).prio[x] = Relaxed(n).dist[x] + Estimate(x)
                 /\ job = "route" => Relaxed(n).arrival[x] =
                      label.arrival[n] + CostOf(job, LinkOf(graph, Relaxed(n).parent[x]))
         /\ \A m \in queue \ {n} : \A l : Leads(job, n, l, m) => Relaxed(n).dist[m] <= label.dist[n] + CostOf(job, l)
PROOF
  <1> DEFINE r == Relaxed(n)
  <1>1. IsAfter(n, r) /\ \A k \in RangeOf(NeighbourEdges(n)) : Neighbour(k) \in queue \ {n} =>
              r.dist[Neighbour(k)] <= label.dist[n] + Disutility(k)
    BY RelaxedIs
  <1> HIDE DEF r
  <1>2. ASSUME NEW x \in Nodes, NEW k \in RangeOf(NeighbourEdges(n)), Reached(n, x, k, r)
        PROVE  /\ x \in queue \ {n} /\ r.parent[x] \in Edges(graph)
               /\ Leads(job, n, LinkOf(graph, r.parent[x]), x)
               /\ r.dist[x] = label.dist[n] + CostOf(job, LinkOf(graph, r.parent[x]))
               /\ r.dist[x] < label.dist[x]
               /\ r.prio[x] = r.dist[x] + Estimate(x)
               /\ job = "route" => r.arrival[x] = label.arrival[n] + CostOf(job, LinkOf(graph, r.parent[x]))
    <2>1. /\ k \in Edges(graph) /\ Leads(job, n, LinkOf(graph, k), Neighbour(k))
          /\ Disutility(k) = CostOf(job, LinkOf(graph, k))
          /\ job = "route" => LinkTravelTime(LinkAt(k), request.vehicle) = Disutility(k)
      BY NeighboursAre
    <2> QED BY <1>2, <2>1 DEF Reached
  <1>3. ASSUME NEW m \in queue \ {n}, NEW l, Leads(job, n, l, m)
        PROVE  r.dist[m] <= label.dist[n] + CostOf(job, l)
    <2>1. m \in Nodes
      BY DEF Typed
    <2>2. PICK k \in RangeOf(NeighbourEdges(n)) : LinkOf(graph, k) = l /\ Neighbour(k) = m
      BY <1>3, <2>1, NeighboursAre
    <2>3. Disutility(k) = CostOf(job, LinkOf(graph, k))
      BY NeighboursAre
    <2> QED BY <1>1, <2>2, <2>3
  <1> QED BY <1>1, <1>2, <1>3 DEF r, IsAfter

\* What was taken, one more than before.
LEMMA OneMoreTaken ==
  ASSUME GraphInv, queue \subseteq Nodes, NEW n \in queue
  PROVE  /\ Nodes \ (queue \ {n}) = (Nodes \ queue) \cup {n}
         /\ Cardinality(Nodes \ (queue \ {n})) = Cardinality(Nodes \ queue) + 1
         /\ Cardinality(Nodes \ queue) \in Nat
         /\ Cardinality(Nodes \ queue) + 1 \in 1..NodeCount
PROOF
  <1> DEFINE A == Nodes \ queue
  <1>1. IsFiniteSet(Nodes) /\ Cardinality(Nodes) = NodeCount /\ NodeCount \in Nat
    BY NodesAre
  <1>2. IsFiniteSet(A) /\ n \notin A /\ A \cup {n} \subseteq Nodes
    BY <1>1, FS_Subset
  <1>3. Nodes \ (queue \ {n}) = A \cup {n}
    OBVIOUS
  <1>4. Cardinality(A) \in Nat /\ Cardinality(A \cup {n}) = Cardinality(A) + 1
    <2> HIDE DEF A
    <2> QED BY <1>2, FS_CardinalityType, FS_AddElement
  <1>5. Cardinality(A \cup {n}) <= Cardinality(Nodes)
    <2> HIDE DEF A
    <2> QED BY <1>1, <1>2, FS_Subset
  <1> HIDE DEF A
  <1> QED BY <1>1, <1>3, <1>4, <1>5 DEF A

\* It has the lowest label, estimates included.
LEMMA PoppedIsNext ==
  ASSUME GraphInv, Typed, NEW s, SearchOK(job, s, queue, label, Estimates), NEW n \in queue, Popped(n)
  PROVE  /\ s \in queue => n = s
         /\ n # s => \A y \in queue :
              label.dist[n] # Inf => label.dist[n] + Estimate(n) <= label.dist[y] + Estimate(y)
         /\ label.dist[n] = Inf => s \notin queue /\ \A y \in queue : Inf <= label.dist[y] + Estimate(y)
PROOF
  <1>1. /\ Inf \in Nat \ {0} /\ queue \subseteq Nodes /\ s \in Nodes /\ label.dist[s] = 0
        /\ \A x \in Nodes : label.dist[x] \in 0..Inf /\ Estimate(x) \in 0..Inf /\ label.prio[x] \in Nat
    <2>1. Inf \in Nat \ {0}
      BY NodesAre
    <2>2. queue \subseteq Nodes /\ s \in Nodes /\ label.dist[s] = 0
      BY DEF SearchOK
    <2>3. label \in Labels /\ \A x \in Nodes : Estimate(x) \in 0..Inf
      BY DEF Typed
    <2>4. \A x \in Nodes : label.dist[x] \in 0..Inf /\ label.prio[x] \in Nat
      BY <2>3, LabelFields
    <2> QED BY <2>1, <2>2, <2>3, <2>4
  <1>2. \A x \in Nodes : Estimates[x] = Estimate(x)
    BY DEF Estimates
  <1>3. /\ s \in queue => queue = Nodes /\ \A x \in Nodes \ {s} : label.dist[x] = Inf
        /\ \A x \in queue : label.prio[x] = IF x = s THEN 0 ELSE IF label.dist[x] = Inf THEN Inf
                                            ELSE label.dist[x] + Estimate(x)
    BY <1>1, <1>2 DEF SearchOK, Queued
  <1>4. \A y \in queue : label.prio[n] <= label.prio[y]
    BY DEF Popped
  <1>5. s \in queue => n = s
    <2> SUFFICES ASSUME s \in queue, n # s PROVE FALSE
      OBVIOUS
    <2>1. label.prio[n] = Inf /\ label.prio[s] = 0
      BY <1>1, <1>3
    <2> QED BY <1>1, <1>4, <2>1
  <1>6. ASSUME n # s, NEW y \in queue, label.dist[n] # Inf
        PROVE  label.dist[n] + Estimate(n) <= label.dist[y] + Estimate(y)
    <2>1. label.prio[n] = label.dist[n] + Estimate(n)
      BY <1>3, <1>6
    <2>2. y # s /\ label.prio[n] <= label.prio[y]
      BY <1>4, <1>5, <1>6
    <2>3. label.prio[y] = IF label.dist[y] = Inf THEN Inf ELSE label.dist[y] + Estimate(y)
      BY <1>3, <2>2
    <2>4. label.dist[y] \in 0..Inf /\ Estimate(y) \in 0..Inf /\ label.dist[n] \in 0..Inf /\ Estimate(n) \in 0..Inf
      BY <1>1
    <2> QED BY <1>1, <2>1, <2>2, <2>3, <2>4
  <1>7. ASSUME label.dist[n] = Inf PROVE s \notin queue
    BY <1>1, <1>5, <1>7
  <1>8. ASSUME label.dist[n] = Inf, NEW y \in queue, label.dist[y] + Estimate(y) < Inf PROVE FALSE
    <2>1. n # s /\ y # s
      BY <1>1, <1>7, <1>8
    <2>2. label.prio[n] = Inf /\ label.prio[n] <= label.prio[y]
      BY <1>3, <1>4, <1>8, <2>1
    <2>3. label.dist[y] \in 0..Inf /\ Estimate(y) \in 0..Inf
      BY <1>1
    <2>4. label.dist[y] # Inf
      BY <1>1, <1>8, <2>3
    <2>5. label.prio[y] = label.dist[y] + Estimate(y)
      BY <1>3, <2>1, <2>4
    <2> QED BY <1>1, <1>8, <2>2, <2>3, <2>5
  <1>9. ASSUME label.dist[n] = Inf, NEW y \in queue PROVE Inf <= label.dist[y] + Estimate(y)
    <2>1. label.dist[y] \in 0..Inf /\ Estimate(y) \in 0..Inf
      BY <1>1
    <2> QED BY <1>1, <1>8, <1>9, <2>1
  <1> QED BY <1>5, <1>6, <1>7, <1>9

\* n is taken from the queue, and reachable.
Settles(s, n) == Typed /\ SearchOK(job, s, queue, label, Estimates) /\ n \in queue /\ Popped(n) /\ label.dist[n] # Inf

\* Facts that all parts need.
LEMMA SettleFacts ==
  ASSUME GraphInv, NEW s, NEW n, Settles(s, n)
  PROVE  /\ Inf \in Nat \ {0} /\ queue \subseteq Nodes /\ s \in Nodes \ (queue \ {n}) /\ n \in Nodes
         /\ Relaxed(n) \in Labels
         /\ \A x \in Nodes : /\ label.dist[x] \in 0..Inf /\ Relaxed(n).dist[x] \in 0..Inf
                             /\ Relaxed(n).dist[x] <= label.dist[x] /\ Estimate(x) \in 0..Inf
                             /\ Estimates[x] = Estimate(x)
         /\ \A x \in Nodes \ (queue \ {n}) : LeftAlone(x, Relaxed(n))
         /\ label.dist[s] = 0 /\ Relaxed(n).dist[s] = 0
PROOF
  <1> DEFINE r == Relaxed(n)
  <1>1. /\ Inf \in Nat \ {0} /\ queue \subseteq Nodes /\ s \in Nodes /\ label.dist[s] = 0 /\ n \in Nodes
        /\ \A x \in Nodes : label.dist[x] \in 0..Inf /\ Estimate(x) \in 0..Inf
    BY NodesAre, LabelFields DEF Settles, SearchOK, Typed
  <1>2. s \notin queue \ {n}
    BY PoppedIsNext DEF Settles
  <1>3. /\ r \in Labels
        /\ \A x \in Nodes : LeftAlone(x, r) \/ (x \in queue \ {n} /\ r.dist[x] < label.dist[x])
    BY <1>1, SettledIs DEF Settles
  <1> HIDE DEF r
  <1>4. \A x \in Nodes : r.dist[x] \in 0..Inf
    BY <1>3, LabelFields
  <1>5. ASSUME NEW x \in Nodes PROVE r.dist[x] <= label.dist[x]
    <2>1. r.dist[x] = label.dist[x] \/ r.dist[x] < label.dist[x]
      BY <1>3 DEF LeftAlone
    <2>2. r.dist[x] \in 0..Inf /\ label.dist[x] \in 0..Inf
      BY <1>1, <1>4
    <2> QED BY <1>1, <2>1, <2>2
  <1>6. \A x \in Nodes \ (queue \ {n}) : LeftAlone(x, r)
    BY <1>3
  <1>7. r.dist[s] = 0
    BY <1>1, <1>2, <1>6 DEF LeftAlone
  <1>8. \A x \in Nodes : Estimates[x] = Estimate(x)
    BY DEF Estimates
  <1> QED BY <1>1, <1>2, <1>3, <1>4, <1>5, <1>6, <1>7, <1>8 DEF r

\* Labels stay bounds: what one node more allows.
LEMMA SettleAtMost ==
  ASSUME GraphInv, NEW s, NEW n, Settles(s, n), NEW x \in Nodes
  PROVE  AtMost(job, s, x, Cardinality(Nodes \ (queue \ {n})), Relaxed(n).dist[x])
PROOF
  <1> DEFINE r == Relaxed(n)
             c == Cardinality(Nodes \ queue)
  <1>1. /\ Inf \in Nat \ {0} /\ queue \subseteq Nodes /\ s \in Nodes /\ n \in Nodes
        /\ \A y \in Nodes : label.dist[y] \in 0..Inf
    BY SettleFacts
  <1>2. /\ Cardinality(Nodes \ (queue \ {n})) = c + 1 /\ c \in Nat /\ c + 1 \in 1..NodeCount
    BY <1>1, OneMoreTaken DEF Settles
  <1>3. \A y \in Nodes : AtMost(job, s, y, c, label.dist[y])
    BY DEF Settles, SearchOK
  <1>4. (c + 1) - 1 = c
    BY <1>2
  <1>5. \/ LeftAlone(x, r)
        \/ \E l : Leads(job, n, l, x) /\ r.dist[x] = label.dist[n] + CostOf(job, l)
    BY <1>1, SettledIs DEF Settles
  <1> HIDE DEF r, c
  <1>6. CASE LeftAlone(x, r)
    <2>1. label.dist[x] \in Nat /\ AtMost(job, s, x, (c + 1) - 1, label.dist[x])
      BY <1>1, <1>3, <1>4
    <2>2. AtMost(job, s, x, c + 1, label.dist[x])
      BY <1>1, <1>2, <2>1, AtMostMore
    <2> QED BY <1>2, <1>6, <2>2 DEF LeftAlone, r
  <1>7. ASSUME NEW l, Leads(job, n, l, x), r.dist[x] = label.dist[n] + CostOf(job, l)
        PROVE  AtMost(job, s, x, c + 1, r.dist[x])
    <2>1. label.dist[n] \in Nat /\ AtMost(job, s, n, (c + 1) - 1, label.dist[n])
      BY <1>1, <1>3, <1>4
    <2>2. AtMost(job, s, x, c + 1, label.dist[n] + CostOf(job, l))
      BY <1>1, <1>2, <1>7, <2>1, AtMostLink
    <2> QED BY <1>7, <2>2
  <1> QED BY <1>2, <1>5, <1>6, <1>7 DEF r

\* A link is no more than its share of Inf.
LEMMA LinkShare ==
  ASSUME GraphInv, NEW kind, NEW l \in ModeLinks
  PROVE  CostOf(kind, l) \in Nat /\ 2 * NodeCount * CostOf(kind, l) <= Inf - 1
PROOF
  <1>1. /\ l \in DOMAIN net /\ CostOf(kind, l) \in Nat /\ CostOf(kind, l) <= net[l].length
        /\ NodeCount \in Nat /\ Inf \in Nat
    BY CostsAre, NodesAre
  <1>2. net[l].length \in Nat /\ 2 * NodeCount * net[l].length < Inf
    BY <1>1, GraphFits DEF IsNetwork, NodeCount
  <1> DEFINE a == CostOf(kind, l)
             b == net[l].length
             k == 2 * NodeCount
  <1>3. k \in Nat /\ a \in Nat /\ b \in Nat /\ a <= b /\ k * b < Inf
    BY <1>1, <1>2
  <1> HIDE DEF a, b, k
  <1>4. k * a <= k * b
    BY <1>3
  <1>5. k * a <= Inf - 1
    <2>1. k * a \in Nat /\ k * b \in Nat
      BY <1>3
    <2> QED BY <1>1, <1>3, <1>4, <2>1
  <1> QED BY <1>3, <1>5 DEF a, k

\* Labels stay small: one link's share more.
LEMMA SettleBounded ==
  ASSUME GraphInv, NEW s, NEW n, Settles(s, n)
  PROVE  Bounded(Cardinality(Nodes \ (queue \ {n})), Relaxed(n).dist)
PROOF
  <1> DEFINE r == Relaxed(n)
             c == Cardinality(Nodes \ queue)
             i == Inf - 1
             k == 2 * NodeCount
  <1>1. /\ Inf \in Nat \ {0} /\ queue \subseteq Nodes /\ n \in Nodes
        /\ \A y \in Nodes : label.dist[y] \in 0..Inf /\ r.dist[y] \in 0..Inf
    BY SettleFacts
  <1>2. Cardinality(Nodes \ (queue \ {n})) = c + 1 /\ c \in Nat /\ NodeCount \in Nat
    BY <1>1, OneMoreTaken, NodesAre DEF Settles
  <1>3. \A y \in Nodes : label.dist[y] = Inf \/ k * label.dist[y] <= c * i
    BY DEF Settles, SearchOK, Bounded
  <1>4. i \in Nat /\ k \in Nat
    BY <1>1, <1>2
  <1>5. ASSUME NEW x \in Nodes, r.dist[x] # Inf PROVE k * r.dist[x] <= (c + 1) * i
    <2>1. \/ r.dist[x] = label.dist[x]
          \/ \E l \in ModeLinks : r.dist[x] = label.dist[n] + CostOf(job, l)
      BY <1>1, SettledIs DEF Settles, LeftAlone, Leads
    <2>2. (c + 1) * i = c * i + i /\ c * i \in Nat
      <3> HIDE DEF c, i
      <3> QED BY <1>2, <1>4
    <2>3. CASE r.dist[x] = label.dist[x]
      <3>1. k * r.dist[x] <= c * i
        BY <1>3, <1>5, <2>3
      <3>2. k * r.dist[x] \in Nat
        <4>1. r.dist[x] \in Nat
          BY <1>1
        <4> HIDE DEF k
        <4> QED BY <1>4, <4>1
      <3> HIDE DEF k, i, c
      <3> QED BY <1>4, <2>2, <3>1, <3>2
    <2>4. ASSUME NEW l \in ModeLinks, r.dist[x] = label.dist[n] + CostOf(job, l)
          PROVE  k * r.dist[x] <= (c + 1) * i
      <3> DEFINE d == label.dist[n]
                 w == CostOf(job, l)
      <3>1. k * d <= c * i
        BY <1>1, <1>3 DEF Settles
      <3>2. w \in Nat /\ k * w <= i /\ d \in Nat
        BY <1>1, LinkShare
      <3> HIDE DEF d, w, k, i, c
      <3>3. k * (d + w) = k * d + k * w /\ k * d \in Nat /\ k * w \in Nat
        BY <1>4, <3>2
      <3>4. k * (d + w) <= (c + 1) * i
        BY <1>4, <2>2, <3>1, <3>2, <3>3
      <3> QED BY <2>4, <3>4 DEF d, w
    <2> QED BY <2>1, <2>3, <2>4
  <1> QED BY <1>2, <1>5, Zenon DEF Bounded, r, k, i

\* The priorities stay those of label and estimate.
LEMMA SettleQueued ==
  ASSUME GraphInv, NEW s, NEW n, Settles(s, n)
  PROVE  Queued(s, queue \ {n}, Relaxed(n), Estimates)
PROOF
  <1> DEFINE r == Relaxed(n)
  <1>1. /\ Inf \in Nat \ {0} /\ queue \subseteq Nodes /\ s \in Nodes \ (queue \ {n}) /\ n \in Nodes
        /\ \A y \in Nodes : label.dist[y] \in 0..Inf /\ Estimates[y] = Estimate(y)
    BY SettleFacts
  <1>2. \A x \in queue : label.prio[x] = IF x = s THEN 0 ELSE IF label.dist[x] = Inf THEN Inf
                                         ELSE label.dist[x] + Estimates[x]
    BY DEF Settles, SearchOK, Queued
  <1>3. ASSUME NEW x \in queue \ {n}
        PROVE  r.prio[x] = IF x = s THEN 0 ELSE IF r.dist[x] = Inf THEN Inf ELSE r.dist[x] + Estimates[x]
    <2>1. x # s /\ x \in Nodes /\ x \in queue
      BY <1>1
    <2>2. LeftAlone(x, r) \/ (r.dist[x] < label.dist[x] /\ r.prio[x] = r.dist[x] + Estimate(x))
      BY <1>1, <2>1, SettledIs DEF Settles
    <2> HIDE DEF r
    <2>3. CASE LeftAlone(x, r)
      BY <1>2, <2>1, <2>3 DEF LeftAlone
    <2>4. CASE r.dist[x] < label.dist[x] /\ r.prio[x] = r.dist[x] + Estimate(x)
      <3>1. r.dist[x] # Inf
        <4>1. label.dist[x] \in 0..Inf
          BY <1>1, <2>1
        <4> QED BY <1>1, <2>4, <4>1
      <3> QED BY <1>1, <2>1, <2>4, <3>1
    <2> QED BY <2>2, <2>3, <2>4
  <1> QED BY <1>1, <1>3 DEF Queued

\* The node taken is no farther away than those left.
LEMMA SettleOrdered ==
  ASSUME GraphInv, NEW s, NEW n, Settles(s, n), Consistent(job, Estimates)
  PROVE  Ordered(queue \ {n}, Relaxed(n).dist, Estimates)
PROOF
  <1> DEFINE r == Relaxed(n)
             e(x) == Estimate(x)
             d(x) == label.dist[x]
  <1>1. /\ Inf \in Nat \ {0} /\ queue \subseteq Nodes /\ s \in Nodes \ (queue \ {n}) /\ n \in Nodes
        /\ \A y \in Nodes : /\ d(y) \in 0..Inf /\ r.dist[y] \in 0..Inf /\ e(y) \in 0..Inf
                            /\ Estimates[y] = e(y)
        /\ \A y \in Nodes \ (queue \ {n}) : LeftAlone(y, r)
        /\ d(s) = 0 /\ n \in queue /\ d(n) # Inf
    BY SettleFacts DEF Settles
  <1>2. \A x \in Nodes \ queue, y \in queue : d(x) + e(x) <= d(y) + e(y)
    BY <1>1 DEF Settles, SearchOK, Ordered
  <1>3. ASSUME NEW y \in queue \ {n} PROVE d(n) + e(n) <= r.dist[y] + e(y)
    <2>1. y \in Nodes /\ y \in queue
      BY <1>1
    <2>2. LeftAlone(y, r) \/ \E l : Leads(job, n, l, y) /\ r.dist[y] = d(n) + CostOf(job, l)
      BY <1>1, <2>1, SettledIs DEF Settles
    <2>3. d(y) \in 0..Inf /\ e(y) \in 0..Inf /\ d(n) \in 0..Inf /\ e(n) \in 0..Inf
      BY <1>1, <2>1
    <2>4. CASE LeftAlone(y, r)
      <3>1. r.dist[y] = d(y)
        BY <2>4 DEF LeftAlone
      <3>2. CASE n # s
        <4>1. d(n) + e(n) <= d(y) + e(y)
          BY <1>1, <2>1, <3>2, PoppedIsNext DEF Settles
        <4> HIDE DEF d, e
        <4> QED BY <3>1, <4>1
      <3>3. CASE n = s
        <4>1. d(y) = Inf
          <5>1. n \in queue => \A x \in Nodes \ {s} : label.dist[x] = Inf
            BY <3>3 DEF Settles, SearchOK, Queued
          <5> QED BY <1>1, <2>1, <3>3, <5>1
        <4>2. d(n) = 0
          BY <1>1, <3>3
        <4> HIDE DEF d, e
        <4> QED BY <1>1, <2>3, <3>1, <4>1, <4>2
      <3> QED BY <3>2, <3>3
    <2>5. ASSUME NEW l, Leads(job, n, l, y), r.dist[y] = d(n) + CostOf(job, l)
          PROVE  d(n) + e(n) <= r.dist[y] + e(y)
      <3>1. e(n) <= CostOf(job, l) + e(y)
        BY <1>1, <2>1, <2>5 DEF Consistent
      <3>2. CostOf(job, l) \in Nat
        BY <2>5, CostsAre DEF Leads
      <3> HIDE DEF d, e
      <3> QED BY <1>1, <2>3, <2>5, <3>1, <3>2
    <2> QED BY <2>2, <2>4, <2>5
  <1>4. ASSUME NEW x \in Nodes \ (queue \ {n}), NEW y \in queue \ {n}
        PROVE  r.dist[x] + e(x) <= r.dist[y] + e(y)
    <2>1. r.dist[x] = d(x)
      BY <1>1 DEF LeftAlone
    <2>2. d(x) + e(x) <= d(n) + e(n)
      <3>1. CASE x = n
        <4>1. d(x) \in 0..Inf /\ e(x) \in 0..Inf
          BY <1>1
        <4> HIDE DEF d, e
        <4> QED BY <1>1, <3>1, <4>1
      <3>2. CASE x # n
        BY <1>1, <1>2, <3>2
      <3> QED BY <3>1, <3>2
    <2>3. d(n) + e(n) <= r.dist[y] + e(y)
      BY <1>3
    <2>4. /\ d(x) \in 0..Inf /\ e(x) \in 0..Inf /\ d(n) \in 0..Inf /\ e(n) \in 0..Inf
          /\ r.dist[y] \in 0..Inf /\ e(y) \in 0..Inf
      <3>1. y \in Nodes /\ x \in Nodes /\ n \in Nodes
        BY <1>1
      <3> QED BY <1>1, <3>1
    <2> HIDE DEF d, e, r
    <2> QED BY <1>1, <2>1, <2>2, <2>3, <2>4
  <1>5. \A x \in Nodes : Estimates[x] = e(x)
    BY <1>1
  <1>6. queue \ {n} \subseteq Nodes
    BY <1>1
  <1> HIDE DEF e
  <1>7. \A x \in Nodes \ (queue \ {n}), y \in queue \ {n} : r.dist[x] + Estimates[x] <= r.dist[y] + Estimates[y]
    BY <1>4, <1>5, <1>6
  <1> QED BY <1>7 DEF Ordered

\* Every link from a node that was taken has been looked at.
LEMMA SettleRelaxes ==
  ASSUME GraphInv, NEW s, NEW n, Settles(s, n), Consistent(job, Estimates)
  PROVE  Relaxes(job, s, queue \ {n}, Relaxed(n).dist)
PROOF
  <1> DEFINE r == Relaxed(n)
             e(x) == Estimate(x)
             d(x) == label.dist[x]
  <1>1. /\ Inf \in Nat \ {0} /\ queue \subseteq Nodes /\ s \in Nodes \ (queue \ {n}) /\ n \in Nodes
        /\ \A y \in Nodes : /\ d(y) \in 0..Inf /\ r.dist[y] \in 0..Inf /\ e(y) \in 0..Inf
                            /\ Estimates[y] = e(y) /\ r.dist[y] <= d(y)
        /\ \A y \in Nodes \ (queue \ {n}) : LeftAlone(y, r)
        /\ r.dist[s] = 0 /\ r \in Labels /\ n \in queue
    BY SettleFacts DEF Settles
  <1>2. /\ \A u \in Nodes \ queue : \A m \in Nodes : \A l : Leads(job, u, l, m) => d(m) <= d(u) + CostOf(job, l)
        /\ \A x \in Nodes \ queue, y \in queue : d(x) + e(x) <= d(y) + e(y)
    <2>1. Relaxes(job, s, queue, label.dist) /\ Ordered(queue, label.dist, Estimates)
      BY DEF Settles, SearchOK
    <2> QED BY <1>1, <2>1 DEF Relaxes, Ordered
  <1>3. ASSUME NEW u \in Nodes \ (queue \ {n}), NEW m \in Nodes, NEW l, Leads(job, u, l, m)
        PROVE  r.dist[m] <= r.dist[u] + CostOf(job, l)
    <2> DEFINE w == CostOf(job, l)
               a == r.dist[m]
    <2>1. w \in Nat
      BY <1>3, CostsAre DEF Leads
    <2>2. r.dist[u] = d(u)
      BY <1>1 DEF LeftAlone
    <2>3. /\ a \in 0..Inf /\ d(m) \in 0..Inf /\ d(u) \in 0..Inf /\ a <= d(m) /\ d(n) \in 0..Inf
          /\ e(m) \in 0..Inf /\ e(n) \in 0..Inf
      BY <1>1
    <2>4. CASE u # n
      <3>1. d(m) <= d(u) + w
        BY <1>2, <1>3, <2>4
      <3> HIDE DEF d, w, a
      <3> QED BY <1>1, <2>1, <2>2, <2>3, <3>1 DEF a, w
    <2>5. CASE u = n /\ m \in queue \ {n}
      <3>1. a <= label.dist[n] + w
        BY <1>1, <1>3, <2>5, SettledIs DEF Settles
      <3> QED BY <2>2, <2>5, <3>1
    <2>6. CASE u = n /\ m = n
      <3> HIDE DEF d, w, a
      <3>1. a = d(u)
        BY <2>2, <2>6 DEF a
      <3> QED BY <1>1, <2>1, <2>2, <2>3, <2>6, <3>1 DEF a, w
    <2>7. CASE u = n /\ m \in Nodes \ queue
      <3>1. d(m) + e(m) <= d(n) + e(n)
        BY <1>1, <1>2, <2>7
      <3>2. e(n) <= w + e(m)
        BY <1>1, <1>3, <2>7 DEF Consistent
      <3> HIDE DEF d, w, a, e
      <3>3. d(m) <= d(n) + w
        BY <1>1, <2>1, <2>3, <3>1, <3>2
      <3> QED BY <1>1, <2>1, <2>2, <2>3, <2>7, <3>3 DEF a, w
    <2>8. u = n => m \in queue \ {n} \/ m = n \/ m \in Nodes \ queue
      OBVIOUS
    <2> QED BY <2>4, <2>5, <2>6, <2>7, <2>8
  <1>4. r.dist \in [Nodes -> 0..Inf]
    BY <1>1, LabelFields
  <1> HIDE DEF r
  <1>5. queue \ {n} \subseteq Nodes /\ s \in Nodes
    BY <1>1
  <1> QED BY <1>1, <1>3, <1>4, <1>5 DEF Relaxes, r

\* Parents come from nodes that were taken, arrivals go with the labels.
LEMMA SettleBacktracks ==
  ASSUME GraphInv, NEW s, NEW n, Settles(s, n)
  PROVE  Backtracks(job, s, queue \ {n}, Relaxed(n)) /\ Arrives(job, Relaxed(n))
PROOF
  <1> DEFINE r == Relaxed(n)
             l(x) == LinkOf(graph, r.parent[x])
             m(x) == LinkOf(graph, label.parent[x])
  <1>1. /\ Inf \in Nat \ {0} /\ queue \subseteq Nodes /\ s \in Nodes \ (queue \ {n}) /\ n \in Nodes
        /\ \A y \in Nodes : label.dist[y] \in 0..Inf
        /\ \A y \in Nodes \ (queue \ {n}) : LeftAlone(y, r)
        /\ label.dist[n] # Inf
    BY SettleFacts DEF Settles
  <1>2. \A x \in Nodes :
          \/ LeftAlone(x, r)
          \/ /\ x \in queue \ {n} /\ r.parent[x] \in Edges(graph) /\ Leads(job, n, l(x), x)
             /\ r.dist[x] = label.dist[n] + CostOf(job, l(x))
             /\ job = "route" => r.arrival[x] = label.arrival[n] + CostOf(job, l(x))
    BY <1>1, SettledIs DEF Settles
  <1>3. /\ label.parent[s] = NoParent
        /\ \A x \in Nodes \ {s} : label.dist[x] # Inf =>
             /\ label.parent[x] \in Edges(graph)
             /\ \E u \in Nodes \ queue : /\ Leads(job, u, m(x), x)
                                         /\ label.dist[x] = label.dist[u] + CostOf(job, m(x))
    BY DEF Settles, SearchOK, Backtracks
  <1>4. job = "route" => \A x \in Nodes : label.dist[x] # Inf => label.arrival[x] = request.departure_time + label.dist[x]
    BY DEF Settles, SearchOK, Arrives
  <1>5. r.parent[s] = NoParent
    BY <1>1, <1>3 DEF LeftAlone
  <1>6. ASSUME NEW x \in Nodes \ {s}, r.dist[x] # Inf
        PROVE  /\ r.parent[x] \in Edges(graph)
               /\ \E u \in Nodes \ (queue \ {n}) : Leads(job, u, l(x), x) /\ r.dist[x] = r.dist[u] + CostOf(job, l(x))
    <2>1. CASE LeftAlone(x, r)
      <3>1. label.dist[x] # Inf /\ r.parent[x] = label.parent[x] /\ r.dist[x] = label.dist[x] /\ l(x) = m(x)
        BY <1>6, <2>1 DEF LeftAlone
      <3>2. PICK u \in Nodes \ queue : Leads(job, u, m(x), x) /\ label.dist[x] = label.dist[u] + CostOf(job, m(x))
        BY <1>3, <3>1
      <3>3. u \in Nodes \ (queue \ {n}) /\ r.dist[u] = label.dist[u]
        BY <1>1 DEF LeftAlone
      <3>4. r.parent[x] \in Edges(graph)
        BY <1>3, <3>1
      <3> HIDE DEF l, m, r
      <3> QED BY <3>1, <3>2, <3>3, <3>4
    <2>2. CASE r.parent[x] \in Edges(graph) /\ Leads(job, n, l(x), x) /\ r.dist[x] = label.dist[n] + CostOf(job, l(x))
      <3>1. n \in Nodes \ (queue \ {n}) /\ r.dist[n] = label.dist[n]
        BY <1>1 DEF LeftAlone
      <3> HIDE DEF l, r
      <3> QED BY <2>2, <3>1
    <2> QED BY <1>2, <2>1, <2>2
  <1>7. Backtracks(job, s, queue \ {n}, r)
    BY <1>5, <1>6 DEF Backtracks
  <1>8. ASSUME job = "route", NEW x \in Nodes, r.dist[x] # Inf
        PROVE  r.arrival[x] = request.departure_time + r.dist[x]
    <2>1. CASE LeftAlone(x, r)
      BY <1>4, <1>8, <2>1 DEF LeftAlone
    <2>2. CASE Leads(job, n, l(x), x) /\ r.dist[x] = label.dist[n] + CostOf(job, l(x)) /\ r.arrival[x] = label.arrival[n] + CostOf(job, l(x))
      <3> DEFINE w == CostOf(job, l(x))
                 d == label.dist[n]
                 t == request.departure_time
      <3>1. w \in Nat /\ d \in Nat /\ t \in Nat
        <4>1. w \in Nat
          BY <2>2, CostsAre DEF Leads
        <4>2. t \in Nat
          BY AStarAssumption DEF GraphInv
        <4> QED BY <1>1, <4>1, <4>2
      <3>2. label.arrival[n] = t + d
        BY <1>1, <1>4, <1>8
      <3> HIDE DEF w, d, t
      <3>3. (t + d) + w = t + (d + w)
        BY <3>1
      <3> QED BY <2>2, <3>2, <3>3 DEF w, d, t
    <2> QED BY <1>2, <1>8, <2>1, <2>2
  <1>9. Arrives(job, r)
    BY <1>8 DEF Arrives
  <1> QED BY <1>7, <1>9 DEF r

\* Settle keeps all of it.
LEMMA SettleKeeps ==
  ASSUME GraphInv, NEW s, NEW n, Settles(s, n)
  PROVE  SearchOK(job, s, queue \ {n}, Relaxed(n), Estimates)
PROOF
  <1> DEFINE r == Relaxed(n)
             q == queue \ {n}
  <1>1. /\ r \in Labels /\ q \subseteq Nodes /\ s \in Nodes /\ r.dist[s] = 0
        /\ \A x \in Nodes \ q : r.dist[x] # Inf
    <2>1. /\ queue \subseteq Nodes /\ s \in Nodes /\ r \in Labels /\ r.dist[s] = 0 /\ label.dist[n] # Inf
          /\ \A y \in Nodes \ q : r.dist[y] = label.dist[y]
      BY SettleFacts DEF Settles, LeftAlone
    <2>2. \A x \in Nodes \ queue : label.dist[x] # Inf
      BY DEF Settles, SearchOK
    <2> QED BY <2>1, <2>2
  <1>2. \A x \in Nodes : AtMost(job, s, x, Cardinality(Nodes \ q), r.dist[x])
    BY SettleAtMost
  <1>3. Bounded(Cardinality(Nodes \ q), r.dist)
    BY SettleBounded
  <1>4. Queued(s, q, r, Estimates)
    BY SettleQueued
  <1>5. Consistent(job, Estimates) => Relaxes(job, s, q, r.dist) /\ Ordered(q, r.dist, Estimates)
    BY SettleRelaxes, SettleOrdered
  <1>6. Backtracks(job, s, q, r) /\ Arrives(job, r)
    BY SettleBacktracks
  <1> HIDE DEF r, q
  <1>7. SearchOK(job, s, q, r, Estimates)
    BY <1>1, <1>2, <1>3, <1>4, <1>5, <1>6 DEF SearchOK
  <1> QED BY <1>7 DEF r, q

-----------------------------------------------------------------------------
(* A search begins.                                                         *)

\* get_initial_queue establishes it.
LEMMA SearchStarts ==
  ASSUME GraphInv, NEW kind, NEW s \in Nodes, NEW h \in [Nodes -> 0..Inf]
  PROVE  SearchOK(kind, s, Nodes, InitialLabel(s), h)
PROOF
  <1> DEFINE lab == InitialLabel(s)
  <1>1. Inf \in Nat \ {0} /\ request.departure_time \in Nat
    BY NodesAre, AStarAssumption DEF GraphInv
  <1>2. lab = [dist |-> [n \in Nodes |-> IF n = s THEN 0 ELSE Inf],
               prio |-> [n \in Nodes |-> IF n = s THEN 0 ELSE Inf],
               arrival |-> [n \in Nodes |-> IF n = s THEN request.departure_time ELSE Inf],
               parent |-> [n \in Nodes |-> 0]]
    BY DEF InitialLabel, Nodes, NoParent
  <1> HIDE DEF lab
  <1>3. lab \in Labels
    BY <1>1, <1>2 DEF Labels
  <1>4. \A x \in Nodes : /\ lab.dist[x] = (IF x = s THEN 0 ELSE Inf) /\ lab.prio[x] = (IF x = s THEN 0 ELSE Inf)
                         /\ lab.arrival[x] = (IF x = s THEN request.departure_time ELSE Inf) /\ lab.parent[x] = 0
    BY <1>2
  <1>5. Nodes \ Nodes = {} /\ Cardinality({}) = 0
    BY FS_EmptySet
  <1>6. \A x \in Nodes : AtMost(kind, s, x, Cardinality(Nodes \ Nodes), lab.dist[x])
    BY <1>4, <1>5, AtMostStart
  <1>7. Bounded(Cardinality(Nodes \ Nodes), lab.dist)
    <2>1. NodeCount \in Nat
      BY NodesAre
    <2>2. 2 * NodeCount * 0 <= 0 * (Inf - 1)
      BY <1>1, <2>1
    <2> QED BY <1>4, <1>5, <2>2 DEF Bounded
  <1>8. Queued(s, Nodes, lab, h)
    BY <1>4 DEF Queued
  <1>9. Relaxes(kind, s, Nodes, lab.dist) /\ Ordered(Nodes, lab.dist, h)
    <2>1. lab.dist \in [Nodes -> 0..Inf] /\ lab.dist[s] = 0
      BY <1>3, <1>4, LabelFields
    <2> QED BY <1>5, <2>1 DEF Relaxes, Ordered
  <1>10. Backtracks(kind, s, Nodes, lab)
    BY <1>4 DEF Backtracks, NoParent
  <1>11. Arrives(kind, lab)
    <2> SUFFICES ASSUME NEW x \in Nodes, lab.dist[x] # Inf PROVE lab.arrival[x] = request.departure_time + lab.dist[x]
      BY DEF Arrives
    <2>1. x = s
      BY <1>4
    <2> QED BY <1>1, <1>4, <2>1
  <1> QED BY <1>3, <1>4, <1>5, <1>6, <1>7, <1>8, <1>9, <1>10, <1>11 DEF SearchOK, lab

-----------------------------------------------------------------------------
(* What a search has found.                                                 *)

\* No more nodes are taken than there are.
LEMMA TakenCount ==
  ASSUME GraphInv, NEW q, q \subseteq Nodes
  PROVE  Cardinality(Nodes \ q) \in 0..NodeCount
PROOF
  <1> DEFINE A == Nodes \ q
  <1>1. IsFiniteSet(Nodes) /\ Cardinality(Nodes) = NodeCount /\ NodeCount \in Nat /\ A \subseteq Nodes
    BY NodesAre
  <1> HIDE DEF A
  <1>2. IsFiniteSet(A) /\ Cardinality(A) <= Cardinality(Nodes)
    BY <1>1, FS_Subset
  <1>3. Cardinality(A) \in Nat
    BY <1>2, FS_CardinalityType
  <1> QED BY <1>1, <1>2, <1>3 DEF A

\* What is known is below half of Inf.
LEMMA BoundedIsSmall ==
  ASSUME GraphInv, NEW c \in 0..NodeCount, NEW d \in [Nodes -> 0..Inf], Bounded(c, d), NEW x \in Nodes
  PROVE  d[x] = Inf \/ 2 * d[x] < Inf
PROOF
  <1> DEFINE i == Inf - 1
             n == NodeCount
             v == d[x]
  <1>1. n \in Nat /\ n >= 1 /\ Inf \in Nat \ {0} /\ i \in Nat /\ c \in Nat /\ c <= n
    BY NodesAre
  <1>2. v \in Nat
    <2>1. v \in 0..Inf
      OBVIOUS
    <2> HIDE DEF v
    <2> QED BY <1>1, <2>1
  <1>3. v = Inf \/ 2 * n * v <= c * i
    BY DEF Bounded
  <1> SUFFICES ASSUME v # Inf, 2 * v >= i + 1 PROVE FALSE
    <2>1. 2 * v < Inf \/ 2 * v >= i + 1
      <3> HIDE DEF v
      <3> QED BY <1>1, <1>2
    <2> QED BY <2>1
  <1> HIDE DEF i, n, v
  <1>4. n * (2 * v) >= n * (i + 1)
    BY <1>1, <1>2
  <1>5. n * (2 * v) = 2 * n * v /\ n * (i + 1) = n * i + n
    BY <1>1, <1>2
  <1>6. c * i <= n * i
    BY <1>1
  <1>7. n * i \in Nat /\ c * i \in Nat /\ 2 * n * v \in Nat
    BY <1>1, <1>2
  <1> QED BY <1>1, <1>3, <1>4, <1>5, <1>6, <1>7

\* No estimate at all.
Zero == [x \in Nodes |-> 0]

\* Dijkstra's estimate is consistent.
LEMMA ZeroIsConsistent ==
  ASSUME GraphInv, NEW kind, NEW h, \A x \in Nodes : h[x] = 0
  PROVE  Consistent(kind, h)
PROOF
  <1> SUFFICES ASSUME NEW u \in Nodes, NEW m \in Nodes, NEW l, Leads(kind, u, l, m)
               PROVE  h[u] <= CostOf(kind, l) + h[m]
    BY DEF Consistent
  <1>1. CostOf(kind, l) \in Nat
    BY CostsAre DEF Leads
  <1> QED BY <1>1

\* Without what is still in the queue at b or more, the labels are the least costs.
LEMMA LowerBound ==
  ASSUME GraphInv, NEW kind, NEW s, NEW q, NEW d, Relaxes(kind, s, q, d),
         NEW h \in [Nodes -> Nat], Consistent(kind, h), kind = "backward" => \A y \in Nodes : h[y] = 0,
         NEW x \in Nodes, \A y \in q : d[x] + h[x] <= d[y] + h[y]
  PROVE  d[x] <= CostTo(kind, s, x)
PROOF
  <1>1. d \in [Nodes -> 0..Inf] /\ q \subseteq Nodes /\ Inf \in Nat
    BY NodesAre DEF Relaxes
  <1>2. \A y \in Nodes : d[y] \in Nat /\ h[y] \in Nat
    BY <1>1
  <1>3. CASE kind = "backward"
    <2>1. \A y \in q : d[x] <= d[y]
      <3> SUFFICES ASSUME NEW y \in q PROVE d[x] <= d[y]
        OBVIOUS
      <3>1. y \in Nodes
        BY <1>1
      <3>2. h[x] = 0 /\ h[y] = 0 /\ d[x] \in Nat /\ d[y] \in Nat /\ d[x] + h[x] <= d[y] + h[y]
        BY <1>2, <1>3, <3>1
      <3> QED BY <3>2
    <2> QED BY <1>3, <2>1, BackwardLower
  <1>4. CASE kind # "backward"
    <2> DEFINE b == d[x] + h[x]
    <2>1. b \in Nat /\ b <= b
      BY <1>2
    <2> HIDE DEF b
    <2>2. (\A y \in q : b <= d[y] + h[y]) /\ d[x] + h[x] <= b
      BY <2>1 DEF b
    <2> QED BY <1>4, <2>1, <2>2, ForwardLower
  <1> QED BY <1>3, <1>4

\* A label is never below the least cost.
LEMMA UpperBound ==
  ASSUME GraphInv, NEW kind, NEW s, NEW q, NEW lab, NEW h, SearchOK(kind, s, q, lab, h), NEW x \in Nodes
  PROVE  CostTo(kind, s, x) \in 0..Inf /\ CostTo(kind, s, x) <= lab.dist[x] /\ lab.dist[x] \in 0..Inf
PROOF
  <1>1. lab.dist[x] \in 0..Inf /\ lab.dist[x] \in Nat
    BY LabelFields, NodesAre DEF SearchOK
  <1>2. AtMost(kind, s, x, Cardinality(Nodes \ q), lab.dist[x]) /\ s \in Nodes /\ q \subseteq Nodes
    BY DEF SearchOK
  <1>3. Cardinality(Nodes \ q) \in 0..NodeCount
    BY <1>2, TakenCount
  <1> QED BY <1>1, <1>2, <1>3, CostToIs

\* The label of a node that was taken is its least cost ...
LEMMA SettledFinal ==
  ASSUME GraphInv, NEW kind, NEW s, NEW q, NEW lab, NEW h \in [Nodes -> 0..Inf], SearchOK(kind, s, q, lab, h),
         Consistent(kind, h), kind = "backward" => \A y \in Nodes : h[y] = 0, NEW x \in Nodes \ q
  PROVE  lab.dist[x] = CostTo(kind, s, x)
PROOF
  <1>1. Inf \in Nat /\ h \in [Nodes -> Nat]
    <2>1. Inf \in Nat
      BY NodesAre
    <2>2. \A y \in Nodes : h[y] \in Nat
      BY <2>1
    <2> QED BY <2>1, <2>2
  <1>2. Relaxes(kind, s, q, lab.dist) /\ \A y \in q : lab.dist[x] + h[x] <= lab.dist[y] + h[y]
    BY DEF SearchOK, Ordered
  <1>3. lab.dist[x] <= CostTo(kind, s, x)
    BY <1>1, <1>2, LowerBound
  <1>4. CostTo(kind, s, x) \in 0..Inf /\ CostTo(kind, s, x) <= lab.dist[x] /\ lab.dist[x] \in 0..Inf
    BY UpperBound
  <1> QED BY <1>1, <1>3, <1>4

\* The search is at its destination n.
LEMMA TargetFinal ==
  ASSUME GraphInv, NEW s, NEW n, Settles(s, n), Consistent(job, Estimates),
         job = "backward" => \A y \in Nodes : Estimates[y] = 0
  PROVE  label.dist[n] = CostTo(job, s, n)
PROOF
  <1>1. /\ Inf \in Nat \ {0} /\ queue \subseteq Nodes /\ n \in Nodes /\ label.dist[s] = 0 /\ s \in Nodes
        /\ \A y \in Nodes : label.dist[y] \in 0..Inf /\ Estimate(y) \in 0..Inf /\ Estimates[y] = Estimate(y)
    BY SettleFacts
  <1>2. Estimates \in [Nodes -> Nat]
    <2>1. \A y \in Nodes : Estimate(y) \in Nat
      BY <1>1
    <2> QED BY <2>1 DEF Estimates
  <1>3. Relaxes(job, s, queue, label.dist)
    BY DEF Settles, SearchOK
  <1>4. label.dist[n] <= CostTo(job, s, n)
    <2>1. CASE n = s
      <3>1. CostTo(job, s, n) \in 0..Inf
        BY <1>1, CostToIs
      <3> QED BY <1>1, <2>1, <3>1
    <2>2. CASE n # s
      <3>1. \A y \in queue : label.dist[n] + Estimate(n) <= label.dist[y] + Estimate(y)
        BY <2>2, PoppedIsNext DEF Settles
      <3>2. \A y \in queue : label.dist[n] + Estimates[n] <= label.dist[y] + Estimates[y]
        BY <1>1, <3>1
      <3> QED BY <1>1, <1>2, <1>3, <3>2, LowerBound
    <2> QED BY <2>1, <2>2
  <1>5. CostTo(job, s, n) \in 0..Inf /\ CostTo(job, s, n) <= label.dist[n] /\ label.dist[n] \in 0..Inf
    BY <1>1, UpperBound DEF Settles
  <1> QED BY <1>1, <1>4, <1>5

\* The search stops at a node n that it has not reached: then what is left is out of reach.
LEMMA LeftIsUnreached ==
  ASSUME GraphInv, Typed, \A y \in Nodes : 2 * Estimate(y) < Inf, NEW s, SearchOK(job, s, queue, label, Estimates),
         NEW n \in queue, Popped(n), label.dist[n] = Inf, NEW y \in queue
  PROVE  label.dist[y] = Inf
PROOF
  <1>1. y \in Nodes /\ Inf \in Nat \ {0} /\ label.dist \in [Nodes -> 0..Inf] /\ queue \subseteq Nodes
    BY NodesAre, LabelFields DEF Typed
  <1>2. Inf <= label.dist[y] + Estimate(y)
    BY PoppedIsNext
  <1>3. Bounded(Cardinality(Nodes \ queue), label.dist) /\ Cardinality(Nodes \ queue) \in 0..NodeCount
    BY <1>1, TakenCount DEF SearchOK
  <1>4. label.dist[y] = Inf \/ 2 * label.dist[y] < Inf
    BY <1>1, <1>3, BoundedIsSmall
  <1>5. label.dist[y] \in 0..Inf /\ Estimate(y) \in 0..Inf /\ 2 * Estimate(y) < Inf
    BY <1>1 DEF Typed
  <1> QED BY <1>1, <1>2, <1>4, <1>5

\* With nothing reachable left, every label is final.
LEMMA UnreachedIsFinal ==
  ASSUME GraphInv, Typed, NEW s, SearchOK(job, s, queue, label, Estimates),
         Consistent(job, Estimates), \A y \in queue : label.dist[y] = Inf
  PROVE  /\ Relaxes(job, s, {}, label.dist)
         /\ \A x \in Nodes : label.dist[x] = CostTo(job, s, x)
         /\ \A x \in Nodes : label.dist[x] = Inf \/ 2 * label.dist[x] < Inf
PROOF
  <1>1. Inf \in Nat \ {0} /\ label.dist \in [Nodes -> 0..Inf] /\ queue \subseteq Nodes
    BY NodesAre, LabelFields DEF Typed
  <1>2. Relaxes(job, s, queue, label.dist)
    BY DEF SearchOK
  <1>3. ASSUME NEW u \in Nodes, NEW m \in Nodes, NEW l, Leads(job, u, l, m)
        PROVE  label.dist[m] <= label.dist[u] + CostOf(job, l)
    <2>1. CASE u \in queue
      <3>1. CostOf(job, l) \in Nat /\ label.dist[m] \in 0..Inf /\ label.dist[u] = Inf
        BY <1>1, <1>3, <2>1, CostsAre DEF Leads
      <3> QED BY <1>1, <3>1
    <2>2. CASE u \notin queue
      BY <1>2, <1>3, <2>2 DEF Relaxes
    <2> QED BY <2>1, <2>2
  <1>4. Relaxes(job, s, {}, label.dist)
    BY <1>2, <1>3 DEF Relaxes
  <1>5. ASSUME NEW x \in Nodes PROVE label.dist[x] = CostTo(job, s, x)
    <2>1. Zero \in [Nodes -> Nat] /\ \A y \in Nodes : Zero[y] = 0
      BY DEF Zero
    <2>2. Consistent(job, Zero)
      BY <2>1, ZeroIsConsistent
    <2>3. label.dist[x] <= CostTo(job, s, x)
      BY <1>4, <2>1, <2>2, LowerBound
    <2>4. CostTo(job, s, x) \in 0..Inf /\ CostTo(job, s, x) <= label.dist[x] /\ label.dist[x] \in 0..Inf
      BY UpperBound
    <2> QED BY <1>1, <2>3, <2>4
  <1>6. Bounded(Cardinality(Nodes \ queue), label.dist) /\ Cardinality(Nodes \ queue) \in 0..NodeCount
    BY <1>1, TakenCount DEF SearchOK
  <1>7. \A x \in Nodes : label.dist[x] = Inf \/ 2 * label.dist[x] < Inf
    BY <1>1, <1>6, BoundedIsSmall
  <1> QED BY <1>4, <1>5, <1>7

-----------------------------------------------------------------------------
(* The estimates.                                                           *)

\* The maximum of a set of numbers.
LEMMA MaxIs ==
  ASSUME NEW S, NEW x \in S, \A y \in S : x >= y
  PROVE  Max(S) \in S /\ \A y \in S : Max(S) >= y
  BY DEF Max

\* The maximum as AltHeuristic::estimate takes it.
LEMMA MaxOfFew ==
  ASSUME NEW a \in Int, NEW b \in Int, NEW A, A \subseteq {a}, NEW B, B \subseteq {b}
  PROVE  /\ Max({0} \cup A \cup B) \in {0} \cup A \cup B
         /\ \A y \in {0} \cup A \cup B : Max({0} \cup A \cup B) >= y
PROOF
  <1> DEFINE S == {0} \cup A \cup B
  <1>1. \E x \in S : \A y \in S : x >= y
    <2>1. CASE A = {a} /\ a >= 0 /\ (B = {} \/ a >= b)
      <3>1. a \in S /\ \A y \in S : a >= y
        BY <2>1
      <3> QED BY <3>1
    <2>2. CASE B = {b} /\ b >= 0 /\ (A = {} \/ b >= a)
      <3>1. b \in S /\ \A y \in S : b >= y
        BY <2>2
      <3> QED BY <3>1
    <2>3. CASE (A = {} \/ 0 >= a) /\ (B = {} \/ 0 >= b)
      <3>1. 0 \in S /\ \A y \in S : 0 >= y
        BY <2>3
      <3> QED BY <3>1
    <2>4. (A = {} \/ A = {a}) /\ (B = {} \/ B = {b})
      OBVIOUS
    <2>5. \/ A = {a} /\ a >= 0 /\ (B = {} \/ a >= b)
          \/ B = {b} /\ b >= 0 /\ (A = {} \/ b >= a)
          \/ (A = {} \/ 0 >= a) /\ (B = {} \/ 0 >= b)
      BY <2>4
    <2> QED BY <2>1, <2>2, <2>3, <2>5
  <1> HIDE DEF S
  <1>2. Max(S) \in S /\ \A y \in S : Max(S) >= y
    BY <1>1, MaxIs
  <1> QED BY <1>2, Zenon DEF S

\* The estimate is one of the two differences, or zero, and none is greater.
LEMMA AltEstimateIs ==
  ASSUME GraphInv, to_all.forward \in [Nodes -> 0..Inf], to_all.backward \in [Nodes -> 0..Inf],
         NEW x \in Nodes, NEW t \in Nodes
  PROVE  /\ AltEstimate(x, t) \in Nat
         /\ to_all.forward[x] # Inf /\ to_all.backward[t] # Inf =>
              AltEstimate(x, t) >= to_all.forward[x] - to_all.backward[t]
         /\ to_all.forward[t] # Inf /\ to_all.backward[x] # Inf =>
              AltEstimate(x, t) >= to_all.forward[t] - to_all.backward[x]
         /\ \/ AltEstimate(x, t) = 0
            \/ /\ to_all.forward[x] # Inf /\ to_all.backward[t] # Inf
               /\ AltEstimate(x, t) = to_all.forward[x] - to_all.backward[t]
            \/ /\ to_all.forward[t] # Inf /\ to_all.backward[x] # Inf
               /\ AltEstimate(x, t) = to_all.forward[t] - to_all.backward[x]
PROOF
  <1> DEFINE f == to_all.forward
             b == to_all.backward
             A == IF f[x] # Inf /\ b[t] # Inf THEN {f[x] - b[t]} ELSE {}
             B == IF f[t] # Inf /\ b[x] # Inf THEN {f[t] - b[x]} ELSE {}
             e == AltEstimate(x, t)
  <1>1. Inf \in Nat
    BY NodesAre
  <1>2. f[x] - b[t] \in Int /\ f[t] - b[x] \in Int
    <2>1. f[x] \in Int /\ b[t] \in Int /\ f[t] \in Int /\ b[x] \in Int
      BY <1>1
    <2> QED BY <2>1
  <1>3. e = Max({0} \cup A \cup B)
    BY Zenon DEF AltEstimate
  <1>4. A \subseteq {f[x] - b[t]} /\ B \subseteq {f[t] - b[x]}
    OBVIOUS
  <1> HIDE DEF e
  <1>5. e \in {0} \cup A \cup B /\ \A y \in {0} \cup A \cup B : e >= y
    <2> DEFINE S == {0} \cup A \cup B
               y == f[x] - b[t]
               z == f[t] - b[x]
    <2>1. y \in Int /\ z \in Int /\ A \subseteq {y} /\ B \subseteq {z}
      BY <1>2, <1>4
    <2> HIDE DEF A, B, y, z
    <2>2. Max(S) \in S /\ \A i \in S : Max(S) >= i
      BY <2>1, MaxOfFew
    <2> HIDE DEF S
    <2>3. e \in S /\ \A i \in S : e >= i
      BY <1>3, <2>2 DEF S
    <2> QED BY <2>3 DEF S
  <1> HIDE DEF f, b
  <1>6. e \in Int /\ e >= 0
    BY <1>2, <1>5
  <1>7. /\ f[x] # Inf /\ b[t] # Inf => e >= f[x] - b[t]
        /\ f[t] # Inf /\ b[x] # Inf => e >= f[t] - b[x]
    BY <1>5
  <1>8. \/ e = 0
        \/ f[x] # Inf /\ b[t] # Inf /\ e = f[x] - b[t]
        \/ f[t] # Inf /\ b[x] # Inf /\ e = f[t] - b[x]
    BY <1>5
  <1>9. e \in Nat
    BY <1>6
  <1> QED BY <1>7, <1>8, <1>9 DEF e, f, b

\* With both directions known, an estimate is below half of Inf.
LEMMA AltEstimateIsSmall ==
  ASSUME GraphInv, NEW x \in Nodes, NEW t \in Nodes,
         Known("forward", landmark, to_all.forward), Known("backward", landmark, to_all.backward)
  PROVE  AltEstimate(x, t) \in 0..Inf /\ 2 * AltEstimate(x, t) < Inf
PROOF
  <1> DEFINE f == to_all.forward
             b == to_all.backward
             e == AltEstimate(x, t)
  <1>1. Inf \in Nat \ {0}
    BY NodesAre
  <1>2. /\ f \in [Nodes -> 0..Inf] /\ b \in [Nodes -> 0..Inf]
        /\ \A y \in Nodes : f[y] = Inf \/ 2 * f[y] < Inf
    BY DEF Known, Relaxes
  <1>3. e \in Nat /\ \/ e = 0
                     \/ f[x] # Inf /\ e = f[x] - b[t]
                     \/ f[t] # Inf /\ e = f[t] - b[x]
    BY <1>2, AltEstimateIs
  <1>4. f[x] \in 0..Inf /\ b[x] \in 0..Inf /\ f[t] \in 0..Inf /\ b[t] \in 0..Inf
    BY <1>2
  <1>5. (f[x] = Inf \/ 2 * f[x] < Inf) /\ (f[t] = Inf \/ 2 * f[t] < Inf)
    BY <1>2
  <1> HIDE DEF e, f, b
  <1>6. 2 * e < Inf /\ e \in 0..Inf
    BY <1>1, <1>3, <1>4, <1>5
  <1> QED BY <1>6 DEF e

\* Estimates of unreachable nodes do not outgrow Inf.
LEMMA EstimateIs ==
  ASSUME GraphInv,
         job = "route" /\ heuristic = "alt" =>
           ToNode \in Nodes /\ Known("forward", landmark, to_all.forward) /\ Known("backward", landmark, to_all.backward)
  PROVE  \A x \in Nodes : Estimate(x) \in 0..Inf /\ 2 * Estimate(x) < Inf
PROOF
  <1> SUFFICES ASSUME NEW x \in Nodes PROVE Estimate(x) \in 0..Inf /\ 2 * Estimate(x) < Inf
    OBVIOUS
  <1>1. CASE ~(job = "route" /\ heuristic = "alt")
    <2>1. Estimate(x) = 0 /\ Inf \in Nat \ {0}
      BY <1>1, NodesAre DEF Estimate
    <2> QED BY <2>1
  <1>2. CASE job = "route" /\ heuristic = "alt"
    <2>1. Estimate(x) = AltEstimate(x, ToNode)
      BY <1>2 DEF Estimate
    <2>2. AltEstimate(x, ToNode) \in 0..Inf /\ 2 * AltEstimate(x, ToNode) < Inf
      BY <1>2, AltEstimateIsSmall
    <2> QED BY <2>1, <2>2, Zenon
  <1> QED BY <1>1, <1>2

\* On a network that can be driven in both directions at the same cost, the estimates never
\* fall by more than a link costs.
LEMMA AltIsConsistent ==
  ASSUME GraphInv, job = "route", heuristic = "alt", Symmetric, ToNode \in Nodes,
         Known("forward", landmark, to_all.forward), Known("backward", landmark, to_all.backward)
  PROVE  Consistent(job, Estimates)
PROOF
  <1> DEFINE t == ToNode
             f == to_all.forward
             b == to_all.backward
  <1>1. /\ f \in [Nodes -> 0..Inf] /\ b \in [Nodes -> 0..Inf] /\ landmark \in Nodes
        /\ \A x \in Nodes : /\ f[x] = CostTo("forward", landmark, x) /\ b[x] = CostTo("backward", landmark, x)
                            /\ f[x] = Inf \/ 2 * f[x] < Inf
        /\ \A u \in Nodes : \A m \in Nodes : \A l : Leads("forward", u, l, m) => f[m] <= f[u] + CostOf("forward", l)
        /\ \A u \in Nodes : \A m \in Nodes : \A l : Leads("backward", u, l, m) => b[m] <= b[u] + CostOf("backward", l)
    BY DEF Known, Relaxes
  <1>2. Inf \in Nat \ {0} /\ NodeCount \in Nat /\ Nodes = 1..NodeCount /\ \A x \in Nodes : Id(x) \in NodeIdsOf(net)
    BY NodesAre
  <1>3. \A x \in Nodes : f[x] = b[x]
    <2> SUFFICES ASSUME NEW x \in Nodes PROVE f[x] = b[x]
      OBVIOUS
    <2>1. CostsOf("forward") = [l \in ModeLinks |-> LinkMinTravelDisutility(net[l])]
      BY DEF CostsOf, CostOf
    <2>2. CostsOf("backward") = [l \in ModeLinks |-> LinkMinTravelDisutility(net[l])]
      BY DEF CostsOf, CostOf
    <2>3. f[x] = MinCosts(Id(landmark))[Id(x)]
      BY <1>1, <2>1 DEF CostTo, MinCosts
    <2>4. b[x] = MinCosts(Id(x))[Id(landmark)]
      BY <1>1, <2>2 DEF CostTo, MinCosts
    <2> QED BY <1>1, <1>2, <2>3, <2>4 DEF Symmetric
  <1> SUFFICES ASSUME NEW u \in Nodes, NEW m \in Nodes, NEW l, Leads(job, u, l, m)
               PROVE  Estimates[u] <= CostOf(job, l) + Estimates[m]
    BY DEF Consistent
  <1> DEFINE w == CostOf(job, l)
             z == CostOf("forward", l)
  <1>4. /\ Leads("forward", u, l, m) /\ Leads("backward", m, l, u) /\ l \in ModeLinks
    BY DEF Leads
  <1>5. z = LinkMinTravelDisutility(net[l]) /\ CostOf("backward", l) = z
    BY DEF CostOf
  <1>6. w \in Nat /\ z \in Nat /\ z <= w
    BY <1>4, <1>5, CostsAre
  <1>7. 2 * z <= Inf - 1
    <2>1. 2 * NodeCount * z <= Inf - 1
      BY <1>4, LinkShare
    <2>2. NodeCount >= 1
      BY <1>2
    <2> HIDE DEF z
    <2>3. 2 * NodeCount * z = NodeCount * (2 * z) /\ NodeCount * (2 * z) >= 2 * z
      BY <1>2, <1>6, <2>2
    <2>4. 2 * NodeCount * z \in Nat
      BY <1>2, <1>6
    <2> QED BY <1>2, <1>6, <2>1, <2>3, <2>4
  <1>8. f[m] <= f[u] + z /\ f[u] <= f[m] + z
    BY <1>1, <1>3, <1>4, <1>5
  <1>9. /\ f[u] \in 0..Inf /\ f[m] \in 0..Inf /\ f[t] \in 0..Inf
        /\ f[u] = Inf \/ 2 * f[u] < Inf
        /\ f[m] = Inf \/ 2 * f[m] < Inf
    BY <1>1
  <1> DEFINE e == AltEstimate(u, t)
             g == AltEstimate(m, t)
  <1>10. Estimates[u] = e /\ Estimates[m] = g
    BY DEF Estimates, Estimate
  <1>11. b[t] = f[t] /\ b[u] = f[u] /\ b[m] = f[m]
    BY <1>3
  <1>12. /\ e \in Nat /\ g \in Nat
         /\ f[m] # Inf /\ f[t] # Inf => g >= f[m] - f[t] /\ g >= f[t] - f[m]
         /\ e = 0 \/ (f[u] # Inf /\ f[t] # Inf /\ (e = f[u] - f[t] \/ e = f[t] - f[u]))
    <2>1. /\ e \in Nat
          /\ \/ e = 0
             \/ f[u] # Inf /\ b[t] # Inf /\ e = f[u] - b[t]
             \/ f[t] # Inf /\ b[u] # Inf /\ e = f[t] - b[u]
      <3> HIDE DEF t
      <3> QED BY <1>1, AltEstimateIs DEF t
    <2>2. /\ g \in Nat
          /\ f[m] # Inf /\ b[t] # Inf => g >= f[m] - b[t]
          /\ f[t] # Inf /\ b[m] # Inf => g >= f[t] - b[m]
      <3> HIDE DEF t
      <3> QED BY <1>1, AltEstimateIs DEF t
    <2> HIDE DEF e, g, f, b, t
    <2> QED BY <1>11, <2>1, <2>2
  <1> HIDE DEF e, g, w, z, f, t
  <1>13. e <= w + g
    <2>1. CASE e = 0
      BY <1>6, <1>12, <2>1
    <2>2. CASE f[u] # Inf /\ f[t] # Inf /\ (e = f[u] - f[t] \/ e = f[t] - f[u])
      <3>1. f[m] # Inf
        BY <1>2, <1>6, <1>7, <1>8, <1>9, <2>2
      <3>2. g >= f[m] - f[t] /\ g >= f[t] - f[m]
        BY <1>12, <2>2, <3>1
      <3> DEFINE a == f[u]
                 c == f[m]
                 v == f[t]
      <3>3. a \in Int /\ c \in Int /\ v \in Int /\ e \in Int /\ g \in Int /\ w \in Int /\ z \in Int /\ z <= w
        BY <1>2, <1>6, <1>9, <1>12
      <3>4. c <= a + z /\ a <= c + z /\ g >= c - v /\ g >= v - c /\ (e = a - v \/ e = v - a)
        BY <1>8, <2>2, <3>2
      <3> HIDE DEF a, c, v
      <3> QED BY <3>3, <3>4
    <2> QED BY <1>12, <2>1, <2>2
  <1> QED BY <1>10, <1>13 DEF w

-----------------------------------------------------------------------------
(* The parts of the invariant together.                                     *)

\* The links of a request, and the nodes between which the way is looked for.
LEMMA RouteNodes ==
  ASSUME GraphInv, {request.from, request.to} \subseteq ModeLinks
  PROVE  /\ RouteStart \in Nodes /\ Id(RouteStart) = net[request.from].to
         /\ ToNode \in Nodes /\ Id(ToNode) = net[request.to].from
         /\ EndNode(graph, request.from) = net[request.from].to
         /\ StartNode(graph, request.to) = net[request.to].from
PROOF
  <1>1. /\ EndNode(graph, request.from) = net[request.from].to
        /\ StartNode(graph, request.to) = net[request.to].from
    BY GraphFits, LinkFound
  <1>2. ASSUME NEW v \in NodeIdsOf(net) PROVE NodeIdx(graph, v) \in Nodes /\ Id(NodeIdx(graph, v)) = v
    <2>1. PICK i \in Nodes : Id(i) = v
      BY NodesAre
    <2> QED BY <2>1, IndexInIs, Zenon DEF NodeIdx, Nodes, NodeIndices, Id, NodeOf
  <1>3. net[request.from].to \in NodeIdsOf(net) /\ net[request.to].from \in NodeIdsOf(net)
    BY NodesAre
  <1> QED BY <1>1, <1>2, <1>3 DEF RouteStart, ToNode

\* The graph has the links of the mode.
LEMMA HasLinkIs ==
  ASSUME GraphInv, NEW l
  PROVE  HasLink(graph, l) <=> l \in ModeLinks
PROOF
  <1>1. IsGraphOf(graph, net, ModeLinks)
    BY GraphFits
  <1>2. ASSUME HasLink(graph, l) PROVE l \in ModeLinks
    <2>1. PICK k \in DOMAIN graph.forward_link_id_by_index : LinkOf(graph, k) = l
      BY <1>2 DEF HasLink, LinkOf
    <2> QED BY <1>1, <2>1, Zenon DEF IsGraphOf
  <1> QED BY <1>1, <1>2, LinkFound

\* The reference in the terms of the searches.
LEMMA ReferenceIs ==
  ASSUME NEW s, NEW x
  PROVE  /\ CostTo("forward", s, x) = MinCosts(Id(s))[Id(x)]
         /\ CostTo("backward", s, x) = MinCosts(Id(x))[Id(s)]
         /\ CostTo("route", s, x) = RequestCosts(Id(s))[Id(x)]
PROOF
  <1>1. /\ CostsOf("forward") = [l \in ModeLinks |-> LinkMinTravelDisutility(net[l])]
        /\ CostsOf("backward") = [l \in ModeLinks |-> LinkMinTravelDisutility(net[l])]
        /\ CostsOf("route") = [l \in ModeLinks |-> LinkTravelTime(net[l], request.vehicle)]
    BY DEF CostsOf, CostOf
  <1>2. \A a : MinCosts(a) = LeastCosts(a, CostsOf("forward")) /\ MinCosts(a) = LeastCosts(a, CostsOf("backward"))
    BY <1>1 DEF MinCosts
  <1>3. \A a : RequestCosts(a) = LeastCosts(a, CostsOf("route"))
    BY <1>1 DEF RequestCosts
  <1> QED BY <1>2, <1>3 DEF CostTo

\* What holds during every search.
LEMMA WhileSearching ==
  ASSUME GraphInv, PhaseInv, LandmarkInv, SearchInv, phase = "search"
  PROVE  /\ SearchOK(job, Start, queue, label, Estimates) /\ Start \in Nodes
         /\ Typed /\ (\A y \in Nodes : 2 * Estimate(y) < Inf) /\ Estimates \in [Nodes -> 0..Inf]
         /\ \A y \in Nodes : Estimates[y] = Estimate(y)
         /\ job # "route" \/ heuristic # "alt" => \A y \in Nodes : Estimates[y] = 0
         /\ (job = "route" /\ heuristic = "alt" => Symmetric) => Consistent(job, Estimates)
PROOF
  <1>1. SearchOK(job, Start, queue, label, Estimates)
    BY DEF SearchInv
  <1>2. job = "route" => ToNode \in Nodes
    BY RouteNodes DEF PhaseInv
  <1>3. job = "route" /\ heuristic = "alt" =>
          ToNode \in Nodes /\ Known("forward", landmark, to_all.forward) /\ Known("backward", landmark, to_all.backward)
    BY <1>2 DEF LandmarkInv
  <1>4. \A y \in Nodes : Estimate(y) \in 0..Inf /\ 2 * Estimate(y) < Inf
    BY <1>3, EstimateIs
  <1>5. (\A y \in Nodes : Estimates[y] = Estimate(y)) /\ Estimates \in [Nodes -> 0..Inf]
    BY <1>4 DEF Estimates
  <1>6. Typed /\ Start \in Nodes
    BY <1>1, <1>4 DEF Typed, SearchOK
  <1>7. job # "route" \/ heuristic # "alt" => \A y \in Nodes : Estimates[y] = 0
    BY <1>5 DEF Estimate
  <1>8. (job = "route" /\ heuristic = "alt" => Symmetric) => Consistent(job, Estimates)
    BY <1>3, <1>7, AltIsConsistent, ZeroIsConsistent
  <1> QED BY <1>1, <1>4, <1>5, <1>6, <1>7, <1>8

\* The invariant says that settled nodes are final.
LEMMA SettledIsFinalNow ==
  ASSUME GraphInv, PhaseInv, LandmarkInv, SearchInv
  PROVE  SettledIsFinal
PROOF
  <1> SUFFICES ASSUME phase = "search", job = "route" => heuristic = "zero", NEW n \in NodeIndices(graph) \ queue
               PROVE  label.dist[n] =
                        LET id == graph.node_id_by_index[n]
                            lm == graph.node_id_by_index[landmark]
                        IN CASE job = "forward" -> MinCosts(lm)[id]
                             [] job = "backward" -> MinCosts(id)[lm]
                             [] job = "route" -> RequestCosts(net[request.from].to)[id]
    BY DEF SettledIsFinal
  <1>1. /\ SearchOK(job, Start, queue, label, Estimates) /\ Estimates \in [Nodes -> 0..Inf]
        /\ Consistent(job, Estimates) /\ \A y \in Nodes : Estimates[y] = 0
    BY WhileSearching
  <1>2. n \in Nodes \ queue
    BY DEF Nodes
  <1>3. label.dist[n] = CostTo(job, Start, n)
    BY <1>1, <1>2, SettledFinal
  <1>4. Id(n) = graph.node_id_by_index[n] /\ Id(landmark) = graph.node_id_by_index[landmark]
    BY DEF Id, NodeOf
  <1>5. CASE job = "forward"
    BY <1>3, <1>4, <1>5, ReferenceIs DEF Start
  <1>6. CASE job = "backward"
    BY <1>3, <1>4, <1>6, ReferenceIs DEF Start
  <1>7. CASE job = "route"
    <2>1. Id(RouteStart) = net[request.from].to
      BY <1>7, RouteNodes DEF PhaseInv
    <2> QED BY <1>3, <1>4, <1>7, <2>1, ReferenceIs DEF Start
  <1>8. job \in {"forward", "backward", "route"}
    BY DEF PhaseInv
  <1> QED BY <1>5, <1>6, <1>7, <1>8

-----------------------------------------------------------------------------
(* The path that is extracted.                                              *)

\* The travel time of a path, link by link.
LEMMA PathCostIs ==
  ASSUME GraphInv, NEW p \in Seq(ModeLinks)
  PROVE  \E c \in [0..Len(p) -> Nat] :
           /\ c[0] = 0 /\ \A i \in 1..Len(p) : c[i] = c[i - 1] + CostOf("route", p[i])
           /\ PathCost(p) = c[Len(p)]
PROOF
  <1> DEFINE n == Len(p)
             X == Nat
             x == 0
             step == [w \in (1..n) \X X |-> w[2] + LinkTravelTime(net[p[w[1]]], request.vehicle)]
             Def(h) == [i \in 0..n |-> IF i = 0 THEN 0 ELSE h[i - 1] + LinkTravelTime(net[p[i]], request.vehicle)]
             f == CHOOSE h : h = Def(h)
  <1>1. n \in Nat /\ x \in X
    OBVIOUS
  <1>2. ASSUME NEW i \in 1..n, NEW y \in X PROVE y + LinkTravelTime(net[p[i]], request.vehicle) \in X
    <2>1. p[i] \in ModeLinks
      OBVIOUS
    <2>2. LinkTravelTime(net[p[i]], request.vehicle) = CostOf("route", p[i])
      BY DEF CostOf
    <2>3. CostOf("route", p[i]) \in Nat
      BY <2>1, CostsAre
    <2> QED BY <2>2, <2>3
  <1>3. step \in [(1..n) \X X -> X]
    <2>1. ASSUME NEW w \in (1..n) \X X PROVE w[2] + LinkTravelTime(net[p[w[1]]], request.vehicle) \in X
      <3>1. w[1] \in 1..n /\ w[2] \in X
        OBVIOUS
      <3> HIDE DEF n, X
      <3> QED BY <1>2, <3>1
    <2> HIDE DEF n, X
    <2> QED BY <2>1
  <1>4. PICK g \in [0..n -> X] : IsRecursion(g, x, n, step)
    <2> HIDE DEF n, X, x, step
    <2> QED BY <1>1, <1>3, RecursionExists
  <1>5. g = Def(g)
    <2>1. \A i \in 0..n : g[i] = IF i = 0 THEN x ELSE step[<<i, g[i - 1]>>]
      <3> HIDE DEF n, X, x, step
      <3> QED BY <1>4 DEF IsRecursion
    <2>2. ASSUME NEW i \in 1..n PROVE step[<<i, g[i - 1]>>] = g[i - 1] + LinkTravelTime(net[p[i]], request.vehicle)
      <3>1. <<i, g[i - 1]>> \in (1..n) \X X
        <4> HIDE DEF n, X
        <4> QED BY <1>1
      <3> HIDE DEF n, X
      <3> QED BY <3>1
    <2>3. \A i \in 0..n : i = 0 \/ i \in 1..n
      BY <1>1
    <2>4. \A i \in 0..n : g[i] = IF i = 0 THEN 0 ELSE g[i - 1] + LinkTravelTime(net[p[i]], request.vehicle)
      <3> HIDE DEF n, X, step
      <3> QED BY <2>1, <2>2, <2>3
    <2> HIDE DEF n, X, x, step
    <2> QED BY <2>4
  <1>6. f = Def(f)
    <2> HIDE DEF Def
    <2> QED BY <1>5
  <1>7. \A i \in 0..n : f[i] = IF i = 0 THEN 0 ELSE f[i - 1] + LinkTravelTime(net[p[i]], request.vehicle)
    <2> HIDE DEF f, n
    <2> QED BY <1>6
  <1>8. PathCost(p) = f[n]
    BY Zenon DEF PathCost
  <1>9. \A i \in 0..n : f[i] \in X
    <2> DEFINE P == {i \in 0..n : f[i] \in X}
    <2> HIDE DEF f, X, n
    <2>1. 0 \in P
      <3>1. 0 \in 0..n /\ 0 \in X
        BY <1>1
      <3>2. f[0] = 0
        BY <1>7, <3>1
      <3> HIDE DEF x
      <3> QED BY <3>1, <3>2
    <2>2. ASSUME NEW i \in 1..n, i - 1 \in P PROVE i \in P
      <3>1. i \in 0..n /\ i # 0 /\ f[i - 1] \in X
        BY <1>1, <2>2
      <3>2. f[i] = f[i - 1] + LinkTravelTime(net[p[i]], request.vehicle)
        BY <1>7, <3>1
      <3>3. f[i - 1] + LinkTravelTime(net[p[i]], request.vehicle) \in X
        BY <1>2, <3>1
      <3> QED BY <3>1, <3>2, <3>3
    <2>3. \A i \in 0..n : i \in P
      <3> HIDE DEF P
      <3> QED BY <1>1, <2>1, <2>2, UpTo
    <2> QED BY <2>3
  <1>10. f \in [0..n -> X]
    <2>1. f = [i \in 0..n |-> f[i]]
      <3> HIDE DEF f, n
      <3> QED BY <1>6
    <2> HIDE DEF f, n, X, Def
    <2> QED BY <1>9, <2>1
  <1> HIDE DEF f, Def, step
  <1>11. f[0] = 0 /\ \A i \in 1..n : f[i] = f[i - 1] + LinkTravelTime(net[p[i]], request.vehicle)
    <2>1. 0 \in 0..n /\ \A i \in 1..n : i \in 0..n /\ i # 0
      BY <1>1
    <2> HIDE DEF n
    <2> QED BY <1>7, <2>1
  <1>12. \A i \in 1..Len(p) : CostOf("route", p[i]) = LinkTravelTime(net[p[i]], request.vehicle)
    BY DEF CostOf
  <1>13. \A i \in 1..Len(p) : f[i] = f[i - 1] + CostOf("route", p[i])
    BY <1>11, <1>12
  <1> QED BY <1>8, <1>10, <1>11, <1>13

\* The empty path costs nothing; a link in front costs what it takes.
LEMMA PathCostMore ==
  ASSUME GraphInv, NEW p \in Seq(ModeLinks), NEW l \in ModeLinks
  PROVE  /\ PathCost(<<>>) = 0 /\ PathCost(p) \in Nat
         /\ PathCost(<<l>> \o p) = CostOf("route", l) + PathCost(p)
PROOF
  <1> DEFINE n == Len(p)
             q == <<l>> \o p
  <1>1. PICK c \in [0..n -> Nat] : /\ c[0] = 0 /\ \A i \in 1..n : c[i] = c[i - 1] + CostOf("route", p[i])
                                  /\ PathCost(p) = c[n]
    BY PathCostIs
  <1>2. n \in Nat /\ <<l>> \in Seq(ModeLinks) /\ Len(<<l>>) = 1 /\ <<l>>[1] = l
    OBVIOUS
  <1>3. /\ q \in Seq(ModeLinks) /\ Len(q) = n + 1
        /\ \A i \in 1..Len(q) : q[i] = IF i <= 1 THEN <<l>>[i] ELSE p[i - 1]
    BY <1>2, CatIs
  <1> HIDE DEF n, q
  <1>4. PICK e \in [0..Len(q) -> Nat] : /\ e[0] = 0 /\ \A i \in 1..Len(q) : e[i] = e[i - 1] + CostOf("route", q[i])
                                       /\ PathCost(q) = e[Len(q)]
    BY <1>3, PathCostIs
  <1>5. CostOf("route", l) \in Nat
    BY CostsAre
  <1>6. q[1] = l /\ \A i \in 1..n : q[i + 1] = p[i] /\ i + 1 \in 1..Len(q)
    <2>1. 1 \in 1..Len(q) /\ \A i \in 1..n : i + 1 \in 1..Len(q) /\ ~(i + 1 <= 1) /\ (i + 1) - 1 = i
      BY <1>2, <1>3
    <2>2. \A i \in 1..n : q[i + 1] = p[i]
      <3> SUFFICES ASSUME NEW i \in 1..n PROVE q[i + 1] = p[i]
        OBVIOUS
      <3>1. q[i + 1] = p[(i + 1) - 1]
        BY <1>3, <2>1
      <3> QED BY <2>1, <3>1
    <2>3. q[1] = <<l>>[1]
      <3>1. 1 <= 1
        OBVIOUS
      <3> QED BY <1>3, <2>1, <3>1
    <2> QED BY <1>2, <2>1, <2>2, <2>3
  <1> DEFINE P == {i \in 0..n : e[i + 1] = CostOf("route", l) + c[i]}
  <1>7. 0 \in P
    <2>1. 1 \in 1..Len(q) /\ 1 - 1 = 0
      BY <1>2, <1>3
    <2>2. e[1] = e[0] + CostOf("route", q[1])
      BY <1>4, <2>1
    <2> QED BY <1>1, <1>2, <1>4, <1>5, <1>6, <2>2
  <1>8. ASSUME NEW i \in 1..n, i - 1 \in P PROVE i \in P
    <2>1. i + 1 \in 1..Len(q) /\ (i + 1) - 1 = i /\ (i - 1) + 1 = i /\ i \in 0..n /\ i - 1 \in 0..n
      BY <1>2, <1>3
    <2>2. e[i + 1] = e[i] + CostOf("route", p[i])
      BY <1>4, <1>6, <2>1
    <2>3. e[i] = CostOf("route", l) + c[i - 1]
      BY <1>8, <2>1
    <2>4. c[i] = c[i - 1] + CostOf("route", p[i])
      BY <1>1
    <2>5. c[i - 1] \in Nat /\ c[i] \in Nat
      BY <1>1, <2>1
    <2>6. CostOf("route", p[i]) \in Nat
      <3>1. p[i] \in ModeLinks
        BY DEF n
      <3> QED BY <3>1, CostsAre
    <2>7. e[i + 1] = CostOf("route", l) + c[i]
      BY <1>5, <2>2, <2>3, <2>4, <2>5, <2>6
    <2> QED BY <2>1, <2>7
  <1>9. n \in P
    <2>1. \A i \in 0..n : i \in P
      <3> HIDE DEF P
      <3> QED BY <1>2, <1>7, <1>8, UpTo
    <2> HIDE DEF P
    <2> QED BY <1>2, <2>1
  <1>10. PathCost(q) = CostOf("route", l) + PathCost(p)
    BY <1>1, <1>3, <1>4, <1>9
  <1>11. PathCost(<<>>) = 0
    <2>1. <<>> \in Seq(ModeLinks) /\ Len(<<>>) = 0
      OBVIOUS
    <2> QED BY <2>1, PathCostIs
  <1>12. PathCost(p) \in Nat
    BY <1>1, <1>2
  <1> QED BY <1>10, <1>11, <1>12 DEF q

-----------------------------------------------------------------------------
(* The steps.                                                               *)

\* A new router satisfies the invariant.
LEMMA AStarInitial == AStarInit => AInv
PROOF
  <1> SUFFICES ASSUME AStarInit PROVE AInv
    OBVIOUS
  <1>1. GraphInv
    BY GraphInit
  <1>2. phase = "new" /\ job = "none" /\ result = NoPath /\ path = <<>> /\ heuristic \in {"zero", "alt"}
        /\ DOMAIN to_all = {"forward", "backward"}
    BY AStarAssumption DEF AStarInit
  <1>3. PhaseInv
    BY <1>2 DEF PhaseInv
  <1>4. LandmarkInv /\ SearchInv /\ ExtractInv /\ RouteIsLeastCost
    BY <1>2 DEF LandmarkInv, SearchInv, ExtractInv, RouteIsLeastCost
  <1> QED BY <1>1, <1>3, <1>4 DEF AInv

\* The network, its graph and the request are what they were.
LEMMA WorldStays ==
  ASSUME [AStarNext]_astarVars
  PROVE  net' = net /\ graph' = graph /\ heuristic' = heuristic /\ request' = request
PROOF
  <1>1. CASE UNCHANGED astarVars
    BY <1>1 DEF astarVars
  <1>2. CASE AStarNext
    <2>1. CASE NewDijkstra \/ NewAlt \/ LandmarkSearchDone \/ LandmarkBackward
      BY <2>1 DEF NewDijkstra, NewAlt, LandmarkSearchDone, LandmarkBackward
    <2>2. CASE CalcLeastCostPath \/ RouteSearchDone \/ ExtractLink \/ ReturnPath
      BY <2>2 DEF CalcLeastCostPath, RouteSearchDone, ExtractLink, ReturnPath
    <2>3. CASE \E n \in queue : Settle(n)
      BY <2>3 DEF Settle
    <2>4. CASE AStarFinished
      BY <2>4 DEF AStarFinished, astarVars
    <2> QED BY <1>2, <2>1, <2>2, <2>3, <2>4 DEF AStarNext, AStarStep
  <1> QED BY <1>1, <1>2

\* Estimates change with the landmark's tables and the job only.
LEMMA SameEstimates ==
  ASSUME net' = net, graph' = graph, heuristic' = heuristic, request' = request, to_all' = to_all, job' = job
  PROVE  Estimates' = Estimates
PROOF
  <1>1. Nodes' = Nodes /\ ToNode' = ToNode
    BY SameNetwork
  <1>2. \A a, b : AltEstimate(a, b)' = AltEstimate(a, b)
    BY Zenon DEF AltEstimate
  <1>3. \A x : Estimate(x)' = Estimate(x)
    BY <1>1, <1>2 DEF Estimate
  <1> QED BY <1>1, <1>3 DEF Estimates

\* The phases follow each other as AStar::new and calc_least_cost_path have them.
LEMMA PhaseStep ==
  ASSUME GraphInv, PhaseInv, AStarNext
  PROVE  PhaseInv'
PROOF
  <1>1. net' = net /\ graph' = graph /\ heuristic' = heuristic /\ request' = request
    BY WorldStays
  <1>2. ModeLinks' = ModeLinks /\ Nodes' = Nodes
    BY <1>1, SameNetwork
  <1>3. CASE NewDijkstra
    BY <1>1, <1>2, <1>3 DEF PhaseInv, NewDijkstra
  <1>4. CASE NewAlt
    <2>1. landmark' \in Nodes /\ phase' = "search" /\ job' = "forward" /\ phase = "new" /\ heuristic = "alt"
          /\ path' = path /\ result' = result /\ to_all' = to_all
      BY <1>4 DEF NewAlt, StartSearch, Nodes
    <2> QED BY <1>1, <1>2, <2>1 DEF PhaseInv
  <1>5. CASE LandmarkSearchDone
    <2>1. /\ phase = "search" /\ phase' \in {"backward", "ready"} /\ job' = "none" /\ job \in {"forward", "backward"}
          /\ path' = path /\ result' = result /\ landmark' = landmark
          /\ to_all' = [to_all EXCEPT ![job] = label.dist]
      BY <1>5 DEF LandmarkSearchDone, SearchExhausted, SearchReturns
    <2>2. DOMAIN to_all' = DOMAIN to_all
      BY <2>1
    <2>3. heuristic # "zero"
      BY <2>1 DEF PhaseInv
    <2> QED BY <1>1, <1>2, <2>1, <2>2, <2>3 DEF PhaseInv
  <1>6. CASE LandmarkBackward
    <2>1. /\ phase = "backward" /\ phase' = "search" /\ job' = "backward" /\ landmark' = landmark
          /\ path' = path /\ result' = result /\ to_all' = to_all
      BY <1>6 DEF LandmarkBackward, StartSearch
    <2> QED BY <1>1, <1>2, <2>1 DEF PhaseInv
  <1>7. CASE CalcLeastCostPath
    <2>1. /\ phase = "ready" /\ path' = path /\ result' = result /\ landmark' = landmark /\ to_all' = to_all
          /\ \/ phase' = "search" /\ job' = "route" /\ HasLink(graph, request.to) /\ HasLink(graph, request.from)
             \/ phase' = "done" /\ job' = job
      BY <1>7 DEF CalcLeastCostPath, StartSearch
    <2>2. job' = "route" => {request.from, request.to} \subseteq ModeLinks
      BY <2>1, HasLinkIs DEF PhaseInv
    <2> QED BY <1>1, <1>2, <2>1, <2>2 DEF PhaseInv
  <1>8. CASE RouteSearchDone
    <2>1. /\ phase = "search" /\ phase' \in {"done", "extract"} /\ job = "route" /\ job' = "none"
          /\ path' = path /\ result' = result /\ landmark' = landmark /\ to_all' = to_all
      BY <1>8 DEF RouteSearchDone, SearchReturns
    <2> QED BY <1>1, <1>2, <2>1 DEF PhaseInv
  <1>9. CASE ExtractLink
    BY <1>1, <1>2, <1>9 DEF PhaseInv, ExtractLink
  <1>10. CASE ReturnPath
    BY <1>1, <1>2, <1>10 DEF PhaseInv, ReturnPath
  <1>11. CASE \E n \in queue : Settle(n)
    BY <1>1, <1>2, <1>11 DEF PhaseInv, Settle
  <1>12. CASE AStarFinished
    BY <1>1, <1>2, <1>12 DEF PhaseInv, AStarFinished, astarVars
  <1> QED BY <1>3, <1>4, <1>5, <1>6, <1>7, <1>8, <1>9, <1>10, <1>11, <1>12 DEF AStarNext, AStarStep

\* When a search for all costs ends, every node left in the queue is unreachable.
LEMMA AllIsKnown ==
  ASSUME GraphInv, PhaseInv, LandmarkInv, SearchInv, LandmarkSearchDone
  PROVE  Known(job, landmark, label.dist)
PROOF
  <1>1. phase = "search" /\ job \in {"forward", "backward"} /\ (queue = {} \/ \E n \in queue : SearchReturns(n))
    BY DEF LandmarkSearchDone, SearchExhausted, SearchReturns
  <1>2. /\ SearchOK(job, Start, queue, label, Estimates) /\ Typed /\ \A y \in Nodes : 2 * Estimate(y) < Inf
        /\ Consistent(job, Estimates) /\ Start = landmark
    BY <1>1, WhileSearching DEF Start
  <1>3. ASSUME NEW y \in queue PROVE label.dist[y] = Inf
    <2>1. PICK n \in queue : SearchReturns(n)
      BY <1>1
    <2>2. Popped(n) /\ label.dist[n] = Inf
      BY <1>1, <2>1 DEF SearchReturns, ReturnsAt
    <2> QED BY <1>2, <2>2, LeftIsUnreached
  <1> QED BY <1>2, <1>3, UnreachedIsFinal DEF Known

\* The landmark's tables are complete from the end of its searches on.
LEMMA LandmarkStep ==
  ASSUME GraphInv, PhaseInv, LandmarkInv, SearchInv, AStarNext
  PROVE  LandmarkInv'
PROOF
  <1>1. net' = net /\ graph' = graph /\ heuristic' = heuristic /\ request' = request
    BY WorldStays
  <1>2. \A k, s, d : Known(k, s, d)' <=> Known(k, s, d)
    BY <1>1, SameSearch
  <1>3. CASE NewDijkstra \/ NewAlt
    BY <1>1, <1>3 DEF PhaseInv, LandmarkInv, NewDijkstra, NewAlt, StartSearch
  <1>4. CASE LandmarkSearchDone
    <2>1. /\ phase = "search" /\ job \in {"forward", "backward"} /\ job' = "none" /\ landmark' = landmark
          /\ to_all' = [to_all EXCEPT ![job] = label.dist] /\ DOMAIN to_all = {"forward", "backward"}
          /\ phase' = IF job = "forward" THEN "backward" ELSE "ready"
      BY <1>4 DEF PhaseInv, LandmarkSearchDone, SearchExhausted, SearchReturns
    <2>2. Known(job, landmark, label.dist)
      BY <1>4, AllIsKnown
    <2>3. CASE job = "forward"
      <3>1. to_all'.forward = label.dist
        BY <2>1, <2>3
      <3> QED BY <1>1, <1>2, <2>1, <2>2, <2>3, <3>1 DEF LandmarkInv
    <2>4. CASE job = "backward"
      <3>1. to_all'.backward = label.dist /\ to_all'.forward = to_all.forward
        BY <2>1, <2>4
      <3> QED BY <1>1, <1>2, <2>1, <2>2, <2>4, <3>1 DEF LandmarkInv
    <2> QED BY <2>1, <2>3, <2>4
  <1>5. CASE LandmarkBackward
    <2>1. phase = "backward" /\ phase' = "search" /\ job' = "backward" /\ landmark' = landmark /\ to_all' = to_all
      BY <1>5 DEF LandmarkBackward, StartSearch
    <2> QED BY <1>1, <1>2, <2>1 DEF LandmarkInv
  <1>6. CASE CalcLeastCostPath
    <2>1. phase = "ready" /\ landmark' = landmark /\ to_all' = to_all
      BY <1>6 DEF CalcLeastCostPath
    <2> QED BY <1>1, <1>2, <2>1 DEF LandmarkInv
  <1>7. CASE RouteSearchDone
    BY <1>1, <1>7 DEF LandmarkInv, RouteSearchDone
  <1>8. CASE ExtractLink \/ ReturnPath
    BY <1>1, <1>8 DEF PhaseInv, LandmarkInv, ExtractLink, ReturnPath
  <1>9. CASE \E n \in queue : Settle(n)
    <2>1. landmark' = landmark /\ to_all' = to_all /\ phase' = phase /\ job' = job
      BY <1>9 DEF Settle
    <2> QED BY <1>1, <1>2, <2>1 DEF LandmarkInv
  <1>10. CASE AStarFinished
    <2>1. landmark' = landmark /\ to_all' = to_all /\ phase' = phase /\ job' = job
      BY <1>10 DEF AStarFinished, astarVars
    <2> QED BY <1>1, <1>2, <2>1 DEF LandmarkInv
  <1> QED BY <1>3, <1>4, <1>5, <1>6, <1>7, <1>8, <1>9, <1>10 DEF AStarNext, AStarStep

\* A search that starts, from s.
LEMMA StartedSearch ==
  ASSUME GraphInv, net' = net, graph' = graph, heuristic' = heuristic, request' = request,
         NEW s \in Nodes, StartSearch(job', s), Start' = s, Estimates' \in [Nodes -> 0..Inf],
         job' = "route" => ToNode \in Nodes
  PROVE  SearchInv'
PROOF
  <1>1. queue' = Nodes /\ label' = InitialLabel(s)
    BY DEF StartSearch, Nodes
  <1> DEFINE h == Estimates'
  <1>2. ASSUME NEW e, e = h PROVE SearchOK(job', s, Nodes, InitialLabel(s), e)
    <2>1. e \in [Nodes -> 0..Inf]
      BY <1>2
    <2> HIDE DEF h
    <2> QED BY <2>1, SearchStarts
  <1>3. \A k, t, q, lab, e : SearchOK(k, t, q, lab, e)' <=> SearchOK(k, t, q, lab, e)
    BY SameSearch
  <1>4. SearchOK(job, Start, queue, label, Estimates)'
    BY <1>1, <1>2, <1>3
  <1>5. ToNode' = ToNode
    BY SameNetwork
  <1> QED BY <1>1, <1>4, <1>5 DEF SearchInv

\* A search starts as it must, and a settled node keeps it so.
LEMMA SearchStep ==
  ASSUME GraphInv, PhaseInv, LandmarkInv, SearchInv, AStarNext
  PROVE  SearchInv'
PROOF
  <1>1. net' = net /\ graph' = graph /\ heuristic' = heuristic /\ request' = request
    BY WorldStays
  <1>2. /\ Nodes' = Nodes /\ ToNode' = ToNode /\ RouteStart' = RouteStart
        /\ \A k, s, q, lab, h : SearchOK(k, s, q, lab, h)' <=> SearchOK(k, s, q, lab, h)
    BY <1>1, SameNetwork, SameSearch
  <1>3. job' # "route" => Estimates' \in [Nodes -> 0..Inf]
    <2>1. job' # "route" => \A x : Estimate(x)' = 0
      BY DEF Estimate
    <2>2. Inf \in Nat \ {0}
      BY NodesAre
    <2> QED BY <1>2, <2>1, <2>2 DEF Estimates
  <1>4. CASE phase' # "search"
    BY <1>4 DEF SearchInv
  <1>5. CASE NewAlt
    <2>1. PICK n \in Nodes : landmark' = n /\ StartSearch("forward", n)
      BY <1>5 DEF NewAlt, Nodes
    <2>2. job' = "forward" /\ StartSearch(job', n) /\ Start' = n
      BY <2>1 DEF StartSearch, Start
    <2> QED BY <1>1, <1>3, <2>2, StartedSearch
  <1>6. CASE LandmarkBackward
    <2>1. landmark' = landmark /\ StartSearch("backward", landmark)
      BY <1>6 DEF LandmarkBackward
    <2>2. job' = "backward" /\ StartSearch(job', landmark) /\ Start' = landmark
      BY <2>1 DEF StartSearch, Start
    <2>3. landmark \in Nodes
      <3>1. heuristic \in {"zero", "alt"}
        BY AStarAssumption DEF GraphInv
      <3> QED BY <1>6, <3>1 DEF LandmarkBackward, PhaseInv
    <2> QED BY <1>1, <1>3, <2>2, <2>3, StartedSearch
  <1>7. CASE CalcLeastCostPath /\ phase' = "search"
    <2>1. /\ phase = "ready" /\ HasLink(graph, request.to) /\ HasLink(graph, request.from)
          /\ StartSearch("route", RouteStart) /\ landmark' = landmark /\ to_all' = to_all
      BY <1>7 DEF CalcLeastCostPath, RouteStart
    <2>2. ToNode \in Nodes /\ RouteStart \in Nodes
      BY <2>1, HasLinkIs, RouteNodes
    <2>3. job' = "route" /\ StartSearch(job', RouteStart) /\ Start' = RouteStart
      BY <1>2, <2>1 DEF StartSearch, Start
    <2>4. \A x \in Nodes : Estimate(x)' \in 0..Inf
      <3> SUFFICES ASSUME NEW x \in Nodes PROVE Estimate(x)' \in 0..Inf
        OBVIOUS
      <3>1. AltEstimate(x, ToNode)' = AltEstimate(x, ToNode)
        <4>1. \A a, b : AltEstimate(a, b)' = AltEstimate(a, b)
          BY <2>1, Zenon DEF AltEstimate
        <4> QED BY <1>2, <4>1
      <3>2. heuristic # "alt" => Estimate(x)' = 0
        BY <1>1 DEF Estimate
      <3>3. heuristic = "alt" => Estimate(x)' = AltEstimate(x, ToNode)
        BY <1>1, <2>3, <3>1 DEF Estimate
      <3>4. heuristic = "alt" => AltEstimate(x, ToNode) \in 0..Inf
        BY <2>1, <2>2, AltEstimateIsSmall DEF LandmarkInv
      <3>5. Inf \in Nat \ {0}
        BY NodesAre
      <3> QED BY <3>2, <3>3, <3>4, <3>5
    <2>5. Estimates' \in [Nodes -> 0..Inf]
      BY <1>2, <2>4 DEF Estimates
    <2> QED BY <1>1, <2>2, <2>3, <2>5, StartedSearch
  <1>8. CASE \E n \in queue : Settle(n)
    <2>1. PICK n \in queue : Settle(n)
      BY <1>8
    <2>2. /\ phase = "search" /\ Popped(n) /\ label.dist[n] # Inf /\ (job = "route" => n # ToNode)
          /\ label' = Relaxed(n) /\ queue' = queue \ {n}
          /\ phase' = phase /\ job' = job /\ landmark' = landmark /\ to_all' = to_all
      BY <2>1 DEF Settle, ReturnsAt
    <2>3. SearchOK(job, Start, queue, label, Estimates) /\ Typed
      BY <2>2, WhileSearching
    <2>4. Settles(Start, n)
      BY <2>2, <2>3 DEF Settles
    <2>5. SearchOK(job, Start, queue \ {n}, Relaxed(n), Estimates)
      BY <2>4, SettleKeeps
    <2>6. Estimates' = Estimates /\ Start' = Start
      <3>1. Estimates' = Estimates
        BY <1>1, <2>2, SameEstimates
      <3> QED BY <1>2, <2>2, <3>1 DEF Start
    <2>7. SearchOK(job, Start, queue, label, Estimates)'
      BY <1>2, <2>2, <2>5, <2>6
    <2>8. (job = "route" => ToNode \in queue)'
      BY <1>2, <2>2 DEF SearchInv
    <2> QED BY <2>7, <2>8 DEF SearchInv
  <1>9. CASE AStarFinished
    BY <1>4, <1>9 DEF AStarFinished, astarVars
  <1>10. CASE NewDijkstra \/ LandmarkSearchDone \/ RouteSearchDone \/ ExtractLink \/ ReturnPath
    <2>1. phase' # "search"
      BY <1>10 DEF NewDijkstra, LandmarkSearchDone, RouteSearchDone, ExtractLink, ReturnPath
    <2> QED BY <1>4, <2>1
  <1> QED BY <1>4, <1>5, <1>6, <1>7, <1>8, <1>9, <1>10 DEF AStarNext, AStarStep

\* The search for the route has taken a node at which it returns.
LEMMA RouteFound ==
  ASSUME GraphInv, PhaseInv, LandmarkInv, SearchInv, RouteSearchDone
  PROVE  /\ phase = "search" /\ {request.from, request.to} \subseteq ModeLinks
         /\ SearchOK("route", RouteStart, queue, label, Estimates)
         /\ label.dist[ToNode] = Inf <=> phase' = "done"
         /\ (heuristic = "alt" => Symmetric) => label.dist[ToNode] = CostTo("route", RouteStart, ToNode)
PROOF
  <1>1. PICK n \in queue : SearchReturns(n) /\ phase' = IF label.dist[n] = Inf THEN "done" ELSE "extract"
    BY DEF RouteSearchDone
  <1>2. job = "route" /\ phase = "search" /\ Popped(n) /\ (label.dist[n] = Inf \/ n = ToNode)
    BY <1>1 DEF RouteSearchDone, SearchReturns, ReturnsAt
  <1>3. /\ SearchOK(job, RouteStart, queue, label, Estimates) /\ Typed /\ \A y \in Nodes : 2 * Estimate(y) < Inf
        /\ (heuristic = "alt" => Symmetric) => Consistent(job, Estimates)
    BY <1>2, WhileSearching DEF Start
  <1>4. ToNode \in queue /\ {request.from, request.to} \subseteq ModeLinks /\ ToNode \in Nodes
    BY <1>2, RouteNodes DEF SearchInv, PhaseInv
  <1>5. CASE label.dist[n] = Inf
    <2>1. \A y \in queue : label.dist[y] = Inf
      BY <1>2, <1>3, <1>5, LeftIsUnreached
    <2>2. Consistent(job, Estimates) => label.dist[ToNode] = CostTo(job, RouteStart, ToNode)
      BY <1>3, <1>4, <2>1, UnreachedIsFinal
    <2> QED BY <1>1, <1>2, <1>3, <1>4, <1>5, <2>1, <2>2
  <1>6. CASE label.dist[n] # Inf
    <2>1. Settles(RouteStart, n) /\ n = ToNode
      BY <1>2, <1>3, <1>6 DEF Settles
    <2>2. Consistent(job, Estimates) => label.dist[n] = CostTo(job, RouteStart, n)
      BY <1>2, <2>1, TargetFinal
    <2> QED BY <1>1, <1>2, <1>3, <1>4, <1>6, <2>1, <2>2
  <1> QED BY <1>5, <1>6

\* A parent link leads one node back on a way of the same cost.
LEMMA OneLinkBack ==
  ASSUME GraphInv, PhaseInv, ExtractInv, phase = "extract", label.parent[cursor] # NoParent
  PROVE  LET l == LinkOf(graph, label.parent[cursor])
             u == StartNodeAsIdx(graph, label.parent[cursor])
         IN  /\ l \in ModeLinks /\ u \in Nodes /\ label.dist[u] # Inf
             /\ net[l].from = Id(u) /\ net[l].to = Id(cursor)
             /\ label.dist[u] + CostOf("route", l) = label.dist[cursor]
             /\ label.dist[u] \in Nat
PROOF
  <1> DEFINE k == label.parent[cursor]
             l == LinkOf(graph, k)
  <1>1. /\ label.dist \in [Nodes -> 0..Inf] /\ cursor \in Nodes /\ queue \subseteq Nodes
        /\ Backtracks("route", RouteStart, queue, label) /\ label.dist[cursor] # Inf
    BY LabelFields DEF ExtractInv
  <1>2. cursor # RouteStart
    BY <1>1 DEF Backtracks
  <1>3. PICK u \in Nodes \ queue : Leads("route", u, l, cursor) /\ label.dist[cursor] = label.dist[u] + CostOf("route", l)
    BY <1>1, <1>2 DEF Backtracks
  <1>4. k \in Edges(graph)
    BY <1>1, <1>2 DEF Backtracks
  <1>5. l \in ModeLinks /\ net[l].from = Id(u) /\ net[l].to = Id(cursor)
    BY <1>3 DEF Leads
  <1>6. StartNodeAsIdx(graph, k) \in Nodes /\ Id(StartNodeAsIdx(graph, k)) = net[l].from
    <2>1. IsGraphOf(graph, net, ModeLinks)
      BY GraphFits
    <2> QED BY <1>4, <2>1, Zenon DEF IsGraphOf, Nodes, Id
  <1>7. StartNodeAsIdx(graph, k) = u
    BY <1>5, <1>6, NodesAre
  <1>8. /\ label.dist[u] \in 0..Inf /\ label.dist[cursor] \in 0..Inf /\ Inf \in Nat /\ CostOf("route", l) \in Nat
    BY <1>1, <1>5, CostsAre, NodesAre
  <1>9. label.dist[u] # Inf /\ label.dist[u] \in Nat
    BY <1>1, <1>3, <1>8
  <1> QED BY <1>3, <1>5, <1>6, <1>7, <1>9

\* The link is put in front of the path.
LEMMA WayMore ==
  ASSUME GraphInv, NEW u, NEW n, NEW t, NEW p, Way(n, t, p), NEW l \in ModeLinks,
         net[l].from = Id(u), net[l].to = Id(n)
  PROVE  Way(u, t, <<l>> \o p)
PROOF
  <1> DEFINE q == <<l>> \o p
  <1>1. p \in Seq(ModeLinks) /\ <<l>> \in Seq(ModeLinks) /\ Len(<<l>>) = 1 /\ <<l>>[1] = l /\ Len(p) \in Nat
    BY DEF Way
  <1>2. /\ q \in Seq(ModeLinks) /\ Len(q) = 1 + Len(p)
        /\ \A i \in 1..Len(q) : q[i] = IF i <= 1 THEN <<l>>[i] ELSE p[i - 1]
    BY <1>1, CatIs
  <1> HIDE DEF q
  <1>3. q[1] = l /\ q # <<>>
    <2>1. 1 \in 1..Len(q) /\ 1 <= 1
      BY <1>1, <1>2
    <2>2. q[1] = <<l>>[1]
      BY <1>2, <2>1
    <2> QED BY <1>1, <1>2, <2>2
  <1>4. \A i \in 1..Len(p) : q[i + 1] = p[i]
    <2> SUFFICES ASSUME NEW i \in 1..Len(p) PROVE q[i + 1] = p[i]
      OBVIOUS
    <2>1. i + 1 \in 1..Len(q) /\ ~(i + 1 <= 1) /\ (i + 1) - 1 = i
      BY <1>1, <1>2
    <2>2. q[i + 1] = p[(i + 1) - 1]
      BY <1>2, <2>1
    <2> QED BY <2>1, <2>2
  <1>5. CASE p = <<>>
    <2>1. Len(p) = 0 /\ n = t
      BY <1>1, <1>5 DEF Way
    <2>2. Len(q) = 1
      BY <1>2, <2>1
    <2> QED BY <1>2, <1>3, <2>1, <2>2 DEF Way, q
  <1>6. CASE p # <<>>
    <2>1. net[p[1]].from = Id(n) /\ net[p[Len(p)]].to = Id(t) /\ \A i \in 1..Len(p) - 1 : net[p[i]].to = net[p[i + 1]].from
      BY <1>6 DEF Way
    <2>2. Len(p) \in 1..Len(p) /\ 1 \in 1..Len(p) /\ Len(p) + 1 = Len(q)
      BY <1>1, <1>2, <1>6
    <2>3. q[Len(q)] = p[Len(p)]
      BY <1>4, <2>2
    <2>4. ASSUME NEW i \in 1..Len(q) - 1 PROVE net[q[i]].to = net[q[i + 1]].from
      <3>1. CASE i = 1
        <4>1. q[1 + 1] = p[1]
          BY <1>4, <2>2
        <4> QED BY <1>3, <2>1, <3>1, <4>1
      <3>2. CASE i # 1
        <4>1. i \in 1..Len(p) /\ i - 1 \in 1..Len(p) - 1 /\ i - 1 \in 1..Len(p) /\ (i - 1) + 1 = i
          BY <1>1, <1>2, <3>2
        <4>2. q[i + 1] = p[i] /\ q[(i - 1) + 1] = p[i - 1] /\ net[p[i - 1]].to = net[p[(i - 1) + 1]].from
          BY <1>4, <2>1, <4>1
        <4> QED BY <4>1, <4>2
      <3> QED BY <3>1, <3>2
    <2> QED BY <1>2, <1>3, <2>1, <2>3, <2>4 DEF Way, q
  <1> QED BY <1>5, <1>6

\* The search hands over its labels; each link goes in front of the path.
LEMMA ExtractStep ==
  ASSUME GraphInv, PhaseInv, LandmarkInv, SearchInv, ExtractInv, AStarNext
  PROVE  ExtractInv'
PROOF
  <1>1. net' = net /\ graph' = graph /\ heuristic' = heuristic /\ request' = request
    BY WorldStays
  <1>2. /\ Nodes' = Nodes /\ ToNode' = ToNode /\ RouteStart' = RouteStart /\ Labels' = Labels
        /\ \A k, s, x : CostTo(k, s, x)' = CostTo(k, s, x)
        /\ \A k, s, q, lab : Backtracks(k, s, q, lab)' <=> Backtracks(k, s, q, lab)
        /\ \A k, lab : Arrives(k, lab)' <=> Arrives(k, lab)
        /\ \A n, x, p : Way(n, x, p)' <=> Way(n, x, p)
        /\ \A p : PathCost(p)' = PathCost(p)
        /\ Symmetric' <=> Symmetric
    BY <1>1, SameNetwork, SameSearch
  <1>3. CASE phase' # "extract"
    BY <1>3 DEF ExtractInv
  <1>4. CASE RouteSearchDone /\ phase' = "extract"
    <2>1. /\ phase = "search" /\ {request.from, request.to} \subseteq ModeLinks
          /\ SearchOK("route", RouteStart, queue, label, Estimates)
          /\ label.dist[ToNode] # Inf
          /\ (heuristic = "alt" => Symmetric) => label.dist[ToNode] = CostTo("route", RouteStart, ToNode)
      BY <1>4, RouteFound
    <2>2. PICK n \in queue : queue' = queue \ {n}
      BY <1>4 DEF RouteSearchDone, SearchReturns
    <2>3. cursor' = ToNode /\ label' = label /\ path' = <<>>
      BY <1>4, <2>1 DEF RouteSearchDone, PhaseInv
    <2>4. ToNode \in Nodes
      BY <2>1, RouteNodes
    <2>5. /\ label \in Labels /\ queue \subseteq Nodes /\ label.dist[RouteStart] = 0
          /\ Backtracks("route", RouteStart, queue, label) /\ Arrives("route", label)
      BY <2>1 DEF SearchOK
    <2>6. Backtracks("route", RouteStart, queue', label)
      BY <2>2, <2>5 DEF Backtracks
    <2>7. Way(ToNode, ToNode, <<>>)
      BY DEF Way
    <2>8. PathCost(<<>>) = 0 /\ label.dist[ToNode] + 0 = label.dist[ToNode]
      <3>1. label.dist[ToNode] \in 0..Inf
        BY <2>4, <2>5, LabelFields
      <3>2. <<>> \in Seq(ModeLinks) /\ request.from \in ModeLinks
        BY <2>1
      <3>3. PathCost(<<>>) = 0
        BY <3>2, PathCostMore
      <3>4. label.dist[ToNode] + 0 = label.dist[ToNode]
        BY <3>1
      <3> QED BY <3>3, <3>4
    <2>9. queue' \subseteq Nodes
      BY <2>2, <2>5
    <2> QED BY <1>1, <1>2, <2>1, <2>3, <2>4, <2>5, <2>6, <2>7, <2>8, <2>9 DEF ExtractInv
  <1>5. CASE ExtractLink
    <2> DEFINE l == LinkOf(graph, label.parent[cursor])
               u == StartNodeAsIdx(graph, label.parent[cursor])
    <2>1. /\ phase = "extract" /\ label.parent[cursor] # NoParent /\ label' = label /\ queue' = queue
          /\ cursor' = u /\ path' = <<l>> \o path
      BY <1>5 DEF ExtractLink, LinkOf
    <2>2. /\ l \in ModeLinks /\ u \in Nodes /\ label.dist[u] # Inf
          /\ net[l].from = Id(u) /\ net[l].to = Id(cursor)
          /\ label.dist[u] + CostOf("route", l) = label.dist[cursor] /\ label.dist[u] \in Nat
      BY <2>1, OneLinkBack
    <2>3. /\ label \in Labels /\ queue \subseteq Nodes /\ cursor \in Nodes
          /\ label.dist[RouteStart] = 0 /\ label.dist[ToNode] # Inf
          /\ Backtracks("route", RouteStart, queue, label) /\ Arrives("route", label)
          /\ (heuristic = "alt" => Symmetric) => label.dist[ToNode] = CostTo("route", RouteStart, ToNode)
          /\ Way(cursor, ToNode, path)
          /\ label.dist[cursor] + PathCost(path) = label.dist[ToNode]
      BY <2>1 DEF ExtractInv
    <2> HIDE DEF l, u
    <2>4. Way(u, ToNode, <<l>> \o path)
      BY <2>2, <2>3, WayMore
    <2>5. label.dist[u] + PathCost(<<l>> \o path) = label.dist[ToNode]
      <3>1. path \in Seq(ModeLinks)
        BY <2>3 DEF Way
      <3>2. PathCost(path) \in Nat /\ PathCost(<<l>> \o path) = CostOf("route", l) + PathCost(path)
        BY <2>2, <3>1, PathCostMore
      <3>3. CostOf("route", l) \in Nat
        BY <2>2, CostsAre
      <3> QED BY <2>2, <2>3, <3>2, <3>3
    <2> QED BY <1>1, <1>2, <2>1, <2>2, <2>3, <2>4, <2>5 DEF ExtractInv
  <1>6. CASE NewDijkstra \/ NewAlt \/ LandmarkSearchDone \/ LandmarkBackward \/ CalcLeastCostPath \/ ReturnPath
    <2>1. phase' # "extract"
      BY <1>6 DEF NewDijkstra, NewAlt, LandmarkSearchDone, LandmarkBackward, CalcLeastCostPath, ReturnPath, StartSearch
    <2> QED BY <1>3, <2>1
  <1>7. CASE \E n \in queue : Settle(n)
    <2>1. phase' # "extract"
      BY <1>7 DEF Settle
    <2> QED BY <1>3, <2>1
  <1>8. CASE AStarFinished
    BY <1>3, <1>8 DEF AStarFinished, astarVars
  <1> QED BY <1>3, <1>4, <1>5, <1>6, <1>7, <1>8 DEF AStarNext, AStarStep

\* Both links of the request around the path.
LEMMA WholeIsConnected ==
  ASSUME NEW from, NEW to, NEW p \in Seq(ModeLinks),
         IF p = <<>> THEN net[from].to = net[to].from
         ELSE net[from].to = net[p[1]].from /\ net[p[Len(p)]].to = net[to].from,
         \A i \in 1..Len(p) - 1 : net[p[i]].to = net[p[i + 1]].from,
         from \in ModeLinks, to \in ModeLinks
  PROVE  LET whole == <<from>> \o p \o <<to>>
         IN \A i \in 1..Len(whole) - 1 : net[whole[i]].to = net[whole[i + 1]].from
PROOF
  <1> DEFINE a == <<from>> \o p
             w == a \o <<to>>
  <1>1. /\ <<from>> \in Seq(ModeLinks) /\ Len(<<from>>) = 1 /\ <<from>>[1] = from
        /\ <<to>> \in Seq(ModeLinks) /\ Len(<<to>>) = 1 /\ <<to>>[1] = to /\ Len(p) \in Nat
    OBVIOUS
  <1>2. /\ a \in Seq(ModeLinks) /\ Len(a) = 1 + Len(p)
        /\ \A i \in 1..Len(a) : a[i] = IF i <= 1 THEN <<from>>[i] ELSE p[i - 1]
    BY <1>1, CatIs
  <1> HIDE DEF a
  <1>3. /\ Len(w) = Len(a) + 1
        /\ \A i \in 1..Len(w) : w[i] = IF i <= Len(a) THEN a[i] ELSE <<to>>[i - Len(a)]
    BY <1>1, <1>2, CatIs
  <1> HIDE DEF w
  <1>4. a[1] = from
    <2>1. 1 \in 1..Len(a) /\ 1 <= 1
      BY <1>1, <1>2
    <2>2. a[1] = <<from>>[1]
      BY <1>2, <2>1
    <2> QED BY <1>1, <2>2
  <1>5. \A i \in 2..Len(a) : a[i] = p[i - 1] /\ i - 1 \in 1..Len(p)
    <2> SUFFICES ASSUME NEW i \in 2..Len(a) PROVE a[i] = p[i - 1] /\ i - 1 \in 1..Len(p)
      OBVIOUS
    <2>1. i \in 1..Len(a) /\ ~(i <= 1) /\ i - 1 \in 1..Len(p)
      BY <1>1, <1>2
    <2> QED BY <1>2, <2>1
  <1>6. (\A i \in 1..Len(a) : w[i] = a[i]) /\ w[Len(a) + 1] = to
    <2>1. \A i \in 1..Len(a) : i \in 1..Len(w) /\ i <= Len(a)
      BY <1>1, <1>2, <1>3
    <2>2. \A i \in 1..Len(a) : w[i] = a[i]
      BY <1>3, <2>1
    <2>3. Len(a) + 1 \in 1..Len(w) /\ ~(Len(a) + 1 <= Len(a)) /\ (Len(a) + 1) - Len(a) = 1
      BY <1>1, <1>2, <1>3
    <2>4. w[Len(a) + 1] = <<to>>[(Len(a) + 1) - Len(a)]
      BY <1>3, <2>3
    <2> QED BY <1>1, <2>2, <2>3, <2>4
  <1>7. ASSUME NEW i \in 1..Len(w) - 1 PROVE net[w[i]].to = net[w[i + 1]].from
    <2>1. i \in 1..Len(a) /\ w[i] = a[i]
      <3>1. i \in 1..Len(a)
        BY <1>1, <1>2, <1>3
      <3> QED BY <1>6, <3>1
    <2>2. CASE i = Len(a)
      <3>1. w[i + 1] = to
        BY <1>6, <2>2
      <3>2. CASE p = <<>>
        <4>1. i = 1
          BY <1>1, <1>2, <2>2, <3>2
        <4> QED BY <1>4, <2>1, <3>1, <3>2, <4>1
      <3>3. CASE p # <<>>
        <4>1. i \in 2..Len(a) /\ i - 1 = Len(p)
          BY <1>1, <1>2, <2>2, <3>3
        <4>2. a[i] = p[Len(p)]
          BY <1>5, <4>1
        <4> QED BY <2>1, <3>1, <3>3, <4>2
      <3> QED BY <3>2, <3>3
    <2>3. CASE i # Len(a)
      <3>1. i + 1 \in 1..Len(a) /\ i + 1 \in 2..Len(a) /\ (i + 1) - 1 = i /\ p # <<>>
        <4>1. i + 1 \in 1..Len(a) /\ i + 1 \in 2..Len(a) /\ (i + 1) - 1 = i /\ Len(p) # 0
          BY <1>1, <1>2, <2>1, <2>3
        <4> QED BY <4>1
      <3>2. w[i + 1] = p[i]
        BY <1>5, <1>6, <3>1
      <3>3. CASE i = 1
        BY <1>4, <2>1, <3>1, <3>2, <3>3
      <3>4. CASE i # 1
        <4>1. i \in 2..Len(a) /\ i - 1 \in 1..Len(p) - 1 /\ (i - 1) + 1 = i
          BY <1>1, <1>2, <2>1, <3>1, <3>4
        <4>2. a[i] = p[i - 1] /\ net[p[i - 1]].to = net[p[(i - 1) + 1]].from
          BY <1>5, <4>1
        <4> QED BY <2>1, <3>2, <4>1, <4>2
      <3> QED BY <3>3, <3>4
    <2> QED BY <2>2, <2>3
  <1> QED BY <1>7 DEF w, a

\* The first node of the way is the one without a parent.
LEMMA PathIsWhole ==
  ASSUME GraphInv, PhaseInv, ExtractInv, phase = "extract", label.parent[cursor] = NoParent
  PROVE  /\ path \in Seq(ModeLinks) /\ PathCost(path) \in Nat
         /\ label.dist[ToNode] = PathCost(path)
         /\ label.arrival[ToNode] - request.departure_time = PathCost(path)
         /\ IF path = <<>> THEN net[request.from].to = net[request.to].from
            ELSE net[request.from].to = net[path[1]].from /\ net[path[Len(path)]].to = net[request.to].from
         /\ \A i \in 1..Len(path) - 1 : net[path[i]].to = net[path[i + 1]].from
PROOF
  <1>1. /\ label \in Labels /\ cursor \in Nodes /\ label.dist[RouteStart] = 0
        /\ label.dist[ToNode] # Inf /\ label.dist[cursor] # Inf
        /\ Backtracks("route", RouteStart, queue, label) /\ Arrives("route", label)
        /\ Way(cursor, ToNode, path) /\ label.dist[cursor] + PathCost(path) = label.dist[ToNode]
    BY DEF ExtractInv
  <1>2. /\ {request.from, request.to} \subseteq ModeLinks /\ RouteStart \in Nodes /\ ToNode \in Nodes
        /\ Id(RouteStart) = net[request.from].to /\ Id(ToNode) = net[request.to].from
    BY RouteNodes DEF PhaseInv
  <1>3. cursor = RouteStart
    <2> SUFFICES ASSUME cursor # RouteStart PROVE FALSE
      OBVIOUS
    <2>1. NoParent \in Edges(graph)
      BY <1>1 DEF Backtracks
    <2> QED BY <2>1 DEF NoParent, Edges
  <1>4. path \in Seq(ModeLinks) /\ PathCost(path) \in Nat
    <2>1. path \in Seq(ModeLinks) /\ request.from \in ModeLinks
      BY <1>1, <1>2 DEF Way
    <2> QED BY <2>1, PathCostMore
  <1>5. label.dist[ToNode] = PathCost(path)
    BY <1>1, <1>3, <1>4
  <1>6. label.arrival[ToNode] - request.departure_time = PathCost(path)
    <2>1. label.arrival[ToNode] = request.departure_time + label.dist[ToNode]
      BY <1>1, <1>2 DEF Arrives
    <2>2. request.departure_time \in Nat
      BY AStarAssumption DEF GraphInv
    <2> QED BY <1>4, <1>5, <2>1, <2>2
  <1>7. IF path = <<>> THEN net[request.from].to = net[request.to].from
        ELSE net[request.from].to = net[path[1]].from /\ net[path[Len(path)]].to = net[request.to].from
    BY <1>1, <1>2, <1>3 DEF Way
  <1>8. \A i \in 1..Len(path) - 1 : net[path[i]].to = net[path[i + 1]].from
    BY <1>1 DEF Way
  <1> QED BY <1>4, <1>5, <1>6, <1>7, <1>8

\* What is to be returned: r.
Best == RequestCosts(net[request.from].to)[net[request.to].from]
HasRoute == {request.from, request.to} \subseteq ModeLinks /\ Best # Inf
IsRoute(r) ==
  LET whole == <<request.from>> \o r.path \o <<request.to>>
  IN /\ r.found
     /\ \A i \in 1..Len(whole) - 1 : net[whole[i]].to = net[whole[i + 1]].from
     /\ \A i \in 1..Len(r.path) : r.path[i] \in ModeLinks
     /\ r.travel_disutility = Best
     /\ r.travel_disutility = PathCost(r.path)
     /\ r.travel_time = PathCost(r.path)
Answers(r) == IF HasRoute THEN IsRoute(r) ELSE ~r.found

\* What the answer must be does not change.
LEMMA SameAnswers ==
  ASSUME net' = net, request' = request, graph' = graph
  PROVE  \A r : Answers(r)' <=> Answers(r)
PROOF
  <1>1. /\ ModeLinks' = ModeLinks /\ \A p : PathCost(p)' = PathCost(p)
        /\ \A a : RequestCosts(a)' = RequestCosts(a)
    BY SameNetwork, SameSearch
  <1>2. Best' = Best
    BY <1>1 DEF Best
  <1>3. HasRoute' <=> HasRoute
    BY <1>1, <1>2 DEF HasRoute
  <1>4. \A r : IsRoute(r)' <=> IsRoute(r)
    BY <1>1, <1>2 DEF IsRoute
  <1> QED BY <1>3, <1>4 DEF Answers

\* The result is right when it is given: no such link, nothing reached, or the path.
LEMMA ResultStep ==
  ASSUME GraphInv, PhaseInv, LandmarkInv, SearchInv, ExtractInv, RouteIsLeastCost, AStarNext
  PROVE  RouteIsLeastCost'
PROOF
  <1>1. net' = net /\ graph' = graph /\ heuristic' = heuristic /\ request' = request
    BY WorldStays
  <1>2. (Symmetric' <=> Symmetric) /\ \A r : Answers(r)' <=> Answers(r)
    BY <1>1, SameSearch, SameAnswers
  <1>3. {request.from, request.to} \subseteq ModeLinks => Best = CostTo("route", RouteStart, ToNode)
    BY RouteNodes, ReferenceIs DEF Best
  <1>4. CASE phase' # "done"
    BY <1>4 DEF RouteIsLeastCost
  <1>5. ASSUME (heuristic = "alt" => Symmetric) => Answers(result') PROVE RouteIsLeastCost'
    <2>1. RouteIsLeastCost' <=> ((phase' = "done" /\ (heuristic' = "alt" => Symmetric')) => Answers(result)')
      BY Zenon DEF RouteIsLeastCost, Answers, HasRoute, IsRoute, Best
    <2>2. Answers(result)' <=> Answers(result')
      BY <1>2
    <2> QED BY <1>1, <1>2, <1>5, <2>1, <2>2
  <1>6. CASE CalcLeastCostPath /\ phase' = "done"
    <2>1. result' = NoPath /\ ~(HasLink(graph, request.to) /\ HasLink(graph, request.from))
      BY <1>6 DEF CalcLeastCostPath, StartSearch, PhaseInv
    <2>2. ~HasRoute /\ ~result'.found
      BY <2>1, HasLinkIs DEF HasRoute, NoPath
    <2> QED BY <1>5, <2>2 DEF Answers
  <1>7. CASE RouteSearchDone /\ phase' = "done"
    <2>1. result' = NoPath
      BY <1>7 DEF RouteSearchDone, SearchReturns, PhaseInv
    <2>2. (heuristic = "alt" => Symmetric) => ~HasRoute
      BY <1>3, <1>7, RouteFound DEF HasRoute
    <2>3. ~result'.found
      BY <2>1 DEF NoPath
    <2> QED BY <1>5, <2>2, <2>3 DEF Answers
  <1>8. CASE ReturnPath
    <2>1. phase = "extract" /\ label.parent[cursor] = NoParent
      BY <1>8 DEF ReturnPath
    <2>2. /\ path \in Seq(ModeLinks) /\ PathCost(path) \in Nat
          /\ label.dist[ToNode] = PathCost(path)
          /\ label.arrival[ToNode] - request.departure_time = PathCost(path)
          /\ IF path = <<>> THEN net[request.from].to = net[request.to].from
             ELSE net[request.from].to = net[path[1]].from /\ net[path[Len(path)]].to = net[request.to].from
          /\ \A i \in 1..Len(path) - 1 : net[path[i]].to = net[path[i + 1]].from
      BY <2>1, PathIsWhole
    <2>3. request.from \in ModeLinks /\ request.to \in ModeLinks
      BY <2>1 DEF PhaseInv
    <2>4. VerifyPath
      <3>1. /\ EndNode(graph, request.from) = net[request.from].to
            /\ StartNode(graph, request.to) = net[request.to].from
        BY <2>3, RouteNodes
      <3>2. CASE path = <<>>
        BY <2>2, <3>1, <3>2 DEF VerifyPath
      <3>3. CASE path # <<>>
        <4>1. Head(path) = path[1] /\ Last(path) = path[Len(path)] /\ path[1] \in ModeLinks /\ path[Len(path)] \in ModeLinks
          BY <2>2, <3>3 DEF Last
        <4>2. StartNode(graph, path[1]) = net[path[1]].from /\ EndNode(graph, path[Len(path)]) = net[path[Len(path)]].to
          BY <4>1, GraphFits, LinkFound
        <4> QED BY <2>2, <3>1, <3>3, <4>1, <4>2 DEF VerifyPath
      <3> QED BY <3>2, <3>3
    <2>5. result' = [found |-> TRUE, path |-> path, travel_time |-> PathCost(path), travel_disutility |-> PathCost(path)]
      BY <1>8, <2>2, <2>4 DEF ReturnPath
    <2>6. /\ result'.found /\ result'.path = path /\ result'.travel_time = PathCost(path)
          /\ result'.travel_disutility = PathCost(path)
      BY <2>5
    <2>7. LET whole == <<request.from>> \o path \o <<request.to>>
          IN \A i \in 1..Len(whole) - 1 : net[whole[i]].to = net[whole[i + 1]].from
      BY <2>2, <2>3, WholeIsConnected
    <2>8. (heuristic = "alt" => Symmetric) => Best = PathCost(path)
      BY <1>3, <2>1, <2>2, <2>3 DEF ExtractInv
    <2>9. \A i \in 1..Len(path) : path[i] \in ModeLinks
      BY <2>2
    <2>10. (heuristic = "alt" => Symmetric) => IsRoute(result')
      BY <2>6, <2>7, <2>8, <2>9, Zenon DEF IsRoute
    <2>11. (heuristic = "alt" => Symmetric) => HasRoute
      BY <1>3, <2>1, <2>2, <2>3 DEF ExtractInv, HasRoute
    <2> QED BY <1>5, <2>10, <2>11 DEF Answers
  <1>9. CASE AStarFinished
    <2>1. phase' = phase /\ result' = result /\ phase = "done"
      BY <1>9 DEF AStarFinished, astarVars
    <2>2. RouteIsLeastCost <=> ((phase = "done" /\ (heuristic = "alt" => Symmetric)) => Answers(result))
      BY Zenon DEF RouteIsLeastCost, Answers, HasRoute, IsRoute, Best
    <2> QED BY <1>5, <2>1, <2>2
  <1>10. CASE NewDijkstra \/ NewAlt \/ LandmarkSearchDone \/ LandmarkBackward \/ ExtractLink
    <2>1. phase' # "done"
      BY <1>10 DEF NewDijkstra, NewAlt, LandmarkSearchDone, LandmarkBackward, ExtractLink, StartSearch
    <2> QED BY <1>4, <2>1
  <1>11. CASE \E n \in queue : Settle(n)
    <2>1. phase' # "done"
      BY <1>11 DEF Settle
    <2> QED BY <1>4, <2>1
  <1> QED BY <1>4, <1>6, <1>7, <1>8, <1>9, <1>10, <1>11 DEF AStarNext, AStarStep

\* Every step keeps the invariant.
LEMMA AStarStays == AInv /\ [AStarNext]_astarVars => AInv'
PROOF
  <1> SUFFICES ASSUME AInv, [AStarNext]_astarVars PROVE AInv'
    OBVIOUS
  <1>1. GraphInv /\ PhaseInv /\ LandmarkInv /\ SearchInv /\ ExtractInv /\ RouteIsLeastCost
    BY DEF AInv
  <1>2. GraphInv'
    BY <1>1, GraphStep
  <1>3. CASE AStarNext
    BY <1>1, <1>2, <1>3, PhaseStep, LandmarkStep, SearchStep, ExtractStep, ResultStep DEF AInv
  <1>4. CASE UNCHANGED astarVars
    <2>1. /\ net' = net /\ graph' = graph /\ heuristic' = heuristic /\ request' = request /\ to_all' = to_all /\ job' = job
          /\ queue' = queue /\ label' = label /\ landmark' = landmark /\ phase' = phase /\ cursor' = cursor
          /\ path' = path /\ result' = result
      BY <1>4 DEF astarVars
    <2>2. /\ ModeLinks' = ModeLinks /\ Nodes' = Nodes /\ Labels' = Labels /\ ToNode' = ToNode /\ RouteStart' = RouteStart
          /\ \A k, s, x : CostTo(k, s, x)' = CostTo(k, s, x)
          /\ \A k, s, q, lab, h : SearchOK(k, s, q, lab, h)' <=> SearchOK(k, s, q, lab, h)
          /\ \A k, s, d : Known(k, s, d)' <=> Known(k, s, d)
          /\ \A k, s, q, lab : Backtracks(k, s, q, lab)' <=> Backtracks(k, s, q, lab)
          /\ \A k, lab : Arrives(k, lab)' <=> Arrives(k, lab)
          /\ \A n, x, p : Way(n, x, p)' <=> Way(n, x, p)
          /\ \A p : PathCost(p)' = PathCost(p)
          /\ Symmetric' <=> Symmetric
          /\ \A a : RequestCosts(a)' = RequestCosts(a)
      BY <2>1, SameNetwork, SameSearch
    <2>3. Estimates' = Estimates /\ Start' = Start
      <3>1. Estimates' = Estimates
        BY <2>1, SameEstimates
      <3> QED BY <2>1, <2>2, <3>1 DEF Start
    <2>4. PhaseInv' /\ LandmarkInv'
      BY <1>1, <2>1, <2>2 DEF PhaseInv, LandmarkInv
    <2>5. SearchInv'
      BY <1>1, <2>1, <2>2, <2>3 DEF SearchInv
    <2>6. ExtractInv'
      BY <1>1, <2>1, <2>2 DEF ExtractInv
    <2>7. RouteIsLeastCost'
      BY <1>1, <2>1, <2>2 DEF RouteIsLeastCost
    <2> QED BY <1>2, <2>4, <2>5, <2>6, <2>7 DEF AInv
  <1> QED BY <1>3, <1>4

\* The invariant holds always.
LEMMA AStarInvariant == AStarSpec => []AInv
PROOF
  <1>1. AStarInit => AInv
    BY AStarInitial
  <1>2. AInv /\ [AStarNext]_astarVars => AInv'
    BY AStarStays
  <1> QED BY <1>1, <1>2, PTL DEF AStarSpec

\* A node that a search has taken from its queue, and never looks at again, has its least cost:
\* in the landmark's searches over the forward and the backward rows, and in Dijkstra's.
THEOREM SettledNodesAreFinal == AStarSpec => []SettledIsFinal
PROOF
  <1>1. AInv => SettledIsFinal
    BY SettledIsFinalNow DEF AInv
  <1> QED BY <1>1, AStarInvariant, PTL

\* calc_least_cost_path gives a path if and only if there is one; it is connected, takes the
\* time and has the disutility that are returned, and no path has a lower one: always for
\* Dijkstra, and for ALT where every link can be driven back at the same cost.
THEOREM RoutesAreLeastCost == AStarSpec => []RouteIsLeastCost
PROOF
  <1>1. AInv => RouteIsLeastCost
    BY DEF AInv
  <1> QED BY <1>1, AStarInvariant, PTL
=============================================================================
