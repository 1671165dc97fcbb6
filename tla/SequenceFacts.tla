--------------------------- MODULE SequenceFacts ---------------------------
(***************************************************************************)
(* What the proofs use of sequences whose elements are of no particular    *)
(* kind (messages, results, requests, vehicles).                           *)
(***************************************************************************)
EXTENDS Integers, Sequences, WellFoundedInduction, TLAPS

\* s is a sequence, of elements of whatever kind.
IsSequence(s) == s \in Seq({s[i] : i \in 1..Len(s)})

\* The elements of q.
RangeOf(q) == {q[i] : i \in 1..Len(q)}

\* No element is twice in q.
NoRepeats(q) == \A i, j \in 1..Len(q) : q[i] = q[j] => i = j

\* The elements of q that are in S, in their order.
Those(q, S) ==
  LET f[n \in 0..Len(q)] ==
        IF n = 0 THEN <<>> ELSE IF q[n] \in S THEN Append(f[n - 1], q[n]) ELSE f[n - 1]
  IN f[Len(q)]

\* The empty sequence is one: the queues and channels the code starts with.
LEMMA EmptySequence == IsSequence(<<>>) /\ Len(<<>>) = 0
  BY DEF IsSequence

\* Whatever a sequence is over, it is one over its own elements.
LEMMA SequenceOf ==
  ASSUME NEW S, NEW s \in Seq(S)
  PROVE  IsSequence(s)
<1> DEFINE T == {s[i] : i \in 1..Len(s)}
<1>1. Len(s) \in Nat /\ s = [i \in 1..Len(s) |-> s[i]]
  OBVIOUS
<1>2. \A i \in 1..Len(s) : s[i] \in T
  OBVIOUS
<1> HIDE DEF T
<1>3. s \in Seq(T)
  BY <1>1, <1>2
<1> QED
  BY <1>3 DEF IsSequence, T

\* A push at the back keeps what is there and puts the new element last.
LEMMA AppendSequence ==
  ASSUME NEW s, NEW x, IsSequence(s)
  PROVE  /\ IsSequence(Append(s, x))
         /\ Len(s) \in Nat /\ Len(Append(s, x)) = Len(s) + 1
         /\ \A i \in 1..Len(s) : Append(s, x)[i] = s[i]
         /\ Append(s, x)[Len(s) + 1] = x
<1> DEFINE S == {s[i] : i \in 1..Len(s)} \cup {x}
<1>1. s \in Seq(S) /\ x \in S
  BY DEF IsSequence
<1> HIDE DEF S
<1>2. /\ Append(s, x) \in Seq(S) /\ Len(s) \in Nat /\ Len(Append(s, x)) = Len(s) + 1
      /\ \A i \in 1..Len(s) : Append(s, x)[i] = s[i]
      /\ Append(s, x)[Len(s) + 1] = x
  BY <1>1
<1> QED
  BY <1>2, SequenceOf

\* A sequence over S that is not empty has a first element, and it is in S.
LEMMA FirstOfSequence ==
  ASSUME NEW S, NEW s \in Seq(S), s # <<>>
  PROVE  Len(s) \in Nat /\ 1 \in 1..Len(s) /\ s[1] \in S
<1>1. Len(s) \in Nat /\ Len(s) # 0
  OBVIOUS
<1> QED
  BY <1>1

\* A pop at the front hands out the first element and moves the others up by one.
LEMMA TailSequence ==
  ASSUME NEW s, IsSequence(s), s # <<>>
  PROVE  /\ IsSequence(Tail(s)) /\ Head(s) = s[1]
         /\ Len(s) \in Nat /\ Len(s) >= 1 /\ Len(Tail(s)) = Len(s) - 1
         /\ \A i \in 1..Len(Tail(s)) : i + 1 \in 1..Len(s) /\ Tail(s)[i] = s[i + 1]
<1> DEFINE S == {s[i] : i \in 1..Len(s)}
<1>1. s \in Seq(S)
  BY DEF IsSequence
<1> HIDE DEF S
<1>2. /\ Tail(s) \in Seq(S) /\ Head(s) = s[1]
      /\ Len(s) \in Nat /\ Len(s) >= 1 /\ Len(Tail(s)) = Len(s) - 1
      /\ \A i \in 1..Len(Tail(s)) : i + 1 \in 1..Len(s) /\ Tail(s)[i] = s[i + 1]
  BY <1>1
<1> QED
  BY <1>2, SequenceOf

-----------------------------------------------------------------------------
(* Recursion and induction over the numbers up to n.  A recursive function is  *)
(* what its equation says if some function satisfies the equation; what it     *)
(* computes is proved with the least number for which it would be wrong.       *)

\* A set of numbers that is not empty has a least one.
LEMMA LeastNumber ==
  ASSUME NEW T, T \subseteq Nat, T # {}
  PROVE  \E n \in T : \A k \in T : n <= k
PROOF
  <1> DEFINE R == OpToRel(<, Nat)
  <1>1. IsWellFoundedOn(R, Nat)
    BY NatLessThanWellFounded
  <1>2. \A x, y \in Nat : x < y => <<x, y>> \in R
    BY DEF OpToRel
  <1> HIDE DEF R
  <1>3. PICK n \in T : \A k \in T : ~(<<k, n>> \in R)
    BY <1>1, WFMin
  <1>4. \A k \in T : ~(k < n)
    BY <1>2, <1>3
  <1> QED BY <1>3, <1>4

\* What is true of 0 and passed on from number to number up to n is true up to n.
LEMMA UpTo ==
  ASSUME NEW n \in Nat, NEW P, 0 \in P, \A i \in 1..n : i - 1 \in P => i \in P
  PROVE  \A i \in 0..n : i \in P
PROOF
  <1> DEFINE T == {i \in 0..n : i \notin P}
  <1>1. SUFFICES ASSUME T # {} PROVE FALSE
    OBVIOUS
  <1>2. PICK k \in T : \A i \in T : k <= i
    <2>1. T \subseteq Nat
      OBVIOUS
    <2> HIDE DEF T
    <2> QED BY <1>1, <2>1, LeastNumber
  <1>3. k \in 1..n /\ k \notin P /\ k - 1 \in 0..n
    OBVIOUS
  <1>4. k - 1 \in P
    <2>1. k - 1 \notin T
      <3> HIDE DEF T
      <3> QED BY <1>2, <1>3
    <2> QED BY <1>3, <2>1
  <1> QED BY <1>3, <1>4

\* g takes the values that x and the step for every number up to n give.
IsRecursion(g, x, n, step) == \A i \in 0..n : g[i] = IF i = 0 THEN x ELSE step[<<i, g[i - 1]>>]

\* There is such a g for every n.
LEMMA RecursionExists ==
  ASSUME NEW X, NEW x \in X, NEW n \in Nat, NEW step \in [(1..n) \X X -> X]
  PROVE  \E g \in [0..n -> X] : IsRecursion(g, x, n, step)
PROOF
  <1> DEFINE Is(g, k) == \A i \in 0..k : g[i] = IF i = 0 THEN x ELSE step[<<i, g[i - 1]>>]
             P == {k \in 0..n : \E g \in [0..k -> X] : Is(g, k)}
  <1>1. 0 \in P
    <2> DEFINE g == [i \in 0..0 |-> x]
    <2>1. g \in [0..0 -> X] /\ Is(g, 0)
      OBVIOUS
    <2>2. \E f \in [0..0 -> X] : Is(f, 0)
      <3> HIDE DEF g, Is
      <3> QED BY <2>1
    <2> HIDE DEF Is
    <2> QED BY <2>2
  <1>2. ASSUME NEW k \in 1..n, k - 1 \in P PROVE k \in P
    <2>1. PICK g \in [0..(k - 1) -> X] : Is(g, k - 1)
      BY <1>2
    <2> DEFINE h == [i \in 0..k |-> IF i = k THEN step[<<k, g[k - 1]>>] ELSE g[i]]
    <2>2. g[k - 1] \in X /\ step[<<k, g[k - 1]>>] \in X
      OBVIOUS
    <2>3. h \in [0..k -> X]
      BY <2>2
    <2>4. ASSUME NEW i \in 0..k PROVE h[i] = IF i = 0 THEN x ELSE step[<<i, h[i - 1]>>]
      <3>1. CASE i = k
        <4>1. h[i] = step[<<k, g[k - 1]>>] /\ i # 0 /\ h[i - 1] = g[k - 1]
          BY <3>1
        <4> QED BY <3>1, <4>1
      <3>2. CASE i # k
        <4>1. i \in 0..(k - 1) /\ h[i] = g[i] /\ (i # 0 => h[i - 1] = g[i - 1])
          BY <3>2
        <4> QED BY <2>1, <4>1
      <3> QED BY <3>1, <3>2
    <2> HIDE DEF h
    <2> QED BY <2>3, <2>4
  <1>3. n \in P
    <2> HIDE DEF P
    <2> QED BY <1>1, <1>2, UpTo
  <1> QED BY <1>3 DEF IsRecursion

-----------------------------------------------------------------------------
(* Elements and repetitions.                                                *)

\* The elements of an empty, a longer and a shorter sequence.
LEMMA RangeOfEmpty == RangeOf(<<>>) = {} /\ NoRepeats(<<>>)
  BY DEF RangeOf, NoRepeats

LEMMA RangeOfIn ==
  ASSUME NEW E, NEW q \in Seq(E)
  PROVE  RangeOf(q) \subseteq E /\ (RangeOf(q) = {} => q = <<>>)
PROOF
  <1>1. Len(q) \in Nat /\ \A i \in 1..Len(q) : q[i] \in E
    OBVIOUS
  <1>2. q # <<>> => 1 \in 1..Len(q)
    OBVIOUS
  <1> QED BY <1>1, <1>2 DEF RangeOf

LEMMA RangeOfAppend ==
  ASSUME NEW E, NEW q \in Seq(E), NEW x \in E
  PROVE  /\ Append(q, x) \in Seq(E) /\ RangeOf(Append(q, x)) = RangeOf(q) \cup {x}
         /\ NoRepeats(q) /\ x \notin RangeOf(q) => NoRepeats(Append(q, x))
PROOF
  <1> DEFINE p == Append(q, x)
  <1>1. /\ p \in Seq(E) /\ Len(q) \in Nat /\ Len(p) = Len(q) + 1 /\ p[Len(q) + 1] = x
        /\ \A i \in 1..Len(q) : p[i] = q[i]
    OBVIOUS
  <1>2. \A i \in 1..Len(p) : i \in 1..Len(q) \/ i = Len(q) + 1
    BY <1>1
  <1>3. 1..Len(q) \subseteq 1..Len(p) /\ Len(q) + 1 \in 1..Len(p) /\ Len(q) + 1 \notin 1..Len(q)
    BY <1>1
  <1> HIDE DEF p
  <1>4. RangeOf(p) = RangeOf(q) \cup {x}
    BY <1>1, <1>2, <1>3 DEF RangeOf
  <1>5. ASSUME NoRepeats(q), x \notin RangeOf(q) PROVE NoRepeats(p)
    <2> SUFFICES ASSUME NEW i \in 1..Len(p), NEW j \in 1..Len(p), p[i] = p[j] PROVE i = j
      BY DEF NoRepeats
    <2>1. \A k \in 1..Len(q) : p[k] # x
      BY <1>1, <1>5 DEF RangeOf
    <2> QED BY <1>1, <1>2, <1>5, <2>1 DEF NoRepeats
  <1> QED BY <1>1, <1>4, <1>5 DEF p

LEMMA RangeOfTail ==
  ASSUME NEW E, NEW q \in Seq(E), q # <<>>
  PROVE  /\ Tail(q) \in Seq(E) /\ Head(q) = q[1] /\ Head(q) \in E
         /\ RangeOf(q) = {Head(q)} \cup RangeOf(Tail(q))
         /\ NoRepeats(q) => NoRepeats(Tail(q)) /\ Head(q) \notin RangeOf(Tail(q))
PROOF
  <1> DEFINE p == Tail(q)
  <1>1. /\ p \in Seq(E) /\ Len(q) \in Nat /\ Len(q) >= 1 /\ Len(p) = Len(q) - 1
        /\ Head(q) = q[1] /\ Head(q) \in E
        /\ \A i \in 1..Len(p) : p[i] = q[i + 1]
    OBVIOUS
  <1> HIDE DEF p
  <1>2. \A i \in 1..Len(p) : i + 1 \in 1..Len(q) /\ i + 1 # 1
    BY <1>1
  <1>3. 1 \in 1..Len(q) /\ \A i \in 1..Len(q) : i = 1 \/ (i - 1 \in 1..Len(p) /\ (i - 1) + 1 = i)
    BY <1>1
  <1>4. RangeOf(q) = {Head(q)} \cup RangeOf(p)
    <2>1. ASSUME NEW x \in RangeOf(q) PROVE x \in {Head(q)} \cup RangeOf(p)
      <3>1. PICK i \in 1..Len(q) : x = q[i]
        BY DEF RangeOf
      <3>2. CASE i = 1
        BY <1>1, <3>1, <3>2
      <3>3. CASE i # 1
        <4>1. p[i - 1] = q[i] /\ i - 1 \in 1..Len(p)
          BY <1>1, <1>3, <3>3
        <4> QED BY <3>1, <4>1 DEF RangeOf
      <3> QED BY <3>2, <3>3
    <2>2. RangeOf(p) \subseteq RangeOf(q)
      BY <1>1, <1>2 DEF RangeOf
    <2>3. Head(q) \in RangeOf(q)
      BY <1>1, <1>3 DEF RangeOf
    <2> QED BY <2>1, <2>2, <2>3
  <1>5. ASSUME NoRepeats(q) PROVE NoRepeats(p) /\ Head(q) \notin RangeOf(p)
    <2>1. ASSUME NEW i \in 1..Len(p), NEW j \in 1..Len(p), p[i] = p[j] PROVE i = j
      <3>1. q[i + 1] = q[j + 1]
        BY <1>1, <2>1
      <3>2. i + 1 = j + 1
        BY <1>2, <1>5, <3>1 DEF NoRepeats
      <3> QED BY <1>1, <3>2
    <2>2. ASSUME NEW i \in 1..Len(p) PROVE p[i] # Head(q)
      BY <1>1, <1>2, <1>3, <1>5 DEF NoRepeats
    <2> QED BY <2>1, <2>2 DEF NoRepeats, RangeOf
  <1> QED BY <1>1, <1>4, <1>5 DEF p

\* Equal elements at equal places make equal sequences.
LEMMA SequencesEqual ==
  ASSUME NEW S, NEW s \in Seq(S), NEW t \in Seq(S), Len(s) = Len(t),
         \A i \in 1..Len(s) : s[i] = t[i]
  PROVE  s = t
  OBVIOUS

\* What is where in two sequences, one after the other.
LEMMA CatIs ==
  ASSUME NEW S, NEW s \in Seq(S), NEW t \in Seq(S)
  PROVE  /\ s \o t \in Seq(S) /\ Len(s \o t) = Len(s) + Len(t)
         /\ \A i \in 1..Len(s \o t) :
              (s \o t)[i] = IF i <= Len(s) THEN s[i] ELSE t[i - Len(s)]
  OBVIOUS

\* An element put behind the second of two sequences is behind both.
LEMMA CatAppend ==
  ASSUME NEW S, NEW s \in Seq(S), NEW t \in Seq(S), NEW x \in S
  PROVE  s \o Append(t, x) = Append(s \o t, x)
  OBVIOUS

\* What is left behind the first m elements.
LEMMA SuffixIs ==
  ASSUME NEW S, NEW s \in Seq(S), NEW m \in 0..Len(s)
  PROVE  LET u == SubSeq(s, m + 1, Len(s)) IN
           /\ u \in Seq(S) /\ Len(u) = Len(s) - m
           /\ \A i \in 1..(Len(s) - m) : u[i] = s[m + i]
  OBVIOUS

\* A sequence is what it begins with and the rest.
LEMMA SplitAt ==
  ASSUME NEW S, NEW s \in Seq(S), NEW m \in 0..Len(s)
  PROVE  LET p == SubSeq(s, 1, m)
             u == SubSeq(s, m + 1, Len(s))
         IN  p \in Seq(S) /\ u \in Seq(S) /\ s = p \o u
PROOF
  <1> DEFINE p == SubSeq(s, 1, m)
             u == SubSeq(s, m + 1, Len(s))
  <1>1. m \in Nat /\ Len(s) \in Nat /\ m <= Len(s)
    OBVIOUS
  <1>2. p \in Seq(S) /\ Len(p) = m /\ \A i \in 1..m : p[i] = s[i]
    BY <1>1
  <1>3. u \in Seq(S) /\ Len(u) = Len(s) - m /\ \A i \in 1..(Len(s) - m) : u[i] = s[m + i]
    BY SuffixIs
  <1> HIDE DEF p, u
  <1>4. /\ p \o u \in Seq(S) /\ Len(p \o u) = Len(s)
        /\ \A i \in 1..Len(s) : (p \o u)[i] = IF i <= m THEN p[i] ELSE u[i - m]
    <2> DEFINE c == p \o u
    <2>1. /\ c \in Seq(S) /\ Len(c) = Len(p) + Len(u)
          /\ \A i \in 1..Len(c) : c[i] = IF i <= Len(p) THEN p[i] ELSE u[i - Len(p)]
      BY <1>2, <1>3, CatIs
    <2>2. Len(p) + Len(u) = Len(s)
      BY <1>1, <1>2, <1>3
    <2> HIDE DEF c
    <2>3. /\ c \in Seq(S) /\ Len(c) = Len(s)
          /\ \A i \in 1..Len(s) : c[i] = IF i <= m THEN p[i] ELSE u[i - m]
      BY <1>2, <2>1, <2>2
    <2> QED BY <2>3 DEF c
  <1>5. \A i \in 1..Len(s) : (p \o u)[i] = s[i]
    <2> TAKE i \in 1..Len(s)
    <2>1. CASE i <= m
      BY <1>1, <1>2, <1>4, <2>1
    <2>2. CASE ~(i <= m)
      <3>1. i - m \in 1..(Len(s) - m) /\ m + (i - m) = i
        BY <1>1, <2>2
      <3>2. u[i - m] = s[m + (i - m)]
        BY <1>3, <3>1
      <3> QED BY <1>4, <2>2, <3>1, <3>2
    <2> QED BY <2>1, <2>2
  <1>6. s = p \o u
    <2> DEFINE c == p \o u
    <2>1. c \in Seq(S) /\ Len(c) = Len(s) /\ \A i \in 1..Len(s) : c[i] = s[i]
      BY <1>4, <1>5
    <2> HIDE DEF c
    <2>2. s = c
      BY <2>1, SequencesEqual
    <2> QED BY <2>2 DEF c
  <1> QED BY <1>2, <1>3, <1>6 DEF p, u

\* Two sequences, one after the other.
LEMMA RangeOfCat ==
  ASSUME NEW E, NEW p \in Seq(E), NEW q \in Seq(E)
  PROVE  /\ p \o q \in Seq(E) /\ Len(p \o q) = Len(p) + Len(q)
         /\ RangeOf(p \o q) = RangeOf(p) \cup RangeOf(q)
         /\ NoRepeats(p \o q) <=> NoRepeats(p) /\ NoRepeats(q) /\ RangeOf(p) \cap RangeOf(q) = {}
PROOF
  <1> DEFINE s == p \o q
  <1>1. /\ s \in Seq(E) /\ Len(p) \in Nat /\ Len(q) \in Nat /\ Len(s) = Len(p) + Len(q)
        /\ \A i \in 1..Len(s) : s[i] = IF i <= Len(p) THEN p[i] ELSE q[i - Len(p)]
    OBVIOUS
  <1> HIDE DEF s
  <1>2. \A i \in 1..Len(p) : i \in 1..Len(s) /\ s[i] = p[i]
    BY <1>1
  <1>3. ASSUME NEW i \in 1..Len(q) PROVE Len(p) + i \in 1..Len(s) /\ s[Len(p) + i] = q[i]
    <2>1. /\ Len(p) + i \in 1..Len(s) /\ ~(Len(p) + i <= Len(p)) /\ (Len(p) + i) - Len(p) = i
      BY <1>1
    <2> QED BY <1>1, <2>1
  <1>4. \A i \in 1..Len(s) :
          \/ i \in 1..Len(p) /\ s[i] = p[i]
          \/ i - Len(p) \in 1..Len(q) /\ s[i] = q[i - Len(p)] /\ i > Len(p)
    BY <1>1
  <1>5. RangeOf(s) = RangeOf(p) \cup RangeOf(q)
    <2>1. RangeOf(s) \subseteq RangeOf(p) \cup RangeOf(q)
      BY <1>4 DEF RangeOf
    <2>2. RangeOf(p) \subseteq RangeOf(s)
      BY <1>2 DEF RangeOf
    <2>3. RangeOf(q) \subseteq RangeOf(s)
      BY <1>3 DEF RangeOf
    <2> QED BY <2>1, <2>2, <2>3
  <1>6. ASSUME NoRepeats(s) PROVE NoRepeats(p) /\ NoRepeats(q) /\ RangeOf(p) \cap RangeOf(q) = {}
    <2>1. NoRepeats(p)
      BY <1>2, <1>6 DEF NoRepeats
    <2>2. ASSUME NEW i \in 1..Len(q), NEW j \in 1..Len(q), q[i] = q[j] PROVE i = j
      <3>1. Len(p) + i = Len(p) + j
        BY <1>3, <1>6, <2>2 DEF NoRepeats
      <3> QED BY <1>1, <3>1
    <2>3. ASSUME NEW i \in 1..Len(p), NEW j \in 1..Len(q) PROVE p[i] # q[j]
      <3>1. i # Len(p) + j
        BY <1>1
      <3> QED BY <1>2, <1>3, <1>6, <3>1 DEF NoRepeats
    <2> QED BY <2>1, <2>2, <2>3 DEF NoRepeats, RangeOf
  <1>7. ASSUME NoRepeats(p), NoRepeats(q), RangeOf(p) \cap RangeOf(q) = {} PROVE NoRepeats(s)
    <2> SUFFICES ASSUME NEW i \in 1..Len(s), NEW j \in 1..Len(s), s[i] = s[j] PROVE i = j
      BY DEF NoRepeats
    <2>1. \A k \in 1..Len(p), m \in 1..Len(q) : p[k] # q[m]
      BY <1>7 DEF RangeOf
    <2>2. CASE i \in 1..Len(p) /\ s[i] = p[i]
      <3>1. j \in 1..Len(p) /\ s[j] = p[j]
        BY <1>4, <2>1, <2>2
      <3> QED BY <1>7, <2>2, <3>1 DEF NoRepeats
    <2>3. CASE i - Len(p) \in 1..Len(q) /\ s[i] = q[i - Len(p)]
      <3>1. j - Len(p) \in 1..Len(q) /\ s[j] = q[j - Len(p)]
        BY <1>4, <2>1, <2>3
      <3>2. i - Len(p) = j - Len(p)
        BY <1>7, <2>3, <3>1 DEF NoRepeats
      <3> QED BY <1>1, <3>2
    <2> QED BY <1>4, <2>2, <2>3
  <1> QED BY <1>1, <1>5, <1>6, <1>7 DEF s

-----------------------------------------------------------------------------
(* Those elements that are in a set.                                        *)

\* The first n elements of q, those in S.
IsThose(g, q, S, n) ==
  \A i \in 0..n : g[i] = IF i = 0 THEN <<>>
                         ELSE IF q[i] \in S THEN Append(g[i - 1], q[i]) ELSE g[i - 1]

LEMMA ThoseIs ==
  ASSUME NEW E, NEW q \in Seq(E), NEW S
  PROVE  \E g \in [0..Len(q) -> Seq(E)] : IsThose(g, q, S, Len(q)) /\ Those(q, S) = g[Len(q)]
PROOF
  <1> DEFINE n == Len(q)
             step == [p \in (1..n) \X Seq(E) |-> IF q[p[1]] \in S THEN Append(p[2], q[p[1]]) ELSE p[2]]
             Def(f) == [i \in 0..n |-> IF i = 0 THEN <<>>
                          ELSE IF q[i] \in S THEN Append(f[i - 1], q[i]) ELSE f[i - 1]]
             those == CHOOSE f : f = Def(f)
  <1>1. n \in Nat /\ \A i \in 1..n : q[i] \in E
    OBVIOUS
  <1>2. step \in [(1..n) \X Seq(E) -> Seq(E)]
    <2>1. ASSUME NEW p \in (1..n) \X Seq(E)
          PROVE  (IF q[p[1]] \in S THEN Append(p[2], q[p[1]]) ELSE p[2]) \in Seq(E)
      <3>1. p[2] \in Seq(E) /\ q[p[1]] \in E
        BY <1>1
      <3> QED BY <3>1
    <2> QED BY <2>1
  <1>3. PICK g \in [0..n -> Seq(E)] :
          \A i \in 0..n : g[i] = IF i = 0 THEN <<>> ELSE step[<<i, g[i - 1]>>]
    <2>1. <<>> \in Seq(E)
      OBVIOUS
    <2> DEFINE X == Seq(E)
               x == <<>>
    <2>2. n \in Nat /\ x \in X /\ step \in [(1..n) \X X -> X]
      BY <1>1, <1>2, <2>1
    <2> HIDE DEF step, n, X, x
    <2>3. \E g \in [0..n -> X] : IsRecursion(g, x, n, step)
      BY <2>2, RecursionExists
    <2> QED BY <2>3 DEF X, x, IsRecursion
  <1>4. \A i \in 0..n : g[i] = IF i = 0 THEN <<>>
                               ELSE IF q[i] \in S THEN Append(g[i - 1], q[i]) ELSE g[i - 1]
    <2>1. ASSUME NEW i \in 1..n PROVE step[<<i, g[i - 1]>>] =
                   IF q[i] \in S THEN Append(g[i - 1], q[i]) ELSE g[i - 1]
      <3>1. g[i - 1] \in Seq(E)
        BY <1>1
      <3>2. <<i, g[i - 1]>> \in (1..n) \X Seq(E)
        BY <3>1
      <3> QED BY <3>2
    <2> HIDE DEF step
    <2>2. \A i \in 0..n : i = 0 \/ i \in 1..n
      BY <1>1
    <2> HIDE DEF n
    <2> QED BY <1>3, <2>1, <2>2
  <1>5. g = Def(g)
    <2> HIDE DEF step
    <2> QED BY <1>3, <1>4
  <1>6. those = Def(those)
    <2> HIDE DEF Def
    <2> QED BY <1>5
  <1>7. Those(q, S) = those[n]
    BY Zenon DEF Those
  <1>8. DOMAIN those = 0..n /\ IsThose(those, q, S, n)
    <2> HIDE DEF those
    <2> QED BY <1>6 DEF IsThose
  <1>9. \A i \in 0..n : those[i] = g[i]
    <2> DEFINE P == {i \in 0..n : those[i] = g[i]}
    <2> HIDE DEF those, step
    <2>1. 0 \in P
      BY <1>1, <1>4, <1>8 DEF IsThose
    <2>2. ASSUME NEW i \in 1..n, i - 1 \in P PROVE i \in P
      <3>1. i \in 0..n /\ i # 0 /\ those[i - 1] = g[i - 1]
        BY <1>1, <2>2
      <3> QED BY <1>4, <1>8, <3>1 DEF IsThose
    <2>3. \A i \in 0..n : i \in P
      <3> HIDE DEF P, n
      <3> QED BY <1>1, <2>1, <2>2, UpTo
    <2> QED BY <2>3
  <1>10. those = g
    <2>1. those = [i \in 0..n |-> those[i]]
      <3> HIDE DEF those
      <3> QED BY <1>6
    <2> HIDE DEF those, n
    <2> QED BY <1>9, <2>1
  <1> QED BY <1>7, <1>8, <1>10

\* The elements are those in both, and none is repeated that was not.
LEMMA ThoseElements ==
  ASSUME NEW E, NEW q \in Seq(E), NEW S
  PROVE  /\ Those(q, S) \in Seq(E) /\ RangeOf(Those(q, S)) = RangeOf(q) \cap S
         /\ NoRepeats(q) => NoRepeats(Those(q, S))
PROOF
  <1> DEFINE n == Len(q)
             upTo(i) == {q[j] : j \in 1..i}
  <1>1. PICK g \in [0..n -> Seq(E)] : IsThose(g, q, S, n) /\ Those(q, S) = g[n]
    BY ThoseIs
  <1>2. n \in Nat /\ \A i \in 1..n : q[i] \in E
    OBVIOUS
  <1> DEFINE P == {i \in 0..n : /\ RangeOf(g[i]) = upTo(i) \cap S
                                /\ NoRepeats(q) => NoRepeats(g[i])}
  <1>3. 0 \in P
    <2>1. g[0] = <<>> /\ upTo(0) = {}
      BY <1>1, <1>2 DEF IsThose
    <2> QED BY <1>2, <2>1, RangeOfEmpty
  <1>4. ASSUME NEW i \in 1..n, i - 1 \in P PROVE i \in P
    <2> DEFINE h == g[i - 1]
    <2>1. /\ h \in Seq(E) /\ q[i] \in E /\ i \in 0..n
          /\ g[i] = IF q[i] \in S THEN Append(h, q[i]) ELSE h
      <3>1. i \in 0..n /\ i # 0 /\ i - 1 \in 0..n
        BY <1>2
      <3> HIDE DEF n
      <3> QED BY <1>1, <1>2, <3>1 DEF IsThose
    <2>2. RangeOf(h) = upTo(i - 1) \cap S /\ (NoRepeats(q) => NoRepeats(h))
      BY <1>4
    <2>3. upTo(i) = upTo(i - 1) \cup {q[i]}
      <3>1. \A j : j \in 1..i <=> j \in 1..(i - 1) \/ j = i
        BY <1>2
      <3> QED BY <3>1
    <2> HIDE DEF h
    <2>4. NoRepeats(q) => q[i] \notin upTo(i - 1)
      BY <1>2 DEF NoRepeats
    <2> HIDE DEF upTo
    <2>5. CASE q[i] \in S
      <3>1. g[i] = Append(h, q[i])
        BY <2>1, <2>5
      <3>2. /\ RangeOf(g[i]) = RangeOf(h) \cup {q[i]}
            /\ NoRepeats(h) /\ q[i] \notin RangeOf(h) => NoRepeats(g[i])
        BY <2>1, <3>1, RangeOfAppend
      <3>3. RangeOf(g[i]) = upTo(i) \cap S
        BY <2>2, <2>3, <2>5, <3>2
      <3> QED BY <2>1, <2>2, <2>4, <3>2, <3>3
    <2>6. CASE q[i] \notin S
      BY <2>1, <2>2, <2>3, <2>6
    <2> QED BY <2>5, <2>6
  <1>5. n \in P
    <2>1. \A i \in 0..n : i \in P
      <3> HIDE DEF P, n
      <3> QED BY <1>2, <1>3, <1>4, UpTo
    <2> QED BY <1>2, <2>1
  <1>6. upTo(n) = RangeOf(q)
    BY DEF RangeOf
  <1> QED BY <1>1, <1>2, <1>5, <1>6

LEMMA ThoseNone ==
  ASSUME NEW E, NEW q \in Seq(E), NEW S, RangeOf(q) \cap S = {}
  PROVE  Those(q, S) = <<>>
  BY ThoseElements, RangeOfIn

LEMMA ThoseCat ==
  ASSUME NEW E, NEW p \in Seq(E), NEW q \in Seq(E), NEW S
  PROVE  Those(p \o q, S) = Those(p, S) \o Those(q, S)
PROOF
  <1> DEFINE s == p \o q
             k == Len(p)
             n == Len(q)
  <1>1. /\ s \in Seq(E) /\ k \in Nat /\ n \in Nat /\ Len(s) = k + n
        /\ \A i \in 1..(k + n) : s[i] = IF i <= k THEN p[i] ELSE q[i - k]
        /\ \A i \in 1..n : q[i] \in E
    OBVIOUS
  <1>2. PICK f \in [0..k -> Seq(E)] : IsThose(f, p, S, k) /\ Those(p, S) = f[k]
    BY ThoseIs
  <1>3. PICK g \in [0..n -> Seq(E)] : IsThose(g, q, S, n) /\ Those(q, S) = g[n]
    BY ThoseIs
  <1>a. k \in Nat /\ n \in Nat
    BY <1>1
  <1> HIDE DEF s
  <1>4. PICK h \in [0..(k + n) -> Seq(E)] : IsThose(h, s, S, k + n) /\ Those(s, S) = h[k + n]
    <2>1. \E h \in [0..Len(s) -> Seq(E)] : IsThose(h, s, S, Len(s)) /\ Those(s, S) = h[Len(s)]
      <3>1. s \in Seq(E)
        BY <1>1
      <3> QED BY <3>1, ThoseIs
    <2> QED BY <1>1, <2>1
  <1> HIDE DEF k, n
  <1>5. \A i \in 0..k : h[i] = f[i]
    <2> DEFINE P == {i \in 0..k : h[i] = f[i]}
    <2>1. 0 \in P
      BY <1>1, <1>2, <1>4 DEF IsThose
    <2>2. ASSUME NEW i \in 1..k, i - 1 \in P PROVE i \in P
      <3>1. /\ i \in 0..k /\ i \in 0..(k + n) /\ i # 0 /\ h[i - 1] = f[i - 1]
            /\ i \in 1..(k + n) /\ i <= k
        BY <1>a, <2>2
      <3>2. s[i] = p[i]
        BY <1>1, <3>1
      <3> QED BY <1>2, <1>4, <3>1, <3>2 DEF IsThose
    <2>3. \A i \in 0..k : i \in P
      <3> HIDE DEF P
      <3> QED BY <1>1, <2>1, <2>2, UpTo
    <2> QED BY <2>3
  <1>6. h[k] = f[k] /\ f[k] \in Seq(E)
    BY <1>1, <1>5
  <1>7. \A i \in 0..n : h[k + i] = f[k] \o g[i]
    <2> DEFINE P == {i \in 0..n : h[k + i] = f[k] \o g[i]}
    <2>1. 0 \in P
      <3>1. g[0] = <<>> /\ k + 0 = k
        BY <1>1, <1>3 DEF IsThose
      <3>2. f[k] \o <<>> = f[k]
        BY <1>6
      <3>3. 0 \in 0..n
        BY <1>a
      <3> QED BY <1>6, <3>1, <3>2, <3>3
    <2>2. ASSUME NEW i \in 1..n, i - 1 \in P PROVE i \in P
      <3>1. /\ i \in 0..n /\ i # 0 /\ k + i \in 0..(k + n) /\ k + i # 0 /\ k + i \in 1..(k + n)
            /\ ~(k + i <= k) /\ (k + i) - k = i /\ (k + i) - 1 = k + (i - 1) /\ i - 1 \in 0..n
        BY <1>a
      <3>2. h[k + (i - 1)] = f[k] \o g[i - 1]
        BY <2>2
      <3>3. s[k + i] = q[i]
        BY <1>1, <3>1
      <3>4. h[k + i] = IF q[i] \in S THEN Append(h[k + (i - 1)], q[i]) ELSE h[k + (i - 1)]
        BY <1>4, <3>1, <3>3 DEF IsThose
      <3>5. g[i] = IF q[i] \in S THEN Append(g[i - 1], q[i]) ELSE g[i - 1]
        BY <1>3, <3>1 DEF IsThose
      <3>6. g[i - 1] \in Seq(E)
        BY <3>1
      <3>7. f[k] \o Append(g[i - 1], q[i]) = Append(f[k] \o g[i - 1], q[i])
        <4>1. f[k] \in Seq(E) /\ g[i - 1] \in Seq(E) /\ q[i] \in E
          BY <1>1, <1>6, <3>6
        <4>2. ASSUME NEW u \in Seq(E), NEW v \in Seq(E), NEW x \in E
              PROVE  u \o Append(v, x) = Append(u \o v, x)
          BY CatAppend
        <4> QED BY <4>1, <4>2, Zenon
      <3> QED BY <3>1, <3>2, <3>4, <3>5, <3>7
    <2>3. \A i \in 0..n : i \in P
      <3> HIDE DEF P
      <3> QED BY <1>1, <2>1, <2>2, UpTo
    <2> QED BY <2>3
  <1>8. h[k + n] = f[k] \o g[n]
    <2>1. n \in 0..n
      BY <1>a
    <2> QED BY <1>7, <2>1
  <1>9. Those(s, S) = Those(p, S) \o Those(q, S)
    BY <1>2, <1>3, <1>4, <1>8, Zenon
  <1> QED BY <1>9 DEF s
=============================================================================
