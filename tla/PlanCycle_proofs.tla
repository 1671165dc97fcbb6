--------------------------- MODULE PlanCycle_proofs ---------------------------
(* Proofs about PlanCycle.                                                       *)
EXTENDS PlanCycle, SequenceFacts, FiniteSetTheorems, FunctionTheorems, TLAPS

-----------------------------------------------------------------------------
(* Removing plans.                                                          *)

\* What is left of a sequence without its j-th element.
LEMMA RemoveAtIs ==
  ASSUME NEW S, NEW s \in Seq(S), NEW j \in 1..Len(s)
  PROVE  /\ RemoveAt(s, j) \in Seq(S)
         /\ Len(RemoveAt(s, j)) = Len(s) - 1
         /\ \A i \in 1..Len(s) - 1 : RemoveAt(s, j)[i] = s[IF i < j THEN i ELSE i + 1]
PROOF
  <1> DEFINE a == SubSeq(s, 1, j - 1)
             b == SubSeq(s, j + 1, Len(s))
  <1>1. a \in Seq(S) /\ Len(a) = j - 1 /\ \A i \in 1..j - 1 : a[i] = s[i]
    <2>1. j - 1 \in 0..Len(s) /\ Len(s) \in Nat
      OBVIOUS
    <2> QED BY <2>1
  <1>2. b \in Seq(S) /\ Len(b) = Len(s) - j /\ \A i \in 1..Len(s) - j : b[i] = s[j + i]
    BY SuffixIs
  <1>3. RemoveAt(s, j) = a \o b
    BY DEF RemoveAt
  <1>l. Len(s) \in Nat
    OBVIOUS
  <1> HIDE DEF a, b
  <1>4. /\ a \o b \in Seq(S) /\ Len(a \o b) = Len(s) - 1
        /\ \A i \in 1..Len(s) - 1 : (a \o b)[i] = IF i <= Len(a) THEN a[i] ELSE b[i - Len(a)]
    <2>1. /\ a \o b \in Seq(S) /\ Len(a \o b) = Len(a) + Len(b)
          /\ \A i \in 1..Len(a \o b) : (a \o b)[i] = IF i <= Len(a) THEN a[i] ELSE b[i - Len(a)]
      BY <1>1, <1>2, CatIs
    <2>2. Len(a) + Len(b) = Len(s) - 1
      BY <1>1, <1>2, <1>l
    <2> QED BY <2>1, <2>2
  <1>5. ASSUME NEW i \in 1..Len(s) - 1
        PROVE  (a \o b)[i] = s[IF i < j THEN i ELSE i + 1]
    <2>1. CASE i < j
      BY <1>1, <1>4, <2>1
    <2>2. CASE ~(i < j)
      <3>1. i - (j - 1) \in 1..Len(s) - j /\ j + (i - (j - 1)) = i + 1
        BY <2>2
      <3> QED BY <1>1, <1>2, <1>4, <2>2, <3>1
    <2> QED BY <1>l, <2>1, <2>2
  <1> QED BY <1>3, <1>4, <1>5

\* A plan in memory, and the plans of a person.
IsPlan(plan) ==
  /\ plan = [elements |-> plan.elements, score |-> plan.score, selected |-> plan.selected]
  /\ plan.score \in Int \cup {NoScore} /\ plan.selected \in BOOLEAN
ArePlans(plans) == IsSequence(plans) /\ \A i \in 1..Len(plans) : IsPlan(plans[i])

\* Exactly one plan is selected.
OneSelected(plans) ==
  \E i \in 1..Len(plans) : \A k \in 1..Len(plans) : plans[k].selected <=> k = i

LEMMA OneSelectedIs ==
  ASSUME NEW plans, ArePlans(plans), OneSelected(plans)
  PROVE  Cardinality(SelectedIn(plans)) = 1
PROOF
  <1>1. DOMAIN plans = 1..Len(plans)
    BY DEF ArePlans, IsSequence
  <1>2. PICK i \in 1..Len(plans) : SelectedIn(plans) = {i}
    BY <1>1 DEF OneSelected, SelectedIn
  <1> QED BY <1>2, FS_Singleton

\* How often a plan is among others.
Count(plans, plan) == Cardinality({i \in DOMAIN plans : plans[i] = plan})

LEMMA CountFinite ==
  ASSUME NEW S, NEW s \in Seq(S), NEW x
  PROVE  IsFiniteSet({i \in DOMAIN s : s[i] = x}) /\ Count(s, x) \in Nat
PROOF
  <1>1. IsFiniteSet(1..Len(s)) /\ DOMAIN s = 1..Len(s)
    BY FS_Interval
  <1>2. IsFiniteSet({i \in DOMAIN s : s[i] = x})
    BY <1>1, FS_Subset
  <1> QED BY <1>2, FS_CardinalityType DEF Count

\* Only the plan that is removed is there less often.
LEMMA CountLeft ==
  ASSUME NEW S, NEW s \in Seq(S), NEW j \in 1..Len(s), NEW x, x # s[j]
  PROVE  Count(s, x) <= Count(RemoveAt(s, j), x)
PROOF
  <1> DEFINE t == RemoveAt(s, j)
             A == {i \in DOMAIN s : s[i] = x}
             B == {i \in DOMAIN t : t[i] = x}
             f == [i \in A |-> IF i < j THEN i ELSE i - 1]
  <1>1. /\ t \in Seq(S) /\ Len(t) = Len(s) - 1
        /\ \A i \in 1..Len(s) - 1 : t[i] = s[IF i < j THEN i ELSE i + 1]
    BY RemoveAtIs
  <1>2. IsFiniteSet(A) /\ IsFiniteSet(B)
    <2> HIDE DEF t
    <2> QED BY <1>1, CountFinite
  <1>3. f \in [A -> B]
    <2> HIDE DEF t
    <2>1. ASSUME NEW i \in A PROVE (IF i < j THEN i ELSE i - 1) \in B
      <3>1. i \in 1..Len(s) /\ s[i] = x /\ i # j
        OBVIOUS
      <3>2. DOMAIN t = 1..Len(s) - 1
        BY <1>1
      <3> QED BY <1>1, <3>1, <3>2
    <2> QED BY <2>1
  <1>4. \A i, k \in A : f[i] = f[k] => i = k
    <2>1. \A i \in A : i \in 1..Len(s) /\ i # j
      OBVIOUS
    <2> QED BY <2>1
  <1> HIDE DEF t, A, B, f
  <1>5. f \in Injection(A, B)
    BY <1>3, <1>4 DEF Injection, IsInjective
  <1>6. Cardinality(A) <= Cardinality(B)
    BY <1>2, <1>5, FS_Injection
  <1> QED BY <1>6 DEF A, B, t, Count
-----------------------------------------------------------------------------
(* What the removal of plans keeps.                                         *)

\* Of the plans of a person, s has lost those that were worse than the others, or as bad.
Keeps(before, s) ==
  /\ ArePlans(s) /\ OneSelected(s)
  /\ \A i \in 1..Len(before), k \in 1..Len(s) :
       Count(s, before[i]) < Count(before, before[i]) /\ Better(before[i], s[k]) => s[k].selected

LEMMA KeepsItself ==
  ASSUME NEW s, ArePlans(s), OneSelected(s)
  PROVE  Keeps(s, s)
PROOF
  <1>1. \A i \in 1..Len(s) : Count(s, s[i]) \in Nat
    BY CountFinite DEF ArePlans, IsSequence
  <1> QED BY <1>1 DEF Keeps

LEMMA RemovalKeeps ==
  ASSUME NEW before, NEW s, ArePlans(before), Keeps(before, s), Len(s) > 1, NEW j \in WorstScore(s)
  PROVE  Keeps(before, RemoveAt(s, j)) /\ Len(RemoveAt(s, j)) = Len(s) - 1
PROOF
  <1> DEFINE t == RemoveAt(s, j)
             S == {s[i] : i \in 1..Len(s)}
  <1>1. s \in Seq(S) /\ DOMAIN s = 1..Len(s) /\ Len(s) \in Nat /\ \A i \in 1..Len(s) : IsPlan(s[i])
    BY DEF Keeps, ArePlans, IsSequence
  <1>2. PICK sel \in 1..Len(s) : \A k \in 1..Len(s) : s[k].selected <=> k = sel
    BY DEF Keeps, OneSelected
  <1>3. \E i \in 1..Len(s) : ~s[i].selected
    <2>1. (IF sel = 1 THEN 2 ELSE 1) \in 1..Len(s) \ {sel}
      BY <1>1, <1>2
    <2> QED BY <1>2, <2>1
  <1>4. Removable(s) = {i \in 1..Len(s) : ~s[i].selected}
    BY <1>1, <1>3 DEF Removable
  <1>5. /\ j \in 1..Len(s) /\ j # sel
        /\ \A k \in 1..Len(s) : k # sel => ~PlanIsWorse(s[k].score, s[j].score)
    BY <1>1, <1>2, <1>4 DEF WorstScore
  <1>6. /\ t \in Seq(S) /\ Len(t) = Len(s) - 1
        /\ \A i \in 1..Len(s) - 1 : t[i] = s[IF i < j THEN i ELSE i + 1]
    BY <1>1, <1>5, RemoveAtIs
  <1> DEFINE old(i) == IF i < j THEN i ELSE i + 1
  <1> HIDE DEF t, S
  <1>7. ASSUME NEW i \in 1..Len(t) PROVE old(i) \in 1..Len(s) /\ old(i) # j /\ t[i] = s[old(i)]
    <2>1. i \in 1..Len(s) - 1 /\ i \in Int /\ j \in Int /\ Len(s) \in Int
      BY <1>1, <1>5, <1>6
    <2>2. old(i) \in 1..Len(s) /\ old(i) # j
      BY <2>1
    <2> QED BY <1>6, <2>1, <2>2
  <1>8. ArePlans(t)
    <2>1. IsSequence(t)
      BY <1>6, SequenceOf
    <2> QED BY <1>1, <1>7, <2>1 DEF ArePlans
  <1>9. OneSelected(t)
    <2> DEFINE new == IF sel < j THEN sel ELSE sel - 1
    <2>1. new \in 1..Len(t) /\ \A i \in 1..Len(t) : old(i) = sel <=> i = new
      BY <1>1, <1>2, <1>5, <1>6
    <2>2. \A i \in 1..Len(t) : t[i].selected <=> i = new
      BY <1>2, <1>7, <2>1
    <2> HIDE DEF new
    <2> QED BY <2>1, <2>2 DEF OneSelected
  <1>10. ASSUME NEW i \in 1..Len(before), NEW k \in 1..Len(t),
                Count(t, before[i]) < Count(before, before[i]), Better(before[i], t[k])
         PROVE  t[k].selected
    <2>1. old(k) \in 1..Len(s) /\ t[k] = s[old(k)]
      BY <1>7
    <2>2. CASE before[i] = s[j]
      <3>1. PlanIsWorse(s[old(k)].score, s[j].score)
        BY <1>10, <2>1, <2>2 DEF Better
      <3>2. old(k) = sel
        BY <1>5, <2>1, <3>1
      <3> QED BY <1>2, <2>1, <3>2
    <2>3. CASE before[i] # s[j]
      <3>1. Count(s, before[i]) <= Count(t, before[i])
        BY <1>1, <1>5, <2>3, CountLeft DEF t
      <3>2. /\ Count(s, before[i]) \in Nat /\ Count(t, before[i]) \in Nat
            /\ Count(before, before[i]) \in Nat
        BY <1>1, <1>6, CountFinite DEF ArePlans, IsSequence
      <3>3. Count(s, before[i]) < Count(before, before[i])
        BY <1>10, <3>1, <3>2
      <3>4. s[old(k)].selected
        BY <1>10, <2>1, <3>3 DEF Keeps
      <3> QED BY <2>1, <3>4
    <2> QED BY <2>2, <2>3
  <1> QED BY <1>6, <1>8, <1>9, <1>10 DEF Keeps, t

LEMMA WorstByName ==
  ASSUME Remover = "WorstScore", NEW s
  PROVE  SelectBy(Remover, s) = WorstScore(s) /\ WorstScore(s) \subseteq DOMAIN s
  BY DEF SelectBy, WorstScore, Removable

\* A person with plans has a worst one.
LEMMA WorstExists ==
  ASSUME NEW s, ArePlans(s), s # <<>>, NoScore \notin Int
  PROVE  WorstScore(s) # {}
PROOF
  <1> DEFINE C == Removable(s)
             unscored == {i \in C : s[i].score = NoScore}
             scores == {s[i].score : i \in C}
  <1>1. DOMAIN s = 1..Len(s) /\ Len(s) \in Nat /\ \A i \in 1..Len(s) : IsPlan(s[i])
    BY DEF ArePlans, IsSequence
  <1>2. C # {} /\ C \subseteq 1..Len(s)
    <2>1. 1 \in 1..Len(s)
      BY <1>1 DEF ArePlans, IsSequence
    <2> QED BY <1>1, <2>1 DEF Removable
  <1> HIDE DEF C
  <1>3. ASSUME NEW D, D # {}, D \subseteq 1..Len(s) PROVE \E i \in D : \A k \in D : i <= k
    <2>1. D \subseteq Nat
      BY <1>3
    <2> QED BY <1>3, <2>1, LeastNumber
  <1>4. CASE unscored # {}
    <2>1. PICK i \in unscored : \A k \in unscored : i <= k
      BY <1>2, <1>3, <1>4
    <2>2. i \in WorstScore(s)
      BY <1>2, <2>1 DEF WorstScore, PlanIsWorse, C
    <2> QED BY <2>2
  <1>5. CASE unscored = {}
    <2>1. \A i \in C : s[i].score \in Int /\ s[i].score # NoScore
      BY <1>1, <1>2, <1>5 DEF IsPlan
    <2>2. PICK low \in C : \A k \in C : s[low].score <= s[k].score
      <3> DEFINE P == {n \in 0..Len(s) : \/ \A i \in 1..n : i \notin C
                                       \/ \E i \in C : \A k \in C : k <= n => s[i].score <= s[k].score}
      <3>1. 0 \in P
        BY <1>1
      <3>2. ASSUME NEW n \in 1..Len(s), n - 1 \in P PROVE n \in P
        <4>1. CASE n \notin C
          <5>1. \A k \in C : k <= n => k <= n - 1
            BY <1>1, <1>2, <4>1
          <5>2. (\A i \in 1..n - 1 : i \notin C) => \A i \in 1..n : i \notin C
            BY <4>1
          <5> QED BY <1>1, <3>2, <5>1, <5>2
        <4>2. CASE n \in C /\ \A i \in 1..n - 1 : i \notin C
          <5>1. \A k \in C : k <= n => k = n
            BY <1>2, <4>2
          <5> QED BY <1>1, <2>1, <4>2, <5>1
        <4>3. CASE n \in C /\ \E i \in C : \A k \in C : k <= n - 1 => s[i].score <= s[k].score
          <5>1. PICK i \in C : \A k \in C : k <= n - 1 => s[i].score <= s[k].score
            BY <4>3
          <5>2. \A k \in C : k <= n => k = n \/ k <= n - 1
            BY <1>2
          <5> DEFINE least == IF s[i].score <= s[n].score THEN i ELSE n
          <5>3. least \in C /\ \A k \in C : k <= n => s[least].score <= s[k].score
            BY <2>1, <4>3, <5>1, <5>2
          <5> HIDE DEF least
          <5> QED BY <1>1, <5>3
        <4> QED BY <3>2, <4>1, <4>2, <4>3
      <3>3. Len(s) \in P
        <4> HIDE DEF P
        <4>1. Len(s) \in Nat
          BY <1>1
        <4>2. \A n \in 0..Len(s) : n \in P
          BY <3>1, <3>2, <4>1, UpTo
        <4> QED BY <4>1, <4>2
      <3>4. ~\A i \in 1..Len(s) : i \notin C
        BY <1>2
      <3>5. PICK i \in C : \A k \in C : k <= Len(s) => s[i].score <= s[k].score
        BY <3>3, <3>4
      <3>6. \A k \in C : k <= Len(s)
        BY <1>1, <1>2
      <3> QED BY <3>5, <3>6
    <2> DEFINE D == {i \in C : s[i].score = s[low].score}
    <2>3. PICK i \in D : \A k \in D : i <= k
      BY <1>2, <1>3
    <2>4. i \in WorstScore(s)
      BY <1>2, <2>1, <2>2, <2>3 DEF WorstScore, PlanIsWorse, C
    <2> QED BY <2>4
  <1> QED BY <1>4, <1>5

\* Every selector chooses among the plans.
LEMMA SelectorsChoose ==
  ASSUME NEW s, NEW name \in Selectors
  PROVE  SelectBy(name, s) \subseteq DOMAIN s
PROOF
  <1>1. KeepLast(s) \subseteq DOMAIN s
    BY DEF KeepLast, SelectedIn
  <1>2. BestScore(s) \subseteq DOMAIN s
    BY DEF BestScore
  <1>3. WorstScore(s) \subseteq DOMAIN s
    BY DEF WorstScore, Removable
  <1> QED BY <1>1, <1>2, <1>3 DEF SelectBy, Selectors

Surplus(plans) == IF Len(plans) > MaxMemory THEN Len(plans) - MaxMemory ELSE 0

\* What is left when one plan has been removed.
OneLess(T) == UNION {{RemoveAt(s, i) : i \in SelectBy(Remover, s)} : s \in T}

\* after[n] is what can be left when n plans have been removed.
IsRemoving(after, plans) ==
  \A n \in 0..Surplus(plans) : after[n] = IF n = 0 THEN {plans} ELSE OneLess(after[n - 1])

\* remove_plans_if_needed removes plans one by one, and what is left are plans that were there.
LEMMA RemovePlansIs ==
  ASSUME NEW plans, NEW S, plans \in Seq(S)
  PROVE  /\ Surplus(plans) \in Nat
         /\ \E after : /\ RemovePlans(plans) = after[Surplus(plans)] /\ IsRemoving(after, plans)
                      /\ \A n \in 0..Surplus(plans) : after[n] \subseteq Seq(S)
PROOF
  <1> DEFINE surplus == Surplus(plans)
             Def(f) == [n \in 0..surplus |-> IF n = 0 THEN {plans} ELSE OneLess(f[n - 1])]
             after == CHOOSE f : f = Def(f)
             X == SUBSET Seq(S)
             x == {plans}
             step == [q \in (1..surplus) \X X |-> OneLess(q[2])]
  <1>1. Len(plans) \in Nat /\ surplus \in Nat /\ Remover \in Selectors
    BY ReplanningAssumption DEF Surplus, KnownNames
  <1>2. step \in [(1..surplus) \X X -> X] /\ x \in X
    <2>1. ASSUME NEW T \in X PROVE OneLess(T) \in X
      <3>1. ASSUME NEW s \in T, NEW i \in SelectBy(Remover, s) PROVE RemoveAt(s, i) \in Seq(S)
        <4>1. s \in Seq(S) /\ i \in 1..Len(s)
          BY <1>1, <3>1, SelectorsChoose
        <4> QED BY <4>1, RemoveAtIs
      <3> QED BY <3>1 DEF OneLess
    <2> QED BY <1>1, <2>1
  <1>3. RemovePlans(plans) = after[surplus]
    BY Zenon DEF RemovePlans, Surplus, OneLess
  <1>4. PICK g \in [0..surplus -> X] : IsRecursion(g, x, surplus, step)
    <2> HIDE DEF X, x, step, surplus
    <2> QED BY <1>1, <1>2, RecursionExists
  <1>5. \A n \in 0..surplus : g[n] = IF n = 0 THEN {plans} ELSE OneLess(g[n - 1])
    <2>1. ASSUME NEW n \in 1..surplus PROVE step[<<n, g[n - 1]>>] = OneLess(g[n - 1])
      <3>1. g[n - 1] \in X
        BY <1>1
      <3> HIDE DEF X
      <3> QED BY <3>1
    <2> HIDE DEF step, X, surplus
    <2>2. \A n \in 0..surplus : n = 0 \/ n \in 1..surplus
      BY <1>1
    <2> QED BY <1>4, <2>1, <2>2 DEF IsRecursion
  <1>6. g = Def(g)
    <2> HIDE DEF X, surplus
    <2> QED BY <1>4, <1>5
  <1>7. after = Def(after)
    <2> HIDE DEF Def
    <2> QED BY <1>6
  <1>8. \A n \in 0..surplus : after[n] = IF n = 0 THEN {plans} ELSE OneLess(after[n - 1])
    <2> HIDE DEF after, surplus
    <2> QED BY <1>7
  <1> HIDE DEF after
  <1> DEFINE P == {n \in 0..surplus : after[n] \in X}
  <1>9. \A n \in 0..surplus : n \in P
    <2>1. 0 \in P
      BY <1>1, <1>2, <1>8
    <2>2. ASSUME NEW n \in 1..surplus, n - 1 \in P PROVE n \in P
      <3>1. step[<<n, after[n - 1]>>] \in X /\ n \in 0..surplus
        BY <1>1, <1>2, <2>2
      <3>2. step[<<n, after[n - 1]>>] = OneLess(after[n - 1])
        BY <2>2
      <3> QED BY <1>8, <3>1, <3>2
    <2> HIDE DEF P
    <2> QED BY <1>1, <2>1, <2>2, UpTo
  <1>10. IsRemoving(after, plans)
    BY <1>8 DEF IsRemoving
  <1> QED BY <1>1, <1>3, <1>9, <1>10

\* The removed plans are the worst of those that are not selected.
LEMMA RemovePlansKeep ==
  ASSUME NEW plans, ArePlans(plans), OneSelected(plans),
         Remover = "WorstScore", MaxMemory > 0, NoScore \notin Int
  PROVE  /\ RemovePlans(plans) # {}
         /\ \A left \in RemovePlans(plans) : /\ Keeps(plans, left) /\ Len(left) <= MaxMemory
                                              /\ Len(left) = Len(plans) - Surplus(plans)
PROOF
  <1> DEFINE surplus == Surplus(plans)
  <1>0. PICK S : plans \in Seq(S)
    BY DEF ArePlans, IsSequence
  <1>1. Len(plans) \in Nat /\ surplus \in Nat /\ MaxMemory \in Nat
    BY <1>0, ReplanningAssumption DEF Surplus
  <1>2. PICK after : RemovePlans(plans) = after[surplus] /\ IsRemoving(after, plans)
    BY <1>0, RemovePlansIs
  <1> DEFINE Good(n) == /\ after[n] # {}
                        /\ \A s \in after[n] : Keeps(plans, s) /\ Len(s) = Len(plans) - n
             P == {n \in 0..surplus : Good(n)}
  <1>3. 0 \in P
    <2>1. after[0] = {plans} /\ 0 \in 0..surplus
      BY <1>1, <1>2 DEF IsRemoving
    <2>2. Keeps(plans, plans) /\ Len(plans) = Len(plans) - 0
      BY <1>1, KeepsItself
    <2>3. Good(0)
      BY <2>1, <2>2
    <2> HIDE DEF Good, surplus
    <2> QED BY <2>1, <2>3
  <1>4. ASSUME NEW n \in 1..surplus, n - 1 \in P PROVE n \in P
    <2>1. after[n] = OneLess(after[n - 1]) /\ n \in 0..surplus /\ Good(n - 1)
      <3> HIDE DEF surplus, Good
      <3>1. n \in 0..surplus /\ n # 0 /\ Good(n - 1)
        BY <1>1, <1>4
      <3> QED BY <1>2, <3>1 DEF IsRemoving, surplus
    <2>2. ASSUME NEW s \in after[n - 1]
          PROVE  /\ SelectBy(Remover, s) # {}
                 /\ \A j \in SelectBy(Remover, s) : Keeps(plans, RemoveAt(s, j)) /\ Len(RemoveAt(s, j)) = Len(plans) - n
      <3>1. Keeps(plans, s) /\ Len(s) = Len(plans) - (n - 1)
        BY <2>1
      <3>2. Len(s) > 1 /\ Len(s) - 1 = Len(plans) - n
        BY <1>1, <3>1 DEF Surplus
      <3>3. ArePlans(s) /\ s # <<>>
        BY <3>1, <3>2, EmptySequence DEF Keeps
      <3>4. SelectBy(Remover, s) = WorstScore(s) /\ WorstScore(s) # {}
        BY <3>3, WorstByName, WorstExists
      <3> QED BY <3>1, <3>2, <3>4, RemovalKeeps
    <2>3. after[n - 1] # {}
      BY <2>1
    <2>4. \A r : r \in after[n] <=> \E s \in after[n - 1] : \E i \in SelectBy(Remover, s) : r = RemoveAt(s, i)
      BY <2>1 DEF OneLess
    <2>5. Good(n)
      <3>1. \A r \in after[n] : Keeps(plans, r) /\ Len(r) = Len(plans) - n
        BY <2>2, <2>4
      <3>2. after[n] # {}
        BY <2>2, <2>3, <2>4
      <3> QED BY <3>1, <3>2
    <2> HIDE DEF surplus, Good
    <2> QED BY <2>1, <2>5
  <1>5. Good(surplus)
    <2> HIDE DEF Good, surplus
    <2>1. \A n \in 0..surplus : n \in P
      <3> HIDE DEF P
      <3> QED BY <1>1, <1>3, <1>4, UpTo
    <2> QED BY <1>1, <2>1
  <1> QED BY <1>1, <1>2, <1>5 DEF Surplus

-----------------------------------------------------------------------------
(* Elements of one kind.                                                    *)

\* The elements of one kind, as the sequences of SequenceFacts.
LEMMA OfKindIs ==
  ASSUME NEW S, NEW q \in Seq(S), NEW kind
  PROVE  OfKind(q, kind) = Those(q, {x \in S : x.kind = kind})
PROOF
  <1> DEFINE n == Len(q)
             T == {x \in S : x.kind = kind}
             Def(f) == [i \in 0..n |-> IF i = 0 THEN <<>>
                          ELSE IF q[i].kind = kind THEN Append(f[i - 1], q[i]) ELSE f[i - 1]]
             chosen == CHOOSE f : f = Def(f)
  <1>1. PICK g \in [0..n -> Seq(S)] : IsThose(g, q, T, n) /\ Those(q, T) = g[n]
    <2> HIDE DEF T
    <2> QED BY ThoseIs
  <1>2. n \in Nat /\ \A i \in 1..n : q[i].kind = kind <=> q[i] \in T
    OBVIOUS
  <1> HIDE DEF T
  <1>3. \A i \in 0..n : g[i] = IF i = 0 THEN <<>>
                               ELSE IF q[i].kind = kind THEN Append(g[i - 1], q[i]) ELSE g[i - 1]
    BY <1>1, <1>2 DEF IsThose
  <1>4. g = Def(g)
    BY <1>3
  <1>5. chosen = Def(chosen)
    <2> HIDE DEF Def
    <2> QED BY <1>4
  <1>6. OfKind(q, kind) = chosen[n]
    BY Zenon DEF OfKind
  <1>7. \A i \in 0..n : chosen[i] = IF i = 0 THEN <<>>
          ELSE IF q[i].kind = kind THEN Append(chosen[i - 1], q[i]) ELSE chosen[i - 1]
    <2> HIDE DEF chosen
    <2> QED BY <1>5
  <1> DEFINE P == {i \in 0..n : chosen[i] = g[i]}
  <1> HIDE DEF chosen
  <1>8. 0 \in P
    BY <1>2, <1>3, <1>7
  <1>9. ASSUME NEW i \in 1..n, i - 1 \in P PROVE i \in P
    <2>1. i \in 0..n /\ i # 0 /\ chosen[i - 1] = g[i - 1]
      BY <1>2, <1>9
    <2> QED BY <1>3, <1>7, <2>1
  <1>10. n \in P
    <2> HIDE DEF P, n
    <2>1. \A i \in 0..n : i \in P
      BY <1>2, <1>8, <1>9, UpTo
    <2> QED BY <1>2, <2>1
  <1> QED BY <1>1, <1>6, <1>10 DEF T

LEMMA OfKindElements ==
  ASSUME NEW S, NEW q \in Seq(S), NEW kind
  PROVE  OfKind(q, kind) \in Seq(S) /\ RangeOf(OfKind(q, kind)) = {x \in RangeOf(q) : x.kind = kind}
PROOF
  <1> DEFINE T == {x \in S : x.kind = kind}
  <1>1. OfKind(q, kind) = Those(q, T)
    BY OfKindIs
  <1>2. Those(q, T) \in Seq(S) /\ RangeOf(Those(q, T)) = RangeOf(q) \cap T
    <2> HIDE DEF T
    <2> QED BY ThoseElements
  <1>3. RangeOf(q) \subseteq S
    BY RangeOfIn
  <1> QED BY <1>1, <1>2, <1>3


-----------------------------------------------------------------------------
(* Routed trips.                                                            *)

\* A facility that comes from an activity of a plan whose coordinate is known.
IsFacility(f) == f = [coord |-> f.coord, link |-> f.link, modal |-> <<>>]
                   /\ f.coord \in Coords /\ f.link \in DOMAIN Net

\* A stage activity and a leg of a trip in the mode.
IsStage(e) == IsActivity(e) /\ ~e.main /\ e.coord # None
IsLegOf(e, mode) == IsLeg(e) /\ e.rmode = mode /\ e.route.type \in {"generic", "links"}

LEMMA TeleportIs ==
  ASSUME NEW mode, NEW req
  PROVE  LET leg == Teleport(mode, req)[1] IN
           /\ Teleport(mode, req) = <<leg>> /\ IsLeg(leg)
           /\ leg.mode = mode /\ leg.route.type = "generic"
           /\ leg.route.start = ModalLink(req.from, mode) /\ leg.route.end = ModalLink(req.to, mode)
  BY DEF Teleport, NewLeg, GenericRoute, IsLeg

\* A facility of a plan is on one link, whatever the mode, and so is the point near it.
LEMMA OneLink ==
  ASSUME NEW f, IsFacility(f), NEW mode, NEW c
  PROVE  ModalLink(f, mode) = f.link /\ ModalLink(NewLinkWrapperFrom(f, c), mode) = f.link
PROOF
  <1>1. f.modal = <<>> /\ NewLinkWrapperFrom(f, c).modal = <<>> /\ NewLinkWrapperFrom(f, c).link = f.link
    BY DEF IsFacility, NewLinkWrapperFrom
  <1>2. mode \notin DOMAIN <<>>
    OBVIOUS
  <1> HIDE DEF NewLinkWrapperFrom
  <1> QED BY <1>1, <1>2 DEF ModalLink

\* What the paths of the search and the mode of the walks to the network have to be.
RoutesJoin ==
  /\ AccessEgressMode \notin MainModes
  /\ \A from, to \in DOMAIN Net : \A mode \in MainModes :
       LeastCostPath[from, to, mode].found => IsSequence(LeastCostPath[from, to, mode].path)

\* A route on the network that leads from a link to another.
Leads(route, from, to) ==
  /\ route.start = from /\ route.end = to
  /\ route.links[1] = from /\ route.links[Len(route.links)] = to

LEMMA RouteLinksIs ==
  ASSUME NEW from, NEW to, NEW path, IsSequence(path)
  PROVE  LET links == RouteLinks(from, to, path) IN links[1] = from /\ links[Len(links)] = to
PROOF
  <1>1. CASE from = to
    BY <1>1 DEF RouteLinks
  <1>2. CASE from # to
    <2> DEFINE S == {path[i] : i \in 1..Len(path)} \cup {from, to}
               a == <<from>>
               c == <<to>>
               b == a \o path
               links == b \o c
    <2>1. path \in Seq(S) /\ a \in Seq(S) /\ c \in Seq(S) /\ Len(a) = 1 /\ Len(c) = 1 /\ a[1] = from /\ c[1] = to
      BY DEF IsSequence
    <2>2. RouteLinks(from, to, path) = links
      BY <1>2 DEF RouteLinks
    <2> HIDE DEF S, a, c, b, links
    <2>3. /\ b \in Seq(S) /\ Len(b) = Len(a) + Len(path)
          /\ \A i \in 1..Len(b) : b[i] = IF i <= Len(a) THEN a[i] ELSE path[i - Len(a)]
      BY <2>1, CatIs DEF b
    <2>4. /\ links \in Seq(S) /\ Len(links) = Len(b) + Len(c)
          /\ \A i \in 1..Len(links) : links[i] = IF i <= Len(b) THEN b[i] ELSE c[i - Len(b)]
      BY <2>1, <2>3, CatIs DEF links
    <2>5. Len(path) \in Nat
      BY <2>1
    <2>6. 1 \in 1..Len(b) /\ 1 \in 1..Len(links) /\ 1 <= Len(b) /\ Len(links) \in 1..Len(links)
          /\ ~(Len(links) <= Len(b)) /\ Len(links) - Len(b) = 1
      BY <2>1, <2>3, <2>4, <2>5
    <2> QED BY <2>1, <2>2, <2>3, <2>4, <2>6
  <1> QED BY <1>1, <1>2

LEMMA ModeIsSet ==
  ASSUME NEW e, NEW mode
  PROVE  /\ e.kind = "act" => SetRoutingMode(e, mode) = e
         /\ IsLeg(e) => LET f == SetRoutingMode(e, mode) IN
              IsLeg(f) /\ f.rmode = mode /\ f.mode = e.mode /\ f.route = e.route
  BY DEF SetRoutingMode, IsLeg

LEMMA FiveInARow ==
  ASSUME NEW a, NEW b, NEW c, NEW d, NEW e
  PROVE  (<<a>> \o <<b>>) \o <<c>> \o (<<d>> \o <<e>>) = <<a, b, c, d, e>>
PROOF
  <1> DEFINE S == {a, b, c, d, e}
             f == <<a>> \o <<b>>
             g == <<d>> \o <<e>>
             h == f \o <<c>>
             t == <<a, b, c, d, e>>
  <1>1. /\ \A y \in S : <<y>> \in Seq(S) /\ Len(<<y>>) = 1 /\ <<y>>[1] = y
        /\ t \in Seq(S) /\ Len(t) = 5 /\ t[1] = a /\ t[2] = b /\ t[3] = c /\ t[4] = d /\ t[5] = e
    OBVIOUS
  <1>2. a \in S /\ b \in S /\ c \in S /\ d \in S /\ e \in S
    OBVIOUS
  <1> HIDE DEF S, t
  <1>3. \A y, z \in S : LET p == <<y>> \o <<z>> IN p \in Seq(S) /\ Len(p) = 2 /\ p[1] = y /\ p[2] = z
    <2> SUFFICES ASSUME NEW y \in S, NEW z \in S
                 PROVE  LET p == <<y>> \o <<z>> IN p \in Seq(S) /\ Len(p) = 2 /\ p[1] = y /\ p[2] = z
      OBVIOUS
    <2> QED BY <1>1, CatIs
  <1>4. f \in Seq(S) /\ g \in Seq(S) /\ Len(f) = 2 /\ Len(g) = 2
        /\ f[1] = a /\ f[2] = b /\ g[1] = d /\ g[2] = e
    BY <1>2, <1>3
  <1> HIDE DEF f, g
  <1>5. /\ <<c>> \in Seq(S) /\ h \in Seq(S) /\ Len(h) = 3
        /\ h[1] = a /\ h[2] = b /\ h[3] = c
    <2>1. <<c>> \in Seq(S) /\ Len(<<c>>) = 1 /\ <<c>>[1] = c
      BY <1>1, <1>2
    <2> DEFINE u == <<c>>
    <2> HIDE DEF u
    <2>2. /\ h \in Seq(S) /\ Len(h) = Len(f) + Len(u)
          /\ \A i \in 1..Len(h) : h[i] = IF i <= Len(f) THEN f[i] ELSE u[i - Len(f)]
      BY <1>4, <2>1, CatIs DEF u
    <2>3. Len(h) = 3 /\ h[1] = f[1] /\ h[2] = f[2] /\ h[3] = u[1]
      BY <1>4, <2>1, <2>2 DEF u
    <2> QED BY <1>4, <2>1, <2>2, <2>3 DEF u
  <1> HIDE DEF h
  <1> DEFINE w == h \o g
  <1>6. /\ w \in Seq(S) /\ Len(w) = Len(h) + Len(g)
        /\ \A i \in 1..Len(w) : w[i] = IF i <= Len(h) THEN h[i] ELSE g[i - Len(h)]
    BY <1>4, <1>5, CatIs
  <1> HIDE DEF w
  <1>7. \A i \in 1..5 : w[i] = t[i]
    <2>1. \A i \in 1..5 : i = 1 \/ i = 2 \/ i = 3 \/ i = 4 \/ i = 5
      OBVIOUS
    <2>2. w[1] = h[1] /\ w[2] = h[2] /\ w[3] = h[3] /\ w[4] = g[1] /\ w[5] = g[2]
      BY <1>4, <1>5, <1>6
    <2> QED BY <1>1, <1>4, <1>5, <2>1, <2>2
  <1>8. Len(w) = 5
    BY <1>4, <1>5, <1>6
  <1>9. w = t
    BY <1>1, <1>6, <1>7, <1>8, SequencesEqual
  <1> QED BY <1>9 DEF w, h, f, g, t

\* What the network's module returns.
LEMMA OnNetworkIs ==
  ASSUME NEW mode, NEW req, IsFacility(req.from), IsFacility(req.to), RouteOnNetwork(mode, req).ok
  PROVE  LET x == RouteOnNetwork(mode, req).elements IN
           /\ x = [i \in 1..5 |-> x[i]]
           /\ IsLeg(x[1]) /\ x[1].route.type = "generic" /\ x[1].mode = AccessEgressMode
           /\ IsStage(x[2])
           /\ IsLeg(x[3]) /\ x[3].mode = mode /\ x[3].route.type = "links"
           /\ "veh" \in DOMAIN x[3].route /\ x[3].route.veh = req.veh
           /\ IsStage(x[4])
           /\ IsLeg(x[5]) /\ x[5].route.type = "generic" /\ x[5].mode = AccessEgressMode
           /\ x[1].route.start = req.from.link /\ x[1].route.end = req.from.link
           /\ RoutesJoin /\ mode \in MainModes => Leads(x[3].route, req.from.link, req.to.link)
           /\ x[5].route.start = req.to.link /\ x[5].route.end = req.to.link
PROOF
  <1> DEFINE from == ModalLink(req.from, mode)
             to == ModalLink(req.to, mode)
             path == NetworkPath(from, to, mode)
             access == AccessRouting(mode, req)
             leg == PathToElements(path, from, to, mode, req.veh)
             now == ElementsEndTime(leg, ElementsEndTime(SubSeq(access, 1, 1), req.dep))
             egress == EgressRouting(mode, req, now)
  <1>1. RouteOnNetwork(mode, req).elements = access \o leg \o egress
    <2>1. path.found
      BY DEF RouteOnNetwork, Failed
    <2> QED BY <2>1 DEF RouteOnNetwork, Routed
  <1>2. PICK a, b : /\ access = <<a>> \o <<b>> /\ IsStage(b)
                    /\ IsLeg(a) /\ a.route.type = "generic" /\ a.mode = AccessEgressMode
                    /\ a.route.start = req.from.link /\ a.route.end = req.from.link
    <2> DEFINE point == NearestPoint(req.from.coord, req.from.link)
    <2>1. point \in Coords /\ point # None
      BY GeometryAssumption DEF IsFacility
    <2>2. IsStage(InteractionActivity(mode, point, req.from.link))
      BY <2>1 DEF InteractionActivity, IsStage, IsActivity, IsFacility
    <2> DEFINE stage == InteractionActivity(mode, point, req.from.link)
               walk == [from |-> req.from, to |-> NewLinkWrapperFrom(req.from, point),
                        dep |-> req.dep, veh |-> NoVehicle]
               first == Teleport(AccessEgressMode, walk)[1]
    <2>3. access = Teleport(AccessEgressMode, walk) \o <<stage>>
      BY DEF AccessRouting
    <2>4. /\ Teleport(AccessEgressMode, walk) = <<first>>
          /\ IsLeg(first) /\ first.route.type = "generic" /\ first.mode = AccessEgressMode
          /\ first.route.start = ModalLink(walk.from, AccessEgressMode)
          /\ first.route.end = ModalLink(walk.to, AccessEgressMode)
      BY TeleportIs
    <2>6. ModalLink(walk.from, AccessEgressMode) = req.from.link /\ ModalLink(walk.to, AccessEgressMode) = req.from.link
      <3>1. walk.from = req.from /\ walk.to = NewLinkWrapperFrom(req.from, point)
        OBVIOUS
      <3> HIDE DEF walk, point
      <3> QED BY <3>1, OneLink
    <2> HIDE DEF walk, stage, access, first
    <2>5. access = <<first>> \o <<stage>>
      BY <2>3, <2>4
    <2> QED BY <2>2, <2>4, <2>5, <2>6 DEF stage
  <1>3. PICK c : /\ leg = <<c>> /\ IsLeg(c) /\ c.mode = mode /\ c.route.type = "links"
                 /\ "veh" \in DOMAIN c.route /\ c.route.veh = req.veh
                 /\ RoutesJoin /\ mode \in MainModes => Leads(c.route, req.from.link, req.to.link)
    <2> DEFINE links == RouteLinks(from, to, path.path)
               generic == GenericRoute(from, links[Len(links)], path.time, RouteLength(links), req.veh)
               drive == NewLeg(NetworkRoute(generic, links), mode, path.time, None)
    <2>1. leg = <<drive>>
      BY DEF PathToElements
    <2>2. generic.veh = req.veh /\ generic = [generic EXCEPT !.veh = req.veh]
      BY DEF GenericRoute
    <2>3. LET route == NetworkRoute(generic, links) IN
            route.type = "links" /\ "veh" \in DOMAIN route /\ route.veh = req.veh
      BY DEF GenericRoute, NetworkRoute
    <2>4. drive.route = NetworkRoute(generic, links) /\ drive.mode = mode /\ IsLeg(drive)
      BY DEF NewLeg, IsLeg
    <2>5. from = req.from.link /\ to = req.to.link /\ from \in DOMAIN Net /\ to \in DOMAIN Net
      BY OneLink DEF IsFacility
    <2>6. ASSUME RoutesJoin, mode \in MainModes PROVE IsSequence(path.path)
      <3>1. path.found
        BY DEF RouteOnNetwork, Failed
      <3>2. CASE from = to
        BY <3>2, EmptySequence DEF NetworkPath
      <3>3. CASE from # to
        <4> HIDE DEF from, to
        <4> QED BY <2>5, <2>6, <3>1, <3>3 DEF NetworkPath, RoutesJoin
      <3> QED BY <3>2, <3>3
    <2>7. ASSUME RoutesJoin, mode \in MainModes PROVE Leads(NetworkRoute(generic, links), req.from.link, req.to.link)
      <3>1. links[1] = from /\ links[Len(links)] = to
        <4> HIDE DEF path, from, to
        <4> QED BY <2>6, <2>7, RouteLinksIs
      <3> HIDE DEF links, from, to, path
      <3>2. LET route == NetworkRoute(generic, links) IN
              route.start = from /\ route.end = links[Len(links)] /\ route.links = links
        BY DEF GenericRoute, NetworkRoute
      <3> QED BY <2>5, <3>1, <3>2 DEF Leads
    <2> HIDE DEF drive, generic, leg
    <2> QED BY <2>1, <2>3, <2>4, <2>7
  <1> HIDE DEF access, leg
  <1>4. PICK d, e : /\ egress = <<d>> \o <<e>> /\ IsStage(d)
                    /\ IsLeg(e) /\ e.route.type = "generic" /\ e.mode = AccessEgressMode
                    /\ e.route.start = req.to.link /\ e.route.end = req.to.link
    <2> DEFINE point == NearestPoint(req.to.coord, req.to.link)
    <2>1. point \in Coords /\ point # None
      BY GeometryAssumption DEF IsFacility
    <2>2. IsStage(InteractionActivity(mode, point, req.to.link))
      BY <2>1 DEF InteractionActivity, IsStage, IsActivity, IsFacility
    <2> DEFINE stage == InteractionActivity(mode, point, req.to.link)
               walk == [from |-> NewLinkWrapperFrom(req.to, point), to |-> req.to,
                        dep |-> now, veh |-> NoVehicle]
               last == Teleport(AccessEgressMode, walk)[1]
    <2>3. egress = <<stage>> \o Teleport(AccessEgressMode, walk)
      BY DEF EgressRouting
    <2>4. /\ Teleport(AccessEgressMode, walk) = <<last>>
          /\ IsLeg(last) /\ last.route.type = "generic" /\ last.mode = AccessEgressMode
          /\ last.route.start = ModalLink(walk.from, AccessEgressMode)
          /\ last.route.end = ModalLink(walk.to, AccessEgressMode)
      BY TeleportIs
    <2>6. ModalLink(walk.from, AccessEgressMode) = req.to.link /\ ModalLink(walk.to, AccessEgressMode) = req.to.link
      <3>1. walk.from = NewLinkWrapperFrom(req.to, point) /\ walk.to = req.to
        OBVIOUS
      <3> HIDE DEF walk, point
      <3> QED BY <3>1, OneLink
    <2> HIDE DEF walk, stage, egress, last
    <2>5. egress = <<stage>> \o <<last>>
      BY <2>3, <2>4
    <2> QED BY <2>2, <2>4, <2>5, <2>6 DEF stage
  <1> DEFINE x == RouteOnNetwork(mode, req).elements
  <1> HIDE DEF egress
  <1>5. x = (<<a>> \o <<b>>) \o <<c>> \o (<<d>> \o <<e>>)
    BY <1>1, <1>2, <1>3, <1>4
  <1>6. x = <<a, b, c, d, e>>
    BY <1>5, FiveInARow
  <1> QED BY <1>2, <1>3, <1>4, <1>6

\* The trip that the router gives: one leg, or the walks to and from the network and the
\* leg on it, all in the trip's mode.
TeleportTrip(x, mode) ==
  /\ x = [i \in 1..1 |-> x[i]] /\ IsLeg(x[1]) /\ x[1].rmode = mode
  /\ x[1].mode = mode /\ x[1].route.type = "generic"
NetworkTrip(x, mode, veh) ==
  /\ x = [i \in 1..5 |-> x[i]]
  /\ IsLeg(x[1]) /\ x[1].rmode = mode /\ x[1].route.type = "generic" /\ x[1].mode = AccessEgressMode
  /\ IsStage(x[2])
  /\ IsLeg(x[3]) /\ x[3].rmode = mode /\ x[3].mode = mode /\ x[3].route.type = "links"
  /\ "veh" \in DOMAIN x[3].route /\ x[3].route.veh = veh
  /\ IsStage(x[4])
  /\ IsLeg(x[5]) /\ x[5].rmode = mode /\ x[5].route.type = "generic" /\ x[5].mode = AccessEgressMode
RoutedTrip(x, mode, veh) ==
  IF IsNetworkMode(mode) THEN NetworkTrip(x, mode, veh) ELSE TeleportTrip(x, mode)

\* A leg with a route, and a trip whose legs lead from one link to another: they alternate
\* with stage activities, have routes, drive on the network only, and each begins where the
\* one before it ends.
IsRouted(e) == e.kind = "leg" /\ e.route # NoRoute
LeadsOn(e) == e.mode \in MainModes => e.route.type = "links" /\ Leads(e.route, e.route.start, e.route.end)
TripJoins(x, from, to) ==
  /\ Len(x) % 2 = 1 /\ \A i \in 1..Len(x) : x[i].kind = IF i % 2 = 1 THEN "leg" ELSE "act"
  /\ \A i \in 1..Len(x) : x[i].kind = "leg" => IsRouted(x[i]) /\ LeadsOn(x[i])
  /\ x[1].route.start = from /\ x[Len(x)].route.end = to
  /\ \A i \in 1..Len(x) - 2 : i % 2 = 1 => x[i].route.end = x[i + 2].route.start

LEMMA NetworkTripJoins ==
  ASSUME AccessEgressMode \notin MainModes, NEW x, NEW mode, NEW veh, NetworkTrip(x, mode, veh), NEW a, NEW b,
         x[1].route.start = a, x[1].route.end = a, Leads(x[3].route, a, b), x[5].route.start = b, x[5].route.end = b
  PROVE  TripJoins(x, a, b)
PROOF
  <1>1. /\ Len(x) = 5 /\ x[1].kind = "leg" /\ x[3].kind = "leg" /\ x[5].kind = "leg"
        /\ x[2].kind = "act" /\ x[4].kind = "act"
        /\ x[1].mode = AccessEgressMode /\ x[5].mode = AccessEgressMode
        /\ x[1].route.type = "generic" /\ x[3].route.type = "links" /\ x[5].route.type = "generic"
    BY DEF NetworkTrip, IsLeg, IsStage, IsActivity
  <1>2. /\ \A i \in 1..5 : i = 1 \/ i = 2 \/ i = 3 \/ i = 4 \/ i = 5
        /\ \A i \in 1..3 : i = 1 \/ i = 2 \/ i = 3
        /\ 5 % 2 = 1 /\ 3 % 2 = 1 /\ 1 % 2 = 1 /\ 2 % 2 # 1 /\ 4 % 2 # 1
    OBVIOUS
  <1>3. x[1].route # NoRoute /\ x[3].route # NoRoute /\ x[5].route # NoRoute
    BY <1>1 DEF NoRoute
  <1>4. x[3].route.start = a /\ x[3].route.end = b /\ LeadsOn(x[3]) /\ LeadsOn(x[1]) /\ LeadsOn(x[5])
    BY <1>1 DEF Leads, LeadsOn
  <1>5. \A i \in 1..Len(x) : x[i].kind = "leg" => IsRouted(x[i]) /\ LeadsOn(x[i])
    BY <1>1, <1>2, <1>3, <1>4 DEF IsRouted
  <1>6. \A i \in 1..Len(x) : x[i].kind = IF i % 2 = 1 THEN "leg" ELSE "act"
    BY <1>1, <1>2
  <1>7. \A i \in 1..Len(x) - 2 : i % 2 = 1 => x[i].route.end = x[i + 2].route.start
    <2>1. Len(x) - 2 = 3 /\ 1 + 2 = 3 /\ 3 + 2 = 5
      BY <1>1
    <2> QED BY <1>2, <1>4, <2>1
  <1>8. Len(x) % 2 = 1
    BY <1>1, <1>2
  <1>9. x[1].route.start = a /\ x[Len(x)].route.end = b
    BY <1>1
  <1> QED BY <1>5, <1>6, <1>7, <1>8, <1>9 DEF TripJoins

LEMMA TeleportTripJoins ==
  ASSUME NEW x, NEW mode, TeleportTrip(x, mode), mode \notin MainModes
  PROVE  TripJoins(x, x[1].route.start, x[1].route.end)
PROOF
  <1>1. Len(x) = 1 /\ x[1].kind = "leg" /\ x[1].mode = mode /\ x[1].route.type = "generic"
    BY DEF TeleportTrip, IsLeg
  <1>2. (\A i \in 1..1 : i = 1) /\ 1 % 2 = 1 /\ 1..1 - 2 = {}
    OBVIOUS
  <1>3. IsRouted(x[1]) /\ LeadsOn(x[1])
    BY <1>1 DEF IsRouted, LeadsOn, NoRoute
  <1> QED BY <1>1, <1>2, <1>3 DEF TripJoins

LEMMA CalcRouteIs ==
  ASSUME NEW mode, NEW req, IsFacility(req.from), IsFacility(req.to), CalcRoute(mode, req).ok
  PROVE  /\ mode # "none" /\ RoutedTrip(CalcRoute(mode, req).elements, mode, req.veh)
         /\ RoutesJoin => TripJoins(CalcRoute(mode, req).elements, req.from.link, req.to.link)
PROOF
  <1> DEFINE given == CASE RouterOf(mode) = "network" -> RouteOnNetwork(mode, req)
                        [] RouterOf(mode) = "teleportation" -> Routed(Teleport(mode, req))
                        [] RouterOf(mode) = "none" -> Failed("MissingModule")
             x == CalcRoute(mode, req).elements
             y == given.elements
  <1>1. CalcRoute(mode, req) = IF given.ok
          THEN Routed([i \in DOMAIN y |-> SetRoutingMode(y[i], mode)]) ELSE given
    BY DEF CalcRoute, WithRoutingMode
  <1>2. given.ok /\ x = [i \in DOMAIN y |-> SetRoutingMode(y[i], mode)]
    <2> HIDE DEF given
    <2> QED BY <1>1 DEF Routed
  <1>3. CASE mode \in MainModes
    <2>1. given = RouteOnNetwork(mode, req)
      BY <1>3 DEF RouterOf
    <2> HIDE DEF given
    <2>2. /\ y = [i \in 1..5 |-> y[i]]
          /\ IsLeg(y[1]) /\ y[1].route.type = "generic" /\ y[1].mode = AccessEgressMode
          /\ IsStage(y[2])
          /\ IsLeg(y[3]) /\ y[3].mode = mode /\ y[3].route.type = "links"
          /\ "veh" \in DOMAIN y[3].route /\ y[3].route.veh = req.veh
          /\ IsStage(y[4])
          /\ IsLeg(y[5]) /\ y[5].route.type = "generic" /\ y[5].mode = AccessEgressMode
          /\ y[1].route.start = req.from.link /\ y[1].route.end = req.from.link
          /\ RoutesJoin => Leads(y[3].route, req.from.link, req.to.link)
          /\ y[5].route.start = req.to.link /\ y[5].route.end = req.to.link
      BY <1>2, <1>3, <2>1, OnNetworkIs
    <2>3. DOMAIN y = 1..5
      BY <2>2
    <2> HIDE DEF x, y
    <2>4. x = [i \in 1..5 |-> x[i]] /\ \A i \in 1..5 : x[i] = SetRoutingMode(y[i], mode)
      BY <1>2, <2>3
    <2>5. \A i \in {1, 3, 5} : /\ IsLeg(x[i]) /\ x[i].rmode = mode
                              /\ x[i].mode = y[i].mode /\ x[i].route = y[i].route
      <3>1. \A i \in {1, 3, 5} : i \in 1..5 /\ IsLeg(y[i])
        BY <2>2
      <3> QED BY <2>4, <3>1, ModeIsSet
    <2>6. \A i \in {2, 4} : x[i] = y[i]
      <3>1. \A i \in {2, 4} : i \in 1..5 /\ y[i].kind = "act"
        BY <2>2 DEF IsStage, IsActivity
      <3> QED BY <2>4, <3>1, ModeIsSet
    <2>7. NetworkTrip(x, mode, req.veh)
      BY <2>2, <2>4, <2>5, <2>6 DEF NetworkTrip
    <2>8. mode # "none"
      BY <1>3, TripRoutingAssumption
    <2>9. ASSUME RoutesJoin PROVE TripJoins(x, req.from.link, req.to.link)
      <3>1. /\ x[1].route.start = req.from.link /\ x[1].route.end = req.from.link
            /\ Leads(x[3].route, req.from.link, req.to.link)
            /\ x[5].route.start = req.to.link /\ x[5].route.end = req.to.link
        BY <2>2, <2>5, <2>9
      <3>2. AccessEgressMode \notin MainModes
        BY <2>9 DEF RoutesJoin
      <3> QED BY <2>7, <3>1, <3>2, NetworkTripJoins
    <2> QED BY <1>3, <2>7, <2>8, <2>9 DEF RoutedTrip, IsNetworkMode, x
  <1>4. CASE mode \in TeleportedModes \ MainModes
    <2> DEFINE leg == Teleport(mode, req)[1]
    <2>1. given = Routed(Teleport(mode, req))
      BY <1>4 DEF RouterOf
    <2> HIDE DEF given
    <2>2. /\ y = <<leg>> /\ IsLeg(leg) /\ leg.mode = mode /\ leg.route.type = "generic"
          /\ leg.route.start = ModalLink(req.from, mode) /\ leg.route.end = ModalLink(req.to, mode)
      BY <2>1, TeleportIs DEF Routed
    <2>6. ModalLink(req.from, mode) = req.from.link /\ ModalLink(req.to, mode) = req.to.link
      BY OneLink
    <2> HIDE DEF x, y, leg
    <2>3. x = [i \in 1..1 |-> x[i]] /\ x[1] = SetRoutingMode(leg, mode)
      BY <1>2, <2>2
    <2>4. TeleportTrip(x, mode)
      BY <2>2, <2>3, ModeIsSet DEF TeleportTrip
    <2>5. mode # "none"
      BY <1>4, TripRoutingAssumption
    <2>7. x[1].route.start = req.from.link /\ x[1].route.end = req.to.link
      BY <2>2, <2>3, <2>6, ModeIsSet
    <2>8. TripJoins(x, req.from.link, req.to.link)
      <3>1. TripJoins(x, x[1].route.start, x[1].route.end)
        BY <1>4, <2>4, TeleportTripJoins
      <3> QED BY <2>7, <3>1
    <2> QED BY <1>4, <2>4, <2>5, <2>8 DEF RoutedTrip, IsNetworkMode, x
  <1>5. CASE mode \notin MainModes \cup TeleportedModes
    <2>1. given = Failed("MissingModule")
      BY <1>5 DEF RouterOf
    <2> HIDE DEF given, x, y
    <2>2. given.ok = FALSE
      BY <2>1 DEF Failed
    <2> QED BY <1>2, <2>2
  <1> QED BY <1>3, <1>4, <1>5

\* The legs of such a trip.
LEMMA LegsOfTeleportTrip ==
  ASSUME NEW x, NEW mode, TeleportTrip(x, mode)
  PROVE  LegsOf(x) = x /\ Len(x) = 1 /\ DOMAIN x = 1..1
PROOF
  <1> DEFINE S == {x[1]}
             T == {e \in S : e.kind = "leg"}
  <1>1. x \in Seq(S) /\ Len(x) = 1 /\ DOMAIN x = 1..1 /\ x = <<x[1]>>
    BY DEF TeleportTrip
  <1>2. x[1] \in T /\ x[1] \in S
    BY DEF TeleportTrip, IsLeg
  <1> HIDE DEF S, T
  <1>3. LegsOf(x) = Those(x, T)
    BY <1>1, OfKindIs DEF LegsOf, T
  <1>4. PICK g \in [0..1 -> Seq(S)] : IsThose(g, x, T, 1) /\ Those(x, T) = g[1]
    BY <1>1, ThoseIs
  <1>5. g[0] = <<>> /\ g[1] = Append(<<>>, x[1])
    BY <1>2, <1>4 DEF IsThose
  <1>6. Append(<<>>, x[1]) = <<x[1]>>
    OBVIOUS
  <1> QED BY <1>1, <1>3, <1>4, <1>5, <1>6

\* t is s and one element more.
IsLonger(t, s, x) ==
  /\ IsSequence(t) /\ Len(s) \in Nat /\ Len(t) = Len(s) + 1 /\ t[Len(s) + 1] = x
  /\ \A i \in 1..Len(s) : t[i] = s[i]

LEMMA AppendIs ==
  ASSUME NEW s, NEW x, NEW t, IsSequence(s), t = Append(s, x)
  PROVE  IsLonger(t, s, x)
  BY AppendSequence DEF IsLonger

LEMMA LegsOfNetworkTrip ==
  ASSUME NEW x, NEW mode, NEW veh, NetworkTrip(x, mode, veh)
  PROVE  LET legs == LegsOf(x) IN
           /\ legs = [i \in 1..3 |-> legs[i]] /\ Len(legs) = 3
           /\ legs[1] = x[1] /\ legs[2] = x[3] /\ legs[3] = x[5]
PROOF
  <1> DEFINE S == {x[i] : i \in 1..5}
             T == {e \in S : e.kind = "leg"}
  <1>1. x \in Seq(S) /\ Len(x) = 5
    BY DEF NetworkTrip
  <1>2. /\ x[1] \in S /\ x[2] \in S /\ x[3] \in S /\ x[4] \in S /\ x[5] \in S
        /\ x[1] \in T /\ x[2] \notin T /\ x[3] \in T /\ x[4] \notin T /\ x[5] \in T
    BY DEF NetworkTrip, IsLeg, IsStage, IsActivity
  <1> HIDE DEF S, T
  <1>3. LegsOf(x) = Those(x, T)
    BY <1>1, OfKindIs DEF LegsOf, T
  <1>4. PICK g \in [0..5 -> Seq(S)] : IsThose(g, x, T, 5) /\ Those(x, T) = g[5]
    <2>1. \E g \in [0..Len(x) -> Seq(S)] : IsThose(g, x, T, Len(x)) /\ Those(x, T) = g[Len(x)]
      BY <1>1, ThoseIs
    <2> QED BY <1>1, <2>1
  <1>5. /\ g[0] = <<>> /\ g[1] = Append(g[0], x[1]) /\ g[2] = g[1] /\ g[3] = Append(g[2], x[3])
        /\ g[4] = g[3] /\ g[5] = Append(g[4], x[5])
    BY <1>2, <1>4 DEF IsThose
  <1>6. IsSequence(g[1]) /\ Len(g[1]) = 1 /\ g[1][1] = x[1]
    <2>1. IsSequence(g[0]) /\ Len(g[0]) = 0
      BY <1>5, EmptySequence
    <2>2. IsLonger(g[1], g[0], x[1])
      BY <1>5, <2>1, AppendIs
    <2> QED BY <2>1, <2>2 DEF IsLonger
  <1>7. IsSequence(g[3]) /\ Len(g[3]) = 2 /\ g[3][1] = x[1] /\ g[3][2] = x[3]
    <2>1. g[3] = Append(g[1], x[3])
      BY <1>5
    <2>2. IsLonger(g[3], g[1], x[3])
      BY <1>6, <2>1, AppendIs
    <2> QED BY <1>6, <2>2 DEF IsLonger
  <1>8. IsSequence(g[5]) /\ Len(g[5]) = 3 /\ g[5][1] = x[1] /\ g[5][2] = x[3] /\ g[5][3] = x[5]
    <2>1. g[5] = Append(g[3], x[5])
      BY <1>5
    <2>2. IsLonger(g[5], g[3], x[5])
      BY <1>7, <2>1, AppendIs
    <2> QED BY <1>7, <2>2 DEF IsLonger
  <1>9. g[5] = [i \in 1..3 |-> g[5][i]]
    BY <1>8 DEF IsSequence
  <1> QED BY <1>3, <1>4, <1>8, <1>9

-----------------------------------------------------------------------------
(* Plans in files and in memory.                                            *)

\* What is made of a list, element by element, is a list.
LEMMA ListAlike ==
  ASSUME NEW s, NEW t, IsList(s), DOMAIN t = DOMAIN s, t = [i \in DOMAIN t |-> t[i]]
  PROVE  /\ IsList(t) /\ IsSequence(t) /\ Len(t) = Len(s) /\ Len(s) \in Nat
         /\ DOMAIN s = 1..Len(s) /\ DOMAIN t = 1..Len(s)
PROOF
  <1>1. Len(s) \in Nat /\ DOMAIN s = 1..Len(s)
    BY DEF IsList
  <1> DEFINE S == Range(t)
  <1>2. S = {t[i] : i \in 1..Len(s)}
    BY <1>1 DEF Range
  <1>3. t = [i \in 1..Len(s) |-> t[i]] /\ \A i \in 1..Len(s) : t[i] \in S
    BY <1>1, <1>2
  <1> HIDE DEF S
  <1>4. t \in Seq(S) /\ Len(t) = Len(s)
    BY <1>1, <1>3
  <1> QED BY <1>1, <1>2, <1>4 DEF IsList, IsSequence, S

LEMMA ListIs ==
  ASSUME NEW s, IsList(s)
  PROVE  /\ IsSequence(s) /\ Len(s) \in Nat /\ DOMAIN s = 1..Len(s)
         /\ \A i \in 1..Len(s) : s[i] \in Range(s)
PROOF
  <1>1. Len(s) \in Nat /\ DOMAIN s = 1..Len(s) /\ s = [i \in DOMAIN s |-> s[i]]
    BY DEF IsList
  <1>2. IsSequence(s)
    BY <1>1, ListAlike
  <1>3. \A i \in 1..Len(s) : s[i] \in Range(s)
    BY <1>1 DEF Range
  <1> QED BY <1>1, <1>2, <1>3

\* A person in memory.
IsPerson(person) ==
  /\ person = [plans |-> person.plans, sub |-> person.sub, attrs |-> person.attrs]
  /\ ArePlans(person.plans)

LEMMA ArePlansIf ==
  ASSUME NEW s, NEW t, IsList(s), DOMAIN t = DOMAIN s, t = [i \in DOMAIN t |-> t[i]],
         \A i \in DOMAIN s : IsPlan(t[i])
  PROVE  ArePlans(t)
PROOF
  <1>1. IsSequence(t) /\ Len(t) = Len(s) /\ DOMAIN s = 1..Len(s)
    BY ListAlike
  <1> QED BY <1>1 DEF ArePlans

\* The routes and the times of a leg may change on the way through a file, what it is does not.
LEMMA LegKept ==
  ASSUME NEW leg, IsLeg(leg), NEW id
  PROVE  IsLeg(LegToXml(leg)) /\ IsLeg(LegFromXml(leg, id))
PROOF
  <1>1. ASSUME NEW r, NEW a, NEW route, NEW trav
        PROVE  /\ IsLeg([leg EXCEPT !.rmode = r, !.attr = a, !.route = route])
               /\ IsLeg([leg EXCEPT !.rmode = r, !.route = route, !.trav = trav])
    <2>1. ASSUME NEW l, IsLeg(l), NEW x
          PROVE  /\ IsLeg([l EXCEPT !.rmode = x]) /\ IsLeg([l EXCEPT !.attr = x])
                 /\ IsLeg([l EXCEPT !.route = x]) /\ IsLeg([l EXCEPT !.trav = x])
      BY <2>1 DEF IsLeg
    <2>2. /\ [leg EXCEPT !.rmode = r, !.attr = a, !.route = route] =
               [[[leg EXCEPT !.rmode = r] EXCEPT !.attr = a] EXCEPT !.route = route]
          /\ [leg EXCEPT !.rmode = r, !.route = route, !.trav = trav] =
               [[[leg EXCEPT !.rmode = r] EXCEPT !.route = route] EXCEPT !.trav = trav]
      OBVIOUS
    <2> QED BY <2>1, <2>2
  <1>2. IsLeg(LegToXml(leg))
    BY <1>1 DEF LegToXml
  <1>3. IsLeg(LegFromXml(leg, id))
    BY <1>1 DEF LegFromXml
  <1> QED BY <1>2, <1>3

\* What XML makes of an activity is one at the same place, and is not changed by XML again.
LEMMA ActivityInXmlIs ==
  ASSUME NEW act, IsActivity(act)
  PROVE  LET f == ActivityInXml(act) IN
           /\ IsActivity(f) /\ f.kind = act.kind /\ f.main = act.main /\ f.link = act.link
           /\ ActivityInXml(f) = f
PROOF
  <1>1. PICK c : c = IF act.coord = None THEN None ELSE AtGround(act.coord)
    OBVIOUS
  <1>2. /\ c \in Coords \cup {None}
        /\ c = IF c = None THEN None ELSE AtGround(c)
    BY <1>1, HeightAssumption, GeometryAssumption DEF IsActivity
  <1>3. PICK f : f = ActivityInXml(act)
    OBVIOUS
  <1>4. f = [act EXCEPT !.coord = c]
    BY <1>1, <1>3 DEF ActivityInXml
  <1>5. PICK name, main, link, coord, end, dur, horizon :
          act = [kind |-> "act", name |-> name, main |-> main, link |-> link, coord |-> coord,
                 end |-> end, dur |-> dur, horizon |-> horizon]
    BY DEF IsActivity
  <1>6. f = [kind |-> "act", name |-> name, main |-> main, link |-> link, coord |-> c,
             end |-> end, dur |-> dur, horizon |-> horizon]
    BY <1>4, <1>5
  <1>7. IsActivity(f) /\ f.kind = act.kind /\ f.main = act.main /\ f.link = act.link
    BY <1>2, <1>5, <1>6 DEF IsActivity
  <1>8. ActivityInXml(f) = f
    <2>1. ActivityInXml(f) = [f EXCEPT !.coord = IF f.coord = None THEN None ELSE AtGround(f.coord)]
      BY DEF ActivityInXml
    <2>2. ActivityInXml(f) = [f EXCEPT !.coord = c]
      BY <1>2, <1>6, <2>1
    <2> QED BY <1>6, <2>2
  <1> QED BY <1>3, <1>7, <1>8

LEMMA ElementsKept ==
  ASSUME NEW elements, AreElements(elements), NEW id
  PROVE  AreElements(ElementsToXml(elements)) /\ AreElements(ElementsFromXml(elements, id))
PROOF
  <1>1. \A i \in DOMAIN elements : IsElement(elements[i])
    BY DEF AreElements, Range
  <1>2. ASSUME NEW t, DOMAIN t = DOMAIN elements, t = [i \in DOMAIN t |-> t[i]],
               \A i \in DOMAIN elements : IsElement(t[i])
        PROVE  AreElements(t)
    <2>1. IsList(t)
      BY <1>2, ListAlike DEF AreElements
    <2> QED BY <1>2, <2>1 DEF AreElements, Range
  <1>3. \A e : IsElement(e) => /\ IsElement(IF e.kind = "leg" THEN LegToXml(e) ELSE ActivityInXml(e))
                               /\ IsElement(IF e.kind = "leg" THEN LegFromXml(e, id) ELSE ActivityInXml(e))
    <2> SUFFICES ASSUME NEW e, IsElement(e)
                 PROVE  /\ IsElement(IF e.kind = "leg" THEN LegToXml(e) ELSE ActivityInXml(e))
                        /\ IsElement(IF e.kind = "leg" THEN LegFromXml(e, id) ELSE ActivityInXml(e))
      OBVIOUS
    <2>1. CASE e.kind = "leg"
      <3>1. IsLeg(e)
        BY <2>1 DEF IsElement, IsActivity
      <3> QED BY <2>1, <3>1, LegKept DEF IsElement
    <2>2. CASE e.kind # "leg"
      <3>1. IsActivity(e)
        BY <2>2 DEF IsElement, IsLeg
      <3> QED BY <2>2, <3>1, ActivityInXmlIs DEF IsElement
    <2> QED BY <2>1, <2>2
  <1>4. AreElements(ElementsToXml(elements))
    BY <1>1, <1>2, <1>3 DEF ElementsToXml
  <1>5. AreElements(ElementsFromXml(elements, id))
    BY <1>1, <1>2, <1>3 DEF ElementsFromXml
  <1> QED BY <1>4, <1>5

\* A person as read from a file that may be a user's: the same plans are selected.
LEMMA PersonRead ==
  ASSUME NEW file, PlansInFile(file), NEW p \in DOMAIN file.persons
  PROVE  LET given == file.persons[p].plans
             person == FromFile(file.format, file.persons[p], p)
         IN /\ IsPerson(person) /\ IsList(given) /\ DOMAIN person.plans = DOMAIN given
            /\ \A i \in DOMAIN given : person.plans[i].selected = given[i].selected
            /\ Readable(file.format, file.persons[p]) =>
                 \A i \in DOMAIN given : AreElements(person.plans[i].elements)
PROOF
  <1> DEFINE io == file.persons[p]
             given == io.plans
             person == FromFile(file.format, io, p)
  <1>1. /\ IsList(given) /\ DOMAIN given = 1..Len(given)
        /\ \A i \in DOMAIN given : PlanInFile(file.format, given[i])
    <2>1. IsList(given) /\ \A plan \in Range(given) : PlanInFile(file.format, plan)
      BY DEF PlansInFile
    <2> HIDE DEF given
    <2> QED BY <2>1, ListIs
  <1>2. CASE file.format = "xml"
    <2>1. person = PersonFromXml(io, p)
      BY <1>2 DEF FromFile
    <2>2. /\ person = [plans |-> person.plans, sub |-> person.sub, attrs |-> person.attrs]
          /\ person.plans = [i \in DOMAIN given |-> [given[i] EXCEPT !.elements = ElementsFromXml(@, p)]]
      BY <2>1 DEF PersonFromXml
    <2> HIDE DEF person, given
    <2>3. ASSUME NEW i \in DOMAIN given
          PROVE  /\ IsPlan(person.plans[i]) /\ person.plans[i].selected = given[i].selected
                 /\ Readable(file.format, io) => AreElements(person.plans[i].elements)
      <3>1. PICK e, s, sel : /\ given[i] = [elements |-> e, score |-> s, selected |-> sel] /\ IsList(e)
                             /\ \A x \in Range(e) : IsElement(x) \/ LacksLink(x)
                             /\ s \in Int \cup {NoScore} /\ sel \in BOOLEAN
        BY <1>1, <1>2 DEF PlanInFile
      <3>2. person.plans[i] = [elements |-> ElementsFromXml(e, p), score |-> s, selected |-> sel]
        BY <2>2, <3>1
      <3>3. ASSUME Readable(file.format, io) PROVE AreElements(ElementsFromXml(e, p))
        <4>1. \A k \in DOMAIN e : ElementReadable(e[k])
          BY <1>2, <3>1, <3>3 DEF Readable, XmlReadable, given
        <4>2. \A x \in Range(e) : IsElement(x)
          BY <3>1, <4>1 DEF Range, ElementReadable, LacksLink
        <4> QED BY <3>1, <4>2, ElementsKept DEF AreElements
      <3> QED BY <3>1, <3>2, <3>3 DEF IsPlan
    <2>4. ArePlans(person.plans) /\ DOMAIN person.plans = DOMAIN given
      BY <1>1, <2>2, <2>3, ArePlansIf
    <2> QED BY <1>1, <2>2, <2>3, <2>4 DEF IsPerson, person, given
  <1>3. CASE file.format = "binpb"
    <2>1. person = PersonFromProto(io)
      BY <1>3 DEF FromFile
    <2>2. /\ person = [plans |-> person.plans, sub |-> person.sub, attrs |-> person.attrs]
          /\ person.plans = [i \in DOMAIN given |->
               [score |-> given[i].score, selected |-> given[i].selected,
                elements |-> ZipLongest(given[i].acts, given[i].legs)]]
      BY <2>1 DEF PersonFromProto
    <2>3. Readable(file.format, io) =>
            \A i \in DOMAIN given : Len(given[i].legs) <= Len(given[i].acts)
      BY <1>3 DEF Readable, ProtoReadable
    <2> HIDE DEF person, given
    <2>4. ASSUME NEW i \in DOMAIN given
          PROVE  IsPlan(person.plans[i]) /\ person.plans[i].selected = given[i].selected
      <3>1. person.plans[i] = [score |-> given[i].score, selected |-> given[i].selected,
                               elements |-> ZipLongest(given[i].acts, given[i].legs)]
        BY <2>2
      <3>2. given[i].score \in Int \cup {NoScore} /\ given[i].selected \in BOOLEAN
        BY <1>1 DEF PlanInFile
      <3> QED BY <3>1, <3>2 DEF IsPlan
    <2>5. ASSUME NEW i \in DOMAIN given, Len(given[i].legs) <= Len(given[i].acts)
          PROVE  AreElements(person.plans[i].elements)
      <3> DEFINE acts == given[i].acts
                 legs == given[i].legs
                 zip == ZipLongest(acts, legs)
      <3>1. /\ IsList(acts) /\ \A e \in Range(acts) : IsActivity(e)
            /\ IsList(legs) /\ \A e \in Range(legs) : IsLeg(e)
        BY <1>1, <1>3 DEF PlanInFile
      <3>2. person.plans[i].elements = zip
        BY <2>2
      <3>3. Len(legs) <= Len(acts)
        BY <2>5
      <3> HIDE DEF acts, legs
      <3>4. /\ Len(acts) \in Nat /\ Len(legs) \in Nat
            /\ \A k \in 1..Len(acts) : IsActivity(acts[k])
            /\ \A k \in 1..Len(legs) : IsLeg(legs[k])
        BY <3>1, ListIs
      <3>5. ASSUME NEW k \in 1..Len(acts) + Len(legs) PROVE IsElement(zip[k])
        <4>1. zip[k] = IF k > 2 * Len(legs) THEN acts[k - Len(legs)]
                       ELSE IF k % 2 = 1 THEN acts[(k + 1) \div 2] ELSE legs[k \div 2]
          BY DEF ZipLongest
        <4>2. CASE k > 2 * Len(legs)
          <5>1. k - Len(legs) \in 1..Len(acts)
            BY <3>4, <4>2
          <5> QED BY <3>4, <4>1, <4>2, <5>1 DEF IsElement
        <4>3. CASE ~(k > 2 * Len(legs)) /\ k % 2 = 1
          <5>1. (k + 1) \div 2 \in 1..Len(acts)
            BY <3>3, <3>4, <4>3
          <5> QED BY <3>4, <4>1, <4>3, <5>1 DEF IsElement
        <4>4. CASE ~(k > 2 * Len(legs)) /\ k % 2 # 1
          <5>1. k \div 2 \in 1..Len(legs)
            BY <3>4, <4>4
          <5> QED BY <3>4, <4>1, <4>4, <5>1 DEF IsElement
        <4> QED BY <4>2, <4>3, <4>4
      <3>6. zip = [k \in 1..Len(acts) + Len(legs) |-> zip[k]]
        BY DEF ZipLongest
      <3> HIDE DEF zip
      <3>7. zip \in Seq(Range(zip)) /\ \A e \in Range(zip) : IsElement(e)
        <4>1. Len(acts) + Len(legs) \in Nat
          BY <3>4
        <4>2. \A k \in 1..Len(acts) + Len(legs) : zip[k] \in Range(zip)
          BY <3>6 DEF Range
        <4>3. \A e \in Range(zip) : IsElement(e)
          BY <3>5, <3>6 DEF Range
        <4> DEFINE S == Range(zip)
        <4> HIDE DEF S
        <4>4. zip \in Seq(S)
          BY <3>6, <4>1, <4>2 DEF S
        <4> QED BY <4>3, <4>4 DEF S
      <3> QED BY <3>2, <3>7 DEF AreElements, IsList
    <2>6. ArePlans(person.plans) /\ DOMAIN person.plans = DOMAIN given
      BY <1>1, <2>2, <2>4, ArePlansIf
    <2> QED BY <1>1, <2>2, <2>3, <2>4, <2>5, <2>6 DEF IsPerson, person, given
  <1> QED BY <1>2, <1>3 DEF PlansInFile

\* The activities or the legs of a plan.
LEMMA OfKindIsList ==
  ASSUME NEW elements, AreElements(elements)
  PROVE  /\ IsList(OfKind(elements, "act")) /\ \A e \in Range(OfKind(elements, "act")) : IsActivity(e)
         /\ IsList(OfKind(elements, "leg")) /\ \A e \in Range(OfKind(elements, "leg")) : IsLeg(e)
PROOF
  <1> DEFINE S == Range(elements)
  <1>1. elements \in Seq(S) /\ \A e \in S : IsElement(e)
    BY DEF AreElements, IsList
  <1> HIDE DEF S
  <1>2. ASSUME NEW kind
        PROVE  IsList(OfKind(elements, kind)) /\ \A e \in Range(OfKind(elements, kind)) : e \in S /\ e.kind = kind
    <2> DEFINE q == OfKind(elements, kind)
    <2>1. q \in Seq(S) /\ RangeOf(q) = {e \in RangeOf(elements) : e.kind = kind}
      BY <1>1, OfKindElements
    <2>2. RangeOf(elements) \subseteq S
      BY <1>1, RangeOfIn
    <2> HIDE DEF q
    <2>3. DOMAIN q = 1..Len(q) /\ Range(q) = RangeOf(q)
      BY <2>1 DEF Range, RangeOf
    <2>4. q \in Seq(RangeOf(q))
      BY <2>1, SequenceOf DEF IsSequence, RangeOf
    <2> QED BY <2>1, <2>2, <2>3, <2>4 DEF IsList, q
  <1>3. \A e : (IsElement(e) /\ e.kind = "act" => IsActivity(e)) /\ (IsElement(e) /\ e.kind = "leg" => IsLeg(e))
    BY DEF IsElement, IsActivity, IsLeg
  <1> QED BY <1>1, <1>2, <1>3

\* A person as a tool writes it.
LEMMA PersonWritten ==
  ASSUME NEW format \in {"xml", "binpb"}, NEW person, IsPerson(person), IsList(person.plans),
         \A i \in DOMAIN person.plans : AreElements(person.plans[i].elements)
  PROVE  LET io == ToFile(format, person).plans IN
           /\ IsList(io) /\ DOMAIN io = DOMAIN person.plans
           /\ \A i \in DOMAIN io : /\ PlanInFile(format, io[i])
                                   /\ io[i].selected = person.plans[i].selected
PROOF
  <1> DEFINE plans == person.plans
             io == ToFile(format, person).plans
  <1>1. DOMAIN plans = 1..Len(plans) /\ \A i \in DOMAIN plans : IsPlan(plans[i])
    BY DEF IsPerson, ArePlans, IsSequence
  <1>2. CASE format = "xml"
    <2>1. io = [i \in DOMAIN plans |-> [plans[i] EXCEPT !.elements = ElementsToXml(@)]]
      BY <1>2 DEF ToFile, PersonToXml
    <2> HIDE DEF io
    <2>2. IsList(io) /\ DOMAIN io = DOMAIN plans
      BY <2>1, ListAlike
    <2>3. ASSUME NEW i \in DOMAIN io
          PROVE  PlanInFile(format, io[i]) /\ io[i].selected = plans[i].selected
      <3>1. PICK e, s, sel : /\ plans[i] = [elements |-> e, score |-> s, selected |-> sel] /\ AreElements(e)
                             /\ s \in Int \cup {NoScore} /\ sel \in BOOLEAN
        BY <1>1, <2>2 DEF IsPlan
      <3>2. io[i] = [elements |-> ElementsToXml(e), score |-> s, selected |-> sel]
        BY <2>1, <2>2, <3>1
      <3>3. AreElements(ElementsToXml(e))
        BY <3>1, ElementsKept
      <3> QED BY <1>2, <3>1, <3>2, <3>3 DEF PlanInFile, AreElements
    <2> QED BY <2>2, <2>3 DEF io
  <1>3. CASE format = "binpb"
    <2>1. io = [i \in DOMAIN plans |->
                  [score |-> plans[i].score, selected |-> plans[i].selected,
                   acts |-> OfKind(plans[i].elements, "act"), legs |-> OfKind(plans[i].elements, "leg")]]
      BY <1>3 DEF ToFile, PersonToProto
    <2> HIDE DEF io
    <2>2. IsList(io) /\ DOMAIN io = DOMAIN plans
      BY <2>1, ListAlike
    <2>3. ASSUME NEW i \in DOMAIN io
          PROVE  PlanInFile(format, io[i]) /\ io[i].selected = plans[i].selected
      <3>1. /\ io[i].score = plans[i].score /\ io[i].selected = plans[i].selected
            /\ io[i].acts = OfKind(plans[i].elements, "act")
            /\ io[i].legs = OfKind(plans[i].elements, "leg")
        BY <2>1, <2>2
      <3>2. AreElements(plans[i].elements) /\ IsPlan(plans[i])
        BY <1>1, <2>2
      <3> QED BY <1>3, <3>1, <3>2, OfKindIsList DEF PlanInFile, IsPlan
    <2> QED BY <2>2, <2>3 DEF io
  <1> QED BY <1>2, <1>3

\* At most one plan is selected.
OneAtMost(plans) ==
  \A i, k \in DOMAIN plans : plans[i].selected /\ plans[k].selected => i = k
OneAtMostInFile(file) == \A p \in DOMAIN file.persons : OneAtMost(file.persons[p].plans)

\* The tools write plans as they are expected, with the same ones selected.
LEMMA Converted ==
  ASSUME NEW fs, PlansInFile(fs.plans),
         NEW tool \in {"convert_to_binary", "convert_to_xml"}, NEW out \in Conversions(tool, fs)
  PROVE  PlansInFile(out.plans) /\ (OneAtMostInFile(fs.plans) => OneAtMostInFile(out.plans))
PROOF
  <1> DEFINE read == ReadPopulation(fs.plans)
  <1>1. ScenarioReadable(fs) /\ \E format \in {"xml", "binpb"} : out.plans = WritePopulation(format, read)
    <2>1. CASE tool = "convert_to_binary"
      <3>1. out \in ConvertToBinary(fs)
        BY <2>1 DEF Conversions
      <3>2. LoadScenario(fs, "none").population = read
        BY DEF LoadScenario
      <3> HIDE DEF read
      <3> QED BY <3>1, <3>2 DEF ConvertToBinary
    <2>2. CASE tool = "convert_to_xml"
      <3>1. out \in ConvertToXml(fs)
        BY <2>2 DEF Conversions
      <3>2. LoadScenario(fs, "none").population = read
        BY DEF LoadScenario
      <3> HIDE DEF read
      <3> QED BY <3>1, <3>2 DEF ConvertToXml
    <2> QED BY <2>1, <2>2
  <1>2. PICK format \in {"xml", "binpb"} : out.plans = WritePopulation(format, read)
    BY <1>1
  <1>3. /\ out.plans.format = format /\ DOMAIN out.plans.persons = DOMAIN fs.plans.persons
        /\ \A p \in DOMAIN fs.plans.persons :
             out.plans.persons[p] = ToFile(format, FromFile(fs.plans.format, fs.plans.persons[p], p))
    BY <1>2 DEF WritePopulation, ReadPopulation
  <1>4. ASSUME NEW p \in DOMAIN fs.plans.persons
        PROVE  LET given == fs.plans.persons[p].plans
                   io == out.plans.persons[p].plans
               IN /\ IsList(io) /\ DOMAIN io = DOMAIN given
                  /\ \A i \in DOMAIN io : PlanInFile(format, io[i]) /\ io[i].selected = given[i].selected
    <2> DEFINE given == fs.plans.persons[p].plans
               person == FromFile(fs.plans.format, fs.plans.persons[p], p)
    <2>1. Readable(fs.plans.format, fs.plans.persons[p])
      BY <1>1 DEF ScenarioReadable
    <2>2. /\ IsPerson(person) /\ IsList(given) /\ DOMAIN person.plans = DOMAIN given
          /\ \A i \in DOMAIN given : person.plans[i].selected = given[i].selected
          /\ \A i \in DOMAIN given : AreElements(person.plans[i].elements)
      BY <2>1, PersonRead
    <2> HIDE DEF person, given
    <2>3. IsList(person.plans)
      <3>1. person.plans = [i \in DOMAIN person.plans |-> person.plans[i]]
        BY <2>2 DEF IsPerson, ArePlans, IsSequence
      <3> QED BY <2>2, <3>1, ListAlike
    <2> DEFINE io == ToFile(format, person).plans
    <2>4. /\ IsList(io) /\ DOMAIN io = DOMAIN person.plans
          /\ \A i \in DOMAIN io : PlanInFile(format, io[i]) /\ io[i].selected = person.plans[i].selected
      BY <2>2, <2>3, PersonWritten
    <2>5. out.plans.persons[p].plans = io
      BY <1>3 DEF person
    <2> HIDE DEF io
    <2> QED BY <2>2, <2>4, <2>5 DEF given
  <1>5. PlansInFile(out.plans)
    <2>1. ASSUME NEW p \in DOMAIN fs.plans.persons, NEW plan \in Range(out.plans.persons[p].plans)
          PROVE  PlanInFile(format, plan)
      BY <1>4, <2>1 DEF Range
    <2> QED BY <1>3, <1>4, <2>1 DEF PlansInFile
  <1>6. OneAtMostInFile(fs.plans) => OneAtMostInFile(out.plans)
    BY <1>3, <1>4 DEF OneAtMostInFile, OneAtMost
  <1> QED BY <1>5, <1>6

-----------------------------------------------------------------------------
(* Replanning in the run.                                                   *)

\* The configuration and the files RemovalKeepsBest is about: plans are removed by
\* their score, one is kept at least, and no person has two selected plans.
BestKept ==
  /\ Remover = "WorstScore" /\ MaxMemory > 0 /\ NoScore \notin Int
  /\ \A in \in Inputs : OneAtMostInFile(in.files.plans)

\* What a strategy that does not panic leaves to remove_plans_if_needed are the plans as
\* they were.
LEMMA ReplanRemoves ==
  ASSUME NEW plans, NEW sub, NEW disabled,
         NEW result \in ReplanResults(sub, plans, disabled), ~result.panics
  PROVE  result.plans \in RemovePlans(plans)
PROOF
  <1> DEFINE names == ChosenStrategies(sub, disabled)
             handled == Handled(names, plans)
  <1>1. ASSUME NEW h \in handled, ~h.panics PROVE h.plans = plans
    <2>1. CASE names = {}
      BY <1>1, <2>1 DEF Handled
    <2>2. CASE names # {}
      <3>1. PICK name \in names : h \in Handle(name, plans)
        BY <2>2 DEF Handled
      <3>2. \/ \E i \in SelectBy(name, plans) :
                h = [plans |-> IF name = "ReRoute" THEN CopyPlan(plans, i) ELSE plans,
                     panics |-> name = "ReRoute"]
            \/ h = [plans |-> plans, panics |-> TRUE]
        BY <3>1 DEF Handle
      <3>3. ~h.panics
        BY <1>1
      <3>4. h # [plans |-> plans, panics |-> TRUE]
        BY <3>3
      <3>5. PICK i : h = [plans |-> IF name = "ReRoute" THEN CopyPlan(plans, i) ELSE plans,
                          panics |-> name = "ReRoute"]
        BY <3>2, <3>4
      <3>6. name # "ReRoute"
        BY <3>3, <3>5
      <3> QED BY <3>5, <3>6
    <2> QED BY <2>1, <2>2
  <1>2. PICK h \in handled : result \in Trimmed(h)
    BY DEF ReplanResults
  <1> HIDE DEF handled
  <1>3. ~h.panics /\ \E left \in RemovePlans(h.plans) : result = [plans |-> left, panics |-> FALSE]
    <2>1. result # [plans |-> h.plans, panics |-> TRUE]
      <3>1. [plans |-> h.plans, panics |-> TRUE].panics
        OBVIOUS
      <3> QED BY <3>1
    <2> QED BY <1>2, <2>1 DEF Trimmed
  <1> QED BY <1>1, <1>3

LEMMA ReplanKeeps ==
  ASSUME BestKept, NEW plans, ArePlans(plans), OneSelected(plans), NEW sub, NEW disabled,
         NEW result \in ReplanResults(sub, plans, disabled), ~result.panics
  PROVE  /\ Keeps(plans, result.plans) /\ Len(result.plans) <= MaxMemory
         /\ Len(result.plans) = Len(plans) - Surplus(plans)
  BY ReplanRemoves, RemovePlansKeep DEF BestKept

\* prepare_person replaces the elements of plans and nothing else.
LEMMA PreparedPerson ==
  ASSUME NEW p, NEW person, IsPerson(person), NEW g
  PROVE  LET after == PreparePerson(p, person, g).person IN
           /\ IsPerson(after) /\ DOMAIN after.plans = DOMAIN person.plans
           /\ \A i \in DOMAIN person.plans : after.plans[i].selected = person.plans[i].selected
PROOF
  <1> DEFINE plans == person.plans
             after == PreparePerson(p, person, g).person
             outcomes == [i \in DOMAIN plans |-> PreparePlan(p, plans[i], g)]
  <1>1. DOMAIN plans = 1..Len(plans) /\ Len(plans) \in Nat /\ \A i \in DOMAIN plans : IsPlan(plans[i])
    BY DEF IsPerson, ArePlans, IsSequence
  <1>2. after = [person EXCEPT !.plans =
                   [i \in DOMAIN plans |-> IF outcomes[i].ok THEN outcomes[i].plan ELSE plans[i]]]
    BY DEF PreparePerson, ReplacePlans
  <1>3. ASSUME NEW i \in DOMAIN plans
        PROVE  \E e : outcomes[i].ok => outcomes[i].plan = [plans[i] EXCEPT !.elements = e]
    <2>1. outcomes[i] = PreparePlan(p, plans[i], g)
      OBVIOUS
    <2>2. \E done : PreparePlan(p, plans[i], g) = PlanOutcome(plans[i], done)
      BY DEF PreparePlan
    <2> HIDE DEF outcomes
    <2>3. PICK done : outcomes[i] = PlanOutcome(plans[i], done)
      BY <2>1, <2>2
    <2>4. outcomes[i].ok => outcomes[i].plan = [plans[i] EXCEPT !.elements = done.elements]
      BY <2>3 DEF PlanOutcome
    <2> QED BY <2>4
  <1> HIDE DEF outcomes, after
  <1>4. /\ after.plans = [i \in DOMAIN plans |-> IF outcomes[i].ok THEN outcomes[i].plan ELSE plans[i]]
        /\ after = [plans |-> after.plans, sub |-> after.sub, attrs |-> after.attrs]
    <2>1. PICK sub, attrs : person = [plans |-> plans, sub |-> sub, attrs |-> attrs]
      BY DEF IsPerson
    <2> HIDE DEF plans
    <2> QED BY <1>2, <2>1
  <1>5. ASSUME NEW i \in DOMAIN plans
        PROVE  IsPlan(after.plans[i]) /\ after.plans[i].selected = plans[i].selected
    <2>1. PICK e, s, sel : /\ plans[i] = [elements |-> e, score |-> s, selected |-> sel]
                           /\ s \in Int \cup {NoScore} /\ sel \in BOOLEAN
      BY <1>1 DEF IsPlan
    <2>2. PICK f : outcomes[i].ok => outcomes[i].plan = [plans[i] EXCEPT !.elements = f]
      BY <1>3
    <2>3. [plans[i] EXCEPT !.elements = f] = [elements |-> f, score |-> s, selected |-> sel]
      BY <2>1
    <2>4. \/ after.plans[i] = plans[i]
          \/ after.plans[i] = [elements |-> f, score |-> s, selected |-> sel]
      BY <1>4, <2>2, <2>3
    <2> QED BY <1>1, <2>1, <2>4 DEF IsPlan
  <1>6. IsSequence(after.plans) /\ Len(after.plans) = Len(plans) /\ DOMAIN after.plans = DOMAIN plans
    <2> DEFINE t == after.plans
               S == {t[i] : i \in 1..Len(plans)}
    <2>1. t = [i \in 1..Len(plans) |-> t[i]]
      BY <1>1, <1>4
    <2> HIDE DEF t
    <2>2. \A i \in 1..Len(plans) : t[i] \in S
      OBVIOUS
    <2> HIDE DEF S
    <2>3. t \in Seq(S) /\ Len(t) = Len(plans)
      BY <1>1, <2>1, <2>2
    <2> QED BY <1>1, <2>1, <2>3, SequenceOf DEF t
  <1> QED BY <1>1, <1>4, <1>5, <1>6 DEF IsPerson, ArePlans, after

\* Inductive: files and persons are what they are expected to be, with one plan selected
\* at most; when the mobsim is over, one is, and who was replanned has few enough plans.
FilesInv ==
  /\ input \in Inputs /\ (phase = "convert" => input.tool # "none")
  /\ phase \in {"convert", "read"} => PlansInFile(files.plans) /\ OneAtMostInFile(files.plans)
PersonsInv ==
  phase # "notReplanned" =>
    /\ population = [p \in Persons |-> population[p]]
    /\ \A p \in Persons : IsPerson(population[p]) /\ OneAtMost(population[p].plans)
ReplanInv ==
  phase = "replan" => \A p \in Persons : /\ OneSelected(population[p].plans)
                                         /\ p \notin todo => Len(population[p].plans) <= MaxMemory
RInv == FilesInv /\ PersonsInv /\ ReplanInv

LEMMA RInvInit == ASSUME BestKept PROVE Init => RInv
PROOF
  <1> SUFFICES ASSUME Init PROVE RInv
    OBVIOUS
  <1>1. FilesInv
    BY PlanCycleAssumption DEF Init, FilesInv, BestKept
  <1>2. Persons = {} /\ population = [p \in Persons |-> population[p]]
    BY DEF Init, Persons
  <1>3. phase # "replan"
    BY DEF Init
  <1> QED BY <1>1, <1>2, <1>3 DEF RInv, PersonsInv, ReplanInv

\* One plan is selected if one at most is and there is one.
LEMMA OneIsSelected ==
  ASSUME NEW plans, ArePlans(plans), OneAtMost(plans), SelectedIn(plans) # {}
  PROVE  OneSelected(plans)
PROOF
  <1>1. DOMAIN plans = 1..Len(plans)
    BY DEF ArePlans, IsSequence
  <1>2. PICK i \in 1..Len(plans) : plans[i].selected
    BY <1>1 DEF SelectedIn
  <1>3. ASSUME NEW k \in 1..Len(plans) PROVE plans[k].selected <=> k = i
    <2>1. plans[k].selected => k = i
      BY <1>1, <1>2 DEF OneAtMost
    <2> QED BY <1>2, <2>1
  <1> QED BY <1>3 DEF OneSelected

LEMMA OneAtMostIs ==
  ASSUME NEW plans, ArePlans(plans), OneSelected(plans)
  PROVE  OneAtMost(plans)
  BY DEF ArePlans, IsSequence, OneAtMost, OneSelected

\* What a step makes of a person.
LEMMA OneChanged ==
  ASSUME population = [q \in Persons |-> population[q]], NEW p \in Persons, NEW person,
         population' = [population EXCEPT ![p] = person]
  PROVE  /\ Persons' = Persons /\ population' = [q \in Persons |-> population'[q]]
         /\ \A q \in Persons : population'[q] = IF q = p THEN person ELSE population[q]
  BY DEF Persons

LEMMA ReplannedPerson ==
  ASSUME BestKept, RInv, NEW p \in Persons, Replan(p), phase' # "notReplanned"
  PROVE  /\ phase = "replan" /\ phase' = "replan" /\ p \in todo /\ todo' = todo \ {p}
         /\ Persons' = Persons /\ population' = [q \in Persons |-> population'[q]]
         /\ IsPerson(population'[p]) /\ Keeps(population[p].plans, population'[p].plans)
         /\ Len(population'[p].plans) <= MaxMemory
         /\ \A q \in Persons : q # p => population'[q] = population[q]
PROOF
  <1>1. phase = "replan" /\ p \in todo /\ todo' = todo \ {p}
    BY DEF Replan
  <1>2. PICK result \in ReplanResults(population[p].sub, population[p].plans, InnovationDisabled(iteration)) :
          /\ population' = [population EXCEPT ![p].plans = result.plans]
          /\ phase' = IF result.panics THEN "notReplanned" ELSE phase
    BY DEF Replan
  <1>3. ~result.panics /\ phase' = "replan"
    BY <1>1, <1>2
  <1>4. /\ population = [q \in Persons |-> population[q]] /\ IsPerson(population[p])
        /\ ArePlans(population[p].plans) /\ OneSelected(population[p].plans)
    BY <1>1 DEF RInv, PersonsInv, ReplanInv, IsPerson
  <1>5. Keeps(population[p].plans, result.plans) /\ Len(result.plans) <= MaxMemory
    BY <1>3, <1>4, ReplanKeeps
  <1> DEFINE person == [population[p] EXCEPT !.plans = result.plans]
  <1>6. population' = [population EXCEPT ![p] = person]
    BY <1>2, <1>4
  <1>7. IsPerson(person) /\ person.plans = result.plans
    <2>1. PICK plans, sub, attrs : population[p] = [plans |-> plans, sub |-> sub, attrs |-> attrs]
      BY <1>4 DEF IsPerson
    <2>2. person = [plans |-> result.plans, sub |-> sub, attrs |-> attrs]
      BY <2>1
    <2>3. ArePlans(result.plans)
      BY <1>5 DEF Keeps
    <2> HIDE DEF person
    <2> QED BY <2>2, <2>3 DEF IsPerson
  <1> HIDE DEF person
  <1>8. /\ Persons' = Persons /\ population' = [q \in Persons |-> population'[q]]
        /\ \A q \in Persons : population'[q] = IF q = p THEN person ELSE population[q]
    BY <1>4, <1>6, OneChanged
  <1> QED BY <1>1, <1>3, <1>5, <1>7, <1>8

LEMMA RInvStep == ASSUME BestKept PROVE RInv /\ [Next]_vars => RInv'
PROOF
  <1> SUFFICES ASSUME RInv, [Next]_vars PROVE RInv'
    OBVIOUS
  <1> USE DEF RInv, FilesInv
  <1>1. CASE Convert
    <2>1. phase = "convert" /\ input \in Inputs /\ input' = input /\ population' = population
      BY <1>1 DEF Convert
    <2>2. FilesInv'
      <3>1. CASE Conversions(input.tool, files) = {}
        BY <1>1, <3>1 DEF Convert
      <3>2. CASE Conversions(input.tool, files) # {}
        <4>1. files' \in Conversions(input.tool, files) /\ phase' = "read"
          BY <1>1, <3>2 DEF Convert
        <4>2. input.tool \in {"convert_to_binary", "convert_to_xml"}
          BY <2>1, PlanCycleAssumption
        <4>3. PlansInFile(files'.plans) /\ OneAtMostInFile(files'.plans)
          BY <2>1, <4>1, <4>2, Converted
        <4> QED BY <2>1, <4>1, <4>3 DEF OneAtMostInFile
      <3> QED BY <3>1, <3>2
    <2>3. phase' # "replan" /\ phase' # "notReplanned" /\ phase # "notReplanned"
      BY <1>1 DEF Convert
    <2> QED BY <2>1, <2>2, <2>3 DEF PersonsInv, ReplanInv, Persons
  <1>2. CASE Read
    <2>1. phase = "read" /\ input' = input /\ files' = files /\ phase' \in {"prepare", "unreadable"}
      BY <1>2 DEF Read
    <2>2. PersonsInv'
      <3>1. CASE phase' = "unreadable"
        <4>1. population' = population /\ phase' # "notReplanned" /\ phase # "notReplanned"
          BY <1>2, <2>1, <3>1 DEF Read
        <4> QED BY <4>1 DEF PersonsInv, Persons
      <3>2. CASE phase' = "prepare"
        <4>1. population' = ReadPopulation(files.plans)
          BY <1>2, <3>2 DEF Read, LoadScenario
        <4>2. /\ population' = [p \in DOMAIN files.plans.persons |-> population'[p]]
              /\ \A p \in DOMAIN files.plans.persons :
                   population'[p] = FromFile(files.plans.format, files.plans.persons[p], p)
          BY <4>1 DEF ReadPopulation
        <4>3. ASSUME NEW p \in DOMAIN files.plans.persons
              PROVE  IsPerson(population'[p]) /\ OneAtMost(population'[p].plans)
          <5>1. PlansInFile(files.plans) /\ OneAtMost(files.plans.persons[p].plans)
            BY <2>1 DEF OneAtMostInFile
          <5> QED BY <4>2, <5>1, PersonRead DEF OneAtMost
        <4> QED BY <4>2, <4>3 DEF PersonsInv, Persons, OneAtMost, IsPerson, ArePlans
      <3> QED BY <2>1, <3>1, <3>2
    <2> QED BY <2>1, <2>2 DEF ReplanInv
  <1>3. ASSUME NEW p \in Persons, Prepare(p) PROVE RInv'
    <2>1. phase = "prepare" /\ phase' = phase /\ input' = input /\ files' = files
      BY <1>3 DEF Prepare
    <2>2. /\ population = [q \in Persons |-> population[q]]
          /\ \A q \in Persons : IsPerson(population[q]) /\ OneAtMost(population[q].plans)
      BY <2>1 DEF PersonsInv
    <2> DEFINE person == PreparePerson(p, population[p], Vehicles).person
    <2>3. population' = [population EXCEPT ![p] = person]
      BY <1>3 DEF Prepare
    <2>4. /\ IsPerson(person) /\ DOMAIN person.plans = DOMAIN population[p].plans
          /\ \A i \in DOMAIN population[p].plans : person.plans[i].selected = population[p].plans[i].selected
      BY <2>2, PreparedPerson
    <2> HIDE DEF person
    <2>5. OneAtMost(person.plans)
      BY <2>2, <2>4 DEF OneAtMost
    <2>6. /\ Persons' = Persons /\ population' = [q \in Persons |-> population'[q]]
          /\ \A q \in Persons : population'[q] = IF q = p THEN person ELSE population[q]
      BY <2>2, <2>3, OneChanged
    <2>7. PersonsInv'
      <3>1. \A q \in Persons : IsPerson(population'[q]) /\ OneAtMost(population'[q].plans)
        BY <2>2, <2>4, <2>5, <2>6
      <3> QED BY <2>6, <3>1 DEF PersonsInv, OneAtMost, IsPerson, ArePlans
    <2> QED BY <2>1, <2>7 DEF ReplanInv
  <1>4. CASE Simulate
    <2>1. /\ phase = "mobsim" /\ phase' \in {"output", "replan"} /\ input' = input /\ files' = files
          /\ population' = population /\ (phase' = "replan" => todo' = Persons)
          /\ \A p \in Persons : SelectedIn(population[p].plans) # {}
      BY <1>4 DEF Simulate, CanSplit
    <2>2. \A p \in Persons : IsPerson(population[p]) /\ OneSelected(population[p].plans)
      BY <2>1, OneIsSelected DEF PersonsInv, IsPerson
    <2>3. FilesInv' /\ PersonsInv'
      BY <2>1 DEF PersonsInv, Persons
    <2>4. ReplanInv'
      BY <2>1, <2>2 DEF ReplanInv, Persons
    <2> QED BY <2>3, <2>4
  <1>5. ASSUME NEW p \in Persons, Replan(p) PROVE RInv'
    <2>1. phase = "replan" /\ input' = input /\ files' = files /\ phase' \in {"replan", "notReplanned"}
      BY <1>5 DEF Replan
    <2>2. CASE phase' = "notReplanned"
      BY <2>1, <2>2 DEF PersonsInv, ReplanInv
    <2>3. CASE phase' # "notReplanned"
      <3>1. /\ todo' = todo \ {p}
            /\ Persons' = Persons /\ population' = [q \in Persons |-> population'[q]]
            /\ IsPerson(population'[p]) /\ Keeps(population[p].plans, population'[p].plans)
            /\ Len(population'[p].plans) <= MaxMemory
            /\ \A q \in Persons : q # p => population'[q] = population[q]
        BY <1>5, <2>3, ReplannedPerson
      <3>2. OneSelected(population'[p].plans) /\ OneAtMost(population'[p].plans)
        BY <3>1, OneAtMostIs DEF Keeps
      <3>3. \A q \in Persons : /\ IsPerson(population'[q]) /\ OneAtMost(population'[q].plans)
                               /\ OneSelected(population'[q].plans)
                               /\ q \notin todo' => Len(population'[q].plans) <= MaxMemory
        <4> TAKE q \in Persons
        <4>1. CASE q = p
          BY <3>1, <3>2, <4>1
        <4>2. CASE q # p
          BY <2>1, <3>1, <4>2 DEF PersonsInv, ReplanInv
        <4> QED BY <4>1, <4>2
      <3>4. PersonsInv'
        BY <3>1, <3>3 DEF PersonsInv, OneAtMost, IsPerson, ArePlans
      <3>5. ReplanInv'
        BY <3>1, <3>3 DEF ReplanInv, OneSelected
      <3> QED BY <2>1, <3>4, <3>5
    <2> QED BY <2>2, <2>3
  <1>6. ASSUME input' = input, files' = files, population' = population,
               phase' \notin {"convert", "read", "replan"}, phase # "notReplanned"
        PROVE  RInv'
    BY <1>6 DEF PersonsInv, ReplanInv, Persons
  <1>7. CASE EndPrepare
    <2>1. /\ phase # "notReplanned" /\ phase' \notin {"convert", "read", "replan"}
          /\ input' = input /\ files' = files /\ population' = population
      BY <1>7 DEF EndPrepare
    <2> QED BY <1>6, <2>1
  <1>8. CASE MobsimPanics
    <2>1. /\ phase # "notReplanned" /\ phase' \notin {"convert", "read", "replan"}
          /\ input' = input /\ files' = files /\ population' = population
      BY <1>8 DEF MobsimPanics
    <2> QED BY <1>6, <2>1
  <1>9. CASE NextIteration
    <2>1. /\ phase # "notReplanned" /\ phase' \notin {"convert", "read", "replan"}
          /\ input' = input /\ files' = files /\ population' = population
      BY <1>9 DEF NextIteration
    <2> QED BY <1>6, <2>1
  <1>10. CASE WriteOutput
    <2>1. /\ phase # "notReplanned" /\ phase' \notin {"convert", "read", "replan"}
          /\ input' = input /\ files' = files /\ population' = population
      BY <1>10 DEF WriteOutput
    <2> QED BY <1>6, <2>1
  <1>11. CASE UNCHANGED vars
    BY <1>11 DEF vars, PersonsInv, ReplanInv, Persons
  <1> QED BY <1>1, <1>2, <1>3, <1>4, <1>5, <1>7, <1>8, <1>9, <1>10, <1>11 DEF Next, Terminated

\* One plan stays selected, and of the plans that are removed none is better than one that
\* stays, unless that is the selected one.
THEOREM RemovalKeepsTheBest == ASSUME BestKept PROVE Spec => RemovalKeepsBest
PROOF
  <1>1. RInv /\ [Next]_vars =>
          [\A p \in Persons : phase = "replan" /\ phase' = "replan" =>
             LET before == population[p].plans
                 after == population'[p].plans
                 count(plans, plan) == Cardinality({i \in DOMAIN plans : plans[i] = plan})
             IN /\ Cardinality(SelectedIn(after)) = 1
                /\ p \notin todo' => Len(after) <= MaxMemory
                /\ \A i \in DOMAIN before : \A k \in DOMAIN after :
                     count(after, before[i]) < count(before, before[i]) /\ Better(before[i], after[k])
                       => after[k].selected]_vars
    <2> SUFFICES ASSUME RInv, Next, NEW p \in Persons, phase = "replan", phase' = "replan"
                 PROVE  LET before == population[p].plans
                            after == population'[p].plans
                        IN /\ Cardinality(SelectedIn(after)) = 1
                           /\ p \notin todo' => Len(after) <= MaxMemory
                           /\ \A i \in DOMAIN before : \A k \in DOMAIN after :
                                Count(after, before[i]) < Count(before, before[i]) /\ Better(before[i], after[k])
                                  => after[k].selected
      BY DEF Count
    <2> DEFINE before == population[p].plans
               after == population'[p].plans
    <2>1. PICK q \in Persons : Replan(q)
      BY DEF Next, Convert, Read, EndPrepare, Simulate, MobsimPanics, NextIteration, WriteOutput,
             Terminated, Ended, Prepare
    <2>2. /\ todo' = todo \ {q} /\ Keeps(population[q].plans, population'[q].plans)
          /\ Len(population'[q].plans) <= MaxMemory
          /\ p # q => population'[p] = population[p]
      BY <2>1, ReplannedPerson
    <2>3. ArePlans(before) /\ OneSelected(before) /\ (p \notin todo => Len(before) <= MaxMemory)
      BY DEF RInv, PersonsInv, ReplanInv, IsPerson
    <2>4. Keeps(before, after) /\ (p \notin todo' => Len(after) <= MaxMemory)
      <3>1. CASE p = q
        BY <2>2, <3>1
      <3>2. CASE p # q
        <4>1. after = before
          BY <2>2, <3>2
        <4>2. Keeps(before, before)
          BY <2>3, KeepsItself
        <4> QED BY <2>2, <2>3, <3>2, <4>1, <4>2
      <3> QED BY <3>1, <3>2
    <2> HIDE DEF before, after
    <2>5. Cardinality(SelectedIn(after)) = 1
      BY <2>4, OneSelectedIs DEF Keeps
    <2>6. DOMAIN before = 1..Len(before) /\ DOMAIN after = 1..Len(after)
      BY <2>3, <2>4 DEF Keeps, ArePlans, IsSequence
    <2> QED BY <2>4, <2>5, <2>6 DEF Keeps, before, after
  <1> QED BY <1>1, RInvInit, RInvStep, PTL DEF Spec, RemovalKeepsBest

-----------------------------------------------------------------------------
(* The trips of a plan, in their order.                                     *)

Span(o, d) == [origin |-> o, destination |-> d]

LEMMA LengthIs ==
  ASSUME NEW s, IsSequence(s)
  PROVE  Len(s) \in Nat /\ DOMAIN s = 1..Len(s) /\ s = [i \in 1..Len(s) |-> s[i]]
  BY DEF IsSequence

\* From one main activity to the next, with something between.
SpanOver(E, o, d) ==
  /\ o \in 1..Len(E) /\ d \in 1..Len(E) /\ IsMain(E[o]) /\ IsMain(E[d]) /\ d - o > 1
  /\ \A k \in 1..Len(E) : IsMain(E[k]) => k <= o \/ k >= d

LEMMA TripIs ==
  ASSUME NEW E, IsSequence(E), NEW s
  PROVE  s \in Trips(E) <=> s = Span(s.origin, s.destination) /\ SpanOver(E, s.origin, s.destination)
PROOF
  <1> DEFINE mains == {i \in 1..Len(E) : IsMain(E[i])}
  <1>1. Trips(E) = {t \in [origin : mains, destination : mains] :
                      /\ t.destination - t.origin > 1
                      /\ \A k \in mains : k <= t.origin \/ k >= t.destination}
    BY DEF Trips, TripSpans, MainsFrom
  <1>2. s \in [origin : mains, destination : mains] <=>
          s = Span(s.origin, s.destination) /\ s.origin \in mains /\ s.destination \in mains
    <2> HIDE DEF mains
    <2> QED BY DEF Span
  <1> QED BY <1>1, <1>2 DEF SpanOver

LEMMA SpanIsTrip ==
  ASSUME NEW E, IsSequence(E), NEW o, NEW d
  PROVE  Span(o, d) \in Trips(E) <=> SpanOver(E, o, d)
PROOF
  <1>1. Span(o, d).origin = o /\ Span(o, d).destination = d
    BY DEF Span
  <1> QED BY <1>1, TripIs

\* A trip begins where the one before ends, or later.
LEMMA TripsApart ==
  ASSUME NEW E, IsSequence(E), NEW s \in Trips(E), NEW t \in Trips(E)
  PROVE  /\ s.origin < t.origin => s.destination <= t.origin
         /\ s.origin = t.origin => s = t
PROOF
  <1>1. /\ s = Span(s.origin, s.destination) /\ SpanOver(E, s.origin, s.destination)
        /\ t = Span(t.origin, t.destination) /\ SpanOver(E, t.origin, t.destination)
    BY TripIs
  <1>2. s.origin < t.origin => s.destination <= t.origin
    BY <1>1 DEF SpanOver
  <1>3. s.origin = t.origin => s.destination = t.destination
    BY <1>1 DEF SpanOver
  <1> QED BY <1>1, <1>2, <1>3

LEMMA TripsFinite ==
  ASSUME NEW E, IsSequence(E)
  PROVE  IsFiniteSet(Trips(E)) /\ Cardinality(Trips(E)) \in Nat
PROOF
  <1> DEFINE f == [s \in Trips(E) |-> s.origin]
  <1>1. \A s \in Trips(E) : s.origin \in 1..Len(E)
    BY TripIs DEF SpanOver
  <1>2. \A s, t \in Trips(E) : s.origin = t.origin => s = t
    BY TripsApart
  <1>3. f \in Injection(Trips(E), 1..Len(E))
    BY <1>1, <1>2 DEF Injection, IsInjective
  <1>4. IsFiniteSet(1..Len(E))
    BY FS_Interval DEF IsSequence
  <1> QED BY <1>3, <1>4, FS_Injection, FS_CardinalityType

\* How many trips begin before a position.
Before(E, o) == {t \in Trips(E) : t.origin < o}
Rank(E, o) == Cardinality(Before(E, o))

LEMMA RankIs ==
  ASSUME NEW E, IsSequence(E), NEW s \in Trips(E)
  PROVE  /\ Rank(E, s.origin) \in 0..Cardinality(Trips(E)) - 1
         /\ \A t \in Trips(E) : t.origin < s.origin <=> Rank(E, t.origin) < Rank(E, s.origin)
PROOF
  <1>1. IsFiniteSet(Trips(E)) /\ Cardinality(Trips(E)) \in Nat
    BY TripsFinite
  <1>2. \A t \in Trips(E) : t.origin \in Int
    BY TripIs DEF SpanOver
  <1>3. ASSUME NEW t \in Trips(E)
        PROVE  IsFiniteSet(Before(E, t.origin)) /\ Rank(E, t.origin) \in Nat
    <2>1. Before(E, t.origin) \subseteq Trips(E)
      BY DEF Before
    <2> QED BY <1>1, <2>1, FS_Subset, FS_CardinalityType DEF Rank
  <1>4. Rank(E, s.origin) < Cardinality(Trips(E))
    <2>1. Before(E, s.origin) \subseteq Trips(E) /\ s \notin Before(E, s.origin)
      BY <1>2 DEF Before
    <2>2. /\ Rank(E, s.origin) <= Cardinality(Trips(E))
          /\ Cardinality(Trips(E)) = Rank(E, s.origin) => Trips(E) = Before(E, s.origin)
      BY <1>1, <2>1, FS_Subset DEF Rank
    <2> QED BY <1>1, <1>3, <2>1, <2>2
  <1>5. ASSUME NEW u \in Trips(E), NEW t \in Trips(E), t.origin < u.origin
        PROVE  Rank(E, t.origin) < Rank(E, u.origin)
    <2>1. /\ Before(E, t.origin) \subseteq Before(E, u.origin)
          /\ t \in Before(E, u.origin) /\ t \notin Before(E, t.origin)
      BY <1>2, <1>5 DEF Before
    <2>2. /\ Rank(E, t.origin) <= Rank(E, u.origin)
          /\ Rank(E, u.origin) = Rank(E, t.origin) => Before(E, u.origin) = Before(E, t.origin)
      BY <1>3, <2>1, FS_Subset DEF Rank
    <2> QED BY <1>3, <2>1, <2>2
  <1>6. ASSUME NEW t \in Trips(E)
        PROVE  t.origin < s.origin <=> Rank(E, t.origin) < Rank(E, s.origin)
    <2>1. CASE t.origin < s.origin
      BY <1>5, <2>1
    <2>2. CASE t.origin = s.origin
      BY <1>2, <1>3, <2>2
    <2>3. CASE s.origin < t.origin
      <3>1. Rank(E, s.origin) < Rank(E, t.origin)
        BY <1>5, <2>3
      <3> QED BY <1>2, <1>3, <2>3, <3>1
    <2> QED BY <1>2, <2>1, <2>2, <2>3
  <1> QED BY <1>1, <1>3, <1>4, <1>6

\* Every trip has its number, and there is one for every number.
LEMMA SpanAtOnly ==
  ASSUME NEW E, IsSequence(E), NEW s \in Trips(E), NEW k \in Nat, Rank(E, s.origin) = k - 1
  PROVE  SpanAt(E, k) = s
PROOF
  <1>1. \A t \in Trips(E) : Rank(E, t.origin) = k - 1 => t = s
    <2> SUFFICES ASSUME NEW t \in Trips(E), Rank(E, t.origin) = k - 1 PROVE t = s
      OBVIOUS
    <2>1. ~(t.origin < s.origin) /\ ~(s.origin < t.origin)
      BY RankIs
    <2>2. t.origin \in Int /\ s.origin \in Int
      BY TripIs DEF SpanOver
    <2> QED BY <2>1, <2>2, TripsApart
  <1>2. SpanAt(E, k) = CHOOSE t \in Trips(E) : Rank(E, t.origin) = k - 1
    BY DEF SpanAt, Rank, Before
  <1> QED BY <1>1, <1>2

LEMMA SpanAtIs ==
  ASSUME NEW E, IsSequence(E), NEW k \in 1..Cardinality(Trips(E))
  PROVE  SpanAt(E, k) \in Trips(E) /\ Rank(E, SpanAt(E, k).origin) = k - 1
PROOF
  <1> DEFINE n == Cardinality(Trips(E))
             f == [s \in Trips(E) |-> Rank(E, s.origin)]
  <1>1. IsFiniteSet(Trips(E)) /\ n \in Nat
    BY TripsFinite
  <1>2. IsFiniteSet(0..n - 1) /\ Cardinality(0..n - 1) = n
    <2>1. n - 1 \in Int /\ (IF 0 > n - 1 THEN 0 ELSE n - 1 - 0 + 1) = n
      BY <1>1
    <2> HIDE DEF n
    <2> QED BY <2>1, FS_Interval
  <1>3. f \in Injection(Trips(E), 0..n - 1)
    <2>1. \A s \in Trips(E) : Rank(E, s.origin) \in 0..n - 1
      BY RankIs
    <2>2. ASSUME NEW s \in Trips(E), NEW t \in Trips(E), Rank(E, s.origin) = Rank(E, t.origin) PROVE s = t
      <3>1. ~(t.origin < s.origin) /\ ~(s.origin < t.origin)
        BY <2>1, <2>2, RankIs
      <3>2. t.origin \in Int /\ s.origin \in Int
        BY TripIs DEF SpanOver
      <3> QED BY <3>1, <3>2, TripsApart
    <2> HIDE DEF n
    <2> QED BY <2>1, <2>2 DEF Injection, IsInjective
  <1>4. f \in Surjection(Trips(E), 0..n - 1)
    <2> HIDE DEF f
    <2> QED BY <1>2, <1>3, FS_Injection
  <1>5. \E s \in Trips(E) : Rank(E, s.origin) = k - 1
    <2>1. k - 1 \in 0..n - 1
      BY <1>1
    <2> HIDE DEF n
    <2> QED BY <1>4, <2>1 DEF Surjection
  <1>6. SpanAt(E, k) = CHOOSE t \in Trips(E) : Rank(E, t.origin) = k - 1
    BY DEF SpanAt, Rank, Before
  <1> QED BY <1>5, <1>6

-----------------------------------------------------------------------------
(* A trip is replaced.                                                      *)

\* F is E with x in place of what is between o and d.
IsReplaced(F, E, o, d, x) ==
  /\ IsSequence(F) /\ Len(F) = Len(E) - (d - o - 1) + Len(x)
  /\ \A i \in 1..o : F[i] = E[i]
  /\ \A i \in 1..Len(x) : F[o + i] = x[i]
  /\ \A i \in d..Len(E) : F[i - d + o + Len(x) + 1] = E[i]

\* c is s, then r.
IsCat(c, s, r) ==
  /\ Len(c) = Len(s) + Len(r)
  /\ \A i \in 1..Len(c) : c[i] = IF i <= Len(s) THEN s[i] ELSE r[i - Len(s)]

LEMMA BothIs ==
  ASSUME NEW S, NEW s \in Seq(S), NEW r \in Seq(S), NEW c, c = s \o r
  PROVE  c \in Seq(S) /\ IsCat(c, s, r)
  BY CatIs DEF IsCat

LEMMA ReplacedIs ==
  ASSUME NEW E, IsSequence(E), NEW o \in 1..Len(E), NEW d \in 1..Len(E), o < d, NEW x, IsSequence(x)
  PROVE  IsReplaced(ReplaceTripElements(E, Span(o, d), x), E, o, d, x)
PROOF
  <1> DEFINE S == {E[i] : i \in 1..Len(E)} \cup {x[i] : i \in 1..Len(x)}
             n == Len(E)
             m == Len(x)
             a == SubSeq(E, 1, o)
             b == SubSeq(E, d, n)
             F == ReplaceTripElements(E, Span(o, d), x)
  <1>1. E \in Seq(S) /\ x \in Seq(S)
    BY DEF IsSequence
  <1>2. n \in Nat /\ m \in Nat /\ o \in Nat /\ d \in Nat
    BY <1>1
  <1>3. F = (a \o x) \o b
    BY DEF ReplaceTripElements, Span
  <1> HIDE DEF S
  <1>4. a \in Seq(S) /\ Len(a) = o /\ \A i \in 1..o : a[i] = E[i]
    BY <1>1
  <1>5. b \in Seq(S) /\ Len(b) = n - d + 1 /\ \A i \in 1..n - d + 1 : b[i] = E[d + i - 1]
    <2>1. d - 1 \in 0..Len(E) /\ (d - 1) + 1 = d /\ n - (d - 1) = n - d + 1
      BY <1>1
    <2>2. /\ SubSeq(E, (d - 1) + 1, Len(E)) \in Seq(S)
          /\ Len(SubSeq(E, (d - 1) + 1, Len(E))) = Len(E) - (d - 1)
          /\ \A i \in 1..(Len(E) - (d - 1)) : SubSeq(E, (d - 1) + 1, Len(E))[i] = E[(d - 1) + i]
      BY <1>1, <2>1, SuffixIs
    <2>3. \A i \in 1..n - d + 1 : (d - 1) + i = d + i - 1
      BY <1>2
    <2> QED BY <2>1, <2>2, <2>3
  <1> HIDE DEF a, b
  <1> DEFINE c == a \o x
  <1>6. c \in Seq(S) /\ IsCat(c, a, x)
    <2>1. a \in Seq(S) /\ x \in Seq(S) /\ c = a \o x
      BY <1>1, <1>4
    <2> HIDE DEF c
    <2> QED BY <2>1, BothIs
  <1> HIDE DEF c
  <1>7. F \in Seq(S) /\ IsCat(F, c, b)
    <2>1. c \in Seq(S) /\ b \in Seq(S) /\ F = c \o b
      BY <1>3, <1>5, <1>6 DEF c
    <2> HIDE DEF F
    <2> QED BY <2>1, BothIs
  <1>8. Len(c) = o + m /\ \A i \in 1..o + m : c[i] = IF i <= o THEN a[i] ELSE x[i - o]
    BY <1>4, <1>6 DEF IsCat
  <1>9. /\ Len(F) = o + m + (n - d + 1)
        /\ \A i \in 1..o + m + (n - d + 1) : F[i] = IF i <= o + m THEN c[i] ELSE b[i - (o + m)]
    BY <1>5, <1>7, <1>8 DEF IsCat
  <1> HIDE DEF n, m, F
  <1>10. F \in Seq(S) /\ Len(F) = n - (d - o - 1) + m
    BY <1>2, <1>7, <1>9
  <1>12. o \in 1..n /\ d \in 1..n
    BY DEF n
  <1>13. ASSUME NEW i \in 1..o PROVE F[i] = E[i]
    <2>1. i \in 1..o + m + (n - d + 1) /\ i <= o + m /\ i <= o /\ i \in 1..o + m
      BY <1>2, <1>12
    <2> QED BY <1>4, <1>8, <1>9, <2>1
  <1>14. ASSUME NEW i \in 1..m PROVE F[o + i] = x[i]
    <2>1. /\ o + i \in 1..o + m + (n - d + 1) /\ o + i <= o + m /\ ~(o + i <= o)
          /\ o + i \in 1..o + m /\ (o + i) - o = i
      BY <1>2, <1>12
    <2> QED BY <1>8, <1>9, <2>1
  <1>15. ASSUME NEW i \in d..n PROVE F[i - d + o + m + 1] = E[i]
    <2> DEFINE k == i - d + o + m + 1
    <2>1. /\ k \in 1..o + m + (n - d + 1) /\ ~(k <= o + m)
          /\ k - (o + m) \in 1..n - d + 1 /\ d + (k - (o + m)) - 1 = i
      BY <1>2, <1>12
    <2> HIDE DEF k
    <2>2. F[k] = E[i]
      BY <1>5, <1>9, <2>1
    <2> QED BY <2>2 DEF k
  <1>16. IsSequence(F)
    BY <1>10, SequenceOf
  <1> QED BY <1>10, <1>13, <1>14, <1>15, <1>16 DEF IsReplaced, n, m, F

\* What is between o and d.
LEMMA TripElementsIs ==
  ASSUME NEW E, IsSequence(E), NEW o \in 1..Len(E), NEW d \in 1..Len(E), o < d
  PROVE  LET x == TripElements(E, Span(o, d)) IN
           IsSequence(x) /\ Len(x) = d - o - 1 /\ \A i \in 1..d - o - 1 : x[i] = E[o + i]
PROOF
  <1> DEFINE S == {E[i] : i \in 1..Len(E)}
             x == SubSeq(E, o + 1, d - 1)
  <1>1. E \in Seq(S) /\ Len(E) \in Nat
    BY DEF IsSequence
  <1>2. TripElements(E, Span(o, d)) = x
    BY DEF TripElements, Span
  <1> HIDE DEF S
  <1>3. \A i \in 1..d - o - 1 : o + i \in 1..Len(E) /\ (o + 1) + i - 1 = o + i
    BY <1>1
  <1>4. x \in Seq(S) /\ Len(x) = d - o - 1 /\ \A i \in 1..d - o - 1 : x[i] = E[o + i]
    BY <1>1, <1>3
  <1> QED BY <1>2, <1>4, SequenceOf

\* The other way round: E is F with what it has had.
LEMMA ReplacedBack ==
  ASSUME NEW E, IsSequence(E), NEW o \in 1..Len(E), NEW d \in 1..Len(E), o < d,
         NEW x, IsSequence(x), NEW F, IsReplaced(F, E, o, d, x)
  PROVE  LET e == o + Len(x) + 1 IN
           /\ IsReplaced(E, F, o, e, TripElements(E, Span(o, d)))
           /\ o \in 1..Len(F) /\ e \in 1..Len(F) /\ o < e
           /\ TripElements(F, Span(o, e)) = x
PROOF
  <1> DEFINE e == o + Len(x) + 1
             y == TripElements(E, Span(o, d))
  <1>1. Len(E) \in Nat /\ Len(x) \in Nat /\ o \in Nat /\ d \in Nat /\ o <= Len(E) /\ d <= Len(E)
    BY DEF IsSequence
  <1>2. IsSequence(y) /\ Len(y) = d - o - 1 /\ \A i \in 1..d - o - 1 : y[i] = E[o + i]
    BY TripElementsIs
  <1>3. /\ IsSequence(F) /\ Len(F) = Len(E) - (d - o - 1) + Len(x)
        /\ \A i \in 1..o : F[i] = E[i]
        /\ \A i \in 1..Len(x) : F[o + i] = x[i]
        /\ \A i \in d..Len(E) : F[i - d + o + Len(x) + 1] = E[i]
    BY DEF IsReplaced
  <1>4. o \in 1..Len(F) /\ e \in 1..Len(F) /\ o < e /\ e \in Nat
    BY <1>1, <1>3
  <1> HIDE DEF y
  <1>5. IsReplaced(E, F, o, e, y)
    <2>1. Len(E) = Len(F) - (e - o - 1) + Len(y)
      BY <1>1, <1>2, <1>3
    <2>2. ASSUME NEW i \in e..Len(F) PROVE E[i - e + o + Len(y) + 1] = F[i]
      <3> DEFINE k == i - e + o + Len(y) + 1
      <3>1. k \in d..Len(E) /\ k - d + o + Len(x) + 1 = i
        BY <1>1, <1>2, <1>3
      <3> HIDE DEF k
      <3>2. E[k] = F[i]
        BY <1>3, <3>1
      <3> QED BY <3>2 DEF k
    <2> HIDE DEF e
    <2> QED BY <1>2, <1>3, <2>1, <2>2 DEF IsReplaced
  <1>6. TripElements(F, Span(o, e)) = x
    <2> DEFINE z == TripElements(F, Span(o, e))
               S == {x[i] : i \in 1..Len(x)}
    <2>1. IsSequence(z) /\ Len(z) = e - o - 1 /\ \A i \in 1..e - o - 1 : z[i] = F[o + i]
      <3>1. IsSequence(F) /\ o \in 1..Len(F) /\ e \in 1..Len(F) /\ o < e
        BY <1>3, <1>4
      <3> HIDE DEF e
      <3> QED BY <3>1, TripElementsIs
    <2>2. e - o - 1 = Len(x)
      BY <1>1
    <2> HIDE DEF z, e
    <2>3. Len(z) = Len(x) /\ \A i \in 1..Len(x) : z[i] = x[i]
      BY <1>3, <2>1, <2>2
    <2>4. z = [i \in 1..Len(x) |-> z[i]] /\ x = [i \in 1..Len(x) |-> x[i]]
      BY <2>1, <2>3 DEF IsSequence
    <2>5. z = x
      BY <2>3, <2>4
    <2> QED BY <2>5 DEF z
  <1> QED BY <1>4, <1>5, <1>6 DEF y

NoMains(x) == \A i \in 1..Len(x) : ~IsMain(x[i])

\* The main activities are where they were, or as far from the end as they were.
LEMMA MainsReplaced ==
  ASSUME NEW E, IsSequence(E), NEW o \in 1..Len(E), NEW d \in 1..Len(E), o < d,
         NEW x, IsSequence(x), NoMains(x), NEW F, IsReplaced(F, E, o, d, x)
  PROVE  LET shift == o + Len(x) + 1 - d IN
           /\ \A i \in d..Len(E) : i + shift \in 1..Len(F) /\ F[i + shift] = E[i]
           /\ \A k \in 1..Len(F) : IsMain(F[k]) =>
                \/ k <= o /\ IsMain(E[k])
                \/ k - shift \in d..Len(E) /\ IsMain(E[k - shift])
PROOF
  <1> DEFINE shift == o + Len(x) + 1 - d
  <1>1. /\ Len(E) \in Nat /\ Len(x) \in Nat /\ o \in Nat /\ d \in Nat /\ o <= Len(E) /\ d <= Len(E)
        /\ Len(F) = Len(E) - (d - o - 1) + Len(x)
    <2>1. Len(E) \in Nat /\ Len(x) \in Nat
      BY DEF IsSequence
    <2>2. Len(F) = Len(E) - (d - o - 1) + Len(x)
      BY DEF IsReplaced
    <2> QED BY <2>1, <2>2
  <1>2. ASSUME NEW i \in d..Len(E) PROVE i + shift \in 1..Len(F) /\ F[i + shift] = E[i]
    <2>1. i + shift = i - d + o + Len(x) + 1 /\ i + shift \in 1..Len(F)
      BY <1>1
    <2>2. F[i - d + o + Len(x) + 1] = E[i]
      BY DEF IsReplaced
    <2> QED BY <2>1, <2>2
  <1>3. ASSUME NEW k \in 1..Len(F), IsMain(F[k])
        PROVE  \/ k <= o /\ IsMain(E[k])
               \/ k - shift \in d..Len(E) /\ IsMain(E[k - shift])
    <2>1. CASE k <= o
      <3>1. F[k] = E[k]
        BY <2>1 DEF IsReplaced
      <3> QED BY <1>3, <2>1, <3>1
    <2>2. CASE k > o /\ k <= o + Len(x)
      <3>1. k - o \in 1..Len(x) /\ o + (k - o) = k
        BY <1>1, <2>2
      <3>2. F[k] = x[k - o]
        BY <3>1 DEF IsReplaced
      <3> QED BY <1>3, <3>1, <3>2 DEF NoMains
    <2>3. CASE k > o + Len(x)
      <3> DEFINE i == k - shift
      <3>1. i \in d..Len(E) /\ i + shift = k
        BY <1>1, <2>3
      <3>2. F[k] = E[i]
        BY <1>2, <3>1
      <3> QED BY <1>3, <3>1, <3>2
    <2> QED BY <1>1, <2>1, <2>2, <2>3
  <1> QED BY <1>2, <1>3

\* Every trip of E has one in F, and the trip that is replaced the new one.
LEMMA TripsReplaced ==
  ASSUME NEW E, IsSequence(E), NEW o, NEW d, SpanOver(E, o, d),
         NEW x, IsSequence(x), NoMains(x), Len(x) > 0, NEW F, IsReplaced(F, E, o, d, x)
  PROVE  /\ SpanOver(F, o, o + Len(x) + 1)
         /\ Cardinality(Trips(E)) <= Cardinality(Trips(F))
PROOF
  <1> DEFINE shift == o + Len(x) + 1 - d
             At(i) == IF i <= o THEN i ELSE i + shift
             f == [s \in Trips(E) |-> Span(At(s.origin), At(s.destination))]
  <1>1. /\ Len(E) \in Nat /\ Len(x) \in Nat /\ o \in Nat /\ d \in Nat /\ o <= Len(E) /\ d <= Len(E)
        /\ o \in 1..Len(E) /\ d \in 1..Len(E) /\ d - o > 1
        /\ Len(F) = Len(E) - (d - o - 1) + Len(x) /\ IsSequence(F) /\ shift \in Int
    <2>1. Len(E) \in Nat /\ Len(x) \in Nat
      BY DEF IsSequence
    <2>2. o \in 1..Len(E) /\ d \in 1..Len(E) /\ d - o > 1
      BY DEF SpanOver
    <2>3. Len(F) = Len(E) - (d - o - 1) + Len(x) /\ IsSequence(F)
      BY DEF IsReplaced
    <2> QED BY <2>1, <2>2, <2>3
  <1>2. /\ \A i \in d..Len(E) : i + shift \in 1..Len(F) /\ F[i + shift] = E[i]
        /\ \A k \in 1..Len(F) : IsMain(F[k]) =>
             \/ k <= o /\ IsMain(E[k])
             \/ k - shift \in d..Len(E) /\ IsMain(E[k - shift])
    BY <1>1, MainsReplaced
  <1>3. \A i \in 1..o : i \in 1..Len(F) /\ F[i] = E[i]
    BY <1>1 DEF IsReplaced
  <1>4. d + shift = o + Len(x) + 1
    BY <1>1
  <1> HIDE DEF shift
  <1>5. ASSUME NEW i \in 1..Len(E), IsMain(E[i])
        PROVE  At(i) \in 1..Len(F) /\ IsMain(F[At(i)]) /\ (i <= o \/ i >= d)
    <2>1. i <= o \/ i >= d
      BY <1>5 DEF SpanOver
    <2> QED BY <1>1, <1>2, <1>3, <1>5, <2>1
  <1>6. ASSUME NEW p, NEW q, SpanOver(E, p, q) PROVE SpanOver(F, At(p), At(q))
    <2>1. /\ p \in 1..Len(E) /\ q \in 1..Len(E) /\ IsMain(E[p]) /\ IsMain(E[q]) /\ q - p > 1
          /\ \A k \in 1..Len(E) : IsMain(E[k]) => k <= p \/ k >= q
      BY <1>6 DEF SpanOver
    <2>2. /\ At(p) \in 1..Len(F) /\ IsMain(F[At(p)]) /\ (p <= o \/ p >= d)
          /\ At(q) \in 1..Len(F) /\ IsMain(F[At(q)]) /\ (q <= o \/ q >= d)
      BY <1>5, <2>1
    <2>3. At(q) - At(p) > 1
      <3>1. p >= d => At(p) = p + shift /\ At(q) = q + shift
        BY <1>1, <2>1
      <3>2. q <= o => At(p) = p /\ At(q) = q
        BY <1>1, <2>1
      <3>3. p <= o /\ q >= d => At(p) = p /\ At(q) = q + shift
        BY <1>1, <2>1
      <3>4. p <= o /\ q >= d => p = o /\ q = d
        <4>1. IsMain(E[o]) /\ IsMain(E[d]) /\ \A k \in 1..Len(E) : IsMain(E[k]) => k <= o \/ k >= d
          BY DEF SpanOver
        <4> QED BY <1>1, <2>1, <4>1
      <3> QED BY <1>1, <1>4, <2>1, <2>2, <3>1, <3>2, <3>3, <3>4
    <2>4. ASSUME NEW k \in 1..Len(F), IsMain(F[k]) PROVE k <= At(p) \/ k >= At(q)
      <3>1. CASE k <= o /\ IsMain(E[k])
        <4>1. k <= p \/ k >= q
          BY <1>1, <2>1, <3>1
        <4>2. k <= p => k <= At(p)
          BY <1>1, <1>4, <2>1, <2>2, <3>1
        <4>3. k >= q => k >= At(q)
          BY <1>1, <2>1, <3>1
        <4> HIDE DEF At
        <4> QED BY <4>1, <4>2, <4>3
      <3>2. CASE k - shift \in d..Len(E) /\ IsMain(E[k - shift])
        <4>1. k - shift <= p \/ k - shift >= q
          BY <1>1, <2>1, <3>2
        <4> QED BY <1>1, <1>4, <2>1, <3>2, <4>1
      <3> QED BY <1>2, <2>4, <3>1, <3>2
    <2> HIDE DEF At
    <2> QED BY <2>2, <2>3, <2>4 DEF SpanOver
  <1>7. SpanOver(F, o, o + Len(x) + 1)
    <2>1. At(o) = o /\ At(d) = o + Len(x) + 1
      BY <1>1, <1>4
    <2> HIDE DEF At
    <2> QED BY <1>6, <2>1
  <1>8. f \in Injection(Trips(E), Trips(F))
    <2>1. ASSUME NEW s \in Trips(E) PROVE Span(At(s.origin), At(s.destination)) \in Trips(F)
      <3> HIDE DEF At
      <3> QED BY <1>1, <1>6, TripIs, SpanIsTrip
    <2>2. ASSUME NEW s \in Trips(E), NEW t \in Trips(E), At(s.origin) = At(t.origin) PROVE s = t
      <3>1. s.origin \in 1..Len(E) /\ t.origin \in 1..Len(E) /\ IsMain(E[s.origin]) /\ IsMain(E[t.origin])
        BY TripIs DEF SpanOver
      <3>2. (s.origin <= o \/ s.origin >= d) /\ (t.origin <= o \/ t.origin >= d)
        BY <3>1 DEF SpanOver
      <3>3. s.origin = t.origin
        BY <1>1, <1>4, <2>2, <3>1, <3>2
      <3> QED BY <3>3, TripsApart
    <2> HIDE DEF At
    <2>3. \A s, t \in Trips(E) : f[s] = f[t] => s = t
      BY <2>2 DEF Span
    <2>4. f \in [Trips(E) -> Trips(F)]
      BY <2>1
    <2> HIDE DEF f
    <2> QED BY <2>3, <2>4 DEF Injection, IsInjective
  <1>9. Cardinality(Trips(E)) <= Cardinality(Trips(F))
    <2>1. IsFiniteSet(Trips(F))
      BY <1>1, TripsFinite
    <2> HIDE DEF f
    <2> QED BY <1>8, <2>1, FS_Injection
  <1> QED BY <1>7, <1>9

\* There are as many trips as before.
LEMMA AsManyTrips ==
  ASSUME NEW E, IsSequence(E), NEW o, NEW d, SpanOver(E, o, d),
         NEW x, IsSequence(x), NoMains(x), Len(x) > 0, NEW F, IsReplaced(F, E, o, d, x)
  PROVE  Cardinality(Trips(F)) = Cardinality(Trips(E))
PROOF
  <1> DEFINE e == o + Len(x) + 1
             y == TripElements(E, Span(o, d))
  <1>1. o \in 1..Len(E) /\ d \in 1..Len(E) /\ o < d /\ o \in Nat /\ d \in Nat /\ d - o - 1 > 0
    <2>1. Len(E) \in Nat
      BY DEF IsSequence
    <2> QED BY <2>1 DEF SpanOver
  <1>2. IsSequence(y) /\ Len(y) = d - o - 1 /\ \A i \in 1..d - o - 1 : y[i] = E[o + i]
    BY <1>1, TripElementsIs
  <1>3. IsReplaced(E, F, o, e, y)
    BY <1>1, ReplacedBack
  <1>4. SpanOver(F, o, e) /\ Cardinality(Trips(E)) <= Cardinality(Trips(F))
    BY TripsReplaced
  <1>5. IsSequence(F) /\ Cardinality(Trips(E)) \in Nat /\ Cardinality(Trips(F)) \in Nat
    <2>1. IsSequence(F)
      BY DEF IsReplaced
    <2> QED BY <2>1, TripsFinite
  <1>6. NoMains(y)
    <2>1. ASSUME NEW i \in 1..d - o - 1 PROVE ~IsMain(E[o + i])
      <3>1. o + i \in 1..Len(E) /\ ~(o + i <= o) /\ ~(o + i >= d)
        BY <1>1
      <3> QED BY <3>1 DEF SpanOver
    <2> HIDE DEF y
    <2> QED BY <1>2, <2>1 DEF NoMains
  <1>7. Cardinality(Trips(F)) <= Cardinality(Trips(E))
    <2> HIDE DEF e, y
    <2>1. Len(y) > 0
      BY <1>1, <1>2
    <2> QED BY <1>2, <1>3, <1>4, <1>5, <1>6, <2>1, TripsReplaced
  <1> QED BY <1>4, <1>5, <1>7

\* What two plans have in common up to a main activity are also the trips.
LEMMA CommonTrips ==
  ASSUME NEW E, IsSequence(E), NEW F, IsSequence(F), NEW m \in 1..Len(E), m \in 1..Len(F),
         \A i \in 1..m : F[i] = E[i], IsMain(E[m])
  PROVE  /\ Before(F, m) = Before(E, m) /\ Rank(F, m) = Rank(E, m)
         /\ \A s : s \in Trips(E) /\ s.destination <= m => s \in Trips(F)
PROOF
  <1>1. Len(E) \in Nat /\ Len(F) \in Nat
    BY DEF IsSequence
  <1>2. ASSUME NEW A, IsSequence(A), NEW B, IsSequence(B), m \in 1..Len(A), m \in 1..Len(B),
               \A i \in 1..m : B[i] = A[i],
               NEW s \in Trips(A), s.destination <= m
        PROVE  s \in Trips(B)
    <2> DEFINE o == s.origin
               d == s.destination
    <2>1. s = Span(o, d) /\ SpanOver(A, o, d)
      BY <1>2, TripIs
    <2>2. o \in 1..m /\ d \in 1..m /\ d - o > 1 /\ Len(A) \in Nat /\ Len(B) \in Nat
      <3>1. Len(A) \in Nat /\ Len(B) \in Nat
        BY <1>2, LengthIs
      <3> QED BY <1>2, <2>1, <3>1 DEF SpanOver
    <2> HIDE DEF o, d
    <2>3. IsMain(B[o]) /\ IsMain(B[d])
      BY <1>2, <2>1, <2>2 DEF SpanOver
    <2>4. ASSUME NEW k \in 1..Len(B), IsMain(B[k]) PROVE k <= o \/ k >= d
      <3>1. CASE k <= m
        <4>1. k \in 1..Len(A) /\ IsMain(A[k])
          BY <1>2, <2>2, <2>4, <3>1
        <4> QED BY <2>1, <4>1 DEF SpanOver
      <3>2. CASE k > m
        BY <2>2, <3>2
      <3> QED BY <2>2, <3>1, <3>2
    <2>5. SpanOver(B, o, d)
      <3>1. o \in 1..Len(B) /\ d \in 1..Len(B)
        BY <1>2, <2>2
      <3> QED BY <2>2, <2>3, <2>4, <3>1 DEF SpanOver
    <2> QED BY <1>2, <2>1, <2>5, SpanIsTrip
  <1>3. ASSUME NEW A, IsSequence(A), m \in 1..Len(A), IsMain(A[m]), NEW s \in Trips(A), s.origin < m
        PROVE  s.destination <= m
    <2>1. SpanOver(A, s.origin, s.destination) /\ Len(A) \in Nat
      BY <1>3, TripIs, LengthIs
    <2> QED BY <1>3, <2>1 DEF SpanOver
  <1>4. IsMain(F[m])
    <2>1. m \in 1..m
      BY <1>1
    <2> QED BY <2>1
  <1>5. Before(F, m) \subseteq Before(E, m)
    <2> SUFFICES ASSUME NEW s \in Trips(F), s.origin < m PROVE s \in Trips(E)
      BY DEF Before
    <2>1. s.destination <= m
      BY <1>3, <1>4
    <2>2. \A i \in 1..m : E[i] = F[i]
      OBVIOUS
    <2> QED BY <1>2, <2>1, <2>2
  <1>6. Before(E, m) \subseteq Before(F, m)
    <2> SUFFICES ASSUME NEW s \in Trips(E), s.origin < m PROVE s \in Trips(F)
      BY DEF Before
    <2>1. s.destination <= m
      BY <1>3
    <2> QED BY <1>2, <2>1
  <1>7. \A s : s \in Trips(E) /\ s.destination <= m => s \in Trips(F)
    BY <1>2
  <1> QED BY <1>5, <1>6, <1>7 DEF Rank

\* A trip replaced by itself.
LEMMA SameReplaced ==
  ASSUME NEW E, IsSequence(E), NEW o \in 1..Len(E), NEW d \in 1..Len(E), o < d
  PROVE  ReplaceTripElements(E, Span(o, d), TripElements(E, Span(o, d))) = E
PROOF
  <1> DEFINE x == TripElements(E, Span(o, d))
             F == ReplaceTripElements(E, Span(o, d), x)
  <1>1. IsSequence(x) /\ Len(x) = d - o - 1 /\ \A i \in 1..d - o - 1 : x[i] = E[o + i]
    BY TripElementsIs
  <1> HIDE DEF x
  <1>2. IsReplaced(F, E, o, d, x)
    BY <1>1, ReplacedIs
  <1> HIDE DEF F
  <1>3. Len(E) \in Nat /\ o \in Nat /\ d \in Nat /\ o <= Len(E) /\ d <= Len(E)
    BY LengthIs
  <1>4. /\ IsSequence(F) /\ Len(F) = Len(E)
        /\ \A i \in 1..o : F[i] = E[i]
        /\ \A i \in 1..d - o - 1 : F[o + i] = x[i]
        /\ \A i \in d..Len(E) : F[i - d + o + Len(x) + 1] = E[i]
    BY <1>1, <1>2, <1>3 DEF IsReplaced
  <1>5. ASSUME NEW i \in 1..Len(E) PROVE F[i] = E[i]
    <2>1. CASE i <= o
      BY <1>4, <2>1
    <2>2. CASE i > o /\ i < d
      <3>1. i - o \in 1..d - o - 1 /\ o + (i - o) = i
        BY <1>3, <2>2
      <3>2. F[o + (i - o)] = x[i - o] /\ x[i - o] = E[o + (i - o)]
        BY <1>1, <1>4, <3>1
      <3> QED BY <3>1, <3>2
    <2>3. CASE i >= d
      <3>1. i \in d..Len(E) /\ i - d + o + Len(x) + 1 = i
        BY <1>1, <1>3, <2>3
      <3>2. F[i - d + o + Len(x) + 1] = E[i]
        BY <1>4, <3>1
      <3> QED BY <3>1, <3>2
    <2> QED BY <1>3, <2>1, <2>2, <2>3
  <1>6. F = [i \in 1..Len(F) |-> F[i]] /\ E = [i \in 1..Len(E) |-> E[i]]
    BY <1>4, LengthIs
  <1>7. F = E
    BY <1>4, <1>5, <1>6
  <1> QED BY <1>7 DEF F, x

-----------------------------------------------------------------------------
(* What the router gives for a trip, it gives again.                        *)

\* Mode and vehicle of a trip as the router has made it.
LEMMA ModeAgain ==
  ASSUME NEW x, NEW mode, mode # "none", NEW veh, RoutedTrip(x, mode, veh)
  PROVE  ResolveMainMode(LegsOf(x)) = [ok |-> TRUE, mode |-> mode]
PROOF
  <1> DEFINE legs == LegsOf(x)
             modes == {legs[i].rmode : i \in DOMAIN legs} \ {"none"}
  <1>1. \E n \in {1, 3} : /\ legs = [i \in 1..n |-> legs[i]] /\ Len(legs) = n
                          /\ \A i \in 1..n : legs[i].rmode = mode
    <2>1. CASE IsNetworkMode(mode)
      <3>1. NetworkTrip(x, mode, veh)
        BY <2>1 DEF RoutedTrip
      <3>2. /\ legs = [i \in 1..3 |-> legs[i]] /\ Len(legs) = 3
            /\ legs[1] = x[1] /\ legs[2] = x[3] /\ legs[3] = x[5]
        BY <3>1, LegsOfNetworkTrip
      <3>3. x[1].rmode = mode /\ x[3].rmode = mode /\ x[5].rmode = mode
        BY <3>1 DEF NetworkTrip
      <3> HIDE DEF legs
      <3>4. \A i \in 1..3 : legs[i].rmode = mode
        BY <3>2, <3>3
      <3> QED BY <3>2, <3>4
    <2>2. CASE ~IsNetworkMode(mode)
      <3>1. TeleportTrip(x, mode)
        BY <2>2 DEF RoutedTrip
      <3>2. legs = x /\ Len(x) = 1 /\ x = [i \in 1..1 |-> x[i]] /\ x[1].rmode = mode
        BY <3>1, LegsOfTeleportTrip DEF TeleportTrip
      <3> HIDE DEF legs
      <3>3. \A i \in 1..1 : legs[i].rmode = mode
        BY <3>2
      <3> QED BY <3>2, <3>3
    <2> QED BY <2>1, <2>2
  <1> HIDE DEF legs
  <1>2. DOMAIN legs # {} /\ 1 \in DOMAIN legs /\ \A i \in DOMAIN legs : legs[i].rmode = mode
    BY <1>1
  <1>3. modes = {mode} /\ legs # <<>>
    <2>1. legs # <<>>
      BY <1>1
    <2> QED BY <1>2, <2>1
  <1>4. Cardinality(modes) = 1 /\ (CHOOSE m \in modes : TRUE) = mode
    BY <1>3, FS_Singleton
  <1> HIDE DEF modes
  <1>5. ResolveMainMode(legs) =
          CASE legs = <<>> -> Failed("NoLegs")
            [] legs # <<>> /\ Cardinality(modes) = 1 -> [ok |-> TRUE, mode |-> CHOOSE m \in modes : TRUE]
            [] Len(legs) = 1 /\ modes = {} -> [ok |-> TRUE, mode |-> legs[1].mode]
            [] OTHER -> Failed("AmbiguousMainMode")
    BY DEF ResolveMainMode, modes
  <1>6. modes # {}
    BY <1>3
  <1>7. ResolveMainMode(legs) = [ok |-> TRUE, mode |-> CHOOSE m \in modes : TRUE]
    BY <1>3, <1>4, <1>5, <1>6
  <1> QED BY <1>4, <1>7 DEF legs

\* vehicle_for_trip finds a vehicle that is there.
LEMMA VehicleIs ==
  ASSUME NEW p, NEW legs, IsSequence(legs), NEW mode, IsNetworkMode(mode), NEW g,
         VehicleForTrip(p, legs, mode, g).ok
  PROVE  LET vehicle == VehicleForTrip(p, legs, mode, g) IN
           vehicle = [ok |-> TRUE, veh |-> vehicle.veh] /\ vehicle.veh \in g
PROOF
  <1> DEFINE first == VehicleForTrip(p, legs, mode, g)
             own == {i \in DOMAIN legs : /\ legs[i].mode = mode /\ legs[i].route.type = "links"
                                         /\ legs[i].route.veh \in g}
             least == CHOOSE i \in own : \A k \in own : i <= k
  <1>1. /\ own # {} => first = [ok |-> TRUE, veh |-> legs[least].route.veh]
        /\ own = {} => first = IF DefaultVehicle(p, mode) \in g THEN [ok |-> TRUE, veh |-> DefaultVehicle(p, mode)]
                               ELSE Failed("MissingVehicle")
    BY DEF VehicleForTrip
  <1>2. CASE own # {}
    <2>1. own \subseteq Nat
      BY LengthIs
    <2>2. \E i \in own : \A k \in own : i <= k
      <3> HIDE DEF own
      <3> QED BY <1>2, <2>1, LeastNumber
    <2>3. least \in own
      BY <2>2
    <2> HIDE DEF first, least
    <2> QED BY <1>1, <1>2, <2>3 DEF first
  <1>3. CASE own = {}
    <2>1. first.ok
      OBVIOUS
    <2> HIDE DEF first, own
    <2> QED BY <1>1, <1>3, <2>1 DEF Failed, first
  <1> QED BY <1>2, <1>3

LEMMA VehicleAgain ==
  ASSUME NEW p, NEW legs, IsSequence(legs), NEW mode, NEW g, NEW x,
         VehicleForTrip(p, legs, mode, g).ok,
         RoutedTrip(x, mode, VehicleForTrip(p, legs, mode, g).veh)
  PROVE  VehicleForTrip(p, LegsOf(x), mode, g) = VehicleForTrip(p, legs, mode, g)
PROOF
  <1> DEFINE first == VehicleForTrip(p, legs, mode, g)
             own(l) == {i \in DOMAIN l : /\ l[i].mode = mode /\ l[i].route.type = "links"
                                         /\ l[i].route.veh \in g}
             Least(T) == CHOOSE i \in T : \A k \in T : i <= k
  <1>1. ASSUME NEW l
        PROVE  /\ ~IsNetworkMode(mode) => VehicleForTrip(p, l, mode, g) = [ok |-> TRUE, veh |-> NoVehicle]
               /\ IsNetworkMode(mode) /\ own(l) # {} =>
                    VehicleForTrip(p, l, mode, g) = [ok |-> TRUE, veh |-> l[Least(own(l))].route.veh]
               /\ IsNetworkMode(mode) /\ own(l) = {} =>
                    VehicleForTrip(p, l, mode, g) =
                      IF DefaultVehicle(p, mode) \in g THEN [ok |-> TRUE, veh |-> DefaultVehicle(p, mode)]
                      ELSE Failed("MissingVehicle")
    BY DEF VehicleForTrip
  <1>2. CASE ~IsNetworkMode(mode)
    BY <1>1, <1>2
  <1>3. CASE IsNetworkMode(mode)
    <2>1. first = [ok |-> TRUE, veh |-> first.veh] /\ first.veh \in g
      BY <1>3, VehicleIs
    <2> DEFINE new == LegsOf(x)
    <2>2. NetworkTrip(x, mode, first.veh)
      BY <1>3 DEF RoutedTrip
    <2>3. /\ new = [i \in 1..3 |-> new[i]]
          /\ new[1] = x[1] /\ new[2] = x[3] /\ new[3] = x[5]
      BY <2>2, LegsOfNetworkTrip
    <2>4. /\ x[1].route.type = "generic" /\ x[5].route.type = "generic"
          /\ x[3].mode = mode /\ x[3].route.type = "links" /\ x[3].route.veh = first.veh
      BY <2>2 DEF NetworkTrip
    <2> HIDE DEF first, new
    <2>5. own(new) = {2}
      <3>1. DOMAIN new = 1..3
        BY <2>3
      <3>2. 2 \in own(new)
        BY <2>1, <2>3, <2>4, <3>1
      <3>3. \A i \in own(new) : i = 2
        BY <2>3, <2>4, <3>1
      <3> QED BY <3>2, <3>3
    <2>6. Least(own(new)) = 2
      BY <2>5
    <2>7. VehicleForTrip(p, new, mode, g) = [ok |-> TRUE, veh |-> new[2].route.veh]
      BY <1>1, <1>3, <2>5, <2>6
    <2>8. new[2].route.veh = first.veh
      BY <2>3, <2>4
    <2> QED BY <2>1, <2>7, <2>8 DEF first, new
  <1> QED BY <1>2, <1>3

\* The trip x from a to b, with the departure dep, stays as it is: it is valid, or it is what
\* the router gives for it.
Request(a, b, dep, veh) == [from |-> FacilityOf(a), to |-> FacilityOf(b), dep |-> dep, veh |-> veh]
StaysAs(p, x, a, b, dep, g) ==
  LET main == ResolveMainMode(LegsOf(x))
      vehicle == VehicleForTrip(p, LegsOf(x), main.mode, g)
  IN /\ main.ok
     /\ \/ TripIsValid(x, LegsOf(x), main.mode)
        \/ /\ dep # None /\ vehicle.ok
           /\ CalcRoute(main.mode, Request(a, b, dep, vehicle.veh)) = Routed(x)
Stays(p, E, s, g) ==
  StaysAs(p, TripElements(E, s), E[s.origin], E[s.destination], DepartureTime(E, s), g)

\* Elements whose activities have their coordinates.
IsPlaced(e) == IsElement(e) /\ (e.kind = "act" => e.coord # None)
Placed(E) == IsSequence(E) /\ \A i \in 1..Len(E) : IsPlaced(E[i])

Adapted(p, E, s, g) ==
  LET legs == LegsOf(TripElements(E, s)) IN AssessTrip(p, E, s, legs, ResolveMainMode(legs), g)

\* A trip that stays as it is stays.
LEMMA StaysIs ==
  ASSUME NEW p, NEW E, IsSequence(E), NEW o, NEW d, SpanOver(E, o, d), NEW g, Stays(p, E, Span(o, d), g)
  PROVE  Adapted(p, E, Span(o, d), g) = Routed(E)
PROOF
  <1> DEFINE s == Span(o, d)
             x == TripElements(E, s)
             legs == LegsOf(x)
             main == ResolveMainMode(legs)
             vehicle == VehicleForTrip(p, legs, main.mode, g)
             dep == DepartureTime(E, s)
  <1>1. s.origin = o /\ s.destination = d
    BY DEF Span
  <1>2. /\ main.ok
        /\ \/ TripIsValid(x, legs, main.mode)
           \/ /\ dep # None /\ vehicle.ok
              /\ CalcRoute(main.mode, Request(E[o], E[d], dep, vehicle.veh)) = Routed(x)
    BY <1>1 DEF Stays, StaysAs
  <1>3. Adapted(p, E, s, g) = AssessTrip(p, E, s, legs, main, g)
    BY DEF Adapted
  <1>4. ReplaceTripElements(E, s, x) = E
    <2>1. o \in 1..Len(E) /\ d \in 1..Len(E) /\ o < d
      <3>1. Len(E) \in Nat
        BY LengthIs
      <3> QED BY <3>1 DEF SpanOver
    <2> QED BY <2>1, SameReplaced
  <1> HIDE DEF s, x, legs, main, vehicle, dep
  <1>5. TripIsValid(x, legs, main.mode) => Adapted(p, E, s, g) = Routed(E)
    BY <1>2, <1>3 DEF AssessTrip, x
  <1>6. ASSUME ~TripIsValid(x, legs, main.mode) PROVE Adapted(p, E, s, g) = Routed(E)
    <2>1. AssessTrip(p, E, s, legs, main, g) = RouteTrip(E, s, main.mode, dep, vehicle)
      BY <1>2, <1>6 DEF AssessTrip, x, dep, vehicle
    <2> DEFINE r == CalcRoute(main.mode, Request(E[o], E[d], dep, vehicle.veh))
    <2>2. RouteTrip(E, s, main.mode, dep, vehicle) = Replaced(E, s, r)
      BY <1>1, <1>2, <1>6 DEF RouteTrip, Request
    <2>3. r = Routed(x)
      BY <1>2, <1>6
    <2> HIDE DEF r
    <2>4. Replaced(E, s, r) = Routed(E)
      BY <1>4, <2>3 DEF Replaced, Routed
    <2> QED BY <1>3, <2>1, <2>2, <2>4
  <1> QED BY <1>5, <1>6 DEF s

\* What plans have in common up to the end of a trip is all that matters for the trip.
LEMMA StaysInCommon ==
  ASSUME NEW p, NEW E, NEW F, NEW o \in Nat, NEW d \in Nat, o > 0, o < d, NEW g,
         \A i \in 1..d : F[i] = E[i]
  PROVE  /\ TripElements(F, Span(o, d)) = TripElements(E, Span(o, d))
         /\ DepartureTime(F, Span(o, d)) = DepartureTime(E, Span(o, d))
         /\ Stays(p, F, Span(o, d), g) <=> Stays(p, E, Span(o, d), g)
PROOF
  <1> DEFINE s == Span(o, d)
  <1>1. s.origin = o /\ s.destination = d
    BY DEF Span
  <1>2. ASSUME NEW a \in Nat, NEW b \in Int, a > 0, b <= d PROVE SubSeq(F, a, b) = SubSeq(E, a, b)
    <2>1. \A i \in a..b : F[i] = E[i]
      BY <1>2
    <2>2. \A i \in 1..(1 + b - a) : F[a + i - 1] = E[a + i - 1]
      BY <1>2, <2>1
    <2>3. \A i \in 1..(1 + b - a) : F[i + a - 1] = E[i + a - 1]
      BY <1>2, <2>1
    <2> QED BY <1>2, <2>1, <2>2, <2>3
  <1>3. TripElements(F, s) = TripElements(E, s)
    BY <1>1, <1>2 DEF TripElements
  <1>4. SubSeq(F, 1, o) = SubSeq(E, 1, o)
    BY <1>2
  <1>5. DepartureTime(F, s) = DepartureTime(E, s)
    BY <1>1, <1>4 DEF DepartureTime
  <1>6. F[o] = E[o] /\ F[d] = E[d]
    BY <1>2
  <1> HIDE DEF s
  <1>7. Stays(p, F, s, g) <=> Stays(p, E, s, g)
    BY <1>1, <1>3, <1>5, <1>6 DEF Stays
  <1> QED BY <1>3, <1>5, <1>7 DEF s

LEMMA RoutedTripIs ==
  ASSUME NEW x, NEW mode, NEW veh, RoutedTrip(x, mode, veh)
  PROVE  IsSequence(x) /\ Len(x) > 0 /\ NoMains(x) /\ \A i \in 1..Len(x) : IsPlaced(x[i])
PROOF
  <1>1. ASSUME NEW e, IsLeg(e) PROVE ~IsMain(e) /\ IsPlaced(e)
    BY <1>1 DEF IsLeg, IsMain, IsPlaced, IsElement
  <1>2. ASSUME NEW e, IsStage(e) PROVE ~IsMain(e) /\ IsPlaced(e)
    BY <1>2 DEF IsStage, IsMain, IsPlaced, IsElement
  <1>3. ASSUME NEW n \in {1, 5}, x = [i \in 1..n |-> x[i]], \A i \in 1..n : ~IsMain(x[i]) /\ IsPlaced(x[i])
        PROVE  IsSequence(x) /\ Len(x) > 0 /\ NoMains(x) /\ \A i \in 1..Len(x) : IsPlaced(x[i])
    <2> DEFINE S == {x[i] : i \in 1..n}
    <2>1. \A i \in 1..n : x[i] \in S
      OBVIOUS
    <2> HIDE DEF S
    <2>2. x \in Seq(S) /\ Len(x) = n
      BY <1>3, <2>1
    <2>3. IsSequence(x)
      BY <2>2, SequenceOf
    <2> QED BY <1>3, <2>2, <2>3 DEF NoMains
  <1>4. CASE IsNetworkMode(mode)
    <2>1. NetworkTrip(x, mode, veh)
      BY <1>4 DEF RoutedTrip
    <2>2. /\ x = [i \in 1..5 |-> x[i]]
          /\ IsLeg(x[1]) /\ IsStage(x[2]) /\ IsLeg(x[3]) /\ IsStage(x[4]) /\ IsLeg(x[5])
      BY <2>1 DEF NetworkTrip
    <2>3. \A i \in 1..5 : IsLeg(x[i]) \/ IsStage(x[i])
      <3>1. \A i \in 1..5 : i = 1 \/ i = 2 \/ i = 3 \/ i = 4 \/ i = 5
        OBVIOUS
      <3> QED BY <2>2, <3>1
    <2> QED BY <1>1, <1>2, <1>3, <2>2, <2>3
  <1>5. CASE ~IsNetworkMode(mode)
    <2>1. TeleportTrip(x, mode)
      BY <1>5 DEF RoutedTrip
    <2>2. x = [i \in 1..1 |-> x[i]] /\ \A i \in 1..1 : IsLeg(x[i])
      BY <2>1 DEF TeleportTrip
    <2> QED BY <1>1, <1>3, <2>2
  <1> QED BY <1>4, <1>5

LEMMA CalcRouteOk ==
  ASSUME NEW mode, NEW req, CalcRoute(mode, req).ok
  PROVE  CalcRoute(mode, req) = Routed(CalcRoute(mode, req).elements)
PROOF
  <1>1. PICK given : CalcRoute(mode, req) = WithRoutingMode(given, mode)
    BY DEF CalcRoute
  <1>2. given.ok
    BY <1>1 DEF WithRoutingMode
  <1> QED BY <1>1, <1>2 DEF WithRoutingMode, Routed

\* The facility of a main activity of a plan.
LEMMA FacilityIs ==
  ASSUME NEW e, IsPlaced(e), IsMain(e)
  PROVE  IsFacility(FacilityOf(e))
PROOF
  <1>1. IsActivity(e) /\ e.coord # None
    BY DEF IsPlaced, IsMain, IsElement, IsLeg
  <1> QED BY <1>1 DEF IsActivity, IsFacility, FacilityOf, Facility

\* A leg in a main mode that has a route, and elements whose legs of that kind have one of
\* the vehicles g.
IsDriven(e) == e.kind = "leg" /\ e.mode \in MainModes /\ e.route # NoRoute
HasVehicle(e, g) == IsDriven(e) => "veh" \in DOMAIN e.route /\ e.route.veh \in g

\* What the router adds drives a vehicle of g if it drives, unless it walks to the network.
IsNew(e, g) == HasVehicle(e, g) \/ e.mode = AccessEgressMode

LEMMA RoutedTripNew ==
  ASSUME NEW x, NEW mode, NEW veh, RoutedTrip(x, mode, veh), NEW g, IsNetworkMode(mode) => veh \in g
  PROVE  \A i \in 1..Len(x) : IsNew(x[i], g)
PROOF
  <1>1. CASE IsNetworkMode(mode)
    <2>1. /\ Len(x) = 5 /\ IsStage(x[2]) /\ IsStage(x[4])
          /\ x[1].mode = AccessEgressMode /\ x[5].mode = AccessEgressMode
          /\ "veh" \in DOMAIN x[3].route /\ x[3].route.veh = veh
      BY <1>1 DEF RoutedTrip, NetworkTrip
    <2>2. \A i \in 1..5 : i = 1 \/ i = 2 \/ i = 3 \/ i = 4 \/ i = 5
      OBVIOUS
    <2>3. IsNew(x[2], g) /\ IsNew(x[4], g)
      BY <2>1 DEF IsNew, HasVehicle, IsDriven, IsStage, IsActivity
    <2>4. IsNew(x[3], g)
      BY <1>1, <2>1 DEF IsNew, HasVehicle
    <2>5. IsNew(x[1], g) /\ IsNew(x[5], g)
      BY <2>1 DEF IsNew
    <2> QED BY <2>1, <2>2, <2>3, <2>4, <2>5
  <1>2. CASE ~IsNetworkMode(mode)
    <2>1. Len(x) = 1 /\ x[1].mode = mode
      BY <1>2 DEF RoutedTrip, TeleportTrip
    <2>2. \A i \in 1..1 : i = 1
      OBVIOUS
    <2>3. IsNew(x[1], g)
      BY <1>2, <2>1 DEF IsNew, HasVehicle, IsDriven, IsNetworkMode
    <2> QED BY <2>1, <2>2, <2>3
  <1> QED BY <1>1, <1>2

-----------------------------------------------------------------------------
(* The main activities of a plan.                                           *)

\* The main activities, as the sequences of SequenceFacts.
LEMMA MainsAre ==
  ASSUME NEW S, NEW q \in Seq(S)
  PROVE  MainActivities(q) = Those(q, {x \in S : IsMain(x)})
PROOF
  <1> DEFINE n == Len(q)
             T == {x \in S : IsMain(x)}
             Def(f) == [i \in 0..n |-> IF i = 0 THEN <<>>
                          ELSE IF IsMain(q[i]) THEN Append(f[i - 1], q[i]) ELSE f[i - 1]]
             chosen == CHOOSE f : f = Def(f)
  <1>1. PICK g \in [0..n -> Seq(S)] : IsThose(g, q, T, n) /\ Those(q, T) = g[n]
    <2> HIDE DEF T
    <2> QED BY ThoseIs
  <1>2. n \in Nat /\ \A i \in 1..n : IsMain(q[i]) <=> q[i] \in T
    OBVIOUS
  <1> HIDE DEF T
  <1>3. \A i \in 0..n : g[i] = IF i = 0 THEN <<>>
                               ELSE IF IsMain(q[i]) THEN Append(g[i - 1], q[i]) ELSE g[i - 1]
    BY <1>1, <1>2 DEF IsThose
  <1>4. g = Def(g)
    BY <1>3
  <1>5. chosen = Def(chosen)
    <2> HIDE DEF Def
    <2> QED BY <1>4
  <1>6. MainActivities(q) = chosen[n]
    BY Zenon DEF MainActivities
  <1>7. \A i \in 0..n : chosen[i] = IF i = 0 THEN <<>>
          ELSE IF IsMain(q[i]) THEN Append(chosen[i - 1], q[i]) ELSE chosen[i - 1]
    <2> HIDE DEF chosen
    <2> QED BY <1>5
  <1> DEFINE P == {i \in 0..n : chosen[i] = g[i]}
  <1> HIDE DEF chosen
  <1>8. 0 \in P
    BY <1>2, <1>3, <1>7
  <1>9. ASSUME NEW i \in 1..n, i - 1 \in P PROVE i \in P
    <2>1. i \in 0..n /\ i # 0 /\ chosen[i - 1] = g[i - 1]
      BY <1>2, <1>9
    <2> QED BY <1>3, <1>7, <2>1
  <1>10. n \in P
    <2> HIDE DEF P, n
    <2>1. \A i \in 0..n : i \in P
      BY <1>2, <1>8, <1>9, UpTo
    <2> QED BY <1>2, <2>1
  <1> QED BY <1>1, <1>6, <1>10 DEF T

LEMMA CutAt ==
  ASSUME NEW S, NEW T, NEW u \in Seq(S), NEW v \in Seq(S)
  PROVE  Those(u \o v, T) = Those(u, T) \o Those(v, T)
  BY ThoseCat

\* A trip has no main activities: the plan with another trip instead has the same ones.
LEMMA MainsCut ==
  ASSUME NEW S, NEW E \in Seq(S), NEW o \in 1..Len(E), NEW d \in 1..Len(E),
         NEW x \in Seq(S), NoMains(x), NEW T, T = {e \in S : IsMain(e)}
  PROVE  /\ ReplaceTripElements(E, Span(o, d), x) \in Seq(S)
         /\ Those(ReplaceTripElements(E, Span(o, d), x), T) =
              Those(SubSeq(E, 1, o), T) \o Those(SubSeq(E, d, Len(E)), T)
PROOF
  <1> DEFINE a == SubSeq(E, 1, o)
             b == SubSeq(E, d, Len(E))
             F == ReplaceTripElements(E, Span(o, d), x)
  <1>1. a \in Seq(S) /\ b \in Seq(S)
    OBVIOUS
  <1>2. F = (a \o x) \o b
    BY DEF ReplaceTripElements, Span
  <1>3. RangeOf(x) \cap T = {}
    BY DEF NoMains, RangeOf
  <1> HIDE DEF a, b, F
  <1>4. a \o x \in Seq(S)
    BY <1>1
  <1>5. F \in Seq(S)
    BY <1>1, <1>2, <1>4
  <1>6. Those(x, T) = <<>>
    BY <1>3, ThoseNone
  <1>7. Those(a \o x, T) = Those(a, T) \o Those(x, T)
    BY <1>1, CutAt, Zenon
  <1>8. Those(F, T) = Those(a \o x, T) \o Those(b, T)
    BY <1>1, <1>2, <1>4, CutAt, Zenon
  <1>9. Those(a, T) \in Seq(S)
    BY <1>1, ThoseElements
  <1>10. Those(a, T) \o <<>> = Those(a, T)
    BY <1>9
  <1> QED BY <1>5, <1>6, <1>7, <1>8, <1>10 DEF a, b, F

LEMMA MainsCutAlike ==
  ASSUME NEW S, NEW E \in Seq(S), NEW o \in 1..Len(E), NEW d \in 1..Len(E),
         NEW x \in Seq(S), NoMains(x), NEW y \in Seq(S), NoMains(y)
  PROVE  MainActivities(ReplaceTripElements(E, Span(o, d), x)) = MainActivities(ReplaceTripElements(E, Span(o, d), y))
PROOF
  <1>1. PICK T : T = {e \in S : IsMain(e)}
    OBVIOUS
  <1> DEFINE F == ReplaceTripElements(E, Span(o, d), x)
             G == ReplaceTripElements(E, Span(o, d), y)
  <1>2. F \in Seq(S) /\ Those(F, T) = Those(SubSeq(E, 1, o), T) \o Those(SubSeq(E, d, Len(E)), T)
    BY <1>1, MainsCut
  <1>3. G \in Seq(S) /\ Those(G, T) = Those(SubSeq(E, 1, o), T) \o Those(SubSeq(E, d, Len(E)), T)
    BY <1>1, MainsCut
  <1> HIDE DEF F, G
  <1>4. MainActivities(F) = Those(F, T) /\ MainActivities(G) = Those(G, T)
    BY <1>1, <1>2, <1>3, MainsAre
  <1> QED BY <1>2, <1>3, <1>4 DEF F, G

LEMMA MainsKept ==
  ASSUME NEW E, IsSequence(E), NEW o, NEW d, SpanOver(E, o, d), NEW x, IsSequence(x), NoMains(x)
  PROVE  MainActivities(ReplaceTripElements(E, Span(o, d), x)) = MainActivities(E)
PROOF
  <1>1. o \in 1..Len(E) /\ d \in 1..Len(E) /\ o < d /\ Len(E) \in Nat /\ o \in Nat /\ d \in Nat
    BY LengthIs DEF SpanOver
  <1>2. PICK y : /\ y = TripElements(E, Span(o, d))
                 /\ IsSequence(y) /\ Len(y) = d - o - 1 /\ \A i \in 1..d - o - 1 : y[i] = E[o + i]
    BY <1>1, TripElementsIs
  <1>3. ReplaceTripElements(E, Span(o, d), y) = E
    BY <1>1, <1>2, SameReplaced
  <1>4. NoMains(y)
    <2>1. ASSUME NEW i \in 1..d - o - 1 PROVE ~IsMain(y[i])
      <3>1. o + i \in 1..Len(E) /\ ~(o + i <= o) /\ ~(o + i >= d) /\ y[i] = E[o + i]
        BY <1>1, <1>2
      <3> QED BY <3>1 DEF SpanOver
    <2> QED BY <1>2, <2>1 DEF NoMains
  <1> DEFINE A == {E[i] : i \in 1..Len(E)}
             B == {x[i] : i \in 1..Len(x)}
             C == {y[i] : i \in 1..Len(y)}
  <1>5. E \in Seq(A) /\ x \in Seq(B) /\ y \in Seq(C)
    BY <1>2 DEF IsSequence
  <1> HIDE DEF A, B, C
  <1>6. PICK S : S = A \cup B \cup C
    OBVIOUS
  <1>7. E \in Seq(S) /\ x \in Seq(S) /\ y \in Seq(S)
    BY <1>5, <1>6
  <1>8. MainActivities(ReplaceTripElements(E, Span(o, d), x)) = MainActivities(ReplaceTripElements(E, Span(o, d), y))
    BY <1>1, <1>4, <1>7, MainsCutAlike
  <1> QED BY <1>3, <1>8

-----------------------------------------------------------------------------
(* What routing keeps of a plan.                                            *)

\* The legs of a plan that have routes lead from where the traveller is to where the next
\* activity or the next leg begins, and drive on the network only.
JoinsAt(E, i) ==
  IsRouted(E[i]) =>
    /\ IsMain(E[i - 1]) => E[i].route.start = E[i - 1].link
    /\ IsMain(E[i + 1]) => E[i].route.end = E[i + 1].link
    /\ ~IsMain(E[i + 1]) /\ i + 2 <= Len(E) /\ IsRouted(E[i + 2]) => E[i].route.end = E[i + 2].route.start
    /\ E[i].mode \in MainModes => E[i].route.type = "links"
Joined(E) == \A i \in 2..Len(E) - 1 : JoinsAt(E, i)

LEMMA WellFormedReplaced ==
  ASSUME NEW E, IsSequence(E), WellFormed(E), NEW o, NEW d, SpanOver(E, o, d), NEW x, IsSequence(x),
         Len(x) % 2 = 1, \A i \in 1..Len(x) : x[i].kind = IF i % 2 = 1 THEN "leg" ELSE "act",
         NEW F, IsReplaced(F, E, o, d, x)
  PROVE  WellFormed(F)
PROOF
  <1>1. /\ Len(E) \in Nat /\ Len(x) \in Nat /\ o \in 1..Len(E) /\ d \in 1..Len(E) /\ o < d
        /\ Len(E) % 2 = 1 /\ \A i \in 1..Len(E) : E[i].kind = (IF i % 2 = 1 THEN "act" ELSE "leg")
    BY LengthIs DEF SpanOver, WellFormed
  <1>2. o % 2 = 1 /\ d % 2 = 1
    <2>1. E[o].kind = "act" /\ E[d].kind = "act"
      BY DEF SpanOver, IsMain
    <2> QED BY <1>1, <2>1
  <1>3. /\ Len(F) = Len(E) - (d - o - 1) + Len(x)
        /\ \A i \in 1..o : F[i] = E[i]
        /\ \A i \in 1..Len(x) : F[o + i] = x[i]
        /\ \A i \in d..Len(E) : F[i - d + o + Len(x) + 1] = E[i]
    BY DEF IsReplaced
  <1>4. Len(F) % 2 = 1
    <2>1. ASSUME NEW n \in Nat, NEW m \in Nat, NEW a \in Nat, NEW b \in Nat,
                 n % 2 = 1, m % 2 = 1, a % 2 = 1, b % 2 = 1
          PROVE  (n - (b - a - 1) + m) % 2 = 1
      <3>1. PICK n1, m1, a1, b1 \in Int : n = 2 * n1 + 1 /\ m = 2 * m1 + 1 /\ a = 2 * a1 + 1 /\ b = 2 * b1 + 1
        BY <2>1
      <3>2. n - (b - a - 1) + m = 2 * (n1 - b1 + a1 + m1 + 1) + 1
        BY <3>1
      <3> QED BY <3>1, <3>2
    <2>2. o \in Nat /\ d \in Nat
      BY <1>1
    <2>3. (Len(E) - (d - o - 1) + Len(x)) % 2 = 1
      BY <1>1, <1>2, <2>1, <2>2, Zenon
    <2> QED BY <1>3, <2>3
  <1>5. ASSUME NEW i \in 1..Len(F) PROVE F[i].kind = IF i % 2 = 1 THEN "act" ELSE "leg"
    <2>1. CASE i <= o
      <3>1. i \in 1..o /\ i \in 1..Len(E)
        BY <1>1, <2>1
      <3> QED BY <1>1, <1>3, <3>1
    <2>2. CASE i > o /\ i <= o + Len(x)
      <3>1. i - o \in 1..Len(x) /\ o + (i - o) = i /\ (i % 2 = 1 <=> (i - o) % 2 # 1)
        BY <1>1, <1>2, <2>2
      <3> QED BY <1>3, <3>1
    <2>3. CASE i > o + Len(x)
      <3>1. PICK m : m = i + d - o - Len(x) - 1
        OBVIOUS
      <3>2. m \in d..Len(E) /\ m - d + o + Len(x) + 1 = i /\ m \in 1..Len(E)
        BY <1>1, <1>3, <2>3, <3>1
      <3>3. i % 2 = 1 <=> m % 2 = 1
        BY <1>1, <1>2, <3>1
      <3> QED BY <1>1, <1>3, <3>2, <3>3
    <2>4. i \in Int /\ o \in Int /\ Len(x) \in Int
      BY <1>1, <1>3
    <2> QED BY <2>1, <2>2, <2>3, <2>4
  <1> QED BY <1>4, <1>5 DEF WellFormed

LEMMA JoinedReplaced ==
  ASSUME NEW E, IsSequence(E), Joined(E), NEW o, NEW d, SpanOver(E, o, d), NEW x, IsSequence(x),
         NoMains(x), Len(x) > 0, TripJoins(x, E[o].link, E[d].link), NEW F, IsReplaced(F, E, o, d, x)
  PROVE  Joined(F)
PROOF
  <1>1. /\ Len(E) \in Nat /\ Len(x) \in Nat /\ o \in 1..Len(E) /\ d \in 1..Len(E) /\ o < d
        /\ o \in Nat /\ d \in Nat /\ IsMain(E[o]) /\ IsMain(E[d])
    BY LengthIs DEF SpanOver
  <1>2. /\ Len(F) = Len(E) - (d - o - 1) + Len(x)
        /\ \A i \in 1..o : F[i] = E[i]
        /\ \A i \in 1..Len(x) : F[o + i] = x[i]
        /\ \A i \in d..Len(E) : F[i - d + o + Len(x) + 1] = E[i]
    BY DEF IsReplaced
  <1>3. PICK m : m = Len(x)
    OBVIOUS
  <1>4. PICK shift : shift = o + m + 1 - d
    OBVIOUS
  <1>5. /\ m \in Nat /\ m > 0 /\ shift \in Int /\ d + shift = o + m + 1 /\ Len(F) = Len(E) + shift /\ Len(F) \in Int
        /\ \A i \in d..Len(E) : F[i + shift] = E[i]
    <2>1. m \in Nat /\ m > 0 /\ shift \in Int /\ d + shift = o + m + 1 /\ Len(F) = Len(E) + shift /\ Len(F) \in Int
      BY <1>1, <1>2, <1>3, <1>4
    <2>2. ASSUME NEW i \in d..Len(E) PROVE F[i + shift] = E[i]
      <3>1. i + shift = i - d + o + Len(x) + 1
        BY <1>1, <1>3, <1>4
      <3> QED BY <1>2, <3>1
    <2> QED BY <2>1, <2>2
  <1>6. \A e : IsMain(e) => ~IsRouted(e)
    BY DEF IsMain, IsRouted
  <1>7. SUFFICES ASSUME NEW i \in 2..Len(F) - 1 PROVE JoinsAt(F, i)
    BY DEF Joined
  <1>a. /\ i \in Int /\ 2 <= i /\ i <= Len(E) + shift - 1 /\ i <= Len(F) - 1
        /\ o \in Int /\ d \in Int /\ m \in Int /\ shift \in Int /\ Len(E) \in Int /\ shift = o + m + 1 - d
        /\ o < d /\ d <= Len(E) /\ o >= 1
    BY <1>1, <1>4, <1>5
  <1>8. CASE i < o
    <2>1. i \in 2..Len(E) - 1 /\ i - 1 \in 1..o /\ i \in 1..o /\ i + 1 \in 1..o
      BY <1>1, <1>8
    <2>2. JoinsAt(E, i) /\ F[i - 1] = E[i - 1] /\ F[i] = E[i] /\ F[i + 1] = E[i + 1]
      BY <1>2, <2>1 DEF Joined
    <2>3. ~IsMain(F[i + 1]) => i + 2 <= Len(E) /\ F[i + 2] = E[i + 2]
      <3>1. SUFFICES ASSUME ~IsMain(F[i + 1]) PROVE i + 2 <= Len(E) /\ F[i + 2] = E[i + 2]
        OBVIOUS
      <3>2. i + 1 # o
        BY <1>1, <2>2, <3>1
      <3>3. i + 2 \in 1..o /\ i + 2 <= Len(E)
        BY <1>1, <2>1, <3>2
      <3> QED BY <1>2, <3>3
    <2> QED BY <2>2, <2>3 DEF JoinsAt
  <1>9. CASE i = o \/ i = o + m + 1
    <2>1. F[o] = E[o] /\ F[o + m + 1] = E[d]
      <3>1. o \in 1..o /\ d \in d..Len(E) /\ d + shift = o + m + 1
        BY <1>1, <1>5
      <3>2. F[d + shift] = E[d]
        BY <1>5, <3>1
      <3> QED BY <1>2, <3>1, <3>2
    <2> QED BY <1>1, <1>6, <1>9, <2>1 DEF JoinsAt
  <1>10. CASE i > o /\ i < o + m + 1
    <2>1. PICK k : k = i - o
      OBVIOUS
    <2>2. k \in 1..m /\ i = o + k /\ k \in Int
      BY <1>a, <1>10, <2>1
    <2>3. /\ x[1].route.start = E[o].link /\ x[m].route.end = E[d].link
          /\ \A j \in 1..m : x[j].kind = IF j % 2 = 1 THEN "leg" ELSE "act"
          /\ \A j \in 1..m : x[j].kind = "leg" => LeadsOn(x[j])
          /\ \A j \in 1..m - 2 : j % 2 = 1 => x[j].route.end = x[j + 2].route.start
          /\ \A j \in 1..m : ~IsMain(x[j]) /\ F[o + j] = x[j]
      BY <1>2, <1>3 DEF TripJoins, NoMains
    <2>4. F[i] = x[k] /\ F[o] = E[o] /\ F[o + m + 1] = E[d]
      <3>1. o \in 1..o /\ d \in d..Len(E) /\ d + shift = o + m + 1
        BY <1>1, <1>5
      <3>2. F[d + shift] = E[d]
        BY <1>5, <3>1
      <3> QED BY <1>2, <2>2, <2>3, <3>1, <3>2
    <2>5. SUFFICES ASSUME IsRouted(x[k])
                   PROVE  /\ IsMain(F[i - 1]) => x[k].route.start = F[i - 1].link
                          /\ IsMain(F[i + 1]) => x[k].route.end = F[i + 1].link
                          /\ ~IsMain(F[i + 1]) /\ IsRouted(F[i + 2]) => x[k].route.end = F[i + 2].route.start
                          /\ x[k].mode \in MainModes => x[k].route.type = "links"
      BY <2>4 DEF JoinsAt
    <2>6. x[k].kind = "leg" /\ k % 2 = 1 /\ LeadsOn(x[k])
      BY <2>2, <2>3, <2>5 DEF IsRouted
    <2>7. IsMain(F[i - 1]) => x[k].route.start = F[i - 1].link
      <3>1. CASE k = 1
        <4>1. i - 1 = o
          BY <2>2, <3>1, <1>1
        <4> QED BY <2>3, <2>4, <3>1, <4>1
      <3>2. CASE k # 1
        <4>1. k - 1 \in 1..m /\ i - 1 = o + (k - 1)
          BY <1>a, <2>2, <3>2
        <4> QED BY <2>3, <4>1
      <3> QED BY <3>1, <3>2
    <2>8. CASE k = m
      <3>1. i + 1 = o + m + 1
        BY <1>1, <2>2, <2>8
      <3>2. F[i + 1] = E[d] /\ IsMain(F[i + 1]) /\ x[k].route.end = E[d].link
        BY <1>1, <2>3, <2>4, <2>8, <3>1
      <3> QED BY <2>6, <2>7, <3>2 DEF LeadsOn
    <2>9. CASE k # m
      <3>1. k + 1 \in 1..m /\ i + 1 = o + (k + 1)
        BY <1>1, <1>5, <2>2, <2>9
      <3>2. ~IsMain(F[i + 1])
        BY <2>3, <3>1
      <3>3. IsRouted(F[i + 2]) => x[k].route.end = F[i + 2].route.start
        <4>1. CASE k + 1 = m
          <5>1. i + 2 = o + m + 1
            BY <1>1, <2>2, <4>1
          <5> QED BY <1>1, <1>6, <2>4, <5>1
        <4>2. CASE k + 1 # m
          <5>1. k + 2 \in 1..m /\ k \in 1..m - 2 /\ i + 2 = o + (k + 2)
            BY <1>1, <1>5, <2>2, <3>1, <4>2
          <5>2. F[i + 2] = x[k + 2]
            BY <2>3, <5>1
          <5> QED BY <2>3, <2>6, <5>1, <5>2
        <4> QED BY <4>1, <4>2
      <3> QED BY <2>6, <2>7, <3>2, <3>3 DEF LeadsOn
    <2> QED BY <2>8, <2>9
  <1>11. CASE i > o + m + 1
    <2>1. PICK j : j = i - shift
      OBVIOUS
    <2>2. /\ j \in 2..Len(E) - 1 /\ j \in d..Len(E) /\ j - 1 \in d..Len(E) /\ j + 1 \in d..Len(E)
          /\ i = j + shift /\ i - 1 = (j - 1) + shift /\ i + 1 = (j + 1) + shift /\ i + 2 = (j + 2) + shift
      BY <1>a, <1>11, <2>1
    <2>3. JoinsAt(E, j) /\ F[i - 1] = E[j - 1] /\ F[i] = E[j] /\ F[i + 1] = E[j + 1]
      BY <1>5, <2>2 DEF Joined
    <2>4. i + 2 <= Len(F) => j + 2 <= Len(E) /\ F[i + 2] = E[j + 2]
      <3>1. SUFFICES ASSUME i + 2 <= Len(F) PROVE j + 2 <= Len(E) /\ F[i + 2] = E[j + 2]
        OBVIOUS
      <3>2. j + 2 \in d..Len(E) /\ j + 2 <= Len(E)
        BY <1>a, <1>5, <2>2, <3>1
      <3>3. F[(j + 2) + shift] = E[j + 2]
        BY <1>5, <3>2
      <3>4. (j + 2) + shift = i + 2
        BY <2>2
      <3> QED BY <3>2, <3>3, <3>4
    <2> QED BY <2>3, <2>4 DEF JoinsAt
  <1>12. i < o \/ (i = o \/ i = o + m + 1) \/ (i > o /\ i < o + m + 1) \/ i > o + m + 1
    BY <1>1, <1>5
  <1> QED BY <1>8, <1>9, <1>10, <1>11, <1>12

\* F begins and ends as E does and has its main activities, what is not from E is new, and
\* its legs lead on from each other if those of E do.
IsRouting(F, E, g) ==
  /\ Len(E) > 0 => Len(F) > 0 /\ F[1] = E[1] /\ F[Len(F)] = E[Len(E)]
  /\ MainActivities(F) = MainActivities(E)
  /\ RoutesJoin /\ WellFormed(E) /\ Joined(E) => WellFormed(F) /\ Joined(F)
  /\ \A i \in 1..Len(F) : IsNew(F[i], g) \/ \E k \in 1..Len(E) : F[i] = E[k]

LEMMA RoutingOnceMore ==
  ASSUME NEW D, NEW E, NEW F, NEW g, IsRouting(E, D, g), IsRouting(F, E, g)
  PROVE  IsRouting(F, D, g)
  BY DEF IsRouting

LEMMA ReplacedIsRouting ==
  ASSUME NEW E, IsSequence(E), NEW o, NEW d, SpanOver(E, o, d), NEW x, IsSequence(x), NoMains(x), Len(x) > 0,
         NEW F, IsReplaced(F, E, o, d, x), F = ReplaceTripElements(E, Span(o, d), x), NEW g,
         \A i \in 1..Len(x) : IsNew(x[i], g) \/ \E k \in 1..Len(E) : x[i] = E[k],
         RoutesJoin => TripJoins(x, E[o].link, E[d].link)
  PROVE  IsRouting(F, E, g)
PROOF
  <1>0. o \in 1..Len(E) /\ d \in 1..Len(E) /\ o < d
    BY LengthIs DEF SpanOver
  <1>1. /\ Len(F) = Len(E) - (d - o - 1) + Len(x) /\ Len(x) \in Nat /\ Len(E) \in Nat
        /\ \A i \in 1..o : F[i] = E[i]
        /\ \A i \in 1..Len(x) : F[o + i] = x[i]
        /\ \A i \in d..Len(E) : F[i - d + o + Len(x) + 1] = E[i]
    BY LengthIs DEF IsReplaced
  <1>2. Len(F) > 0 /\ F[1] = E[1]
    BY <1>0, <1>1
  <1>3. F[Len(F)] = E[Len(E)]
    <2>1. Len(E) \in d..Len(E) /\ Len(E) - d + o + Len(x) + 1 = Len(F)
      BY <1>0, <1>1
    <2> QED BY <1>1, <2>1
  <1>4. ASSUME NEW i \in 1..Len(F) PROVE IsNew(F[i], g) \/ \E k \in 1..Len(E) : F[i] = E[k]
    <2>1. CASE i <= o
      <3>1. i \in 1..o /\ i \in 1..Len(E)
        BY <1>0, <1>1, <2>1
      <3> QED BY <1>1, <3>1
    <2>2. CASE i > o /\ i <= o + Len(x)
      <3>1. i - o \in 1..Len(x) /\ o + (i - o) = i
        BY <1>0, <1>1, <2>2
      <3>2. F[i] = x[i - o]
        BY <1>1, <3>1
      <3> QED BY <3>1, <3>2
    <2>3. CASE i > o + Len(x)
      <3> DEFINE m == i + d - o - Len(x) - 1
      <3>1. m \in d..Len(E) /\ m - d + o + Len(x) + 1 = i /\ m \in 1..Len(E)
        BY <1>0, <1>1, <2>3
      <3> HIDE DEF m
      <3>2. F[i] = E[m]
        BY <1>1, <3>1
      <3> QED BY <3>1, <3>2
    <2>4. i <= o \/ (i > o /\ i <= o + Len(x)) \/ i > o + Len(x)
      BY <1>0, <1>1
    <2> QED BY <2>1, <2>2, <2>3, <2>4
  <1>5. MainActivities(F) = MainActivities(E)
    BY MainsKept
  <1>6. ASSUME RoutesJoin, WellFormed(E), Joined(E) PROVE WellFormed(F) /\ Joined(F)
    <2>1. TripJoins(x, E[o].link, E[d].link)
      BY <1>6
    <2>2. Len(x) % 2 = 1 /\ \A i \in 1..Len(x) : x[i].kind = IF i % 2 = 1 THEN "leg" ELSE "act"
      BY <2>1 DEF TripJoins
    <2> QED BY <1>6, <2>1, <2>2, WellFormedReplaced, JoinedReplaced
  <1> QED BY <1>2, <1>3, <1>4, <1>5, <1>6 DEF IsRouting

\* A trip that was adapted stays as it has become.
LEMMA AdaptedStays ==
  ASSUME NEW p, NEW E, Placed(E), NEW o, NEW d, SpanOver(E, o, d), NEW g,
         Adapted(p, E, Span(o, d), g).ok
  PROVE  \E x, F : /\ Adapted(p, E, Span(o, d), g) = Routed(F)
                   /\ IsSequence(x) /\ NoMains(x) /\ Len(x) > 0 /\ \A i \in 1..Len(x) : IsPlaced(x[i])
                   /\ IsReplaced(F, E, o, d, x)
                   /\ Stays(p, F, Span(o, o + Len(x) + 1), g)
                   /\ IsRouting(F, E, g)
PROOF
  <1> DEFINE s == Span(o, d)
             x == TripElements(E, s)
             legs == LegsOf(x)
             main == ResolveMainMode(legs)
             vehicle == VehicleForTrip(p, legs, main.mode, g)
             dep == DepartureTime(E, s)
             req == Request(E[o], E[d], dep, vehicle.veh)
             r == CalcRoute(main.mode, req)
             result == Adapted(p, E, s, g)
  <1>1. s.origin = o /\ s.destination = d
    BY DEF Span
  <1>2. /\ IsSequence(E) /\ o \in 1..Len(E) /\ d \in 1..Len(E) /\ o < d /\ d - o - 1 > 0
        /\ o \in Nat /\ d \in Nat /\ IsMain(E[o]) /\ IsMain(E[d]) /\ IsPlaced(E[o]) /\ IsPlaced(E[d])
    <2>1. IsSequence(E) /\ Len(E) \in Nat
      BY LengthIs DEF Placed
    <2> QED BY <2>1 DEF Placed, SpanOver
  <1>3. result = AssessTrip(p, E, s, legs, main, g)
    BY DEF Adapted
  <1>4. IsSequence(x) /\ Len(x) = d - o - 1 /\ \A i \in 1..d - o - 1 : x[i] = E[o + i]
    BY <1>2, TripElementsIs
  <1>5. IsSequence(legs)
    <2> HIDE DEF x
    <2> DEFINE S == {x[i] : i \in 1..Len(x)}
    <2>1. x \in Seq(S)
      BY <1>4 DEF IsSequence
    <2> HIDE DEF S
    <2>2. legs \in Seq(S)
      BY <2>1, OfKindElements DEF LegsOf
    <2> QED BY <2>2, SequenceOf
  <1>6. result.ok
    OBVIOUS
  <1> HIDE DEF s, x, legs, main, vehicle, dep, result
  <1>7. main.ok
    <2>1. ~main.ok => AssessTrip(p, E, s, legs, main, g) = main
      BY DEF AssessTrip
    <2> QED BY <1>3, <1>6, <2>1
  <1>8. CASE TripIsValid(x, legs, main.mode)
    <2>1. result = Routed(E)
      BY <1>3, <1>7, <1>8 DEF AssessTrip, x
    <2>2. IsReplaced(E, E, o, d, x)
      <3>1. ReplaceTripElements(E, s, x) = E
        BY <1>2, SameReplaced DEF s, x
      <3>2. IsReplaced(ReplaceTripElements(E, s, x), E, o, d, x)
        BY <1>2, <1>4, ReplacedIs DEF s
      <3> QED BY <3>1, <3>2
    <2>3. Stays(p, E, s, g)
      BY <1>7, <1>8 DEF Stays, StaysAs, x, legs, main
    <2>4. o + Len(x) + 1 = d
      BY <1>2, <1>4
    <2>5. ASSUME NEW i \in 1..d - o - 1 PROVE ~IsMain(x[i]) /\ IsPlaced(x[i])
      <3>1. o + i \in 1..Len(E) /\ ~(o + i <= o) /\ ~(o + i >= d) /\ x[i] = E[o + i]
        <4>1. Len(E) \in Nat
          BY <1>2, LengthIs
        <4> QED BY <1>2, <1>4, <4>1
      <3> QED BY <3>1 DEF SpanOver, Placed
    <2>6. NoMains(x) /\ Len(x) > 0 /\ \A i \in 1..Len(x) : IsPlaced(x[i])
      BY <1>2, <1>4, <2>5 DEF NoMains
    <2>7. IsRouting(E, E, g)
      BY DEF IsRouting
    <2> QED BY <1>4, <2>1, <2>2, <2>3, <2>4, <2>6, <2>7 DEF s, result
  <1>9. CASE ~TripIsValid(x, legs, main.mode)
    <2>1. result = RouteTrip(E, s, main.mode, dep, vehicle)
      BY <1>3, <1>7, <1>9 DEF AssessTrip, x, dep, vehicle
    <2>2. dep # None /\ vehicle.ok
      <3>1. dep = None => ~RouteTrip(E, s, main.mode, dep, vehicle).ok
        BY DEF RouteTrip, Failed
      <3>2. dep # None /\ ~vehicle.ok => RouteTrip(E, s, main.mode, dep, vehicle) = vehicle
        BY DEF RouteTrip
      <3> QED BY <1>6, <2>1, <3>1, <3>2
    <2>3. result = Replaced(E, s, r)
      BY <1>1, <2>1, <2>2 DEF RouteTrip, Request
    <2>4. r.ok
      <3> HIDE DEF r
      <3> QED BY <1>6, <2>3 DEF Replaced
    <2> DEFINE y == r.elements
               F == ReplaceTripElements(E, s, y)
               e == o + Len(y) + 1
    <2>5. r = Routed(y)
      BY <2>4, CalcRouteOk
    <2>6. result = Routed(F)
      <3> HIDE DEF r
      <3> QED BY <2>3, <2>4 DEF Replaced
    <2>7. IsFacility(req.from) /\ IsFacility(req.to) /\ req.veh = vehicle.veh
      BY <1>2, FacilityIs DEF Request
    <2>8. /\ main.mode # "none" /\ RoutedTrip(y, main.mode, vehicle.veh)
          /\ RoutesJoin => TripJoins(y, E[o].link, E[d].link)
      <3>1. req.from.link = E[o].link /\ req.to.link = E[d].link
        BY DEF Request, FacilityOf, Facility
      <3> HIDE DEF req
      <3> QED BY <2>4, <2>7, <3>1, CalcRouteIs
    <2>9. IsSequence(y) /\ Len(y) > 0 /\ NoMains(y) /\ \A i \in 1..Len(y) : IsPlaced(y[i])
      BY <2>8, RoutedTripIs
    <2> HIDE DEF y, F
    <2>10. IsReplaced(F, E, o, d, y)
      BY <1>2, <2>9, ReplacedIs DEF F, s
    <2>11. TripElements(F, Span(o, e)) = y /\ e \in 1..Len(F) /\ o \in 1..Len(F)
      BY <1>2, <2>9, <2>10, ReplacedBack
    <2>12. F[o] = E[o] /\ F[e] = E[d] /\ \A i \in 1..o : F[i] = E[i]
      <3>1. \A i \in 1..o : F[i] = E[i]
        BY <2>10 DEF IsReplaced
      <3>2. Len(y) \in Nat /\ Len(E) \in Nat
        BY <1>2, <2>9, LengthIs
      <3>3. d \in d..Len(E) /\ d - d + o + Len(y) + 1 = e /\ o \in 1..o
        BY <1>2, <3>2
      <3>4. F[d - d + o + Len(y) + 1] = E[d]
        BY <2>10, <3>3 DEF IsReplaced
      <3> QED BY <3>1, <3>3, <3>4
    <2>13. DepartureTime(F, Span(o, e)) = dep
      <3>1. SubSeq(F, 1, o) = SubSeq(E, 1, o)
        BY <1>2, <2>12
      <3>2. Span(o, e).origin = o
        BY DEF Span
      <3> QED BY <1>1, <3>1, <3>2 DEF DepartureTime, dep
    <2>14. ResolveMainMode(LegsOf(y)) = [ok |-> TRUE, mode |-> main.mode]
      BY <2>8, ModeAgain
    <2>15. VehicleForTrip(p, LegsOf(y), main.mode, g) = vehicle
      BY <1>5, <2>2, <2>8, VehicleAgain DEF vehicle
    <2>16. Stays(p, F, Span(o, e), g)
      <3> HIDE DEF r, e, req
      <3>1. CalcRoute(main.mode, Request(F[o], F[e], dep, vehicle.veh)) = Routed(y)
        BY <2>5, <2>12 DEF r, req
      <3>2. Span(o, e).origin = o /\ Span(o, e).destination = e
        BY DEF Span
      <3>3. StaysAs(p, y, F[o], F[e], dep, g)
        BY <2>2, <2>14, <2>15, <3>1 DEF StaysAs
      <3> QED BY <2>11, <2>13, <3>2, <3>3 DEF Stays
    <2>17. \A i \in 1..Len(y) : IsNew(y[i], g)
      <3>1. IsNetworkMode(main.mode) => vehicle.veh \in g
        BY <1>5, <2>2, VehicleIs DEF vehicle
      <3> QED BY <2>8, <3>1, RoutedTripNew
    <2>18. IsRouting(F, E, g)
      BY <1>2, <2>8, <2>9, <2>10, <2>17, ReplacedIsRouting DEF F, s
    <2> QED BY <2>6, <2>9, <2>10, <2>16, <2>18 DEF s, result
  <1> QED BY <1>8, <1>9

-----------------------------------------------------------------------------
(* The preparation of a plan, trip by trip.                                 *)

\* The first k trips of a plan with n trips stay as they are.
UpToTrip(p, E, n, k, g) ==
  /\ Placed(E) /\ Cardinality(Trips(E)) = n
  /\ \A j \in 1..k : Stays(p, E, SpanAt(E, j), g)

LEMMA AdaptNext ==
  ASSUME NEW p, NEW g, NEW n \in Nat, NEW k \in 1..n, NEW E, UpToTrip(p, E, n, k - 1, g),
         CheckAndAdaptTrip(p, E, k, g).ok
  PROVE  \E F : CheckAndAdaptTrip(p, E, k, g) = Routed(F) /\ UpToTrip(p, F, n, k, g) /\ IsRouting(F, E, g)
PROOF
  <1> DEFINE s == SpanAt(E, k)
             o == s.origin
             d == s.destination
  <1>1. IsSequence(E) /\ Placed(E) /\ Cardinality(Trips(E)) = n /\ Len(E) \in Nat
    <2>1. Placed(E) /\ Cardinality(Trips(E)) = n
      BY DEF UpToTrip
    <2> QED BY <2>1, LengthIs DEF Placed
  <1>2. s \in Trips(E) /\ Rank(E, o) = k - 1
    BY <1>1, SpanAtIs
  <1>3. s = Span(o, d) /\ SpanOver(E, o, d)
    BY <1>1, <1>2, TripIs
  <1>4. CheckAndAdaptTrip(p, E, k, g) = Adapted(p, E, s, g)
    BY DEF CheckAndAdaptTrip, Adapted
  <1> HIDE DEF s, o, d
  <1>5. PICK x, F : /\ CheckAndAdaptTrip(p, E, k, g) = Routed(F)
                    /\ IsSequence(x) /\ NoMains(x) /\ Len(x) > 0 /\ \A i \in 1..Len(x) : IsPlaced(x[i])
                    /\ IsReplaced(F, E, o, d, x)
                    /\ Stays(p, F, Span(o, o + Len(x) + 1), g) /\ IsRouting(F, E, g)
    BY <1>1, <1>3, <1>4, AdaptedStays
  <1> DEFINE e == o + Len(x) + 1
  <1>6. /\ IsSequence(F) /\ Len(F) = Len(E) - (d - o - 1) + Len(x) /\ Len(x) \in Nat /\ Len(F) \in Nat
        /\ \A i \in 1..o : F[i] = E[i]
        /\ o \in 1..Len(E) /\ d \in 1..Len(E) /\ o < d /\ o \in 1..Len(F) /\ IsMain(E[o])
    <2>1. IsSequence(F) /\ Len(F) = Len(E) - (d - o - 1) + Len(x) /\ \A i \in 1..o : F[i] = E[i]
      BY <1>5 DEF IsReplaced
    <2>2. o \in 1..Len(E) /\ d \in 1..Len(E) /\ d - o > 1 /\ IsMain(E[o])
      BY <1>3 DEF SpanOver
    <2>3. Len(x) \in Nat /\ Len(F) \in Nat
      BY <1>5, <2>1, LengthIs
    <2> QED BY <1>1, <2>1, <2>2, <2>3
  <1>7. Placed(F)
    <2>1. ASSUME NEW i \in 1..Len(F) PROVE IsPlaced(F[i])
      <3>1. CASE i <= o
        <4>1. F[i] = E[i] /\ i \in 1..Len(E)
          BY <1>1, <1>6, <3>1
        <4> QED BY <1>1, <4>1 DEF Placed
      <3>2. CASE i > o /\ i <= o + Len(x)
        <4>1. i - o \in 1..Len(x) /\ o + (i - o) = i
          BY <1>1, <1>6, <3>2
        <4>2. F[o + (i - o)] = x[i - o]
          BY <1>5, <4>1 DEF IsReplaced
        <4> QED BY <1>5, <4>1, <4>2
      <3>3. CASE i > o + Len(x)
        <4> DEFINE m == i + d - o - Len(x) - 1
        <4>1. m \in d..Len(E) /\ m - d + o + Len(x) + 1 = i /\ m \in 1..Len(E)
          BY <1>1, <1>6, <3>3
        <4> HIDE DEF m
        <4>2. F[m - d + o + Len(x) + 1] = E[m]
          BY <1>5, <4>1 DEF IsReplaced
        <4> QED BY <1>1, <4>1, <4>2 DEF Placed
      <3> QED BY <1>1, <1>6, <3>1, <3>2, <3>3
    <2> QED BY <1>6, <2>1 DEF Placed
  <1>8. Cardinality(Trips(F)) = n /\ SpanOver(F, o, e)
    BY <1>1, <1>3, <1>5, AsManyTrips, TripsReplaced
  <1>9. Rank(F, o) = k - 1
    BY <1>1, <1>2, <1>6, CommonTrips
  <1>10. SpanAt(F, k) = Span(o, e)
    <2> HIDE DEF e
    <2>1. Span(o, e) \in Trips(F) /\ Span(o, e).origin = o
      BY <1>6, <1>8, SpanIsTrip DEF Span
    <2> QED BY <1>6, <1>9, <2>1, SpanAtOnly
  <1>11. ASSUME NEW j \in 1..k - 1 PROVE Stays(p, F, SpanAt(F, j), g)
    <2> DEFINE t == SpanAt(E, j)
    <2>1. t \in Trips(E) /\ Rank(E, t.origin) = j - 1
      <3>1. j \in 1..n
        OBVIOUS
      <3> QED BY <1>1, <3>1, SpanAtIs
    <2>2. Stays(p, E, t, g)
      BY DEF UpToTrip
    <2> HIDE DEF t
    <2>3. t.origin < o /\ t.destination <= o
      <3>1. t.origin < s.origin
        <4>1. Rank(E, t.origin) < Rank(E, s.origin)
          BY <1>2, <2>1 DEF o
        <4> QED BY <1>1, <1>2, <2>1, <4>1, RankIs
      <3>2. t.destination <= s.origin
        BY <1>1, <1>2, <2>1, <3>1, TripsApart
      <3> QED BY <3>1, <3>2 DEF o
    <2>4. t = Span(t.origin, t.destination) /\ SpanOver(E, t.origin, t.destination)
      BY <1>1, <2>1, TripIs
    <2>5. t.origin \in Nat /\ t.destination \in Nat /\ t.origin > 0 /\ t.origin < t.destination
      BY <1>1, <2>4 DEF SpanOver
    <2>6. t \in Trips(F)
      BY <1>1, <1>6, <2>1, <2>3, CommonTrips
    <2>7. Rank(F, t.origin) = j - 1
      <3>1. /\ t.origin \in 1..Len(E) /\ t.origin \in 1..Len(F) /\ IsMain(E[t.origin])
            /\ \A i \in 1..t.origin : F[i] = E[i]
        BY <1>6, <2>3, <2>4, <2>5 DEF SpanOver
      <3>2. Rank(F, t.origin) = Rank(E, t.origin)
        BY <1>1, <1>6, <3>1, CommonTrips
      <3> QED BY <2>1, <3>2
    <2>8. SpanAt(F, j) = t
      BY <1>6, <2>6, <2>7, SpanAtOnly
    <2>9. \A i \in 1..t.destination : F[i] = E[i]
      BY <1>6, <2>3, <2>5
    <2>10. Stays(p, F, t, g)
      BY <2>2, <2>4, <2>5, <2>9, StaysInCommon
    <2> QED BY <2>8, <2>10
  <1>12. \A j \in 1..k : Stays(p, F, SpanAt(F, j), g)
    <2>1. \A j \in 1..k : j = k \/ j \in 1..k - 1
      OBVIOUS
    <2> QED BY <1>5, <1>10, <1>11, <2>1
  <1> HIDE DEF e
  <1>13. UpToTrip(p, F, n, k, g)
    BY <1>7, <1>8, <1>12 DEF UpToTrip
  <1> QED BY <1>5, <1>13

\* prepare_plan is what its loop makes of the plan, trip by trip.
IsAdapting(f, p, given, n, g) ==
  /\ f[0] = Routed(given)
  /\ \A k \in 1..n : f[k] = IF f[k - 1].ok THEN CheckAndAdaptTrip(p, f[k - 1].elements, k, g) ELSE f[k - 1]

LEMMA PreparePlanIs ==
  ASSUME NEW p, NEW plan, NEW g, IsSequence(AssignCoordinates(plan.elements))
  PROVE  LET given == AssignCoordinates(plan.elements)
             n == Cardinality(Trips(given))
         IN n \in Nat /\ \E f : IsAdapting(f, p, given, n, g) /\ PreparePlan(p, plan, g) = PlanOutcome(plan, f[n])
PROOF
  <1> DEFINE given == AssignCoordinates(plan.elements)
             n == Cardinality(Trips(given))
             Next_(r, k) == IF r.ok THEN CheckAndAdaptTrip(p, r.elements, k, g) ELSE r
             Def(f) == [k \in 0..n |-> IF k = 0 THEN Routed(given)
                          ELSE IF f[k - 1].ok THEN CheckAndAdaptTrip(p, f[k - 1].elements, k, g) ELSE f[k - 1]]
             adapted == CHOOSE f : f = Def(f)
             Good(f, m) == \A k \in 0..m : f[k] = IF k = 0 THEN Routed(given) ELSE Next_(f[k - 1], k)
             P == {m \in 0..n : \E f : Good(f, m)}
  <1>1. n \in Nat
    BY TripsFinite
  <1>2. PreparePlan(p, plan, g) = PlanOutcome(plan, adapted[n])
    BY Zenon DEF PreparePlan
  <1> HIDE DEF n, given, Next_
  <1>3. 0 \in P
    <2> DEFINE f == [k \in {0} |-> Routed(given)]
    <2>1. f[0] = Routed(given)
      OBVIOUS
    <2> HIDE DEF f
    <2>2. Good(f, 0)
      BY <2>1
    <2> HIDE DEF Good
    <2> QED BY <1>1, <2>2
  <1>4. ASSUME NEW m \in 1..n, m - 1 \in P PROVE m \in P
    <2>1. PICK f : Good(f, m - 1)
      BY <1>4
    <2> DEFINE h == [k \in 0..m |-> IF k = m THEN Next_(f[m - 1], m) ELSE f[k]]
    <2>2. ASSUME NEW k \in 0..m PROVE h[k] = IF k = 0 THEN Routed(given) ELSE Next_(h[k - 1], k)
      <3>1. CASE k = m
        <4>1. h[k] = Next_(f[m - 1], m) /\ k # 0 /\ h[k - 1] = f[m - 1]
          BY <3>1
        <4> HIDE DEF h
        <4> QED BY <3>1, <4>1
      <3>2. CASE k # m
        <4>1. k \in 0..(m - 1) /\ h[k] = f[k] /\ (k # 0 => h[k - 1] = f[k - 1])
          BY <3>2
        <4> HIDE DEF h
        <4> QED BY <2>1, <4>1
      <3> QED BY <3>1, <3>2
    <2> HIDE DEF h
    <2>3. Good(h, m)
      BY <2>2
    <2> HIDE DEF Good
    <2>4. m \in 0..n
      BY <1>1
    <2> QED BY <2>3, <2>4
  <1>5. \E f : Good(f, n)
    <2>1. \A m \in 0..n : m \in P
      <3> HIDE DEF P
      <3> QED BY <1>1, <1>3, <1>4, UpTo
    <2> HIDE DEF Good
    <2> QED BY <1>1, <2>1
  <1>6. \E f : f = Def(f)
    <2>1. PICK f : Good(f, n)
      BY <1>5
    <2> DEFINE h == [k \in 0..n |-> f[k]]
    <2>2. ASSUME NEW k \in 0..n
          PROVE  h[k] = IF k = 0 THEN Routed(given) ELSE Next_(h[k - 1], k)
      <3>1. k # 0 => k - 1 \in 0..n
        BY <1>1
      <3> QED BY <2>1, <3>1
    <2>3. h = [k \in 0..n |-> h[k]]
      OBVIOUS
    <2> HIDE DEF h
    <2>4. h = Def(h)
      BY <2>2, <2>3 DEF Next_
    <2> HIDE DEF Def
    <2> QED BY <2>4
  <1>7. adapted = Def(adapted)
    <2> HIDE DEF Def
    <2> QED BY <1>6
  <1> HIDE DEF adapted
  <1>8. \A k \in 0..n : adapted[k] = IF k = 0 THEN Routed(given)
          ELSE IF adapted[k - 1].ok THEN CheckAndAdaptTrip(p, adapted[k - 1].elements, k, g) ELSE adapted[k - 1]
    BY <1>7
  <1>9. IsAdapting(adapted, p, given, n, g)
    <2>1. 0 \in 0..n /\ \A k \in 1..n : k \in 0..n /\ k # 0
      BY <1>1
    <2> QED BY <1>8, <2>1 DEF IsAdapting
  <1> QED BY <1>1, <1>2, <1>9 DEF n, given

\* assign_activity_coordinates: there are coordinates for all, and those that were are kept.
LEMMA CoordinatesAssigned ==
  ASSUME NEW E, IsSequence(E), \A i \in 1..Len(E) : IsElement(E[i])
  PROVE  Placed(AssignCoordinates(E)) /\ (Placed(E) => AssignCoordinates(E) = E)
PROOF
  <1> DEFINE F == AssignCoordinates(E)
             S == {F[i] : i \in 1..Len(E)}
  <1>1. Len(E) \in Nat /\ DOMAIN E = 1..Len(E) /\ E = [i \in 1..Len(E) |-> E[i]]
    BY LengthIs
  <1>2. /\ F = [i \in 1..Len(E) |-> F[i]]
        /\ \A i \in 1..Len(E) : F[i] = IF E[i].kind = "act" /\ E[i].coord = None
             THEN [E[i] EXCEPT !.coord = Middle(E[i].link)] ELSE E[i]
    BY <1>1 DEF AssignCoordinates
  <1> HIDE DEF F
  <1>3. IsSequence(F) /\ Len(F) = Len(E)
    <2>1. \A i \in 1..Len(E) : F[i] \in S
      OBVIOUS
    <2> HIDE DEF S
    <2>2. F \in Seq(S) /\ Len(F) = Len(E)
      BY <1>1, <1>2, <2>1
    <2> QED BY <2>2, SequenceOf
  <1>4. ASSUME NEW i \in 1..Len(E) PROVE IsPlaced(F[i])
    <2>1. CASE E[i].kind = "act" /\ E[i].coord = None
      <3>1. IsActivity(E[i])
        BY <2>1 DEF IsElement, IsLeg
      <3>2. PICK name, main, link, coord, end, dur, horizon :
              /\ E[i] = [kind |-> "act", name |-> name, main |-> main, link |-> link, coord |-> coord,
                         end |-> end, dur |-> dur, horizon |-> horizon]
              /\ main \in BOOLEAN /\ link \in DOMAIN Net
        BY <3>1 DEF IsActivity
      <3>3. F[i] = [kind |-> "act", name |-> name, main |-> main, link |-> link, coord |-> Middle(link),
                    end |-> end, dur |-> dur, horizon |-> horizon]
        BY <1>2, <2>1, <3>2
      <3>4. Middle(link) \in Coords /\ Middle(link) # None
        BY <3>2, MiddleAssumption, GeometryAssumption
      <3> QED BY <3>2, <3>3, <3>4 DEF IsPlaced, IsElement, IsActivity
    <2>2. CASE ~(E[i].kind = "act" /\ E[i].coord = None)
      BY <1>2, <2>2 DEF IsPlaced
    <2> QED BY <2>1, <2>2
  <1>5. Placed(F)
    BY <1>3, <1>4 DEF Placed
  <1>6. ASSUME Placed(E) PROVE F = E
    <2>1. \A i \in 1..Len(E) : F[i] = E[i]
      BY <1>2, <1>6 DEF Placed, IsPlaced
    <2> QED BY <1>1, <1>2, <2>1
  <1> QED BY <1>5, <1>6 DEF F

Prepared(p, E, g) == LET n == Cardinality(Trips(E)) IN UpToTrip(p, E, n, n, g)

\* A plan without a failure is prepared.
LEMMA PlanPrepared ==
  ASSUME NEW p, NEW plan, NEW g, IsSequence(plan.elements),
         \A i \in 1..Len(plan.elements) : IsElement(plan.elements[i]), PreparePlan(p, plan, g).ok
  PROVE  \E F : /\ PreparePlan(p, plan, g) = [ok |-> TRUE, plan |-> [plan EXCEPT !.elements = F]]
                /\ Prepared(p, F, g) /\ IsRouting(F, AssignCoordinates(plan.elements), g)
PROOF
  <1> DEFINE given == AssignCoordinates(plan.elements)
             n == Cardinality(Trips(given))
  <1>1. Placed(given) /\ IsSequence(given)
    BY CoordinatesAssigned DEF Placed
  <1>2. PICK f : IsAdapting(f, p, given, n, g) /\ PreparePlan(p, plan, g) = PlanOutcome(plan, f[n])
    BY <1>1, PreparePlanIs
  <1>3. n \in Nat
    BY <1>1, TripsFinite
  <1> HIDE DEF given
  <1> DEFINE Good(k) == f[k].ok => \E F : /\ f[k] = Routed(F) /\ UpToTrip(p, F, n, k, g)
                                          /\ IsRouting(F, given, g)
             P == {k \in 0..n : Good(k)}
  <1>4. 0 \in P
    <2>1. f[0] = Routed(given)
      BY <1>2 DEF IsAdapting
    <2>2. UpToTrip(p, given, n, 0, g)
      BY <1>1 DEF UpToTrip
    <2>3. IsRouting(given, given, g)
      BY DEF IsRouting
    <2> HIDE DEF n
    <2> QED BY <1>3, <2>1, <2>2, <2>3
  <1> HIDE DEF n
  <1>5. ASSUME NEW k \in 1..n, k - 1 \in P PROVE k \in P
    <2>1. f[k] = IF f[k - 1].ok THEN CheckAndAdaptTrip(p, f[k - 1].elements, k, g) ELSE f[k - 1]
      BY <1>2 DEF IsAdapting
    <2>2. ASSUME f[k].ok PROVE \E F : f[k] = Routed(F) /\ UpToTrip(p, F, n, k, g) /\ IsRouting(F, given, g)
      <3>1. f[k - 1].ok
        BY <2>1, <2>2
      <3>2. PICK E : f[k - 1] = Routed(E) /\ UpToTrip(p, E, n, k - 1, g) /\ IsRouting(E, given, g)
        BY <1>5, <3>1
      <3>3. f[k] = CheckAndAdaptTrip(p, E, k, g)
        BY <2>1, <3>1, <3>2 DEF Routed
      <3> QED BY <1>3, <2>2, <3>2, <3>3, AdaptNext, RoutingOnceMore
    <2>3. k \in 0..n
      BY <1>3
    <2> QED BY <2>2, <2>3
  <1>6. Good(n)
    <2>1. \A k \in 0..n : k \in P
      <3> HIDE DEF P
      <3> QED BY <1>3, <1>4, <1>5, UpTo
    <2> HIDE DEF Good
    <2> QED BY <1>3, <2>1
  <1>7. f[n].ok
    BY <1>2 DEF PlanOutcome
  <1>8. PICK F : f[n] = Routed(F) /\ UpToTrip(p, F, n, n, g) /\ IsRouting(F, given, g)
    BY <1>6, <1>7
  <1>9. PreparePlan(p, plan, g) = [ok |-> TRUE, plan |-> [plan EXCEPT !.elements = F]]
    BY <1>2, <1>8 DEF PlanOutcome, Routed
  <1>10. Prepared(p, F, g)
    BY <1>8 DEF Prepared, UpToTrip
  <1> QED BY <1>8, <1>9, <1>10 DEF given

\* Preparing a plan that is prepared changes nothing.
LEMMA PreparedAgain ==
  ASSUME NEW p, NEW plan, NEW g, Prepared(p, plan.elements, g), IsPlan(plan)
  PROVE  PreparePlan(p, plan, g) = [ok |-> TRUE, plan |-> plan]
PROOF
  <1> DEFINE E == plan.elements
             n == Cardinality(Trips(E))
  <1>1. Placed(E) /\ IsSequence(E) /\ \A j \in 1..n : Stays(p, E, SpanAt(E, j), g)
    BY DEF Prepared, UpToTrip, Placed
  <1>2. AssignCoordinates(E) = E
    BY <1>1, CoordinatesAssigned DEF Placed, IsPlaced
  <1>3. PICK f : IsAdapting(f, p, E, n, g) /\ PreparePlan(p, plan, g) = PlanOutcome(plan, f[n])
    BY <1>1, <1>2, PreparePlanIs
  <1>4. n \in Nat
    BY <1>1, TripsFinite
  <1> DEFINE P == {k \in 0..n : f[k] = Routed(E)}
  <1>5. 0 \in P
    <2> HIDE DEF n
    <2> QED BY <1>3, <1>4 DEF IsAdapting
  <1>6. ASSUME NEW k \in 1..n, k - 1 \in P PROVE k \in P
    <2>1. f[k] = CheckAndAdaptTrip(p, E, k, g)
      <3> HIDE DEF n, E
      <3> QED BY <1>3, <1>6 DEF IsAdapting, Routed
    <2> DEFINE s == SpanAt(E, k)
    <2>2. s \in Trips(E)
      BY <1>1, SpanAtIs
    <2>3. s = Span(s.origin, s.destination) /\ SpanOver(E, s.origin, s.destination)
      BY <1>1, <2>2, TripIs
    <2>4. CheckAndAdaptTrip(p, E, k, g) = Adapted(p, E, s, g)
      BY DEF CheckAndAdaptTrip, Adapted
    <2>5. Stays(p, E, s, g)
      BY <1>1
    <2> HIDE DEF s, E
    <2>6. Adapted(p, E, s, g) = Routed(E)
      BY <1>1, <2>3, <2>5, StaysIs
    <2>7. k \in 0..n
      BY <1>4
    <2> QED BY <2>1, <2>4, <2>6, <2>7
  <1>7. f[n] = Routed(E)
    <2>1. \A k \in 0..n : k \in P
      <3> HIDE DEF P, n
      <3> QED BY <1>4, <1>5, <1>6, UpTo
    <2> HIDE DEF n, E
    <2> QED BY <1>4, <2>1
  <1>8. PreparePlan(p, plan, g) = [ok |-> TRUE, plan |-> [plan EXCEPT !.elements = E]]
    BY <1>3, <1>7 DEF PlanOutcome, Routed
  <1>9. [plan EXCEPT !.elements = E] = plan
    BY DEF IsPlan
  <1> QED BY <1>8, <1>9

-----------------------------------------------------------------------------
(* The preparation in the run.                                              *)

\* The plans of a person can be gone through, and they are prepared.
AreTyped(person) == \A i \in DOMAIN person.plans : AreElements(person.plans[i].elements)
ArePrepared(p, person, g) == \A i \in DOMAIN person.plans : Prepared(p, person.plans[i].elements, g)

PlanAfter(outcome, plan) == IF outcome.ok THEN outcome.plan ELSE plan

\* What prepare_person returns, from what comes out for each plan.
LEMMA PreparePersonIs ==
  ASSUME NEW p, NEW person, NEW g, IsPerson(person), NEW result, result = PreparePerson(p, person, g)
  PROVE  /\ result = [person |-> result.person, issues |-> result.issues]
         /\ result.person = [person EXCEPT !.plans = result.person.plans]
         /\ result.person.plans = [i \in DOMAIN person.plans |-> result.person.plans[i]]
         /\ \A i \in DOMAIN person.plans :
              result.person.plans[i] = PlanAfter(PreparePlan(p, person.plans[i], g), person.plans[i])
         /\ result.issues = {} <=> \A i \in DOMAIN person.plans : PreparePlan(p, person.plans[i], g).ok
PROOF
  <1>1. PICK outcomes : outcomes = [i \in DOMAIN person.plans |-> PreparePlan(p, person.plans[i], g)]
    OBVIOUS
  <1>2. /\ DOMAIN outcomes = DOMAIN person.plans
        /\ \A i \in DOMAIN person.plans : outcomes[i] = PreparePlan(p, person.plans[i], g)
    BY <1>1
  <1> DEFINE after == [i \in DOMAIN person.plans |-> IF outcomes[i].ok THEN outcomes[i].plan ELSE person.plans[i]]
             issues_ == {[person |-> p, plan |-> i, why |-> outcomes[i].why] :
                           i \in {k \in DOMAIN outcomes : ~outcomes[k].ok}}
  <1>3. result = [person |-> [person EXCEPT !.plans = after], issues |-> issues_]
    BY <1>1 DEF PreparePerson, ReplacePlans
  <1>4. PICK plans, sub, attrs : person = [plans |-> plans, sub |-> sub, attrs |-> attrs]
    BY DEF IsPerson
  <1>5. issues_ = {} <=> \A i \in DOMAIN outcomes : outcomes[i].ok
    OBVIOUS
  <1>6. after = [i \in DOMAIN person.plans |-> after[i]] /\ \A i \in DOMAIN person.plans :
          after[i] = IF outcomes[i].ok THEN outcomes[i].plan ELSE person.plans[i]
    OBVIOUS
  <1> HIDE DEF after, issues_
  <1>7. /\ result.person = [person EXCEPT !.plans = after] /\ result.person.plans = after
        /\ result.issues = issues_ /\ result = [person |-> result.person, issues |-> result.issues]
    BY <1>3, <1>4
  <1>8. \A i \in DOMAIN person.plans :
          after[i] = PlanAfter(PreparePlan(p, person.plans[i], g), person.plans[i])
    BY <1>2, <1>6 DEF PlanAfter
  <1>9. issues_ = {} <=> \A i \in DOMAIN person.plans : PreparePlan(p, person.plans[i], g).ok
    BY <1>2, <1>5
  <1> QED BY <1>6, <1>7, <1>8, <1>9

LEMMA PersonPrepared ==
  ASSUME NEW p, NEW person, NEW g, IsPerson(person), AreTyped(person),
         PreparePerson(p, person, g).issues = {}
  PROVE  ArePrepared(p, PreparePerson(p, person, g).person, g)
PROOF
  <1>1. PICK result : result = PreparePerson(p, person, g)
    OBVIOUS
  <1>2. /\ result = [person |-> result.person, issues |-> result.issues]
        /\ result.person = [person EXCEPT !.plans = result.person.plans]
        /\ result.person.plans = [i \in DOMAIN person.plans |-> result.person.plans[i]]
        /\ \A i \in DOMAIN person.plans :
             result.person.plans[i] = PlanAfter(PreparePlan(p, person.plans[i], g), person.plans[i])
        /\ result.issues = {} <=> \A i \in DOMAIN person.plans : PreparePlan(p, person.plans[i], g).ok
    BY <1>1, PreparePersonIs
  <1>3. result.issues = {}
    BY <1>1
  <1>4. ASSUME NEW i \in DOMAIN person.plans
        PROVE  Prepared(p, result.person.plans[i].elements, g)
    <2>1. PICK plan : plan = person.plans[i]
      OBVIOUS
    <2>2. IsPlan(plan) /\ AreElements(plan.elements)
      BY <2>1 DEF IsPerson, ArePlans, IsSequence, AreTyped
    <2>3. IsSequence(plan.elements) /\ \A k \in 1..Len(plan.elements) : IsElement(plan.elements[k])
      BY <2>2, ListIs DEF AreElements
    <2>4. PreparePlan(p, plan, g).ok /\ result.person.plans[i] = PreparePlan(p, plan, g).plan
      BY <1>2, <1>3, <2>1 DEF PlanAfter
    <2>5. PICK F : /\ PreparePlan(p, plan, g) = [ok |-> TRUE, plan |-> [plan EXCEPT !.elements = F]]
                   /\ Prepared(p, F, g)
      BY <2>3, <2>4, PlanPrepared
    <2>6. [plan EXCEPT !.elements = F].elements = F
      <3>1. PICK e, s, sel : plan = [elements |-> e, score |-> s, selected |-> sel]
        BY <2>2 DEF IsPlan
      <3> QED BY <3>1
    <2>7. PreparePlan(p, plan, g).plan = [plan EXCEPT !.elements = F]
      BY <2>5
    <2>8. result.person.plans[i].elements = F
      BY <2>4, <2>6, <2>7
    <2> QED BY <2>5, <2>8
  <1>5. DOMAIN result.person.plans = DOMAIN person.plans
    BY <1>2
  <1> QED BY <1>1, <1>4, <1>5 DEF ArePrepared

LEMMA PersonPreparedAgain ==
  ASSUME NEW p, NEW person, NEW g, IsPerson(person), ArePrepared(p, person, g)
  PROVE  PreparePerson(p, person, g) = [person |-> person, issues |-> {}]
PROOF
  <1>1. PICK result : result = PreparePerson(p, person, g)
    OBVIOUS
  <1>2. /\ result = [person |-> result.person, issues |-> result.issues]
        /\ result.person = [person EXCEPT !.plans = result.person.plans]
        /\ result.person.plans = [i \in DOMAIN person.plans |-> result.person.plans[i]]
        /\ \A i \in DOMAIN person.plans :
             result.person.plans[i] = PlanAfter(PreparePlan(p, person.plans[i], g), person.plans[i])
        /\ result.issues = {} <=> \A i \in DOMAIN person.plans : PreparePlan(p, person.plans[i], g).ok
    BY <1>1, PreparePersonIs
  <1>3. ASSUME NEW i \in DOMAIN person.plans
        PROVE  PreparePlan(p, person.plans[i], g).ok /\ PreparePlan(p, person.plans[i], g).plan = person.plans[i]
    <2>1. IsPlan(person.plans[i]) /\ Prepared(p, person.plans[i].elements, g)
      BY DEF IsPerson, ArePlans, IsSequence, ArePrepared
    <2> QED BY <2>1, PreparedAgain
  <1>4. result.issues = {} /\ \A i \in DOMAIN person.plans : result.person.plans[i] = person.plans[i]
    BY <1>2, <1>3 DEF PlanAfter
  <1>5. result.person.plans = person.plans
    <2>1. person.plans = [i \in DOMAIN person.plans |-> person.plans[i]]
      BY DEF IsPerson, ArePlans, IsSequence
    <2>2. PICK plans : plans = person.plans
      OBVIOUS
    <2> QED BY <1>2, <1>4, <2>1
  <1>6. [person EXCEPT !.plans = person.plans] = person
    BY DEF IsPerson
  <1> QED BY <1>1, <1>2, <1>4, <1>5, <1>6

\* Replanning leaves plans that were there, one selected or not, whatever removes them.
LEMMA ReplannedAmong ==
  ASSUME NEW plans, ArePlans(plans), NEW sub, NEW disabled,
         NEW result \in ReplanResults(sub, plans, disabled), ~result.panics
  PROVE  /\ ArePlans(result.plans)
         /\ \A k \in DOMAIN result.plans : \E i \in DOMAIN plans : result.plans[k] = plans[i]
PROOF
  <1> DEFINE S == {plans[i] : i \in 1..Len(plans)}
             left == result.plans
  <1>1. plans \in Seq(S) /\ DOMAIN plans = 1..Len(plans) /\ \A i \in DOMAIN plans : IsPlan(plans[i])
    BY DEF ArePlans, IsSequence
  <1>2. left \in RemovePlans(plans)
    BY ReplanRemoves
  <1> HIDE DEF left
  <1>3. left \in Seq(S)
    <2> HIDE DEF S
    <2>1. Surplus(plans) \in Nat /\ Surplus(plans) \in 0..Surplus(plans)
      BY <1>1, RemovePlansIs
    <2>2. PICK after : RemovePlans(plans) = after[Surplus(plans)]
                       /\ \A n \in 0..Surplus(plans) : after[n] \subseteq Seq(S)
      BY <1>1, RemovePlansIs
    <2> QED BY <1>2, <2>1, <2>2
  <1>4. DOMAIN left = 1..Len(left) /\ IsSequence(left)
    <2> HIDE DEF S
    <2> QED BY <1>3, SequenceOf
  <1>5. ASSUME NEW k \in DOMAIN left PROVE \E i \in DOMAIN plans : left[k] = plans[i]
    <2>1. left[k] \in S
      <3> HIDE DEF S
      <3> QED BY <1>3, <1>4
    <2> QED BY <1>1, <2>1
  <1> HIDE DEF S
  <1> QED BY <1>1, <1>4, <1>5 DEF ArePlans, left

\* Inductive: the plans that are read can be gone through, and once a person has been
\* prepared without an issue all plans are prepared, until the end.
ReadInv ==
  /\ input \in Inputs /\ (phase = "convert" => input.tool # "none")
  /\ phase \in {"convert", "read"} => PlansInFile(files.plans) /\ iteration = FirstIteration
  /\ iteration \in Nat /\ iteration >= FirstIteration
MemoryInv ==
  phase # "notReplanned" =>
    population = [p \in Persons |-> population[p]] /\ \A p \in Persons : IsPerson(population[p])
FirstInv ==
  phase = "prepare" /\ iteration = FirstIteration => \A p \in todo : AreTyped(population[p])
IssuesInv ==
  phase \in {"mobsim", "replan"} \/ (phase = "prepare" /\ iteration > FirstIteration) => issues = {}
PreparedInv ==
  issues = {} /\ phase \in {"prepare", "mobsim", "replan"} =>
    \A p \in Persons : \/ phase = "prepare" /\ iteration = FirstIteration /\ p \in todo
                       \/ ArePrepared(p, population[p], Vehicles)
PInv == ReadInv /\ MemoryInv /\ FirstInv /\ IssuesInv /\ PreparedInv

LEMMA PInvInit == Init => PInv
PROOF
  <1> SUFFICES ASSUME Init PROVE PInv
    OBVIOUS
  <1>1. ReadInv
    BY PlanCycleAssumption DEF Init, ReadInv
  <1>2. Persons = {} /\ population = [p \in Persons |-> population[p]]
    BY DEF Init, Persons
  <1>3. phase \in {"convert", "read"}
    BY DEF Init
  <1> QED BY <1>1, <1>2, <1>3 DEF PInv, MemoryInv, FirstInv, IssuesInv, PreparedInv

LEMMA ConvertKeepsP == PInv /\ Convert => PInv'
PROOF
  <1> SUFFICES ASSUME PInv, Convert PROVE PInv'
    OBVIOUS
  <1>1. /\ phase = "convert" /\ phase' \in {"read", "notConverted"} /\ input' = input
        /\ iteration' = iteration /\ population' = population
    BY DEF Convert
  <1>2. ReadInv'
    <2>1. CASE phase' = "notConverted"
      BY <1>1, <2>1 DEF PInv, ReadInv
    <2>2. CASE phase' = "read"
      <3>1. files' \in Conversions(input.tool, files)
        BY <2>2 DEF Convert
      <3>2. input.tool \in {"convert_to_binary", "convert_to_xml"} /\ PlansInFile(files.plans)
        BY <1>1, PlanCycleAssumption DEF PInv, ReadInv
      <3>3. PlansInFile(files'.plans)
        BY <3>1, <3>2, Converted
      <3> QED BY <1>1, <2>2, <3>3 DEF PInv, ReadInv
    <2> QED BY <1>1, <2>1, <2>2
  <1>3. MemoryInv'
    BY <1>1 DEF PInv, MemoryInv, Persons
  <1> QED BY <1>1, <1>2, <1>3 DEF PInv, FirstInv, IssuesInv, PreparedInv

LEMMA ReadKeepsP == PInv /\ Read => PInv'
PROOF
  <1> SUFFICES ASSUME PInv, Read PROVE PInv'
    OBVIOUS
  <1>1. /\ phase = "read" /\ phase' \in {"prepare", "unreadable"} /\ input' = input
        /\ iteration' = iteration
    BY DEF Read
  <1>2. iteration = FirstIteration /\ PlansInFile(files.plans)
    BY <1>1 DEF PInv, ReadInv
  <1>3. ReadInv'
    BY <1>1 DEF PInv, ReadInv
  <1>4. CASE phase' = "unreadable"
    <2>1. population' = population
      BY <1>4 DEF Read
    <2>2. MemoryInv'
      BY <1>1, <2>1 DEF PInv, MemoryInv, Persons
    <2> QED BY <1>3, <1>4, <2>2 DEF PInv, FirstInv, IssuesInv, PreparedInv
  <1>5. CASE phase' = "prepare"
    <2>1. population' = ReadPopulation(files.plans) /\ todo' = DOMAIN population' /\ ScenarioReadable(files)
      BY <1>5 DEF Read, LoadScenario
    <2>2. /\ population' = [p \in DOMAIN files.plans.persons |-> population'[p]]
          /\ \A p \in DOMAIN files.plans.persons :
               population'[p] = FromFile(files.plans.format, files.plans.persons[p], p)
      BY <2>1 DEF ReadPopulation
    <2>3. Persons' = DOMAIN files.plans.persons
      BY <2>2 DEF Persons
    <2>4. ASSUME NEW p \in DOMAIN files.plans.persons
          PROVE  IsPerson(population'[p]) /\ AreTyped(population'[p])
      <3>1. Readable(files.plans.format, files.plans.persons[p])
        BY <2>1 DEF ScenarioReadable
      <3>2. PICK person : person = FromFile(files.plans.format, files.plans.persons[p], p)
        OBVIOUS
      <3>3. IsPerson(person) /\ \A i \in DOMAIN person.plans : AreElements(person.plans[i].elements)
        BY <1>2, <3>1, <3>2, PersonRead
      <3> QED BY <2>2, <3>2, <3>3 DEF AreTyped
    <2>5. MemoryInv'
      BY <2>2, <2>3, <2>4 DEF MemoryInv, IsPerson, ArePlans
    <2>6. FirstInv'
      BY <2>1, <2>3, <2>4 DEF FirstInv, AreTyped, Persons
    <2>7. IssuesInv'
      BY <1>1, <1>2, <1>5, PlanCycleAssumption DEF IssuesInv
    <2>8. PreparedInv'
      BY <1>1, <1>2, <1>5, <2>1 DEF PreparedInv, Persons
    <2> QED BY <1>3, <2>5, <2>6, <2>7, <2>8 DEF PInv
  <1> QED BY <1>1, <1>4, <1>5

\* A person who has been prepared, in the first iteration and in a later one.
LEMMA PrepareIs ==
  ASSUME PInv, NEW p \in Persons, Prepare(p)
  PROVE  /\ Persons' = Persons /\ population' = [q \in Persons |-> population'[q]] /\ p \in todo
         /\ todo' = todo \ {p} /\ issues' = issues \cup PreparePerson(p, population[p], Vehicles).issues
         /\ IsPerson(population'[p]) /\ \A q \in Persons : q # p => population'[q] = population[q]
         /\ issues' = {} => ArePrepared(p, population'[p], Vehicles)
         /\ iteration > FirstIteration => population' = population /\ issues' = issues
PROOF
  <1>1. PICK result : result = PreparePerson(p, population[p], Vehicles)
    OBVIOUS
  <1>2. /\ phase = "prepare" /\ p \in todo /\ todo' = todo \ {p}
        /\ population' = [population EXCEPT ![p] = result.person] /\ issues' = issues \cup result.issues
    BY <1>1 DEF Prepare
  <1>3. population = [q \in Persons |-> population[q]] /\ IsPerson(population[p])
    BY <1>2 DEF PInv, MemoryInv
  <1>4. /\ Persons' = Persons /\ population' = [q \in Persons |-> population'[q]]
        /\ \A q \in Persons : population'[q] = IF q = p THEN result.person ELSE population[q]
    BY <1>2, <1>3, OneChanged
  <1>5. IsPerson(result.person)
    BY <1>1, <1>3, PreparedPerson
  <1>6. ArePrepared(p, population[p], Vehicles) => result = [person |-> population[p], issues |-> {}]
    BY <1>1, <1>3, PersonPreparedAgain
  <1>7. ASSUME iteration > FirstIteration
        PROVE  ArePrepared(p, population[p], Vehicles)
    <2>1. issues = {} /\ iteration # FirstIteration
      BY <1>2, <1>7, PlanCycleAssumption DEF PInv, IssuesInv, ReadInv
    <2> QED BY <1>2, <2>1 DEF PInv, PreparedInv
  <1>8. ASSUME issues' = {} PROVE ArePrepared(p, result.person, Vehicles)
    <2>1. result.issues = {} /\ issues = {}
      BY <1>2, <1>8
    <2>2. CASE iteration = FirstIteration
      <3>1. AreTyped(population[p])
        BY <1>2, <2>2 DEF PInv, FirstInv
      <3> QED BY <1>1, <1>3, <2>1, <3>1, PersonPrepared
    <2>3. CASE iteration # FirstIteration
      <3>1. ArePrepared(p, population[p], Vehicles)
        BY <1>2, <2>1, <2>3 DEF PInv, PreparedInv
      <3> QED BY <1>6, <3>1
    <2> QED BY <2>2, <2>3
  <1>9. ASSUME iteration > FirstIteration PROVE population' = population /\ issues' = issues
    <2>1. result = [person |-> population[p], issues |-> {}]
      BY <1>6, <1>7, <1>9
    <2>2. result.person = population[p] /\ result.issues = {}
      BY <2>1
    <2>3. \A q \in Persons : population'[q] = population[q]
      BY <1>4, <2>2
    <2>4. population' = population
      BY <1>3, <1>4, <2>3
    <2> QED BY <1>2, <2>2, <2>4
  <1> QED BY <1>1, <1>2, <1>4, <1>5, <1>8, <1>9

LEMMA PrepareKeepsP == ASSUME NEW p \in Persons PROVE PInv /\ Prepare(p) => PInv'
PROOF
  <1> SUFFICES ASSUME PInv, Prepare(p) PROVE PInv'
    OBVIOUS
  <1>1. /\ phase = "prepare" /\ phase' = phase /\ input' = input /\ iteration' = iteration
        /\ Vehicles' = Vehicles
    BY DEF Prepare, Vehicles, core
  <1>2. /\ Persons' = Persons /\ population' = [q \in Persons |-> population'[q]] /\ p \in todo
        /\ todo' = todo \ {p} /\ issues' = issues \cup PreparePerson(p, population[p], Vehicles).issues
        /\ IsPerson(population'[p]) /\ \A q \in Persons : q # p => population'[q] = population[q]
        /\ issues' = {} => ArePrepared(p, population'[p], Vehicles)
        /\ iteration > FirstIteration => population' = population /\ issues' = issues
    BY PrepareIs
  <1>3. ReadInv'
    BY <1>1 DEF PInv, ReadInv
  <1>4. MemoryInv'
    <2>1. \A q \in Persons : IsPerson(population'[q])
      BY <1>1, <1>2 DEF PInv, MemoryInv
    <2> QED BY <1>2, <2>1 DEF MemoryInv, IsPerson, ArePlans
  <1>5. FirstInv'
    <2>1. ASSUME iteration = FirstIteration, NEW q \in todo' PROVE AreTyped(population'[q])
      <3>1. q \in todo /\ q # p
        BY <1>2
      <3>2. AreTyped(population[q])
        BY <1>1, <2>1, <3>1 DEF PInv, FirstInv
      <3>3. population'[q] = population[q]
        <4>1. population' = [population EXCEPT ![p] = PreparePerson(p, population[p], Vehicles).person]
          BY DEF Prepare
        <4> QED BY <3>1, <4>1
      <3> QED BY <3>2, <3>3
    <2> QED BY <1>1, <2>1 DEF FirstInv, AreTyped
  <1>6. IssuesInv'
    BY <1>1, <1>2 DEF PInv, IssuesInv
  <1>7. PreparedInv'
    <2>1. ASSUME issues' = {}, NEW q \in Persons
          PROVE  \/ iteration = FirstIteration /\ q \in todo'
                 \/ ArePrepared(q, population'[q], Vehicles)
      <3>1. CASE q = p
        BY <1>2, <2>1, <3>1
      <3>2. CASE q # p
        <4>1. issues = {}
          BY <1>2, <2>1
        <4> QED BY <1>1, <1>2, <3>2, <4>1 DEF PInv, PreparedInv
      <3> QED BY <3>1, <3>2
    <2> QED BY <1>1, <1>2, <2>1 DEF PreparedInv, ArePrepared
  <1> QED BY <1>3, <1>4, <1>5, <1>6, <1>7 DEF PInv

LEMMA ReplanKeepsP == ASSUME NEW p \in Persons PROVE PInv /\ Replan(p) => PInv'
PROOF
  <1> SUFFICES ASSUME PInv, Replan(p) PROVE PInv'
    OBVIOUS
  <1>1. /\ phase = "replan" /\ phase' \in {"replan", "notReplanned"} /\ input' = input
        /\ iteration' = iteration /\ issues' = issues /\ Vehicles' = Vehicles
    BY DEF Replan, Vehicles, core
  <1>2. ReadInv' /\ FirstInv'
    BY <1>1 DEF PInv, ReadInv, FirstInv
  <1>3. issues = {} /\ IssuesInv'
    BY <1>1 DEF PInv, IssuesInv
  <1>4. CASE phase' = "notReplanned"
    BY <1>2, <1>3, <1>4 DEF PInv, MemoryInv, PreparedInv
  <1>5. CASE phase' = "replan"
    <2>1. PICK result \in ReplanResults(population[p].sub, population[p].plans, InnovationDisabled(iteration)) :
            /\ population' = [population EXCEPT ![p].plans = result.plans]
            /\ phase' = IF result.panics THEN "notReplanned" ELSE phase
      BY DEF Replan
    <2>2. ~result.panics
      BY <1>5, <2>1
    <2>3. /\ population = [q \in Persons |-> population[q]]
          /\ \A q \in Persons : IsPerson(population[q]) /\ ArePrepared(q, population[q], Vehicles)
      BY <1>1, <1>3 DEF PInv, MemoryInv, PreparedInv
    <2>4. /\ ArePlans(result.plans)
          /\ \A k \in DOMAIN result.plans : \E i \in DOMAIN population[p].plans :
               result.plans[k] = population[p].plans[i]
      BY <2>2, <2>3, ReplannedAmong DEF IsPerson
    <2> DEFINE person == [population[p] EXCEPT !.plans = result.plans]
    <2>5. population' = [population EXCEPT ![p] = person]
      BY <2>1, <2>3
    <2>6. IsPerson(person) /\ person.plans = result.plans
      <3>1. PICK plans, sub, attrs : population[p] = [plans |-> plans, sub |-> sub, attrs |-> attrs]
        BY <2>3 DEF IsPerson
      <3>2. person = [plans |-> result.plans, sub |-> sub, attrs |-> attrs]
        BY <3>1
      <3> HIDE DEF person
      <3> QED BY <2>4, <3>2 DEF IsPerson
    <2>7. ArePrepared(p, person, Vehicles)
      <3>1. ASSUME NEW k \in DOMAIN result.plans PROVE Prepared(p, result.plans[k].elements, Vehicles)
        <4>1. PICK i \in DOMAIN population[p].plans : result.plans[k] = population[p].plans[i]
          BY <2>4
        <4>2. Prepared(p, population[p].plans[i].elements, Vehicles)
          BY <2>3 DEF ArePrepared
        <4> QED BY <4>1, <4>2
      <3> HIDE DEF person
      <3> QED BY <2>6, <3>1 DEF ArePrepared
    <2> HIDE DEF person
    <2>8. /\ Persons' = Persons /\ population' = [q \in Persons |-> population'[q]]
          /\ \A q \in Persons : population'[q] = IF q = p THEN person ELSE population[q]
      BY <2>3, <2>5, OneChanged
    <2>9. \A q \in Persons : IsPerson(population'[q]) /\ ArePrepared(q, population'[q], Vehicles)
      BY <2>3, <2>6, <2>7, <2>8
    <2>10. MemoryInv'
      BY <2>8, <2>9 DEF MemoryInv, IsPerson, ArePlans
    <2>11. PreparedInv'
      BY <1>1, <2>8, <2>9 DEF PreparedInv, ArePrepared
    <2> QED BY <1>2, <1>3, <2>10, <2>11 DEF PInv
  <1> QED BY <1>1, <1>4, <1>5

\* The steps of the controller alone, which leave the plans as they are.
LEMMA ControllerKeepsP ==
  PInv /\ (EndPrepare \/ Simulate \/ MobsimPanics \/ NextIteration \/ WriteOutput \/ UNCHANGED vars) => PInv'
PROOF
  <1> SUFFICES ASSUME PInv, EndPrepare \/ Simulate \/ MobsimPanics \/ NextIteration \/ WriteOutput \/ UNCHANGED vars
               PROVE  PInv'
    OBVIOUS
  <1>1. /\ input' = input /\ population' = population /\ Persons' = Persons /\ Vehicles' = Vehicles
        /\ files' = files /\ issues' = issues
    BY DEF EndPrepare, Simulate, MobsimPanics, NextIteration, WriteOutput, vars, Vehicles, core, Persons
  <1>2. CASE phase' \notin {"convert", "read", "prepare", "mobsim", "replan", "notReplanned"} /\ iteration' = iteration
             /\ phase # "notReplanned"
    <2>1. ReadInv'
      BY <1>1, <1>2 DEF PInv, ReadInv
    <2>2. MemoryInv'
      BY <1>1, <1>2 DEF PInv, MemoryInv
    <2> QED BY <1>2, <2>1, <2>2 DEF PInv, FirstInv, IssuesInv, PreparedInv
  <1>3. CASE EndPrepare
    <2>1. /\ phase = "prepare" /\ todo = {} /\ iteration' = iteration
          /\ phase' = IF issues = {} THEN "mobsim" ELSE "notPrepared"
      BY <1>3 DEF EndPrepare
    <2>2. CASE issues = {}
      <3>1. phase' = "mobsim"
        BY <2>1, <2>2
      <3>2. ReadInv'
        BY <1>1, <2>1, <3>1 DEF PInv, ReadInv
      <3>3. MemoryInv'
        BY <1>1, <2>1, <3>1 DEF PInv, MemoryInv
      <3>4. PreparedInv'
        BY <1>1, <2>1, <2>2, <3>1 DEF PInv, PreparedInv
      <3> QED BY <1>1, <2>2, <3>1, <3>2, <3>3, <3>4 DEF PInv, FirstInv, IssuesInv
    <2>3. CASE issues # {}
      BY <1>2, <2>1, <2>3
    <2> QED BY <2>2, <2>3
  <1>4. CASE Simulate
    <2>1. phase = "mobsim" /\ phase' \in {"output", "replan"} /\ iteration' = iteration
      BY <1>4 DEF Simulate
    <2>2. CASE phase' = "replan"
      <3>1. ReadInv'
        BY <1>1, <2>1, <2>2 DEF PInv, ReadInv
      <3>2. MemoryInv'
        BY <1>1, <2>1, <2>2 DEF PInv, MemoryInv
      <3>3. PreparedInv'
        BY <1>1, <2>1, <2>2 DEF PInv, PreparedInv
      <3> QED BY <1>1, <2>1, <2>2, <3>1, <3>2, <3>3 DEF PInv, FirstInv, IssuesInv
    <2>3. CASE phase' = "output"
      BY <1>2, <2>1, <2>3
    <2> QED BY <2>1, <2>2, <2>3
  <1>5. CASE MobsimPanics
    <2>1. phase = "mobsim" /\ phase' \in {"notSplit", "noVehicle"} /\ iteration' = iteration
      BY <1>5 DEF MobsimPanics
    <2> QED BY <1>2, <2>1
  <1>6. CASE NextIteration
    <2>1. phase = "replan" /\ phase' = "prepare" /\ iteration' = iteration + 1
      BY <1>6 DEF NextIteration
    <2>2. issues = {} /\ iteration \in Nat /\ iteration' > FirstIteration /\ iteration' # FirstIteration
      BY <2>1, PlanCycleAssumption DEF PInv, IssuesInv, ReadInv
    <2>3. ReadInv'
      BY <1>1, <2>1, <2>2, PlanCycleAssumption DEF PInv, ReadInv
    <2>4. MemoryInv'
      BY <1>1, <2>1 DEF PInv, MemoryInv
    <2>5. FirstInv' /\ IssuesInv'
      BY <1>1, <2>1, <2>2 DEF FirstInv, IssuesInv
    <2>6. PreparedInv'
      BY <1>1, <2>1, <2>2 DEF PInv, PreparedInv
    <2> QED BY <2>3, <2>4, <2>5, <2>6 DEF PInv
  <1>7. CASE WriteOutput
    <2>1. phase = "output" /\ phase' = "done" /\ iteration' = iteration
      BY <1>7 DEF WriteOutput
    <2> QED BY <1>2, <2>1
  <1>8. CASE UNCHANGED vars
    BY <1>1, <1>8 DEF vars, PInv, ReadInv, MemoryInv, FirstInv, IssuesInv, PreparedInv
  <1> QED BY <1>3, <1>4, <1>5, <1>6, <1>7, <1>8

LEMMA PInvStep == PInv /\ [Next]_vars => PInv'
  BY ConvertKeepsP, ReadKeepsP, PrepareKeepsP, ReplanKeepsP, ControllerKeepsP DEF Next, Terminated

\* What replanning leaves behind is not changed by the preparation of a later iteration:
\* every plan there is has been prepared, and a prepared plan is routed as it is.
THEOREM PreparedOnce == Spec => PreparedStaysPrepared
PROOF
  <1>1. PInv /\ [Next]_vars =>
          [phase = "prepare" /\ iteration > FirstIteration => population' = population]_vars
    <2> SUFFICES ASSUME PInv, Next, phase = "prepare", iteration > FirstIteration
                 PROVE  population' = population
      BY DEF vars
    <2>1. CASE \E p \in Persons : Prepare(p)
      <3>1. PICK p \in Persons : Prepare(p)
        BY <2>1
      <3> QED BY <3>1, PrepareIs
    <2>2. CASE EndPrepare \/ Terminated
      BY <2>2 DEF EndPrepare, Terminated, vars
    <2>3. ~Convert /\ ~Read /\ ~Simulate /\ ~MobsimPanics /\ ~NextIteration /\ ~WriteOutput
          /\ \A p \in Persons : ~Replan(p)
      BY DEF Convert, Read, Simulate, MobsimPanics, NextIteration, WriteOutput, Replan
    <2> QED BY <2>1, <2>2, <2>3 DEF Next
  <1> QED BY <1>1, PInvInit, PInvStep, PTL DEF Spec, PreparedStaysPrepared

-----------------------------------------------------------------------------
(* Every other element.                                                     *)

\* The places up to i that are odd (r = 1) or even (r = 0).
Half(i, r) == (i + r) \div 2

LEMMA Halves ==
  ASSUME NEW i \in Nat, i > 0, NEW r \in {0, 1}
  PROVE  /\ i % 2 = r => Half(i, r) = Half(i - 1, r) + 1 /\ i = 2 * Half(i, r) - r
         /\ i % 2 # r => Half(i, r) = Half(i - 1, r)
         /\ Half(i, r) \in Nat /\ Half(i - 1, r) \in Nat
  BY DEF Half

\* What is at every other place of a sequence.
LEMMA EveryOther ==
  ASSUME NEW S, NEW q \in Seq(S), NEW T, NEW r \in {0, 1}, \A i \in 1..Len(q) : q[i] \in T <=> i % 2 = r
  PROVE  /\ Len(Those(q, T)) = Half(Len(q), r)
         /\ \A k \in 1..Half(Len(q), r) : Those(q, T)[k] = q[2 * k - r]
PROOF
  <1> DEFINE n == Len(q)
  <1>1. PICK g \in [0..n -> Seq(S)] : IsThose(g, q, T, n) /\ Those(q, T) = g[n]
    BY ThoseIs
  <1>2. n \in Nat /\ Half(0, r) = 0
    BY DEF Half
  <1> DEFINE Good(i) == /\ Len(g[i]) = Half(i, r)
                        /\ \A k \in 1..Half(i, r) : g[i][k] = q[2 * k - r]
             P == {i \in 0..n : Good(i)}
  <1>3. 0 \in P
    <2>1. g[0] = <<>> /\ 0 \in 0..n
      BY <1>1, <1>2 DEF IsThose
    <2> QED BY <1>2, <2>1
  <1>4. ASSUME NEW i \in 1..n, i - 1 \in P PROVE i \in P
    <2> DEFINE m == Half(i - 1, r)
    <2>1. i \in 0..n /\ i # 0 /\ i - 1 \in 0..n /\ i \in Nat /\ i > 0
      BY <1>2
    <2>2. g[i - 1] \in Seq(S) /\ g[i] = IF q[i] \in T THEN Append(g[i - 1], q[i]) ELSE g[i - 1]
      <3> HIDE DEF n
      <3> QED BY <1>1, <2>1 DEF IsThose
    <2>3. /\ Len(g[i - 1]) = m /\ (q[i] \in T <=> i % 2 = r) /\ q[i] \in S
          /\ \A k \in 1..m : g[i - 1][k] = q[2 * k - r]
      BY <1>2, <1>4
    <2>4. m \in Nat
      BY <2>1, Halves
    <2>5. CASE i % 2 = r
      <3>1. Half(i, r) = m + 1 /\ i = 2 * (m + 1) - r
        <4>1. Half(i, r) = m + 1 /\ i = 2 * Half(i, r) - r
          BY <2>1, <2>5, Halves
        <4> HIDE DEF m
        <4> QED BY <4>1
      <3> HIDE DEF m
      <3>2. Len(g[i]) = m + 1 /\ g[i][m + 1] = q[i] /\ \A k \in 1..m : g[i][k] = g[i - 1][k]
        BY <2>2, <2>3, <2>4, <2>5
      <3>3. \A k \in 1..m + 1 : k \in 1..m \/ k = m + 1
        BY <2>4
      <3>4. \A k \in 1..m + 1 : g[i][k] = q[2 * k - r]
        BY <2>3, <3>1, <3>2, <3>3
      <3> QED BY <2>1, <3>1, <3>2, <3>4
    <2>6. CASE i % 2 # r
      <3>1. Half(i, r) = m
        BY <2>1, <2>6, Halves
      <3> HIDE DEF m
      <3> QED BY <2>1, <2>2, <2>3, <2>6, <3>1
    <2> QED BY <2>5, <2>6
  <1>5. Good(n)
    <2> HIDE DEF P, n
    <2>1. \A i \in 0..n : i \in P
      BY <1>2, <1>3, <1>4, UpTo
    <2>2. n \in P
      BY <1>2, <2>1
    <2> QED BY <2>2 DEF P
  <1> QED BY <1>1, <1>5

\* Activities and legs in turn are put together from the activities and the legs.
LEMMA ZipIs ==
  ASSUME NEW E, AreElements(E), WellFormed(E)
  PROVE  ZipLongest(OfKind(E, "act"), OfKind(E, "leg")) = E
PROOF
  <1> DEFINE S == Range(E)
             n == Len(E)
             acts == OfKind(E, "act")
             legs == OfKind(E, "leg")
  <1>1. E \in Seq(S) /\ n \in Nat /\ n % 2 = 1 /\ E = [i \in 1..n |-> E[i]]
    BY DEF AreElements, IsList, WellFormed
  <1>2. \A i \in 1..n : /\ E[i] \in S /\ (E[i].kind = "act" <=> i % 2 = 1) /\ (E[i].kind = "leg" <=> i % 2 = 0)
    BY <1>1 DEF WellFormed
  <1> HIDE DEF S
  <1>3. Len(acts) = Half(n, 1) /\ \A k \in 1..Half(n, 1) : acts[k] = E[2 * k - 1]
    <2> DEFINE T == {x \in S : x.kind = "act"}
    <2>1. acts = Those(E, T) /\ \A i \in 1..n : E[i] \in T <=> i % 2 = 1
      BY <1>1, <1>2, OfKindIs
    <2> HIDE DEF T, acts
    <2> QED BY <1>1, <2>1, EveryOther
  <1>4. Len(legs) = Half(n, 0) /\ \A k \in 1..Half(n, 0) : legs[k] = E[2 * k - 0]
    <2> DEFINE T == {x \in S : x.kind = "leg"}
    <2>1. legs = Those(E, T) /\ \A i \in 1..n : E[i] \in T <=> i % 2 = 0
      BY <1>1, <1>2, OfKindIs
    <2> HIDE DEF T, legs
    <2> QED BY <1>1, <2>1, EveryOther
  <1>5. PICK m \in Nat : n = 2 * m + 1 /\ Half(n, 1) = m + 1 /\ Half(n, 0) = m
    <2>1. n \div 2 \in Nat /\ n = 2 * (n \div 2) + 1 /\ Half(n, 1) = n \div 2 + 1 /\ Half(n, 0) = n \div 2
      <3> HIDE DEF n
      <3> QED BY <1>1 DEF Half
    <2> QED BY <2>1
  <1> HIDE DEF n, acts, legs
  <1>6. /\ Len(acts) = m + 1 /\ \A k \in 1..m + 1 : acts[k] = E[2 * k - 1]
        /\ Len(legs) = m /\ \A k \in 1..m : legs[k] = E[2 * k]
    BY <1>3, <1>4, <1>5
  <1>7. ASSUME NEW k \in 1..n
        PROVE  E[k] = IF k > 2 * Len(legs) THEN acts[k - Len(legs)]
                      ELSE IF k % 2 = 1 THEN acts[(k + 1) \div 2] ELSE legs[k \div 2]
    <2>1. CASE k > 2 * m
      <3>1. k - m = m + 1 /\ 2 * (m + 1) - 1 = k
        BY <1>5, <2>1
      <3> QED BY <1>6, <2>1, <3>1
    <2>2. CASE k <= 2 * m /\ k % 2 = 1
      <3>1. (k + 1) \div 2 \in 1..m + 1 /\ 2 * ((k + 1) \div 2) - 1 = k
        BY <1>5, <2>2
      <3>2. acts[(k + 1) \div 2] = E[k]
        BY <1>6, <3>1
      <3>3. ~(k > 2 * Len(legs))
        BY <1>5, <1>6, <2>2
      <3> QED BY <2>2, <3>2, <3>3
    <2>3. CASE k <= 2 * m /\ k % 2 # 1
      <3>1. k \div 2 \in 1..m /\ 2 * (k \div 2) = k
        BY <1>5, <2>3
      <3>2. legs[k \div 2] = E[k]
        BY <1>6, <3>1
      <3>3. ~(k > 2 * Len(legs))
        BY <1>5, <1>6, <2>3
      <3> QED BY <2>3, <3>2, <3>3
    <2>4. k \in Nat
      BY <1>5
    <2> QED BY <2>1, <2>2, <2>3, <2>4
  <1>8. Len(acts) + Len(legs) = n
    BY <1>5, <1>6
  <1>9. ZipLongest(acts, legs) = [k \in 1..n |-> E[k]]
    BY <1>7, <1>8 DEF ZipLongest
  <1> QED BY <1>1, <1>9 DEF acts, legs

-----------------------------------------------------------------------------
(* Which runs complete.                                                     *)

\* The vehicles of the files that the user has prepared.
GivenVehicles(in) == DOMAIN GarageWithPlans(in.files.vehicles, in.files.plans).vehicles

\* The legs have vehicles of g.
VehiclesIn(E, g) == \A k \in DOMAIN E : HasVehicle(E[k], g)

\* A plan leads from one main activity to another.
Closed(E) == WellFormed(E) /\ IsMain(E[1]) /\ IsMain(E[Len(E)])

\* Where the best plan may be asked for, there is a plan with a score, and room for it.
HasScore(person) ==
  "BestScore" \in ChosenStrategies(person.sub, TRUE) =>
    MaxMemory > 1 /\ \E i \in DOMAIN person.plans : person.plans[i].score # NoScore

IsComplete(person, g) ==
  /\ person.sub # Absent /\ "subpopulation" \in DOMAIN person.attrs /\ HasScore(person)
  /\ \A i \in DOMAIN person.plans : Closed(person.plans[i].elements) /\ VehiclesIn(person.plans[i].elements, g)

\* A link is in one of the parts there are workers for, or the user's network has others.
KnownPart(part, in) ==
  part \in Int /\ (part < NumParts \/ \E l \in in.files.network.links : l.partition >= NumParts)

NetworkFits(file, in) ==
  /\ DOMAIN Net \subseteq {l.id : l \in file.links}
  /\ {n.id : n \in file.nodes} \subseteq DOMAIN MetisPartition
  /\ \A l \in file.links : KnownPart(l.partition, in)

\* The words for no vehicle are no vehicles.
NoVehicles == {NoVehicle, <<Absent>>, <<"null">>}

\* Files that make a scenario whose runs complete.
FilesFit(fs, in) ==
  ScenarioReadable(fs) =>
    /\ NetworkFits(fs.network, in)
    /\ NoVehicles \cap GivenVehicles(in) = {}
    /\ in.tool # "convert_to_xml" =>
         GivenVehicles(in) \subseteq DOMAIN GarageWithPlans(fs.vehicles, fs.plans).vehicles
    /\ \A p \in DOMAIN fs.plans.persons :
         IsComplete(FromFile(fs.plans.format, fs.plans.persons[p], p), GivenVehicles(in))

-----------------------------------------------------------------------------
(* Conversions keep what a run needs.                                       *)

LEMMA LegAgain ==
  ASSUME NEW leg, IsLeg(leg), NEW id, NEW g, NoVehicles \cap g = {}, HasVehicle(leg, g)
  PROVE  LET e == LegFromXml(LegToXml(leg), id) IN e.kind = "leg" /\ HasVehicle(e, g)
PROOF
  <1> DEFINE x == LegToXml(leg)
             e == LegFromXml(x, id)
  <1>1. PICK mode, rmode, attr, dep, trav, route :
          leg = [kind |-> "leg", mode |-> mode, rmode |-> rmode, attr |-> attr, dep |-> dep,
                 trav |-> trav, route |-> route]
    BY DEF IsLeg
  <1>2. /\ x = [kind |-> "leg", mode |-> mode, rmode |-> Absent, attr |-> x.attr, dep |-> dep,
                trav |-> trav, route |-> x.route]
        /\ x.route = RouteToXml(route)
    <2>1. PICK a, r : a = RoutingModeAttr(leg) /\ r = RouteToXml(route)
      OBVIOUS
    <2>2. leg.route = route
      BY <1>1
    <2>3. x = [leg EXCEPT !.rmode = Absent, !.attr = a, !.route = r]
      BY <2>1, <2>2 DEF LegToXml
    <2>4. x = [kind |-> "leg", mode |-> mode, rmode |-> Absent, attr |-> a, dep |-> dep,
               trav |-> trav, route |-> r]
      BY <1>1, <2>3
    <2> HIDE DEF x
    <2>5. x.attr = a /\ x.route = r
      BY <2>4
    <2> QED BY <2>1, <2>4, <2>5
  <1> HIDE DEF x
  <1>3. e.kind = "leg" /\ e.mode = mode /\ e.route = RouteFromXml(x.route, id, mode)
    BY <1>2 DEF LegFromXml
  <1> HIDE DEF e
  <1>4. ASSUME IsDriven(e) PROVE "veh" \in DOMAIN e.route /\ e.route.veh \in g
    <2>1. route # NoRoute /\ x.route # NoRoute /\ mode \in MainModes
      BY <1>2, <1>3, <1>4 DEF IsDriven, RouteToXml, RouteFromXml
    <2>2. "veh" \in DOMAIN route /\ route.veh \in g
      BY <1>1, <2>1 DEF HasVehicle, IsDriven
    <2>3. route.veh \notin {NoVehicle, <<Absent>>, <<"null">>}
      BY <2>2 DEF NoVehicles
    <2>4. "veh" \in DOMAIN x.route /\ x.route.veh = route.veh
      BY <1>2, <2>1, <2>2, <2>3 DEF RouteToXml
    <2>5. "veh" \in DOMAIN e.route /\ e.route.veh = route.veh
      BY <1>3, <2>1, <2>3, <2>4 DEF RouteFromXml
    <2> QED BY <2>2, <2>5
  <1> QED BY <1>3, <1>4 DEF HasVehicle, e, x

LEMMA ElementsAgain ==
  ASSUME NEW E, AreElements(E), Closed(E), NEW id, NEW g, NoVehicles \cap g = {}, VehiclesIn(E, g)
  PROVE  LET F == ElementsFromXml(ElementsToXml(E), id) IN Closed(F) /\ VehiclesIn(F, g)
PROOF
  <1> DEFINE x == ElementsToXml(E)
             F == ElementsFromXml(x, id)
             n == Len(E)
  <1>1. E \in Seq(Range(E)) /\ n \in Nat /\ DOMAIN E = 1..n /\ n % 2 = 1
    BY DEF AreElements, IsList, Closed, WellFormed
  <1>2. \A i \in 1..n : IsElement(E[i])
    BY <1>1, ListIs DEF AreElements
  <1>3. /\ x = [i \in 1..n |-> IF E[i].kind = "leg" THEN LegToXml(E[i]) ELSE ActivityInXml(E[i])]
        /\ DOMAIN x = 1..n
    BY <1>1 DEF ElementsToXml
  <1>4. /\ F = [i \in 1..n |-> IF x[i].kind = "leg" THEN LegFromXml(x[i], id) ELSE ActivityInXml(x[i])]
        /\ DOMAIN F = 1..n
    <2> HIDE DEF x
    <2> QED BY <1>3 DEF ElementsFromXml
  <1> HIDE DEF x, F, n
  <1>5. ASSUME NEW i \in 1..n
        PROVE  F[i].kind = E[i].kind /\ (IsMain(E[i]) => IsMain(F[i])) /\ HasVehicle(F[i], g)
    <2>1. CASE IsActivity(E[i])
      <3>1. x[i] = ActivityInXml(E[i]) /\ E[i].kind = "act" /\ x[i].kind = "act"
        BY <1>3, <2>1, ActivityInXmlIs DEF IsActivity
      <3>2. F[i] = x[i]
        BY <1>4, <2>1, <3>1, ActivityInXmlIs
      <3>3. F[i].kind = "act" /\ F[i].main = E[i].main
        BY <2>1, <3>1, <3>2, ActivityInXmlIs
      <3> QED BY <3>1, <3>3 DEF HasVehicle, IsDriven, IsMain
    <2>2. CASE IsLeg(E[i])
      <3>1. x[i] = LegToXml(E[i]) /\ IsLeg(x[i]) /\ E[i].kind = "leg" /\ x[i].kind = "leg"
        <4>1. x[i] = LegToXml(E[i]) /\ E[i].kind = "leg"
          BY <1>3, <2>2 DEF IsLeg
        <4> QED BY <2>2, <4>1, LegKept DEF IsLeg
      <3>2. F[i] = LegFromXml(LegToXml(E[i]), id)
        BY <1>4, <3>1
      <3>3. HasVehicle(E[i], g)
        BY <1>1 DEF VehiclesIn
      <3>4. F[i].kind = "leg" /\ HasVehicle(F[i], g)
        BY <2>2, <3>2, <3>3, LegAgain
      <3> QED BY <3>1, <3>4 DEF IsMain
    <2> QED BY <1>2, <2>1, <2>2 DEF IsElement
  <1>6. Len(F) = n
    BY <1>1, <1>4
  <1>7. Closed(F)
    <2>1. n \in 1..n /\ 1 \in 1..n
      BY <1>1
    <2>2. IsMain(F[1]) /\ IsMain(F[n])
      BY <1>5, <2>1 DEF Closed, n
    <2>3. WellFormed(F)
      BY <1>1, <1>5, <1>6 DEF Closed, WellFormed, n
    <2> QED BY <1>6, <2>2, <2>3 DEF Closed, n
  <1>8. VehiclesIn(F, g)
    BY <1>4, <1>5 DEF VehiclesIn
  <1> QED BY <1>7, <1>8 DEF F, x

\* A plan of a person, from the person's file.
LEMMA PlanAgain ==
  ASSUME NEW format \in {"xml", "binpb"}, NEW person, IsPerson(person), NEW i \in DOMAIN person.plans,
         AreElements(person.plans[i].elements), Closed(person.plans[i].elements), NEW p,
         NEW g, NoVehicles \cap g = {}, VehiclesIn(person.plans[i].elements, g)
  PROVE  LET again == FromFile(format, ToFile(format, person), p).plans IN
           /\ DOMAIN again = DOMAIN person.plans
           /\ again[i].score = person.plans[i].score
           /\ Closed(again[i].elements) /\ VehiclesIn(again[i].elements, g)
PROOF
  <1> DEFINE plans == person.plans
             io == ToFile(format, person)
             again == FromFile(format, io, p).plans
  <1>1. IsPlan(plans[i])
    BY DEF IsPerson, ArePlans, IsSequence
  <1>2. PICK e, s, sel : plans[i] = [elements |-> e, score |-> s, selected |-> sel]
    BY <1>1 DEF IsPlan
  <1>3. AreElements(e) /\ Closed(e) /\ VehiclesIn(e, g)
    BY <1>2
  <1>4. CASE format = "xml"
    <2>1. io.plans = [k \in DOMAIN plans |-> [plans[k] EXCEPT !.elements = ElementsToXml(@)]]
      BY <1>4 DEF ToFile, PersonToXml
    <2> DEFINE given == io.plans
    <2>2. again = [k \in DOMAIN given |-> [given[k] EXCEPT !.elements = ElementsFromXml(@, p)]]
      BY <1>4 DEF FromFile, PersonFromXml
    <2> HIDE DEF given, again, plans
    <2>3. given[i] = [elements |-> ElementsToXml(e), score |-> s, selected |-> sel] /\ DOMAIN given = DOMAIN plans
      BY <1>2, <2>1 DEF given, plans
    <2>4. again[i] = [elements |-> ElementsFromXml(ElementsToXml(e), p), score |-> s, selected |-> sel]
      BY <2>2, <2>3 DEF plans
    <2>5. LET F == ElementsFromXml(ElementsToXml(e), p) IN Closed(F) /\ VehiclesIn(F, g)
      BY <1>3, ElementsAgain
    <2>6. DOMAIN again = DOMAIN plans
      BY <2>2, <2>3
    <2> QED BY <1>2, <2>4, <2>5, <2>6 DEF again, plans
  <1>5. CASE format = "binpb"
    <2>1. io.plans = [k \in DOMAIN plans |->
                       [score |-> plans[k].score, selected |-> plans[k].selected,
                        acts |-> OfKind(plans[k].elements, "act"), legs |-> OfKind(plans[k].elements, "leg")]]
      BY <1>5 DEF ToFile, PersonToProto
    <2> DEFINE given == io.plans
    <2>2. again = [k \in DOMAIN given |->
                    [score |-> given[k].score, selected |-> given[k].selected,
                     elements |-> ZipLongest(given[k].acts, given[k].legs)]]
      BY <1>5 DEF FromFile, PersonFromProto
    <2> HIDE DEF given, again, plans
    <2>3. /\ given[i].score = s /\ given[i].acts = OfKind(e, "act") /\ given[i].legs = OfKind(e, "leg")
          /\ DOMAIN given = DOMAIN plans
      BY <1>2, <2>1 DEF given, plans
    <2>4. /\ again[i].score = s /\ again[i].elements = ZipLongest(OfKind(e, "act"), OfKind(e, "leg"))
          /\ DOMAIN again = DOMAIN plans
      BY <2>2, <2>3 DEF plans
    <2>5. again[i].elements = e
      BY <1>3, <2>4, ZipIs DEF Closed
    <2> QED BY <1>2, <1>3, <2>4, <2>5 DEF again, plans
  <1> QED BY <1>4, <1>5

\* A person from the person's file.
LEMMA PersonAgain ==
  ASSUME NEW format \in {"xml", "binpb"}, NEW person, IsPerson(person), AreTyped(person), NEW p,
         NEW g, NoVehicles \cap g = {}, IsComplete(person, g)
  PROVE  IsComplete(FromFile(format, ToFile(format, person), p), g)
PROOF
  <1> DEFINE plans == person.plans
             io == ToFile(format, person)
             again == FromFile(format, io, p)
  <1>1. \A i \in DOMAIN plans : /\ DOMAIN again.plans = DOMAIN plans /\ again.plans[i].score = plans[i].score
                                /\ Closed(again.plans[i].elements) /\ VehiclesIn(again.plans[i].elements, g)
    BY PlanAgain DEF IsComplete, AreTyped
  <1>2. DOMAIN again.plans = DOMAIN plans
    <2>1. CASE format = "xml"
      <3>1. DOMAIN io.plans = DOMAIN plans
        BY <2>1 DEF ToFile, PersonToXml
      <3> HIDE DEF io
      <3> QED BY <2>1, <3>1 DEF FromFile, PersonFromXml
    <2>2. CASE format = "binpb"
      <3>1. DOMAIN io.plans = DOMAIN plans
        BY <2>2 DEF ToFile, PersonToProto
      <3> HIDE DEF io
      <3> QED BY <2>2, <3>1 DEF FromFile, PersonFromProto
    <2> QED BY <2>1, <2>2
  <1>3. /\ again.sub = person.sub /\ "subpopulation" \in DOMAIN again.attrs
        /\ person.sub # Absent
    <2>1. person.sub # Absent /\ "subpopulation" \in DOMAIN person.attrs
      BY DEF IsComplete
    <2>2. CASE format = "xml"
      <3>1. io.attrs = [person.attrs EXCEPT !.subpopulation = person.sub]
        BY <2>2 DEF ToFile, PersonToXml
      <3>2. io.attrs.subpopulation = person.sub /\ "subpopulation" \in DOMAIN io.attrs
        <4> HIDE DEF io
        <4> QED BY <2>1, <3>1
      <3> HIDE DEF io
      <3>3. again.attrs = io.attrs /\ again.sub = IF io.attrs.subpopulation = Absent THEN DefaultSubpopulation
                                                  ELSE io.attrs.subpopulation
        BY <2>2 DEF FromFile, PersonFromXml
      <3> HIDE DEF again
      <3> QED BY <2>1, <3>2, <3>3
    <2>3. CASE format = "binpb"
      <3>1. io.sub = person.sub
        BY <2>3 DEF ToFile, PersonToProto
      <3> HIDE DEF io
      <3> QED BY <2>1, <2>3, <3>1 DEF FromFile, PersonFromProto
    <2> QED BY <2>2, <2>3
  <1> HIDE DEF again, plans
  <1>4. HasScore(again)
    <2>1. "BestScore" \in ChosenStrategies(person.sub, TRUE) =>
            MaxMemory > 1 /\ \E i \in DOMAIN plans : plans[i].score # NoScore
      BY DEF IsComplete, HasScore, plans
    <2> QED BY <1>1, <1>2, <1>3, <2>1 DEF HasScore
  <1> QED BY <1>1, <1>2, <1>3, <1>4 DEF IsComplete, again

\* A network whose links are those that routes are made of, in parts there are workers for or
\* the user's network has.
IsFitting(net, in) ==
  /\ {"nodes", "links"} \subseteq DOMAIN net
  /\ DOMAIN Net \subseteq DOMAIN net.links /\ DOMAIN net.nodes \subseteq DOMAIN MetisPartition
  /\ \A l \in DOMAIN net.links : /\ KnownPart(net.links[l].partition, in) /\ net.links[l].to \in DOMAIN net.nodes
                                  /\ "partition" \in DOMAIN net.links[l]

LEMMA ByIdIs ==
  ASSUME NEW elements
  PROVE  /\ DOMAIN ById(elements) = {e.id : e \in elements}
         /\ \A i \in DOMAIN ById(elements) : ById(elements)[i] \in elements
  BY DEF ById

LEMMA NetworkRead ==
  ASSUME NEW file, NetworkReadable(file), NEW in, NetworkFits(file, in)
  PROVE  IsFitting(NetworkFromFile(file), in)
PROOF
  <1> DEFINE links == ById(file.links)
             nodes == ById(file.nodes)
             net == NetworkFromFile(file)
  <1>1. /\ DOMAIN links = {l.id : l \in file.links} /\ \A i \in DOMAIN links : links[i] \in file.links
        /\ DOMAIN nodes = {n.id : n \in file.nodes}
    BY ByIdIs
  <1>2. /\ DOMAIN Net \subseteq DOMAIN links /\ DOMAIN nodes \subseteq DOMAIN MetisPartition
        /\ \A i \in DOMAIN links : KnownPart(links[i].partition, in) /\ links[i].to \in DOMAIN nodes
    BY <1>1 DEF NetworkFits, NetworkReadable
  <1>3. /\ {"nodes", "links"} \subseteq DOMAIN net
        /\ DOMAIN net.links = DOMAIN links /\ DOMAIN net.nodes = DOMAIN nodes
        /\ \A i \in DOMAIN links : /\ net.links[i].to = links[i].to /\ "partition" \in DOMAIN net.links[i]
                                   /\ net.links[i].partition \in {links[i].partition, OrElse(links[i].partition, 0)}
    <2>1. CASE file.format = "xml"
      <3> DEFINE k == [i \in DOMAIN links |-> LinkFromXml(links[i])]
                 m == [i \in DOMAIN nodes |-> NodeFromXml(nodes[i])]
      <3>1. net = NetworkOf(m, k, CellSize(file))
        BY <2>1 DEF NetworkFromFile, NetworkFromXml
      <3>2. /\ DOMAIN k = DOMAIN links /\ DOMAIN m = DOMAIN nodes
            /\ \A i \in DOMAIN links : /\ k[i].to = links[i].to /\ k[i].partition = OrElse(links[i].partition, 0)
                                        /\ "partition" \in DOMAIN k[i]
        BY DEF LinkFromXml
      <3> HIDE DEF k, m, net, links, nodes
      <3>3. net.links = k /\ DOMAIN net.nodes = DOMAIN m /\ {"nodes", "links"} \subseteq DOMAIN net
        BY <3>1 DEF NetworkOf, Wired
      <3> QED BY <3>2, <3>3
    <2>2. CASE file.format # "xml"
      <3> DEFINE k == [i \in DOMAIN links |-> LinkFromProto(links[i])]
      <3>1. net = NetworkOf(nodes, k, file.cell)
        BY <2>2 DEF NetworkFromFile, NetworkFromProto
      <3>2. /\ DOMAIN k = DOMAIN links
            /\ \A i \in DOMAIN links : /\ k[i].to = links[i].to /\ k[i].partition = links[i].partition
                                        /\ "partition" \in DOMAIN k[i]
        BY DEF LinkFromProto
      <3> HIDE DEF k, net, links, nodes
      <3>3. net.links = k /\ DOMAIN net.nodes = DOMAIN nodes /\ {"nodes", "links"} \subseteq DOMAIN net
        BY <3>1 DEF NetworkOf, Wired
      <3> QED BY <3>2, <3>3
    <2> QED BY <2>1, <2>2
  <1> HIDE DEF links, nodes, net
  <1>4. \A x : KnownPart(x, in) => KnownPart(OrElse(x, 0), in)
    BY PartitionAssumption DEF KnownPart, OrElse
  <1>5. \A i \in DOMAIN links : KnownPart(net.links[i].partition, in)
    BY <1>2, <1>3, <1>4
  <1> QED BY <1>2, <1>3, <1>5 DEF IsFitting, net

LEMMA NetworkWritten ==
  ASSUME NEW net, NEW in, IsFitting(net, in)
  PROVE  NetworkFits(NetworkToXml(net), in) /\ NetworkFits(NetworkToProto(net), in)
PROOF
  <1> DEFINE links == LinksToFile(net)
  <1>1. {l.id : l \in links} = DOMAIN net.links /\ \A l \in links : KnownPart(l.partition, in)
    <2>1. \A i : LinkToFile(i, net.links[i]).id = i /\ LinkToFile(i, net.links[i]).partition = net.links[i].partition
      BY DEF LinkToFile
    <2>2. links = {LinkToFile(i, net.links[i]) : i \in DOMAIN net.links}
      BY DEF LinksToFile
    <2> HIDE DEF links
    <2>3. \A i \in DOMAIN net.links : LinkToFile(i, net.links[i]) \in links
      BY <2>2
    <2>4. \A l \in links : \E i \in DOMAIN net.links : l = LinkToFile(i, net.links[i])
      BY <2>2
    <2>5. \A l \in links : l.id \in DOMAIN net.links /\ l.partition = net.links[l.id].partition
      BY <2>1, <2>4
    <2>6. \A i \in DOMAIN net.links : \E l \in links : l.id = i
      BY <2>1, <2>3
    <2> QED BY <2>5, <2>6 DEF IsFitting
  <1>2. \A i : NodeToXml(i, net.nodes[i]).id = i /\ NodeToProto(i, net.nodes[i]).id = i
    BY DEF NodeToXml, NodeToProto
  <1> HIDE DEF links
  <1>3. /\ NetworkToXml(net).links = links
        /\ NetworkToXml(net).nodes = {NodeToXml(i, net.nodes[i]) : i \in DOMAIN net.nodes}
        /\ NetworkToProto(net).links = links
        /\ NetworkToProto(net).nodes = {NodeToProto(i, net.nodes[i]) : i \in DOMAIN net.nodes}
    BY DEF NetworkToXml, NetworkToProto, links
  <1>4. /\ {n.id : n \in NetworkToXml(net).nodes} \subseteq DOMAIN net.nodes
        /\ {n.id : n \in NetworkToProto(net).nodes} \subseteq DOMAIN net.nodes
    <2>1. \A n \in NetworkToXml(net).nodes : n.id \in DOMAIN net.nodes
      BY <1>2, <1>3
    <2>2. \A n \in NetworkToProto(net).nodes : n.id \in DOMAIN net.nodes
      BY <1>2, <1>3
    <2> QED BY <2>1, <2>2
  <1> QED BY <1>1, <1>3, <1>4 DEF NetworkFits, IsFitting

\* Weights of nodes, and the parts that partitioning finds.
LEMMA NetworkWeighted ==
  ASSUME NEW net, NEW weights, NEW out \in WeightedNetworks(net, weights), NEW in, IsFitting(net, in)
  PROVE  IsFitting(out, in)
PROOF
  <1>1. \E m : DOMAIN m = DOMAIN net.nodes /\ out = [net EXCEPT !.nodes = m]
    <2> DEFINE used(n) == net.nodes[n].in \cap DOMAIN weights
    <2>1. PICK last : out = [net EXCEPT !.nodes =
              [n \in DOMAIN @ |-> [net.nodes[n] EXCEPT !.weight = IF n \in DOMAIN last THEN weights[last[n]] ELSE @]]]
      BY DEF WeightedNetworks
    <2> DEFINE m == [n \in DOMAIN net.nodes |-> [net.nodes[n] EXCEPT !.weight = IF n \in DOMAIN last THEN weights[last[n]] ELSE @]]
    <2>2. out = [net EXCEPT !.nodes = m] /\ DOMAIN m = DOMAIN net.nodes
      BY <2>1
    <2> HIDE DEF m
    <2> QED BY <2>2
  <1>2. PICK m : DOMAIN m = DOMAIN net.nodes /\ out = [net EXCEPT !.nodes = m]
    BY <1>1
  <1>3. out.links = net.links /\ DOMAIN out.nodes = DOMAIN net.nodes /\ {"nodes", "links"} \subseteq DOMAIN out
    BY <1>2 DEF IsFitting
  <1> QED BY <1>3 DEF IsFitting

\* The links of the network of a run.
LinksFit(net, in) ==
  \A l \in DOMAIN Net :
    /\ l \in DOMAIN net.links /\ net.links[l].partition \in Int
    /\ \/ net.links[l].partition < NumParts
       \/ in.method = "none" /\ \E k \in in.files.network.links : k.partition >= NumParts

LEMMA NetworkPartitioned ==
  ASSUME NEW net, NEW in, IsFitting(net, in)
  PROVE  LinksFit(PartitionNetwork(net, in.method), in)
PROOF
  <1>1. CASE in.method = "none"
    <2>1. PartitionNetwork(net, in.method) = net
      BY <1>1 DEF PartitionNetwork
    <2> QED BY <1>1, <2>1 DEF LinksFit, IsFitting, KnownPart
  <1>2. CASE in.method # "none"
    <2> DEFINE part == Metis(net)
               out == PartitionNetwork(net, in.method)
    <2>1. \A n \in DOMAIN net.nodes : part[n] \in Int /\ part[n] < NumParts
      BY PartitionAssumption DEF Metis, IsFitting
    <2> HIDE DEF part
    <2> DEFINE m == [n \in DOMAIN net.nodes |-> [net.nodes[n] EXCEPT !.partition = part[n]]]
               k == [l \in DOMAIN net.links |-> [net.links[l] EXCEPT !.partition = part[net.links[l].to]]]
    <2>2. out = [net EXCEPT !.nodes = m, !.links = k]
      BY <1>2 DEF PartitionNetwork, part
    <2>3. \A l \in DOMAIN net.links : k[l].partition = part[net.links[l].to]
      BY DEF IsFitting
    <2>4. DOMAIN k = DOMAIN net.links
      OBVIOUS
    <2> HIDE DEF m, k, out
    <2>5. out.links = k
      BY <2>2 DEF IsFitting
    <2>6. \A l \in DOMAIN Net : l \in DOMAIN net.links /\ net.links[l].to \in DOMAIN net.nodes
      BY DEF IsFitting
    <2>7. \A l \in DOMAIN Net : /\ l \in DOMAIN out.links /\ out.links[l].partition \in Int
                              /\ out.links[l].partition < NumParts
      BY <2>1, <2>3, <2>4, <2>5, <2>6
    <2> QED BY <2>7 DEF LinksFit, out
  <1> QED BY <1>1, <1>2

\* What a tool writes.
LEMMA ConvertedIs ==
  ASSUME NEW fs, NEW tool \in {"convert_to_binary", "convert_to_xml"}, NEW out \in Conversions(tool, fs)
  PROVE  LET read == ReadPopulation(fs.plans)
             net == NetworkFromFile(fs.network)
             cars == GarageWithPlans(fs.vehicles, fs.plans)
         IN /\ ScenarioReadable(fs)
            /\ \/ /\ tool = "convert_to_binary" /\ out.plans = WritePopulation("binpb", read)
                  /\ out.vehicles = GarageToProto(cars)
                  /\ \E n \in WeightedNetworks(net, ComputationalWeights(read)) : out.network = NetworkToProto(n)
               \/ /\ tool = "convert_to_xml" /\ out.plans = WritePopulation("xml", read)
                  /\ out.network = NetworkToXml(net)
PROOF
  <1> DEFINE read == ReadPopulation(fs.plans)
             net == NetworkFromFile(fs.network)
             cars == GarageWithPlans(fs.vehicles, fs.plans)
  <1>1. LET scenario == LoadScenario(fs, "none") IN
          scenario.population = read /\ scenario.network = net /\ scenario.garage = cars
    BY DEF LoadScenario, PartitionNetwork
  <1> HIDE DEF read, net, cars
  <1>2. CASE tool = "convert_to_binary"
    <2>1. out \in ConvertToBinary(fs)
      BY <1>2 DEF Conversions
    <2>2. ScenarioReadable(fs) /\ \E n \in WeightedNetworks(net, ComputationalWeights(read)) :
            out = [network |-> NetworkToProto(n), vehicles |-> GarageToProto(cars),
                   plans |-> WritePopulation("binpb", read)]
      BY <1>1, <2>1 DEF ConvertToBinary
    <2> QED BY <1>2, <2>2 DEF read, net, cars
  <1>3. CASE tool = "convert_to_xml"
    <2>1. out \in ConvertToXml(fs)
      BY <1>3 DEF Conversions
    <2>2. ScenarioReadable(fs) /\ out = [network |-> NetworkToXml(net),
            vehicles |-> GarageToXml(GarageFromFile(fs.vehicles)), plans |-> WritePopulation("xml", read)]
      BY <1>1, <2>1 DEF ConvertToXml
    <2> QED BY <1>3, <2>2 DEF read, net, cars
  <1> QED BY <1>2, <1>3

\* What a tool writes fits as well.
LEMMA ConvertedFits ==
  ASSUME NEW fs, PlansInFile(fs.plans), NEW in, in.tool \in {"convert_to_binary", "convert_to_xml"},
         FilesFit(fs, in), NEW out \in Conversions(in.tool, fs)
  PROVE  FilesFit(out, in)
PROOF
  <1> DEFINE read == ReadPopulation(fs.plans)
             net == NetworkFromFile(fs.network)
             cars == GarageWithPlans(fs.vehicles, fs.plans)
             g == GivenVehicles(in)
  <1>1. /\ ScenarioReadable(fs)
        /\ \/ /\ in.tool = "convert_to_binary" /\ out.plans = WritePopulation("binpb", read)
              /\ out.vehicles = GarageToProto(cars)
              /\ \E n \in WeightedNetworks(net, ComputationalWeights(read)) : out.network = NetworkToProto(n)
           \/ /\ in.tool = "convert_to_xml" /\ out.plans = WritePopulation("xml", read)
              /\ out.network = NetworkToXml(net)
    BY ConvertedIs
  <1>2. /\ NetworkFits(fs.network, in) /\ NoVehicles \cap g = {}
        /\ in.tool # "convert_to_xml" => g \subseteq DOMAIN cars.vehicles
        /\ \A p \in DOMAIN fs.plans.persons : IsComplete(FromFile(fs.plans.format, fs.plans.persons[p], p), g)
    BY <1>1 DEF FilesFit
  <1>3. NetworkFits(out.network, in)
    <2>1. IsFitting(net, in)
      BY <1>1, <1>2, NetworkRead DEF ScenarioReadable
    <2> HIDE DEF net
    <2> QED BY <1>1, <2>1, NetworkWeighted, NetworkWritten
  <1>4. PICK format \in {"xml", "binpb"} : out.plans = WritePopulation(format, read)
    BY <1>1
  <1>5. /\ out.plans.format = format /\ DOMAIN out.plans.persons = DOMAIN fs.plans.persons
        /\ \A p \in DOMAIN fs.plans.persons :
             out.plans.persons[p] = ToFile(format, FromFile(fs.plans.format, fs.plans.persons[p], p))
    BY <1>4 DEF WritePopulation, ReadPopulation
  <1>6. in.tool # "convert_to_xml" => g \subseteq DOMAIN GarageWithPlans(out.vehicles, out.plans).vehicles
    <2> SUFFICES ASSUME in.tool # "convert_to_xml"
                 PROVE  GarageWithPlans(out.vehicles, out.plans).vehicles = cars.vehicles
      BY <1>2
    <2>1. out.plans.format = "binpb" /\ out.vehicles = GarageToProto(cars)
      BY <1>1 DEF WritePopulation
    <2> HIDE DEF cars
    <2>2. out.vehicles.format = "binpb" /\ out.vehicles.vehicles = cars.vehicles
      BY <2>1 DEF GarageToProto
    <2>3. GarageFromFile(out.vehicles).vehicles = cars.vehicles
      BY <2>2 DEF GarageFromFile, GarageFromProto
    <2> QED BY <2>1, <2>3 DEF GarageWithPlans
  <1>7. ASSUME NEW p \in DOMAIN out.plans.persons
        PROVE  IsComplete(FromFile(out.plans.format, out.plans.persons[p], p), g)
    <2> DEFINE person == FromFile(fs.plans.format, fs.plans.persons[p], p)
    <2>1. Readable(fs.plans.format, fs.plans.persons[p]) /\ p \in DOMAIN fs.plans.persons
      BY <1>1, <1>5, <1>7 DEF ScenarioReadable
    <2>2. IsPerson(person) /\ AreTyped(person)
      <3>1. LET given == fs.plans.persons[p].plans IN
              /\ IsPerson(person) /\ DOMAIN person.plans = DOMAIN given
              /\ \A i \in DOMAIN given : AreElements(person.plans[i].elements)
        BY <2>1, PersonRead
      <3> HIDE DEF person
      <3> QED BY <3>1 DEF AreTyped
    <2>3. IsComplete(person, g)
      BY <1>2, <2>1
    <2>4. FromFile(out.plans.format, out.plans.persons[p], p) = FromFile(format, ToFile(format, person), p)
      BY <1>5, <2>1
    <2> HIDE DEF person, g
    <2> QED BY <1>2, <2>2, <2>3, <2>4, PersonAgain
  <1> QED BY <1>2, <1>3, <1>6, <1>7 DEF FilesFit

-----------------------------------------------------------------------------
(* The preparation keeps what a run needs.                                  *)

\* A plan that leads from one main activity to another, with vehicles of g.
IsUsable(E, g) == Len(E) > 0 /\ IsMain(E[1]) /\ IsMain(E[Len(E)]) /\ VehiclesIn(E, g)

LEMMA ClosedIsUsable ==
  ASSUME NEW E, AreElements(E), Closed(E), NEW g, NEW h, g \subseteq h, VehiclesIn(E, g)
  PROVE  IsUsable(E, h)
PROOF
  <1>1. Len(E) \in Nat /\ Len(E) % 2 = 1
    BY ListIs DEF AreElements, Closed, WellFormed
  <1>2. Len(E) > 0
    BY <1>1
  <1>3. VehiclesIn(E, h)
    BY DEF VehiclesIn, HasVehicle
  <1> QED BY <1>2, <1>3 DEF IsUsable, Closed

LEMMA CoordinatesUsable ==
  ASSUME NEW E, AreElements(E), NEW g, IsUsable(E, g)
  PROVE  IsUsable(AssignCoordinates(E), g)
PROOF
  <1> DEFINE F == AssignCoordinates(E)
             n == Len(E)
  <1>1. IsSequence(E) /\ n \in Nat /\ DOMAIN E = 1..n /\ \A i \in 1..n : IsElement(E[i])
    BY ListIs DEF AreElements
  <1>2. /\ F = [i \in 1..n |-> F[i]]
        /\ \A i \in 1..n : F[i] = IF E[i].kind = "act" /\ E[i].coord = None
             THEN [E[i] EXCEPT !.coord = Middle(E[i].link)] ELSE E[i]
    BY <1>1 DEF AssignCoordinates
  <1> HIDE DEF F, n
  <1>3. Len(F) = n /\ DOMAIN F = 1..n
    BY <1>1, <1>2
  <1>4. ASSUME NEW i \in 1..n
        PROVE  F[i] = E[i] \/ (F[i].kind = "act" /\ F[i].main = E[i].main /\ E[i].kind = "act")
    <2>1. CASE E[i].kind = "act" /\ E[i].coord = None
      <3>1. IsActivity(E[i])
        BY <1>1, <2>1 DEF IsElement, IsLeg
      <3>2. PICK name, main, link, coord, end, dur, horizon :
              E[i] = [kind |-> "act", name |-> name, main |-> main, link |-> link, coord |-> coord,
                      end |-> end, dur |-> dur, horizon |-> horizon]
        BY <3>1 DEF IsActivity
      <3>3. PICK c : F[i] = [E[i] EXCEPT !.coord = c]
        BY <1>2, <2>1
      <3> QED BY <3>2, <3>3
    <2>2. CASE ~(E[i].kind = "act" /\ E[i].coord = None)
      BY <1>2, <2>2
    <2> QED BY <2>1, <2>2
  <1>5. \A i \in 1..n : IsMain(E[i]) => IsMain(F[i])
    BY <1>4 DEF IsMain
  <1>6. \A i \in 1..n : HasVehicle(E[i], g) => HasVehicle(F[i], g)
    BY <1>4 DEF HasVehicle, IsDriven
  <1>7. n > 0 /\ IsMain(F[1]) /\ IsMain(F[n])
    <2>1. n > 0 /\ IsMain(E[1]) /\ IsMain(E[n])
      BY DEF IsUsable, n
    <2>2. 1 \in 1..n /\ n \in 1..n
      BY <1>1, <2>1
    <2> QED BY <1>5, <2>1, <2>2
  <1>8. VehiclesIn(F, g)
    BY <1>1, <1>3, <1>6 DEF IsUsable, VehiclesIn
  <1> QED BY <1>3, <1>7, <1>8 DEF IsUsable, F

LEMMA RoutingUsable ==
  ASSUME AccessEgressMode \notin MainModes, NEW E, IsSequence(E), NEW F, IsSequence(F),
         NEW g, NEW h, g \subseteq h, IsUsable(E, h), IsRouting(F, E, g)
  PROVE  IsUsable(F, h)
PROOF
  <1>1. Len(F) > 0 /\ IsMain(F[1]) /\ IsMain(F[Len(F)])
    BY DEF IsUsable, IsRouting
  <1>2. DOMAIN E = 1..Len(E) /\ DOMAIN F = 1..Len(F)
    BY LengthIs
  <1>3. \A e : IsNew(e, g) => HasVehicle(e, h)
    BY DEF IsNew, HasVehicle, IsDriven
  <1>4. \A k \in 1..Len(E) : HasVehicle(E[k], h)
    BY <1>2 DEF IsUsable, VehiclesIn
  <1>5. \A i \in 1..Len(F) : HasVehicle(F[i], h)
    BY <1>3, <1>4 DEF IsRouting
  <1> QED BY <1>1, <1>2, <1>5 DEF IsUsable, VehiclesIn

\* A plan after its preparation.
LEMMA PlanUsable ==
  ASSUME AccessEgressMode \notin MainModes, NEW p, NEW plan, IsPlan(plan), AreElements(plan.elements),
         NEW g, NEW h, g \subseteq h, IsUsable(plan.elements, h)
  PROVE  LET after == PlanAfter(PreparePlan(p, plan, g), plan) IN
           after.score = plan.score /\ IsUsable(after.elements, h)
PROOF
  <1>1. CASE ~PreparePlan(p, plan, g).ok
    BY <1>1 DEF PlanAfter
  <1>2. CASE PreparePlan(p, plan, g).ok
    <2> DEFINE given == AssignCoordinates(plan.elements)
    <2>1. IsSequence(plan.elements) /\ \A k \in 1..Len(plan.elements) : IsElement(plan.elements[k])
      BY ListIs DEF AreElements
    <2>2. PICK F : /\ PreparePlan(p, plan, g) = [ok |-> TRUE, plan |-> [plan EXCEPT !.elements = F]]
                   /\ Prepared(p, F, g) /\ IsRouting(F, given, g)
      BY <1>2, <2>1, PlanPrepared
    <2>3. IsUsable(given, h) /\ IsSequence(given)
      BY <2>1, CoordinatesUsable, CoordinatesAssigned DEF Placed
    <2>4. IsSequence(F)
      BY <2>2 DEF Prepared, UpToTrip, Placed
    <2> HIDE DEF given
    <2>5. IsUsable(F, h)
      BY <2>2, <2>3, <2>4, RoutingUsable
    <2>6. PICK e, s, sel : plan = [elements |-> e, score |-> s, selected |-> sel]
      BY DEF IsPlan
    <2>7. PICK after : after = [plan EXCEPT !.elements = F]
      OBVIOUS
    <2>8. after.score = plan.score /\ after.elements = F
      BY <2>6, <2>7
    <2>9. PlanAfter(PreparePlan(p, plan, g), plan) = after
      BY <2>2, <2>7 DEF PlanAfter
    <2> QED BY <2>5, <2>8, <2>9
  <1> QED BY <1>1, <1>2

\* What is between main activities is part of a trip.
LEMMA InTrip ==
  ASSUME NEW E, IsSequence(E), Len(E) > 0, IsMain(E[1]), IsMain(E[Len(E)]),
         NEW k \in 1..Len(E), ~IsMain(E[k])
  PROVE  \E o, d : SpanOver(E, o, d) /\ o < k /\ k < d
PROOF
  <1> DEFINE n == Len(E)
             later == {i \in 1..n : i > k /\ IsMain(E[i])}
             back == {i \in 1..n : i < k /\ IsMain(E[k - i])}
  <1>1. n \in Nat /\ n > 0 /\ k \in 1..n /\ k # 1 /\ k # n
    BY LengthIs
  <1>2. \E d \in later : \A i \in later : d <= i
    <2>1. n \in later /\ later \subseteq Nat
      BY <1>1
    <2> HIDE DEF later
    <2> QED BY <2>1, LeastNumber
  <1>3. \E b \in back : \A i \in back : b <= i
    <2>1. k - 1 \in 1..n /\ k - 1 < k /\ k - (k - 1) = 1
      BY <1>1
    <2>2. k - 1 \in back /\ back \subseteq Nat
      BY <2>1
    <2> HIDE DEF back
    <2> QED BY <2>2, LeastNumber
  <1>4. PICK d \in later : \A i \in later : d <= i
    BY <1>2
  <1>5. PICK b \in back : \A i \in back : b <= i
    BY <1>3
  <1> DEFINE o == k - b
  <1>6. o \in 1..n /\ o < k /\ k < d /\ d \in 1..n /\ d - o > 1 /\ IsMain(E[o]) /\ IsMain(E[d])
    BY <1>1
  <1>7. ASSUME NEW i \in 1..n, IsMain(E[i]) PROVE i <= o \/ i >= d
    <2>1. CASE i > k
      <3>1. i \in later
        BY <1>7, <2>1
      <3> QED BY <1>4, <3>1
    <2>2. CASE i < k
      <3>1. k - i \in 1..n /\ k - i < k /\ k - (k - i) = i
        BY <1>1, <2>2
      <3>2. k - i \in back
        BY <1>7, <3>1
      <3>3. b <= k - i
        BY <1>5, <3>2
      <3> QED BY <1>1, <3>3
    <2>3. CASE i = k
      BY <1>7, <2>3
    <2>4. i > k \/ i < k \/ i = k
      BY <1>1
    <2> QED BY <2>1, <2>2, <2>3, <2>4
  <1> HIDE DEF o
  <1>8. SpanOver(E, o, d)
    BY <1>6, <1>7 DEF SpanOver
  <1> QED BY <1>6, <1>8

LEMMA TripHasNumber ==
  ASSUME NEW E, IsSequence(E), NEW s \in Trips(E)
  PROVE  \E j \in 1..Cardinality(Trips(E)) : SpanAt(E, j) = s
PROOF
  <1> DEFINE r == Rank(E, s.origin)
  <1>1. r \in 0..Cardinality(Trips(E)) - 1 /\ Cardinality(Trips(E)) \in Nat
    BY RankIs, TripsFinite
  <1>2. PICK k \in 1..Cardinality(Trips(E)) : k \in Nat /\ r = k - 1
    <2> DEFINE n == Cardinality(Trips(E))
    <2>1. n \in Nat /\ r \in 0..n - 1
      BY <1>1
    <2> HIDE DEF r, n
    <2>2. \A m \in Nat : \A i \in 0..m - 1 : \E k \in 1..m : k \in Nat /\ i = k - 1
      <3> SUFFICES ASSUME NEW m \in Nat, NEW i \in 0..m - 1 PROVE \E k \in 1..m : k \in Nat /\ i = k - 1
        OBVIOUS
      <3>1. i + 1 \in 1..m /\ i + 1 \in Nat /\ i = (i + 1) - 1
        OBVIOUS
      <3> QED BY <3>1
    <2> QED BY <2>1, <2>2 DEF n
  <1>3. SpanAt(E, k) = s
    BY <1>2, SpanAtOnly
  <1> QED BY <1>3

\* Whoever drives in a plan that is prepared has a vehicle.
LEMMA DriversHaveVehicles ==
  ASSUME NEW p, NEW E, NEW g, Prepared(p, E, g), NEW h, IsUsable(E, h),
         NEW k \in DOMAIN E, E[k].kind = "leg", E[k].mode \in MainModes
  PROVE  E[k].route.veh \in h
PROOF
  <1>1. /\ IsSequence(E) /\ k \in 1..Len(E) /\ DOMAIN E = 1..Len(E)
        /\ \A j \in 1..Cardinality(Trips(E)) : Stays(p, E, SpanAt(E, j), g)
    BY LengthIs DEF Prepared, UpToTrip, Placed
  <1>2. PICK o, d : SpanOver(E, o, d) /\ o < k /\ k < d
    <2>1. ~IsMain(E[k])
      BY DEF IsMain
    <2> QED BY <1>1, <2>1, InTrip DEF IsUsable
  <1>3. Stays(p, E, Span(o, d), g)
    <2>1. Span(o, d) \in Trips(E)
      BY <1>1, <1>2, SpanIsTrip
    <2> QED BY <1>1, <2>1, TripHasNumber
  <1> DEFINE x == TripElements(E, Span(o, d))
             legs == LegsOf(x)
             main == ResolveMainMode(legs)
  <1>4. /\ IsSequence(x) /\ Len(x) = d - o - 1 /\ \A i \in 1..d - o - 1 : x[i] = E[o + i]
        /\ o \in 1..Len(E) /\ d \in 1..Len(E) /\ Len(E) \in Nat
    <2>1. o \in 1..Len(E) /\ d \in 1..Len(E) /\ o < d /\ Len(E) \in Nat
      BY <1>1, <1>2, LengthIs DEF SpanOver
    <2> QED BY <1>1, <2>1, TripElementsIs
  <1>5. k - o \in 1..Len(x) /\ x[k - o] = E[k]
    <2>1. k - o \in 1..d - o - 1 /\ o + (k - o) = k
      BY <1>1, <1>2, <1>4
    <2> HIDE DEF x
    <2> QED BY <1>4, <2>1
  <1>6. E[k].route # NoRoute
    <2>1. CASE TripIsValid(x, legs, main.mode)
      <3>1. \A i \in DOMAIN legs : legs[i].route # NoRoute
        BY <2>1 DEF TripIsValid, LegIsValid
      <3>2. E[k] \in RangeOf(legs)
        <4> HIDE DEF x
        <4> DEFINE S == {x[i] : i \in 1..Len(x)}
        <4>1. x \in Seq(S)
          BY <1>4 DEF IsSequence
        <4> HIDE DEF S
        <4>2. RangeOf(legs) = {e \in RangeOf(x) : e.kind = "leg"} /\ legs \in Seq(S)
          BY <4>1, OfKindElements DEF LegsOf
        <4>3. E[k] \in RangeOf(x)
          BY <1>5 DEF RangeOf
        <4> QED BY <4>2, <4>3
      <3>3. \E i \in DOMAIN legs : legs[i] = E[k]
        <4>1. IsSequence(legs)
          <5> HIDE DEF x
          <5> DEFINE S == {x[i] : i \in 1..Len(x)}
          <5>1. x \in Seq(S)
            BY <1>4 DEF IsSequence
          <5> HIDE DEF S
          <5>2. legs \in Seq(S)
            BY <5>1, OfKindElements DEF LegsOf
          <5> QED BY <5>2, SequenceOf
        <4> HIDE DEF legs
        <4> QED BY <3>2, <4>1, LengthIs DEF RangeOf
      <3> QED BY <3>1, <3>3
    <2>2. CASE ~TripIsValid(x, legs, main.mode)
      <3>1. Span(o, d).origin = o /\ Span(o, d).destination = d
        BY DEF Span
      <3> DEFINE dep == DepartureTime(E, Span(o, d))
                 vehicle == VehicleForTrip(p, legs, main.mode, g)
                 req == Request(E[o], E[d], dep, vehicle.veh)
      <3>2. CalcRoute(main.mode, req) = Routed(x)
        BY <1>3, <2>2, <3>1 DEF Stays, StaysAs
      <3>3. IsFacility(req.from) /\ IsFacility(req.to) /\ req.veh = vehicle.veh
        <4>1. IsPlaced(E[o]) /\ IsPlaced(E[d]) /\ IsMain(E[o]) /\ IsMain(E[d])
          BY <1>2, <1>4 DEF Prepared, UpToTrip, Placed, SpanOver
        <4> HIDE DEF vehicle, dep
        <4> QED BY <4>1, FacilityIs DEF Request
      <3> HIDE DEF req, vehicle, x, main
      <3>4. RoutedTrip(x, main.mode, vehicle.veh)
        BY <3>2, <3>3, CalcRouteIs DEF Routed
      <3>5. CASE IsNetworkMode(main.mode)
        <4>1. /\ Len(x) = 5 /\ IsStage(x[2]) /\ IsStage(x[4])
              /\ \A i \in {1, 3, 5} : x[i].route.type \in {"generic", "links"}
          BY <3>4, <3>5 DEF RoutedTrip, NetworkTrip
        <4>2. \A i \in 1..5 : i = 2 \/ i = 4 \/ i \in {1, 3, 5}
          OBVIOUS
        <4>3. k - o \in {1, 3, 5}
          BY <1>5, <4>1, <4>2 DEF IsStage, IsActivity
        <4> QED BY <1>5, <4>1, <4>3 DEF NoRoute
      <3>6. CASE ~IsNetworkMode(main.mode)
        <4>1. Len(x) = 1 /\ x[1].route.type = "generic"
          BY <3>4, <3>6 DEF RoutedTrip, TeleportTrip
        <4>2. k - o = 1
          BY <1>5, <4>1
        <4> QED BY <1>5, <4>1, <4>2 DEF NoRoute
      <3> QED BY <3>5, <3>6
    <2> QED BY <2>1, <2>2
  <1> QED BY <1>6 DEF IsUsable, VehiclesIn, HasVehicle, IsDriven

-----------------------------------------------------------------------------
(* Replanning does not fail where it need not.                              *)

\* A person with a scored plan has a best one.
LEMMA BestExists ==
  ASSUME NEW s, ArePlans(s), NEW b \in DOMAIN s, s[b].score # NoScore
  PROVE  BestScore(s) # {}
PROOF
  <1> DEFINE scored == {i \in DOMAIN s : s[i].score # NoScore}
             Over(k, i) == s[k].score < s[i].score \/ (s[k].score = s[i].score /\ k <= i)
             None0(n) == \A k \in scored : ~(k <= n)
             Some(n, i) == \A k \in scored : k <= n => Over(k, i)
             P == {n \in 0..Len(s) : None0(n) \/ \E i \in scored : Some(n, i)}
  <1>1. /\ DOMAIN s = 1..Len(s) /\ Len(s) \in Nat /\ b \in scored
        /\ \A i \in scored : i \in 1..Len(s) /\ i \in Nat /\ i > 0 /\ s[i].score \in Int
    <2>1. DOMAIN s = 1..Len(s) /\ Len(s) \in Nat /\ \A i \in 1..Len(s) : IsPlan(s[i])
      BY DEF ArePlans, IsSequence
    <2>2. \A i \in 1..Len(s) : s[i].score = NoScore \/ s[i].score \in Int
      BY <2>1 DEF IsPlan
    <2> QED BY <2>1, <2>2
  <1> HIDE DEF scored
  <1>2. 0 \in P
    <2>1. None0(0) /\ 0 \in 0..Len(s)
      BY <1>1
    <2> QED BY <2>1
  <1>3. ASSUME NEW n \in 1..Len(s), n - 1 \in P PROVE n \in P
    <2>1. n \in 0..Len(s) /\ n \in Nat
      BY <1>1
    <2>2. \A k \in scored : k <= n => k = n \/ k <= n - 1
      BY <1>1
    <2>3. CASE n \notin scored
      <3>1. \A k \in scored : k <= n => k <= n - 1
        BY <2>2, <2>3
      <3>2. CASE None0(n - 1)
        BY <2>1, <3>1, <3>2
      <3>3. CASE \E i \in scored : Some(n - 1, i)
        <4>1. PICK i \in scored : Some(n - 1, i)
          BY <3>3
        <4>2. Some(n, i)
          <5> HIDE DEF Over
          <5> QED BY <3>1, <4>1
        <4> HIDE DEF Some, None0
        <4> QED BY <2>1, <4>2
      <3> QED BY <1>3, <3>2, <3>3
    <2>4. CASE n \in scored /\ None0(n - 1)
      <3>1. \A k \in scored : k <= n => k = n
        BY <2>2, <2>4
      <3>2. Some(n, n)
        BY <2>1, <3>1
      <3> HIDE DEF Some, None0
      <3> QED BY <2>1, <2>4, <3>2
    <2>5. CASE n \in scored /\ \E i \in scored : Some(n - 1, i)
      <3>1. PICK i \in scored : Some(n - 1, i)
        BY <2>5
      <3>2. \E k \in {i, n} : Some(n, k)
        <4>1. CASE s[n].score < s[i].score
          <5>1. Some(n, i)
            BY <2>2, <3>1, <4>1
          <5> HIDE DEF Some
          <5> QED BY <5>1
        <4>2. CASE ~(s[n].score < s[i].score)
          <5>1. Some(n, n)
            BY <1>1, <2>2, <2>5, <3>1, <4>2
          <5> HIDE DEF Some
          <5> QED BY <5>1
        <4> QED BY <4>1, <4>2
      <3> HIDE DEF Some, None0
      <3> QED BY <2>1, <2>5, <3>2
    <2> HIDE DEF Some, None0
    <2> QED BY <1>3, <2>3, <2>4, <2>5
  <1>4. Len(s) \in P
    <2> HIDE DEF P
    <2>1. Len(s) \in Nat
      BY <1>1
    <2>2. \A n \in 0..Len(s) : n \in P
      BY <1>2, <1>3, <2>1, UpTo
    <2> QED BY <2>1, <2>2
  <1>5. PICK i \in scored : Some(Len(s), i)
    <2>1. b <= Len(s)
      BY <1>1
    <2>2. ~None0(Len(s))
      BY <1>1, <2>1
    <2> HIDE DEF Some, None0
    <2> QED BY <1>4, <2>2
  <1>6. \A k \in scored : Over(k, i)
    <2> HIDE DEF Over
    <2> QED BY <1>1, <1>5
  <1>7. i \in BestScore(s)
    BY <1>6 DEF BestScore, scored
  <1> QED BY <1>7

\* Once innovation is disabled, every person can be replanned.
LEMMA SelectorsDoNotPanic ==
  ASSUME BestKept, NEW person, IsPerson(person), OneSelected(person.plans), HasScore(person),
         NEW result \in ReplanResults(person.sub, person.plans, TRUE)
  PROVE  ~result.panics
PROOF
  <1> DEFINE plans == person.plans
             names == ChosenStrategies(person.sub, TRUE)
  <1>1. ArePlans(plans) /\ OneSelected(plans) /\ plans # <<>> /\ DOMAIN plans = 1..Len(plans) /\ 1 \in DOMAIN plans
    <2>1. ArePlans(plans) /\ OneSelected(plans)
      BY DEF IsPerson
    <2> HIDE DEF plans
    <2>2. DOMAIN plans = 1..Len(plans) /\ Len(plans) \in Nat
      BY <2>1 DEF ArePlans, IsSequence
    <2>3. PICK k \in 1..Len(plans) : TRUE
      BY <2>1, <2>2 DEF OneSelected
    <2>4. 1 \in 1..Len(plans)
      BY <2>2, <2>3
    <2>5. plans # <<>>
      BY <2>4
    <2> QED BY <2>1, <2>2, <2>4, <2>5
  <1>2. names \subseteq Selectors
    BY DEF ChosenStrategies, IsNonInnovative
  <1>3. "BestScore" \in names => \E i \in DOMAIN plans : plans[i].score # NoScore
    BY DEF HasScore
  <1>4. PICK h \in Handled(names, plans) : result \in Trimmed(h)
    BY DEF ReplanResults
  <1> HIDE DEF plans, names
  <1>5. ASSUME NEW name \in names PROVE SelectBy(name, plans) # {}
    <2>1. CASE name = "KeepLastSelected"
      <3>1. Cardinality(SelectedIn(plans)) = 1
        BY <1>1, OneSelectedIs
      <3>2. SelectedIn(plans) # {}
        BY <1>1 DEF SelectedIn, OneSelected
      <3> QED BY <2>1, <3>1, <3>2 DEF SelectBy, KeepLast
    <2>2. CASE name = "BestScore"
      <3>1. BestScore(plans) # {}
        BY <1>1, <1>3, <2>2, BestExists
      <3> QED BY <2>2, <3>1 DEF SelectBy
    <2>3. CASE name = "SelectRandom"
      BY <1>1, <2>3 DEF SelectBy
    <2>4. CASE name = "WorstScore"
      <3>1. WorstScore(plans) # {}
        BY <1>1, WorstExists DEF BestKept
      <3> QED BY <2>4, <3>1 DEF SelectBy
    <2> QED BY <1>2, <2>1, <2>2, <2>3, <2>4 DEF Selectors
  <1>6. h = [plans |-> plans, panics |-> FALSE]
    <2>1. CASE names = {}
      BY <1>4, <2>1 DEF Handled
    <2>2. CASE names # {}
      <3>1. PICK name \in names : h \in Handle(name, plans)
        BY <1>4, <2>2 DEF Handled
      <3>2. SelectBy(name, plans) # {} /\ name # "ReRoute"
        BY <1>2, <1>5 DEF Selectors
      <3> QED BY <3>1, <3>2 DEF Handle
    <2> QED BY <2>1, <2>2
  <1>7. RemovePlans(plans) # {}
    BY <1>1, RemovePlansKeep DEF BestKept
  <1>8. h.panics = FALSE /\ h.plans = plans
    BY <1>6
  <1>9. \E left : result = [plans |-> left, panics |-> FALSE]
    BY <1>4, <1>7, <1>8 DEF Trimmed
  <1> QED BY <1>9

\* A person with a scored plan keeps one, if there is room for more than one plan.
LEMMA ScoreStays ==
  ASSUME NEW before, ArePlans(before), NEW s, Keeps(before, s), MaxMemory > 1,
         Len(s) = Len(before) - Surplus(before), s = before \/ Surplus(before) > 0,
         \E i \in DOMAIN before : before[i].score # NoScore
  PROVE  \E k \in DOMAIN s : s[k].score # NoScore
PROOF
  <1>1. CASE s = before
    BY <1>1
  <1>2. CASE Surplus(before) > 0
    <2> SUFFICES ASSUME \A k \in DOMAIN s : s[k].score = NoScore PROVE FALSE
      OBVIOUS
    <2>1. /\ DOMAIN before = 1..Len(before) /\ Len(before) \in Nat
          /\ DOMAIN s = 1..Len(s) /\ Len(s) \in Nat /\ \A k \in 1..Len(s) : s[k].selected \in BOOLEAN
      BY DEF Keeps, ArePlans, IsSequence, IsPlan
    <2>2. Len(s) = MaxMemory
      BY <1>2, <2>1, ReplanningAssumption DEF Surplus
    <2>3. PICK i \in 1..Len(before) : before[i].score # NoScore
      BY <2>1
    <2>4. Count(s, before[i]) = 0
      <3>1. {k \in DOMAIN s : s[k] = before[i]} = {}
        BY <2>3
      <3> QED BY <3>1, FS_EmptySet DEF Count
    <2>5. Count(before, before[i]) > 0
      <3> DEFINE T == {k \in DOMAIN before : before[k] = before[i]}
      <3>1. i \in T
        BY <2>1
      <3>2. IsFiniteSet(T) /\ Cardinality(T) \in Nat
        BY CountFinite DEF ArePlans, IsSequence, Count
      <3> HIDE DEF T
      <3>3. Cardinality(T) # 0
        BY <3>1, <3>2, FS_EmptySet
      <3> QED BY <3>2, <3>3 DEF T, Count
    <2>6. ASSUME NEW k \in 1..Len(s) PROVE s[k].selected
      <3>1. Better(before[i], s[k])
        BY <2>1, <2>3 DEF Better, PlanIsWorse
      <3> QED BY <2>4, <2>5, <3>1 DEF Keeps
    <2>7. 1 \in 1..Len(s) /\ 2 \in 1..Len(s)
      BY <2>1, <2>2, ReplanningAssumption
    <2> QED BY <2>6, <2>7 DEF Keeps, OneSelected
  <1> QED BY <1>1, <1>2

-----------------------------------------------------------------------------
(* Accepted runs.                                                           *)

\* What AcceptedRunsComplete is about besides BestKept: nobody drives to the car, and
\* the user's files are complete.
RunsFit == AccessEgressMode \notin MainModes /\ \A in \in Inputs : FilesFit(in.files, in)

IsFit(person, g) == HasScore(person) /\ \A i \in DOMAIN person.plans : IsUsable(person.plans[i].elements, g)

LEMMA PreparedFits ==
  ASSUME AccessEgressMode \notin MainModes, NEW p, NEW person, IsPerson(person), AreTyped(person),
         NEW g, NEW h, g \subseteq h, IsFit(person, h)
  PROVE  IsFit(PreparePerson(p, person, g).person, h)
PROOF
  <1>1. PICK result : result = PreparePerson(p, person, g)
    OBVIOUS
  <1>2. /\ result = [person |-> result.person, issues |-> result.issues]
        /\ result.person = [person EXCEPT !.plans = result.person.plans]
        /\ result.person.plans = [i \in DOMAIN person.plans |-> result.person.plans[i]]
        /\ \A i \in DOMAIN person.plans :
             result.person.plans[i] = PlanAfter(PreparePlan(p, person.plans[i], g), person.plans[i])
        /\ result.issues = {} <=> \A i \in DOMAIN person.plans : PreparePlan(p, person.plans[i], g).ok
    BY <1>1, PreparePersonIs
  <1>3. ASSUME NEW i \in DOMAIN person.plans
        PROVE  /\ result.person.plans[i].score = person.plans[i].score
               /\ IsUsable(result.person.plans[i].elements, h)
    <2>1. PICK plan : plan = person.plans[i]
      OBVIOUS
    <2>2. IsPlan(plan) /\ AreElements(plan.elements) /\ IsUsable(plan.elements, h)
      BY <2>1 DEF IsPerson, ArePlans, IsSequence, AreTyped, IsFit
    <2>3. LET after == PlanAfter(PreparePlan(p, plan, g), plan) IN
            after.score = plan.score /\ IsUsable(after.elements, h)
      BY <2>2, PlanUsable
    <2>4. result.person.plans[i] = PlanAfter(PreparePlan(p, plan, g), plan)
      BY <1>2, <2>1
    <2> QED BY <2>1, <2>3, <2>4
  <1>4. result.person.sub = person.sub
    <2>1. PICK after : after = result.person.plans
      OBVIOUS
    <2>2. PICK plans, sub, attrs : person = [plans |-> plans, sub |-> sub, attrs |-> attrs]
      BY DEF IsPerson
    <2> QED BY <1>2, <2>1, <2>2
  <1>5. HasScore(result.person)
    BY <1>2, <1>3, <1>4 DEF IsFit, HasScore
  <1>6. IsFit(result.person, h)
    BY <1>2, <1>3, <1>5 DEF IsFit
  <1> QED BY <1>1, <1>6

\* The elements of the plan that is selected.
LEMMA SelectedIs ==
  ASSUME NEW person, ArePlans(person.plans), OneSelected(person.plans)
  PROVE  \E i \in DOMAIN person.plans :
           /\ person.plans[i].selected /\ SelectedIn(person.plans) # {}
           /\ \A k \in DOMAIN person.plans : person.plans[k].selected => k = i
           /\ SelectedElements(person) = person.plans[i].elements
PROOF
  <1> DEFINE plans == person.plans
  <1>1. DOMAIN plans = 1..Len(plans)
    BY DEF ArePlans, IsSequence
  <1>2. PICK i \in 1..Len(plans) : \A k \in 1..Len(plans) : plans[k].selected <=> k = i
    BY DEF OneSelected
  <1>3. SelectedIn(plans) = {i}
    BY <1>1, <1>2 DEF SelectedIn
  <1>4. Min({i}) = i
    BY DEF Min
  <1> QED BY <1>1, <1>2, <1>3, <1>4 DEF SelectedElements

LEMMA SelectedStays ==
  ASSUME NEW person, ArePlans(person.plans), OneSelected(person.plans),
         NEW other, ArePlans(other.plans), OneSelected(other.plans),
         \A k \in DOMAIN other.plans : \E i \in DOMAIN person.plans : other.plans[k] = person.plans[i]
  PROVE  SelectedElements(other) = SelectedElements(person) /\ SelectedIn(other.plans) # {}
PROOF
  <1>1. PICK i \in DOMAIN person.plans :
           /\ \A k \in DOMAIN person.plans : person.plans[k].selected => k = i
           /\ SelectedElements(person) = person.plans[i].elements
    BY SelectedIs
  <1>2. PICK k \in DOMAIN other.plans :
           /\ other.plans[k].selected /\ SelectedIn(other.plans) # {}
           /\ SelectedElements(other) = other.plans[k].elements
    BY SelectedIs
  <1>3. PICK m \in DOMAIN person.plans : other.plans[k] = person.plans[m]
    OBVIOUS
  <1>4. m = i
    BY <1>1, <1>2, <1>3
  <1> QED BY <1>1, <1>2, <1>3, <1>4

\* Inductive, with RInv and PInv: the iterations are counted, and what was written is not
\* forgotten; the network, the vehicles and the plans are fit for a run; and once the
\* first mobsim has started, every person can be put in a part.
FreshInv ==
  /\ phase \in {"convert", "read"} => iteration = FirstIteration /\ written = <<>>
  /\ phase \in {"prepare", "mobsim"} => iteration <= LastIteration
  /\ phase \in {"prepare", "mobsim"} /\ iteration = FirstIteration => written = <<>>
  /\ phase = "replan" => iteration < LastIteration
InRun == phase \in {"prepare", "mobsim", "replan"}
FilesFitInv == phase \in {"convert", "read"} => FilesFit(files, input)
NetworkInv ==
  InRun => /\ LinksFit(network, input)
           /\ input.tool # "convert_to_xml" => GivenVehicles(input) \subseteq Vehicles
FitInv == InRun => \A p \in Persons : IsFit(population[p], GivenVehicles(input) \cup Vehicles)
SplitInv == InRun /\ (iteration > FirstIteration \/ phase = "replan") => \A p \in Persons : CanSplit(population[p])
CInv == FreshInv /\ FilesFitInv /\ NetworkInv /\ FitInv /\ SplitInv /\ AcceptedRunsComplete

LEMMA CInvInit == ASSUME RunsFit PROVE Init => CInv
PROOF
  <1> SUFFICES ASSUME Init PROVE CInv
    OBVIOUS
  <1>1. /\ phase \in {"convert", "read"} /\ iteration = FirstIteration /\ written = <<>>
        /\ input \in Inputs /\ files = input.files
    BY DEF Init
  <1>2. FilesFitInv
    BY <1>1 DEF RunsFit, FilesFitInv
  <1>3. AcceptedRunsComplete
    BY <1>1 DEF AcceptedRunsComplete
  <1> QED BY <1>1, <1>2, <1>3 DEF CInv, FreshInv, NetworkInv, FitInv, SplitInv, InRun

LEMMA ConvertKeepsC == PInv /\ CInv /\ Convert => CInv'
PROOF
  <1> SUFFICES ASSUME PInv, CInv, Convert PROVE CInv'
    OBVIOUS
  <1>1. /\ phase = "convert" /\ phase' \in {"read", "notConverted"} /\ input' = input
        /\ iteration' = iteration /\ written' = written
    BY DEF Convert
  <1>2. iteration = FirstIteration /\ written = <<>>
    BY <1>1 DEF CInv, FreshInv
  <1>3. FilesFitInv'
    <2>1. CASE phase' = "notConverted"
      BY <2>1 DEF FilesFitInv
    <2>2. CASE phase' = "read"
      <3>1. files' \in Conversions(input.tool, files)
        BY <2>2 DEF Convert
      <3>2. input.tool \in {"convert_to_binary", "convert_to_xml"} /\ PlansInFile(files.plans)
        BY <1>1, PlanCycleAssumption DEF PInv, ReadInv
      <3>3. FilesFit(files, input)
        BY <1>1 DEF CInv, FilesFitInv
      <3>4. FilesFit(files', input)
        BY <3>1, <3>2, <3>3, ConvertedFits
      <3> QED BY <1>1, <3>4 DEF FilesFitInv
    <2> QED BY <1>1, <2>1, <2>2
  <1>4. AcceptedRunsComplete'
    BY <1>1, <1>2 DEF AcceptedRunsComplete
  <1>5. FreshInv'
    BY <1>1, <1>2 DEF FreshInv
  <1>6. NetworkInv' /\ FitInv' /\ SplitInv'
    BY <1>1 DEF NetworkInv, FitInv, SplitInv, InRun
  <1> QED BY <1>3, <1>4, <1>5, <1>6 DEF CInv

LEMMA ReadKeepsC == PInv /\ CInv /\ Read => CInv'
PROOF
  <1> SUFFICES ASSUME PInv, CInv, Read PROVE CInv'
    OBVIOUS
  <1>1. /\ phase = "read" /\ phase' \in {"prepare", "unreadable"} /\ input' = input
        /\ iteration' = iteration /\ written' = written
    BY DEF Read
  <1>2. iteration = FirstIteration /\ written = <<>> /\ PlansInFile(files.plans) /\ FilesFit(files, input)
    BY <1>1 DEF CInv, FreshInv, FilesFitInv, PInv, ReadInv
  <1>3. AcceptedRunsComplete' /\ FilesFitInv'
    BY <1>1, <1>2 DEF AcceptedRunsComplete, FilesFitInv
  <1>4. FreshInv'
    BY <1>1, <1>2, PlanCycleAssumption DEF FreshInv, ValidIterations
  <1>5. SplitInv'
    BY <1>1, <1>2, PlanCycleAssumption DEF SplitInv
  <1>6. CASE phase' = "unreadable"
    BY <1>3, <1>4, <1>5, <1>6 DEF CInv, NetworkInv, FitInv, InRun
  <1>7. CASE phase' = "prepare"
    <2>1. /\ population' = ReadPopulation(files.plans) /\ ScenarioReadable(files)
          /\ network' = PartitionNetwork(NetworkFromFile(files.network), input.method)
          /\ garage' = GarageWithPlans(files.vehicles, files.plans)
      BY <1>7 DEF Read, LoadScenario
    <2> DEFINE g == GivenVehicles(input)
    <2>2. /\ NetworkFits(files.network, input)
          /\ input.tool # "convert_to_xml" => g \subseteq Vehicles'
          /\ \A p \in DOMAIN files.plans.persons :
               IsComplete(FromFile(files.plans.format, files.plans.persons[p], p), g)
      BY <1>2, <2>1 DEF FilesFit, Vehicles
    <2>3. LinksFit(network', input)
      <3>1. IsFitting(NetworkFromFile(files.network), input)
        BY <2>1, <2>2, NetworkRead DEF ScenarioReadable
      <3> QED BY <2>1, <3>1, NetworkPartitioned
    <2>4. NetworkInv'
      BY <1>1, <2>2, <2>3 DEF NetworkInv
    <2>5. /\ Persons' = DOMAIN files.plans.persons
          /\ \A p \in DOMAIN files.plans.persons :
               population'[p] = FromFile(files.plans.format, files.plans.persons[p], p)
      BY <2>1 DEF ReadPopulation, Persons
    <2>6. ASSUME NEW p \in DOMAIN files.plans.persons, NEW h, g \subseteq h
          PROVE  IsFit(population'[p], h)
      <3>1. Readable(files.plans.format, files.plans.persons[p])
        BY <2>1 DEF ScenarioReadable
      <3>2. PICK person : person = FromFile(files.plans.format, files.plans.persons[p], p)
        OBVIOUS
      <3>3. \A i \in DOMAIN person.plans : AreElements(person.plans[i].elements)
        BY <1>2, <3>1, <3>2, PersonRead
      <3>4. IsComplete(person, g)
        BY <2>2, <3>2
      <3> HIDE DEF g
      <3>5. \A i \in DOMAIN person.plans : IsUsable(person.plans[i].elements, h)
        BY <2>6, <3>3, <3>4, ClosedIsUsable DEF IsComplete
      <3> QED BY <2>5, <3>2, <3>4, <3>5 DEF IsFit, IsComplete
    <2>7. FitInv'
      <3> DEFINE h == g \cup Vehicles'
      <3>1. g \subseteq h
        OBVIOUS
      <3> HIDE DEF g, h
      <3>2. \A p \in Persons' : IsFit(population'[p], h)
        BY <2>5, <2>6, <3>1
      <3> QED BY <1>1, <3>2 DEF FitInv, g, h
    <2> QED BY <1>3, <1>4, <1>5, <2>4, <2>7 DEF CInv
  <1> QED BY <1>1, <1>6, <1>7

LEMMA PrepareKeepsC ==
  ASSUME RunsFit, NEW p \in Persons PROVE PInv /\ CInv /\ Prepare(p) => CInv'
PROOF
  <1> SUFFICES ASSUME PInv, CInv, Prepare(p) PROVE CInv'
    OBVIOUS
  <1>1. /\ phase = "prepare" /\ phase' = phase /\ input' = input /\ iteration' = iteration
        /\ Vehicles' = Vehicles /\ network' = network /\ written' = written
    BY DEF Prepare, Vehicles, core
  <1>2. /\ Persons' = Persons /\ p \in todo /\ \A q \in Persons : q # p => population'[q] = population[q]
        /\ iteration > FirstIteration => population' = population
    BY PrepareIs
  <1>3. FreshInv' /\ FilesFitInv' /\ NetworkInv' /\ AcceptedRunsComplete'
    BY <1>1 DEF CInv, FreshInv, FilesFitInv, NetworkInv, InRun, AcceptedRunsComplete
  <1>4. FitInv'
    <2> DEFINE h == GivenVehicles(input) \cup Vehicles
    <2>1. \A q \in Persons : IsFit(population[q], h)
      BY <1>1 DEF CInv, FitInv, InRun
    <2>2. Vehicles \subseteq h
      OBVIOUS
    <2> HIDE DEF h
    <2>3. IsFit(population'[p], h)
      <3>1. CASE iteration > FirstIteration
        BY <1>2, <2>1, <3>1
      <3>2. CASE ~(iteration > FirstIteration)
        <4>1. iteration = FirstIteration
          BY <3>2, PlanCycleAssumption DEF PInv, ReadInv
        <4>2. /\ AreTyped(population[p]) /\ IsPerson(population[p])
              /\ population = [q \in Persons |-> population[q]]
          BY <1>1, <1>2, <4>1 DEF PInv, FirstInv, MemoryInv
        <4>3. population'[p] = PreparePerson(p, population[p], Vehicles).person
          <5>1. population' = [population EXCEPT ![p] = PreparePerson(p, population[p], Vehicles).person]
            BY DEF Prepare
          <5> QED BY <4>2, <5>1
        <4> QED BY <2>1, <2>2, <4>2, <4>3, PreparedFits DEF RunsFit
      <3> QED BY <3>1, <3>2
    <2>4. \A q \in Persons : IsFit(population'[q], h)
      BY <1>2, <2>1, <2>3
    <2> QED BY <1>1, <1>2, <2>4 DEF FitInv, h
  <1>5. SplitInv'
    <2> SUFFICES ASSUME iteration > FirstIteration PROVE SplitInv'
      BY <1>1 DEF SplitInv
    <2>1. population' = population /\ \A q \in Persons : CanSplit(population[q])
      BY <1>1, <1>2 DEF CInv, SplitInv, InRun
    <2> QED BY <1>1, <1>2, <2>1 DEF SplitInv, CanSplit
  <1> QED BY <1>3, <1>4, <1>5 DEF CInv

LEMMA ReplanKeepsC ==
  ASSUME BestKept, RunsFit, NEW p \in Persons PROVE RInv /\ PInv /\ CInv /\ Replan(p) => CInv'
PROOF
  <1> SUFFICES ASSUME RInv, PInv, CInv, Replan(p) PROVE CInv'
    OBVIOUS
  <1>1. /\ phase = "replan" /\ phase' \in {"replan", "notReplanned"} /\ input' = input
        /\ iteration' = iteration /\ Vehicles' = Vehicles /\ network' = network /\ written' = written
    BY DEF Replan, Vehicles, core
  <1>2. PICK result \in ReplanResults(population[p].sub, population[p].plans, InnovationDisabled(iteration)) :
          /\ population' = [population EXCEPT ![p].plans = result.plans]
          /\ phase' = IF result.panics THEN "notReplanned" ELSE phase
    BY DEF Replan
  <1> DEFINE h == GivenVehicles(input) \cup Vehicles
  <1>3. /\ population = [q \in Persons |-> population[q]] /\ IsPerson(population[p])
        /\ ArePlans(population[p].plans) /\ OneSelected(population[p].plans)
        /\ \A q \in Persons : IsFit(population[q], h) /\ CanSplit(population[q])
    BY <1>1 DEF RInv, PersonsInv, ReplanInv, IsPerson, CInv, FitInv, SplitInv, InRun
  <1> HIDE DEF h
  <1>4. FreshInv' /\ FilesFitInv'
    BY <1>1 DEF CInv, FreshInv, FilesFitInv
  <1>5. iteration \in Nat /\ iteration >= FirstIteration /\ iteration < LastIteration
        /\ FirstIteration \in Nat /\ LastIteration \in Nat
    BY <1>1, PlanCycleAssumption DEF PInv, ReadInv, CInv, FreshInv
  <1>6. CASE result.panics
    <2>1. phase' = "notReplanned"
      BY <1>2, <1>6
    <2>2. ~InnovationDisabled(iteration)
      <3> SUFFICES ASSUME InnovationDisabled(iteration) PROVE FALSE
        OBVIOUS
      <3>1. result \in ReplanResults(population[p].sub, population[p].plans, TRUE)
        <4>1. InnovationDisabled(iteration) = TRUE
          BY DEF InnovationDisabled
        <4> QED BY <1>2, <4>1
      <3>2. HasScore(population[p])
        BY <1>3 DEF IsFit
      <3> QED BY <1>3, <1>6, <3>1, <3>2, SelectorsDoNotPanic
    <2>3. 100 * (iteration - FirstIteration) < FractionToDisableInnovation * (LastIteration - FirstIteration)
      <3> DEFINE total == LastIteration - FirstIteration
                 a == 100 * (iteration - FirstIteration)
                 b == FractionToDisableInnovation * total
      <3>1. ~(a >= b)
        BY <2>2 DEF InnovationDisabled
      <3>2. a \in Int /\ b \in Int
        <4>1. total \in Int /\ FractionToDisableInnovation \in Int
          BY <1>5, PlanCycleAssumption
        <4> HIDE DEF total
        <4> QED BY <1>5, <4>1
      <3> HIDE DEF a, b
      <3>3. a < b
        BY <3>1, <3>2
      <3> QED BY <3>3 DEF a, b
    <2>4. AcceptedRunsComplete'
      BY <1>1, <2>1, <2>3 DEF AcceptedRunsComplete
    <2> QED BY <1>4, <2>1, <2>4 DEF CInv, NetworkInv, FitInv, SplitInv, InRun
  <1>7. CASE ~result.panics
    <2>1. phase' = "replan"
      BY <1>1, <1>2, <1>7
    <2>2. /\ Keeps(population[p].plans, result.plans)
          /\ Len(result.plans) = Len(population[p].plans) - Surplus(population[p].plans)
      BY <1>3, <1>7, ReplanKeeps
    <2>3. /\ ArePlans(result.plans) /\ OneSelected(result.plans)
          /\ \A k \in DOMAIN result.plans : \E i \in DOMAIN population[p].plans :
               result.plans[k] = population[p].plans[i]
      BY <1>3, <1>7, <2>2, ReplannedAmong DEF Keeps
    <2> DEFINE person == [population[p] EXCEPT !.plans = result.plans]
    <2>4. population' = [population EXCEPT ![p] = person]
      BY <1>2, <1>3
    <2>5. person.plans = result.plans /\ person.sub = population[p].sub
      <3>1. PICK plans, sub, attrs : population[p] = [plans |-> plans, sub |-> sub, attrs |-> attrs]
        BY <1>3 DEF IsPerson
      <3>2. person = [plans |-> result.plans, sub |-> sub, attrs |-> attrs]
        BY <3>1
      <3> HIDE DEF person
      <3> QED BY <3>1, <3>2
    <2> HIDE DEF person
    <2>6. Persons' = Persons /\ \A q \in Persons : population'[q] = IF q = p THEN person ELSE population[q]
      BY <1>3, <2>4, OneChanged
    <2>7. HasScore(person)
      <3> SUFFICES ASSUME "BestScore" \in ChosenStrategies(person.sub, TRUE)
                   PROVE  MaxMemory > 1 /\ \E k \in DOMAIN result.plans : result.plans[k].score # NoScore
        BY <2>5 DEF HasScore
      <3>1. MaxMemory > 1 /\ \E i \in DOMAIN population[p].plans : population[p].plans[i].score # NoScore
        BY <1>3, <2>5 DEF IsFit, HasScore
      <3>2. result.plans = population[p].plans \/ Surplus(population[p].plans) > 0
        <4> SUFFICES ASSUME ~(Surplus(population[p].plans) > 0) PROVE result.plans = population[p].plans
          OBVIOUS
        <4>1. Surplus(population[p].plans) = 0
          <5>1. Len(population[p].plans) \in Nat /\ MaxMemory \in Nat
            BY <1>3, ReplanningAssumption DEF ArePlans, IsSequence
          <5> QED BY <5>1 DEF Surplus
        <4>2. result.plans \in RemovePlans(population[p].plans)
          BY <1>2, <1>7, ReplanRemoves
        <4>3. RemovePlans(population[p].plans) = {population[p].plans}
          <5>1. PICK plans : plans = population[p].plans
            OBVIOUS
          <5>2. \E S : plans \in Seq(S)
            BY <1>3, <5>1 DEF ArePlans, IsSequence
          <5>3. PICK after : RemovePlans(plans) = after[Surplus(plans)] /\ IsRemoving(after, plans)
            BY <5>2, RemovePlansIs
          <5>4. after[0] = {plans}
            BY <4>1, <5>1, <5>3 DEF IsRemoving
          <5> QED BY <4>1, <5>1, <5>3, <5>4
        <4> QED BY <4>2, <4>3
      <3> QED BY <1>3, <2>2, <3>1, <3>2, ScoreStays
    <2>8. IsFit(person, h)
      <3>1. ASSUME NEW k \in DOMAIN result.plans PROVE IsUsable(result.plans[k].elements, h)
        <4>1. PICK i \in DOMAIN population[p].plans : result.plans[k] = population[p].plans[i]
          BY <2>3
        <4>2. IsUsable(population[p].plans[i].elements, h)
          BY <1>3 DEF IsFit
        <4> QED BY <4>1, <4>2
      <3> QED BY <2>5, <2>7, <3>1 DEF IsFit
    <2>9. FitInv'
      <3>1. \A q \in Persons : IsFit(population'[q], h)
        BY <1>3, <2>6, <2>8
      <3> QED BY <1>1, <2>6, <3>1 DEF FitInv, h
    <2>10. CanSplit(person)
      <3>1. SelectedElements(person) = SelectedElements(population[p]) /\ SelectedIn(person.plans) # {}
        BY <1>3, <2>3, <2>5, SelectedStays
      <3>2. CanSplit(population[p])
        BY <1>3
      <3> QED BY <3>1, <3>2 DEF CanSplit
    <2>11. SplitInv'
      <3>1. \A q \in Persons : CanSplit(population'[q])
        BY <1>3, <2>6, <2>10
      <3> QED BY <1>1, <2>6, <3>1 DEF SplitInv, CanSplit
    <2>12. NetworkInv' /\ AcceptedRunsComplete'
      BY <1>1, <2>1 DEF CInv, NetworkInv, InRun, AcceptedRunsComplete
    <2> QED BY <1>4, <2>9, <2>11, <2>12 DEF CInv
  <1> QED BY <1>6, <1>7

LEMMA MobsimKeepsC == ASSUME BestKept PROVE RInv /\ PInv /\ CInv /\ MobsimPanics => CInv'
PROOF
  <1> SUFFICES ASSUME RInv, PInv, CInv, MobsimPanics PROVE CInv'
    OBVIOUS
  <1>1. /\ phase = "mobsim" /\ phase' \in {"notSplit", "noVehicle"} /\ input' = input /\ iteration' = iteration
        /\ Vehicles' = Vehicles /\ written' = written /\ population' = population /\ Persons' = Persons
    BY DEF MobsimPanics, Vehicles, core, Persons
  <1>2. FreshInv' /\ FilesFitInv' /\ NetworkInv' /\ FitInv' /\ SplitInv'
    BY <1>1 DEF FreshInv, FilesFitInv, NetworkInv, FitInv, SplitInv, InRun
  <1>3. issues = {} /\ iteration \in Nat /\ iteration >= FirstIteration
    BY <1>1 DEF PInv, IssuesInv, ReadInv
  <1> DEFINE h == GivenVehicles(input) \cup Vehicles
  <1>4. \A p \in Persons : /\ ArePlans(population[p].plans) /\ OneAtMost(population[p].plans)
                           /\ ArePrepared(p, population[p], Vehicles) /\ IsFit(population[p], h)
    BY <1>1, <1>3 DEF RInv, PersonsInv, IsPerson, PInv, PreparedInv, CInv, FitInv, InRun
  <1> HIDE DEF h
  <1>5. ASSUME NEW p \in Persons, SelectedIn(population[p].plans) # {}
        PROVE  LET elements == SelectedElements(population[p]) IN
                 Prepared(p, elements, Vehicles) /\ IsUsable(elements, h)
    <2>1. PICK person : person = population[p]
      OBVIOUS
    <2>2. /\ ArePlans(person.plans) /\ OneSelected(person.plans)
          /\ ArePrepared(p, person, Vehicles) /\ IsFit(person, h)
      BY <1>4, <1>5, <2>1, OneIsSelected
    <2>3. PICK i \in DOMAIN person.plans : SelectedElements(person) = person.plans[i].elements
      BY <2>2, SelectedIs
    <2> QED BY <2>1, <2>2, <2>3 DEF ArePrepared, IsFit
  <1>6. CASE phase' = "notSplit"
    <2>1. PICK p \in Persons : ~CanSplit(population[p])
      BY <1>6 DEF MobsimPanics
    <2>2. iteration = FirstIteration
      <3>1. ~(iteration > FirstIteration)
        BY <1>1, <2>1 DEF CInv, SplitInv, InRun
      <3> QED BY <1>3, <3>1, PlanCycleAssumption
    <2>3. written = <<>>
      BY <1>1, <2>2 DEF CInv, FreshInv
    <2>4. \/ SelectedIn(population[p].plans) = {}
          \/ input.method = "none" /\ \E l \in input.files.network.links : l.partition >= NumParts
      <3> SUFFICES ASSUME SelectedIn(population[p].plans) # {}
                   PROVE  input.method = "none" /\ \E l \in input.files.network.links : l.partition >= NumParts
        OBVIOUS
      <3>1. PICK elements : elements = SelectedElements(population[p])
        OBVIOUS
      <3>2. Prepared(p, elements, Vehicles) /\ IsUsable(elements, h)
        BY <1>5, <3>1
      <3>3. Placed(elements) /\ Len(elements) > 0 /\ IsMain(elements[1])
        BY <3>2 DEF Prepared, UpToTrip, IsUsable
      <3>4. elements # <<>> /\ elements[1].kind = "act" /\ elements[1].link \in DOMAIN Net
        <4>1. Len(elements) \in Nat
          BY <3>3, LengthIs DEF Placed
        <4>2. 1 \in 1..Len(elements)
          BY <3>3, <4>1
        <4>3. elements[1].kind = "act"
          BY <3>3 DEF IsMain
        <4>4. elements[1].link \in DOMAIN Net
          BY <3>3, <4>2, <4>3 DEF Placed, IsPlaced, IsElement, IsActivity, IsLeg
        <4>5. elements # <<>>
          BY <3>3
        <4> QED BY <4>3, <4>4, <4>5
      <3>5. ~(network.links[elements[1].link].partition < NumParts)
        BY <2>1, <3>1, <3>4 DEF CanSplit
      <3>6. LinksFit(network, input)
        BY <1>1 DEF CInv, NetworkInv, InRun
      <3> QED BY <3>4, <3>5, <3>6 DEF LinksFit
    <2>5. AcceptedRunsComplete'
      BY <1>1, <1>6, <2>2, <2>3, <2>4 DEF AcceptedRunsComplete
    <2> QED BY <1>2, <2>5 DEF CInv
  <1>7. CASE phase' = "noVehicle"
    <2>1. PICK p \in Persons : LacksVehicle(population[p]) /\ CanSplit(population[p])
      BY <1>7 DEF MobsimPanics
    <2>2. PICK elements : elements = SelectedElements(population[p])
      OBVIOUS
    <2>3. Prepared(p, elements, Vehicles) /\ IsUsable(elements, h)
      BY <1>5, <2>1, <2>2 DEF CanSplit
    <2>4. PICK k \in DOMAIN elements :
            elements[k].kind = "leg" /\ elements[k].mode \in MainModes /\ elements[k].route.veh \notin Vehicles
      BY <2>1, <2>2 DEF LacksVehicle
    <2>5. elements[k].route.veh \in h
      BY <2>3, <2>4, DriversHaveVehicles
    <2>6. ~(GivenVehicles(input) \subseteq Vehicles)
      BY <2>4, <2>5 DEF h
    <2>7. input.tool = "convert_to_xml"
      BY <1>1, <2>6 DEF CInv, NetworkInv, InRun
    <2>8. VehiclesGiven' = GivenVehicles(input)
      BY <1>1 DEF VehiclesGiven, GivenVehicles
    <2>9. AcceptedRunsComplete'
      BY <1>1, <1>7, <2>6, <2>7, <2>8 DEF AcceptedRunsComplete
    <2> QED BY <1>2, <2>9 DEF CInv
  <1> QED BY <1>1, <1>6, <1>7

LEMMA ControllerKeepsC ==
  PInv /\ CInv /\ (EndPrepare \/ Simulate \/ NextIteration \/ WriteOutput \/ UNCHANGED vars) => CInv'
PROOF
  <1> SUFFICES ASSUME PInv, CInv, EndPrepare \/ Simulate \/ NextIteration \/ WriteOutput \/ UNCHANGED vars
               PROVE  CInv'
    OBVIOUS
  <1>1. /\ input' = input /\ population' = population /\ Persons' = Persons /\ Vehicles' = Vehicles
        /\ files' = files /\ network' = network
    BY DEF EndPrepare, Simulate, NextIteration, WriteOutput, vars, Vehicles, core, Persons
  <1>2. /\ iteration \in Nat /\ iteration >= FirstIteration /\ FirstIteration \in Nat /\ LastIteration \in Nat
    BY PlanCycleAssumption DEF PInv, ReadInv
  <1>3. InRun /\ InRun' => NetworkInv' /\ FitInv'
    BY <1>1 DEF CInv, NetworkInv, FitInv
  <1>4. ~InRun' => NetworkInv' /\ FitInv' /\ SplitInv'
    BY DEF NetworkInv, FitInv, SplitInv
  <1>5. \A p \in Persons : CanSplit(population[p])' <=> CanSplit(population[p])
    BY <1>1 DEF CanSplit
  <1>6. CASE EndPrepare
    <2>1. /\ phase = "prepare" /\ iteration' = iteration /\ written' = written
          /\ phase' \in {"mobsim", "notPrepared"} /\ (phase' = "notPrepared" => issues # {})
      BY <1>6 DEF EndPrepare
    <2>2. FreshInv' /\ FilesFitInv'
      BY <2>1 DEF CInv, FreshInv, FilesFitInv
    <2>3. AcceptedRunsComplete'
      <3> SUFFICES ASSUME phase' = "notPrepared" PROVE iteration = FirstIteration /\ written = <<>>
        BY <2>1 DEF AcceptedRunsComplete
      <3>1. ~(iteration > FirstIteration)
        BY <2>1 DEF PInv, IssuesInv
      <3>2. iteration = FirstIteration
        BY <1>2, <3>1
      <3> QED BY <2>1, <3>2 DEF CInv, FreshInv
    <2>4. SplitInv'
      BY <1>1, <1>5, <2>1 DEF CInv, SplitInv, InRun
    <2> QED BY <1>3, <1>4, <2>1, <2>2, <2>3, <2>4 DEF CInv, InRun
  <1>7. CASE Simulate
    <2>1. /\ phase = "mobsim" /\ iteration' = iteration
          /\ phase' = IF IsLastIteration THEN "output" ELSE "replan"
          /\ \A p \in Persons : CanSplit(population[p])
      BY <1>7 DEF Simulate
    <2>2. phase' = "replan" => iteration < LastIteration
      <3>1. iteration <= LastIteration
        BY <2>1 DEF CInv, FreshInv
      <3> QED BY <1>2, <2>1, <3>1 DEF IsLastIteration
    <2>3. FreshInv' /\ FilesFitInv' /\ AcceptedRunsComplete'
      BY <2>1, <2>2 DEF FreshInv, FilesFitInv, AcceptedRunsComplete
    <2>4. SplitInv'
      BY <1>1, <1>5, <2>1 DEF SplitInv
    <2> QED BY <1>3, <1>4, <2>1, <2>3, <2>4 DEF CInv, InRun
  <1>8. CASE NextIteration
    <2>1. phase = "replan" /\ phase' = "prepare" /\ iteration' = iteration + 1
      BY <1>8 DEF NextIteration
    <2>2. iteration' <= LastIteration /\ iteration' # FirstIteration
      BY <1>2, <2>1 DEF CInv, FreshInv
    <2>3. FreshInv' /\ FilesFitInv' /\ AcceptedRunsComplete'
      BY <2>1, <2>2 DEF FreshInv, FilesFitInv, AcceptedRunsComplete
    <2>4. SplitInv'
      BY <1>1, <1>5, <2>1 DEF CInv, SplitInv, InRun
    <2> QED BY <1>3, <2>1, <2>3, <2>4 DEF CInv, InRun
  <1>9. CASE WriteOutput
    <2>1. phase' = "done"
      BY <1>9 DEF WriteOutput
    <2> QED BY <1>4, <2>1 DEF CInv, FreshInv, FilesFitInv, AcceptedRunsComplete, InRun
  <1>10. CASE UNCHANGED vars
    <2>1. iteration' = iteration /\ phase' = phase /\ written' = written
      BY <1>10 DEF vars
    <2>2. FreshInv' /\ FilesFitInv'
      BY <1>1, <2>1 DEF CInv, FreshInv, FilesFitInv
    <2>3. VehiclesGiven' = VehiclesGiven
      BY <1>1 DEF VehiclesGiven
    <2>4. AcceptedRunsComplete'
      BY <1>1, <2>1, <2>3 DEF CInv, AcceptedRunsComplete
    <2>5. SplitInv'
      BY <1>1, <1>5, <2>1 DEF CInv, SplitInv, InRun
    <2>6. NetworkInv' /\ FitInv'
      BY <1>3, <1>4, <2>1 DEF InRun
    <2> QED BY <2>2, <2>4, <2>5, <2>6 DEF CInv
  <1> QED BY <1>6, <1>7, <1>8, <1>9, <1>10

LEMMA CInvStep == ASSUME BestKept, RunsFit PROVE RInv /\ PInv /\ CInv /\ [Next]_vars => CInv'
  BY ConvertKeepsC, ReadKeepsC, PrepareKeepsC, ReplanKeepsC, MobsimKeepsC, ControllerKeepsC DEF Next, Terminated

\* What has been accepted by the first iteration is accepted by the later ones: a run of
\* a scenario that is complete ends early only for one of the reasons that the property
\* names, and never after plans have been written unless ReRoute or a lost vehicle ends it.
THEOREM RunsComplete == ASSUME BestKept, RunsFit PROVE Spec => []AcceptedRunsComplete
PROOF
  <1>1. CInv => AcceptedRunsComplete
    BY DEF CInv
  <1> QED BY <1>1, RInvInit, RInvStep, PInvInit, PInvStep, CInvInit, CInvStep, PTL DEF Spec

-----------------------------------------------------------------------------
(* Which trips are kept.                                                    *)

\* f stands where e stood, and leads where e led.
Alike(e, f) ==
  /\ f.kind = e.kind /\ (IsMain(f) <=> IsMain(e)) /\ (IsMain(e) => f.link = e.link)
  /\ IsRouted(f) <=> IsRouted(e)
  /\ IsRouted(e) => /\ f.mode = e.mode /\ f.route.type = e.route.type
                    /\ f.route.start = e.route.start /\ f.route.end = e.route.end
AreAlike(E, F) == Len(F) = Len(E) /\ \A i \in 1..Len(E) : Alike(E[i], F[i])

LEMMA AlikeJoins ==
  ASSUME NEW E, IsSequence(E), NEW F, AreAlike(E, F)
  PROVE  (WellFormed(E) => WellFormed(F)) /\ (Joined(E) => Joined(F))
PROOF
  <1>1. Len(E) \in Nat /\ Len(F) = Len(E) /\ \A i \in 1..Len(E) : Alike(E[i], F[i])
    BY LengthIs DEF AreAlike
  <1>2. WellFormed(E) => WellFormed(F)
    BY <1>1 DEF WellFormed, Alike
  <1>3. ASSUME Joined(E), NEW i \in 2..Len(E) - 1 PROVE JoinsAt(F, i)
    <2>1. i \in 1..Len(E) /\ i - 1 \in 1..Len(E) /\ i + 1 \in 1..Len(E)
          /\ (i + 2 <= Len(E) => i + 2 \in 1..Len(E))
      BY <1>1
    <2>2. JoinsAt(E, i) /\ Alike(E[i], F[i]) /\ Alike(E[i - 1], F[i - 1]) /\ Alike(E[i + 1], F[i + 1])
          /\ (i + 2 <= Len(E) => Alike(E[i + 2], F[i + 2]))
      BY <1>1, <1>3, <2>1 DEF Joined
    <2> QED BY <1>1, <2>2 DEF JoinsAt, Alike
  <1>4. Joined(E) => Joined(F)
    BY <1>1, <1>3 DEF Joined
  <1> QED BY <1>2, <1>4

LEMMA MainsBy ==
  ASSUME NEW S, NEW q \in Seq(S)
  PROVE  LET T == {e \in S : IsMain(e)} IN
           \E g \in [0..Len(q) -> Seq(S)] : IsThose(g, q, T, Len(q)) /\ MainActivities(q) = g[Len(q)]
PROOF
  <1> DEFINE T == {e \in S : IsMain(e)}
  <1>1. MainActivities(q) = Those(q, T)
    BY MainsAre
  <1> HIDE DEF T
  <1>2. PICK g \in [0..Len(q) -> Seq(S)] : IsThose(g, q, T, Len(q)) /\ Those(q, T) = g[Len(q)]
    BY ThoseIs
  <1> QED BY <1>1, <1>2 DEF T

\* The main activities of sequences that have the same ones at the same places.
LEMMA SameMains ==
  ASSUME NEW E, IsSequence(E), NEW F, IsSequence(F), Len(F) = Len(E),
         \A i \in 1..Len(E) : (IsMain(F[i]) <=> IsMain(E[i])) /\ (IsMain(E[i]) => F[i] = E[i])
  PROVE  MainActivities(F) = MainActivities(E)
PROOF
  <1> DEFINE A == {E[i] : i \in 1..Len(E)}
             B == {F[i] : i \in 1..Len(F)}
  <1>1. E \in Seq(A) /\ F \in Seq(B)
    BY DEF IsSequence
  <1> HIDE DEF A, B
  <1>2. PICK S : S = A \cup B
    OBVIOUS
  <1>3. E \in Seq(S) /\ F \in Seq(S)
    BY <1>1, <1>2
  <1> DEFINE T == {e \in S : IsMain(e)}
  <1>4. \E g \in [0..Len(E) -> Seq(S)] : IsThose(g, E, T, Len(E)) /\ MainActivities(E) = g[Len(E)]
    BY <1>3, MainsBy, Zenon
  <1>5. \E h \in [0..Len(F) -> Seq(S)] : IsThose(h, F, T, Len(F)) /\ MainActivities(F) = h[Len(F)]
    BY <1>3, MainsBy, Zenon
  <1> DEFINE n == Len(E)
  <1>6. PICK g \in [0..n -> Seq(S)] : IsThose(g, E, T, n) /\ MainActivities(E) = g[n]
    BY <1>4, Zenon
  <1>7. PICK h \in [0..n -> Seq(S)] : IsThose(h, F, T, n) /\ MainActivities(F) = h[n]
    BY <1>5, Zenon
  <1>11. n \in Nat
    BY LengthIs
  <1> DEFINE P == {i \in 0..n : h[i] = g[i]}
  <1>8. 0 \in P
    BY <1>6, <1>7, <1>11 DEF IsThose
  <1>9. ASSUME NEW i \in 1..n, i - 1 \in P PROVE i \in P
    <2>1. i \in 0..n /\ i # 0 /\ h[i - 1] = g[i - 1]
      BY <1>9, <1>11
    <2>2. E[i] \in S /\ F[i] \in S
      BY <1>3
    <2>3. (F[i] \in T <=> E[i] \in T) /\ (E[i] \in T => F[i] = E[i])
      BY <2>2
    <2> QED BY <1>6, <1>7, <2>1, <2>3 DEF IsThose
  <1>10. n \in P
    <2> HIDE DEF P, n
    <2>1. \A i \in 0..n : i \in P
      BY <1>8, <1>9, <1>11, UpTo
    <2> QED BY <1>11, <2>1
  <1> QED BY <1>6, <1>7, <1>10

\* What assign_activity_coordinates does to one element.
WithCoordinate(e) == IF e.kind = "act" /\ e.coord = None THEN [e EXCEPT !.coord = Middle(e.link)] ELSE e

LEMMA CoordinatesAre ==
  ASSUME NEW E, AreElements(E)
  PROVE  /\ IsSequence(E) /\ IsSequence(AssignCoordinates(E)) /\ Len(AssignCoordinates(E)) = Len(E)
         /\ \A i \in 1..Len(E) : AssignCoordinates(E)[i] = WithCoordinate(E[i]) /\ IsElement(E[i])
PROOF
  <1>1. IsSequence(E) /\ \A i \in 1..Len(E) : IsElement(E[i])
    BY ListIs DEF AreElements
  <1>2. IsSequence(AssignCoordinates(E))
    BY <1>1, CoordinatesAssigned DEF Placed
  <1>3. Len(E) \in Nat /\ DOMAIN E = 1..Len(E)
    BY <1>1, LengthIs
  <1>4. AssignCoordinates(E) = [i \in 1..Len(E) |-> WithCoordinate(E[i])]
    BY <1>3 DEF AssignCoordinates, WithCoordinate
  <1>5. Len(AssignCoordinates(E)) = Len(E)
    BY <1>3, <1>4
  <1> QED BY <1>1, <1>2, <1>4, <1>5

LEMMA CoordinateAlike ==
  ASSUME NEW e, IsElement(e)
  PROVE  Alike(e, WithCoordinate(e))
PROOF
  <1>1. CASE e.kind = "act" /\ e.coord = None
    <2>1. IsActivity(e)
      BY <1>1 DEF IsElement, IsLeg
    <2>2. PICK name, main, link, coord, end, dur, horizon :
            e = [kind |-> "act", name |-> name, main |-> main, link |-> link, coord |-> coord,
                 end |-> end, dur |-> dur, horizon |-> horizon]
      BY <2>1 DEF IsActivity
    <2>3. PICK c : WithCoordinate(e) = [e EXCEPT !.coord = c]
      BY <1>1 DEF WithCoordinate
    <2>4. PICK f : f = WithCoordinate(e)
      OBVIOUS
    <2>5. f.kind = e.kind /\ f.main = e.main /\ f.link = e.link
      BY <2>2, <2>3, <2>4
    <2> QED BY <1>1, <2>4, <2>5 DEF Alike, IsMain, IsRouted
  <1>2. CASE ~(e.kind = "act" /\ e.coord = None)
    BY <1>2 DEF Alike, WithCoordinate
  <1> QED BY <1>1, <1>2

LEMMA CoordinatesJoin ==
  ASSUME NEW E, AreElements(E)
  PROVE  /\ WellFormed(E) => WellFormed(AssignCoordinates(E))
         /\ Joined(E) => Joined(AssignCoordinates(E))
PROOF
  <1>1. PICK F : F = AssignCoordinates(E)
    OBVIOUS
  <1>2. IsSequence(E) /\ Len(F) = Len(E) /\ \A i \in 1..Len(E) : F[i] = WithCoordinate(E[i]) /\ IsElement(E[i])
    BY <1>1, CoordinatesAre
  <1>3. AreAlike(E, F)
    BY <1>2, CoordinateAlike DEF AreAlike
  <1> QED BY <1>1, <1>2, <1>3, AlikeJoins

\* The fields that every route has.
HasRoute(e) ==
  IsRouted(e) => /\ {"type", "start", "end"} \subseteq DOMAIN e.route
                 /\ e.route.type \in {"generic", "links", "default_pt"}
AreRoutes(E) == \A k \in DOMAIN E : HasRoute(E[k])

\* A leg that was written as XML and read.
LEMMA LegLeadsAgain ==
  ASSUME NEW leg, IsLeg(leg), HasRoute(leg), NEW id
  PROVE  Alike(leg, LegFromXml(LegToXml(leg), id))
PROOF
  <1>1. PICK mode, rmode, attr, dep, trav, route :
          leg = [kind |-> "leg", mode |-> mode, rmode |-> rmode, attr |-> attr, dep |-> dep,
                 trav |-> trav, route |-> route]
    BY DEF IsLeg
  <1>2. PICK x : x = LegToXml(leg)
    OBVIOUS
  <1>3. x.kind = "leg" /\ x.mode = mode /\ x.route = RouteToXml(route) /\ IsLeg(x)
    <2>1. PICK a, r : a = RoutingModeAttr(leg) /\ r = RouteToXml(route)
      OBVIOUS
    <2>2. x = [leg EXCEPT !.rmode = Absent, !.attr = a, !.route = r]
      BY <1>1, <1>2, <2>1 DEF LegToXml
    <2>3. x.kind = "leg" /\ x.mode = mode /\ x.route = r
      BY <1>1, <2>2
    <2> QED BY <1>2, <2>1, <2>3, LegKept
  <1>4. PICK e : e = LegFromXml(x, id)
    OBVIOUS
  <1>5. e.kind = "leg" /\ e.mode = mode /\ e.route = RouteFromXml(x.route, id, mode)
    <2>1. PICK kind, amode, armode, aattr, adep, atrav, aroute :
            x = [kind |-> kind, mode |-> amode, rmode |-> armode, attr |-> aattr, dep |-> adep,
                 trav |-> atrav, route |-> aroute]
      BY <1>3 DEF IsLeg
    <2>2. PICK r, t : /\ r = RouteFromXml(x.route, id, x.mode)
                      /\ t = IF x.trav = None /\ x.route # NoRoute THEN x.route.trav ELSE x.trav
      OBVIOUS
    <2>3. e = [x EXCEPT !.rmode = x.attr, !.route = r, !.trav = t]
      BY <1>4, <2>2 DEF LegFromXml
    <2>4. e.kind = kind /\ e.mode = amode /\ e.route = r
      BY <2>1, <2>3
    <2> QED BY <1>3, <2>1, <2>2, <2>4
  <1>6. CASE route = NoRoute
    <2>1. e.route = NoRoute
      BY <1>3, <1>5, <1>6 DEF RouteToXml, RouteFromXml
    <2> QED BY <1>1, <1>2, <1>4, <1>5, <1>6, <2>1 DEF Alike, IsRouted, IsMain
  <1>7. CASE route # NoRoute
    <2>1. {"type", "start", "end"} \subseteq DOMAIN route /\ route.type \in {"generic", "links", "default_pt"}
      BY <1>1, <1>7 DEF HasRoute, IsRouted
    <2>2. PICK r : r = RouteToXml(route)
      OBVIOUS
    <2>3. PICK links, veh : r = [route EXCEPT !.links = links, !.veh = veh]
      BY <1>7, <2>2 DEF RouteToXml
    <2>4. /\ {"type", "start", "end"} \subseteq DOMAIN r
          /\ r.type = route.type /\ r.start = route.start /\ r.end = route.end
      BY <2>1, <2>3
    <2>5. r # NoRoute
      BY <2>1, <2>4 DEF NoRoute
    <2>6. PICK veh2 : e.route = [r EXCEPT !.veh = veh2]
      BY <1>3, <1>5, <2>2, <2>5 DEF RouteFromXml
    <2>7. e.route.type = route.type /\ e.route.start = route.start /\ e.route.end = route.end
      BY <2>4, <2>6
    <2>8. e.route # NoRoute
      BY <2>1, <2>7 DEF NoRoute
    <2> QED BY <1>1, <1>2, <1>4, <1>5, <1>7, <2>7, <2>8 DEF Alike, IsRouted, IsMain
  <1> QED BY <1>6, <1>7

\* The elements of a plan with its activities as XML keeps them, or as they are.
LEMMA InFileIs ==
  ASSUME NEW E, AreElements(E)
  PROVE  /\ InFile("binpb", E) = E
         /\ AreElements(InFile("xml", E)) /\ Len(InFile("xml", E)) = Len(E)
         /\ \A i \in 1..Len(E) :
              InFile("xml", E)[i] = IF E[i].kind = "act" THEN ActivityInXml(E[i]) ELSE E[i]
PROOF
  <1>1. IsList(E) /\ E = [i \in DOMAIN E |-> E[i]] /\ DOMAIN E = 1..Len(E)
    BY DEF AreElements, IsList
  <1>2. InFile("binpb", E) = E
    BY <1>1 DEF InFile, ActivityInFile
  <1>3. PICK Y : Y = InFile("xml", E)
    OBVIOUS
  <1>4. /\ Y = [i \in DOMAIN E |-> IF E[i].kind = "act" THEN ActivityInXml(E[i]) ELSE E[i]]
        /\ DOMAIN Y = DOMAIN E /\ Y = [i \in DOMAIN Y |-> Y[i]]
    BY <1>3 DEF InFile, ActivityInFile
  <1>5. IsList(Y) /\ Len(Y) = Len(E)
    BY <1>1, <1>4, ListAlike
  <1>6. ASSUME NEW i \in DOMAIN E PROVE IsElement(Y[i])
    <2>1. IsElement(E[i])
      BY DEF AreElements, Range
    <2>2. CASE IsActivity(E[i])
      BY <1>4, <2>2, ActivityInXmlIs DEF IsElement, IsActivity
    <2>3. CASE IsLeg(E[i])
      BY <1>4, <2>3 DEF IsElement, IsLeg
    <2> QED BY <2>1, <2>2, <2>3 DEF IsElement
  <1>7. AreElements(Y)
    BY <1>4, <1>5, <1>6 DEF AreElements, Range
  <1> QED BY <1>1, <1>2, <1>3, <1>4, <1>5, <1>7

\* A plan whose legs lead on from each other still is one when it comes from an XML file, with
\* the main activities that it had, at height zero.
LEMMA ElementsJoinAgain ==
  ASSUME NEW E, AreElements(E), WellFormed(E), Joined(E), AreRoutes(E), NEW id
  PROVE  LET F == ElementsFromXml(ElementsToXml(E), id) IN
           /\ AreElements(F) /\ WellFormed(F) /\ Joined(F)
           /\ MainActivities(AssignCoordinates(F)) = MainActivities(AssignCoordinates(InFile("xml", E)))
PROOF
  <1>1. PICK x, F, n, Y : x = ElementsToXml(E) /\ F = ElementsFromXml(x, id) /\ n = Len(E) /\ Y = InFile("xml", E)
    OBVIOUS
  <1>2. IsSequence(E) /\ n \in Nat /\ DOMAIN E = 1..n /\ \A i \in 1..n : IsElement(E[i])
    BY <1>1, ListIs DEF AreElements
  <1>3. AreElements(x) /\ AreElements(F)
    BY <1>1, ElementsKept
  <1>4. /\ DOMAIN x = 1..n /\ DOMAIN F = 1..n
        /\ \A i \in 1..n : /\ x[i] = IF E[i].kind = "leg" THEN LegToXml(E[i]) ELSE ActivityInXml(E[i])
                           /\ F[i] = IF x[i].kind = "leg" THEN LegFromXml(x[i], id) ELSE ActivityInXml(x[i])
    <2>1. x = [i \in 1..n |-> IF E[i].kind = "leg" THEN LegToXml(E[i]) ELSE ActivityInXml(E[i])]
      BY <1>1, <1>2 DEF ElementsToXml
    <2>2. DOMAIN x = 1..n
      BY <2>1
    <2>3. F = [i \in 1..n |-> IF x[i].kind = "leg" THEN LegFromXml(x[i], id) ELSE ActivityInXml(x[i])]
      BY <1>1, <2>2 DEF ElementsFromXml
    <2> QED BY <2>1, <2>2, <2>3
  <1>5. IsSequence(F) /\ Len(F) = n
    <2>1. IsSequence(F) /\ DOMAIN F = 1..Len(F) /\ Len(F) \in Nat
      BY <1>3, ListIs DEF AreElements
    <2>2. 1..Len(F) = 1..n
      BY <1>4, <2>1
    <2>3. Len(F) = n
      <3>1. ASSUME NEW a \in Nat, NEW b \in Nat, 1..a = 1..b PROVE a = b
        <4>1. a > 0 => a \in 1..b
          BY <3>1
        <4>2. b > 0 => b \in 1..a
          BY <3>1
        <4> QED BY <4>1, <4>2
      <3> QED BY <1>2, <2>1, <2>2, <3>1
    <2> QED BY <2>1, <2>3
  <1>6. AreElements(Y) /\ Len(Y) = n /\ \A i \in 1..n : Y[i] = IF E[i].kind = "act" THEN ActivityInXml(E[i]) ELSE E[i]
    BY <1>1, InFileIs
  <1>7. ASSUME NEW i \in 1..n
        PROVE  /\ Alike(E[i], F[i]) /\ (E[i].kind = "act" => F[i] = Y[i])
               /\ Y[i].kind = E[i].kind /\ (IsMain(Y[i]) <=> IsMain(E[i]))
    <2>1. CASE IsActivity(E[i])
      <3>1. PICK f : f = ActivityInXml(E[i])
        OBVIOUS
      <3>2. IsActivity(f) /\ f.kind = "act" /\ f.main = E[i].main /\ f.link = E[i].link /\ ActivityInXml(f) = f
            /\ E[i].kind = "act"
        BY <2>1, <3>1, ActivityInXmlIs DEF IsActivity
      <3>3. F[i] = f /\ Y[i] = f
        BY <1>4, <1>6, <3>1, <3>2
      <3> QED BY <3>2, <3>3 DEF Alike, IsMain, IsRouted
    <2>2. CASE IsLeg(E[i])
      <3>1. E[i].kind = "leg" /\ x[i] = LegToXml(E[i])
        BY <1>4, <2>2 DEF IsLeg
      <3>2. x[i].kind = "leg"
        BY <2>2, <3>1, LegKept DEF IsLeg
      <3>3. F[i] = LegFromXml(LegToXml(E[i]), id) /\ HasRoute(E[i])
        BY <1>2, <1>4, <3>1, <3>2 DEF AreRoutes
      <3>4. Y[i] = E[i]
        BY <1>6, <3>1
      <3> QED BY <2>2, <3>1, <3>3, <3>4, LegLeadsAgain
    <2> QED BY <1>2, <2>1, <2>2 DEF IsElement
  <1>8. WellFormed(F) /\ Joined(F)
    <2>1. AreAlike(E, F)
      BY <1>1, <1>5, <1>7 DEF AreAlike
    <2> QED BY <1>2, <2>1, AlikeJoins
  <1>9. MainActivities(AssignCoordinates(F)) = MainActivities(AssignCoordinates(Y))
    <2>1. PICK a, b : a = AssignCoordinates(Y) /\ b = AssignCoordinates(F)
      OBVIOUS
    <2>2. /\ IsSequence(a) /\ Len(a) = n /\ IsSequence(b) /\ Len(b) = n
          /\ \A i \in 1..n : a[i] = WithCoordinate(Y[i]) /\ b[i] = WithCoordinate(F[i])
                             /\ IsElement(Y[i]) /\ IsElement(F[i])
      BY <1>3, <1>5, <1>6, <2>1, CoordinatesAre
    <2>3. ASSUME NEW i \in 1..n PROVE (IsMain(b[i]) <=> IsMain(a[i])) /\ (IsMain(a[i]) => b[i] = a[i])
      <3>1. Alike(Y[i], a[i]) /\ Alike(F[i], b[i]) /\ Alike(E[i], F[i])
        BY <1>7, <2>2, CoordinateAlike
      <3>2. IsMain(a[i]) => E[i].kind = "act"
        BY <1>7, <3>1 DEF Alike, IsMain
      <3>3. E[i].kind = "act" => b[i] = a[i]
        BY <1>7, <2>2
      <3> QED BY <1>7, <3>1, <3>2, <3>3 DEF Alike
    <2> QED BY <2>1, <2>2, <2>3, SameMains
  <1> QED BY <1>1, <1>3, <1>8, <1>9

\* F has the main activities of E, and its legs lead from one to the next.
KeepsTrips(E, F) ==
  /\ WellFormed(F) /\ Joined(F)
  /\ MainActivities(AssignCoordinates(F)) = MainActivities(AssignCoordinates(E))

\* A plan of a person, from the person's file.
LEMMA PlanJoinsAgain ==
  ASSUME NEW format \in {"xml", "binpb"}, NEW person, IsPerson(person), NEW i \in DOMAIN person.plans,
         AreElements(person.plans[i].elements), WellFormed(person.plans[i].elements),
         Joined(person.plans[i].elements), AreRoutes(person.plans[i].elements), NEW p
  PROVE  LET again == FromFile(format, ToFile(format, person), p).plans IN
           /\ DOMAIN again = DOMAIN person.plans
           /\ KeepsTrips(InFile(format, person.plans[i].elements), again[i].elements)
PROOF
  <1> DEFINE plans == person.plans
             io == ToFile(format, person)
             again == FromFile(format, io, p).plans
  <1>1. IsPlan(plans[i])
    BY DEF IsPerson, ArePlans, IsSequence
  <1>2. PICK e, s, sel : plans[i] = [elements |-> e, score |-> s, selected |-> sel]
    BY <1>1 DEF IsPlan
  <1>3. AreElements(e) /\ WellFormed(e) /\ Joined(e) /\ AreRoutes(e)
    BY <1>2
  <1>4. CASE format = "xml"
    <2>1. io.plans = [k \in DOMAIN plans |-> [plans[k] EXCEPT !.elements = ElementsToXml(@)]]
      BY <1>4 DEF ToFile, PersonToXml
    <2> DEFINE given == io.plans
    <2>2. again = [k \in DOMAIN given |-> [given[k] EXCEPT !.elements = ElementsFromXml(@, p)]]
      BY <1>4 DEF FromFile, PersonFromXml
    <2> HIDE DEF given, again, plans
    <2>3. given[i] = [elements |-> ElementsToXml(e), score |-> s, selected |-> sel] /\ DOMAIN given = DOMAIN plans
      BY <1>2, <2>1 DEF given, plans
    <2>4. again[i] = [elements |-> ElementsFromXml(ElementsToXml(e), p), score |-> s, selected |-> sel]
      BY <2>2, <2>3 DEF plans
    <2>5. KeepsTrips(InFile("xml", e), ElementsFromXml(ElementsToXml(e), p))
      BY <1>3, ElementsJoinAgain DEF KeepsTrips
    <2>6. DOMAIN again = DOMAIN plans
      BY <2>2, <2>3
    <2>7. again[i].elements = ElementsFromXml(ElementsToXml(e), p) /\ plans[i].elements = e
      BY <1>2, <2>4
    <2> QED BY <1>4, <2>5, <2>6, <2>7 DEF again, plans
  <1>5. CASE format = "binpb"
    <2>1. io.plans = [k \in DOMAIN plans |->
                       [score |-> plans[k].score, selected |-> plans[k].selected,
                        acts |-> OfKind(plans[k].elements, "act"), legs |-> OfKind(plans[k].elements, "leg")]]
      BY <1>5 DEF ToFile, PersonToProto
    <2> DEFINE given == io.plans
    <2>2. again = [k \in DOMAIN given |->
                    [score |-> given[k].score, selected |-> given[k].selected,
                     elements |-> ZipLongest(given[k].acts, given[k].legs)]]
      BY <1>5 DEF FromFile, PersonFromProto
    <2> HIDE DEF given, again, plans
    <2>3. /\ given[i].acts = OfKind(e, "act") /\ given[i].legs = OfKind(e, "leg")
          /\ DOMAIN given = DOMAIN plans
      BY <1>2, <2>1 DEF given, plans
    <2>4. again[i].elements = ZipLongest(OfKind(e, "act"), OfKind(e, "leg")) /\ DOMAIN again = DOMAIN plans
      BY <2>2, <2>3 DEF plans
    <2>5. again[i].elements = e /\ plans[i].elements = e
      BY <1>2, <1>3, <2>4, ZipIs
    <2>6. KeepsTrips(InFile("binpb", e), e)
      BY <1>3, InFileIs DEF KeepsTrips
    <2> QED BY <1>5, <2>4, <2>5, <2>6 DEF again, plans
  <1> QED BY <1>4, <1>5

\* The links of a file, or of a network, are those that routes are made of.
Fields == {"from", "to", "length", "modes"}
NetworkGiven(file) ==
  /\ {l.id : l \in file.links} = DOMAIN Net
  /\ \A l \in file.links : \A field \in Fields : l[field] = Net[l.id][field]
IsGiven(net) ==
  /\ {"nodes", "links"} \subseteq DOMAIN net /\ DOMAIN net.links = DOMAIN Net
  /\ \A n \in DOMAIN net.nodes : {"in", "out", "partition"} \subseteq DOMAIN net.nodes[n]
  /\ \A l \in DOMAIN Net :
       /\ Fields \cup {"partition"} \subseteq DOMAIN net.links[l]
       /\ \A field \in Fields : net.links[l][field] = Net[l][field]
       /\ Net[l].from \in DOMAIN net.nodes /\ l \in net.nodes[Net[l].from].out
       /\ Net[l].to \in DOMAIN net.nodes /\ l \in net.nodes[Net[l].to].in

\* Nodes and links that fit together make a network.
LEMMA WiredIsGiven ==
  ASSUME NEW nodes, NEW links, NEW cell, DOMAIN links = DOMAIN Net,
         \A l \in DOMAIN Net : /\ Fields \cup {"partition"} \subseteq DOMAIN links[l]
                               /\ \A field \in Fields : links[l][field] = Net[l][field]
                               /\ Net[l].from \in DOMAIN nodes /\ Net[l].to \in DOMAIN nodes
  PROVE  IsGiven(NetworkOf(nodes, links, cell))
PROOF
  <1>1. PICK net : net = NetworkOf(nodes, links, cell)
    OBVIOUS
  <1>2. net.links = links /\ net.nodes = Wired(nodes, links) /\ {"nodes", "links"} \subseteq DOMAIN net
    BY <1>1 DEF NetworkOf
  <1>3. DOMAIN net.nodes = DOMAIN nodes
    BY <1>2 DEF Wired
  <1>4. \A n \in DOMAIN nodes :
          /\ {"in", "out", "partition"} \subseteq DOMAIN net.nodes[n]
          /\ net.nodes[n].in = {l \in DOMAIN links : links[l].to = n}
          /\ net.nodes[n].out = {l \in DOMAIN links : links[l].from = n}
    BY <1>2 DEF Wired
  <1>5. \A l \in DOMAIN Net : links[l].from = Net[l].from /\ links[l].to = Net[l].to
    BY DEF Fields
  <1> QED BY <1>1, <1>2, <1>3, <1>4, <1>5 DEF IsGiven

LEMMA GivenRead ==
  ASSUME NEW file, NetworkReadable(file), NetworkGiven(file)
  PROVE  IsGiven(NetworkFromFile(file))
PROOF
  <1> DEFINE links == ById(file.links)
             nodes == ById(file.nodes)
  <1>1. /\ DOMAIN links = DOMAIN Net
        /\ \A l \in DOMAIN Net : /\ \A field \in Fields : links[l][field] = Net[l][field]
                                 /\ Net[l].from \in DOMAIN nodes /\ Net[l].to \in DOMAIN nodes
    <2>1. DOMAIN links = {l.id : l \in file.links} /\ DOMAIN nodes = {n.id : n \in file.nodes}
      BY ByIdIs
    <2>2. DOMAIN links = DOMAIN Net
      BY <2>1 DEF NetworkGiven
    <2>3. \A i \in DOMAIN links : links[i] \in file.links /\ links[i].id = i
      <3>1. \A i \in {l.id : l \in file.links} : \E e \in file.links : e.id = i
        OBVIOUS
      <3>2. \A i \in {l.id : l \in file.links} : links[i] = CHOOSE e \in file.links : e.id = i
        BY DEF ById
      <3> HIDE DEF links
      <3> QED BY <2>1, <3>1, <3>2
    <2>4. \A i \in DOMAIN links : links[i].from \in DOMAIN nodes /\ links[i].to \in DOMAIN nodes
      BY <2>1, <2>3 DEF NetworkReadable
    <2> HIDE DEF links, nodes
    <2>5. \A i \in DOMAIN links : \A field \in Fields : links[i][field] = Net[i][field]
      BY <2>3 DEF NetworkGiven
    <2>6. \A i \in DOMAIN links : links[i].from = Net[i].from /\ links[i].to = Net[i].to
      BY <2>5 DEF Fields
    <2> QED BY <2>2, <2>4, <2>5, <2>6
  <1>2. CASE file.format = "xml"
    <2> DEFINE k == [i \in DOMAIN links |-> LinkFromXml(links[i])]
               m == [i \in DOMAIN nodes |-> NodeFromXml(nodes[i])]
    <2>1. NetworkFromFile(file) = NetworkOf(m, k, CellSize(file))
      BY <1>2 DEF NetworkFromFile, NetworkFromXml
    <2> HIDE DEF links, nodes
    <2>2. \A i \in DOMAIN links : /\ Fields \cup {"partition"} \subseteq DOMAIN k[i]
                                  /\ \A field \in Fields : k[i][field] = links[i][field]
      BY DEF LinkFromXml, Fields
    <2>3. DOMAIN k = DOMAIN links /\ DOMAIN m = DOMAIN nodes
      OBVIOUS
    <2> HIDE DEF k, m
    <2> QED BY <1>1, <2>1, <2>2, <2>3, WiredIsGiven
  <1>3. CASE file.format # "xml"
    <2> DEFINE k == [i \in DOMAIN links |-> LinkFromProto(links[i])]
    <2>1. NetworkFromFile(file) = NetworkOf(nodes, k, file.cell)
      BY <1>3 DEF NetworkFromFile, NetworkFromProto
    <2> HIDE DEF links, nodes
    <2>2. \A i \in DOMAIN links : /\ Fields \cup {"partition"} \subseteq DOMAIN k[i]
                                  /\ \A field \in Fields : k[i][field] = links[i][field]
      BY DEF LinkFromProto, Fields
    <2>3. DOMAIN k = DOMAIN links
      OBVIOUS
    <2> HIDE DEF k
    <2> QED BY <1>1, <2>1, <2>2, <2>3, WiredIsGiven
  <1> QED BY <1>2, <1>3

LEMMA GivenWritten ==
  ASSUME NEW net, IsGiven(net)
  PROVE  NetworkGiven(NetworkToXml(net)) /\ NetworkGiven(NetworkToProto(net))
PROOF
  <1> DEFINE links == LinksToFile(net)
  <1>1. links = {LinkToFile(i, net.links[i]) : i \in DOMAIN Net}
    BY DEF LinksToFile, IsGiven
  <1>2. \A i \in DOMAIN Net : LET l == LinkToFile(i, net.links[i]) IN
          l.id = i /\ \A field \in Fields : l[field] = Net[i][field]
    <2>1. ASSUME NEW i \in DOMAIN Net
          PROVE  LET l == LinkToFile(i, net.links[i]) IN
                   l.id = i /\ \A field \in Fields : l[field] = Net[i][field]
      <3>1. \A field \in Fields : net.links[i][field] = Net[i][field]
        BY DEF IsGiven
      <3>2. LET l == LinkToFile(i, net.links[i]) IN
              l.id = i /\ \A field \in Fields : l[field] = net.links[i][field]
        BY DEF LinkToFile, Fields
      <3> QED BY <3>1, <3>2
    <2> QED BY <2>1
  <1>3. NetworkToXml(net).links = links /\ NetworkToProto(net).links = links
    BY DEF NetworkToXml, NetworkToProto
  <1> HIDE DEF links
  <1>4. {l.id : l \in links} = DOMAIN Net /\ \A l \in links : \A field \in Fields : l[field] = Net[l.id][field]
    <2>1. \A l \in links : \E i \in DOMAIN Net : l = LinkToFile(i, net.links[i])
      BY <1>1
    <2>2. \A i \in DOMAIN Net : LinkToFile(i, net.links[i]) \in links
      BY <1>1
    <2>3. \A i \in DOMAIN Net : \E l \in links : l.id = i
      BY <1>2, <2>2
    <2>4. \A l \in links : l.id \in DOMAIN Net /\ \A field \in Fields : l[field] = Net[l.id][field]
      BY <1>2, <2>1
    <2> QED BY <2>3, <2>4
  <1> QED BY <1>3, <1>4 DEF NetworkGiven

LEMMA GivenWeighted ==
  ASSUME NEW net, IsGiven(net), NEW weights, NEW out \in WeightedNetworks(net, weights)
  PROVE  IsGiven(out)
PROOF
  <1>1. PICK m : /\ DOMAIN m = DOMAIN net.nodes /\ out = [net EXCEPT !.nodes = m]
                 /\ \A n \in DOMAIN m : \E w : m[n] = [net.nodes[n] EXCEPT !.weight = w]
    <2> DEFINE used(n) == net.nodes[n].in \cap DOMAIN weights
    <2>1. PICK last : out = [net EXCEPT !.nodes =
              [n \in DOMAIN @ |-> [net.nodes[n] EXCEPT !.weight = IF n \in DOMAIN last THEN weights[last[n]] ELSE @]]]
      BY DEF WeightedNetworks
    <2> DEFINE W(n) == IF n \in DOMAIN last THEN weights[last[n]] ELSE net.nodes[n].weight
               m == [n \in DOMAIN net.nodes |-> [net.nodes[n] EXCEPT !.weight = W(n)]]
    <2>2. out = [net EXCEPT !.nodes = m]
      BY <2>1
    <2> HIDE DEF W
    <2>3. DOMAIN m = DOMAIN net.nodes /\ \A n \in DOMAIN m : \E w : m[n] = [net.nodes[n] EXCEPT !.weight = w]
      OBVIOUS
    <2> HIDE DEF m
    <2> QED BY <2>2, <2>3
  <1>2. out.links = net.links /\ out.nodes = m /\ {"nodes", "links"} \subseteq DOMAIN out
    BY <1>1 DEF IsGiven
  <1>3. ASSUME NEW n \in DOMAIN m
        PROVE  {"in", "out", "partition"} \subseteq DOMAIN m[n] /\ m[n].in = net.nodes[n].in /\ m[n].out = net.nodes[n].out
    <2>1. PICK w : m[n] = [net.nodes[n] EXCEPT !.weight = w]
      BY <1>1
    <2>2. {"in", "out", "partition"} \subseteq DOMAIN net.nodes[n]
      BY <1>1 DEF IsGiven
    <2> QED BY <2>1, <2>2
  <1> QED BY <1>1, <1>2, <1>3 DEF IsGiven

\* The network of a run is as given, and its parts are closed.
AsGiven(net, method) ==
  /\ \A l \in DOMAIN net.links :
       /\ \A field \in {"from", "to", "length", "modes"} : net.links[l][field] = Net[l][field]
       /\ net.nodes[net.links[l].from].out \cap net.nodes[net.links[l].to].in # {}
       /\ method = "metis" => net.links[l].partition = net.nodes[Net[l].to].partition
  /\ DOMAIN net.links = DOMAIN Net

LEMMA GivenPartitioned ==
  ASSUME NEW net, IsGiven(net), NEW method
  PROVE  AsGiven(PartitionNetwork(net, method), method)
PROOF
  <1>1. \A l \in DOMAIN Net : net.links[l].from = Net[l].from /\ net.links[l].to = Net[l].to
    BY DEF IsGiven, Fields
  <1>2. CASE method = "none"
    <2>1. PartitionNetwork(net, method) = net
      BY <1>2 DEF PartitionNetwork
    <2>2. \A l \in DOMAIN Net : l \in net.nodes[net.links[l].from].out \cap net.nodes[net.links[l].to].in
      BY <1>1 DEF IsGiven
    <2>3. \A l \in DOMAIN net.links : /\ net.nodes[net.links[l].from].out \cap net.nodes[net.links[l].to].in # {}
                                      /\ \A field \in Fields : net.links[l][field] = Net[l][field]
      BY <2>2 DEF IsGiven
    <2> QED BY <1>2, <2>1, <2>3 DEF AsGiven, IsGiven, Fields
  <1>3. CASE method # "none"
    <2> DEFINE part == Metis(net)
               m == [n \in DOMAIN net.nodes |-> [net.nodes[n] EXCEPT !.partition = part[n]]]
               k == [l \in DOMAIN net.links |-> [net.links[l] EXCEPT !.partition = part[net.links[l].to]]]
    <2>1. PICK out : out = PartitionNetwork(net, method)
      OBVIOUS
    <2>2. out = [net EXCEPT !.nodes = m, !.links = k]
      BY <1>3, <2>1 DEF PartitionNetwork
    <2> HIDE DEF part
    <2>3. DOMAIN m = DOMAIN net.nodes /\ DOMAIN k = DOMAIN Net
      BY DEF IsGiven
    <2>4. \A n \in DOMAIN net.nodes : /\ m[n].in = net.nodes[n].in /\ m[n].out = net.nodes[n].out
                                      /\ m[n].partition = part[n]
      BY DEF IsGiven
    <2>5. \A l \in DOMAIN Net : /\ \A field \in Fields : k[l][field] = Net[l][field]
                                /\ k[l].partition = part[Net[l].to]
      <3> SUFFICES ASSUME NEW l \in DOMAIN Net
                   PROVE  /\ \A field \in Fields : k[l][field] = Net[l][field]
                          /\ k[l].partition = part[Net[l].to]
        OBVIOUS
      <3>1. /\ Fields \cup {"partition"} \subseteq DOMAIN net.links[l] /\ l \in DOMAIN net.links
            /\ \A field \in Fields : net.links[l][field] = Net[l][field]
        BY DEF IsGiven
      <3>2. k[l] = [net.links[l] EXCEPT !.partition = part[Net[l].to]]
        BY <1>1, <3>1
      <3> HIDE DEF k
      <3>3. k[l].partition = part[Net[l].to]
        BY <3>1, <3>2
      <3>4. \A field \in Fields : k[l][field] = net.links[l][field]
        BY <3>1, <3>2 DEF Fields
      <3> QED BY <3>1, <3>3, <3>4
    <2> HIDE DEF m, k
    <2>6. out.nodes = m /\ out.links = k
      BY <2>2 DEF IsGiven
    <2>7. ASSUME NEW l \in DOMAIN Net
          PROVE  /\ \A field \in Fields : out.links[l][field] = Net[l][field]
                 /\ out.nodes[out.links[l].from].out \cap out.nodes[out.links[l].to].in # {}
                 /\ out.links[l].partition = out.nodes[Net[l].to].partition
      <3>1. k[l].from = Net[l].from /\ k[l].to = Net[l].to
        BY <2>5 DEF Fields
      <3>2. /\ Net[l].from \in DOMAIN net.nodes /\ l \in net.nodes[Net[l].from].out
            /\ Net[l].to \in DOMAIN net.nodes /\ l \in net.nodes[Net[l].to].in
        BY DEF IsGiven
      <3>3. l \in m[Net[l].from].out /\ l \in m[Net[l].to].in /\ m[Net[l].to].partition = part[Net[l].to]
        BY <2>4, <3>2
      <3> QED BY <2>5, <2>6, <3>1, <3>3
    <2> QED BY <2>1, <2>3, <2>6, <2>7 DEF AsGiven, Fields
  <1> QED BY <1>2, <1>3

\* The plans that the user has prepared for a person, and a plan that comes from one of them.
\* The plans of the user's file as the run finds them.
FoundFormat(in) == IF in.tool = "convert_to_xml" THEN "xml" ELSE "binpb"
GivenPlans(in, p) ==
  LET plans == FromFile(in.files.plans.format, in.files.plans.persons[p], p).plans IN
    {[plans[i] EXCEPT !.elements = InFile(FoundFormat(in), @)] : i \in DOMAIN plans}
IsFrom(E, in, p) == \E plan \in GivenPlans(in, p) : KeepsTrips(plan.elements, E)

LEMMA GivenPlanIs ==
  ASSUME NEW in, NEW p, NEW person, IsPerson(person), NEW i \in DOMAIN person.plans,
         FromFile(in.files.plans.format, in.files.plans.persons[p], p) = person
  PROVE  \E plan \in GivenPlans(in, p) : plan.elements = InFile(FoundFormat(in), person.plans[i].elements)
PROOF
  <1>1. IsPlan(person.plans[i])
    BY LengthIs DEF IsPerson, ArePlans
  <1>2. PICK e, s, sel : person.plans[i] = [elements |-> e, score |-> s, selected |-> sel]
    BY <1>1 DEF IsPlan
  <1>3. PICK plan : plan = [person.plans[i] EXCEPT !.elements = InFile(FoundFormat(in), @)]
    OBVIOUS
  <1>4. plan.elements = InFile(FoundFormat(in), person.plans[i].elements)
    BY <1>2, <1>3
  <1>5. plan \in GivenPlans(in, p)
    BY <1>3 DEF GivenPlans
  <1> QED BY <1>4, <1>5

\* What TripsKept is about: the network of the user's files is the one that routes are made
\* of, the routes of their plans lead on from each other, and so do those of the search.
PlansJoin(fs) ==
  \A p \in DOMAIN fs.plans.persons :
    LET plans == FromFile(fs.plans.format, fs.plans.persons[p], p).plans IN
      \A i \in DOMAIN plans : Joined(plans[i].elements) /\ AreRoutes(plans[i].elements)
TripsFit ==
  /\ RoutesJoin
  /\ \A in \in Inputs : ScenarioReadable(in.files) => NetworkGiven(in.files.network) /\ PlansJoin(in.files)

\* What the files of a run keep of it.
FilesJoin(fs, in) ==
  ScenarioReadable(fs) =>
    /\ NetworkGiven(fs.network)
    /\ \A p \in DOMAIN fs.plans.persons :
         LET plans == FromFile(fs.plans.format, fs.plans.persons[p], p).plans IN
           \A i \in DOMAIN plans : IsFrom(plans[i].elements, in, p)

LEMMA GivenJoin ==
  ASSUME NEW in, PlansInFile(in.files.plans), in.tool # "convert_to_xml", FilesFit(in.files, in),
         ScenarioReadable(in.files) => NetworkGiven(in.files.network) /\ PlansJoin(in.files)
  PROVE  FilesJoin(in.files, in)
PROOF
  <1> SUFFICES ASSUME ScenarioReadable(in.files), NEW p \in DOMAIN in.files.plans.persons,
                      NEW i \in DOMAIN FromFile(in.files.plans.format, in.files.plans.persons[p], p).plans
               PROVE  IsFrom(FromFile(in.files.plans.format, in.files.plans.persons[p], p).plans[i].elements, in, p)
    BY DEF FilesJoin
  <1>1. PICK person : person = FromFile(in.files.plans.format, in.files.plans.persons[p], p)
    OBVIOUS
  <1>2. IsComplete(person, GivenVehicles(in)) /\ Joined(person.plans[i].elements)
    BY <1>1 DEF FilesFit, PlansJoin
  <1>3. WellFormed(person.plans[i].elements)
    BY <1>1, <1>2 DEF IsComplete, Closed
  <1>4. IsPerson(person) /\ AreElements(person.plans[i].elements)
    <2>1. Readable(in.files.plans.format, in.files.plans.persons[p])
      BY DEF ScenarioReadable
    <2>2. DOMAIN person.plans = DOMAIN in.files.plans.persons[p].plans /\ IsPerson(person)
      BY <1>1, PersonRead
    <2> QED BY <1>1, <2>1, <2>2, PersonRead
  <1>5. InFile(FoundFormat(in), person.plans[i].elements) = person.plans[i].elements
    BY <1>4, InFileIs DEF FoundFormat
  <1>6. PICK plan \in GivenPlans(in, p) : plan.elements = person.plans[i].elements
    <2>1. i \in DOMAIN person.plans
      BY <1>1
    <2>2. \E plan \in GivenPlans(in, p) : plan.elements = InFile(FoundFormat(in), person.plans[i].elements)
      <3>1. IsPerson(person) /\ FromFile(in.files.plans.format, in.files.plans.persons[p], p) = person
        BY <1>1, <1>4
      <3> QED BY <2>1, <3>1, GivenPlanIs
    <2> QED BY <1>5, <2>2
  <1>7. KeepsTrips(plan.elements, person.plans[i].elements)
    BY <1>2, <1>3, <1>6 DEF KeepsTrips
  <1> QED BY <1>1, <1>7 DEF IsFrom

\* What a tool makes of the user's files keeps their plans.
LEMMA ConvertedJoins ==
  ASSUME NEW in, PlansInFile(in.files.plans), in.tool \in {"convert_to_binary", "convert_to_xml"},
         FilesFit(in.files, in), ScenarioReadable(in.files) => NetworkGiven(in.files.network) /\ PlansJoin(in.files),
         NEW out \in Conversions(in.tool, in.files)
  PROVE  FilesJoin(out, in)
PROOF
  <1> DEFINE fs == in.files
             read == ReadPopulation(fs.plans)
             net == NetworkFromFile(fs.network)
  <1>1. /\ ScenarioReadable(fs)
        /\ \/ /\ in.tool = "convert_to_binary" /\ out.plans = WritePopulation("binpb", read)
              /\ \E n \in WeightedNetworks(net, ComputationalWeights(read)) : out.network = NetworkToProto(n)
           \/ /\ in.tool = "convert_to_xml" /\ out.plans = WritePopulation("xml", read)
              /\ out.network = NetworkToXml(net)
    BY ConvertedIs
  <1>2. NetworkGiven(fs.network) /\ PlansJoin(fs)
    BY <1>1
  <1>3. NetworkGiven(out.network)
    <2>1. IsGiven(net)
      BY <1>1, <1>2, GivenRead DEF ScenarioReadable
    <2> HIDE DEF net
    <2> QED BY <1>1, <2>1, GivenWeighted, GivenWritten
  <1>4. PICK format \in {"xml", "binpb"} : out.plans = WritePopulation(format, read) /\ format = FoundFormat(in)
    BY <1>1 DEF FoundFormat
  <1>5. /\ out.plans.format = format /\ DOMAIN out.plans.persons = DOMAIN fs.plans.persons
        /\ \A p \in DOMAIN fs.plans.persons :
             out.plans.persons[p] = ToFile(format, FromFile(fs.plans.format, fs.plans.persons[p], p))
    BY <1>4 DEF WritePopulation, ReadPopulation
  <1>6. ASSUME NEW p \in DOMAIN out.plans.persons,
               NEW i \in DOMAIN FromFile(out.plans.format, out.plans.persons[p], p).plans
        PROVE  IsFrom(FromFile(out.plans.format, out.plans.persons[p], p).plans[i].elements, in, p)
    <2>1. PICK person : person = FromFile(fs.plans.format, fs.plans.persons[p], p)
      OBVIOUS
    <2>2. Readable(fs.plans.format, fs.plans.persons[p]) /\ p \in DOMAIN fs.plans.persons
      BY <1>1, <1>5, <1>6 DEF ScenarioReadable
    <2>3. IsPerson(person) /\ \A k \in DOMAIN person.plans : AreElements(person.plans[k].elements)
      BY <2>1, <2>2, PersonRead
    <2>4. FromFile(out.plans.format, out.plans.persons[p], p) = FromFile(format, ToFile(format, person), p)
      BY <1>5, <2>1, <2>2
    <2>5. DOMAIN FromFile(format, ToFile(format, person), p).plans = DOMAIN person.plans
      <3>1. ToFile(format, person).plans = [k \in DOMAIN person.plans |-> ToFile(format, person).plans[k]]
        BY DEF ToFile, PersonToXml, PersonToProto
      <3>2. PICK io : io = ToFile(format, person)
        OBVIOUS
      <3>3. DOMAIN FromFile(format, io, p).plans = DOMAIN io.plans
        BY DEF FromFile, PersonFromXml, PersonFromProto
      <3> QED BY <3>1, <3>2, <3>3
    <2>6. i \in DOMAIN person.plans
      BY <1>6, <2>4, <2>5
    <2>7. IsComplete(person, GivenVehicles(in))
      BY <1>1, <2>1, <2>2 DEF FilesFit
    <2>8. WellFormed(person.plans[i].elements)
      BY <2>6, <2>7 DEF IsComplete, Closed
    <2>9. Joined(person.plans[i].elements) /\ AreRoutes(person.plans[i].elements)
      BY <1>2, <2>1, <2>2, <2>6 DEF PlansJoin
    <2>10. KeepsTrips(InFile(format, person.plans[i].elements), FromFile(format, ToFile(format, person), p).plans[i].elements)
      BY <2>3, <2>6, <2>8, <2>9, PlanJoinsAgain
    <2>11. PICK plan \in GivenPlans(in, p) : plan.elements = InFile(format, person.plans[i].elements)
      <3>1. \E plan \in GivenPlans(in, p) : plan.elements = InFile(FoundFormat(in), person.plans[i].elements)
        <4>1. IsPerson(person) /\ FromFile(in.files.plans.format, in.files.plans.persons[p], p) = person
          BY <2>1, <2>3
        <4> QED BY <2>6, <4>1, GivenPlanIs
      <3> QED BY <1>4, <3>1
    <2> QED BY <2>4, <2>10, <2>11 DEF IsFrom
  <1> QED BY <1>3, <1>6 DEF FilesJoin

\* A plan in a run, usable with the vehicles h.
KeptPlan(p, E, in, h) == IsUsable(E, h) /\ IsFrom(E, in, p)

\* A plan after its preparation.
LEMMA PlanStaysKept ==
  ASSUME RoutesJoin, NEW p, NEW plan, IsPlan(plan), AreElements(plan.elements), NEW in,
         NEW g, NEW h, g \subseteq h, KeptPlan(p, plan.elements, in, h)
  PROVE  KeptPlan(p, PlanAfter(PreparePlan(p, plan, g), plan).elements, in, h)
PROOF
  <1>1. CASE ~PreparePlan(p, plan, g).ok
    BY <1>1 DEF PlanAfter
  <1>2. CASE PreparePlan(p, plan, g).ok
    <2>1. IsSequence(plan.elements) /\ \A k \in 1..Len(plan.elements) : IsElement(plan.elements[k])
      BY ListIs DEF AreElements
    <2>2. PICK F : /\ PreparePlan(p, plan, g) = [ok |-> TRUE, plan |-> [plan EXCEPT !.elements = F]]
                   /\ Prepared(p, F, g) /\ IsRouting(F, AssignCoordinates(plan.elements), g)
      BY <1>2, <2>1, PlanPrepared
    <2>3. PlanAfter(PreparePlan(p, plan, g), plan).elements = F
      <3>1. PICK e, s, sel : plan = [elements |-> e, score |-> s, selected |-> sel]
        BY DEF IsPlan
      <3>2. PICK after : after = [plan EXCEPT !.elements = F]
        OBVIOUS
      <3>3. after.elements = F
        BY <3>1, <3>2
      <3>4. PlanAfter(PreparePlan(p, plan, g), plan) = after
        BY <2>2, <3>2 DEF PlanAfter
      <3> QED BY <3>3, <3>4
    <2>4. IsUsable(F, h)
      <3>1. AccessEgressMode \notin MainModes
        BY DEF RoutesJoin
      <3> QED BY <2>3, <3>1, PlanUsable DEF KeptPlan
    <2>5. PICK given \in GivenPlans(in, p) : KeepsTrips(given.elements, plan.elements)
      BY DEF KeptPlan, IsFrom
    <2>6. PICK E : E = AssignCoordinates(plan.elements)
      OBVIOUS
    <2>7. WellFormed(E) /\ Joined(E) /\ MainActivities(E) = MainActivities(AssignCoordinates(given.elements))
      BY <2>5, <2>6, CoordinatesJoin DEF KeepsTrips
    <2>8. WellFormed(F) /\ Joined(F) /\ MainActivities(F) = MainActivities(E)
      BY <2>2, <2>6, <2>7 DEF IsRouting
    <2>9. AssignCoordinates(F) = F
      BY <2>2, CoordinatesAssigned DEF Prepared, UpToTrip, Placed, IsPlaced
    <2>10. KeepsTrips(given.elements, F)
      BY <2>7, <2>8, <2>9 DEF KeepsTrips
    <2> QED BY <2>3, <2>4, <2>5, <2>10 DEF KeptPlan, IsFrom
  <1> QED BY <1>1, <1>2

\* Inductive, with PInv: the network and the plans are the user's, whatever was made of them.
ArePlansKept(p, person, in, h) == \A i \in DOMAIN person.plans : KeptPlan(p, person.plans[i].elements, in, h)
FilesJoinInv ==
  /\ phase = "convert" => files = input.files
  /\ phase = "read" => FilesJoin(files, input)
GivenInv ==
  InRun => /\ AsGiven(network, input.method)
           /\ input.tool # "convert_to_xml" => GivenVehicles(input) \subseteq Vehicles
KeptInv == InRun => \A p \in Persons : ArePlansKept(p, population[p], input, GivenVehicles(input) \cup Vehicles)
KInv == FilesFitInv /\ FilesJoinInv /\ GivenInv /\ KeptInv

LEMMA PersonStaysKept ==
  ASSUME RoutesJoin, NEW p, NEW person, IsPerson(person), AreTyped(person), NEW in,
         NEW g, NEW h, g \subseteq h, ArePlansKept(p, person, in, h)
  PROVE  ArePlansKept(p, PreparePerson(p, person, g).person, in, h)
PROOF
  <1>1. PICK result : result = PreparePerson(p, person, g)
    OBVIOUS
  <1>2. /\ result = [person |-> result.person, issues |-> result.issues]
        /\ result.person = [person EXCEPT !.plans = result.person.plans]
        /\ result.person.plans = [i \in DOMAIN person.plans |-> result.person.plans[i]]
        /\ \A i \in DOMAIN person.plans :
             result.person.plans[i] = PlanAfter(PreparePlan(p, person.plans[i], g), person.plans[i])
        /\ result.issues = {} <=> \A i \in DOMAIN person.plans : PreparePlan(p, person.plans[i], g).ok
    BY <1>1, PreparePersonIs
  <1>3. ASSUME NEW i \in DOMAIN person.plans PROVE KeptPlan(p, result.person.plans[i].elements, in, h)
    <2>1. PICK plan : plan = person.plans[i]
      OBVIOUS
    <2>2. IsPlan(plan) /\ AreElements(plan.elements) /\ KeptPlan(p, plan.elements, in, h)
      BY <2>1 DEF IsPerson, ArePlans, IsSequence, AreTyped, ArePlansKept
    <2>3. KeptPlan(p, PlanAfter(PreparePlan(p, plan, g), plan).elements, in, h)
      BY <2>2, PlanStaysKept
    <2>4. result.person.plans[i] = PlanAfter(PreparePlan(p, plan, g), plan)
      BY <1>2, <2>1
    <2> QED BY <2>3, <2>4
  <1>4. ArePlansKept(p, result.person, in, h)
    BY <1>2, <1>3 DEF ArePlansKept
  <1> QED BY <1>1, <1>4

LEMMA KInvInit == ASSUME RunsFit, TripsFit PROVE Init => KInv
PROOF
  <1> SUFFICES ASSUME Init PROVE KInv
    OBVIOUS
  <1>1. /\ phase \in {"convert", "read"} /\ input \in Inputs /\ files = input.files
        /\ phase = "read" => input.tool = "none"
    BY DEF Init
  <1>2. FilesFit(input.files, input)
    BY <1>1 DEF RunsFit
  <1>3. phase = "read" => FilesJoin(input.files, input)
    <2>1. PlansInFile(input.files.plans)
      BY <1>1, PlanCycleAssumption
    <2>2. ScenarioReadable(input.files) => NetworkGiven(input.files.network) /\ PlansJoin(input.files)
      BY <1>1 DEF TripsFit
    <2> QED BY <1>1, <1>2, <2>1, <2>2, GivenJoin
  <1> QED BY <1>1, <1>2, <1>3 DEF KInv, FilesFitInv, FilesJoinInv, GivenInv, KeptInv, InRun

LEMMA ConvertKeepsK == ASSUME TripsFit PROVE PInv /\ KInv /\ Convert => KInv'
PROOF
  <1> SUFFICES ASSUME PInv, KInv, Convert PROVE KInv'
    OBVIOUS
  <1>1. phase = "convert" /\ phase' \in {"read", "notConverted"} /\ input' = input
    BY DEF Convert
  <1>2. CASE phase' = "notConverted"
    BY <1>2 DEF KInv, FilesFitInv, FilesJoinInv, GivenInv, KeptInv, InRun
  <1>3. CASE phase' = "read"
    <2>1. files' \in Conversions(input.tool, files)
      BY <1>3 DEF Convert
    <2>2. /\ input \in Inputs /\ input.tool \in {"convert_to_binary", "convert_to_xml"}
          /\ PlansInFile(files.plans)
      BY <1>1, PlanCycleAssumption DEF PInv, ReadInv
    <2>3. FilesFit(files, input) /\ files = input.files
      BY <1>1 DEF KInv, FilesFitInv, FilesJoinInv
    <2>4. FilesFit(files', input)
      BY <2>1, <2>2, <2>3, ConvertedFits
    <2>5. ScenarioReadable(input.files) => NetworkGiven(input.files.network) /\ PlansJoin(input.files)
      BY <2>2 DEF TripsFit
    <2>6. FilesJoin(files', input)
      BY <2>1, <2>2, <2>3, <2>5, ConvertedJoins
    <2> QED BY <1>1, <1>3, <2>4, <2>6 DEF KInv, FilesFitInv, FilesJoinInv, GivenInv, KeptInv, InRun
  <1> QED BY <1>1, <1>2, <1>3

LEMMA ReadKeepsK == PInv /\ KInv /\ Read => KInv'
PROOF
  <1> SUFFICES ASSUME PInv, KInv, Read PROVE KInv'
    OBVIOUS
  <1>1. phase = "read" /\ phase' \in {"prepare", "unreadable"} /\ input' = input
    BY DEF Read
  <1>2. PlansInFile(files.plans) /\ FilesFit(files, input) /\ FilesJoin(files, input)
    BY <1>1 DEF KInv, FilesFitInv, FilesJoinInv, PInv, ReadInv
  <1>3. FilesFitInv' /\ FilesJoinInv'
    BY <1>1 DEF FilesFitInv, FilesJoinInv
  <1>4. CASE phase' = "unreadable"
    BY <1>3, <1>4 DEF KInv, GivenInv, KeptInv, InRun
  <1>5. CASE phase' = "prepare"
    <2>1. /\ population' = ReadPopulation(files.plans) /\ ScenarioReadable(files)
          /\ network' = PartitionNetwork(NetworkFromFile(files.network), input.method)
          /\ garage' = GarageWithPlans(files.vehicles, files.plans)
      BY <1>5 DEF Read, LoadScenario
    <2> DEFINE g == GivenVehicles(input)
    <2>2. /\ input.tool # "convert_to_xml" => g \subseteq Vehicles'
          /\ \A p \in DOMAIN files.plans.persons :
               IsComplete(FromFile(files.plans.format, files.plans.persons[p], p), g)
      BY <1>2, <2>1 DEF FilesFit, Vehicles
    <2>3. AsGiven(network', input.method)
      <3>1. IsGiven(NetworkFromFile(files.network))
        BY <1>2, <2>1, GivenRead DEF FilesJoin, ScenarioReadable
      <3> QED BY <2>1, <3>1, GivenPartitioned
    <2>4. GivenInv'
      BY <1>1, <2>2, <2>3 DEF GivenInv
    <2>5. /\ Persons' = DOMAIN files.plans.persons
          /\ \A p \in DOMAIN files.plans.persons :
               population'[p] = FromFile(files.plans.format, files.plans.persons[p], p)
      BY <2>1 DEF ReadPopulation, Persons
    <2>6. ASSUME NEW p \in DOMAIN files.plans.persons, NEW h, g \subseteq h
          PROVE  ArePlansKept(p, population'[p], input, h)
      <3>1. Readable(files.plans.format, files.plans.persons[p])
        BY <2>1 DEF ScenarioReadable
      <3>2. PICK person : person = FromFile(files.plans.format, files.plans.persons[p], p)
        OBVIOUS
      <3>3. \A i \in DOMAIN person.plans : AreElements(person.plans[i].elements)
        BY <1>2, <3>1, <3>2, PersonRead
      <3>4. IsComplete(person, g)
        BY <2>2, <3>2
      <3>5. \A i \in DOMAIN person.plans : IsFrom(person.plans[i].elements, input, p)
        BY <1>2, <2>1, <3>2 DEF FilesJoin
      <3> HIDE DEF g
      <3>6. \A i \in DOMAIN person.plans : IsUsable(person.plans[i].elements, h)
        BY <2>6, <3>3, <3>4, ClosedIsUsable DEF IsComplete
      <3> QED BY <2>5, <3>2, <3>5, <3>6 DEF ArePlansKept, KeptPlan
    <2>7. KeptInv'
      <3> DEFINE h == g \cup Vehicles'
      <3>1. g \subseteq h
        OBVIOUS
      <3> HIDE DEF g, h
      <3>2. \A p \in Persons' : ArePlansKept(p, population'[p], input, h)
        BY <2>5, <2>6, <3>1
      <3> QED BY <1>1, <3>2 DEF KeptInv, g, h
    <2> QED BY <1>3, <2>4, <2>7 DEF KInv
  <1> QED BY <1>1, <1>4, <1>5

LEMMA PrepareKeepsK ==
  ASSUME TripsFit, NEW p \in Persons PROVE PInv /\ KInv /\ Prepare(p) => KInv'
PROOF
  <1> SUFFICES ASSUME PInv, KInv, Prepare(p) PROVE KInv'
    OBVIOUS
  <1>1. /\ phase = "prepare" /\ phase' = phase /\ input' = input
        /\ Vehicles' = Vehicles /\ network' = network
    BY DEF Prepare, Vehicles, core
  <1>2. /\ Persons' = Persons /\ p \in todo /\ \A q \in Persons : q # p => population'[q] = population[q]
        /\ iteration > FirstIteration => population' = population
    BY PrepareIs
  <1>3. FilesFitInv' /\ FilesJoinInv' /\ GivenInv'
    BY <1>1 DEF KInv, FilesFitInv, FilesJoinInv, GivenInv, InRun
  <1>4. KeptInv'
    <2> DEFINE h == GivenVehicles(input) \cup Vehicles
    <2>1. \A q \in Persons : ArePlansKept(q, population[q], input, h)
      BY <1>1 DEF KInv, KeptInv, InRun
    <2>2. Vehicles \subseteq h
      OBVIOUS
    <2> HIDE DEF h
    <2>3. ArePlansKept(p, population'[p], input, h)
      <3>1. CASE iteration > FirstIteration
        BY <1>2, <2>1, <3>1
      <3>2. CASE ~(iteration > FirstIteration)
        <4>1. iteration = FirstIteration
          BY <3>2, PlanCycleAssumption DEF PInv, ReadInv
        <4>2. /\ AreTyped(population[p]) /\ IsPerson(population[p])
              /\ population = [q \in Persons |-> population[q]]
          BY <1>1, <1>2, <4>1 DEF PInv, FirstInv, MemoryInv
        <4>3. population'[p] = PreparePerson(p, population[p], Vehicles).person
          <5>1. population' = [population EXCEPT ![p] = PreparePerson(p, population[p], Vehicles).person]
            BY DEF Prepare
          <5> QED BY <4>2, <5>1
        <4> QED BY <2>1, <2>2, <4>2, <4>3, PersonStaysKept DEF TripsFit
      <3> QED BY <3>1, <3>2
    <2>4. \A q \in Persons : ArePlansKept(q, population'[q], input, h)
      BY <1>2, <2>1, <2>3
    <2> QED BY <1>1, <1>2, <2>4 DEF KeptInv, h
  <1> QED BY <1>3, <1>4 DEF KInv

LEMMA ReplanKeepsK == ASSUME NEW p \in Persons PROVE PInv /\ KInv /\ Replan(p) => KInv'
PROOF
  <1> SUFFICES ASSUME PInv, KInv, Replan(p) PROVE KInv'
    OBVIOUS
  <1>1. /\ phase = "replan" /\ phase' \in {"replan", "notReplanned"} /\ input' = input
        /\ Vehicles' = Vehicles /\ network' = network
    BY DEF Replan, Vehicles, core
  <1>2. PICK result \in ReplanResults(population[p].sub, population[p].plans, InnovationDisabled(iteration)) :
          /\ population' = [population EXCEPT ![p].plans = result.plans]
          /\ phase' = IF result.panics THEN "notReplanned" ELSE phase
    BY DEF Replan
  <1>3. FilesFitInv' /\ FilesJoinInv'
    BY <1>1 DEF FilesFitInv, FilesJoinInv
  <1>4. CASE result.panics
    <2>1. phase' = "notReplanned"
      BY <1>2, <1>4
    <2> QED BY <1>3, <2>1 DEF KInv, GivenInv, KeptInv, InRun
  <1>5. CASE ~result.panics
    <2>1. phase' = "replan"
      BY <1>1, <1>2, <1>5
    <2>2. /\ population = [q \in Persons |-> population[q]] /\ IsPerson(population[p])
          /\ ArePlans(population[p].plans)
      BY <1>1 DEF PInv, MemoryInv, IsPerson
    <2>3. \A k \in DOMAIN result.plans : \E i \in DOMAIN population[p].plans :
            result.plans[k] = population[p].plans[i]
      BY <1>5, <2>2, ReplannedAmong
    <2> DEFINE person == [population[p] EXCEPT !.plans = result.plans]
    <2>4. population' = [population EXCEPT ![p] = person]
      BY <1>2, <2>2
    <2>5. person.plans = result.plans
      <3>1. PICK plans, sub, attrs : population[p] = [plans |-> plans, sub |-> sub, attrs |-> attrs]
        BY <2>2 DEF IsPerson
      <3> QED BY <3>1
    <2> HIDE DEF person
    <2>6. Persons' = Persons /\ \A q \in Persons : population'[q] = IF q = p THEN person ELSE population[q]
      BY <2>2, <2>4, OneChanged
    <2> DEFINE h == GivenVehicles(input) \cup Vehicles
    <2>7. \A q \in Persons : ArePlansKept(q, population[q], input, h)
      BY <1>1 DEF KInv, KeptInv, InRun
    <2> HIDE DEF h
    <2>8. ArePlansKept(p, person, input, h)
      <3>1. ASSUME NEW k \in DOMAIN result.plans PROVE KeptPlan(p, result.plans[k].elements, input, h)
        <4>1. PICK i \in DOMAIN population[p].plans : result.plans[k] = population[p].plans[i]
          BY <2>3
        <4>2. KeptPlan(p, population[p].plans[i].elements, input, h)
          BY <2>7 DEF ArePlansKept
        <4> QED BY <4>1, <4>2
      <3> QED BY <2>5, <3>1 DEF ArePlansKept
    <2>9. KeptInv'
      <3>1. \A q \in Persons : ArePlansKept(q, population'[q], input, h)
        BY <2>6, <2>7, <2>8
      <3> QED BY <1>1, <2>6, <3>1 DEF KeptInv, h
    <2>10. GivenInv'
      BY <1>1, <2>1 DEF KInv, GivenInv, InRun
    <2> QED BY <1>3, <2>9, <2>10 DEF KInv
  <1> QED BY <1>4, <1>5

LEMMA ControllerKeepsK ==
  PInv /\ KInv /\ (EndPrepare \/ Simulate \/ MobsimPanics \/ NextIteration \/ WriteOutput \/ UNCHANGED vars) => KInv'
PROOF
  <1> SUFFICES ASSUME PInv, KInv, EndPrepare \/ Simulate \/ MobsimPanics \/ NextIteration \/ WriteOutput \/ UNCHANGED vars
               PROVE  KInv'
    OBVIOUS
  <1>1. /\ input' = input /\ population' = population /\ Persons' = Persons /\ Vehicles' = Vehicles
        /\ files' = files /\ network' = network
    BY DEF EndPrepare, Simulate, MobsimPanics, NextIteration, WriteOutput, vars, Vehicles, core, Persons
  <1>2. (InRun' => InRun) /\ (phase' \in {"convert", "read"} => phase' = phase)
    BY DEF EndPrepare, Simulate, MobsimPanics, NextIteration, WriteOutput, vars, InRun
  <1> QED BY <1>1, <1>2 DEF KInv, FilesFitInv, FilesJoinInv, GivenInv, KeptInv

LEMMA KInvStep == ASSUME TripsFit PROVE PInv /\ KInv /\ [Next]_vars => KInv'
  BY ConvertKeepsK, ReadKeepsK, PrepareKeepsK, ReplanKeepsK, ControllerKeepsK DEF Next, Terminated

\* A trip: legs, with an activity between one and the next.
IsTrip(x) == Len(x) % 2 = 1 /\ \A i \in 1..Len(x) : x[i].kind = IF i % 2 = 1 THEN "leg" ELSE "act"

LEMMA TripLegsAre ==
  ASSUME NEW x, IsSequence(x), IsTrip(x)
  PROVE  \E m \in Nat : /\ Len(x) = 2 * m + 1 /\ IsSequence(LegsOf(x)) /\ Len(LegsOf(x)) = m + 1
                        /\ \A k \in 1..m + 1 : LegsOf(x)[k] = x[2 * k - 1]
PROOF
  <1> DEFINE S == {x[i] : i \in 1..Len(x)}
             n == Len(x)
             legs == LegsOf(x)
  <1>1. x \in Seq(S) /\ n \in Nat /\ n % 2 = 1
    BY DEF IsSequence, IsTrip
  <1>2. \A i \in 1..n : x[i] \in S /\ (x[i].kind = "leg" <=> i % 2 = 1)
    <2>1. \A i \in 1..n : x[i] \in S
      OBVIOUS
    <2> HIDE DEF S
    <2>2. \A i \in 1..n : x[i].kind = IF i % 2 = 1 THEN "leg" ELSE "act"
      BY DEF IsTrip
    <2> QED BY <2>1, <2>2
  <1> HIDE DEF S
  <1>3. Len(legs) = Half(n, 1) /\ \A k \in 1..Half(n, 1) : legs[k] = x[2 * k - 1]
    <2> DEFINE T == {e \in S : e.kind = "leg"}
    <2>1. legs = Those(x, T) /\ \A i \in 1..n : x[i] \in T <=> i % 2 = 1
      BY <1>1, <1>2, OfKindIs DEF LegsOf
    <2> HIDE DEF T, legs
    <2> QED BY <1>1, <2>1, EveryOther
  <1>4. IsSequence(legs)
    <2>1. legs \in Seq(S)
      BY <1>1, OfKindElements DEF LegsOf
    <2> HIDE DEF legs
    <2> QED BY <2>1, SequenceOf
  <1>5. PICK m \in Nat : n = 2 * m + 1 /\ Half(n, 1) = m + 1
    <2>1. n \div 2 \in Nat /\ n = 2 * (n \div 2) + 1 /\ Half(n, 1) = n \div 2 + 1
      <3> HIDE DEF n
      <3> QED BY <1>1 DEF Half
    <2>2. \A m : m = n \div 2 => m \in Nat /\ n = 2 * m + 1 /\ Half(n, 1) = m + 1
      BY <2>1
    <2> QED BY <2>1
  <1> HIDE DEF legs
  <1>6. Len(legs) = m + 1 /\ \A k \in 1..m + 1 : legs[k] = x[2 * k - 1]
    BY <1>3, <1>5
  <1> QED BY <1>4, <1>5, <1>6 DEF legs

LEMMA OddPlus == ASSUME NEW o \in Nat, o % 2 = 1, NEW i \in Nat PROVE (o + i) % 2 = 1 <=> ~(i % 2 = 1)
PROOF
  <1>1. PICK a \in Nat : o = 2 * a + 1
    <2>1. o \div 2 \in Nat /\ o = 2 * (o \div 2) + 1
      OBVIOUS
    <2> QED BY <2>1
  <1>2. PICK b \in Nat : i = 2 * b \/ i = 2 * b + 1
    <2>1. i \div 2 \in Nat /\ (i = 2 * (i \div 2) \/ i = 2 * (i \div 2) + 1)
      OBVIOUS
    <2> QED BY <2>1
  <1>3. CASE i = 2 * b
    <2>1. o + i = 2 * (a + b) + 1 /\ a + b \in Nat
      BY <1>1, <1>3
    <2>2. (2 * (a + b) + 1) % 2 = 1 /\ (2 * b) % 2 = 0
      OBVIOUS
    <2> QED BY <1>3, <2>1, <2>2
  <1>4. CASE i = 2 * b + 1
    <2>1. o + i = 2 * (a + b + 1) /\ a + b + 1 \in Nat
      BY <1>1, <1>4
    <2>2. (2 * (a + b + 1)) % 2 = 0 /\ (2 * b + 1) % 2 = 1
      OBVIOUS
    <2> QED BY <1>4, <2>1, <2>2
  <1> QED BY <1>2, <1>3, <1>4

\* What lies between two main activities of a plan is a trip.
LEMMA SpanIsOverTrip ==
  ASSUME NEW E, IsSequence(E), WellFormed(E), NEW o, NEW d, SpanOver(E, o, d)
  PROVE  LET x == TripElements(E, Span(o, d)) IN
           /\ IsSequence(x) /\ IsTrip(x) /\ Len(x) = d - o - 1 /\ Len(x) \in Nat /\ Len(x) > 0
           /\ \A i \in 1..Len(x) : x[i] = E[o + i] /\ o + i \in 2..Len(E) - 1 /\ ~IsMain(x[i])
           /\ o \in 1..Len(E) /\ d \in 1..Len(E) /\ Len(E) \in Nat
PROOF
  <1>1. /\ o \in 1..Len(E) /\ d \in 1..Len(E) /\ d - o > 1 /\ Len(E) \in Nat
        /\ \A k \in 1..Len(E) : IsMain(E[k]) => k <= o \/ k >= d
        /\ \A k \in 1..Len(E) : E[k].kind = IF k % 2 = 1 THEN "act" ELSE "leg"
    BY LengthIs DEF SpanOver, WellFormed
  <1>2. o % 2 = 1 /\ d % 2 = 1
    <2>1. E[o].kind = "act" /\ E[d].kind = "act"
      BY DEF SpanOver, IsMain
    <2> QED BY <1>1, <2>1
  <1>3. PICK x : x = TripElements(E, Span(o, d))
    OBVIOUS
  <1>4. IsSequence(x) /\ Len(x) = d - o - 1 /\ \A i \in 1..d - o - 1 : x[i] = E[o + i]
    <2>1. o < d
      BY <1>1
    <2> QED BY <1>1, <1>3, <2>1, TripElementsIs
  <1>5. (d - o - 1) % 2 = 1 /\ d - o - 1 \in Nat /\ d - o - 1 > 0
    BY <1>1, <1>2
  <1>6. ASSUME NEW i \in 1..d - o - 1
        PROVE  /\ o + i \in 2..Len(E) - 1 /\ ~IsMain(x[i])
               /\ x[i].kind = IF i % 2 = 1 THEN "leg" ELSE "act"
    <2>1. /\ i \in Nat /\ o + i \in 2..Len(E) - 1 /\ o + i \in 1..Len(E) /\ ~(o + i <= o) /\ ~(o + i >= d)
      BY <1>1
    <2>2. (o + i) % 2 = 1 <=> ~(i % 2 = 1)
      <3>1. o \in Nat
        BY <1>1
      <3> QED BY <1>2, <2>1, <3>1, OddPlus
    <2>3. x[i] = E[o + i]
      BY <1>4
    <2>4. E[o + i].kind = IF (o + i) % 2 = 1 THEN "act" ELSE "leg"
      BY <1>1, <2>1
    <2>5. ~IsMain(E[o + i])
      BY <1>1, <2>1
    <2> QED BY <2>1, <2>2, <2>3, <2>4, <2>5
  <1>7. IsTrip(x)
    BY <1>4, <1>5, <1>6 DEF IsTrip
  <1> QED BY <1>1, <1>3, <1>4, <1>5, <1>6, <1>7

\* A trip that stays leads from its origin to its destination.
LEMMA StaysJoined ==
  ASSUME RoutesJoin, NEW p, NEW E, Placed(E), WellFormed(E), Joined(E), NEW o, NEW d, SpanOver(E, o, d),
         NEW g, Stays(p, E, Span(o, d), g)
  PROVE  TripJoins(TripElements(E, Span(o, d)), E[o].link, E[d].link)
PROOF
  <1>1. IsSequence(E)
    BY DEF Placed
  <1>2. PICK x : x = TripElements(E, Span(o, d))
    OBVIOUS
  <1>3. /\ IsSequence(x) /\ IsTrip(x) /\ Len(x) = d - o - 1 /\ Len(x) \in Nat /\ Len(x) > 0
        /\ \A i \in 1..Len(x) : x[i] = E[o + i] /\ o + i \in 2..Len(E) - 1 /\ ~IsMain(x[i])
        /\ o \in 1..Len(E) /\ d \in 1..Len(E) /\ Len(E) \in Nat
    BY <1>1, <1>2, SpanIsOverTrip
  <1>4. Span(o, d).origin = o /\ Span(o, d).destination = d
    BY DEF Span
  <1>5. IsMain(E[o]) /\ IsMain(E[d])
    BY DEF SpanOver
  <1> DEFINE main == ResolveMainMode(LegsOf(x))
             dep == DepartureTime(E, Span(o, d))
             vehicle == VehicleForTrip(p, LegsOf(x), main.mode, g)
             req == Request(E[o], E[d], dep, vehicle.veh)
  <1>6. TripIsValid(x, LegsOf(x), main.mode) \/ CalcRoute(main.mode, req) = Routed(x)
    BY <1>2, <1>4 DEF Stays, StaysAs
  <1>7. CASE TripIsValid(x, LegsOf(x), main.mode)
    <2>1. PICK m \in Nat : /\ Len(x) = 2 * m + 1 /\ IsSequence(LegsOf(x)) /\ Len(LegsOf(x)) = m + 1
                           /\ \A k \in 1..m + 1 : LegsOf(x)[k] = x[2 * k - 1]
      BY <1>3, TripLegsAre
    <2>2. PICK legs : legs = LegsOf(x)
      OBVIOUS
    <2>3. \A k \in 1..m + 1 : LegIsValid(legs[k], main.mode)
      <3>1. DOMAIN legs = 1..m + 1
        BY <2>1, <2>2, LengthIs
      <3> HIDE DEF main
      <3> QED BY <1>7, <2>2, <3>1 DEF TripIsValid
    <2> HIDE DEF main
    <2>4. ASSUME NEW i \in 1..Len(x), i % 2 = 1
          PROVE  /\ IsRouted(x[i]) /\ JoinsAt(E, o + i)
                 /\ x[i].route.type = "links" => Leads(x[i].route, x[i].route.start, x[i].route.end)
      <3>1. PICK k \in 1..m + 1 : i = 2 * k - 1
        <4>1. (i + 1) \div 2 \in 1..m + 1 /\ i = 2 * ((i + 1) \div 2) - 1
          BY <2>1, <2>4
        <4> QED BY <4>1
      <3>2. LegIsValid(x[i], main.mode)
        BY <2>1, <2>2, <2>3, <3>1
      <3>3. x[i].kind = "leg"
        BY <1>3, <2>4 DEF IsTrip
      <3>4. IsRouted(x[i])
        BY <3>2, <3>3 DEF IsRouted, LegIsValid
      <3>5. JoinsAt(E, o + i)
        BY <1>3 DEF Joined
      <3> QED BY <3>2, <3>4, <3>5 DEF LegIsValid, NetworkRouteIsValid, Leads
    <2>5. 1 \in 1..Len(x) /\ 1 % 2 = 1 /\ Len(x) \in 1..Len(x) /\ Len(x) % 2 = 1
      BY <1>3 DEF IsTrip
    <2>6. ASSUME NEW i \in 1..Len(x), x[i].kind = "leg" PROVE IsRouted(x[i]) /\ LeadsOn(x[i])
      <3>1. i % 2 = 1
        BY <1>3, <2>6 DEF IsTrip
      <3>2. x[i] = E[o + i]
        BY <1>3
      <3> QED BY <2>4, <3>1, <3>2 DEF JoinsAt, LeadsOn
    <2>7. x[1].route.start = E[o].link
      <3>1. x[1] = E[o + 1] /\ (o + 1) - 1 = o
        BY <1>3, <2>5
      <3>2. IsRouted(x[1]) /\ JoinsAt(E, o + 1)
        BY <2>4, <2>5
      <3> QED BY <1>5, <3>1, <3>2 DEF JoinsAt
    <2>8. x[Len(x)].route.end = E[d].link
      <3>1. x[Len(x)] = E[o + Len(x)] /\ (o + Len(x)) + 1 = d
        <4>1. o \in Int /\ d \in Int /\ Len(x) = d - o - 1
          BY <1>3
        <4>2. (o + Len(x)) + 1 = d
          BY <4>1
        <4> QED BY <1>3, <2>5, <4>2
      <3>2. IsRouted(x[Len(x)]) /\ JoinsAt(E, o + Len(x))
        BY <2>4, <2>5
      <3> QED BY <1>5, <3>1, <3>2 DEF JoinsAt
    <2>9. ASSUME NEW i \in 1..Len(x) - 2, i % 2 = 1 PROVE x[i].route.end = x[i + 2].route.start
      <3>1. /\ i \in 1..Len(x) /\ i + 1 \in 1..Len(x) /\ i + 2 \in 1..Len(x) /\ (i + 2) % 2 = 1
            /\ o + (i + 1) = (o + i) + 1 /\ o + (i + 2) = (o + i) + 2
        <4> DEFINE n == Len(x)
        <4>1. n \in Nat /\ o \in Nat /\ i \in 1..n - 2 /\ i % 2 = 1
          BY <1>3, <2>9
        <4> HIDE DEF n
        <4>2. i \in 1..n /\ i + 1 \in 1..n /\ i + 2 \in 1..n
          BY <4>1
        <4>3. (i + 2) % 2 = 1
          BY <4>1
        <4>4. o + (i + 1) = (o + i) + 1 /\ o + (i + 2) = (o + i) + 2
          BY <4>1
        <4> QED BY <4>2, <4>3, <4>4 DEF n
      <3>2. x[i] = E[o + i] /\ x[i + 1] = E[(o + i) + 1] /\ x[i + 2] = E[(o + i) + 2] /\ ~IsMain(x[i + 1])
        BY <1>3, <3>1
      <3>3. (o + i) + 2 <= Len(E)
        <4>1. o + (i + 2) \in 2..Len(E) - 1
          BY <1>3, <3>1
        <4> QED BY <1>3, <3>1, <4>1
      <3>4. IsRouted(x[i]) /\ JoinsAt(E, o + i) /\ IsRouted(x[i + 2])
        BY <2>4, <2>9, <3>1
      <3> QED BY <3>2, <3>3, <3>4 DEF JoinsAt
    <2>10. IsTrip(x)
      BY <1>3
    <2> QED BY <1>2, <2>6, <2>7, <2>8, <2>9, <2>10 DEF TripJoins, IsTrip
  <1>8. CASE CalcRoute(main.mode, req) = Routed(x)
    <2>1. IsFacility(req.from) /\ IsFacility(req.to) /\ req.from.link = E[o].link /\ req.to.link = E[d].link
      <3>1. IsPlaced(E[o]) /\ IsPlaced(E[d])
        BY <1>3 DEF Placed
      <3> HIDE DEF vehicle, dep
      <3> QED BY <1>5, <3>1, FacilityIs DEF Request, FacilityOf, Facility
    <2> HIDE DEF req, main
    <2>2. CalcRoute(main.mode, req).ok /\ CalcRoute(main.mode, req).elements = x
      BY <1>8 DEF Routed
    <2>3. TripJoins(CalcRoute(main.mode, req).elements, req.from.link, req.to.link)
      BY <2>1, <2>2, CalcRouteIs
    <2> QED BY <1>2, <2>1, <2>2, <2>3
  <1> HIDE DEF main, req
  <1> QED BY <1>6, <1>7, <1>8

\* A trip that leads from its origin to its destination connects them.
LEMMA JoinedConnects ==
  ASSUME NEW E, IsSequence(E), WellFormed(E), NEW o, NEW d, SpanOver(E, o, d),
         TripJoins(TripElements(E, Span(o, d)), E[o].link, E[d].link),
         \A k \in DOMAIN E : E[k].kind = "leg" /\ E[k].mode \in MainModes =>
           E[k].route.veh \in Vehicles \cup (IF input.tool = "convert_to_xml" THEN VehiclesGiven ELSE {})
  PROVE  TripConnects(E, Span(o, d))
PROOF
  <1>1. PICK x : x = TripElements(E, Span(o, d))
    OBVIOUS
  <1>2. /\ IsSequence(x) /\ IsTrip(x) /\ Len(x) = d - o - 1 /\ Len(x) \in Nat /\ Len(x) > 0
        /\ \A i \in 1..Len(x) : x[i] = E[o + i] /\ o + i \in 2..Len(E) - 1 /\ ~IsMain(x[i])
        /\ o \in 1..Len(E) /\ d \in 1..Len(E) /\ Len(E) \in Nat
    BY <1>1, SpanIsOverTrip
  <1>3. PICK m \in Nat : /\ Len(x) = 2 * m + 1 /\ IsSequence(LegsOf(x)) /\ Len(LegsOf(x)) = m + 1
                         /\ \A k \in 1..m + 1 : LegsOf(x)[k] = x[2 * k - 1]
    BY <1>2, TripLegsAre
  <1>4. PICK legs : legs = LegsOf(x)
    OBVIOUS
  <1>5. Span(o, d).origin = o /\ Span(o, d).destination = d
    BY DEF Span
  <1> DEFINE available == Vehicles \cup (IF input.tool = "convert_to_xml" THEN VehiclesGiven ELSE {})
  <1>6. \A k \in DOMAIN E : E[k].kind = "leg" /\ E[k].mode \in MainModes => E[k].route.veh \in available
    OBVIOUS
  <1> HIDE DEF available
  <1>7. TripJoins(x, E[o].link, E[d].link)
    BY <1>1
  <1>8. /\ Len(legs) = m + 1 /\ DOMAIN legs = 1..m + 1 /\ 1 \in 1..m + 1 /\ m + 1 \in 1..m + 1
        /\ \A k \in 1..m + 1 : legs[k] = x[2 * k - 1]
    <2>1. DOMAIN legs = 1..m + 1
      BY <1>3, <1>4, LengthIs
    <2> QED BY <1>3, <1>4, <2>1
  <1>9. ASSUME NEW k \in 1..m + 1
        PROVE  2 * k - 1 \in 1..Len(x) /\ x[2 * k - 1].kind = "leg"
    <2>1. 2 * k - 1 \in 1..Len(x)
      BY <1>3
    <2>2. (2 * k - 1) % 2 = 1
      OBVIOUS
    <2> QED BY <1>2, <2>1, <2>2 DEF IsTrip
  <1>10. legs[1].route.start = E[o].link
    BY <1>7, <1>8 DEF TripJoins
  <1>11. legs[Len(legs)].route.end = E[d].link
    <2>1. 2 * (m + 1) - 1 = Len(x)
      BY <1>3
    <2> QED BY <1>7, <1>8, <2>1 DEF TripJoins
  <1>12. ASSUME NEW i \in 1..Len(legs) - 1 PROVE legs[i].route.end = legs[i + 1].route.start
    <2>1. i \in 1..m /\ i \in 1..m + 1 /\ i + 1 \in 1..m + 1
      BY <1>8
    <2>2. (2 * i - 1) \in 1..(2 * m + 1) - 2 /\ (2 * i - 1) % 2 = 1 /\ 2 * (i + 1) - 1 = (2 * i - 1) + 2
      BY <2>1
    <2>3. x[2 * i - 1].route.end = x[(2 * i - 1) + 2].route.start
      BY <1>3, <1>7, <2>2 DEF TripJoins
    <2> QED BY <1>8, <2>1, <2>2, <2>3
  <1>13. ASSUME NEW k \in DOMAIN legs, legs[k].mode \in MainModes
         PROVE  /\ legs[k].route.links[1] = legs[k].route.start
                /\ legs[k].route.links[Len(legs[k].route.links)] = legs[k].route.end
                /\ legs[k].route.veh \in available
    <2>1. PICK i \in 1..Len(x) : legs[k] = x[i] /\ x[i].kind = "leg"
      BY <1>8, <1>9
    <2>2. Leads(x[i].route, x[i].route.start, x[i].route.end)
      BY <1>7, <1>13, <2>1 DEF TripJoins, LeadsOn
    <2>3. x[i].route.veh \in available
      <3>1. x[i] = E[o + i] /\ o + i \in DOMAIN E
        <4>1. o + i \in 2..Len(E) - 1 /\ Len(E) \in Nat /\ DOMAIN E = 1..Len(E)
          BY <1>2, LengthIs
        <4> QED BY <1>2, <4>1
      <3> QED BY <1>6, <1>13, <2>1, <3>1
    <2> QED BY <2>1, <2>2, <2>3 DEF Leads
  <1> QED BY <1>1, <1>4, <1>5, <1>10, <1>11, <1>12, <1>13 DEF TripConnects, available

\* When the mobsim starts, every plan is prepared, and kept.
LEMMA KeptMeansTripsKept == ASSUME RoutesJoin PROVE PInv /\ KInv => TripsKept
PROOF
  <1> SUFFICES ASSUME PInv, KInv, phase = "mobsim" 
               PROVE  /\ NetworkAsGiven
                      /\ \A p \in Persons : \A i \in DOMAIN population[p].plans :
                           LET elements == population[p].plans[i].elements IN
                             /\ WellFormed(elements)
                             /\ \E plan \in InputPlans(p) :
                                  MainActivities(AssignCoordinates(plan.elements)) = MainActivities(elements)
                             /\ \A span \in TripSpans(elements, 1) : TripConnects(elements, span)
    BY DEF TripsKept
  <1> DEFINE h == GivenVehicles(input) \cup Vehicles
             available == Vehicles \cup (IF input.tool = "convert_to_xml" THEN VehiclesGiven ELSE {})
  <1>1. NetworkAsGiven
    BY DEF KInv, GivenInv, InRun, AsGiven, NetworkAsGiven
  <1>2. h \subseteq available
    BY DEF KInv, GivenInv, InRun, VehiclesGiven, GivenVehicles
  <1>3. \A p \in Persons : ArePrepared(p, population[p], Vehicles) /\ ArePlansKept(p, population[p], input, h)
    BY DEF PInv, IssuesInv, PreparedInv, KInv, KeptInv, InRun
  <1> HIDE DEF h, available
  <1>4. ASSUME NEW p \in Persons, NEW i \in DOMAIN population[p].plans, NEW E, E = population[p].plans[i].elements
        PROVE  /\ WellFormed(E)
               /\ \E plan \in InputPlans(p) : MainActivities(AssignCoordinates(plan.elements)) = MainActivities(E)
               /\ \A span \in TripSpans(E, 1) : TripConnects(E, span)
    <2>1. Prepared(p, E, Vehicles) /\ KeptPlan(p, E, input, h)
      BY <1>3, <1>4 DEF ArePrepared, ArePlansKept
    <2>2. Placed(E) /\ IsSequence(E) /\ \A j \in 1..Cardinality(Trips(E)) : Stays(p, E, SpanAt(E, j), Vehicles)
      BY <2>1 DEF Prepared, UpToTrip, Placed
    <2>3. AssignCoordinates(E) = E
      BY <2>2, CoordinatesAssigned DEF Placed, IsPlaced
    <2>4. PICK plan \in GivenPlans(input, p) : KeepsTrips(plan.elements, E)
      BY <2>1 DEF KeptPlan, IsFrom
    <2>5. WellFormed(E) /\ Joined(E) /\ MainActivities(E) = MainActivities(AssignCoordinates(plan.elements))
      BY <2>3, <2>4 DEF KeepsTrips
    <2>6. plan \in InputPlans(p)
      BY <2>4 DEF InputPlans, GivenPlans, FoundFormat
    <2>7. ASSUME NEW span \in TripSpans(E, 1) PROVE TripConnects(E, span)
      <3>1. span \in Trips(E)
        BY DEF Trips
      <3>2. PICK o, d : span = Span(o, d) /\ SpanOver(E, o, d)
        BY <2>2, <3>1, TripIs
      <3>3. Stays(p, E, span, Vehicles)
        BY <2>2, <3>1, TripHasNumber
      <3>4. TripJoins(TripElements(E, Span(o, d)), E[o].link, E[d].link)
        BY <2>2, <2>5, <3>2, <3>3, StaysJoined
      <3>5. \A k \in DOMAIN E : E[k].kind = "leg" /\ E[k].mode \in MainModes => E[k].route.veh \in available
        <4>1. IsUsable(E, h)
          BY <2>1 DEF KeptPlan
        <4> QED BY <1>2, <2>1, <4>1, DriversHaveVehicles
      <3> QED BY <2>2, <2>5, <3>2, <3>4, <3>5, JoinedConnects DEF available
    <2> QED BY <2>5, <2>6, <2>7
  <1> QED BY <1>1, <1>4

\* Whatever is converted, replanned or routed anew, when the mobsim starts the network is
\* the user's, and every plan has the main activities of a plan of the user's and trips that
\* lead from one to the next with vehicles that exist.
THEOREM TripsAreKept == ASSUME RunsFit, TripsFit PROVE Spec => []TripsKept
PROOF
  <1>1. PInv /\ KInv => TripsKept
    BY KeptMeansTripsKept DEF TripsFit
  <1> QED BY <1>1, PInvInit, PInvStep, KInvInit, KInvStep, PTL DEF Spec

=============================================================================
