------------------------ MODULE SyncProtocol_proofs -------------------------
(* Proofs about SyncProtocol, for any number of ranks and ticks: the ticks *)
(* and the messages first, then, on top of SyncInv, what the exchange does  *)
(* to the vehicles in them and how late a message is with global_sync.      *)
EXTENDS SyncProtocol, FiniteSetTheorems, TLAPS

\* What Append does to a channel.
LEMMA AppendFacts ==
  ASSUME NEW S, NEW s \in Seq(S), NEW x \in S
  PROVE  /\ Append(s, x) \in Seq(S)
         /\ Len(s) \in Nat
         /\ Len(Append(s, x)) = Len(s) + 1
         /\ \A i \in 1..Len(s) : s[i] \in S /\ Append(s, x)[i] = s[i]
         /\ Append(s, x)[Len(s) + 1] = x
  OBVIOUS

\* What taking the head off a channel does.
LEMMA TailFacts ==
  ASSUME NEW S, NEW s \in Seq(S), s # <<>>
  PROVE  /\ Len(s) \in Nat /\ Len(s) >= 1
         /\ Head(s) = s[1] /\ s[1] \in S
         /\ Tail(s) \in Seq(S)
         /\ Len(Tail(s)) = Len(s) - 1
         /\ \A i \in 1..Len(Tail(s)) : i + 1 \in 1..Len(s) /\ Tail(s)[i] = s[i + 1]
  OBVIOUS

\* What is in the channels and heaps are messages.
LEMMA MessageFacts ==
  ASSUME TypeOK, NEW r \in Ranks
  PROVE  /\ tick[r] \in Int /\ Len(chan[r]) \in Nat
         /\ \A i \in 1..Len(chan[r]) :
              chan[r][i] \in Messages /\ chan[r][i].time \in Int /\ chan[r][i].from \in Ranks
         /\ \A m \in cache[r] : m \in Messages /\ m.time \in Int /\ m.from \in Ranks
<1>1. chan[r] \in Seq(Messages)
  BY DEF TypeOK
<1>2. \A i \in 1..Len(chan[r]) : chan[r][i] \in Messages
  BY <1>1
<1> QED
  BY <1>1, <1>2 DEF TypeOK, Messages

\* A run of the program begins with empty channels, so it is one that begins after nothing.
LEMMA InitBegins == Init => Begins
<1> SUFFICES ASSUME Init PROVE Begins
  OBVIOUS
<1>1. PICK home \in [Vehicles -> Ranks] : at = [r \in Ranks |-> {v \in Vehicles : home[v] = r}]
  BY DEF Init
<1>2. chan = [r \in Ranks |-> <<>>] /\ \A r \in Ranks : Len(chan[r]) = 0
  BY DEF Init
<1>3. LeftBehind
  BY <1>2 DEF LeftBehind
<1>4. \A v, r : r \in Ranks => v \notin InChannel(r)
  BY <1>2 DEF InChannel
<1>5. \A r \in Ranks : {v \in Vehicles : home[v] = r /\ \A s \in Ranks : v \notin InChannel(s)}
                       = {v \in Vehicles : home[v] = r}
  BY <1>4
<1>6. at = [r \in Ranks |->
              {v \in Vehicles : home[v] = r /\ \A s \in Ranks : v \notin InChannel(s)}]
  BY <1>1, <1>5
<1> QED
  BY <1>3, <1>6 DEF Init, Begins

\* The states a run begins in satisfy the invariant.
LEMMA InitInv == Begins => SyncInv
<1> SUFFICES ASSUME Begins PROVE SyncInv
  OBVIOUS
<1> USE RanksAssumption, ReachAssumption, TickAssumption
<1>0. LeftBehind
  BY DEF Begins
<1>1. TypeOK
  <2>1. at \in [Ranks -> SUBSET Vehicles]
    BY DEF Begins
  <2>2. chan \in [Ranks -> Seq(Messages)]
    BY <1>0 DEF LeftBehind
  <2> QED
    BY <2>1, <2>2 DEF Begins, TypeOK, PhaseAt, Phases, NoLoad
<1>2. \A r \in Ranks : /\ ~InExchange(r) /\ pc[r] # "exchange" /\ tick[r] = StartTick
                       /\ cache[r] = {} /\ unsent[r] = {}
  BY DEF Begins, InExchange, PhaseAt
<1>3. \A r \in Ranks : \A i \in 1..Len(chan[r]) :
        chan[r][i].from \notin Nbr[r] /\ r \in Reach[chan[r][i].from]
  BY <1>0 DEF LeftBehind
<1>4. SentBound /\ FifoOrder /\ NothingOverdue /\ HeapLater /\ KnownSenders
  BY <1>2, <1>3 DEF SentBound, FifoOrder, NothingOverdue, HeapLater, KnownSenders
<1>5. NothingMissing /\ SentInTime
  BY <1>2 DEF NothingMissing, SentInTime, NextDue, LastSent
<1>6. SendsToAll /\ BarrierInv /\ NeighbourMessagesOnTime
  BY <1>2 DEF SendsToAll, BarrierInv, NeighbourMessagesOnTime, InExchange
<1> QED
  BY <1>1, <1>4, <1>5, <1>6 DEF SyncInv

\* A rank's own move (Step) keeps the invariant: what the heap gives up is of this
\* tick, and every neighbour has a message waiting to be sent.
LEMMA StepInv ==
  ASSUME SyncInv, NEW r \in Ranks, Step(r)
  PROVE  SyncInv'
<1> USE RanksAssumption, ReachAssumption, TickAssumption
<1> DEFINE due == {m \in cache[r] : m.time <= tick[r]}
<1>0. TypeOK
  BY DEF SyncInv
<1>1. /\ pc[r] = "step" /\ tick' = tick /\ chan' = chan
      /\ pc' = [pc EXCEPT ![r] = IF GlobalSync THEN "barrier" ELSE "exchange"]
      /\ expected' = [expected EXCEPT ![r] = Nbr[r] \ {m.from : m \in due}]
      /\ result' = [result EXCEPT ![r] = due]
      /\ cache' = [cache EXCEPT ![r] = @ \ due]
  BY DEF Step, PopFromCache
<1>2. PICK dest \in [at[r] -> Reach[r] \cup {r}] :
      /\ at' = [at EXCEPT ![r] = {v \in at[r] : dest[v] = r}]
      /\ unsent' = [unsent EXCEPT ![r] = Nbr[r] \cup ({dest[v] : v \in at[r]} \ {r})]
      /\ load' = [load EXCEPT ![r] =
                  [q \in Ranks |-> IF q = r THEN {} ELSE {v \in at[r] : dest[v] = q}]]
  BY DEF Step, PrepareSend
<1>3. TypeOK'
  <2>1. /\ at' \in [Ranks -> SUBSET Vehicles]
        /\ load' \in [Ranks -> [Ranks -> SUBSET Vehicles]]
    BY <1>0, <1>2 DEF TypeOK
  <2>2. unsent' \in [Ranks -> SUBSET Ranks]
    BY <1>0, <1>2 DEF TypeOK
  <2>3. /\ pc' \in [Ranks -> Phases] /\ tick' \in [Ranks -> Int]
        /\ chan' \in [Ranks -> Seq(Messages)]
    BY <1>0, <1>1 DEF TypeOK, Phases
  <2>4. /\ expected' \in [Ranks -> SUBSET Ranks]
        /\ result' \in [Ranks -> SUBSET Messages]
        /\ cache' \in [Ranks -> SUBSET Messages]
        /\ \A q \in Ranks : expected'[q] \subseteq Nbr[q]
    BY <1>0, <1>1 DEF TypeOK
  <2>5. (\A q \in Ranks :
           /\ expected[q] \subseteq Nbr[q]
           /\ pc[q] = "done" <=> tick[q] > EndTick
           /\ tick[q] = StartTick \/ tick[q] \in StartTick .. EndTick + 1)'
    BY <1>0, <1>1, <2>4 DEF TypeOK
  <2> QED
    BY <2>1, <2>2, <2>3, <2>4, <2>5 DEF TypeOK
<1>4. /\ Nbr[r] \subseteq unsent'[r]
      /\ unsent'[r] \subseteq Nbr[r] \cup Reach[r]
      /\ \A q \in Ranks \ {r} : unsent'[q] = unsent[q]
  BY <1>0, <1>2 DEF TypeOK
<1>5. \A s, q \in Ranks :
        /\ LastSent(s, q) \in Int /\ LastSent(s, q)' \in Int
        /\ LastSent(s, q)' >= LastSent(s, q)
        /\ q \in Nbr[s] => LastSent(s, q)' = LastSent(s, q)
  BY <1>0, <1>1, <1>4 DEF LastSent, TypeOK
<1>6. \A q \in Ranks :
        /\ q # r => /\ InExchange(q)' = InExchange(q)
                    /\ expected'[q] = expected[q]
                    /\ cache'[q] = cache[q] /\ result'[q] = result[q]
        /\ chan'[q] = chan[q] /\ tick'[q] = tick[q]
        /\ cache'[q] \subseteq cache[q]
  BY <1>0, <1>1 DEF TypeOK, InExchange
<1>7. /\ ~InExchange(r) /\ InExchange(r)'
      /\ expected'[r] = Nbr[r] \ {m.from : m \in due}
      /\ result'[r] = due /\ cache'[r] = cache[r] \ due
  BY <1>0, <1>1 DEF TypeOK, InExchange
<1>8. \A m \in due : m.from \in Nbr[r] => m.time = tick[r]
  BY <1>0, <1>7 DEF SyncInv, NothingOverdue, NextDue, TypeOK, Messages
<1>9. SentBound'
  <2> SUFFICES ASSUME NEW q \in Ranks, NEW s \in Nbr[q]
               PROVE  (/\ \A i \in 1..Len(chan[q]) :
                           chan[q][i].from = s => chan[q][i].time <= LastSent(s, q)
                       /\ \A m \in cache[q] : m.from = s => m.time <= LastSent(s, q))'
    BY DEF SentBound
  <2>1. /\ \A i \in 1..Len(chan[q]) :
             chan[q][i].from = s => chan[q][i].time <= LastSent(s, q)
        /\ \A m \in cache[q] : m.from = s => m.time <= LastSent(s, q)
    BY DEF SyncInv, SentBound
  <2>2. /\ \A i \in 1..Len(chan[q]) : chan[q][i].time \in Int
        /\ \A m \in cache[q] : m.time \in Int
    BY <1>0, MessageFacts
  <2>3. LastSent(s, q) \in Int /\ LastSent(s, q)' \in Int /\ LastSent(s, q)' >= LastSent(s, q)
    BY <1>5
  <2>4. chan'[q] = chan[q] /\ cache'[q] \subseteq cache[q]
    BY <1>6
  <2>5. \A i \in 1..Len(chan'[q]) :
          chan'[q][i].from = s => chan'[q][i].time <= LastSent(s, q)'
    BY <2>1, <2>2, <2>3, <2>4
  <2>6. \A m \in cache'[q] : m.from = s => m.time <= LastSent(s, q)'
    BY <2>1, <2>2, <2>3, <2>4
  <2> QED
    BY <2>5, <2>6
<1>10. FifoOrder'
  BY SMTT(30), <1>6 DEF SyncInv, FifoOrder
<1>11. \A m \in cache'[r] : m.time > tick[r]
  BY <1>0, <1>7 DEF TypeOK, Messages
<1>12. HeapLater'
  BY <1>6, <1>11 DEF SyncInv, HeapLater
<1>13. \A q \in Ranks, n \in Ranks : q # r => NextDue(q, n)' = NextDue(q, n)
  BY <1>6 DEF NextDue
<1>14. \A n \in Nbr[r] :
         /\ NextDue(r, n) = tick[r]
         /\ n \in {m.from : m \in due} => NextDue(r, n)' = tick[r] + 1
         /\ n \notin {m.from : m \in due} => NextDue(r, n)' = tick[r]
  BY <1>1, <1>7 DEF NextDue
<1>15. NothingOverdue'
  <2> SUFFICES ASSUME NEW q \in Ranks, NEW n \in Nbr[q]
               PROVE  /\ \A i \in 1..Len(chan'[q]) :
                           chan'[q][i].from = n => chan'[q][i].time >= NextDue(q, n)'
                      /\ \A m \in cache'[q] : m.from = n => m.time >= NextDue(q, n)'
    BY DEF NothingOverdue
  <2>1. CASE q # r
    BY <2>1, <1>6, <1>13 DEF SyncInv, NothingOverdue
  <2>2. CASE q = r /\ n \notin {m.from : m \in due}
    BY <2>2, <1>6, <1>14 DEF SyncInv, NothingOverdue
  <2>3. CASE q = r /\ n \in {m.from : m \in due}
    <3>1. PICK m \in due : m.from = n
      BY <2>3
    <3>2. m.time = tick[r] /\ m \in cache[r] /\ NextDue(q, n)' = tick[r] + 1
      BY <3>1, <2>3, <1>8, <1>14
    <3>3. \A i \in 1..Len(chan[r]) : chan[r][i].from = n => chan[r][i].time > tick[r]
      <4>1. \A k \in cache[r] : \A i \in 1..Len(chan[r]) :
              k.from = n /\ chan[r][i].from = n => k.time < chan[r][i].time
        BY <2>3 DEF SyncInv, FifoOrder
      <4>2. \A i \in 1..Len(chan[r]) : chan[r][i].from = n => m.time < chan[r][i].time
        BY <3>1, <3>2, <4>1
      <4> QED
        BY <3>2, <4>2, <1>0, MessageFacts
    <3> QED
      BY SMTT(30), <2>3, <3>2, <3>3, <1>0, <1>6, <1>11, MessageFacts
  <2> QED
    BY <2>1, <2>2, <2>3
<1>16. NothingMissing'
  <2> SUFFICES ASSUME NEW q \in Ranks, NEW n \in Nbr[q],
                      NEW t \in NextDue(q, n)' .. LastSent(n, q)'
               PROVE  \/ \E i \in 1..Len(chan'[q]) :
                            chan'[q][i].from = n /\ chan'[q][i].time = t
                      \/ \E m \in cache'[q] : m.from = n /\ m.time = t
    BY DEF NothingMissing
  <2>0. LastSent(n, q)' = LastSent(n, q) /\ LastSent(n, q) \in Int
    BY <1>5
  <2>1. CASE q # r
    BY <2>0, <2>1, <1>6, <1>13 DEF SyncInv, NothingMissing
  <2>2. CASE q = r
    <3>1. /\ tick[r] \in Int /\ NextDue(q, n)' >= NextDue(q, n)
          /\ NextDue(q, n) = tick[r]
          /\ NextDue(q, n)' = tick[r] => n \notin {m.from : m \in due}
          /\ NextDue(q, n)' \in {tick[r], tick[r] + 1}
      BY <2>2, <1>0, <1>14 DEF TypeOK
    <3>2. t \in NextDue(q, n) .. LastSent(n, q)
      BY <2>0, <3>1
    <3>3. \/ \E i \in 1..Len(chan[q]) : chan[q][i].from = n /\ chan[q][i].time = t
          \/ \E m \in cache[q] : m.from = n /\ m.time = t
      BY <3>2 DEF SyncInv, NothingMissing
    <3>4. ASSUME NEW m \in cache[q], m.from = n, m.time = t
          PROVE  m \in cache'[q]
      <4>1. m \notin due
        <5>1. CASE NextDue(q, n)' = tick[r]
          BY <5>1, <3>1, <3>4
        <5>2. CASE NextDue(q, n)' = tick[r] + 1
          BY <5>2, <3>1, <3>2, <3>4
        <5> QED
          BY <5>1, <5>2, <3>1
      <4> QED
        BY <4>1, <2>2, <1>7, <3>4
    <3> QED
      BY <3>3, <3>4, <1>6
  <2> QED
    BY <2>1, <2>2
<1>17. SentInTime'
  <2> SUFFICES ASSUME NEW q \in Ranks, NEW n \in Nbr[q]
               PROVE  NextDue(q, n)' - 1 <= LastSent(n, q)'
    BY DEF SentInTime
  <2>0. LastSent(n, q)' = LastSent(n, q) /\ LastSent(n, q) \in Int
    BY <1>5
  <2>1. CASE q # r
    BY <2>0, <2>1, <1>13 DEF SyncInv, SentInTime
  <2>2. CASE q = r /\ n \notin {m.from : m \in due}
    BY <2>0, <2>2, <1>14 DEF SyncInv, SentInTime
  <2>3. CASE q = r /\ n \in {m.from : m \in due}
    <3>1. PICK m \in due : m.from = n
      BY <2>3
    <3>2. m.time = tick[r] /\ m.time <= LastSent(n, q) /\ tick[r] \in Int
      BY <3>1, <2>3, <1>0, <1>8 DEF SyncInv, SentBound, TypeOK
    <3> QED
      BY <2>0, <2>3, <3>2, <1>14
  <2> QED
    BY <2>1, <2>2, <2>3
<1>18. SendsToAll'
  BY <1>0, <1>1, <1>4 DEF SyncInv, SendsToAll, TypeOK
<1>19. BarrierInv'
  BY <1>0, <1>1 DEF SyncInv, BarrierInv, TypeOK
<1>20. KnownSenders'
  BY <1>0, <1>4, <1>6 DEF SyncInv, KnownSenders, TypeOK
<1>21. NeighbourMessagesOnTime'
  <2> SUFFICES ASSUME NEW q \in Ranks, InExchange(q)', NEW n \in Nbr[q]
               PROVE  IF n \in expected'[q]
                        THEN {m \in result'[q] : m.from = n} = {}
                        ELSE \E m \in {m \in result'[q] : m.from = n} :
                               {k \in result'[q] : k.from = n} = {m} /\ m.time = tick'[q]
    BY DEF NeighbourMessagesOnTime
  <2>1. CASE q # r
    BY <2>1, <1>6 DEF SyncInv, NeighbourMessagesOnTime
  <2>2. CASE q = r
    <3>1. \A m, k \in due : m.from = n /\ k.from = n => m = k
      BY <2>2, <1>8 DEF SyncInv, FifoOrder
    <3> QED
      BY <2>2, <3>1, <1>7, <1>8, <1>6
  <2> QED
    BY <2>1, <2>2
<1> QED
  BY <1>3, <1>9, <1>10, <1>12, <1>15, <1>16, <1>17, <1>18, <1>19, <1>20, <1>21 DEF SyncInv

\* Arriving at the barrier, and being released from it, keeps the invariant: the
\* barrier is passed before the first send of the tick.
LEMMA BarrierWaitInv ==
  ASSUME SyncInv, NEW r \in Ranks, BarrierWait(r)
  PROVE  SyncInv'
<1> USE RanksAssumption, ReachAssumption, TickAssumption
<1>0. TypeOK
  BY DEF SyncInv
<1>1. /\ pc[r] = "barrier" /\ tick' = tick /\ chan' = chan /\ at' = at
      /\ unsent' = unsent /\ load' = load /\ expected' = expected
      /\ result' = result /\ cache' = cache
      /\ \/ /\ \A s \in Ranks \ {r} : pc[s] = "blocked"
            /\ pc' = [s \in Ranks |-> "exchange"]
         \/ pc' = [pc EXCEPT ![r] = "blocked"]
  BY DEF BarrierWait
<1>2. /\ pc' \in [Ranks -> Phases]
      /\ \A q \in Ranks : InExchange(q)' <=> InExchange(q)
      /\ \A q \in Ranks : pc'[q] = "done" <=> pc[q] = "done"
  <2>1. CASE /\ \A s \in Ranks \ {r} : pc[s] = "blocked"
             /\ pc' = [s \in Ranks |-> "exchange"]
    BY <2>1, <1>0, <1>1 DEF TypeOK, Phases, InExchange
  <2>2. CASE pc' = [pc EXCEPT ![r] = "blocked"]
    BY <2>2, <1>0, <1>1 DEF TypeOK, Phases, InExchange
  <2> QED
    BY <2>1, <2>2, <1>1
<1>3. \A s, q \in Ranks :
        /\ LastSent(s, q) \in Int /\ LastSent(s, q)' \in Int
        /\ LastSent(s, q)' >= LastSent(s, q)
        /\ q \in Nbr[s] => LastSent(s, q)' = LastSent(s, q)
  <2> SUFFICES ASSUME NEW s \in Ranks, NEW q \in Ranks
               PROVE  /\ LastSent(s, q) \in Int /\ LastSent(s, q)' \in Int
                      /\ LastSent(s, q)' >= LastSent(s, q)
                      /\ q \in Nbr[s] => LastSent(s, q)' = LastSent(s, q)
    OBVIOUS
  <2>1. tick[s] \in Int /\ tick'[s] = tick[s] /\ unsent'[s] = unsent[s]
    BY <1>0, <1>1 DEF TypeOK
  <2>2. pc'[s] = pc[s] \/ pc[s] \in {"barrier", "blocked"}
    BY <1>0, <1>1 DEF TypeOK
  <2>3. pc[s] \in {"barrier", "blocked"} => Nbr[s] \subseteq unsent[s]
    BY DEF SyncInv, SendsToAll
  <2> QED
    BY <2>1, <2>2, <2>3 DEF LastSent
<1>4. TypeOK'
  BY <1>0, <1>1, <1>2 DEF TypeOK
<1>5. SentBound'
  <2> SUFFICES ASSUME NEW q \in Ranks, NEW s \in Nbr[q]
               PROVE  (/\ \A i \in 1..Len(chan[q]) :
                           chan[q][i].from = s => chan[q][i].time <= LastSent(s, q)
                       /\ \A m \in cache[q] : m.from = s => m.time <= LastSent(s, q))'
    BY DEF SentBound
  <2>1. LastSent(s, q) \in Int /\ LastSent(s, q)' \in Int /\ LastSent(s, q)' >= LastSent(s, q)
    BY <1>3
  <2>2. /\ \A i \in 1..Len(chan[q]) : chan[q][i].time \in Int
        /\ \A m \in cache[q] : m.time \in Int
    BY <1>0, MessageFacts
  <2>3. /\ \A i \in 1..Len(chan[q]) :
             chan[q][i].from = s => chan[q][i].time <= LastSent(s, q)
        /\ \A m \in cache[q] : m.from = s => m.time <= LastSent(s, q)
    BY DEF SyncInv, SentBound
  <2>4. \A i \in 1..Len(chan'[q]) :
          chan'[q][i].from = s => chan'[q][i].time <= LastSent(s, q)'
    BY <2>1, <2>2, <2>3, <1>1
  <2>5. \A m \in cache'[q] : m.from = s => m.time <= LastSent(s, q)'
    BY <2>1, <2>2, <2>3, <1>1
  <2> QED
    BY <2>4, <2>5
<1>6. \A q, n \in Ranks : NextDue(q, n)' = NextDue(q, n)
  BY <1>1, <1>2 DEF NextDue
<1>7. FifoOrder' /\ HeapLater' /\ KnownSenders'
  BY <1>1, <1>2 DEF SyncInv, FifoOrder, HeapLater, KnownSenders
<1>8. NothingOverdue'
  BY <1>1, <1>6 DEF SyncInv, NothingOverdue
<1>9. NothingMissing'
  <2> SUFFICES ASSUME NEW q \in Ranks, NEW n \in Nbr[q],
                      NEW t \in NextDue(q, n)' .. LastSent(n, q)'
               PROVE  \/ \E i \in 1..Len(chan'[q]) :
                            chan'[q][i].from = n /\ chan'[q][i].time = t
                      \/ \E m \in cache'[q] : m.from = n /\ m.time = t
    BY DEF NothingMissing
  <2>1. LastSent(n, q)' = LastSent(n, q) /\ NextDue(q, n)' = NextDue(q, n)
    BY <1>3, <1>6
  <2> QED
    BY <2>1, <1>1 DEF SyncInv, NothingMissing
<1>10. SentInTime'
  BY <1>3, <1>6 DEF SyncInv, SentInTime
<1>11. SendsToAll'
  <2> SUFFICES ASSUME NEW q \in Ranks, pc'[q] \in {"barrier", "blocked"}
               PROVE  Nbr[q] \subseteq unsent'[q]
    BY DEF SendsToAll
  <2>1. unsent'[q] = unsent[q]
    BY <1>1
  <2>2. pc[q] \in {"barrier", "blocked"}
    <3>1. CASE pc' = [s \in Ranks |-> "exchange"]
      BY <3>1
    <3>2. CASE pc' = [pc EXCEPT ![r] = "blocked"]
      BY <3>2, <1>0, <1>1 DEF TypeOK
    <3> QED
      BY <3>1, <3>2, <1>1
  <2>3. Nbr[q] \subseteq unsent[q]
    BY <2>2 DEF SyncInv, SendsToAll
  <2> QED
    BY <2>1, <2>3
<1>12. BarrierInv'
  <2>1. GlobalSync
    BY <1>1 DEF SyncInv, BarrierInv
  <2>2. \A s, q \in Ranks : pc[s] # "exchange" /\ pc[q] # "exchange" => tick[s] = tick[q]
    BY <2>1 DEF SyncInv, BarrierInv
  <2>3. CASE /\ \A s \in Ranks \ {r} : pc[s] = "blocked"
             /\ pc' = [s \in Ranks |-> "exchange"]
    <3>1. \A s, q \in Ranks : tick[s] = tick[q]
      BY <2>2, <2>3, <1>1
    <3> QED
      BY <2>1, <2>3, <3>1, <1>1 DEF BarrierInv
  <2>4. CASE pc' = [pc EXCEPT ![r] = "blocked"]
    BY <2>1, <2>4, <1>0, <1>1 DEF SyncInv, BarrierInv, TypeOK
  <2> QED
    BY <2>3, <2>4, <1>1
<1>13. NeighbourMessagesOnTime'
  BY <1>1, <1>2 DEF SyncInv, NeighbourMessagesOnTime
<1> QED
  BY <1>4, <1>5, <1>7, <1>8, <1>9, <1>10, <1>11, <1>12, <1>13 DEF SyncInv

\* The end of a tick keeps the invariant: all neighbours are settled, so that what
\* is still under way from them is of a later tick.
LEMMA EndStepInv ==
  ASSUME SyncInv, NEW r \in Ranks, EndStep(r)
  PROVE  SyncInv'
<1> USE RanksAssumption, ReachAssumption, TickAssumption
<1>0. TypeOK
  BY DEF SyncInv
<1>1. /\ pc[r] = "exchange" /\ unsent[r] = {} /\ expected[r] = {}
      /\ at' = [at EXCEPT ![r] = @ \cup UNION {m.vehs : m \in result[r]}]
      /\ result' = [result EXCEPT ![r] = {}]
      /\ tick' = [tick EXCEPT ![r] = @ + 1]
      /\ pc' = [pc EXCEPT ![r] = PhaseAt(tick[r] + 1)]
      /\ unsent' = unsent /\ load' = load /\ expected' = expected
      /\ cache' = cache /\ chan' = chan
  BY DEF EndStep
<1>2. /\ pc'[r] \in {"step", "done"} /\ pc' \in [Ranks -> Phases]
      /\ pc'[r] = "done" <=> tick'[r] > EndTick
      /\ tick'[r] = tick[r] + 1 /\ tick' \in [Ranks -> Int]
      /\ InExchange(r) /\ ~InExchange(r)'
      /\ \A q \in Ranks \ {r} : /\ pc'[q] = pc[q] /\ tick'[q] = tick[q]
                               /\ InExchange(q)' = InExchange(q) /\ result'[q] = result[q]
  BY <1>0, <1>1 DEF TypeOK, Phases, PhaseAt, InExchange
<1>3. TypeOK'
  <2>1. at' \in [Ranks -> SUBSET Vehicles]
    BY <1>0, <1>1 DEF TypeOK, Messages
  <2>2. result' \in [Ranks -> SUBSET Messages]
    BY <1>0, <1>1 DEF TypeOK
  <2>3. (\A q \in Ranks :
           /\ expected[q] \subseteq Nbr[q]
           /\ pc[q] = "done" <=> tick[q] > EndTick
           /\ tick[q] = StartTick \/ tick[q] \in StartTick .. EndTick + 1)'
    <3>1. tick[r] \in Int /\ tick[r] <= EndTick /\ tick[r] >= StartTick
      BY <1>0, <1>1 DEF TypeOK
    <3> QED
      BY <3>1, <1>0, <1>1, <1>2 DEF TypeOK
  <2> QED
    BY <2>1, <2>2, <2>3, <1>0, <1>1, <1>2 DEF TypeOK
<1>4. \A s, q \in Ranks : LastSent(s, q) \in Int /\ LastSent(s, q)' = LastSent(s, q)
  BY <1>0, <1>1, <1>2 DEF LastSent, TypeOK
<1>5. \A q \in Ranks : \A n \in Nbr[q] : NextDue(q, n)' = NextDue(q, n)
  BY <1>0, <1>1, <1>2 DEF NextDue, TypeOK
<1>6. SentBound'
  <2> SUFFICES ASSUME NEW q \in Ranks, NEW s \in Nbr[q]
               PROVE  (/\ \A i \in 1..Len(chan[q]) :
                           chan[q][i].from = s => chan[q][i].time <= LastSent(s, q)
                       /\ \A m \in cache[q] : m.from = s => m.time <= LastSent(s, q))'
    BY DEF SentBound
  <2>1. LastSent(s, q)' = LastSent(s, q) /\ chan'[q] = chan[q] /\ cache'[q] = cache[q]
    BY <1>1, <1>4
  <2>2. /\ \A i \in 1..Len(chan[q]) :
             chan[q][i].from = s => chan[q][i].time <= LastSent(s, q)
        /\ \A m \in cache[q] : m.from = s => m.time <= LastSent(s, q)
    BY DEF SyncInv, SentBound
  <2> QED
    BY <2>1, <2>2
<1>7. FifoOrder' /\ KnownSenders'
  BY <1>1 DEF SyncInv, FifoOrder, KnownSenders
<1>8. NothingOverdue'
  BY <1>1, <1>5 DEF SyncInv, NothingOverdue
<1>9. HeapLater'
  BY <1>1, <1>2 DEF SyncInv, HeapLater
<1>10. NothingMissing'
  <2> SUFFICES ASSUME NEW q \in Ranks, NEW n \in Nbr[q],
                      NEW t \in NextDue(q, n)' .. LastSent(n, q)'
               PROVE  \/ \E i \in 1..Len(chan'[q]) :
                            chan'[q][i].from = n /\ chan'[q][i].time = t
                      \/ \E m \in cache'[q] : m.from = n /\ m.time = t
    BY DEF NothingMissing
  <2>1. LastSent(n, q)' = LastSent(n, q) /\ NextDue(q, n)' = NextDue(q, n)
    BY <1>4, <1>5
  <2> QED
    BY <2>1, <1>1 DEF SyncInv, NothingMissing
<1>11. SentInTime'
  BY <1>4, <1>5 DEF SyncInv, SentInTime
<1>12. SendsToAll'
  BY <1>1, <1>2 DEF SyncInv, SendsToAll
<1>13. BarrierInv'
  <2>1. CASE GlobalSync
    BY <2>1, <1>0, <1>1, <1>2 DEF SyncInv, BarrierInv, TypeOK
  <2>2. CASE ~GlobalSync
    BY <2>2, <1>1, <1>2 DEF SyncInv, BarrierInv
  <2> QED
    BY <2>1, <2>2
<1>14. NeighbourMessagesOnTime'
  BY <1>1, <1>2 DEF SyncInv, NeighbourMessagesOnTime
<1> QED
  BY <1>3, <1>6, <1>7, <1>8, <1>9, <1>10, <1>11, <1>12, <1>13, <1>14 DEF SyncInv

\* A send keeps the invariant: the new message is the sender's latest.
LEMMA SendInv ==
  ASSUME SyncInv, NEW r \in Ranks, NEW d \in Ranks, Send(r, d)
  PROVE  SyncInv'
<1> USE RanksAssumption, ReachAssumption, TickAssumption
<1> DEFINE new == [from |-> r, time |-> tick[r], vehs |-> load[r][d]]
<1>0. TypeOK
  BY DEF SyncInv
<1>1. /\ pc[r] = "exchange" /\ d \in unsent[r]
      /\ chan' = [chan EXCEPT ![d] = Append(@, new)]
      /\ unsent' = [unsent EXCEPT ![r] = @ \ {d}]
      /\ load' = [load EXCEPT ![r][d] = {}]
      /\ pc' = pc /\ tick' = tick /\ at' = at /\ expected' = expected
      /\ result' = result /\ cache' = cache
  BY DEF Send
<1>2. /\ new \in Messages /\ new.from = r /\ new.time = tick[r] /\ tick[r] \in Int
      /\ chan[d] \in Seq(Messages) /\ chan'[d] = Append(chan[d], new)
      /\ \A q \in Ranks : q # d => chan'[q] = chan[q]
  <2>1. load[r][d] \in SUBSET Vehicles /\ tick[r] \in Int /\ chan[d] \in Seq(Messages)
    BY <1>0 DEF TypeOK
  <2>2. new \in Messages /\ new.from = r /\ new.time = tick[r]
    BY <2>1 DEF Messages
  <2> QED
    BY <2>1, <2>2, <1>0, <1>1 DEF TypeOK
<1> HIDE DEF new
<1>3. /\ chan'[d] \in Seq(Messages) /\ Len(chan[d]) \in Nat
      /\ Len(chan'[d]) = Len(chan[d]) + 1
      /\ \A i \in 1..Len(chan[d]) : chan'[d][i] = chan[d][i]
      /\ chan'[d][Len(chan[d]) + 1] = new
  BY <1>2, AppendFacts
<1>4. TypeOK'
  <2>1. unsent' \in [Ranks -> SUBSET Ranks] /\ load' \in [Ranks -> [Ranks -> SUBSET Vehicles]]
    BY <1>0, <1>1 DEF TypeOK
  <2>2. chan' \in [Ranks -> Seq(Messages)]
    BY <1>0, <1>1, <1>2, <1>3 DEF TypeOK
  <2> QED
    BY <2>1, <2>2, <1>0, <1>1 DEF TypeOK
<1>5. /\ \A q \in Ranks : InExchange(q)' <=> InExchange(q)
      /\ \A q, n \in Ranks : NextDue(q, n)' = NextDue(q, n)
  BY <1>1 DEF InExchange, NextDue
<1>6. /\ \A s, q \in Ranks : LastSent(s, q) \in Int
      /\ \A s, q \in Ranks : s # r \/ q # d => LastSent(s, q)' = LastSent(s, q)
      /\ LastSent(r, d) = tick[r] - 1 /\ LastSent(r, d)' = tick[r]
  <2>1. \A s, q \in Ranks : LastSent(s, q) \in Int
    <3>1. \A s \in Ranks : tick[s] \in Int
      BY <1>0 DEF TypeOK
    <3> QED
      BY <3>1 DEF LastSent
  <2>2. \A s, q \in Ranks : s # r \/ q # d => (q \in unsent'[s] <=> q \in unsent[s])
    BY <1>0, <1>1 DEF TypeOK
  <2>3. d \notin unsent'[r]
    BY <1>0, <1>1 DEF TypeOK
  <2>4. \A s, q \in Ranks : s # r \/ q # d => LastSent(s, q)' = LastSent(s, q)
    BY <2>2, <1>1 DEF LastSent
  <2>5. LastSent(r, d) = tick[r] - 1 /\ LastSent(r, d)' = tick[r]
    BY <2>3, <1>1 DEF LastSent
  <2> QED
    BY <2>1, <2>4, <2>5
<1>7. ASSUME r \in Nbr[d]
      PROVE  \A i \in 1..Len(chan[d]) : chan[d][i].from = r => chan[d][i].time < tick[r]
  <2>1. \A i \in 1..Len(chan[d]) : chan[d][i].from = r => chan[d][i].time <= LastSent(r, d)
    BY <1>7 DEF SyncInv, SentBound
  <2>2. \A i \in 1..Len(chan[d]) : chan[d][i].time \in Int
    BY <1>0, MessageFacts
  <2>3. LastSent(r, d) = tick[r] - 1 /\ tick[r] \in Int
    BY <1>2, <1>6
  <2> QED
    BY <2>1, <2>2, <2>3
<1>8. ASSUME r \in Nbr[d] PROVE \A m \in cache[d] : m.from = r => m.time < tick[r]
  <2>1. \A m \in cache[d] : m.from = r => m.time <= LastSent(r, d)
    BY <1>8 DEF SyncInv, SentBound
  <2>2. \A m \in cache[d] : m.time \in Int
    BY <1>0, MessageFacts
  <2> QED
    BY SMTT(30), <2>1, <2>2, <1>2, <1>6
<1>9. SentBound'
  <2> SUFFICES ASSUME NEW q \in Ranks, NEW s \in Nbr[q]
               PROVE  (/\ \A i \in 1..Len(chan[q]) :
                           chan[q][i].from = s => chan[q][i].time <= LastSent(s, q)
                       /\ \A m \in cache[q] : m.from = s => m.time <= LastSent(s, q))'
    BY DEF SentBound
  <2>1. /\ \A i \in 1..Len(chan[q]) :
             chan[q][i].from = s => chan[q][i].time <= LastSent(s, q)
        /\ \A m \in cache[q] : m.from = s => m.time <= LastSent(s, q)
    BY DEF SyncInv, SentBound
  <2>2. /\ \A i \in 1..Len(chan[q]) : chan[q][i].time \in Int
        /\ \A m \in cache[q] : m.time \in Int
    BY <1>0, MessageFacts
  <2>3. LastSent(s, q) \in Int /\ LastSent(s, q)' \in Int /\ LastSent(s, q)' >= LastSent(s, q)
    <3>1. CASE s = r /\ q = d
      BY <3>1, <1>2, <1>6
    <3>2. CASE s # r \/ q # d
      BY <3>2, <1>6
    <3> QED
      BY <3>1, <3>2
  <2>4. \A m \in cache'[q] : m.from = s => m.time <= LastSent(s, q)'
    BY <2>1, <2>2, <2>3, <1>1
  <2>5. \A i \in 1..Len(chan[q]) : chan[q][i].from = s => chan[q][i].time <= LastSent(s, q)'
    BY <2>1, <2>2, <2>3
  <2>6. \A i \in 1..Len(chan'[q]) :
          chan'[q][i].from = s => chan'[q][i].time <= LastSent(s, q)'
    <3>1. CASE q # d
      BY <2>5, <3>1, <1>2
    <3>2. CASE q = d
      <4>1. new.from = s => new.time <= LastSent(s, q)'
        BY <3>2, <1>2, <1>6
      <4> QED
        BY <2>5, <3>2, <4>1, <1>3
    <3> QED
      BY <3>1, <3>2
  <2> QED
    BY <2>4, <2>6
<1>10. FifoOrder'
  <2> SUFFICES ASSUME NEW q \in Ranks, NEW n \in Nbr[q]
               PROVE  (/\ \A i, j \in 1..Len(chan[q]) :
                            i < j /\ chan[q][i].from = n /\ chan[q][j].from = n
                              => chan[q][i].time < chan[q][j].time
                       /\ \A m \in cache[q] : \A i \in 1..Len(chan[q]) :
                            m.from = n /\ chan[q][i].from = n => m.time < chan[q][i].time
                       /\ \A m, k \in cache[q] :
                            m.from = n /\ k.from = n /\ m.time = k.time => m = k)'
    BY DEF FifoOrder
  <2>1. CASE q # d
    <3>1. chan'[q] = chan[q] /\ cache'[q] = cache[q]
      BY <2>1, <1>1, <1>2
    <3> QED
      BY <3>1 DEF SyncInv, FifoOrder
  <2>2. CASE q = d
    <3>1. /\ \A i, j \in 1..Len(chan[d]) :
               i < j /\ chan[d][i].from = n /\ chan[d][j].from = n
                 => chan[d][i].time < chan[d][j].time
          /\ \A m \in cache[d] : \A i \in 1..Len(chan[d]) :
               m.from = n /\ chan[d][i].from = n => m.time < chan[d][i].time
          /\ \A m, k \in cache[d] : m.from = n /\ k.from = n /\ m.time = k.time => m = k
      BY <2>2 DEF SyncInv, FifoOrder
    <3>2. \A i, j \in 1..Len(chan'[d]) :
            i < j /\ chan'[d][i].from = n /\ chan'[d][j].from = n
              => chan'[d][i].time < chan'[d][j].time
      <4> SUFFICES ASSUME NEW i \in 1..Len(chan'[d]), NEW j \in 1..Len(chan'[d]), i < j,
                          chan'[d][i].from = n, chan'[d][j].from = n
                   PROVE  chan'[d][i].time < chan'[d][j].time
        OBVIOUS
      <4>1. i \in 1..Len(chan[d]) /\ chan'[d][i] = chan[d][i]
        BY <1>3
      <4>2. CASE j \in 1..Len(chan[d])
        BY <3>1, <4>1, <4>2, <1>3
      <4>3. CASE j = Len(chan[d]) + 1
        BY <2>2, <4>1, <4>3, <1>2, <1>3, <1>7
      <4> QED
        BY <4>2, <4>3, <1>3
    <3>3. \A m \in cache[d] : \A i \in 1..Len(chan'[d]) :
            m.from = n /\ chan'[d][i].from = n => m.time < chan'[d][i].time
      BY <2>2, <3>1, <1>2, <1>3, <1>8
    <3> QED
      BY <2>2, <3>1, <3>2, <3>3, <1>1
  <2> QED
    BY <2>1, <2>2
<1>11. NothingOverdue'
  <2> SUFFICES ASSUME NEW q \in Ranks, NEW n \in Nbr[q]
               PROVE  (/\ \A i \in 1..Len(chan[q]) :
                            chan[q][i].from = n => chan[q][i].time >= NextDue(q, n)
                       /\ \A m \in cache[q] : m.from = n => m.time >= NextDue(q, n))'
    BY DEF NothingOverdue
  <2>1. /\ \A i \in 1..Len(chan[q]) :
             chan[q][i].from = n => chan[q][i].time >= NextDue(q, n)
        /\ \A m \in cache[q] : m.from = n => m.time >= NextDue(q, n)
    BY DEF SyncInv, NothingOverdue
  <2>2. CASE q # d
    BY <2>1, <2>2, <1>1, <1>2, <1>5
  <2>3. CASE q = d
    <3>1. n = r => NextDue(q, n) <= tick[r]
      <4>1. ASSUME n = r PROVE NextDue(q, n) - 1 <= LastSent(n, q)
        BY DEF SyncInv, SentInTime
      <4>2. NextDue(q, n) \in Int
        BY <1>0 DEF NextDue, TypeOK
      <4> QED
        BY <4>1, <4>2, <2>3, <1>2, <1>6
    <3> QED
      BY <2>1, <2>3, <3>1, <1>1, <1>2, <1>3, <1>5
  <2> QED
    BY <2>2, <2>3
<1>12. HeapLater'
  BY <1>1, <1>5 DEF SyncInv, HeapLater
<1>13. NothingMissing'
  <2> SUFFICES ASSUME NEW q \in Ranks, NEW n \in Nbr[q],
                      NEW t \in NextDue(q, n)' .. LastSent(n, q)'
               PROVE  \/ \E i \in 1..Len(chan'[q]) :
                            chan'[q][i].from = n /\ chan'[q][i].time = t
                      \/ \E m \in cache'[q] : m.from = n /\ m.time = t
    BY DEF NothingMissing
  <2>1. CASE n = r /\ q = d /\ t = tick[r]
    BY <2>1, <1>2, <1>3
  <2>2. CASE ~(n = r /\ q = d /\ t = tick[r])
    <3>1. t \in NextDue(q, n) .. LastSent(n, q)
      <4>1. NextDue(q, n) \in Int
        BY <1>0 DEF NextDue, TypeOK
      <4>2. CASE n = r /\ q = d
        BY <4>1, <4>2, <2>2, <1>2, <1>5, <1>6
      <4>3. CASE n # r \/ q # d
        BY <4>3, <1>5, <1>6
      <4> QED
        BY <4>2, <4>3
    <3>2. \/ \E i \in 1..Len(chan[q]) : chan[q][i].from = n /\ chan[q][i].time = t
          \/ \E m \in cache[q] : m.from = n /\ m.time = t
      BY <3>1 DEF SyncInv, NothingMissing
    <3>3. \A i \in 1..Len(chan[q]) : i \in 1..Len(chan'[q]) /\ chan'[q][i] = chan[q][i]
      <4>1. CASE q = d
        BY <4>1, <1>3
      <4>2. CASE q # d
        BY <4>2, <1>2
      <4> QED
        BY <4>1, <4>2
    <3> QED
      BY <3>2, <3>3, <1>1
  <2> QED
    BY <2>1, <2>2
<1>14. SentInTime'
  <2> SUFFICES ASSUME NEW q \in Ranks, NEW n \in Nbr[q]
               PROVE  NextDue(q, n)' - 1 <= LastSent(n, q)'
    BY DEF SentInTime
  <2>1. NextDue(q, n)' = NextDue(q, n) /\ NextDue(q, n) - 1 <= LastSent(n, q)
    BY <1>5 DEF SyncInv, SentInTime
  <2>2. NextDue(q, n) \in Int
    BY <1>0 DEF NextDue, TypeOK
  <2>3. CASE n = r /\ q = d
    BY <2>1, <2>2, <2>3, <1>2, <1>6
  <2>4. CASE n # r \/ q # d
    BY <2>1, <2>4, <1>6
  <2> QED
    BY <2>3, <2>4
<1>15. SendsToAll' /\ BarrierInv'
  <2>1. \A q \in Ranks : q # r => unsent'[q] = unsent[q]
    BY <1>0, <1>1 DEF TypeOK
  <2> QED
    BY <2>1, <1>1 DEF SyncInv, SendsToAll, BarrierInv
<1>16. KnownSenders'
  <2> SUFFICES ASSUME NEW q \in Ranks
               PROVE  (/\ unsent[q] \subseteq Nbr[q] \cup Reach[q]
                       /\ \A i \in 1..Len(chan[q]) :
                            q \in Nbr[chan[q][i].from] \cup Reach[chan[q][i].from]
                       /\ \A m \in cache[q] : q \in Nbr[m.from] \cup Reach[m.from])'
    BY DEF KnownSenders
  <2>1. /\ unsent[q] \subseteq Nbr[q] \cup Reach[q]
        /\ \A i \in 1..Len(chan[q]) :
             q \in Nbr[chan[q][i].from] \cup Reach[chan[q][i].from]
        /\ \A m \in cache[q] : q \in Nbr[m.from] \cup Reach[m.from]
        /\ d \in Nbr[r] \cup Reach[r]
    BY <1>1 DEF SyncInv, KnownSenders
  <2>2. unsent'[q] \subseteq unsent[q]
    BY <1>0, <1>1 DEF TypeOK
  <2>3. CASE q # d
    BY <2>1, <2>2, <2>3, <1>1, <1>2
  <2>4. CASE q = d
    BY SMTT(30), <2>1, <2>2, <2>4, <1>1, <1>2, <1>3
  <2> QED
    BY <2>3, <2>4
<1>17. NeighbourMessagesOnTime'
  BY <1>1, <1>5 DEF SyncInv, NeighbourMessagesOnTime
<1> QED
  BY <1>4, <1>9, <1>10, <1>11, <1>12, <1>13, <1>14, <1>15, <1>16, <1>17 DEF SyncInv

\* A receive keeps the invariant: a neighbour's message of this tick settles the
\* neighbour, a message of a later tick goes from the channel to the heap.
LEMMA RecvInv ==
  ASSUME SyncInv, NEW r \in Ranks, Recv(r)
  PROVE  SyncInv'
<1> USE RanksAssumption, ReachAssumption, TickAssumption
<1> DEFINE h == Head(chan[r])
<1>0. TypeOK
  BY DEF SyncInv
<1>1. /\ pc[r] = "exchange" /\ unsent[r] = {} /\ chan[r] # <<>>
      /\ chan' = [chan EXCEPT ![r] = Tail(@)]
      /\ expected' = [expected EXCEPT ![r] = IF h.time = tick[r] THEN @ \ {h.from} ELSE @]
      /\ h.time <= tick[r] => /\ result' = [result EXCEPT ![r] = @ \cup {h}]
                              /\ cache' = cache
      /\ ~(h.time <= tick[r]) => /\ cache' = [cache EXCEPT ![r] = @ \cup {h}]
                                 /\ result' = result
      /\ pc' = pc /\ tick' = tick /\ at' = at /\ unsent' = unsent /\ load' = load
  BY DEF Recv, HandleIncoming
<1>2. /\ Len(chan[r]) \in Nat /\ Len(chan[r]) >= 1
      /\ h = chan[r][1] /\ h \in Messages
      /\ chan'[r] = Tail(chan[r]) /\ chan'[r] \in Seq(Messages)
      /\ Len(chan'[r]) = Len(chan[r]) - 1
      /\ \A i \in 1..Len(chan'[r]) : i + 1 \in 1..Len(chan[r]) /\ chan'[r][i] = chan[r][i + 1]
  <2>1. chan[r] \in Seq(Messages) /\ chan'[r] = Tail(chan[r])
    BY <1>0, <1>1 DEF TypeOK
  <2> QED
    BY <2>1, <1>1, TailFacts
<1> HIDE DEF h
<1>3. h.time \in Int /\ h.from \in Ranks /\ tick[r] \in Int
  BY <1>0, <1>2 DEF TypeOK, Messages
<1>4. /\ \A q \in Ranks : q # r => /\ chan'[q] = chan[q] /\ cache'[q] = cache[q]
                                  /\ expected'[q] = expected[q] /\ result'[q] = result[q]
      /\ expected'[r] = IF h.time = tick[r] THEN expected[r] \ {h.from} ELSE expected[r]
      /\ h.time <= tick[r] => cache'[r] = cache[r] /\ result'[r] = result[r] \cup {h}
      /\ ~(h.time <= tick[r]) => cache'[r] = cache[r] \cup {h} /\ result'[r] = result[r]
  BY <1>0, <1>1 DEF TypeOK
<1>5. TypeOK'
  <2>1. chan' \in [Ranks -> Seq(Messages)]
    BY <1>0, <1>1, <1>2 DEF TypeOK
  <2>2. expected' \in [Ranks -> SUBSET Ranks] /\ \A q \in Ranks : expected'[q] \subseteq Nbr[q]
    BY <1>0, <1>1, <1>3 DEF TypeOK
  <2>3. result' \in [Ranks -> SUBSET Messages] /\ cache' \in [Ranks -> SUBSET Messages]
    <3>1. /\ result \in [Ranks -> SUBSET Messages] /\ cache \in [Ranks -> SUBSET Messages]
          /\ result[r] \cup {h} \in SUBSET Messages /\ cache[r] \cup {h} \in SUBSET Messages
      BY <1>0, <1>2 DEF TypeOK
    <3>2. CASE h.time <= tick[r]
      <4>1. result' = [result EXCEPT ![r] = result[r] \cup {h}] /\ cache' = cache
        BY <3>2, <1>1
      <4> QED
        BY <3>1, <4>1
    <3>3. CASE ~(h.time <= tick[r])
      <4>1. cache' = [cache EXCEPT ![r] = cache[r] \cup {h}] /\ result' = result
        BY <3>3, <1>1
      <4> QED
        BY <3>1, <4>1
    <3> QED
      BY <3>2, <3>3
  <2> QED
    BY <2>1, <2>2, <2>3, <1>0, <1>1 DEF TypeOK
<1>6. /\ \A q \in Ranks : InExchange(q)' <=> InExchange(q)
      /\ InExchange(r)
      /\ \A s, q \in Ranks : LastSent(s, q)' = LastSent(s, q) /\ LastSent(s, q) \in Int
  BY <1>0, <1>1 DEF InExchange, LastSent, TypeOK
<1>7. /\ \A q, n \in Ranks : q # r \/ h.time # tick[r] \/ n # h.from =>
                               NextDue(q, n)' = NextDue(q, n)
      /\ \A q, n \in Ranks : NextDue(q, n) \in Int /\ NextDue(q, n)' \in Int
      /\ \A n \in Ranks : n = h.from /\ h.time = tick[r] => NextDue(r, n)' = tick[r] + 1
      /\ \A n \in Ranks : NextDue(r, n) = IF n \in expected[r] THEN tick[r] ELSE tick[r] + 1
  <2>1. \A q, n \in Ranks :
          /\ NextDue(q, n) = IF InExchange(q) /\ n \notin expected[q]
                               THEN tick[q] + 1 ELSE tick[q]
          /\ NextDue(q, n)' = IF InExchange(q) /\ n \notin expected'[q]
                                THEN tick[q] + 1 ELSE tick[q]
    BY <1>1, <1>6 DEF NextDue
  <2>2. \A q \in Ranks : tick[q] \in Int
    BY <1>0 DEF TypeOK
  <2>3. \A q, n \in Ranks : q # r \/ h.time # tick[r] \/ n # h.from =>
                              (n \in expected'[q] <=> n \in expected[q])
    BY <1>4
  <2>4. h.time = tick[r] => h.from \notin expected'[r]
    BY <1>4
  <2> QED
    BY <2>1, <2>2, <2>3, <2>4, <1>6
<1>8. h.from \in Nbr[r] => h.time <= LastSent(h.from, r)
  BY <1>2, <1>3 DEF SyncInv, SentBound
\* The order of the sender's other messages relative to the head.
<1>9. ASSUME h.from \in Nbr[r]
      PROVE  /\ \A i \in 1..Len(chan'[r]) : chan'[r][i].from = h.from => h.time < chan'[r][i].time
             /\ \A m \in cache[r] : m.from = h.from => m.time < h.time
  <2>1. /\ \A i, j \in 1..Len(chan[r]) :
             i < j /\ chan[r][i].from = h.from /\ chan[r][j].from = h.from
               => chan[r][i].time < chan[r][j].time
        /\ \A m \in cache[r] : \A i \in 1..Len(chan[r]) :
             m.from = h.from /\ chan[r][i].from = h.from => m.time < chan[r][i].time
    BY <1>9 DEF SyncInv, FifoOrder
  <2>2. 1 \in 1..Len(chan[r])
    BY <1>2
  <2>3. \A i \in 1..Len(chan'[r]) : 1 < i + 1
    BY <1>2
  <2> QED
    BY <2>1, <2>2, <2>3, <1>2
<1>10. \A m \in cache[r] : m.time > tick[r]
  BY <1>6 DEF SyncInv, HeapLater
\* From a neighbour, the head is never of an earlier tick.
<1>11. h.from \in Nbr[r] => /\ h.time >= NextDue(r, h.from) /\ h.time >= tick[r]
                            /\ h.time = tick[r] => h.from \in expected[r]
  <2>1. h.from \in Nbr[r] => h.time >= NextDue(r, h.from)
    BY <1>2 DEF SyncInv, NothingOverdue
  <2> QED
    BY <2>1, <1>3, <1>7
<1>12. SentBound'
  <2> SUFFICES ASSUME NEW q \in Ranks, NEW s \in Nbr[q]
               PROVE  (/\ \A i \in 1..Len(chan[q]) :
                           chan[q][i].from = s => chan[q][i].time <= LastSent(s, q)
                       /\ \A m \in cache[q] : m.from = s => m.time <= LastSent(s, q))'
    BY DEF SentBound
  <2>1. /\ \A i \in 1..Len(chan[q]) :
             chan[q][i].from = s => chan[q][i].time <= LastSent(s, q)
        /\ \A m \in cache[q] : m.from = s => m.time <= LastSent(s, q)
    BY DEF SyncInv, SentBound
  <2>2. LastSent(s, q)' = LastSent(s, q)
    BY <1>6
  <2>3. CASE q # r
    <3>1. chan'[q] = chan[q] /\ cache'[q] = cache[q]
      BY <2>3, <1>4
    <3> QED
      BY <2>1, <2>2, <3>1
  <2>4. CASE q = r
    <3>1. \A i \in 1..Len(chan'[q]) :
            chan'[q][i].from = s => chan'[q][i].time <= LastSent(s, q)'
      BY <2>1, <2>2, <2>4, <1>2
    <3>2. \A m \in cache'[q] : m.from = s => m.time <= LastSent(s, q)'
      BY <2>1, <2>2, <2>4, <1>4, <1>8
    <3> QED
      BY <3>1, <3>2
  <2> QED
    BY <2>3, <2>4
<1>13. FifoOrder'
  <2> SUFFICES ASSUME NEW q \in Ranks, NEW n \in Nbr[q]
               PROVE  (/\ \A i, j \in 1..Len(chan[q]) :
                            i < j /\ chan[q][i].from = n /\ chan[q][j].from = n
                              => chan[q][i].time < chan[q][j].time
                       /\ \A m \in cache[q] : \A i \in 1..Len(chan[q]) :
                            m.from = n /\ chan[q][i].from = n => m.time < chan[q][i].time
                       /\ \A m, k \in cache[q] :
                            m.from = n /\ k.from = n /\ m.time = k.time => m = k)'
    BY DEF FifoOrder
  <2>1. CASE q # r
    <3>1. chan'[q] = chan[q] /\ cache'[q] = cache[q]
      BY <2>1, <1>4
    <3> QED
      BY <3>1 DEF SyncInv, FifoOrder
  <2>2. CASE q = r
    <3>1. /\ \A i, j \in 1..Len(chan[r]) :
               i < j /\ chan[r][i].from = n /\ chan[r][j].from = n
                 => chan[r][i].time < chan[r][j].time
          /\ \A m \in cache[r] : \A i \in 1..Len(chan[r]) :
               m.from = n /\ chan[r][i].from = n => m.time < chan[r][i].time
          /\ \A m, k \in cache[r] : m.from = n /\ k.from = n /\ m.time = k.time => m = k
      BY <2>2 DEF SyncInv, FifoOrder
    <3>2. \A i, j \in 1..Len(chan'[r]) :
            i < j /\ chan'[r][i].from = n /\ chan'[r][j].from = n
              => chan'[r][i].time < chan'[r][j].time
      <4> SUFFICES ASSUME NEW i \in 1..Len(chan'[r]), NEW j \in 1..Len(chan'[r]), i < j,
                          chan'[r][i].from = n, chan'[r][j].from = n
                   PROVE  chan'[r][i].time < chan'[r][j].time
        OBVIOUS
      <4>1. i + 1 < j + 1
        BY <1>2
      <4>2. /\ i + 1 \in 1..Len(chan[r]) /\ chan'[r][i] = chan[r][i + 1]
            /\ j + 1 \in 1..Len(chan[r]) /\ chan'[r][j] = chan[r][j + 1]
        BY <1>2
      <4>3. chan[r][i + 1].from = chan[r][j + 1].from
        BY <4>2
      <4>4. chan[r][i + 1].time < chan[r][j + 1].time
        BY <3>1, <4>1, <4>2, <4>3
      <4> QED
        BY <4>2, <4>4
    <3>3. \A m \in cache'[r] : \A i \in 1..Len(chan'[r]) :
            m.from = n /\ chan'[r][i].from = n => m.time < chan'[r][i].time
      BY <2>2, <3>1, <1>2, <1>4, <1>9
    <3>4. \A m, k \in cache'[r] : m.from = n /\ k.from = n /\ m.time = k.time => m = k
      <4>1. h.from = n => \A m \in cache[r] : m.from = h.from => m.time # h.time
        BY <1>0, <1>3, <1>9, <2>2, MessageFacts
      <4> QED
        BY <3>1, <4>1, <1>4
    <3> QED
      BY <2>2, <3>2, <3>3, <3>4
  <2> QED
    BY <2>1, <2>2
<1>14. NothingOverdue'
  <2> SUFFICES ASSUME NEW q \in Ranks, NEW n \in Nbr[q]
               PROVE  (/\ \A i \in 1..Len(chan[q]) :
                            chan[q][i].from = n => chan[q][i].time >= NextDue(q, n)
                       /\ \A m \in cache[q] : m.from = n => m.time >= NextDue(q, n))'
    BY DEF NothingOverdue
  <2>1. /\ \A i \in 1..Len(chan[q]) :
             chan[q][i].from = n => chan[q][i].time >= NextDue(q, n)
        /\ \A m \in cache[q] : m.from = n => m.time >= NextDue(q, n)
    BY DEF SyncInv, NothingOverdue
  <2>2. CASE q # r
    <3>1. chan'[q] = chan[q] /\ cache'[q] = cache[q] /\ NextDue(q, n)' = NextDue(q, n)
      BY <2>2, <1>4, <1>7
    <3> QED
      BY <2>1, <3>1
  <2>3. CASE q = r /\ h.time = tick[r] /\ n = h.from
    <3>1. NextDue(q, n)' = tick[r] + 1 /\ cache'[r] = cache[r]
      BY <2>3, <1>3, <1>4, <1>7
    <3>2. \A i \in 1..Len(chan'[r]) : chan'[r][i].time \in Int
      BY <1>0, <1>2, MessageFacts
    <3>3. \A m \in cache[r] : m.time \in Int
      BY <1>0, MessageFacts
    <3>4. \A i \in 1..Len(chan'[r]) : chan'[r][i].from = n => chan'[r][i].time >= tick[r] + 1
      BY <2>3, <3>2, <1>3, <1>9
    <3>5. \A m \in cache[r] : m.time >= tick[r] + 1
      BY <3>3, <1>3, <1>10
    <3> QED
      BY <2>3, <3>1, <3>4, <3>5
  <2>4. CASE q = r /\ (h.time # tick[r] \/ n # h.from)
    <3>1. NextDue(q, n)' = NextDue(q, n)
      BY <2>4, <1>7
    <3>2. \A i \in 1..Len(chan'[r]) : chan'[r][i].from = n => chan'[r][i].time >= NextDue(q, n)
      BY <2>1, <2>4, <1>2
    <3>3. h.from = n => h.time >= NextDue(q, n)
      BY <2>4, <1>11
    <3>4. \A m \in cache'[r] : m.from = n => m.time >= NextDue(q, n)
      BY <2>1, <2>4, <3>3, <1>4
    <3> QED
      BY <2>4, <3>1, <3>2, <3>4
  <2> QED
    BY <2>2, <2>3, <2>4
<1>15. HeapLater'
  <2>1. \A m \in cache'[r] : m.time > tick[r]
    BY <1>3, <1>4, <1>10
  <2> QED
    BY <2>1, <1>1, <1>4, <1>6 DEF SyncInv, HeapLater
<1>16. NothingMissing'
  <2> SUFFICES ASSUME NEW q \in Ranks, NEW n \in Nbr[q],
                      NEW t \in NextDue(q, n)' .. LastSent(n, q)'
               PROVE  \/ \E i \in 1..Len(chan'[q]) :
                            chan'[q][i].from = n /\ chan'[q][i].time = t
                      \/ \E m \in cache'[q] : m.from = n /\ m.time = t
    BY DEF NothingMissing
  <2>1. t \in NextDue(q, n) .. LastSent(n, q)
    <3>1. LastSent(n, q)' = LastSent(n, q) /\ NextDue(q, n) \in Int
      BY <1>6, <1>7
    <3>2. NextDue(q, n) <= NextDue(q, n)'
      <4>1. CASE q # r \/ h.time # tick[r] \/ n # h.from
        BY <4>1, <1>7
      <4>2. CASE q = r /\ h.time = tick[r] /\ n = h.from
        BY <4>2, <1>3, <1>7
      <4> QED
        BY <4>1, <4>2
    <3>3. NextDue(q, n)' \in Int
      BY <1>7
    <3> QED
      BY <3>1, <3>2, <3>3
  <2>2. \/ \E i \in 1..Len(chan[q]) : chan[q][i].from = n /\ chan[q][i].time = t
        \/ \E m \in cache[q] : m.from = n /\ m.time = t
    BY <2>1 DEF SyncInv, NothingMissing
  <2>3. CASE q # r
    <3>1. chan'[q] = chan[q] /\ cache'[q] = cache[q]
      BY <2>3, <1>4
    <3> QED
      BY <2>2, <3>1
  <2>4. CASE q = r
    <3>1. cache[r] \subseteq cache'[r]
      BY <1>4
    <3>2. ASSUME NEW i \in 1..Len(chan[r]), chan[r][i].from = n, chan[r][i].time = t
          PROVE  \/ \E j \in 1..Len(chan'[r]) : chan'[r][j].from = n /\ chan'[r][j].time = t
                 \/ \E m \in cache'[r] : m.from = n /\ m.time = t
      <4>1. CASE i > 1
        <5>1. i - 1 \in 1..Len(chan'[r]) /\ (i - 1) + 1 = i
          BY <4>1, <1>2
        <5>2. chan'[r][i - 1] = chan[r][i]
          BY <5>1, <1>2
        <5> QED
          BY <5>1, <5>2, <3>2
      <4>2. CASE i = 1
        <5>1. h.from = n /\ h.time = t
          BY <4>2, <3>2, <1>2
        <5>2. h.time # tick[r]
          <6>1. h.time = tick[r] => NextDue(q, n)' = tick[r] + 1
            BY <5>1, <2>4, <1>7
          <6>2. LastSent(n, q)' \in Int
            BY <1>6
          <6> QED
            BY <6>1, <6>2, <5>1, <1>3
        <5>3. ~(h.time <= tick[r])
          BY <5>1, <5>2, <2>4, <1>3, <1>11
        <5> QED
          BY <5>1, <5>3, <1>4
      <4> QED
        BY <4>1, <4>2
    <3> QED
      BY <2>2, <2>4, <3>1, <3>2
  <2> QED
    BY <2>3, <2>4
<1>17. SentInTime'
  <2> SUFFICES ASSUME NEW q \in Ranks, NEW n \in Nbr[q]
               PROVE  NextDue(q, n)' - 1 <= LastSent(n, q)'
    BY DEF SentInTime
  <2>1. NextDue(q, n) - 1 <= LastSent(n, q) /\ LastSent(n, q)' = LastSent(n, q)
    BY <1>6 DEF SyncInv, SentInTime
  <2>2. CASE q # r \/ h.time # tick[r] \/ n # h.from
    BY <2>1, <2>2, <1>7
  <2>3. CASE q = r /\ h.time = tick[r] /\ n = h.from
    BY <2>1, <2>3, <1>3, <1>6, <1>7, <1>8
  <2> QED
    BY <2>2, <2>3
<1>18. SendsToAll' /\ BarrierInv'
  BY <1>1 DEF SyncInv, SendsToAll, BarrierInv
<1>19. KnownSenders'
  <2> SUFFICES ASSUME NEW q \in Ranks
               PROVE  (/\ unsent[q] \subseteq Nbr[q] \cup Reach[q]
                       /\ \A i \in 1..Len(chan[q]) :
                            q \in Nbr[chan[q][i].from] \cup Reach[chan[q][i].from]
                       /\ \A m \in cache[q] : q \in Nbr[m.from] \cup Reach[m.from])'
    BY DEF KnownSenders
  <2>1. /\ unsent[q] \subseteq Nbr[q] \cup Reach[q]
        /\ \A i \in 1..Len(chan[q]) :
             q \in Nbr[chan[q][i].from] \cup Reach[chan[q][i].from]
        /\ \A m \in cache[q] : q \in Nbr[m.from] \cup Reach[m.from]
    BY DEF SyncInv, KnownSenders
  <2>2. CASE q # r
    BY <2>1, <2>2, <1>1, <1>4
  <2>3. CASE q = r
    <3>1. q \in Nbr[h.from] \cup Reach[h.from]
      BY <2>1, <2>3, <1>2
    <3> QED
      BY SMTT(30), <2>1, <2>3, <3>1, <1>1, <1>2, <1>4
  <2> QED
    BY <2>2, <2>3
<1>20. NeighbourMessagesOnTime'
  <2> SUFFICES ASSUME NEW q \in Ranks, InExchange(q)', NEW n \in Nbr[q]
               PROVE  IF n \in expected'[q]
                        THEN {m \in result'[q] : m.from = n} = {}
                        ELSE \E m \in {m \in result'[q] : m.from = n} :
                               {k \in result'[q] : k.from = n} = {m} /\ m.time = tick'[q]
    BY DEF NeighbourMessagesOnTime
  <2>1. IF n \in expected[q]
          THEN {m \in result[q] : m.from = n} = {}
          ELSE \E m \in {m \in result[q] : m.from = n} :
                 {k \in result[q] : k.from = n} = {m} /\ m.time = tick[q]
    BY <1>6 DEF SyncInv, NeighbourMessagesOnTime
  <2>2. CASE q # r
    BY <2>1, <2>2, <1>1, <1>4
  <2>3. CASE q = r /\ n # h.from
    <3>1. {m \in result'[q] : m.from = n} = {m \in result[q] : m.from = n}
      BY <2>3, <1>4
    <3>2. n \in expected'[q] <=> n \in expected[q]
      BY <2>3, <1>4
    <3> QED
      BY <2>1, <3>1, <3>2, <1>1
  <2>4. CASE q = r /\ n = h.from /\ h.time = tick[r]
    <3>1. n \in expected[q] /\ n \notin expected'[q] /\ result'[q] = result[q] \cup {h}
      BY <2>4, <1>3, <1>4, <1>11
    <3>2. {m \in result'[q] : m.from = n} = {h}
      BY <2>1, <2>4, <3>1
    <3> QED
      BY <2>4, <3>1, <3>2, <1>1
  <2>5. CASE q = r /\ n = h.from /\ h.time # tick[r]
    <3>1. ~(h.time <= tick[r])
      BY <2>5, <1>3, <1>11
    <3> QED
      BY <2>1, <2>5, <3>1, <1>1, <1>4
  <2> QED
    BY <2>2, <2>3, <2>4, <2>5
<1> QED
  BY <1>5, <1>12, <1>13, <1>14, <1>15, <1>16, <1>17, <1>18, <1>19, <1>20 DEF SyncInv

LEMMA UnchangedInv ==
  ASSUME SyncInv, UNCHANGED vars
  PROVE  SyncInv'
<1>1. /\ pc' = pc /\ tick' = tick /\ at' = at /\ unsent' = unsent /\ load' = load
      /\ expected' = expected /\ result' = result /\ cache' = cache /\ chan' = chan
  BY DEF vars
<1>2. \A r, q \in Ranks : /\ InExchange(r)' <=> InExchange(r)
                         /\ LastSent(r, q)' = LastSent(r, q)
                         /\ NextDue(r, q)' = NextDue(r, q)
  BY <1>1 DEF InExchange, LastSent, NextDue
<1>3. TypeOK'
  BY <1>1 DEF SyncInv, TypeOK
<1>4. SentBound' /\ FifoOrder'
  BY <1>1, <1>2, RanksAssumption DEF SyncInv, SentBound, FifoOrder
<1>5. NothingOverdue' /\ NothingMissing' /\ SentInTime'
  BY <1>1, <1>2, RanksAssumption DEF SyncInv, NothingOverdue, NothingMissing, SentInTime
<1>6. HeapLater' /\ SendsToAll' /\ BarrierInv' /\ KnownSenders'
  BY <1>1, <1>2 DEF SyncInv, HeapLater, SendsToAll, BarrierInv, KnownSenders
<1>7. NeighbourMessagesOnTime'
  BY <1>1, <1>2 DEF SyncInv, NeighbourMessagesOnTime
<1> QED
  BY <1>3, <1>4, <1>5, <1>6, <1>7 DEF SyncInv

\* SyncInv holds in every reachable state.
THEOREM SyncInvariant == Spec => []SyncInv
<1>1. Init => SyncInv
  BY InitBegins, InitInv
<1>2. SyncInv /\ [Next]_vars => SyncInv'
  <2> SUFFICES ASSUME SyncInv, [Next]_vars PROVE SyncInv'
    OBVIOUS
  <2>1. ASSUME NEW r \in Ranks, Step(r) PROVE SyncInv'
    BY <2>1, StepInv
  <2>2. ASSUME NEW r \in Ranks, BarrierWait(r) PROVE SyncInv'
    BY <2>2, BarrierWaitInv
  <2>3. ASSUME NEW r \in Ranks, NEW d \in Ranks, Send(r, d) PROVE SyncInv'
    BY <2>3, SendInv
  <2>4. ASSUME NEW r \in Ranks, Recv(r) PROVE SyncInv'
    BY <2>4, RecvInv
  <2>5. ASSUME NEW r \in Ranks, EndStep(r) PROVE SyncInv'
    BY <2>5, EndStepInv
  <2>6. CASE UNCHANGED vars
    BY <2>6, UnchangedInv
  <2> QED
    BY <2>1, <2>2, <2>3, <2>4, <2>5, <2>6 DEF Next, RankNext, Terminated
<1> QED
  BY <1>1, <1>2, PTL DEF Spec

\* Type correctness, the end of the loop over the ticks included.
THEOREM TypeCorrect == Spec => []TypeOK
<1>1. SyncInv => TypeOK
  BY DEF SyncInv
<1> QED
  BY <1>1, SyncInvariant, PTL

\* send_recv returns exactly the current message of every neighbour, whatever the
\* threads' relative speed.
THEOREM MessagesOnTime == Spec => []NeighbourMessagesOnTime
<1>1. SyncInv => NeighbourMessagesOnTime
  BY DEF SyncInv
<1> QED
  BY <1>1, SyncInvariant, PTL

\* Neighbouring ranks are at most one tick apart.
THEOREM SkewBounded == Spec => []NeighbourSkew
<1>1. SyncInv => NeighbourSkew
  <2> SUFFICES ASSUME SyncInv, NEW r \in Ranks, NEW n \in Nbr[r]
               PROVE  tick[r] <= tick[n] + 1
    BY DEF NeighbourSkew
  <2>1. n \in Ranks /\ tick[r] \in Int /\ tick[n] \in Int
    BY RanksAssumption DEF SyncInv, TypeOK
  <2>2. NextDue(r, n) - 1 <= LastSent(n, r)
    BY DEF SyncInv, SentInTime
  <2> QED
    BY <2>1, <2>2 DEF NextDue, LastSent
<1> QED
  BY <1>1, SyncInvariant, PTL

\* No rank waits for a message that it has already taken or that was never sent.
THEOREM WaitsAreJustified == Spec => []WaitJustified
<1>1. SyncInv => WaitJustified
  <2> SUFFICES ASSUME SyncInv, NEW r \in Ranks, InExchange(r), NEW n \in expected[r],
                      ~(LastSent(n, r) < tick[r])
               PROVE  \E i \in 1..Len(chan[r]) :
                        chan[r][i].from = n /\ chan[r][i].time = tick[r]
    BY DEF WaitJustified
  <2>1. n \in Nbr[r] /\ n \in Ranks /\ tick[r] \in Int /\ tick[n] \in Int
    BY RanksAssumption DEF SyncInv, TypeOK
  <2>2. tick[r] \in NextDue(r, n) .. LastSent(n, r)
    BY <2>1 DEF NextDue, LastSent
  <2>3. \A m \in cache[r] : m.time # tick[r]
    BY <2>1 DEF SyncInv, HeapLater
  <2> QED
    BY <2>1, <2>2, <2>3 DEF SyncInv, NothingMissing
<1> QED
  BY <1>1, SyncInvariant, PTL

\* The heap of early messages holds at most one message per neighbour.
THEOREM HeapIsBounded == Spec => []HeapBounded
<1>1. SyncInv => HeapBounded
  <2> SUFFICES ASSUME SyncInv, NEW r \in Ranks, NEW m \in cache[r], m.from \in Nbr[r]
               PROVE  /\ m.time <= tick[r] + 1
                      /\ \A k \in cache[r] : k.from = m.from => k = m
    BY DEF HeapBounded
  <2>0. TypeOK
    BY DEF SyncInv
  <2> DEFINE n == m.from
  <2>1. n \in Ranks /\ r \in Nbr[n] /\ tick[r] \in Int /\ tick[n] \in Int
        /\ \A k \in cache[r] : k.time \in Int
    BY <2>0, RanksAssumption, MessageFacts DEF TypeOK
  <2>2. \A k \in cache[r] : k.from = n => k.time <= LastSent(n, r) /\ k.time >= NextDue(r, n)
    BY <2>1 DEF SyncInv, SentBound, NothingOverdue
  <2>3. NextDue(n, r) - 1 <= LastSent(r, n)
    BY <2>1 DEF SyncInv, SentInTime
  <2>4. /\ InExchange(r) => LastSent(n, r) <= tick[r] + 1 /\ NextDue(r, n) >= tick[r]
        /\ InExchange(r) => \A k \in cache[r] : k.time > tick[r]
        /\ ~InExchange(r) => LastSent(n, r) <= tick[r] /\ NextDue(r, n) = tick[r]
    <3>1. tick[n] <= tick[r] + 1
      BY <2>1, <2>3 DEF NextDue, LastSent
    <3>2. InExchange(r) => \A k \in cache[r] : k.time > tick[r]
      BY DEF SyncInv, HeapLater
    <3>3. ~InExchange(r) => LastSent(r, n) = tick[r] - 1
      BY DEF LastSent, InExchange
    <3>4. ~InExchange(r) => LastSent(n, r) <= tick[r]
      BY <3>1, <3>3, <2>1, <2>3 DEF LastSent, NextDue, InExchange
    <3> QED
      BY <3>1, <3>2, <3>4, <2>1 DEF LastSent, NextDue
  <2>5. LastSent(n, r) \in Int /\ NextDue(r, n) \in Int
    BY <2>1 DEF LastSent, NextDue
  <2>6. \A k \in cache[r] : k.from = n => k.time = m.time /\ m.time <= tick[r] + 1
    BY <2>1, <2>2, <2>4, <2>5
  <2> QED
    BY <2>6 DEF SyncInv, FifoOrder
<1> QED
  BY <1>1, SyncInvariant, PTL

\* No message of a neighbour is left in the channels and heaps of a finished run, so
\* that without teleported legs the next iteration starts with empty ones.
THEOREM NothingIsLeftBehind == Spec => []NothingLeftBehind
<1>1. SyncInv => NothingLeftBehind
  <2> SUFFICES ASSUME SyncInv, \A q \in Ranks : pc[q] = "done", NEW r \in Ranks
               PROVE  /\ \A m \in cache[r] : m.from \notin Nbr[r]
                      /\ \A i \in 1..Len(chan[r]) : chan[r][i].from \notin Nbr[r]
    BY DEF NothingLeftBehind, AllDone
  <2>0. TypeOK
    BY DEF SyncInv
  <2>1. \A n \in Nbr[r] : NextDue(r, n) > LastSent(n, r)
    <3> SUFFICES ASSUME NEW n \in Nbr[r] PROVE NextDue(r, n) > LastSent(n, r)
      OBVIOUS
    <3>1. n \in Ranks /\ tick[r] \in Int /\ tick[n] \in Int /\ tick[r] > EndTick
          /\ tick[r] >= StartTick /\ (tick[n] = StartTick \/ tick[n] <= EndTick + 1)
      BY <2>0, RanksAssumption, TickAssumption DEF TypeOK
    <3>2. NextDue(r, n) = tick[r] /\ LastSent(n, r) = tick[n] - 1
      BY <3>1 DEF NextDue, LastSent, InExchange
    <3> QED
      BY <3>1, <3>2, TickAssumption
  <2>2. \A n \in Nbr[r] : NextDue(r, n) \in Int /\ LastSent(n, r) \in Int
    BY <2>0, RanksAssumption DEF TypeOK, NextDue, LastSent
  <2>3. ASSUME NEW m \in cache[r], m.from \in Nbr[r] PROVE FALSE
    <3>1. m.from \in Ranks /\ m.time \in Int
      BY <2>0, <2>3, MessageFacts, RanksAssumption DEF SyncInv, KnownSenders
    <3>2. m.time <= LastSent(m.from, r) /\ m.time >= NextDue(r, m.from)
      BY <3>1, <2>3 DEF SyncInv, SentBound, NothingOverdue
    <3> QED
      BY <3>1, <3>2, <2>1, <2>2, <2>3
  <2>4. ASSUME NEW i \in 1..Len(chan[r]), chan[r][i].from \in Nbr[r] PROVE FALSE
    <3> DEFINE m == chan[r][i]
    <3>2. m.from \in Ranks /\ m.time \in Int
      BY <2>0, <2>4, MessageFacts, RanksAssumption DEF SyncInv, KnownSenders
    <3>3. m.time <= LastSent(m.from, r) /\ m.time >= NextDue(r, m.from)
      BY <3>2, <2>4 DEF SyncInv, SentBound, NothingOverdue
    <3> QED
      BY <3>2, <3>3, <2>1, <2>2, <2>4
  <2> QED
    BY <2>3, <2>4
<1> QED
  BY <1>1, SyncInvariant, PTL

\* The protocol implements TickSync: a rank completes a tick only when all its
\* peers, by messages or by the barrier, have reached it.
THEOREM Refinement == Spec => ImplementsTickSync
<1>1. Init => Abstract!Init
  BY DEF Init, Abstract!Init
<1>2. SyncInv /\ [Next]_vars => [Abstract!Next]_tick
  <2> SUFFICES ASSUME SyncInv, [Next]_vars PROVE [Abstract!Next]_tick
    OBVIOUS
  <2>1. ASSUME NEW r \in Ranks, EndStep(r) PROVE Abstract!Next
    <3>0. TypeOK /\ pc[r] = "exchange" /\ expected[r] = {}
      BY <2>1 DEF SyncInv, EndStep
    <3>1. tick[r] <= EndTick /\ tick' = [tick EXCEPT ![r] = @ + 1]
      BY <2>1, <3>0, TickAssumption DEF TypeOK, EndStep
    <3>2. ASSUME NEW p \in Peers[r] PROVE tick[p] >= tick[r]
      <4>1. CASE GlobalSync
        <5>1. p \in Ranks /\ tick[p] \in Int /\ tick[r] \in Int
          BY <3>0, <4>1 DEF Peers, TypeOK
        <5> QED
          BY <5>1, <3>0, <4>1 DEF SyncInv, BarrierInv
      <4>2. CASE ~GlobalSync
        <5>1. p \in Nbr[r] /\ p \in Ranks /\ tick[p] \in Int /\ tick[r] \in Int
          BY <3>0, <4>2, RanksAssumption DEF Peers, TypeOK
        <5>2. NextDue(r, p) = tick[r] + 1
          BY <3>0 DEF NextDue, InExchange
        <5>3. NextDue(r, p) - 1 <= LastSent(p, r)
          BY <5>1 DEF SyncInv, SentInTime
        <5> QED
          BY <5>1, <5>2, <5>3 DEF LastSent
      <4> QED
        BY <4>1, <4>2
    <3> QED
      BY <3>1, <3>2 DEF Abstract!Next, Abstract!Advance
  <2>2. ASSUME NEW r \in Ranks, Step(r) \/ BarrierWait(r) \/ Recv(r) PROVE tick' = tick
    BY <2>2 DEF Step, BarrierWait, Recv
  <2>3. ASSUME NEW r \in Ranks, NEW d \in Ranks, Send(r, d) PROVE tick' = tick
    BY <2>3 DEF Send
  <2>4. CASE UNCHANGED vars
    BY <2>4 DEF vars
  <2> QED
    BY <2>1, <2>2, <2>3, <2>4 DEF Next, RankNext, Terminated
<1> QED
  BY <1>1, <1>2, SyncInvariant, PTL DEF Spec, ImplementsTickSync, Abstract!Spec
-----------------------------------------------------------------------------
(* global_sync.                                                             *)

\* With global_sync no message, whoever sent it, is ahead of the tick of any rank.
NoneAhead ==
  GlobalSync =>
    \A r, s \in Ranks : \A i \in 1..Len(chan[r]) :
      chan[r][i].time <= (IF pc[s] = "exchange" THEN tick[s] ELSE tick[s] - 1)

OrderInv == ChannelInOrder /\ GlobalSyncLateness /\ NoneAhead

\* With global_sync no rank has sent for a later tick than one that is in the exchange,
\* and nobody is settled before the barrier opens.
LEMMA BarrierFacts ==
  ASSUME SyncInv, GlobalSync, NEW r \in Ranks
  PROVE  /\ tick[r] \in Int
         /\ \A s, q \in Ranks : pc[r] = "exchange" => LastSent(s, q) <= tick[r]
         /\ \A s \in Ranks : pc[s] = "exchange" => tick[s] >= tick[r] - 1
         /\ \A n \in Nbr[r] : NextDue(r, n) \in {tick[r], tick[r] + 1}
         /\ pc[r] # "exchange" => \A n \in Nbr[r] : NextDue(r, n) = tick[r]
<1> USE RanksAssumption, TickAssumption
<1>1. TypeOK /\ BarrierInv /\ SentInTime
  BY DEF SyncInv
<1>2. \A s \in Ranks : tick[s] \in Int
  BY <1>1 DEF TypeOK
<1>3. \A s, q \in Ranks : pc[r] = "exchange" => LastSent(s, q) <= tick[r]
  BY <1>1, <1>2 DEF BarrierInv, LastSent
<1>4. \A s \in Ranks : pc[s] = "exchange" => tick[s] >= tick[r] - 1
  BY <1>1, <1>2 DEF BarrierInv
<1>5. \A n \in Nbr[r] : NextDue(r, n) \in {tick[r], tick[r] + 1}
  BY <1>2 DEF NextDue
<1>6. ASSUME pc[r] # "exchange", NEW n \in Nbr[r] PROVE NextDue(r, n) = tick[r]
  <2>1. n \in Ranks
    OBVIOUS
  <2>2. NextDue(r, n) - 1 <= LastSent(n, r)
    BY <1>1 DEF SentInTime
  <2>3. LastSent(n, r) < tick[r]
    BY <1>1, <1>2, <1>6, <2>1 DEF BarrierInv, LastSent
  <2> QED
    BY <1>2, <1>5, <2>1, <2>2, <2>3 DEF LastSent
<1> QED
  BY <1>2, <1>3, <1>4, <1>5, <1>6

\* Steps that leave channels and heaps alone.
LEMMA OrderStep ==
  ASSUME SyncInv, SyncInv', OrderInv, NEW r \in Ranks, Step(r)
  PROVE  OrderInv'
<1> USE RanksAssumption, TickAssumption
<1> SUFFICES ASSUME GlobalSync PROVE OrderInv'
  BY DEF OrderInv, ChannelInOrder, GlobalSyncLateness, NoneAhead
<1>1. TypeOK
  BY DEF SyncInv
<1>2. \A q \in Ranks : cache[q] = {}
  BY DEF OrderInv, GlobalSyncLateness
<1>3. /\ tick' = tick /\ chan' = chan
      /\ cache' = cache
      /\ result' = [result EXCEPT ![r] = {}]
      /\ pc[r] # "exchange" /\ pc'[r] # "exchange"
      /\ \A q \in Ranks : q # r => pc'[q] = pc[q] /\ expected'[q] = expected[q]
  <2>1. {m \in cache[r] : m.time <= tick[r]} = {}
    BY <1>2
  <2>2. /\ result' = [result EXCEPT ![r] = {}] /\ cache' = [cache EXCEPT ![r] = @ \ {}]
        /\ expected' = [expected EXCEPT ![r] = Nbr[r] \ {m.from : m \in {}}]
    BY <2>1 DEF Step, PopFromCache
  <2>3. cache' = cache
    BY <1>1, <2>2 DEF TypeOK
  <2>4. /\ pc[r] = "step" /\ pc' = [pc EXCEPT ![r] = "barrier"]
        /\ tick' = tick /\ chan' = chan
    BY DEF Step
  <2>5. \A q \in Ranks : q # r => pc'[q] = pc[q] /\ expected'[q] = expected[q]
    BY <1>1, <2>2, <2>4 DEF TypeOK
  <2> QED
    BY <1>1, <2>2, <2>3, <2>4, <2>5 DEF TypeOK
<1>4. GlobalSyncLateness'
  BY <1>1, <1>2, <1>3 DEF OrderInv, GlobalSyncLateness, TypeOK
<1>5. \A q \in Ranks : \A n \in Nbr[q] : NextDue(q, n)' = NextDue(q, n)
  <2>1. \A n \in Nbr[r] : NextDue(r, n) = tick[r]
    BY <1>3, BarrierFacts
  <2>2. ASSUME NEW n \in Nbr[r] PROVE NextDue(r, n)' = tick[r]
    <3>1. expected'[r] = Nbr[r]
      BY <1>1, <1>2 DEF Step, PopFromCache, TypeOK
    <3> QED
      BY <3>1, <1>3 DEF NextDue
  <2>3. \A q \in Ranks : q # r => \A n \in Nbr[q] : NextDue(q, n)' = NextDue(q, n)
    BY <1>3 DEF NextDue, InExchange
  <2> QED
    BY <2>1, <2>2, <2>3
<1>6. ChannelInOrder'
  BY <1>3, <1>5 DEF OrderInv, ChannelInOrder
<1>7. NoneAhead'
  BY <1>3 DEF OrderInv, NoneAhead
<1> QED
  BY <1>4, <1>6, <1>7 DEF OrderInv

LEMMA OrderBarrier ==
  ASSUME SyncInv, OrderInv, NEW r \in Ranks, BarrierWait(r)
  PROVE  OrderInv'
<1> SUFFICES ASSUME GlobalSync PROVE OrderInv'
  BY DEF OrderInv, ChannelInOrder, GlobalSyncLateness, NoneAhead
<1>1. TypeOK
  BY DEF SyncInv
<1>2. /\ tick' = tick /\ chan' = chan /\ cache' = cache /\ result' = result
      /\ expected' = expected
  BY DEF BarrierWait
<1>3. \A q \in Ranks : InExchange(q)' <=> InExchange(q)
  BY <1>1 DEF BarrierWait, InExchange, TypeOK
<1>4. \A q \in Ranks : \A n \in Nbr[q] : NextDue(q, n)' = NextDue(q, n)
  BY <1>2, <1>3 DEF NextDue
<1>5. GlobalSyncLateness'
  BY <1>2 DEF OrderInv, GlobalSyncLateness
<1>6. ChannelInOrder'
  BY <1>2, <1>4 DEF OrderInv, ChannelInOrder
<1>7. NoneAhead'
  <2>1. \A s \in Ranks : pc[s] = "exchange" => pc'[s] = "exchange"
    BY <1>1 DEF BarrierWait, TypeOK
  <2>2. ASSUME NEW q \in Ranks, NEW s \in Ranks, NEW i \in 1..Len(chan[q])
        PROVE  chan[q][i].time <= (IF pc'[s] = "exchange" THEN tick[s] ELSE tick[s] - 1)
    <3>1. chan[q][i].time \in Int /\ tick[s] \in Int
      BY <1>1, MessageFacts
    <3>2. chan[q][i].time <= (IF pc[s] = "exchange" THEN tick[s] ELSE tick[s] - 1)
      BY DEF OrderInv, NoneAhead
    <3> QED
      BY <2>1, <3>1, <3>2
  <2> QED
    BY <1>2, <2>2 DEF NoneAhead
<1> QED
  BY <1>5, <1>6, <1>7 DEF OrderInv

\* A message that is sent is not older than what is in the channel.
LEMMA OrderSend ==
  ASSUME SyncInv, OrderInv, NEW r \in Ranks, NEW d \in Ranks, Send(r, d)
  PROVE  OrderInv'
<1> USE RanksAssumption, TickAssumption
<1> SUFFICES ASSUME GlobalSync PROVE OrderInv'
  BY DEF OrderInv, ChannelInOrder, GlobalSyncLateness, NoneAhead
<1> DEFINE new == [from |-> r, time |-> tick[r], vehs |-> load[r][d]]
<1>1. TypeOK
  BY DEF SyncInv
<1>2. /\ pc[r] = "exchange" /\ pc' = pc /\ tick' = tick /\ expected' = expected
      /\ result' = result /\ cache' = cache
      /\ chan' = [chan EXCEPT ![d] = Append(@, new)]
  BY DEF Send
<1>3. chan[d] \in Seq(Messages) /\ new \in Messages /\ tick[r] \in Int
  <2>1. load[r] \in [Ranks -> SUBSET Vehicles] /\ load[r][d] \in SUBSET Vehicles
    BY <1>1 DEF TypeOK
  <2> QED
    BY <1>1, <2>1 DEF TypeOK, Messages
<1>4. /\ chan'[d] = Append(chan[d], new)
      /\ \A q \in Ranks : q # d => chan'[q] = chan[q]
  BY <1>1, <1>2 DEF TypeOK
<1>5. new.time = tick[r]
  OBVIOUS
<1> HIDE DEF new
<1>6. /\ Len(chan[d]) \in Nat /\ Len(chan'[d]) = Len(chan[d]) + 1
      /\ \A i \in 1..Len(chan[d]) : chan'[d][i] = chan[d][i] /\ chan[d][i] \in Messages
      /\ chan'[d][Len(chan[d]) + 1] = new
  BY <1>3, <1>4, AppendFacts
<1>7. \A q \in Ranks : \A n \in Nbr[q] : NextDue(q, n)' = NextDue(q, n)
  BY <1>2 DEF NextDue, InExchange
<1>8. GlobalSyncLateness'
  BY <1>2 DEF OrderInv, GlobalSyncLateness
<1>9. \A i \in 1..Len(chan[d]) : chan[d][i].time \in Int /\ chan[d][i].time <= tick[r]
  <2> SUFFICES ASSUME NEW i \in 1..Len(chan[d])
               PROVE  chan[d][i].time \in Int /\ chan[d][i].time <= tick[r]
    OBVIOUS
  <2>1. chan[d][i].time \in Int
    BY <1>6 DEF Messages
  <2>2. chan[d][i].time <= tick[r]
    BY <1>2 DEF OrderInv, NoneAhead
  <2> QED
    BY <2>1, <2>2
<1>10. \A n \in Nbr[d] : tick[r] >= NextDue(d, n) - 1
  <2>1. tick[d] \in Int /\ tick[r] >= tick[d] - 1
    BY <1>2, BarrierFacts
  <2>2. \A n \in Nbr[d] : NextDue(d, n) \in {tick[d], tick[d] + 1}
    BY BarrierFacts
  <2>3. pc[d] = "exchange" => tick[d] = tick[r]
    BY <1>2 DEF SyncInv, BarrierInv
  <2>4. pc[d] # "exchange" => \A n \in Nbr[d] : NextDue(d, n) = tick[d]
    BY BarrierFacts
  <2> QED
    BY <1>3, <2>1, <2>2, <2>3, <2>4
<1>11. ASSUME NEW q \in Ranks
       PROVE  /\ \A i, j \in 1..Len(chan'[q]) : i < j => chan'[q][i].time <= chan'[q][j].time
              /\ \A i \in 1..Len(chan'[q]), n \in Nbr[q] :
                   chan'[q][i].time >= NextDue(q, n) - 1
  <2>1. CASE q = d
    <3>1. ASSUME NEW i \in 1..Len(chan'[d]), NEW j \in 1..Len(chan'[d]), i < j
          PROVE  chan'[d][i].time <= chan'[d][j].time
      <4>1. i \in 1..Len(chan[d]) /\ (j \in 1..Len(chan[d]) \/ j = Len(chan[d]) + 1)
        BY <1>6, <3>1
      <4>2. CASE j \in 1..Len(chan[d])
        BY <1>6, <3>1, <4>1, <4>2 DEF OrderInv, ChannelInOrder
      <4>3. CASE j = Len(chan[d]) + 1
        BY <1>5, <1>6, <1>9, <4>1, <4>3
      <4> QED
        BY <4>1, <4>2, <4>3
    <3>2. ASSUME NEW i \in 1..Len(chan'[d]), NEW n \in Nbr[d]
          PROVE  chan'[d][i].time >= NextDue(d, n) - 1
      <4>1. CASE i \in 1..Len(chan[d])
        BY <1>6, <4>1 DEF OrderInv, ChannelInOrder
      <4>2. CASE i = Len(chan[d]) + 1
        BY <1>5, <1>6, <1>10, <4>2
      <4> QED
        BY <1>6, <4>1, <4>2
    <3> QED
      BY <2>1, <3>1, <3>2
  <2>2. CASE q # d
    BY <1>4, <2>2 DEF OrderInv, ChannelInOrder
  <2> QED
    BY <2>1, <2>2
<1>12. ChannelInOrder'
  BY <1>7, <1>11 DEF ChannelInOrder
<1>13. NoneAhead'
  <2> SUFFICES ASSUME NEW q \in Ranks, NEW s \in Ranks, NEW i \in 1..Len(chan'[q])
               PROVE  chan'[q][i].time <= (IF pc[s] = "exchange" THEN tick[s] ELSE tick[s] - 1)
    BY <1>2 DEF NoneAhead
  <2>1. CASE q = d /\ i = Len(chan[d]) + 1
    <3>1. /\ tick[s] \in Int
          /\ pc[s] = "exchange" => tick[s] = tick[r]
          /\ pc[s] # "exchange" => tick[s] = tick[r] + 1
      BY <1>1, <1>2 DEF SyncInv, BarrierInv, TypeOK
    <3> QED
      BY <1>3, <1>5, <1>6, <2>1, <3>1
  <2>2. CASE ~(q = d /\ i = Len(chan[d]) + 1)
    <3>1. i \in 1..Len(chan[q]) /\ chan'[q][i] = chan[q][i]
      BY <1>4, <1>6, <2>2
    <3> QED
      BY <3>1 DEF OrderInv, NoneAhead
  <2> QED
    BY <2>1, <2>2
<1> QED
  BY <1>8, <1>12, <1>13 DEF OrderInv

\* What is received was sent in this tick or the last one, and with a neighbour's
\* message of this tick everything older has been taken.
LEMMA OrderRecv ==
  ASSUME SyncInv, OrderInv, NEW r \in Ranks, Recv(r)
  PROVE  OrderInv'
<1> USE RanksAssumption, TickAssumption
<1> SUFFICES ASSUME GlobalSync PROVE OrderInv'
  BY DEF OrderInv, ChannelInOrder, GlobalSyncLateness, NoneAhead
<1> DEFINE h == Head(chan[r])
<1>1. TypeOK
  BY DEF SyncInv
<1>2. /\ pc[r] = "exchange" /\ expected[r] # {} /\ chan[r] # <<>>
      /\ chan' = [chan EXCEPT ![r] = Tail(@)]
      /\ expected' = [expected EXCEPT ![r] = IF h.time = tick[r] THEN @ \ {h.from} ELSE @]
      /\ h.time <= tick[r] => /\ result' = [result EXCEPT ![r] = @ \cup {h}]
                              /\ cache' = cache
      /\ pc' = pc /\ tick' = tick
  BY DEF Recv, HandleIncoming
<1>3. chan[r] \in Seq(Messages) /\ chan'[r] = Tail(chan[r])
  BY <1>1, <1>2 DEF TypeOK
<1>4. /\ Len(chan[r]) \in Nat /\ Len(chan[r]) >= 1 /\ h = chan[r][1] /\ h \in Messages
      /\ Len(chan'[r]) = Len(chan[r]) - 1
      /\ \A i \in 1..Len(chan'[r]) : i + 1 \in 1..Len(chan[r]) /\ chan'[r][i] = chan[r][i + 1]
  <2>1. /\ Len(chan[r]) \in Nat /\ Len(chan[r]) >= 1
        /\ Head(chan[r]) = chan[r][1] /\ chan[r][1] \in Messages
        /\ Len(Tail(chan[r])) = Len(chan[r]) - 1
        /\ \A i \in 1..Len(Tail(chan[r])) :
             i + 1 \in 1..Len(chan[r]) /\ Tail(chan[r])[i] = chan[r][i + 1]
    BY <1>2, <1>3, TailFacts
  <2> QED
    BY <1>3, <2>1, Zenon
<1> HIDE DEF h
<1>5. h.time \in Int /\ h.from \in Ranks /\ tick[r] \in Int
  BY <1>1, <1>4 DEF Messages, TypeOK
<1>6. h.time <= tick[r]
  <2>1. 1 \in 1..Len(chan[r])
    BY <1>4
  <2> QED
    BY <1>2, <1>4, <2>1 DEF OrderInv, NoneAhead
<1>7. h.time >= tick[r] - 1
  <2>1. PICK n \in expected[r] : TRUE
    BY <1>2
  <2>2. n \in Nbr[r] /\ NextDue(r, n) = tick[r]
    BY <1>1, <2>1 DEF TypeOK, NextDue
  <2> QED
    BY <1>4, <2>2 DEF OrderInv, ChannelInOrder
<1>8. GlobalSyncLateness'
  <2>1. result' = [result EXCEPT ![r] = result[r] \cup {h}] /\ cache' = cache
    BY <1>2, <1>6
  <2>2. \A q \in Ranks : result'[q] = IF q = r THEN result[r] \cup {h} ELSE result[q]
    BY <1>1, <2>1 DEF TypeOK
  <2>3. h.time \in {tick[r] - 1, tick[r]}
    BY <1>5, <1>6, <1>7
  <2> QED
    BY <1>2, <2>1, <2>2, <2>3 DEF OrderInv, GlobalSyncLateness
<1>9. \A q \in Ranks : q # r => /\ chan'[q] = chan[q]
                                /\ \A n \in Nbr[q] : NextDue(q, n)' = NextDue(q, n)
  BY <1>1, <1>2 DEF NextDue, InExchange, TypeOK
<1>10. \A n \in Nbr[r] : \/ NextDue(r, n)' = NextDue(r, n)
                         \/ NextDue(r, n)' = tick[r] + 1 /\ h.time = tick[r]
  <2>1. expected'[r] = IF h.time = tick[r] THEN expected[r] \ {h.from} ELSE expected[r]
    BY <1>1, <1>2 DEF TypeOK
  <2> QED
    BY <1>2, <2>1 DEF NextDue, InExchange
<1>11. ASSUME NEW i \in 1..Len(chan'[r])
       PROVE  chan'[r][i].time \in Int /\ chan'[r][i].time >= h.time
  <2>1. i + 1 \in 1..Len(chan[r]) /\ 1 \in 1..Len(chan[r]) /\ 1 < i + 1
    BY <1>4
  <2>2. chan[r][i + 1].time >= chan[r][1].time
    BY <1>1, <2>1, MessageFacts DEF OrderInv, ChannelInOrder
  <2> QED
    BY <1>1, <1>4, <2>1, <2>2, MessageFacts
<1>12. ASSUME NEW i \in 1..Len(chan'[r]), NEW j \in 1..Len(chan'[r]), i < j
       PROVE  chan'[r][i].time <= chan'[r][j].time
  <2>1. /\ i + 1 \in 1..Len(chan[r]) /\ chan'[r][i] = chan[r][i + 1]
        /\ j + 1 \in 1..Len(chan[r]) /\ chan'[r][j] = chan[r][j + 1]
    BY <1>4
  <2>2. i + 1 < j + 1
    BY <1>4, <1>12
  <2> QED
    BY <2>1, <2>2 DEF OrderInv, ChannelInOrder
<1>13. ASSUME NEW i \in 1..Len(chan'[r]), NEW n \in Nbr[r]
       PROVE  chan'[r][i].time >= NextDue(r, n)' - 1
  <2>1. CASE NextDue(r, n)' = NextDue(r, n)
    BY <1>4, <2>1 DEF OrderInv, ChannelInOrder
  <2>2. CASE NextDue(r, n)' = tick[r] + 1 /\ h.time = tick[r]
    BY <1>5, <1>11, <2>2
  <2> QED
    BY <1>10, <2>1, <2>2
<1>14. ChannelInOrder'
  BY <1>9, <1>12, <1>13 DEF OrderInv, ChannelInOrder
<1>15. NoneAhead'
  <2> SUFFICES ASSUME NEW q \in Ranks, NEW s \in Ranks, NEW i \in 1..Len(chan'[q])
               PROVE  chan'[q][i].time <= (IF pc[s] = "exchange" THEN tick[s] ELSE tick[s] - 1)
    BY <1>2 DEF NoneAhead
  <2>1. CASE q = r
    <3>1. i + 1 \in 1..Len(chan[r]) /\ chan'[r][i] = chan[r][i + 1]
      BY <1>4, <2>1
    <3> QED
      BY <2>1, <3>1 DEF OrderInv, NoneAhead
  <2>2. CASE q # r
    BY <1>9, <2>2 DEF OrderInv, NoneAhead
  <2> QED
    BY <2>1, <2>2
<1> QED
  BY <1>8, <1>14, <1>15 DEF OrderInv

LEMMA OrderEndStep ==
  ASSUME SyncInv, OrderInv, NEW r \in Ranks, EndStep(r)
  PROVE  OrderInv'
<1> USE RanksAssumption, TickAssumption
<1> SUFFICES ASSUME GlobalSync PROVE OrderInv'
  BY DEF OrderInv, ChannelInOrder, GlobalSyncLateness, NoneAhead
<1>1. TypeOK
  BY DEF SyncInv
<1>2. /\ pc[r] = "exchange" /\ expected[r] = {} /\ expected' = expected
      /\ chan' = chan /\ cache' = cache /\ result' = [result EXCEPT ![r] = {}]
      /\ tick' = [tick EXCEPT ![r] = @ + 1]
      /\ pc' = [pc EXCEPT ![r] = PhaseAt(tick[r] + 1)]
  BY DEF EndStep
<1>3. GlobalSyncLateness'
  BY <1>1, <1>2 DEF OrderInv, GlobalSyncLateness, TypeOK
<1>4. \A q \in Ranks : \A n \in Nbr[q] : NextDue(q, n)' = NextDue(q, n)
  <2>1. ~InExchange(r)' /\ InExchange(r)
    BY <1>1, <1>2 DEF InExchange, PhaseAt, TypeOK
  <2>2. tick'[r] = tick[r] + 1 /\ \A q \in Ranks : q # r => tick'[q] = tick[q] /\ pc'[q] = pc[q]
    BY <1>1, <1>2 DEF TypeOK
  <2> QED
    BY <1>2, <2>1, <2>2 DEF NextDue, InExchange
<1>5. ChannelInOrder'
  BY <1>2, <1>4 DEF OrderInv, ChannelInOrder
<1>6. NoneAhead'
  <2>1. /\ tick'[r] = tick[r] + 1 /\ tick[r] \in Int /\ pc'[r] # "exchange"
        /\ \A s \in Ranks : s # r => tick'[s] = tick[s] /\ pc'[s] = pc[s]
    BY <1>1, <1>2 DEF TypeOK, PhaseAt
  <2>2. ASSUME NEW q \in Ranks, NEW s \in Ranks, NEW i \in 1..Len(chan[q])
        PROVE  chan[q][i].time <= (IF pc'[s] = "exchange" THEN tick'[s] ELSE tick'[s] - 1)
    <3>1. chan[q][i].time <= (IF pc[s] = "exchange" THEN tick[s] ELSE tick[s] - 1)
      BY DEF OrderInv, NoneAhead
    <3> QED
      BY <1>2, <2>1, <3>1
  <2> QED
    BY <1>2, <2>2 DEF NoneAhead
<1> QED
  BY <1>3, <1>5, <1>6 DEF OrderInv

\* With global_sync a message is never early, and a rank that does not wait for it takes
\* it at the latest one tick after it was sent.
THEOREM LatenessBounded == Spec => []GlobalSyncLateness
<1>1. Init => OrderInv
  BY DEF Init, OrderInv, ChannelInOrder, GlobalSyncLateness, NoneAhead
<1>2. SyncInv /\ SyncInv' /\ OrderInv /\ [Next]_vars => OrderInv'
  <2> SUFFICES ASSUME SyncInv, SyncInv', OrderInv, [Next]_vars PROVE OrderInv'
    OBVIOUS
  <2>1. ASSUME NEW r \in Ranks, RankNext(r) PROVE OrderInv'
    BY <2>1, OrderStep, OrderBarrier, OrderSend, OrderRecv, OrderEndStep DEF RankNext
  <2>2. CASE UNCHANGED vars
    BY <2>2 DEF vars, OrderInv, ChannelInOrder, GlobalSyncLateness, NoneAhead, NextDue, InExchange
  <2> QED
    BY <2>1, <2>2 DEF Next, Terminated
<1>3. OrderInv => GlobalSyncLateness
  BY DEF OrderInv
<1> QED
  BY <1>1, <1>2, <1>3, SyncInvariant, PTL DEF Spec

-----------------------------------------------------------------------------
(* Vehicles.                                                                *)

\* Where a vehicle is, place by place.
LEMMA PlaceFacts ==
  ASSUME NEW v, NEW r
  PROVE  /\ IsIn(v, "engines", r) <=> v \in at[r]
         /\ IsIn(v, "out", r) <=> \E q \in unsent[r] : v \in load[r][q]
         /\ IsIn(v, "channel", r) <=> \E i \in 1..Len(chan[r]) : v \in chan[r][i].vehs
         /\ IsIn(v, "heap", r) <=> \E m \in cache[r] : v \in m.vehs
         /\ IsIn(v, "result", r) <=> \E m \in result[r] : v \in m.vehs
  BY DEF IsIn, InChannel

LEMMA PlaceFactsNext ==
  ASSUME NEW v, NEW r
  PROVE  /\ IsIn(v, "engines", r)' <=> v \in at'[r]
         /\ IsIn(v, "out", r)' <=> \E q \in unsent'[r] : v \in load'[r][q]
         /\ IsIn(v, "channel", r)' <=> \E i \in 1..Len(chan'[r]) : v \in chan'[r][i].vehs
         /\ IsIn(v, "heap", r)' <=> \E m \in cache'[r] : v \in m.vehs
         /\ IsIn(v, "result", r)' <=> \E m \in result'[r] : v \in m.vehs
  BY DEF IsIn, InChannel

\* A vehicle in one place is in no other.
LEMMA OtherPlaces ==
  ASSUME NEW v, InOnePlace(v), NEW p \in Places, NEW r \in Ranks, IsIn(v, p, r),
         NEW o \in Places, NEW s \in Ranks, IsIn(v, o, s)
  PROVE  o = p /\ s = r
  BY DEF InOnePlace

\* A vehicle that stays where it is.
LEMMA Stays ==
  ASSUME NEW v, InOnePlace(v),
         \A p \in Places, r \in Ranks : IsIn(v, p, r)' <=> IsIn(v, p, r)
  PROVE  InOnePlace(v)'
  BY DEF InOnePlace

\* A step that moves no vehicle.
LEMMA Unmoved ==
  ASSUME VehicleInv, NEW v \in Vehicles,
         at' = at, unsent' = unsent, load' = load, chan' = chan, cache' = cache,
         result' = result
  PROVE  InOnePlace(v)'
<1>1. InOnePlace(v)
  BY DEF VehicleInv
<1>2. \A r : /\ IsIn(v, "engines", r)' <=> IsIn(v, "engines", r)
             /\ IsIn(v, "out", r)' <=> IsIn(v, "out", r)
             /\ IsIn(v, "channel", r)' <=> IsIn(v, "channel", r)
             /\ IsIn(v, "heap", r)' <=> IsIn(v, "heap", r)
             /\ IsIn(v, "result", r)' <=> IsIn(v, "result", r)
  BY PlaceFacts, PlaceFactsNext
<1>3. \A p \in Places, r \in Ranks : IsIn(v, p, r)' <=> IsIn(v, p, r)
  BY <1>2 DEF Places
<1> QED
  BY <1>1, <1>3, Stays

\* A vehicle that goes from place p of rank r to place o of rank s.
LEMMA Moves ==
  ASSUME NEW v, InOnePlace(v), NEW p \in Places, NEW r \in Ranks, IsIn(v, p, r),
         NEW o \in Places, NEW s \in Ranks, IsIn(v, o, s)',
         \A k \in Places, q \in Ranks :
           IsIn(v, k, q)' => (k = o /\ q = s) \/ (IsIn(v, k, q) /\ ~(k = p /\ q = r))
  PROVE  InOnePlace(v)'
  BY DEF InOnePlace

\* The engines put a vehicle into one message, the heap gives up whole messages.
LEMMA VehicleStep ==
  ASSUME SyncInv, VehicleInv, NEW r \in Ranks, Step(r)
  PROVE  VehicleInv'
<1> USE RanksAssumption, ReachAssumption
<1> DEFINE due == {m \in cache[r] : m.time <= tick[r]}
<1>1. TypeOK
  BY DEF SyncInv
<1>2. /\ pc[r] = "step" /\ chan' = chan
      /\ pc' = [pc EXCEPT ![r] = IF GlobalSync THEN "barrier" ELSE "exchange"]
      /\ result' = [result EXCEPT ![r] = due]
      /\ cache' = [cache EXCEPT ![r] = @ \ due]
  BY DEF Step, PopFromCache
<1>3. PICK dest \in [at[r] -> Reach[r] \cup {r}] :
      /\ at' = [at EXCEPT ![r] = {v \in at[r] : dest[v] = r}]
      /\ unsent' = [unsent EXCEPT ![r] = Nbr[r] \cup ({dest[v] : v \in at[r]} \ {r})]
      /\ load' = [load EXCEPT ![r] =
                  [q \in Ranks |-> IF q = r THEN {} ELSE {v \in at[r] : dest[v] = q}]]
  BY DEF Step, PrepareSend
<1>4. unsent[r] = {} /\ result[r] = {}
  BY <1>2 DEF VehicleInv, NothingPending
<1>5. /\ at'[r] = {v \in at[r] : dest[v] = r}
      /\ unsent'[r] = Nbr[r] \cup ({dest[v] : v \in at[r]} \ {r})
      /\ \A q \in Ranks : load'[r][q] = IF q = r THEN {} ELSE {v \in at[r] : dest[v] = q}
      /\ result'[r] = due /\ cache'[r] = cache[r] \ due
      /\ pc'[r] \notin {"step", "done"}
  BY <1>1, <1>2, <1>3 DEF TypeOK
<1>6. \A q \in Ranks : q # r =>
        /\ at'[q] = at[q] /\ unsent'[q] = unsent[q] /\ load'[q] = load[q]
        /\ result'[q] = result[q] /\ cache'[q] = cache[q] /\ pc'[q] = pc[q]
  BY <1>1, <1>2, <1>3 DEF TypeOK
<1>7. unsent'[r] \subseteq Ranks
  BY <1>3, <1>5
<1>8. NothingPending'
  BY <1>5, <1>6 DEF VehicleInv, NothingPending
<1>9. ASSUME NEW q \in Ranks, NEW v
       PROVE  v \in load'[r][q] <=> v \in at[r] /\ dest[v] = q /\ q # r
  <2>1. load'[r][q] = IF q = r THEN {} ELSE {u \in at[r] : dest[u] = q}
    BY <1>5
  <2> QED
    BY ONLY <2>1
<1>10. ASSUME NEW v \in Vehicles, NEW q \in Ranks
      PROVE  /\ \A p, d \in unsent'[q] : v \in load'[q][p] /\ v \in load'[q][d] => p = d
             /\ \A m, k \in cache'[q] : v \in m.vehs /\ v \in k.vehs => m = k
  <2>1. CASE q = r
    <3>1. \A p \in unsent'[r] : v \in load'[r][p] => p = dest[v]
      BY <1>7, <1>9
    <3>2. \A m \in cache'[r] : m \in cache[r]
      BY <1>5
    <3>3. \A m, k \in cache[r] : v \in m.vehs /\ v \in k.vehs => m = k
      BY DEF VehicleInv, InOneMessage
    <3> QED
      BY <2>1, <3>1, <3>2, <3>3
  <2>2. CASE q # r
    BY <1>6, <2>2 DEF VehicleInv, InOneMessage
  <2> QED
    BY <2>1, <2>2
<1>11. InOneMessage'
  BY <1>2, <1>10 DEF VehicleInv, InOneMessage
<1>12. ASSUME NEW v \in Vehicles PROVE InOnePlace(v)'
  <2>0. InOnePlace(v)
    BY DEF VehicleInv
  <2>1. \A q \in Ranks, p \in Places : q # r => (IsIn(v, p, q)' <=> IsIn(v, p, q))
    BY <1>2, <1>6 DEF IsIn, InChannel, Places
  <2>2. IsIn(v, "channel", r)' <=> IsIn(v, "channel", r)
    BY <1>2, PlaceFacts, PlaceFactsNext
  <2>3. ~IsIn(v, "out", r) /\ ~IsIn(v, "result", r)
    BY <1>4, PlaceFacts
  <2>4. /\ IsIn(v, "engines", r)' <=> v \in at[r] /\ dest[v] = r
        /\ IsIn(v, "out", r)' <=> v \in at[r] /\ dest[v] # r
    <3>1. v \in at[r] => dest[v] \in Ranks
      BY <1>3
    <3>2. IsIn(v, "engines", r)' <=> v \in at[r] /\ dest[v] = r
      BY <1>5, PlaceFactsNext
    <3>3. ASSUME v \in at[r], dest[v] # r
          PROVE  \E q \in unsent'[r] : v \in load'[r][q]
      <4>1. dest[v] \in unsent'[r] /\ dest[v] \in Ranks
        BY <1>5, <3>1, <3>3
      <4>2. v \in load'[r][dest[v]]
        BY <1>9, <3>3, <4>1
      <4> QED
        BY <4>1, <4>2
    <3>4. ASSUME NEW q \in unsent'[r], v \in load'[r][q]
          PROVE  v \in at[r] /\ dest[v] # r
      BY <1>7, <1>9, <3>4
    <3> QED
      BY <3>2, <3>3, <3>4, PlaceFactsNext
  <2>5. /\ IsIn(v, "result", r)' <=> \E m \in cache[r] : v \in m.vehs /\ m.time <= tick[r]
        /\ IsIn(v, "heap", r)' <=> \E m \in cache[r] : v \in m.vehs /\ ~(m.time <= tick[r])
    BY <1>5, PlaceFactsNext
  <2>6. /\ IsIn(v, "engines", r) <=> v \in at[r]
        /\ IsIn(v, "heap", r) <=> \E m \in cache[r] : v \in m.vehs
    BY PlaceFacts
  <2>7. CASE v \in at[r] /\ dest[v] # r
    <3>1. ~IsIn(v, "heap", r) /\ ~IsIn(v, "channel", r)
      BY <2>0, <2>6, <2>7, OtherPlaces DEF Places
    <3>2. \A k \in Places, q \in Ranks :
            IsIn(v, k, q)' => (k = "out" /\ q = r)
                              \/ (IsIn(v, k, q) /\ ~(k = "engines" /\ q = r))
      BY <2>1, <2>2, <2>4, <2>5, <2>6, <2>7, <3>1 DEF Places
    <3>3. IsIn(v, "engines", r) /\ IsIn(v, "out", r)' /\ "engines" \in Places /\ "out" \in Places
      BY <2>4, <2>6, <2>7 DEF Places
    <3> QED
      BY <2>0, <3>2, <3>3, Moves
  <2>8. CASE \E m \in cache[r] : v \in m.vehs /\ m.time <= tick[r]
    <3>1. IsIn(v, "heap", r) /\ IsIn(v, "result", r)' /\ "heap" \in Places /\ "result" \in Places
      BY <2>5, <2>6, <2>8 DEF Places
    <3>2. ~IsIn(v, "engines", r) /\ ~IsIn(v, "channel", r)
      BY <2>0, <3>1, OtherPlaces DEF Places
    <3>3. ~IsIn(v, "heap", r)'
      BY <2>5, <2>8 DEF VehicleInv, InOneMessage
    <3>4. \A k \in Places, q \in Ranks :
            IsIn(v, k, q)' => (k = "result" /\ q = r)
                              \/ (IsIn(v, k, q) /\ ~(k = "heap" /\ q = r))
      BY <2>1, <2>2, <2>4, <2>6, <3>2, <3>3 DEF Places
    <3> QED
      BY <2>0, <3>1, <3>4, Moves
  <2>9. CASE ~(v \in at[r] /\ dest[v] # r) /\ ~(\E m \in cache[r] : v \in m.vehs /\ m.time <= tick[r])
    <3>1. \A k \in Places, q \in Ranks : IsIn(v, k, q)' <=> IsIn(v, k, q)
      BY <2>1, <2>2, <2>3, <2>4, <2>5, <2>6, <2>9 DEF Places
    <3> QED
      BY <2>0, <3>1, Stays
  <2> QED
    BY <2>7, <2>8, <2>9
<1> QED
  BY <1>8, <1>11, <1>12 DEF VehicleInv

LEMMA VehicleBarrier ==
  ASSUME SyncInv, VehicleInv, NEW r \in Ranks, BarrierWait(r)
  PROVE  VehicleInv'
<1>1. /\ at' = at /\ unsent' = unsent /\ load' = load /\ result' = result
      /\ cache' = cache /\ chan' = chan
  BY DEF BarrierWait
<1>2. \A q \in Ranks : pc'[q] \in {"step", "done"} => pc[q] \in {"step", "done"}
  BY DEF BarrierWait, SyncInv, TypeOK
<1>3. NothingPending' /\ InOneMessage'
  BY <1>1, <1>2 DEF VehicleInv, NothingPending, InOneMessage
<1>4. ASSUME NEW v \in Vehicles PROVE InOnePlace(v)'
  BY <1>1, Unmoved
<1> QED
  BY <1>3, <1>4 DEF VehicleInv

\* A vehicle goes from the message to be sent into the channel, with the message.
LEMMA VehicleSend ==
  ASSUME SyncInv, VehicleInv, NEW r \in Ranks, NEW d \in Ranks, Send(r, d)
  PROVE  VehicleInv'
<1> DEFINE new == [from |-> r, time |-> tick[r], vehs |-> load[r][d]]
<1>1. TypeOK
  BY DEF SyncInv
<1>2. /\ pc[r] = "exchange" /\ pc' = pc /\ at' = at /\ result' = result /\ cache' = cache
      /\ d \in unsent[r] /\ unsent' = [unsent EXCEPT ![r] = @ \ {d}]
      /\ load' = [load EXCEPT ![r][d] = {}]
      /\ chan' = [chan EXCEPT ![d] = Append(@, new)]
  BY DEF Send
<1>3. chan[d] \in Seq(Messages) /\ new \in Messages
  <2>1. load[r] \in [Ranks -> SUBSET Vehicles] /\ load[r][d] \in SUBSET Vehicles
    BY <1>1 DEF TypeOK
  <2> QED
    BY <1>1, <2>1 DEF TypeOK, Messages
<1>4. /\ chan'[d] = Append(chan[d], new)
      /\ \A q \in Ranks : q # d => chan'[q] = chan[q]
  BY <1>1, <1>2 DEF TypeOK
<1>5. new.vehs = load[r][d]
  OBVIOUS
<1> HIDE DEF new
<1>6. /\ Len(chan[d]) \in Nat /\ Len(chan'[d]) = Len(chan[d]) + 1
      /\ \A i \in 1..Len(chan[d]) : chan'[d][i] = chan[d][i]
      /\ chan'[d][Len(chan[d]) + 1] = new
  BY <1>3, <1>4, AppendFacts
<1>7. /\ unsent'[r] = unsent[r] \ {d} /\ unsent[r] \subseteq Ranks
      /\ \A q \in Ranks : q # r => unsent'[q] = unsent[q] /\ load'[q] = load[q]
      /\ \A q \in unsent'[r] : load'[r][q] = load[r][q]
  BY <1>1, <1>2 DEF TypeOK
<1>8. NothingPending'
  BY <1>2, <1>7 DEF VehicleInv, NothingPending
<1>9. ASSUME NEW v \in Vehicles
      PROVE  /\ \A q \in Ranks : \A i, j \in 1..Len(chan'[q]) :
                   v \in chan'[q][i].vehs /\ v \in chan'[q][j].vehs => i = j
             /\ \A q \in Ranks : \A p, k \in unsent'[q] :
                   v \in load'[q][p] /\ v \in load'[q][k] => p = k
             /\ InOnePlace(v)'
  <2>0. InOnePlace(v)
    BY DEF VehicleInv
  <2>1. /\ \A q \in Ranks : \A i, j \in 1..Len(chan[q]) :
             v \in chan[q][i].vehs /\ v \in chan[q][j].vehs => i = j
        /\ \A q \in Ranks : \A p, k \in unsent[q] : v \in load[q][p] /\ v \in load[q][k] => p = k
    BY DEF VehicleInv, InOneMessage
  <2>2. \A q \in Ranks : \A p, k \in unsent'[q] : v \in load'[q][p] /\ v \in load'[q][k] => p = k
    BY <1>7, <2>1
  <2>3. \A q \in Ranks : /\ IsIn(v, "engines", q)' <=> IsIn(v, "engines", q)
                         /\ IsIn(v, "heap", q)' <=> IsIn(v, "heap", q)
                         /\ IsIn(v, "result", q)' <=> IsIn(v, "result", q)
                         /\ q # d => (IsIn(v, "channel", q)' <=> IsIn(v, "channel", q))
                         /\ q # r => (IsIn(v, "out", q)' <=> IsIn(v, "out", q))
    BY <1>2, <1>4, <1>7, PlaceFacts, PlaceFactsNext
  <2>4. IsIn(v, "channel", d)' <=> IsIn(v, "channel", d) \/ v \in load[r][d]
    <3>1. (\E i \in 1..Len(chan'[d]) : v \in chan'[d][i].vehs)
             <=> (\E i \in 1..Len(chan[d]) : v \in chan[d][i].vehs) \/ v \in new.vehs
      BY SMTT(30), <1>6
    <3> QED
      BY <1>5, <3>1, PlaceFacts, PlaceFactsNext
  <2>5. IsIn(v, "out", r)' <=> \E q \in unsent[r] : q # d /\ v \in load[r][q]
    BY <1>7, PlaceFactsNext
  <2>6. IsIn(v, "out", r) <=> \E q \in unsent[r] : v \in load[r][q]
    BY PlaceFacts
  <2>7. CASE v \in load[r][d]
    <3>1. /\ IsIn(v, "out", r) /\ ~IsIn(v, "out", r)' /\ IsIn(v, "channel", d)'
          /\ "out" \in Places /\ "channel" \in Places
      BY <1>2, <2>1, <2>4, <2>5, <2>6, <2>7 DEF Places
    <3>2. ~IsIn(v, "channel", d)
      BY <2>0, <3>1, OtherPlaces
    <3>3. \A k \in Places, q \in Ranks :
            IsIn(v, k, q)' => (k = "channel" /\ q = d)
                              \/ (IsIn(v, k, q) /\ ~(k = "out" /\ q = r))
      BY <2>3, <2>5, <3>1 DEF Places
    <3>4. InOnePlace(v)'
      BY <2>0, <3>1, <3>3, Moves
    <3>5. \A i \in 1..Len(chan[d]) : v \notin chan[d][i].vehs
      BY <3>2, PlaceFacts
    <3>6. \A i, j \in 1..Len(chan'[d]) :
             v \in chan'[d][i].vehs /\ v \in chan'[d][j].vehs => i = j
      <4> SUFFICES ASSUME NEW i \in 1..Len(chan'[d]), NEW j \in 1..Len(chan'[d]),
                          v \in chan'[d][i].vehs, v \in chan'[d][j].vehs
                   PROVE  i = j
        OBVIOUS
      <4>1. i \in 1..Len(chan[d]) \/ i = Len(chan[d]) + 1
        BY <1>6
      <4>2. j \in 1..Len(chan[d]) \/ j = Len(chan[d]) + 1
        BY <1>6
      <4> QED
        BY <1>6, <3>5, <4>1, <4>2
    <3>7. \A q \in Ranks : \A i, j \in 1..Len(chan'[q]) :
             v \in chan'[q][i].vehs /\ v \in chan'[q][j].vehs => i = j
      BY <1>4, <2>1, <3>6
    <3> QED
      BY <2>2, <3>4, <3>7
  <2>8. CASE v \notin load[r][d]
    <3>1. \A k \in Places, q \in Ranks : IsIn(v, k, q)' <=> IsIn(v, k, q)
      BY <2>3, <2>4, <2>5, <2>6, <2>8 DEF Places
    <3>2. InOnePlace(v)'
      BY <2>0, <3>1, Stays
    <3>3. \A i, j \in 1..Len(chan'[d]) :
             v \in chan'[d][i].vehs /\ v \in chan'[d][j].vehs => i = j
      <4> SUFFICES ASSUME NEW i \in 1..Len(chan'[d]), NEW j \in 1..Len(chan'[d]),
                          v \in chan'[d][i].vehs, v \in chan'[d][j].vehs
                   PROVE  i = j
        OBVIOUS
      <4>1. i \in 1..Len(chan[d]) \/ i = Len(chan[d]) + 1
        BY <1>6
      <4>2. j \in 1..Len(chan[d]) \/ j = Len(chan[d]) + 1
        BY <1>6
      <4>3. i # Len(chan[d]) + 1 /\ j # Len(chan[d]) + 1
        BY <1>5, <1>6, <2>8
      <4> QED
        BY <1>6, <2>1, <4>1, <4>2, <4>3
    <3>4. \A q \in Ranks : \A i, j \in 1..Len(chan'[q]) :
             v \in chan'[q][i].vehs /\ v \in chan'[q][j].vehs => i = j
      BY <1>4, <2>1, <3>3
    <3> QED
      BY <2>2, <3>2, <3>4
  <2> QED
    BY <2>7, <2>8
<1>10. InOneMessage'
  BY <1>2, <1>9 DEF VehicleInv, InOneMessage
<1> QED
  BY <1>8, <1>9, <1>10 DEF VehicleInv

\* A vehicle goes from the channel into the result or the heap, with the message.
LEMMA VehicleRecv ==
  ASSUME SyncInv, VehicleInv, NEW r \in Ranks, Recv(r)
  PROVE  VehicleInv'
<1> DEFINE h == Head(chan[r])
<1>1. TypeOK
  BY DEF SyncInv
<1>2. /\ pc[r] = "exchange" /\ chan[r] # <<>>
      /\ chan' = [chan EXCEPT ![r] = Tail(@)]
      /\ h.time <= tick[r] => /\ result' = [result EXCEPT ![r] = @ \cup {h}]
                              /\ cache' = cache
      /\ ~(h.time <= tick[r]) => /\ cache' = [cache EXCEPT ![r] = @ \cup {h}]
                                 /\ result' = result
      /\ pc' = pc /\ at' = at /\ unsent' = unsent /\ load' = load
  BY DEF Recv, HandleIncoming
<1>3. /\ chan[r] \in Seq(Messages) /\ chan'[r] = Tail(chan[r])
      /\ \A q \in Ranks : q # r => chan'[q] = chan[q]
  BY <1>1, <1>2 DEF TypeOK
<1>4. /\ Len(chan[r]) \in Nat /\ Len(chan[r]) >= 1 /\ h = chan[r][1]
      /\ Len(chan'[r]) = Len(chan[r]) - 1
      /\ \A i \in 1..Len(chan'[r]) : i + 1 \in 1..Len(chan[r]) /\ chan'[r][i] = chan[r][i + 1]
  <2>1. /\ Len(chan[r]) \in Nat /\ Len(chan[r]) >= 1
        /\ Head(chan[r]) = chan[r][1]
        /\ Len(Tail(chan[r])) = Len(chan[r]) - 1
        /\ \A i \in 1..Len(Tail(chan[r])) :
             i + 1 \in 1..Len(chan[r]) /\ Tail(chan[r])[i] = chan[r][i + 1]
    BY <1>2, <1>3, TailFacts
  <2> QED
    BY <1>3, <2>1, Zenon
<1> HIDE DEF h
<1>5. /\ \A q \in Ranks : q # r => cache'[q] = cache[q] /\ result'[q] = result[q]
      /\ h.time <= tick[r] => cache'[r] = cache[r] /\ result'[r] = result[r] \cup {h}
      /\ ~(h.time <= tick[r]) => cache'[r] = cache[r] \cup {h} /\ result'[r] = result[r]
  BY <1>1, <1>2 DEF TypeOK
<1>6. NothingPending'
  BY <1>2, <1>5 DEF VehicleInv, NothingPending
<1>7. ASSUME NEW v \in Vehicles
      PROVE  /\ \A q \in Ranks : \A i, j \in 1..Len(chan'[q]) :
                   v \in chan'[q][i].vehs /\ v \in chan'[q][j].vehs => i = j
             /\ \A q \in Ranks : \A m, k \in cache'[q] : v \in m.vehs /\ v \in k.vehs => m = k
             /\ InOnePlace(v)'
  <2>0. InOnePlace(v)
    BY DEF VehicleInv
  <2>1. /\ \A q \in Ranks : \A i, j \in 1..Len(chan[q]) :
             v \in chan[q][i].vehs /\ v \in chan[q][j].vehs => i = j
        /\ \A q \in Ranks : \A m, k \in cache[q] : v \in m.vehs /\ v \in k.vehs => m = k
    BY DEF VehicleInv, InOneMessage
  <2>2. \A q \in Ranks : \A i, j \in 1..Len(chan'[q]) :
          v \in chan'[q][i].vehs /\ v \in chan'[q][j].vehs => i = j
    <3>1. \A i, j \in 1..Len(chan'[r]) :
            v \in chan'[r][i].vehs /\ v \in chan'[r][j].vehs => i = j
      <4> SUFFICES ASSUME NEW i \in 1..Len(chan'[r]), NEW j \in 1..Len(chan'[r]),
                          v \in chan'[r][i].vehs, v \in chan'[r][j].vehs
                   PROVE  i = j
        OBVIOUS
      <4>1. i + 1 = j + 1
        BY <1>4, <2>1
      <4> QED
        BY <1>4, <4>1
    <3> QED
      BY <1>3, <2>1, <3>1
  <2>3. \A q \in Ranks : /\ IsIn(v, "engines", q)' <=> IsIn(v, "engines", q)
                         /\ IsIn(v, "out", q)' <=> IsIn(v, "out", q)
                         /\ q # r => /\ IsIn(v, "channel", q)' <=> IsIn(v, "channel", q)
                                     /\ IsIn(v, "heap", q)' <=> IsIn(v, "heap", q)
                                     /\ IsIn(v, "result", q)' <=> IsIn(v, "result", q)
    BY <1>2, <1>3, <1>5, PlaceFacts, PlaceFactsNext
  <2>4. IsIn(v, "channel", r)' <=> \E i \in 2..Len(chan[r]) : v \in chan[r][i].vehs
    <3>1. ASSUME NEW i \in 2..Len(chan[r]), v \in chan[r][i].vehs
          PROVE  \E j \in 1..Len(chan'[r]) : v \in chan'[r][j].vehs
      <4>1. i - 1 \in 1..Len(chan'[r]) /\ (i - 1) + 1 = i
        BY <1>4
      <4>2. chan'[r][i - 1] = chan[r][i]
        BY <1>4, <4>1
      <4> QED
        BY <3>1, <4>1, <4>2
    <3>2. ASSUME NEW j \in 1..Len(chan'[r]), v \in chan'[r][j].vehs
          PROVE  \E i \in 2..Len(chan[r]) : v \in chan[r][i].vehs
      <4>1. j + 1 \in 2..Len(chan[r]) /\ chan'[r][j] = chan[r][j + 1]
        BY <1>4
      <4> QED
        BY <3>2, <4>1
    <3> QED
      BY <3>1, <3>2, PlaceFactsNext
  <2>5. IsIn(v, "channel", r) <=> \E i \in 1..Len(chan[r]) : v \in chan[r][i].vehs
    BY PlaceFacts
  <2>6. /\ h.time <= tick[r] =>
             /\ IsIn(v, "heap", r)' <=> IsIn(v, "heap", r)
             /\ IsIn(v, "result", r)' <=> IsIn(v, "result", r) \/ v \in h.vehs
        /\ ~(h.time <= tick[r]) =>
             /\ IsIn(v, "result", r)' <=> IsIn(v, "result", r)
             /\ IsIn(v, "heap", r)' <=> IsIn(v, "heap", r) \/ v \in h.vehs
    BY <1>5, PlaceFacts, PlaceFactsNext
  <2>7. CASE v \in h.vehs
    <3>1. IsIn(v, "channel", r) /\ ~IsIn(v, "channel", r)' /\ "channel" \in Places
      <4>1. 1 \in 1..Len(chan[r]) /\ \A i \in 2..Len(chan[r]) : i \in 1..Len(chan[r]) /\ i # 1
        BY <1>4
      <4> QED
        BY <1>4, <2>1, <2>4, <2>5, <2>7, <4>1 DEF Places
    <3>2. ~IsIn(v, "heap", r) /\ ~IsIn(v, "result", r)
      BY <2>0, <3>1, OtherPlaces DEF Places
    <3>3. \A m \in cache[r] : v \notin m.vehs
      BY <3>2, PlaceFacts
    <3>4. \A q \in Ranks : \A m, k \in cache'[q] : v \in m.vehs /\ v \in k.vehs => m = k
      BY <1>5, <2>1, <3>3
    <3>5. CASE h.time <= tick[r]
      <4>1. \A k \in Places, q \in Ranks :
              IsIn(v, k, q)' => (k = "result" /\ q = r)
                                \/ (IsIn(v, k, q) /\ ~(k = "channel" /\ q = r))
        BY <2>3, <2>6, <3>1, <3>2, <3>5 DEF Places
      <4>2. IsIn(v, "result", r)' /\ "result" \in Places
        BY <2>6, <2>7, <3>5 DEF Places
      <4>3. InOnePlace(v)'
        BY <2>0, <3>1, <4>1, <4>2, Moves
      <4> QED
        BY <2>2, <3>4, <4>3
    <3>6. CASE ~(h.time <= tick[r])
      <4>1. \A k \in Places, q \in Ranks :
              IsIn(v, k, q)' => (k = "heap" /\ q = r)
                                \/ (IsIn(v, k, q) /\ ~(k = "channel" /\ q = r))
        BY <2>3, <2>6, <3>1, <3>2, <3>6 DEF Places
      <4>2. IsIn(v, "heap", r)' /\ "heap" \in Places
        BY <2>6, <2>7, <3>6 DEF Places
      <4>3. InOnePlace(v)'
        BY <2>0, <3>1, <4>1, <4>2, Moves
      <4> QED
        BY <2>2, <3>4, <4>3
    <3> QED
      BY <3>5, <3>6
  <2>8. CASE v \notin h.vehs
    <3>1. IsIn(v, "channel", r)' <=> IsIn(v, "channel", r)
      BY <1>4, <2>4, <2>5, <2>8
    <3>2. \A k \in Places, q \in Ranks : IsIn(v, k, q)' <=> IsIn(v, k, q)
      BY <2>3, <2>6, <2>8, <3>1 DEF Places
    <3>3. InOnePlace(v)'
      BY <2>0, <3>2, Stays
    <3>4. \A q \in Ranks : \A m, k \in cache'[q] : v \in m.vehs /\ v \in k.vehs => m = k
      BY <1>5, <2>1, <2>8
    <3> QED
      BY <2>2, <3>3, <3>4
  <2> QED
    BY <2>7, <2>8
<1>8. InOneMessage'
  BY <1>2, <1>7 DEF VehicleInv, InOneMessage
<1> QED
  BY <1>6, <1>7, <1>8 DEF VehicleInv

\* What was received is passed to the engines.
LEMMA VehicleEndStep ==
  ASSUME SyncInv, VehicleInv, NEW r \in Ranks, EndStep(r)
  PROVE  VehicleInv'
<1>1. TypeOK
  BY DEF SyncInv
<1>2. /\ pc[r] = "exchange" /\ unsent[r] = {}
      /\ at' = [at EXCEPT ![r] = @ \cup UNION {m.vehs : m \in result[r]}]
      /\ result' = [result EXCEPT ![r] = {}]
      /\ pc' = [pc EXCEPT ![r] = PhaseAt(tick[r] + 1)]
      /\ unsent' = unsent /\ load' = load /\ cache' = cache /\ chan' = chan
  BY DEF EndStep
<1>3. /\ at'[r] = at[r] \cup UNION {m.vehs : m \in result[r]} /\ result'[r] = {}
      /\ \A q \in Ranks : q # r => at'[q] = at[q] /\ result'[q] = result[q] /\ pc'[q] = pc[q]
  BY <1>1, <1>2 DEF TypeOK
<1>4. NothingPending' /\ InOneMessage'
  BY <1>2, <1>3 DEF VehicleInv, NothingPending, InOneMessage
<1>5. ASSUME NEW v \in Vehicles PROVE InOnePlace(v)'
  <2>0. InOnePlace(v)
    BY DEF VehicleInv
  <2>1. \A q \in Ranks : /\ IsIn(v, "out", q)' <=> IsIn(v, "out", q)
                         /\ IsIn(v, "channel", q)' <=> IsIn(v, "channel", q)
                         /\ IsIn(v, "heap", q)' <=> IsIn(v, "heap", q)
                         /\ q # r => /\ IsIn(v, "engines", q)' <=> IsIn(v, "engines", q)
                                     /\ IsIn(v, "result", q)' <=> IsIn(v, "result", q)
    BY <1>2, <1>3, PlaceFacts, PlaceFactsNext
  <2>2. /\ ~IsIn(v, "result", r)'
        /\ IsIn(v, "engines", r)' <=> IsIn(v, "engines", r) \/ IsIn(v, "result", r)
    BY <1>3, PlaceFacts, PlaceFactsNext
  <2>3. CASE IsIn(v, "result", r)
    <3>1. ~IsIn(v, "engines", r)
      BY <2>0, <2>3, OtherPlaces DEF Places
    <3>2. \A k \in Places, q \in Ranks :
            IsIn(v, k, q)' => (k = "engines" /\ q = r)
                              \/ (IsIn(v, k, q) /\ ~(k = "result" /\ q = r))
      BY <2>1, <2>2, <3>1 DEF Places
    <3>3. IsIn(v, "engines", r)' /\ "engines" \in Places /\ "result" \in Places
      BY <2>2, <2>3 DEF Places
    <3> QED
      BY <2>0, <2>3, <3>2, <3>3, Moves
  <2>4. CASE ~IsIn(v, "result", r)
    <3>1. \A k \in Places, q \in Ranks : IsIn(v, k, q)' <=> IsIn(v, k, q)
      BY <2>1, <2>2, <2>4 DEF Places
    <3> QED
      BY <2>0, <3>1, Stays
  <2> QED
    BY <2>3, <2>4
<1> QED
  BY <1>4, <1>5 DEF VehicleInv

LEMMA VehicleUnchanged ==
  ASSUME VehicleInv, UNCHANGED vars
  PROVE  VehicleInv'
<1>1. NothingPending' /\ InOneMessage'
  BY DEF vars, VehicleInv, NothingPending, InOneMessage
<1>2. ASSUME NEW v \in Vehicles PROVE InOnePlace(v)'
  BY Unmoved DEF vars
<1> QED
  BY <1>1, <1>2 DEF VehicleInv

\* At the beginning every vehicle is with the engines of one rank or in one message that
\* an earlier run left behind.
LEMMA VehicleInit == Begins => VehicleInv
<1> SUFFICES ASSUME Begins PROVE VehicleInv
  OBVIOUS
<1>0. LeftBehind
  BY DEF Begins
<1>1. PICK home \in [Vehicles -> Ranks] :
        at = [r \in Ranks |->
                {v \in Vehicles : home[v] = r /\ \A s \in Ranks : v \notin InChannel(s)}]
  BY DEF Begins
<1>2. \A r \in Ranks : unsent[r] = {} /\ result[r] = {} /\ cache[r] = {}
  BY DEF Begins
<1>3. NothingPending /\ InOneMessage
  BY <1>0, <1>2 DEF NothingPending, InOneMessage, LeftBehind
<1>4. ASSUME NEW v \in Vehicles PROVE InOnePlace(v)
  <2>1. \A r \in Ranks :
          /\ IsIn(v, "engines", r) <=> home[v] = r /\ \A s \in Ranks : v \notin InChannel(s)
          /\ IsIn(v, "channel", r) <=> v \in InChannel(r)
          /\ ~IsIn(v, "out", r) /\ ~IsIn(v, "heap", r) /\ ~IsIn(v, "result", r)
    <3> SUFFICES ASSUME NEW r \in Ranks
                 PROVE  /\ IsIn(v, "engines", r)
                             <=> home[v] = r /\ \A s \in Ranks : v \notin InChannel(s)
                        /\ IsIn(v, "channel", r) <=> v \in InChannel(r)
                        /\ ~IsIn(v, "out", r) /\ ~IsIn(v, "heap", r) /\ ~IsIn(v, "result", r)
      OBVIOUS
    <3>1. at[r] = {w \in Vehicles : home[w] = r /\ \A s \in Ranks : w \notin InChannel(s)}
      BY <1>1
    <3> HIDE DEF InChannel
    <3>2. IsIn(v, "engines", r) <=> home[v] = r /\ \A s \in Ranks : v \notin InChannel(s)
      BY <3>1, PlaceFacts
    <3>3. IsIn(v, "channel", r) <=> v \in InChannel(r)
      BY DEF IsIn
    <3> QED
      BY <1>2, <3>2, <3>3, PlaceFacts
  <2>2. CASE \A s \in Ranks : v \notin InChannel(s)
    BY <1>1, <2>1, <2>2 DEF InOnePlace, Places
  <2>3. CASE \E s \in Ranks : v \in InChannel(s)
    <3>1. PICK s \in Ranks : v \in InChannel(s)
      BY <2>3
    <3>2. \A r \in Ranks : v \in InChannel(r) => r = s
      BY <1>0, <3>1 DEF LeftBehind, InChannel
    <3> QED
      BY <2>1, <3>1, <3>2 DEF InOnePlace, Places
  <2> QED
    BY <2>2, <2>3
<1> QED
  BY <1>3, <1>4 DEF VehicleInv

\* No vehicle is lost or duplicated by a hand-over: in every reachable state each is in
\* exactly one place of exactly one rank.
THEOREM VehiclesAreConserved == Spec => []VehiclesConserved
<1>1. Init => VehicleInv
  BY InitBegins, VehicleInit
<1>2. SyncInv /\ VehicleInv /\ [Next]_vars => VehicleInv'
  <2> SUFFICES ASSUME SyncInv, VehicleInv, [Next]_vars PROVE VehicleInv'
    OBVIOUS
  <2>1. ASSUME NEW r \in Ranks, RankNext(r) PROVE VehicleInv'
    BY <2>1, VehicleStep, VehicleBarrier, VehicleSend, VehicleRecv, VehicleEndStep DEF RankNext
  <2>2. CASE UNCHANGED vars
    BY <2>2, VehicleUnchanged
  <2> QED
    BY <2>1, <2>2 DEF Next, Terminated
<1>3. VehicleInv => VehiclesConserved
  <2> SUFFICES ASSUME VehicleInv, NEW v \in Vehicles
               PROVE  Cardinality({w \in Places \X Ranks : IsIn(v, w[1], w[2])}) = 1
    BY DEF VehiclesConserved
  <2>1. PICK p \in Places, r \in Ranks :
          /\ IsIn(v, p, r)
          /\ \A o \in Places, s \in Ranks : IsIn(v, o, s) => o = p /\ s = r
    BY DEF VehicleInv, InOnePlace
  <2>2. {w \in Places \X Ranks : IsIn(v, w[1], w[2])} = {<<p, r>>}
    BY <2>1
  <2> QED
    BY <2>2, FS_Singleton
<1> QED
  BY <1>1, <1>2, <1>3, SyncInvariant, PTL DEF Spec

-----------------------------------------------------------------------------
(* The end of a run: what it leaves behind.                                 *)

LEMMA EndBegins == Begins => NoneAfterEnd
  BY DEF Begins, LeftBehind, NoneAfterEnd

\* What is sent, taken from a channel or put into the heap is of a tick of the run, and a
\* rank that leaves the last tick has emptied its heap.
LEMMA EndStepping ==
  ASSUME SyncInv, NoneAfterEnd, NEW r \in Ranks, Step(r)
  PROVE  NoneAfterEnd'
<1>1. TypeOK
  BY DEF SyncInv
<1>2. /\ pc[r] = "step" /\ pc' = [pc EXCEPT ![r] = IF GlobalSync THEN "barrier" ELSE "exchange"]
      /\ cache' = [cache EXCEPT ![r] = @ \ {m \in cache[r] : m.time <= tick[r]}] /\ chan' = chan
  BY DEF Step, PopFromCache
<1>3. /\ \A q \in Ranks : cache'[q] \subseteq cache[q]
      /\ \A q \in Ranks : pc'[q] = "done" => pc[q] = "done"
  BY <1>1, <1>2 DEF TypeOK
<1> QED
  BY <1>2, <1>3 DEF NoneAfterEnd

LEMMA EndBarrier ==
  ASSUME SyncInv, NoneAfterEnd, NEW r \in Ranks, BarrierWait(r)
  PROVE  NoneAfterEnd'
<1>1. cache' = cache /\ chan' = chan
  BY DEF BarrierWait
<1>2. \A q \in Ranks : pc'[q] = "done" => pc[q] = "done"
  BY DEF BarrierWait, SyncInv, TypeOK
<1> QED
  BY <1>1, <1>2 DEF NoneAfterEnd

LEMMA EndSend ==
  ASSUME SyncInv, NoneAfterEnd, NEW r \in Ranks, NEW d \in Ranks, Send(r, d)
  PROVE  NoneAfterEnd'
<1> DEFINE new == [from |-> r, time |-> tick[r], vehs |-> load[r][d]]
<1>1. TypeOK
  BY DEF SyncInv
<1>2. /\ pc[r] = "exchange" /\ pc' = pc /\ cache' = cache
      /\ chan' = [chan EXCEPT ![d] = Append(@, new)]
  BY DEF Send
<1>3. new.time = tick[r] /\ tick[r] \in Int /\ tick[r] <= EndTick
  BY <1>1, <1>2, TickAssumption DEF TypeOK
<1>4. chan[d] \in Seq(Messages) /\ new \in Messages
  <2>1. load[r] \in [Ranks -> SUBSET Vehicles] /\ load[r][d] \in SUBSET Vehicles
    BY <1>1 DEF TypeOK
  <2> QED
    BY <1>1, <2>1 DEF TypeOK, Messages
<1> HIDE DEF new
<1>5. /\ chan'[d] = Append(chan[d], new) /\ \A q \in Ranks : q # d => chan'[q] = chan[q]
  BY <1>1, <1>2 DEF TypeOK
<1>6. /\ Len(chan[d]) \in Nat /\ Len(chan'[d]) = Len(chan[d]) + 1
      /\ \A i \in 1..Len(chan[d]) : chan'[d][i] = chan[d][i]
      /\ chan'[d][Len(chan[d]) + 1] = new
  BY <1>4, <1>5, AppendFacts
<1>7. ASSUME NEW q \in Ranks, NEW i \in 1..Len(chan'[q]) PROVE chan'[q][i].time <= EndTick
  <2>1. CASE q = d /\ i = Len(chan[d]) + 1
    BY <1>3, <1>6, <2>1
  <2>2. CASE ~(q = d /\ i = Len(chan[d]) + 1)
    <3>1. i \in 1..Len(chan[q]) /\ chan'[q][i] = chan[q][i]
      BY <1>5, <1>6, <2>2
    <3> QED
      BY <3>1 DEF NoneAfterEnd
  <2> QED
    BY <2>1, <2>2
<1> QED
  BY <1>2, <1>7 DEF NoneAfterEnd

LEMMA EndRecv ==
  ASSUME SyncInv, NoneAfterEnd, NEW r \in Ranks, Recv(r)
  PROVE  NoneAfterEnd'
<1> DEFINE h == Head(chan[r])
<1>1. TypeOK
  BY DEF SyncInv
<1>2. /\ pc[r] = "exchange" /\ pc' = pc /\ chan[r] # <<>> /\ chan' = [chan EXCEPT ![r] = Tail(@)]
      /\ cache' = cache \/ cache' = [cache EXCEPT ![r] = @ \cup {h}]
  BY DEF Recv, HandleIncoming
<1>3. /\ chan[r] \in Seq(Messages) /\ chan'[r] = Tail(chan[r])
      /\ \A q \in Ranks : q # r => chan'[q] = chan[q] /\ cache'[q] = cache[q]
      /\ cache'[r] \subseteq cache[r] \cup {h}
  BY <1>1, <1>2 DEF TypeOK
<1>4. /\ 1 \in 1..Len(chan[r]) /\ h = chan[r][1]
      /\ \A i \in 1..Len(chan'[r]) : i + 1 \in 1..Len(chan[r]) /\ chan'[r][i] = chan[r][i + 1]
  <2>1. /\ Len(chan[r]) \in Nat /\ Len(chan[r]) >= 1 /\ Head(chan[r]) = chan[r][1]
        /\ \A i \in 1..Len(Tail(chan[r])) :
             i + 1 \in 1..Len(chan[r]) /\ Tail(chan[r])[i] = chan[r][i + 1]
    BY <1>2, <1>3, TailFacts
  <2>2. 1 \in 1..Len(chan[r])
    BY <2>1
  <2> QED
    BY <1>3, <2>1, <2>2, Zenon
<1> HIDE DEF h
<1>5. ASSUME NEW q \in Ranks, NEW i \in 1..Len(chan'[q]) PROVE chan'[q][i].time <= EndTick
  <2>1. CASE q = r
    <3>1. i + 1 \in 1..Len(chan[r]) /\ chan'[r][i] = chan[r][i + 1]
      BY <1>4, <2>1
    <3> QED
      BY <2>1, <3>1 DEF NoneAfterEnd
  <2>2. CASE q # r
    BY <1>3, <2>2 DEF NoneAfterEnd
  <2> QED
    BY <2>1, <2>2
<1>6. \A q \in Ranks : \A m \in cache'[q] : m.time <= EndTick
  BY <1>3, <1>4 DEF NoneAfterEnd
<1>7. \A q \in Ranks : pc'[q] = "done" => cache'[q] = {}
  BY <1>2, <1>3 DEF NoneAfterEnd
<1> QED
  BY <1>5, <1>6, <1>7 DEF NoneAfterEnd

LEMMA EndEndStep ==
  ASSUME SyncInv, NoneAfterEnd, NEW r \in Ranks, EndStep(r)
  PROVE  NoneAfterEnd'
<1>1. TypeOK
  BY DEF SyncInv
<1>2. /\ pc[r] = "exchange" /\ cache' = cache /\ chan' = chan
      /\ pc' = [pc EXCEPT ![r] = PhaseAt(tick[r] + 1)]
  BY DEF EndStep
<1>3. /\ \A q \in Ranks : q # r => pc'[q] = pc[q]
      /\ pc'[r] = PhaseAt(tick[r] + 1) /\ tick[r] \in Int
  BY <1>1, <1>2 DEF TypeOK
<1>4. pc'[r] = "done" => cache[r] = {}
  <2> SUFFICES ASSUME pc'[r] = "done", NEW m \in cache[r] PROVE FALSE
    OBVIOUS
  <2>1. tick[r] + 1 > EndTick
    BY <1>3, TickAssumption DEF PhaseAt
  <2>2. m.time > tick[r] /\ m.time <= EndTick
    BY <1>2 DEF SyncInv, HeapLater, InExchange, NoneAfterEnd
  <2> QED
    BY <1>1, <1>3, <2>1, <2>2, MessageFacts, TickAssumption
<1> QED
  BY <1>2, <1>3, <1>4 DEF NoneAfterEnd

LEMMA EndUnchanged ==
  ASSUME NoneAfterEnd, UNCHANGED vars
  PROVE  NoneAfterEnd'
  BY DEF vars, NoneAfterEnd

\* A rank that has left the loop over the ticks has taken everything that a neighbour sent
\* to it, whether or not the others are still running, and its broker is empty.
LEMMA DoneIsEmpty ==
  ASSUME SyncInv, NothingPending, NoneAfterEnd, NEW r \in Ranks, pc[r] = "done"
  PROVE  /\ cache[r] = {} /\ unsent[r] = {} /\ result[r] = {}
         /\ \A i \in 1..Len(chan[r]) : chan[r][i].from \notin Nbr[r]
<1>1. TypeOK
  BY DEF SyncInv
<1>2. ASSUME NEW n \in Nbr[r]
      PROVE  /\ NextDue(r, n) > LastSent(n, r)
             /\ NextDue(r, n) \in Int /\ LastSent(n, r) \in Int
  <2>1. /\ n \in Ranks /\ tick[r] \in Int /\ tick[n] \in Int /\ tick[r] > EndTick
        /\ tick[r] >= StartTick /\ (tick[n] = StartTick \/ tick[n] <= EndTick + 1)
        /\ pc[n] = "exchange" => ~(tick[n] > EndTick)
    BY <1>1, RanksAssumption, TickAssumption DEF TypeOK
  <2>2. NextDue(r, n) = tick[r]
    BY DEF NextDue, InExchange
  <2>3. LastSent(n, r) \in {tick[n] - 1, tick[n]} /\ (LastSent(n, r) = tick[n] => pc[n] = "exchange")
    BY <2>1 DEF LastSent
  <2> QED
    BY <2>1, <2>2, <2>3, TickAssumption
<1>3. ASSUME NEW i \in 1..Len(chan[r]), chan[r][i].from \in Nbr[r] PROVE FALSE
  <2> DEFINE m == chan[r][i]
  <2>1. m.from \in Ranks /\ m.time \in Int
    BY <1>1, MessageFacts
  <2>2. m.time <= LastSent(m.from, r) /\ m.time >= NextDue(r, m.from)
    BY <1>3, <2>1 DEF SyncInv, SentBound, NothingOverdue
  <2> HIDE DEF m
  <2> QED
    BY <1>2, <1>3, <2>1, <2>2 DEF m
<1> QED
  BY <1>3 DEF NothingPending, NoneAfterEnd

\* When all have stopped, a vehicle that is not with the engines of a rank is in a message
\* to a rank that did not wait for it; those are all that is left in the channels.
LEMMA AllArrive ==
  ASSUME SyncInv, VehicleInv, NoneAfterEnd, AllDone
  PROVE  /\ LeftBehind
         /\ UNION {at[r] : r \in Ranks} = {v \in Vehicles : \A r \in Ranks : v \notin InChannel(r)}
<1>1. \A r \in Ranks : /\ cache[r] = {} /\ unsent[r] = {} /\ result[r] = {}
                       /\ \A i \in 1..Len(chan[r]) : chan[r][i].from \notin Nbr[r]
                       /\ at[r] \subseteq Vehicles
  BY DoneIsEmpty DEF AllDone, VehicleInv, SyncInv, TypeOK
<1>2. LeftBehind
  <2>1. chan \in [Ranks -> Seq(Messages)]
    BY DEF SyncInv, TypeOK
  <2>2. ASSUME NEW r \in Ranks, NEW i \in 1..Len(chan[r])
        PROVE  /\ chan[r][i].from \notin Nbr[r] /\ r \in Reach[chan[r][i].from]
               /\ chan[r][i].time <= EndTick
    <3>1. chan[r][i].from \in Ranks
      BY MessageFacts DEF SyncInv
    <3>2. r \in Nbr[chan[r][i].from] \cup Reach[chan[r][i].from]
      BY DEF SyncInv, KnownSenders
    <3> QED
      BY <1>1, <3>1, <3>2, RanksAssumption DEF NoneAfterEnd
  <2>3. ASSUME NEW r \in Ranks, NEW s \in Ranks, NEW i \in 1..Len(chan[r]), NEW j \in 1..Len(chan[s]),
               NEW v \in Vehicles, v \in chan[r][i].vehs, v \in chan[s][j].vehs
        PROVE  r = s /\ i = j
    <3>1. IsIn(v, "channel", r) /\ IsIn(v, "channel", s)
      BY <2>3, PlaceFacts
    <3>2. r = s
      BY <3>1, OtherPlaces DEF VehicleInv, Places
    <3> QED
      BY <2>3, <3>2 DEF VehicleInv, InOneMessage
  <2> QED
    BY <2>1, <2>2, <2>3 DEF LeftBehind
<1>3. ASSUME NEW v \in Vehicles
      PROVE  (\E r \in Ranks : v \in at[r]) <=> \A r \in Ranks : v \notin InChannel(r)
  <2>1. \A r \in Ranks : /\ IsIn(v, "engines", r) <=> v \in at[r]
                         /\ IsIn(v, "channel", r) <=> v \in InChannel(r)
                         /\ ~IsIn(v, "out", r) /\ ~IsIn(v, "heap", r) /\ ~IsIn(v, "result", r)
    BY <1>1, PlaceFacts DEF InChannel
  <2>2. PICK p \in Places, r \in Ranks : IsIn(v, p, r) /\ \A o \in Places, s \in Ranks : IsIn(v, o, s) => o = p /\ s = r
    BY DEF VehicleInv, InOnePlace
  <2> QED
    BY <2>1, <2>2 DEF Places
<1> QED
  BY <1>1, <1>2, <1>3
=============================================================================
