------------------------ MODULE MobsimPool_proofs ------------------------
(* Proof that the controller and its workers stay in step: no result of another *)
(* iteration, none twice and none without a rank that panicked is ever taken.  *)
EXTENDS MobsimPool, FiniteSetTheorems, TLAPS

-----------------------------------------------------------------------------
(* The steps of the controller.                                             *)

LEMMA PoolInitially == PoolInit => PoolInv
<1> SUFFICES ASSUME PoolInit PROVE PoolInv
  OBVIOUS
<1>1. PoolTypes
  BY EmptySequence, PoolAssumption DEF PoolInit, PoolTypes, ControllerStates, WorkerStates, PoolAssumption
<1>2. InIteration /\ BetweenIterations /\ StartedTogether
  BY DEF PoolInit, InIteration, BetweenIterations, StartedTogether
<1>3. ResultsDiffer
  BY EmptySequence DEF PoolInit, ResultsDiffer
<1> QED
  BY <1>1, <1>2, <1>3 DEF PoolInv

LEMMA PoolStartIteration ==
  ASSUME PoolInv, StartIteration
  PROVE  PoolInv'
<1>1. /\ ctl = "start" /\ ctl' = "dispatch" /\ pending' = Ranks /\ collected' = <<>>
      /\ iteration' = iteration /\ commands' = commands /\ results' = results
      /\ worker' = worker /\ current' = current
  BY DEF StartIteration
<1>2. results = <<>> /\ \A r \in Ranks : commands[r] = <<>> /\ worker[r] \in {"new", "idle"}
  BY <1>1 DEF PoolInv, BetweenIterations
<1>3. PoolTypes'
  BY <1>1, EmptySequence DEF PoolInv, PoolTypes, ControllerStates
<1>4. Arrived' = {} /\ Taken' = {}
  BY <1>1, <1>2, EmptySequence DEF Arrived, Taken
<1>5. InIteration'
  BY <1>1, <1>2, <1>4, FS_EmptySet, EmptySequence DEF InIteration, NotAsked
<1>6. BetweenIterations' /\ ResultsDiffer' /\ StartedTogether'
  BY <1>1 DEF PoolInv, BetweenIterations, ResultsDiffer, StartedTogether
<1> QED
  BY <1>3, <1>5, <1>6 DEF PoolInv

LEMMA PoolDispatch ==
  ASSUME PoolInv, NEW r \in Ranks, Dispatch(r)
  PROVE  PoolInv'
<1> DEFINE cmd == RunMobsim(iteration, {v \in input : Home[v] = r})
<1>1. /\ ctl = "dispatch" /\ r \in pending
      /\ commands' = [commands EXCEPT ![r] = Append(@, cmd)]
      /\ pending' = pending \ {r} /\ ctl' = IF pending = {r} THEN "collect" ELSE "dispatch"
      /\ iteration' = iteration /\ input' = input /\ collected' = collected
      /\ results' = results /\ worker' = worker /\ current' = current
  BY DEF Dispatch
<1>2. PoolTypes /\ InIteration /\ commands = [q \in Ranks |-> commands[q]]
  BY DEF PoolInv, PoolTypes
<1>3. NotAsked(r) /\ r \notin Arrived \cup Taken
  BY <1>1, <1>2 DEF InIteration, NotAsked, Asked, Working, Answered
<1>4. /\ commands'[r] = <<cmd>> /\ \A q \in Ranks : q # r => commands'[q] = commands[q]
      /\ commands' = [q \in Ranks |-> commands'[q]]
  BY <1>1, <1>2, <1>3 DEF NotAsked
<1>5. PoolTypes'
  BY <1>1, <1>2, <1>4 DEF PoolTypes, ControllerStates
<1>6. Arrived' = Arrived /\ Taken' = Taken
  BY <1>1 DEF Arrived, Taken
<1>7. Asked(r)'
  BY <1>1, <1>3, <1>4 DEF Asked, NotAsked
<1>8. \A q \in Ranks : q # r => /\ Answered(q) => Answered(q)'
                                /\ NotAsked(q) => NotAsked(q)'
                                /\ Asked(q) => Asked(q)'
                                /\ Working(q) => Working(q)'
  BY <1>1, <1>4 DEF Answered, NotAsked, Asked, Working
<1>9. InIteration'
  BY <1>1, <1>2, <1>3, <1>6, <1>7, <1>8 DEF InIteration
<1>10. BetweenIterations' /\ ResultsDiffer' /\ StartedTogether'
  BY <1>1 DEF PoolInv, BetweenIterations, ResultsDiffer, StartedTogether
<1> QED
  BY <1>5, <1>9, <1>10 DEF PoolInv

\* The ranks of a list of results, one more or one less.
LEMMA RankAppended ==
  ASSUME NEW s, IsSequence(s), NEW x
  PROVE  {Append(s, x)[i].rank : i \in 1..Len(Append(s, x))}
           = {s[i].rank : i \in 1..Len(s)} \cup {x.rank}
<1>1. /\ Len(s) \in Nat /\ Len(Append(s, x)) = Len(s) + 1
      /\ \A i \in 1..Len(s) : Append(s, x)[i] = s[i]
      /\ Append(s, x)[Len(s) + 1] = x
  BY AppendSequence
<1>2. ASSUME NEW i \in 1..Len(Append(s, x))
      PROVE  Append(s, x)[i].rank \in {s[j].rank : j \in 1..Len(s)} \cup {x.rank}
  <2>1. i \in 1..Len(s) \/ i = Len(s) + 1
    BY <1>1
  <2> QED
    BY <1>1, <2>1
<1>3. ASSUME NEW i \in 1..Len(s)
      PROVE  s[i].rank \in {Append(s, x)[j].rank : j \in 1..Len(Append(s, x))}
  <2>1. i \in 1..Len(Append(s, x)) /\ Append(s, x)[i].rank = s[i].rank
    BY <1>1
  <2> QED
    BY <2>1
<1>4. x.rank \in {Append(s, x)[j].rank : j \in 1..Len(Append(s, x))}
  <2>1. Len(s) + 1 \in 1..Len(Append(s, x)) /\ Append(s, x)[Len(s) + 1].rank = x.rank
    BY <1>1
  <2> QED
    BY <2>1
<1> QED
  BY <1>2, <1>3, <1>4

LEMMA RankTaken ==
  ASSUME NEW s, IsSequence(s), s # <<>>,
         \A i, j \in 1..Len(s) : s[i].rank = s[j].rank => i = j
  PROVE  /\ {Tail(s)[i].rank : i \in 1..Len(Tail(s))} = {s[i].rank : i \in 1..Len(s)} \ {Head(s).rank}
         /\ Head(s).rank \in {s[i].rank : i \in 1..Len(s)}
         /\ \A i, j \in 1..Len(Tail(s)) : Tail(s)[i].rank = Tail(s)[j].rank => i = j
<1>1. /\ Head(s) = s[1] /\ Len(s) \in Nat /\ Len(s) >= 1 /\ Len(Tail(s)) = Len(s) - 1
      /\ \A i \in 1..Len(Tail(s)) : i + 1 \in 1..Len(s) /\ Tail(s)[i] = s[i + 1]
  BY TailSequence
<1>2. 1 \in 1..Len(s)
  BY <1>1
<1>3. ASSUME NEW i \in 1..Len(Tail(s))
      PROVE  Tail(s)[i].rank \in {s[j].rank : j \in 1..Len(s)} \ {Head(s).rank}
  <2>1. i + 1 \in 1..Len(s) /\ Tail(s)[i] = s[i + 1] /\ i + 1 # 1
    BY <1>1
  <2> QED
    BY <1>1, <1>2, <2>1
<1>4. ASSUME NEW i \in 1..Len(s), s[i].rank # Head(s).rank
      PROVE  s[i].rank \in {Tail(s)[j].rank : j \in 1..Len(Tail(s))}
  <2>1. i # 1
    BY <1>1, <1>4
  <2>2. i - 1 \in 1..Len(Tail(s)) /\ (i - 1) + 1 = i
    BY <1>1, <2>1
  <2>3. Tail(s)[i - 1] = s[i]
    BY <1>1, <2>2
  <2> QED
    BY <2>2, <2>3
<1>5. ASSUME NEW i \in 1..Len(Tail(s)), NEW j \in 1..Len(Tail(s)), Tail(s)[i].rank = Tail(s)[j].rank
      PROVE  i = j
  <2>1. i + 1 = j + 1
    BY <1>1, <1>5
  <2> QED
    BY <1>1, <2>1
<1> QED
  BY <1>1, <1>2, <1>3, <1>4, <1>5

\* The assertions of run_mobsim never fail, and the controller goes on when it has the
\* results of all ranks.
LEMMA PoolCollect ==
  ASSUME PoolInv, Collect
  PROVE  PoolInv'
<1> DEFINE res == Head(results)
<1>1. /\ ctl = "collect" /\ results # <<>> /\ results' = Tail(results)
      /\ iteration' = iteration /\ input' = input /\ pending' = pending /\ commands' = commands
      /\ worker' = worker /\ current' = current
  BY DEF Collect
<1>2. PoolTypes /\ InIteration /\ ResultsDiffer /\ IsSequence(results) /\ IsSequence(collected)
  BY DEF PoolInv, PoolTypes
<1>3. /\ pending = {} /\ Taken \subseteq Ranks /\ Arrived \subseteq Ranks /\ Arrived \cap Taken = {}
      /\ Cardinality(Taken) = Len(collected)
      /\ \A r \in Ranks : IF r \in Arrived \cup Taken THEN Answered(r)
                          ELSE NotAsked(r) \/ Asked(r) \/ Working(r)
  BY <1>1, <1>2 DEF InIteration
<1>4. \A i, j \in 1..Len(results) : results[i].rank = results[j].rank => i = j
  BY <1>2 DEF ResultsDiffer
<1>5. /\ Arrived' = Arrived \ {res.rank} /\ res.rank \in Arrived
      /\ \A i, j \in 1..Len(results') : results'[i].rank = results'[j].rank => i = j
  <2>1. /\ {Tail(results)[i].rank : i \in 1..Len(Tail(results))}
             = {results[i].rank : i \in 1..Len(results)} \ {res.rank}
        /\ res.rank \in {results[i].rank : i \in 1..Len(results)}
        /\ \A i, j \in 1..Len(Tail(results)) : Tail(results)[i].rank = Tail(results)[j].rank => i = j
    BY <1>1, <1>2, <1>4, RankTaken
  <2> QED
    BY <1>1, <2>1, Zenon DEF Arrived
<1>6. /\ IsSequence(results') /\ res.iteration = iteration
      /\ \A i \in 1..Len(results') : results'[i].iteration = iteration
  <2>1. /\ IsSequence(Tail(results)) /\ Head(results) = results[1]
        /\ Len(results) \in Nat /\ Len(results) >= 1
        /\ \A i \in 1..Len(Tail(results)) : i + 1 \in 1..Len(results) /\ Tail(results)[i] = results[i + 1]
    BY <1>1, <1>2, TailSequence
  <2>2. 1 \in 1..Len(results)
    BY <2>1
  <2> QED
    BY <1>1, <1>2, <2>1, <2>2 DEF ResultsDiffer
<1>7. \A i \in 1..Len(collected) : collected[i].rank # res.rank
  BY <1>3, <1>5 DEF Taken
<1>8. /\ collected' = Append(collected, res)
      /\ ctl' = IF Len(collected) + 1 = Cardinality(Ranks) THEN "merge" ELSE "collect"
  BY <1>6, <1>7 DEF Collect
<1> HIDE DEF res
<1>9. Taken' = Taken \cup {res.rank}
  BY <1>2, <1>8, RankAppended DEF Taken
<1>10. IsSequence(collected') /\ Len(collected') = Len(collected) + 1
  BY <1>2, <1>8, AppendSequence
<1>11. Cardinality(Taken') = Len(collected')
  <2>1. IsFiniteSet(Taken)
    BY <1>3, RanksAssumption, FS_Subset DEF RanksAssumption
  <2>2. Cardinality(Taken \cup {res.rank}) = Cardinality(Taken) + 1
    BY <1>3, <1>5, <2>1, FS_AddElement
  <2> QED
    BY <1>3, <1>9, <1>10, <2>2
<1>12. PoolTypes'
  BY <1>1, <1>2, <1>6, <1>8, <1>10 DEF PoolTypes, ControllerStates
<1>13. ResultsDiffer'
  BY <1>1, <1>5, <1>6 DEF ResultsDiffer
<1>14. StartedTogether'
  BY <1>1 DEF PoolInv, StartedTogether
<1>15. /\ Taken' \subseteq Ranks /\ Arrived' \subseteq Ranks /\ Arrived' \cap Taken' = {}
       /\ Arrived' \cup Taken' = Arrived \cup Taken
  BY <1>3, <1>5, <1>9
<1>16. \A r \in Ranks : IF r \in Arrived' \cup Taken' THEN Answered(r)'
                        ELSE NotAsked(r)' \/ Asked(r)' \/ Working(r)'
  BY <1>1, <1>3, <1>15 DEF Answered, NotAsked, Asked, Working
<1>17. InIteration'
  BY <1>1, <1>3, <1>8, <1>11, <1>15, <1>16 DEF InIteration
<1>18. BetweenIterations'
  <2>1. CASE ctl' = "collect"
    BY <2>1 DEF BetweenIterations
  <2>2. CASE ctl' # "collect"
    <3>1. ctl' = "merge" /\ Cardinality(Taken') = Cardinality(Ranks)
      BY <1>8, <1>10, <1>11, <2>2
    <3>2. Taken' = Ranks
      BY <1>15, <3>1, RanksAssumption, FS_Subset DEF RanksAssumption
    <3>3. Arrived' = {}
      BY <1>15, <3>2
    <3>4. results' = <<>>
      <4>1. Len(results') \in Nat /\ ~(Len(results') >= 1)
        <5>1. Len(results') \in Nat
          BY <1>6 DEF IsSequence
        <5>2. 1 \notin 1..Len(results')
          BY <3>3 DEF Arrived
        <5> QED
          BY <5>1, <5>2
      <4> QED
        BY <1>6, <4>1 DEF IsSequence
    <3>5. \A r \in Ranks : commands'[r] = <<>> /\ worker'[r] = "idle"
      BY <1>16, <3>2 DEF Answered
    <3> QED
      BY <3>1, <3>4, <3>5 DEF BetweenIterations
  <2> QED
    BY <2>1, <2>2
<1> QED
  BY <1>12, <1>13, <1>14, <1>17, <1>18 DEF PoolInv

\* The other steps of the controller.
LEMMA PoolController ==
  ASSUME PoolInv, CollectFails \/ EndIteration \/ SendShutdown \/ Join
  PROVE  PoolInv'
<1>1. PoolTypes /\ commands = [r \in Ranks |-> commands[r]] /\ iteration \in Nat
  BY DEF PoolInv, PoolTypes
<1>2. CASE CollectFails
  <2>1. PoolTypes'
    BY <1>1, <1>2 DEF PoolTypes, CollectFails, ControllerStates
  <2>2. InIteration' /\ BetweenIterations'
    BY <1>2 DEF CollectFails, InIteration, BetweenIterations
  <2>3. ResultsDiffer' /\ StartedTogether'
    BY <1>2 DEF CollectFails, PoolInv, ResultsDiffer, StartedTogether
  <2> QED
    BY <2>1, <2>2, <2>3 DEF PoolInv
<1>3. CASE EndIteration
  <2>1. /\ ctl = "merge" /\ ctl' \in {"start", "shutdown"} /\ iteration' \in {iteration, iteration + 1}
        /\ pending' = pending /\ collected' = collected /\ commands' = commands
        /\ results' = results /\ worker' = worker /\ current' = current
    BY <1>3 DEF EndIteration
  <2>2. PoolTypes'
    BY <1>1, <2>1 DEF PoolTypes, ControllerStates
  <2>3. results = <<>> /\ \A r \in Ranks : commands[r] = <<>> /\ worker[r] = "idle"
    BY <2>1 DEF PoolInv, BetweenIterations
  <2>4. InIteration' /\ BetweenIterations' /\ StartedTogether'
    BY <2>1, <2>3 DEF InIteration, BetweenIterations, StartedTogether
  <2>5. ResultsDiffer'
    BY <2>1, <2>3, EmptySequence DEF ResultsDiffer
  <2> QED
    BY <2>2, <2>4, <2>5 DEF PoolInv
<1>4. CASE SendShutdown
  <2>1. /\ ctl = "shutdown" /\ ctl' = "join" /\ iteration' = iteration
        /\ commands' = [r \in Ranks |-> Append(commands[r], Shutdown)]
        /\ pending' = pending /\ collected' = collected
        /\ results' = results /\ worker' = worker /\ current' = current
    BY <1>4 DEF SendShutdown
  <2>2. PoolTypes'
    BY <1>1, <2>1 DEF PoolTypes, ControllerStates
  <2>3. results = <<>> /\ \A r \in Ranks : commands[r] = <<>> /\ worker[r] = "idle"
    BY <2>1 DEF PoolInv, BetweenIterations
  <2>4. \A r \in Ranks : commands'[r] = <<Shutdown>>
    <3>1. Append(<<>>, Shutdown) = <<Shutdown>>
      OBVIOUS
    <3> QED
      BY <2>1, <2>3, <3>1, Zenon
  <2>5. InIteration' /\ BetweenIterations' /\ StartedTogether'
    BY <2>1, <2>3, <2>4 DEF InIteration, BetweenIterations, StartedTogether
  <2>6. ResultsDiffer'
    BY <2>1, <2>3, EmptySequence DEF ResultsDiffer
  <2> QED
    BY <2>2, <2>5, <2>6 DEF PoolInv
<1>5. CASE Join
  <2>1. PoolTypes'
    BY <1>1, <1>5 DEF PoolTypes, Join, ControllerStates
  <2>2. InIteration' /\ BetweenIterations'
    BY <1>5 DEF Join, PoolInv, InIteration, BetweenIterations
  <2>3. ResultsDiffer' /\ StartedTogether'
    BY <1>5 DEF Join, PoolInv, ResultsDiffer, StartedTogether
  <2> QED
    BY <2>1, <2>2, <2>3 DEF PoolInv
<1> QED
  BY <1>2, <1>3, <1>4, <1>5

-----------------------------------------------------------------------------
(* The steps of the workers.                                                *)

LEMMA CommandKinds ==
  /\ Shutdown.kind = "shutdown"
  /\ \A i, agents : RunMobsim(i, agents).kind = "run" /\ RunMobsim(i, agents).iteration = i
  BY DEF RunMobsim, Shutdown

LEMMA OneCommand ==
  ASSUME NEW x
  PROVE  Head(<<x>>) = x /\ Tail(<<x>>) = <<>>
  OBVIOUS

\* What a worker with a command is about to do.
LEMMA NextCommand ==
  ASSUME PoolInv, NEW r \in Ranks, commands[r] # <<>>
  PROVE  \/ /\ ctl \in {"dispatch", "collect"} /\ Asked(r) /\ r \notin Arrived \cup Taken
            /\ Head(commands[r]) = RunMobsim(iteration, {v \in input : Home[v] = r})
            /\ Head(commands[r]).kind = "run" /\ Head(commands[r]).iteration = iteration
            /\ Tail(commands[r]) = <<>>
         \/ /\ ctl = "join" /\ worker[r] = "idle" /\ Head(commands[r]).kind = "shutdown"
            /\ Tail(commands[r]) = <<>>
         \/ worker[r] \in {"exited", "panicked"}
<1>1. InIteration /\ BetweenIterations /\ ctl \in ControllerStates
  BY DEF PoolInv, PoolTypes
<1>2. CASE ctl \in {"dispatch", "collect"}
  <2>1. Asked(r) /\ r \notin Arrived \cup Taken
    BY <1>1, <1>2 DEF InIteration, Answered, NotAsked, Working
  <2>2. commands[r] = <<RunMobsim(iteration, {v \in input : Home[v] = r})>>
    BY <2>1 DEF Asked
  <2> QED
    BY <1>2, <2>1, <2>2, OneCommand, CommandKinds
<1>3. CASE ctl \notin {"dispatch", "collect"}
  <2>1. CASE ctl = "join"
    <3>1. commands[r] = <<Shutdown>> /\ worker[r] = "idle"
      BY <1>1, <2>1 DEF BetweenIterations
    <3> QED
      BY <2>1, <3>1, OneCommand, CommandKinds
  <2>2. CASE ctl # "join"
    BY <1>1, <1>3, <2>2 DEF BetweenIterations, ControllerStates
  <2> QED
    BY <2>1, <2>2
<1> QED
  BY <1>2, <1>3

LEMMA PoolTakeRun ==
  ASSUME PoolInv, NEW r \in Ranks, TakeRun(r)
  PROVE  PoolInv'
<1>1. /\ worker[r] \in {"new", "idle"} /\ commands[r] # <<>> /\ Head(commands[r]).kind = "run"
      /\ current' = [current EXCEPT ![r] = Head(commands[r]).iteration]
      /\ commands' = [commands EXCEPT ![r] = Tail(@)]
      /\ worker' = [worker EXCEPT ![r] = IF @ = "new" THEN "initial" ELSE "running"]
      /\ ctl' = ctl /\ iteration' = iteration /\ input' = input /\ pending' = pending
      /\ collected' = collected /\ results' = results
  BY DEF TakeRun
<1>2. /\ PoolTypes /\ worker \in [Ranks -> WorkerStates] /\ current \in [Ranks -> Nat]
      /\ commands = [q \in Ranks |-> commands[q]] /\ iteration \in Nat
  BY DEF PoolInv, PoolTypes
<1>3. /\ ctl \in {"dispatch", "collect"} /\ Asked(r) /\ r \notin Arrived \cup Taken
      /\ Head(commands[r]).iteration = iteration /\ Tail(commands[r]) = <<>>
  BY <1>1, NextCommand
<1>4. /\ commands'[r] = <<>> /\ current'[r] = iteration /\ worker'[r] \in {"initial", "running"}
      /\ worker'[r] = "initial" <=> worker[r] = "new"
      /\ \A q \in Ranks : q # r => /\ commands'[q] = commands[q] /\ current'[q] = current[q]
                                   /\ worker'[q] = worker[q]
      /\ commands' = [q \in Ranks |-> commands'[q]]
  BY <1>1, <1>2, <1>3 DEF WorkerStates
<1>5. PoolTypes'
  BY <1>1, <1>2, <1>3, <1>4 DEF PoolTypes, WorkerStates
<1>6. Arrived' = Arrived /\ Taken' = Taken
  BY <1>1 DEF Arrived, Taken
<1>7. Working(r)'
  BY <1>1, <1>3, <1>4 DEF Working, Asked
<1>8. \A q \in Ranks : q # r => /\ Answered(q) => Answered(q)'
                                /\ NotAsked(q) => NotAsked(q)'
                                /\ Asked(q) => Asked(q)'
                                /\ Working(q) => Working(q)'
  BY <1>1, <1>4 DEF Answered, NotAsked, Asked, Working
<1>9. InIteration'
  BY <1>1, <1>3, <1>6, <1>7, <1>8 DEF PoolInv, InIteration
<1>10. BetweenIterations' /\ ResultsDiffer'
  BY <1>1, <1>3 DEF PoolInv, BetweenIterations, ResultsDiffer
<1>11. StartedTogether'
  BY <1>1, <1>4 DEF PoolInv, StartedTogether
<1> QED
  BY <1>5, <1>9, <1>10, <1>11 DEF PoolInv

\* A worker in one of these states has a command in work.
LEMMA AtWork ==
  ASSUME PoolInv, NEW r \in Ranks, worker[r] \in {"initial", "waiting", "running"}
  PROVE  /\ ctl \in {"dispatch", "collect"} /\ Working(r) /\ r \notin Arrived \cup Taken
<1>1. InIteration /\ BetweenIterations /\ ctl \in ControllerStates
  BY DEF PoolInv, PoolTypes
<1>2. ctl \in {"dispatch", "collect"}
  BY <1>1 DEF BetweenIterations, ControllerStates
<1> QED
  BY <1>1, <1>2 DEF InIteration, Answered, NotAsked, Asked

\* A step that changes nothing but the states of workers in work.
LEMMA WorkingKept ==
  ASSUME PoolInv, ctl \in {"dispatch", "collect"},
         ctl' = ctl, iteration' = iteration, input' = input, pending' = pending,
         collected' = collected, commands' = commands, results' = results, current' = current,
         worker' \in [Ranks -> WorkerStates],
         \A q \in Ranks : \/ worker'[q] = worker[q]
                          \/ /\ worker[q] \in {"initial", "waiting", "running"}
                             /\ worker'[q] \in {"waiting", "running", "panicked"},
         StartedTogether'
  PROVE  PoolInv'
<1>1. PoolTypes'
  BY DEF PoolInv, PoolTypes
<1>2. Arrived' = Arrived /\ Taken' = Taken
  BY DEF Arrived, Taken
<1>3. \A q \in Ranks : /\ Answered(q) => Answered(q)'
                       /\ NotAsked(q) => NotAsked(q)'
                       /\ Asked(q) => Asked(q)'
                       /\ Working(q) => Working(q)'
  BY DEF Answered, NotAsked, Asked, Working
<1>4. InIteration'
  BY <1>2, <1>3 DEF PoolInv, InIteration
<1>5. BetweenIterations' /\ ResultsDiffer'
  BY DEF PoolInv, BetweenIterations, ResultsDiffer
<1> QED
  BY <1>1, <1>4, <1>5 DEF PoolInv

LEMMA PoolInitialBarrier ==
  ASSUME PoolInv, NEW r \in Ranks, InitialBarrier(r)
  PROVE  PoolInv'
<1>1. /\ worker[r] = "initial" /\ ctl' = ctl /\ iteration' = iteration /\ input' = input
      /\ pending' = pending /\ collected' = collected /\ commands' = commands
      /\ results' = results /\ current' = current
  BY DEF InitialBarrier
<1>2. worker \in [Ranks -> WorkerStates] /\ ctl \in {"dispatch", "collect"}
  BY <1>1, AtWork DEF PoolInv, PoolTypes
<1>3. CASE /\ \A s \in Ranks \ {r} : worker[s] = "waiting"
           /\ worker' = [s \in Ranks |-> "running"]
  <2>1. StartedTogether' /\ worker' \in [Ranks -> WorkerStates]
    BY <1>3 DEF StartedTogether, WorkerStates
  <2>2. \A q \in Ranks : /\ worker[q] \in {"initial", "waiting", "running"}
                         /\ worker'[q] \in {"waiting", "running", "panicked"}
    BY <1>1, <1>3
  <2> QED
    BY <1>1, <1>2, <2>1, <2>2, WorkingKept
<1>4. CASE worker' = [worker EXCEPT ![r] = "waiting"]
  <2>1. worker'[r] = "waiting" /\ \A q \in Ranks : q # r => worker'[q] = worker[q]
    BY <1>2, <1>4
  <2>2. StartedTogether' /\ worker' \in [Ranks -> WorkerStates]
    BY <1>1, <1>2, <1>4, <2>1 DEF PoolInv, StartedTogether, WorkerStates
  <2> QED
    BY <1>1, <1>2, <2>1, <2>2, WorkingKept
<1> QED
  BY <1>3, <1>4 DEF InitialBarrier

LEMMA PoolPanicked ==
  ASSUME PoolInv, NEW r \in Ranks, worker[r] = "running", Panicked(r)
  PROVE  PoolInv'
<1>1. /\ worker' = [worker EXCEPT ![r] = "panicked"] /\ ctl' = ctl /\ iteration' = iteration
      /\ input' = input /\ pending' = pending /\ collected' = collected
      /\ commands' = commands /\ results' = results /\ current' = current
  BY DEF Panicked
<1>2. worker \in [Ranks -> WorkerStates] /\ ctl \in {"dispatch", "collect"}
  BY <1>1, AtWork DEF PoolInv, PoolTypes
<1>3. worker'[r] = "panicked" /\ \A q \in Ranks : q # r => worker'[q] = worker[q]
  BY <1>1, <1>2
<1>4. StartedTogether' /\ worker' \in [Ranks -> WorkerStates]
  BY <1>1, <1>2, <1>3 DEF PoolInv, StartedTogether, WorkerStates
<1> QED
  BY <1>1, <1>2, <1>3, <1>4, WorkingKept

LEMMA PoolSendResult ==
  ASSUME PoolInv, NEW r \in Ranks, SendResult(r)
  PROVE  PoolInv'
<1> DEFINE res == [rank |-> r, iteration |-> current[r], agents |-> at[r]]
<1>1. /\ worker[r] = "running" /\ results' = Append(results, res)
      /\ worker' = [worker EXCEPT ![r] = "idle"] /\ ctl' = ctl /\ iteration' = iteration
      /\ input' = input /\ pending' = pending /\ collected' = collected
      /\ commands' = commands /\ current' = current
  BY DEF SendResult
<1>2. /\ PoolTypes /\ worker \in [Ranks -> WorkerStates] /\ IsSequence(results)
      /\ InIteration /\ ResultsDiffer
  BY DEF PoolInv, PoolTypes
<1>3. ctl \in {"dispatch", "collect"} /\ Working(r) /\ r \notin Arrived \cup Taken
  BY <1>1, AtWork
<1>4. res.rank = r /\ res.iteration = iteration
  BY <1>3 DEF Working
<1> HIDE DEF res
<1>5. Arrived' = Arrived \cup {r}
  <2>1. {Append(results, res)[i].rank : i \in 1..Len(Append(results, res))}
           = {results[i].rank : i \in 1..Len(results)} \cup {res.rank}
    BY <1>2, RankAppended
  <2> QED
    BY <1>1, <1>4, <2>1, Zenon DEF Arrived
<1>6. Taken' = Taken
  BY <1>1 DEF Taken
<1>7. /\ IsSequence(results') /\ Len(results) \in Nat /\ Len(results') = Len(results) + 1
      /\ \A i \in 1..Len(results) : results'[i] = results[i]
      /\ results'[Len(results) + 1] = res
  BY <1>1, <1>2, AppendSequence
<1>8. worker'[r] = "idle" /\ \A q \in Ranks : q # r => worker'[q] = worker[q]
  BY <1>1, <1>2
<1>9. PoolTypes'
  BY <1>1, <1>2, <1>7 DEF PoolTypes, WorkerStates
<1>10. Answered(r)'
  BY <1>1, <1>3, <1>8 DEF Answered, Working
<1>11. \A q \in Ranks : q # r => /\ Answered(q) => Answered(q)'
                                 /\ NotAsked(q) => NotAsked(q)'
                                 /\ Asked(q) => Asked(q)'
                                 /\ Working(q) => Working(q)'
  BY <1>1, <1>8 DEF Answered, NotAsked, Asked, Working
<1>12. InIteration'
  BY <1>1, <1>2, <1>3, <1>5, <1>6, <1>10, <1>11 DEF InIteration
<1>13. BetweenIterations'
  BY <1>1, <1>3 DEF BetweenIterations
<1>14. ResultsDiffer'
  <2>1. \A i \in 1..Len(results) : results[i].rank # r
    BY <1>3 DEF Arrived
  <2>2. ASSUME NEW i \in 1..Len(results') PROVE i \in 1..Len(results) \/ i = Len(results) + 1
    BY <1>7
  <2>3. \A i \in 1..Len(results') : results'[i].iteration = iteration
    BY <1>2, <1>4, <1>7, <2>2 DEF ResultsDiffer
  <2>4. \A i, j \in 1..Len(results') : results'[i].rank = results'[j].rank => i = j
    BY <1>2, <1>4, <1>7, <2>1, <2>2 DEF ResultsDiffer
  <2> QED
    BY <1>1, <2>3, <2>4 DEF ResultsDiffer
<1>15. StartedTogether'
  BY <1>1, <1>8 DEF PoolInv, StartedTogether
<1> QED
  BY <1>9, <1>12, <1>13, <1>14, <1>15 DEF PoolInv

LEMMA PoolTakeShutdown ==
  ASSUME PoolInv, NEW r \in Ranks, TakeShutdown(r)
  PROVE  PoolInv'
<1>1. /\ worker[r] \in {"new", "idle"} /\ commands[r] # <<>> /\ Head(commands[r]).kind = "shutdown"
      /\ commands' = [commands EXCEPT ![r] = Tail(@)]
      /\ worker' = [worker EXCEPT ![r] = "exited"] /\ ctl' = ctl /\ iteration' = iteration
      /\ pending' = pending /\ collected' = collected /\ results' = results /\ current' = current
  BY DEF TakeShutdown
<1>2. /\ PoolTypes /\ worker \in [Ranks -> WorkerStates]
      /\ commands = [q \in Ranks |-> commands[q]]
  BY DEF PoolInv, PoolTypes
<1>3. ctl = "join" /\ worker[r] = "idle" /\ Tail(commands[r]) = <<>>
  BY <1>1, NextCommand
<1>4. /\ commands'[r] = <<>> /\ worker'[r] = "exited"
      /\ \A q \in Ranks : q # r => commands'[q] = commands[q] /\ worker'[q] = worker[q]
      /\ commands' = [q \in Ranks |-> commands'[q]]
  BY <1>1, <1>2, <1>3
<1>5. PoolTypes'
  BY <1>1, <1>2, <1>4 DEF PoolTypes, WorkerStates
<1>6. InIteration' /\ ResultsDiffer'
  BY <1>1, <1>3 DEF PoolInv, InIteration, ResultsDiffer
<1>7. BetweenIterations'
  BY <1>1, <1>3, <1>4 DEF PoolInv, BetweenIterations
<1>8. StartedTogether'
  BY <1>3, <1>4 DEF PoolInv, StartedTogether
<1> QED
  BY <1>5, <1>6, <1>7, <1>8 DEF PoolInv

LEMMA PoolUnchanged ==
  ASSUME PoolInv, UNCHANGED poolVars
  PROVE  PoolInv'
<1>1. Arrived' = Arrived /\ Taken' = Taken
  BY DEF poolVars, Arrived, Taken
<1>2. PoolTypes' /\ ResultsDiffer' /\ StartedTogether'
  BY DEF PoolInv, poolVars, PoolTypes, ResultsDiffer, StartedTogether
<1>3. InIteration'
  BY <1>1 DEF PoolInv, poolVars, InIteration, Answered, NotAsked, Asked, Working
<1>4. BetweenIterations'
  BY DEF PoolInv, poolVars, BetweenIterations
<1> QED
  BY <1>2, <1>3, <1>4 DEF PoolInv

LEMMA PoolStep == PoolInv /\ [PoolNext]_allVars => PoolInv'
<1> SUFFICES ASSUME PoolInv, [PoolNext]_allVars PROVE PoolInv'
  OBVIOUS
<1>1. CASE ControllerNext
  BY <1>1, PoolStartIteration, PoolDispatch, PoolCollect, PoolController DEF ControllerNext
<1>2. ASSUME NEW r \in Ranks, WorkerNext(r) PROVE PoolInv'
  <2>1. CASE MobsimStep(r)
    BY <2>1, PoolUnchanged DEF MobsimStep
  <2>2. ASSUME NEW q \in Ranks, SendFails(r, q) PROVE PoolInv'
    BY <2>2, PoolPanicked DEF SendFails
  <2> QED
    BY <1>2, <2>1, <2>2, PoolTakeRun, PoolInitialBarrier, PoolSendResult, PoolTakeShutdown
       DEF WorkerNext
<1>3. ASSUME NEW r \in Ranks, Panic(r) PROVE PoolInv'
  BY <1>3, PoolPanicked DEF Panic
<1>4. CASE UNCHANGED allVars
  BY <1>4, PoolUnchanged DEF allVars
<1> QED
  BY <1>1, <1>2, <1>3, <1>4 DEF PoolNext, PoolTerminated

-----------------------------------------------------------------------------
(* The theorems.                                                            *)

\* In every state of Controller::run each rank is in exactly one of the stages of an
\* iteration, and its one result is in the channel or with the controller.
THEOREM PoolInvariant == PoolSpec => []PoolInv
  BY PoolInitially, PoolStep, PTL DEF PoolSpec

\* Workers never work on two iterations at the same time, none ticks before all have
\* passed the initial barrier, and the assertions of MobsimWorkerPool::run_mobsim on the
\* results never fail, for any number of ranks and iterations, with and without panics.
THEOREM WorkersAlwaysInStep == PoolSpec => []WorkersInStep
<1>1. PoolInv => WorkersInStep
  <2> SUFFICES ASSUME PoolInv PROVE WorkersInStep
    OBVIOUS
  <2>1. ASSUME NEW r \in Ranks, NEW s \in Ranks, worker[r] = "running"
        PROVE  /\ worker[s] \notin {"new", "initial", "waiting"}
               /\ worker[s] = "running" => current[r] = current[s]
    <3>1. worker[s] = "running" => current[r] = current[s]
      BY <2>1, AtWork DEF Working
    <3> QED
      BY <2>1, <3>1 DEF PoolInv, StartedTogether
  <2>2. ASSUME NEW i \in 1..Len(results), NEW j \in 1..Len(collected), ctl = "collect"
        PROVE  results[i].rank # collected[j].rank
    BY <2>2 DEF PoolInv, InIteration, Arrived, Taken
  <2> QED
    BY <2>1, <2>2 DEF PoolInv, ResultsDiffer, WorkersInStep
<1> QED
  BY <1>1, PoolInvariant, PTL

\* When a worker has panicked the controller never merges the results of the others: it
\* waits or panics (run_mobsim counts the results of all ranks).
THEOREM PanicsNeverIgnored == PoolSpec => []PanicNotIgnored
<1>1. PoolInv => PanicNotIgnored
  BY DEF PoolInv, PoolTypes, BetweenIterations, PanicNotIgnored, ControllerStates
<1> QED
  BY <1>1, PoolInvariant, PTL
-----------------------------------------------------------------------------
(* The persons of an iteration.  Its mobsim is one run of SyncProtocol: a   *)
(* rank that has not taken its command is in its initial state, with the    *)
(* agents it will be sent, and one that has answered is where it stopped,   *)
(* with the agents of its answer.                                           *)

Elements(s) == {s[i] : i \in 1..Len(s)}
Replies == Elements(results) \cup Elements(collected)
Replied(r) == \E x \in Replies : x.rank = r
Answer(r) == UNION {x.agents : x \in {y \in Replies : y.rank = r}}

AtRest(r) == worker[r] \in {"new", "idle"}
Begun(r) == Replied(r) \/ ~AtRest(r)

RunPc == [r \in Ranks |-> IF Begun(r) THEN pc[r] ELSE PhaseAt(StartTick)]
RunTick == [r \in Ranks |-> IF Begun(r) THEN tick[r] ELSE StartTick]
RunAt == [r \in Ranks |-> IF Replied(r) THEN Answer(r)
                          ELSE IF AtRest(r) THEN {v \in input : Home[v] = r} ELSE at[r]]
RunUnsent == [r \in Ranks |-> IF Begun(r) THEN unsent[r] ELSE {}]
RunLoad == [r \in Ranks |-> IF Begun(r) THEN load[r] ELSE NoLoad]
RunExpected == [r \in Ranks |-> IF Begun(r) THEN expected[r] ELSE {}]
RunResult == [r \in Ranks |-> IF Begun(r) THEN result[r] ELSE {}]
RunCache == [r \in Ranks |-> IF Begun(r) THEN cache[r] ELSE {}]

Run == INSTANCE SyncProtocol_proofs
         WITH pc <- RunPc, tick <- RunTick, at <- RunAt, unsent <- RunUnsent,
              load <- RunLoad, expected <- RunExpected, result <- RunResult,
              cache <- RunCache

\* The variables of the ranks are functions of the ranks.
RankFunctions ==
  /\ pc = [r \in Ranks |-> pc[r]] /\ tick = [r \in Ranks |-> tick[r]]
  /\ at = [r \in Ranks |-> at[r]] /\ unsent = [r \in Ranks |-> unsent[r]]
  /\ load = [r \in Ranks |-> load[r]] /\ expected = [r \in Ranks |-> expected[r]]
  /\ result = [r \in Ranks |-> result[r]] /\ cache = [r \in Ranks |-> cache[r]]
  /\ chan = [r \in Ranks |-> chan[r]]

RunInv == Run!SyncInv /\ Run!VehicleInv /\ Run!NoneAfterEnd

\* The persons that are in no message of a channel.
Present == {v \in Vehicles : \A r \in Ranks : v \notin InChannel(r)}

\* In an iteration the mobsim is in a state of SyncProtocol with all persons; between two
\* the controller has those that are in no message, and no neighbour has left one.
PersonInv ==
  /\ RankFunctions
  /\ \A r \in Ranks : AtRest(r) => pc[r] = "done"
  /\ ctl \in {"dispatch", "collect"} => RunInv
  /\ ctl \notin {"dispatch", "collect", "panicked"} => LeftBehind
  /\ ctl = "merge" => UNION {collected[i].agents : i \in 1..Len(collected)} = Present
  /\ ctl \in {"start", "shutdown", "join", "finished"} => population = Present

LEMMA RunRanks == Run!RanksAssumption
  BY RanksAssumption DEF RanksAssumption, Run!RanksAssumption, IsFiniteSet, Run!IsFiniteSet

LEMMA RunReach == Run!ReachAssumption
  BY ReachAssumption DEF ReachAssumption, Run!ReachAssumption

LEMMA RunTicks == Run!TickAssumption
  BY TickAssumption DEF TickAssumption, Run!TickAssumption

\* A step of the mobsim changes nothing of a rank but its part of SyncProtocol.
LEMMA SameStage ==
  ASSUME UNCHANGED poolVars
  PROVE  /\ \A r \in Ranks : (Replied(r)' <=> Replied(r)) /\ (AtRest(r)' <=> AtRest(r))
         /\ \A r \in Ranks : Answer(r)' = Answer(r)
         /\ input' = input
<1>1. Replies' = Replies
  BY DEF poolVars, Replies
<1> QED
  BY <1>1 DEF poolVars, Replied, AtRest, Answer

LEMMA RunKeepsStep ==
  ASSUME RunInv, NEW r \in Ranks, Run!Step(r)
  PROVE  RunInv'
  BY RunRanks, RunReach, RunTicks, Run!StepInv, Run!VehicleStep, Run!EndStepping
     DEF RunInv

LEMMA RunKeepsBarrier ==
  ASSUME RunInv, NEW r \in Ranks, Run!BarrierWait(r)
  PROVE  RunInv'
  BY RunRanks, RunReach, RunTicks, Run!BarrierWaitInv, Run!VehicleBarrier, Run!EndBarrier
     DEF RunInv

LEMMA RunKeepsSend ==
  ASSUME RunInv, NEW r \in Ranks, NEW d \in Ranks, Run!Send(r, d)
  PROVE  RunInv'
  BY RunRanks, RunReach, RunTicks, Run!SendInv, Run!VehicleSend, Run!EndSend
     DEF RunInv

LEMMA RunKeepsRecv ==
  ASSUME RunInv, NEW r \in Ranks, Run!Recv(r)
  PROVE  RunInv'
  BY RunRanks, RunReach, RunTicks, Run!RecvInv, Run!VehicleRecv, Run!EndRecv
     DEF RunInv

LEMMA RunKeepsEndStep ==
  ASSUME RunInv, NEW r \in Ranks, Run!EndStep(r)
  PROVE  RunInv'
  BY RunRanks, RunReach, RunTicks, Run!EndStepInv, Run!VehicleEndStep, Run!EndEndStep
     DEF RunInv

\* A rank at work is in the run what it is in the pool.
LEMMA RunOfRank ==
  ASSUME NEW r \in Ranks, ~Replied(r), ~AtRest(r)
  PROVE  /\ RunPc[r] = pc[r] /\ RunTick[r] = tick[r] /\ RunAt[r] = at[r]
         /\ RunUnsent[r] = unsent[r] /\ RunLoad[r] = load[r]
         /\ RunExpected[r] = expected[r] /\ RunResult[r] = result[r] /\ RunCache[r] = cache[r]
  BY DEF Begun, RunPc, RunTick, RunAt, RunUnsent, RunLoad, RunExpected, RunResult, RunCache

\* A change of a rank at work is the same change of the run.
LEMMA RunChanges ==
  ASSUME RankFunctions, UNCHANGED poolVars, NEW r \in Ranks, ~Replied(r), ~AtRest(r), NEW x
  PROVE  /\ pc' = [pc EXCEPT ![r] = x] => RunPc' = [RunPc EXCEPT ![r] = x]
         /\ tick' = [tick EXCEPT ![r] = x] => RunTick' = [RunTick EXCEPT ![r] = x]
         /\ at' = [at EXCEPT ![r] = x] => RunAt' = [RunAt EXCEPT ![r] = x]
         /\ unsent' = [unsent EXCEPT ![r] = x] => RunUnsent' = [RunUnsent EXCEPT ![r] = x]
         /\ load' = [load EXCEPT ![r] = x] => RunLoad' = [RunLoad EXCEPT ![r] = x]
         /\ expected' = [expected EXCEPT ![r] = x] => RunExpected' = [RunExpected EXCEPT ![r] = x]
         /\ result' = [result EXCEPT ![r] = x] => RunResult' = [RunResult EXCEPT ![r] = x]
         /\ cache' = [cache EXCEPT ![r] = x] => RunCache' = [RunCache EXCEPT ![r] = x]
<1>1. /\ \A q \in Ranks : (Begun(q)' <=> Begun(q)) /\ (Replied(q)' <=> Replied(q))
                          /\ (AtRest(q)' <=> AtRest(q)) /\ Answer(q)' = Answer(q)
      /\ Begun(r) /\ input' = input
  BY SameStage DEF Begun
<1>2. ASSUME pc' = [pc EXCEPT ![r] = x] PROVE RunPc' = [RunPc EXCEPT ![r] = x]
  <2>1. \A q \in Ranks : pc'[q] = IF q = r THEN x ELSE pc[q]
    BY <1>2 DEF RankFunctions
  <2> QED
    BY <1>1, <2>1 DEF RunPc
<1>3. ASSUME tick' = [tick EXCEPT ![r] = x] PROVE RunTick' = [RunTick EXCEPT ![r] = x]
  <2>1. \A q \in Ranks : tick'[q] = IF q = r THEN x ELSE tick[q]
    BY <1>3 DEF RankFunctions
  <2> QED
    BY <1>1, <2>1 DEF RunTick
<1>4. ASSUME at' = [at EXCEPT ![r] = x] PROVE RunAt' = [RunAt EXCEPT ![r] = x]
  <2>1. \A q \in Ranks : at'[q] = IF q = r THEN x ELSE at[q]
    BY <1>4 DEF RankFunctions
  <2> QED
    BY <1>1, <2>1 DEF RunAt
<1>5. ASSUME unsent' = [unsent EXCEPT ![r] = x] PROVE RunUnsent' = [RunUnsent EXCEPT ![r] = x]
  <2>1. \A q \in Ranks : unsent'[q] = IF q = r THEN x ELSE unsent[q]
    BY <1>5 DEF RankFunctions
  <2> QED
    BY <1>1, <2>1 DEF RunUnsent
<1>6. ASSUME load' = [load EXCEPT ![r] = x] PROVE RunLoad' = [RunLoad EXCEPT ![r] = x]
  <2>1. \A q \in Ranks : load'[q] = IF q = r THEN x ELSE load[q]
    BY <1>6 DEF RankFunctions
  <2> QED
    BY <1>1, <2>1 DEF RunLoad
<1>7. ASSUME expected' = [expected EXCEPT ![r] = x]
      PROVE  RunExpected' = [RunExpected EXCEPT ![r] = x]
  <2>1. \A q \in Ranks : expected'[q] = IF q = r THEN x ELSE expected[q]
    BY <1>7 DEF RankFunctions
  <2> QED
    BY <1>1, <2>1 DEF RunExpected
<1>8. ASSUME result' = [result EXCEPT ![r] = x] PROVE RunResult' = [RunResult EXCEPT ![r] = x]
  <2>1. \A q \in Ranks : result'[q] = IF q = r THEN x ELSE result[q]
    BY <1>8 DEF RankFunctions
  <2> QED
    BY <1>1, <2>1 DEF RunResult
<1>9. ASSUME cache' = [cache EXCEPT ![r] = x] PROVE RunCache' = [RunCache EXCEPT ![r] = x]
  <2>1. \A q \in Ranks : cache'[q] = IF q = r THEN x ELSE cache[q]
    BY <1>9 DEF RankFunctions
  <2> QED
    BY <1>1, <2>1 DEF RunCache
<1> QED
  BY <1>2, <1>3, <1>4, <1>5, <1>6, <1>7, <1>8, <1>9

LEMMA RunSame ==
  ASSUME UNCHANGED poolVars
  PROVE  /\ pc' = pc => RunPc' = RunPc
         /\ tick' = tick => RunTick' = RunTick
         /\ at' = at => RunAt' = RunAt
         /\ unsent' = unsent => RunUnsent' = RunUnsent
         /\ load' = load => RunLoad' = RunLoad
         /\ expected' = expected => RunExpected' = RunExpected
         /\ result' = result => RunResult' = RunResult
         /\ cache' = cache => RunCache' = RunCache
<1>1. /\ \A q \in Ranks : (Begun(q)' <=> Begun(q)) /\ (Replied(q)' <=> Replied(q))
                          /\ (AtRest(q)' <=> AtRest(q)) /\ Answer(q)' = Answer(q)
      /\ input' = input
  BY SameStage DEF Begun
<1>2. pc' = pc => RunPc' = RunPc
  BY <1>1 DEF RunPc
<1>3. tick' = tick => RunTick' = RunTick
  BY <1>1 DEF RunTick
<1>4. at' = at => RunAt' = RunAt
  BY <1>1 DEF RunAt
<1>5. unsent' = unsent => RunUnsent' = RunUnsent
  BY <1>1 DEF RunUnsent
<1>6. load' = load => RunLoad' = RunLoad
  BY <1>1 DEF RunLoad
<1>7. expected' = expected => RunExpected' = RunExpected
  BY <1>1 DEF RunExpected
<1>8. result' = result => RunResult' = RunResult
  BY <1>1 DEF RunResult
<1>9. cache' = cache => RunCache' = RunCache
  BY <1>1 DEF RunCache
<1> QED
  BY <1>2, <1>3, <1>4, <1>5, <1>6, <1>7, <1>8, <1>9

\* Each step of a rank in the mobsim is that step of the run.
LEMMA StepOfRun ==
  ASSUME RankFunctions, UNCHANGED poolVars, NEW r \in Ranks, ~Replied(r), ~AtRest(r), Step(r)
  PROVE  Run!Step(r)
<1> DEFINE due == {m \in cache[r] : m.time <= tick[r]}
           phase == IF GlobalSync THEN "barrier" ELSE "exchange"
<1>1. /\ pc[r] = "step" /\ pc' = [pc EXCEPT ![r] = phase] /\ tick' = tick /\ chan' = chan
      /\ expected' = [expected EXCEPT ![r] = Nbr[r] \ {m.from : m \in due}]
      /\ result' = [result EXCEPT ![r] = due]
      /\ cache' = [cache EXCEPT ![r] = cache[r] \ due]
  BY DEF Step, PopFromCache
<1>2. PICK dest \in [at[r] -> Reach[r] \cup {r}] :
        /\ at' = [at EXCEPT ![r] = {v \in at[r] : dest[v] = r}]
        /\ unsent' = [unsent EXCEPT ![r] = Nbr[r] \cup ({dest[v] : v \in at[r]} \ {r})]
        /\ load' = [load EXCEPT ![r] =
                      [q \in Ranks |-> IF q = r THEN {} ELSE {v \in at[r] : dest[v] = q}]]
  BY DEF Step, PrepareSend
<1>3. /\ RunPc[r] = pc[r] /\ RunTick[r] = tick[r] /\ RunAt[r] = at[r] /\ RunCache[r] = cache[r]
  BY RunOfRank
<1>4. RunPc' = [RunPc EXCEPT ![r] = phase] /\ RunTick' = RunTick
  BY <1>1, RunChanges, RunSame
<1>5. /\ RunExpected' = [RunExpected EXCEPT ![r] = Nbr[r] \ {m.from : m \in due}]
      /\ RunResult' = [RunResult EXCEPT ![r] = due]
      /\ RunCache' = [RunCache EXCEPT ![r] = RunCache[r] \ due]
  <2> DEFINE late == Nbr[r] \ {m.from : m \in due}
             kept == cache[r] \ due
  <2>1. /\ expected' = [expected EXCEPT ![r] = late] /\ result' = [result EXCEPT ![r] = due]
        /\ cache' = [cache EXCEPT ![r] = kept]
    BY <1>1
  <2>2. kept = RunCache[r] \ due
    BY <1>3
  <2> HIDE DEF due, late, kept
  <2>3. /\ RunExpected' = [RunExpected EXCEPT ![r] = late]
        /\ RunResult' = [RunResult EXCEPT ![r] = due] /\ RunCache' = [RunCache EXCEPT ![r] = kept]
    BY <2>1, RunChanges
  <2> QED
    BY <2>2, <2>3 DEF late
<1>6. /\ RunAt' = [RunAt EXCEPT ![r] = {v \in at[r] : dest[v] = r}]
      /\ RunUnsent' = [RunUnsent EXCEPT ![r] = Nbr[r] \cup ({dest[v] : v \in at[r]} \ {r})]
      /\ RunLoad' = [RunLoad EXCEPT ![r] =
                      [q \in Ranks |-> IF q = r THEN {} ELSE {v \in at[r] : dest[v] = q}]]
  BY <1>2, RunChanges
<1>7. Run!PrepareSend(r)
  <2>1. dest \in [RunAt[r] -> Reach[r] \cup {r}]
    BY <1>3, Zenon
  <2>2. /\ RunAt' = [RunAt EXCEPT ![r] = {v \in RunAt[r] : dest[v] = r}]
        /\ RunUnsent' = [RunUnsent EXCEPT ![r] =
                           Nbr[r] \cup ({dest[v] : v \in RunAt[r]} \ {r})]
        /\ RunLoad' = [RunLoad EXCEPT ![r] =
                        [q \in Ranks |-> IF q = r THEN {} ELSE {v \in RunAt[r] : dest[v] = q}]]
    BY <1>3, <1>6, Zenon
  <2> QED
    BY <2>1, <2>2, Zenon DEF Run!PrepareSend
<1>8. Run!PopFromCache(r)
  BY <1>3, <1>5 DEF Run!PopFromCache
<1> QED
  BY <1>1, <1>3, <1>4, <1>7, <1>8 DEF Run!Step

LEMMA SendOfRun ==
  ASSUME RankFunctions, UNCHANGED poolVars, NEW r \in Ranks, ~Replied(r), ~AtRest(r),
         NEW d \in Ranks, Send(r, d)
  PROVE  Run!Send(r, d)
<1>1. /\ pc[r] = "exchange" /\ d \in unsent[r]
      /\ chan' = [chan EXCEPT ![d] =
                    Append(@, [from |-> r, time |-> tick[r], vehs |-> load[r][d]])]
      /\ unsent' = [unsent EXCEPT ![r] = unsent[r] \ {d}]
      /\ load' = [load EXCEPT ![r] = [load[r] EXCEPT ![d] = {}]]
      /\ pc' = pc /\ tick' = tick /\ at' = at /\ expected' = expected
      /\ result' = result /\ cache' = cache
  BY DEF Send
<1>2. /\ RunPc[r] = pc[r] /\ RunTick[r] = tick[r] /\ RunUnsent[r] = unsent[r]
      /\ RunLoad[r] = load[r]
  BY RunOfRank
<1>3. /\ RunUnsent' = [RunUnsent EXCEPT ![r] = RunUnsent[r] \ {d}]
      /\ RunLoad' = [RunLoad EXCEPT ![r] = [RunLoad[r] EXCEPT ![d] = {}]]
  BY <1>1, <1>2, RunChanges
<1>4. /\ RunPc' = RunPc /\ RunTick' = RunTick /\ RunAt' = RunAt /\ RunExpected' = RunExpected
      /\ RunResult' = RunResult /\ RunCache' = RunCache
  BY <1>1, RunSame
<1> QED
  BY <1>1, <1>2, <1>3, <1>4 DEF Run!Send

LEMMA RecvOfRun ==
  ASSUME RankFunctions, UNCHANGED poolVars, NEW r \in Ranks, ~Replied(r), ~AtRest(r), Recv(r)
  PROVE  Run!Recv(r)
<1> DEFINE m == Head(chan[r])
<1>1. /\ pc[r] = "exchange" /\ unsent[r] = {} /\ expected[r] # {} /\ chan[r] # <<>>
      /\ chan' = [chan EXCEPT ![r] = Tail(@)]
      /\ expected' = [expected EXCEPT ![r] =
                        IF m.time = tick[r] THEN expected[r] \ {m.from} ELSE expected[r]]
      /\ HandleIncoming(r, m)
      /\ pc' = pc /\ tick' = tick /\ at' = at /\ unsent' = unsent /\ load' = load
  BY DEF Recv
<1>2. /\ RunPc[r] = pc[r] /\ RunTick[r] = tick[r] /\ RunUnsent[r] = unsent[r]
      /\ RunExpected[r] = expected[r] /\ RunResult[r] = result[r] /\ RunCache[r] = cache[r]
  BY RunOfRank
<1>3. RunExpected' = [RunExpected EXCEPT ![r] =
                        IF m.time = tick[r] THEN expected[r] \ {m.from} ELSE expected[r]]
  BY <1>1, RunChanges
<1>4. Run!HandleIncoming(r, m)
  <2>1. CASE m.time <= tick[r]
    <3>1. result' = [result EXCEPT ![r] = result[r] \cup {m}] /\ cache' = cache
      BY <1>1, <2>1 DEF HandleIncoming
    <3>2. RunResult' = [RunResult EXCEPT ![r] = RunResult[r] \cup {m}] /\ RunCache' = RunCache
      BY <1>2, <3>1, RunChanges, RunSame
    <3> QED
      BY <1>2, <2>1, <3>2 DEF Run!HandleIncoming
  <2>2. CASE ~(m.time <= tick[r])
    <3>1. cache' = [cache EXCEPT ![r] = cache[r] \cup {m}] /\ result' = result
      BY <1>1, <2>2 DEF HandleIncoming
    <3>2. RunCache' = [RunCache EXCEPT ![r] = RunCache[r] \cup {m}] /\ RunResult' = RunResult
      BY <1>2, <3>1, RunChanges, RunSame
    <3> QED
      BY <1>2, <2>2, <3>2 DEF Run!HandleIncoming
  <2> QED
    BY <2>1, <2>2
<1>5. /\ RunPc' = RunPc /\ RunTick' = RunTick /\ RunAt' = RunAt /\ RunUnsent' = RunUnsent
      /\ RunLoad' = RunLoad
  BY <1>1, RunSame
<1> QED
  BY <1>1, <1>2, <1>3, <1>4, <1>5 DEF Run!Recv

LEMMA EndStepOfRun ==
  ASSUME RankFunctions, UNCHANGED poolVars, NEW r \in Ranks, ~Replied(r), ~AtRest(r), EndStep(r)
  PROVE  Run!EndStep(r)
<1>1. /\ pc[r] = "exchange" /\ unsent[r] = {} /\ expected[r] = {}
      /\ at' = [at EXCEPT ![r] = at[r] \cup UNION {m.vehs : m \in result[r]}]
      /\ result' = [result EXCEPT ![r] = {}]
      /\ tick' = [tick EXCEPT ![r] = tick[r] + 1]
      /\ pc' = [pc EXCEPT ![r] = PhaseAt(tick[r] + 1)]
      /\ unsent' = unsent /\ load' = load /\ expected' = expected /\ cache' = cache /\ chan' = chan
  BY DEF EndStep
<1>2. /\ RunPc[r] = pc[r] /\ RunTick[r] = tick[r] /\ RunUnsent[r] = unsent[r]
      /\ RunExpected[r] = expected[r] /\ RunResult[r] = result[r] /\ RunAt[r] = at[r]
  BY RunOfRank
<1>3. /\ RunAt' = [RunAt EXCEPT ![r] = RunAt[r] \cup UNION {m.vehs : m \in RunResult[r]}]
      /\ RunResult' = [RunResult EXCEPT ![r] = {}]
      /\ RunTick' = [RunTick EXCEPT ![r] = RunTick[r] + 1]
      /\ RunPc' = [RunPc EXCEPT ![r] = PhaseAt(RunTick[r] + 1)]
  BY <1>1, <1>2, RunChanges
<1>4. /\ RunUnsent' = RunUnsent /\ RunLoad' = RunLoad /\ RunExpected' = RunExpected
      /\ RunCache' = RunCache
  BY <1>1, RunSame
<1> QED
  BY <1>1, <1>2, <1>3, <1>4 DEF Run!EndStep, PhaseAt, Run!PhaseAt

\* The barrier of a tick opens when all ranks have arrived; none of them is at rest.
LEMMA BarrierOfRun ==
  ASSUME RankFunctions, UNCHANGED poolVars, NEW r \in Ranks, ~Replied(r), ~AtRest(r),
         \A q \in Ranks : AtRest(q) => pc[q] = "done", BarrierWait(r)
  PROVE  Run!BarrierWait(r)
<1>1. /\ pc[r] = "barrier" /\ tick' = tick /\ at' = at /\ unsent' = unsent /\ load' = load
      /\ expected' = expected /\ result' = result /\ cache' = cache /\ chan' = chan
  BY DEF BarrierWait
<1>2. /\ RunPc[r] = pc[r] /\ RunTick' = RunTick /\ RunAt' = RunAt /\ RunUnsent' = RunUnsent
      /\ RunLoad' = RunLoad /\ RunExpected' = RunExpected /\ RunResult' = RunResult
      /\ RunCache' = RunCache
  BY <1>1, RunSame, RunOfRank
<1>3. \A q \in Ranks : RunPc[q] = "blocked" <=> pc[q] = "blocked"
  BY DEF RunPc, Begun, PhaseAt
<1>4. CASE \A s \in Ranks \ {r} : pc[s] = "blocked"
  <2>1. pc' = [s \in Ranks |-> "exchange"]
    BY <1>4 DEF BarrierWait
  <2>2. \A q \in Ranks : Begun(q)'
    BY <1>4, SameStage DEF Begun
  <2>3. RunPc' = [s \in Ranks |-> "exchange"]
    BY <2>1, <2>2 DEF RunPc
  <2> QED
    BY <1>1, <1>2, <1>3, <1>4, <2>3 DEF Run!BarrierWait
<1>5. CASE ~(\A s \in Ranks \ {r} : pc[s] = "blocked")
  <2>1. pc' = [pc EXCEPT ![r] = "blocked"]
    BY <1>5 DEF BarrierWait
  <2>2. RunPc' = [RunPc EXCEPT ![r] = "blocked"]
    BY <2>1, RunChanges
  <2> QED
    BY <1>1, <1>2, <1>3, <1>5, <2>2 DEF Run!BarrierWait
<1> QED
  BY <1>4, <1>5

-----------------------------------------------------------------------------
(* The steps of the pool keep PersonInv.                                    *)

LEMMA RunKeepsUnchanged ==
  ASSUME RunInv, Run!vars' = Run!vars
  PROVE  RunInv'
  BY RunRanks, RunReach, RunTicks, Run!UnchangedInv, Run!VehicleUnchanged, Run!EndUnchanged
     DEF RunInv

\* A fact about every state is one about the next.
LEMMA RunBegins == (Run!Begins)' => RunInv'
<1>1. Run!Begins => RunInv
  BY RunRanks, RunReach, RunTicks, Run!InitInv, Run!VehicleInit, Run!EndBegins DEF RunInv
<1> QED
  BY <1>1, PTL

LEMMA RepliedRanks == \A r : Replied(r) <=> r \in Arrived \cup Taken
  BY DEF Replied, Replies, Elements, Arrived, Taken

\* A step that neither moves a rank nor changes the stage it is in.
LEMMA RunKept ==
  ASSUME RunInv, UNCHANGED vars, input' = input,
         \A q \in Ranks : (Replied(q)' <=> Replied(q)) /\ (AtRest(q)' <=> AtRest(q))
                          /\ Answer(q)' = Answer(q)
  PROVE  RunInv'
<1>1. /\ pc' = pc /\ tick' = tick /\ at' = at /\ unsent' = unsent /\ load' = load
      /\ expected' = expected /\ result' = result /\ cache' = cache /\ chan' = chan
  BY DEF vars
<1>2. \A q \in Ranks : Begun(q)' <=> Begun(q)
  BY DEF Begun
<1>3. RunPc' = RunPc /\ RunTick' = RunTick /\ RunAt' = RunAt /\ RunUnsent' = RunUnsent
  BY <1>1, <1>2 DEF RunPc, RunTick, RunAt, RunUnsent
<1>4. RunLoad' = RunLoad /\ RunExpected' = RunExpected /\ RunResult' = RunResult /\ RunCache' = RunCache
  BY <1>1, <1>2 DEF RunLoad, RunExpected, RunResult, RunCache
<1>5. Run!vars' = Run!vars
  BY <1>1, <1>3, <1>4 DEF Run!vars
<1> QED
  BY <1>5, RunKeepsUnchanged

\* A step in an iteration that leaves the channels alone.
LEMMA PersonInIteration ==
  ASSUME PersonInv, ctl' \in {"dispatch", "collect"}, UNCHANGED vars,
         RunInv',
         \A r \in Ranks : AtRest(r)' <=> AtRest(r)
  PROVE  PersonInv'
<1>1. RankFunctions'
  BY DEF PersonInv, RankFunctions, vars
<1>2. \A r \in Ranks : AtRest(r)' => pc'[r] = "done"
  BY DEF PersonInv, vars
<1> QED
  BY <1>1, <1>2 DEF PersonInv

LEMMA PersonInitially == PoolInit => PersonInv
<1> SUFFICES ASSUME PoolInit PROVE PersonInv
  OBVIOUS
<1>1. RankFunctions
  BY DEF PoolInit, RankFunctions
<1>2. /\ ctl = "start" /\ population = Vehicles /\ chan = [r \in Ranks |-> <<>>]
      /\ pc = [r \in Ranks |-> "done"]
  BY DEF PoolInit
<1>3. \A r \in Ranks : Len(chan[r]) = 0
  BY <1>2
<1>4. LeftBehind
  BY <1>2, <1>3 DEF LeftBehind
<1>5. Present = Vehicles
  BY <1>3 DEF Present, InChannel
<1> QED
  BY <1>1, <1>2, <1>4, <1>5 DEF PersonInv

LEMMA PersonStartIteration ==
  ASSUME PoolInv, PersonInv, StartIteration
  PROVE  PersonInv'
<1>1. /\ ctl = "start" /\ ctl' = "dispatch" /\ collected' = <<>> /\ results' = results
      /\ input' = population /\ worker' = worker /\ UNCHANGED vars
  BY DEF StartIteration
<1>2. /\ results = <<>> /\ \A r \in Ranks : worker[r] \in {"new", "idle"}
      /\ population = Present /\ LeftBehind /\ RankFunctions
  BY <1>1 DEF PoolInv, BetweenIterations, PersonInv
<1>3. Replies' = {}
  BY <1>1, <1>2, EmptySequence DEF Replies, Elements
<1>4. \A r \in Ranks : ~Replied(r)' /\ AtRest(r)' /\ AtRest(r) /\ ~Begun(r)'
  BY <1>1, <1>2, <1>3 DEF Replied, AtRest, Begun
<1>5. /\ RunPc' = [r \in Ranks |-> PhaseAt(StartTick)]
      /\ RunTick' = [r \in Ranks |-> StartTick]
      /\ RunAt' = [r \in Ranks |-> {v \in Present : Home[v] = r}]
      /\ RunUnsent' = [r \in Ranks |-> {}]
  BY <1>1, <1>2, <1>4 DEF RunPc, RunTick, RunAt, RunUnsent
<1>6. /\ RunLoad' = [r \in Ranks |-> NoLoad]
      /\ RunExpected' = [r \in Ranks |-> {}]
      /\ RunResult' = [r \in Ranks |-> {}]
      /\ RunCache' = [r \in Ranks |-> {}]
      /\ chan' = chan
  BY <1>1, <1>2, <1>4 DEF RunLoad, RunExpected, RunResult, RunCache, vars
<1>7. (Run!Begins)'
  <2>1. Home \in [Vehicles -> Ranks]
    BY PoolAssumption DEF PoolAssumption
  <2>2. (Run!LeftBehind)'
    <3>1. (Run!Messages)' = Messages
      BY DEF Messages, Run!Messages
    <3>2. chan' \in [Ranks -> Seq((Run!Messages)')]
      BY <1>2, <1>6, <3>1, Zenon DEF LeftBehind
    <3>3. \A r \in Ranks : \A i \in 1..Len(chan'[r]) :
            /\ chan'[r][i].from \notin Nbr[r] /\ r \in Reach[chan'[r][i].from]
            /\ chan'[r][i].time <= EndTick
      BY <1>2, <1>6 DEF LeftBehind
    <3>4. \A r, s \in Ranks : \A i \in 1..Len(chan'[r]), j \in 1..Len(chan'[s]) :
            \A v \in Vehicles :
              v \in chan'[r][i].vehs /\ v \in chan'[s][j].vehs => r = s /\ i = j
      BY <1>2, <1>6 DEF LeftBehind
    <3> QED
      BY <3>2, <3>3, <3>4 DEF Run!LeftBehind
  <2>3. \A r \in Ranks, v \in Vehicles :
          v \in Present <=> \A s \in Ranks : v \notin (Run!InChannel(s))'
    BY <1>6 DEF Present, InChannel, Run!InChannel
  <2>4. RunAt' = [r \in Ranks |-> {v \in Vehicles : Home[v] = r
                                      /\ \A s \in Ranks : v \notin (Run!InChannel(s))'}]
    <3>1. \A r \in Ranks : {v \in Present : Home[v] = r}
            = {v \in Vehicles : Home[v] = r /\ \A s \in Ranks : v \notin (Run!InChannel(s))'}
      BY <2>3 DEF Present
    <3> QED
      BY <1>5, <3>1
  <2> QED
    BY <1>5, <1>6, <2>1, <2>2, <2>4 DEF Run!Begins, PhaseAt, Run!PhaseAt, NoLoad, Run!NoLoad
<1>8. RunInv'
  BY <1>7, RunBegins
<1> QED
  BY <1>1, <1>2, <1>4, <1>8, PersonInIteration

LEMMA PersonDispatch ==
  ASSUME PoolInv, PersonInv, NEW r \in Ranks, Dispatch(r)
  PROVE  PersonInv'
<1>1. /\ ctl = "dispatch" /\ ctl' \in {"dispatch", "collect"} /\ input' = input
      /\ collected' = collected /\ results' = results /\ worker' = worker /\ UNCHANGED vars
  BY DEF Dispatch
<1>2. RunInv
  BY <1>1 DEF PersonInv
<1>3. Replies' = Replies
  BY <1>1 DEF Replies
<1>4. \A q \in Ranks : (Replied(q)' <=> Replied(q)) /\ (AtRest(q)' <=> AtRest(q))
                       /\ Answer(q)' = Answer(q)
  BY <1>1, <1>3 DEF Replied, AtRest, Answer
<1>5. RunInv'
  BY <1>1, <1>2, <1>4, RunKept
<1> QED
  BY <1>1, <1>2, <1>4, <1>5, PersonInIteration

\* What the controller takes from the channel it has then.
LEMMA ElementsMoved ==
  ASSUME NEW s, NEW c, IsSequence(s), IsSequence(c), s # <<>>
  PROVE  Elements(Tail(s)) \cup Elements(Append(c, Head(s))) = Elements(s) \cup Elements(c)
<1> DEFINE h == Head(s)
<1>1. /\ h = s[1] /\ Len(s) \in Nat /\ Len(s) >= 1 /\ Len(Tail(s)) = Len(s) - 1
      /\ \A i \in 1..Len(Tail(s)) : i + 1 \in 1..Len(s) /\ Tail(s)[i] = s[i + 1]
  BY TailSequence
<1> HIDE DEF h
<1>2. /\ Len(c) \in Nat /\ Len(Append(c, h)) = Len(c) + 1
      /\ \A i \in 1..Len(c) : Append(c, h)[i] = c[i]
      /\ Append(c, h)[Len(c) + 1] = h
  BY AppendSequence
<1> DEFINE T == {Tail(s)[i] : i \in 1..Len(Tail(s))}
           A == {Append(c, h)[i] : i \in 1..Len(Append(c, h))}
           S == {s[i] : i \in 1..Len(s)}
           C == {c[i] : i \in 1..Len(c)}
<1>3. \A x \in T : x \in S
  BY <1>1
<1>4. \A x \in S : x \in T \/ x = h
  <2> SUFFICES ASSUME NEW i \in 1..Len(s), i # 1 PROVE s[i] \in T
    BY <1>1
  <2>1. i - 1 \in 1..Len(Tail(s)) /\ (i - 1) + 1 = i
    BY <1>1
  <2>2. Tail(s)[i - 1] = s[i]
    BY <1>1, <2>1
  <2> QED
    BY <2>1, <2>2
<1>5. h \in S
  BY <1>1
<1>6. \A x \in A : x \in C \/ x = h
  <2> SUFFICES ASSUME NEW i \in 1..Len(Append(c, h)) PROVE Append(c, h)[i] \in C \cup {h}
    OBVIOUS
  <2>1. i \in 1..Len(c) \/ i = Len(c) + 1
    BY <1>2
  <2> QED
    BY <1>2, <2>1
<1>7. \A x \in C : x \in A
  <2> SUFFICES ASSUME NEW i \in 1..Len(c) PROVE c[i] \in A
    OBVIOUS
  <2>1. i \in 1..Len(Append(c, h)) /\ Append(c, h)[i] = c[i]
    BY <1>2
  <2> QED
    BY <2>1
<1>8. h \in A
  <2>1. Len(c) + 1 \in 1..Len(Append(c, h)) /\ Append(c, h)[Len(c) + 1] = h
    BY <1>2
  <2> QED
    BY <2>1
<1> HIDE DEF T, A, S, C
<1>9. T \cup A = S \cup C
  BY <1>3, <1>4, <1>5, <1>6, <1>7, <1>8
<1> QED
  BY <1>9, Zenon DEF Elements, T, A, S, C, h

\* When the last result is in, the agents of the results are all persons.
LEMMA PersonCollect ==
  ASSUME PoolInv, PoolInv', PersonInv, Collect
  PROVE  PersonInv'
<1>1. /\ ctl = "collect" /\ results # <<>> /\ results' = Tail(results)
      /\ input' = input /\ worker' = worker /\ UNCHANGED vars
      /\ \/ ctl' = "panicked"
         \/ /\ collected' = Append(collected, Head(results))
            /\ ctl' \in {"merge", "collect"}
  BY DEF Collect
<1>2. RunInv /\ IsSequence(results) /\ IsSequence(collected)
  BY <1>1 DEF PersonInv, PoolInv, PoolTypes
<1>3. RankFunctions' /\ \A r \in Ranks : (AtRest(r)' <=> AtRest(r)) /\ (AtRest(r)' => pc'[r] = "done")
  BY <1>1 DEF PersonInv, RankFunctions, AtRest, vars
<1>4. CASE ctl' = "panicked"
  BY <1>3, <1>4 DEF PersonInv
<1>5. CASE collected' = Append(collected, Head(results)) /\ ctl' \in {"merge", "collect"}
  <2>1. Replies' = Replies
    <3>1. Elements(Tail(results)) \cup Elements(Append(collected, Head(results)))
            = Elements(results) \cup Elements(collected)
      BY <1>1, <1>2, ElementsMoved
    <3> QED
      BY <1>1, <1>5, <3>1, Zenon DEF Replies
  <2>2. \A q \in Ranks : (Replied(q)' <=> Replied(q)) /\ Answer(q)' = Answer(q)
    BY <2>1 DEF Replied, Answer
  <2>3. CASE ctl' = "collect"
    <3>1. RunInv'
      BY <1>1, <1>2, <1>3, <2>2, RunKept
    <3> QED
      BY <1>1, <1>2, <1>3, <2>3, <3>1, PersonInIteration
  <2>4. CASE ctl' = "merge"
    <3>1. results' = <<>> /\ \A r \in Ranks : worker[r] = "idle"
      BY <1>1, <2>4 DEF PoolInv, BetweenIterations
    <3>2. InIteration /\ Arrived \subseteq Ranks /\ Taken \subseteq Ranks
      BY <1>1 DEF PoolInv, InIteration
    <3>3. \A r \in Ranks : Replied(r)
      <4>1. \A r \in Ranks : r \notin Arrived \cup Taken => Asked(r)
        BY <1>1, <3>1, <3>2 DEF InIteration, NotAsked, Working
      <4>2. \A r \in Ranks : commands'[r] = <<>> /\ commands' = commands
        BY <1>1, <2>4 DEF PoolInv, BetweenIterations, Collect
      <4>3. ASSUME NEW r \in Ranks, Asked(r) PROVE FALSE
        <5>1. commands[r] = <<>> /\ commands[r] = <<RunMobsim(iteration, {v \in input : Home[v] = r})>>
          BY <4>2, <4>3 DEF Asked
        <5> QED
          BY <5>1
      <4> QED
        BY <4>1, <4>3, RepliedRanks
    <3>4. \A r \in Ranks : RunPc[r] = "done" /\ RunAt[r] = Answer(r)
      BY <3>1, <3>3 DEF PersonInv, AtRest, RunPc, RunAt, Begun
    <3>5. Run!AllDone
      BY <3>4 DEF Run!AllDone
    <3>6. /\ Run!LeftBehind
          /\ UNION {RunAt[r] : r \in Ranks}
               = {v \in Vehicles : \A r \in Ranks : v \notin Run!InChannel(r)}
      BY <1>2, <3>5, RunRanks, RunReach, RunTicks, Run!AllArrive DEF RunInv
    <3>7. LeftBehind /\ UNION {RunAt[r] : r \in Ranks} = Present
      BY <3>6 DEF LeftBehind, Run!LeftBehind, Messages, Run!Messages, Present, InChannel,
                  Run!InChannel
    <3>8. LeftBehind' /\ Present' = Present
      BY <1>1, <3>7 DEF vars, LeftBehind, Present, InChannel
    <3>9. Elements(collected') = Replies
      <4>1. Len(results') = 0
        BY <3>1, EmptySequence
      <4>2. Elements(results') = {}
        BY <4>1 DEF Elements
      <4>3. Replies' = Elements(results') \cup Elements(collected')
        BY Zenon DEF Replies
      <4> QED
        BY <2>1, <4>2, <4>3
    <3>10. UNION {collected'[i].agents : i \in 1..Len(collected')} = UNION {x.agents : x \in Replies}
      BY <3>9 DEF Elements
    <3>11. \A x \in Replies : x.rank \in Ranks
      BY <3>2 DEF Replies, Elements, Arrived, Taken
    <3>12. UNION {x.agents : x \in Replies} = UNION {RunAt[r] : r \in Ranks}
      BY <3>4, <3>11 DEF Answer
    <3> QED
      BY <1>3, <2>4, <3>7, <3>8, <3>10, <3>12 DEF PersonInv
  <2> QED
    BY <1>5, <2>3, <2>4
<1> QED
  BY <1>1, <1>4, <1>5

\* The other steps of the controller are outside of the mobsim.
LEMMA PersonController ==
  ASSUME PersonInv, CollectFails \/ EndIteration \/ SendShutdown \/ Join
  PROVE  PersonInv'
<1>1. UNCHANGED vars /\ worker' = worker
  BY DEF CollectFails, EndIteration, SendShutdown, Join
<1>2. /\ RankFunctions' /\ (\A r \in Ranks : AtRest(r)' => pc'[r] = "done")
      /\ (LeftBehind' <=> LeftBehind) /\ Present' = Present
  BY <1>1 DEF PersonInv, RankFunctions, AtRest, vars, LeftBehind, Present, InChannel
<1>3. CASE CollectFails
  BY <1>2, <1>3 DEF PersonInv, CollectFails
<1>4. CASE EndIteration
  <2>1. /\ ctl = "merge" /\ ctl' \in {"start", "shutdown"}
        /\ population' = UNION {collected[i].agents : i \in 1..Len(collected)}
    BY <1>4 DEF EndIteration
  <2> QED
    BY <1>2, <2>1 DEF PersonInv
<1>5. CASE SendShutdown
  BY <1>2, <1>5 DEF PersonInv, SendShutdown
<1>6. CASE Join
  BY <1>2, <1>6 DEF PersonInv, Join
<1> QED
  BY <1>3, <1>4, <1>5, <1>6

\* A worker takes the command that was meant for it: the rank begins in its initial
\* state, with the agents that start there.
LEMMA PersonTakeRun ==
  ASSUME PoolInv, PersonInv, NEW r \in Ranks, TakeRun(r)
  PROVE  PersonInv'
<1>1. /\ AtRest(r) /\ commands[r] # <<>> /\ Head(commands[r]).kind = "run"
      /\ worker' = [worker EXCEPT ![r] = IF @ = "new" THEN "initial" ELSE "running"]
      /\ at' = [at EXCEPT ![r] = Head(commands[r]).agents]
      /\ tick' = [tick EXCEPT ![r] = StartTick]
      /\ pc' = [pc EXCEPT ![r] = PhaseAt(StartTick)]
      /\ cache' = [cache EXCEPT ![r] = {}] /\ expected' = [expected EXCEPT ![r] = {}]
      /\ result' = [result EXCEPT ![r] = {}] /\ unsent' = [unsent EXCEPT ![r] = {}]
      /\ load' = [load EXCEPT ![r] = NoLoad] /\ chan' = chan
      /\ ctl' = ctl /\ input' = input /\ collected' = collected /\ results' = results
  BY DEF TakeRun, AtRest
<1>2. /\ ctl \in {"dispatch", "collect"} /\ r \notin Arrived \cup Taken
      /\ Head(commands[r]) = RunMobsim(iteration, {v \in input : Home[v] = r})
  BY <1>1, NextCommand DEF AtRest
<1>3. ~Replied(r) /\ Head(commands[r]).agents = {v \in input : Home[v] = r}
  BY <1>2, RepliedRanks DEF RunMobsim
<1>4. RankFunctions /\ worker \in [Ranks -> WorkerStates]
  BY DEF PersonInv, PoolInv, PoolTypes
<1>5. /\ ~AtRest(r)' /\ \A q \in Ranks : q # r => (AtRest(q)' <=> AtRest(q))
      /\ \A q \in Ranks : (Replied(q)' <=> Replied(q)) /\ Answer(q)' = Answer(q)
  <2>1. ~AtRest(r)' /\ \A q \in Ranks : q # r => (AtRest(q)' <=> AtRest(q))
    BY <1>1, <1>4 DEF AtRest
  <2>2. Replies' = Replies
    BY <1>1 DEF Replies
  <2> QED
    BY <2>1, <2>2 DEF Replied, Answer
<1>6. /\ ~Begun(r) /\ Begun(r)' /\ \A q \in Ranks : q # r => (Begun(q)' <=> Begun(q))
  BY <1>1, <1>3, <1>5 DEF Begun
<1>7. RunPc' = RunPc
  <2>1. \A q \in Ranks : pc'[q] = IF q = r THEN PhaseAt(StartTick) ELSE pc[q]
    BY <1>1, <1>4 DEF RankFunctions
  <2> QED
    BY <1>6, <2>1 DEF RunPc
<1>8. RunTick' = RunTick
  <2>1. \A q \in Ranks : tick'[q] = IF q = r THEN StartTick ELSE tick[q]
    BY <1>1, <1>4 DEF RankFunctions
  <2> QED
    BY <1>6, <2>1 DEF RunTick
<1>9. RunAt' = RunAt
  <2>1. \A q \in Ranks : at'[q] = IF q = r THEN {v \in input : Home[v] = r} ELSE at[q]
    BY <1>1, <1>3, <1>4 DEF RankFunctions
  <2>2. ASSUME NEW q \in Ranks
        PROVE  (IF Replied(q)' THEN Answer(q)'
                ELSE IF AtRest(q)' THEN {v \in input' : Home[v] = q} ELSE at'[q])
               = (IF Replied(q) THEN Answer(q)
                  ELSE IF AtRest(q) THEN {v \in input : Home[v] = q} ELSE at[q])
    <3>1. CASE q = r
      BY <1>1, <1>3, <1>5, <2>1, <3>1
    <3>2. CASE q # r
      BY <1>1, <1>5, <2>1, <3>2
    <3> QED
      BY <3>1, <3>2
  <2> QED
    BY <2>2, Zenon DEF RunAt
<1>10. RunUnsent' = RunUnsent
  <2>1. \A q \in Ranks : unsent'[q] = IF q = r THEN {} ELSE unsent[q]
    BY <1>1, <1>4 DEF RankFunctions
  <2> QED
    BY <1>6, <2>1 DEF RunUnsent
<1>11. RunLoad' = RunLoad
  <2>1. \A q \in Ranks : load'[q] = IF q = r THEN NoLoad ELSE load[q]
    BY <1>1, <1>4 DEF RankFunctions
  <2> QED
    BY <1>6, <2>1 DEF RunLoad
<1>12. RunExpected' = RunExpected
  <2>1. \A q \in Ranks : expected'[q] = IF q = r THEN {} ELSE expected[q]
    BY <1>1, <1>4 DEF RankFunctions
  <2> QED
    BY <1>6, <2>1 DEF RunExpected
<1>13. RunResult' = RunResult
  <2>1. \A q \in Ranks : result'[q] = IF q = r THEN {} ELSE result[q]
    BY <1>1, <1>4 DEF RankFunctions
  <2> QED
    BY <1>6, <2>1 DEF RunResult
<1>14. RunCache' = RunCache
  <2>1. \A q \in Ranks : cache'[q] = IF q = r THEN {} ELSE cache[q]
    BY <1>1, <1>4 DEF RankFunctions
  <2> QED
    BY <1>6, <2>1 DEF RunCache
<1>15. Run!vars' = Run!vars
  BY <1>1, <1>7, <1>8, <1>9, <1>10, <1>11, <1>12, <1>13, <1>14 DEF Run!vars
<1>16. RunInv'
  BY <1>2, <1>15, RunKeepsUnchanged DEF PersonInv
<1>17. RankFunctions'
  BY <1>1, <1>4 DEF RankFunctions
<1>18. \A q \in Ranks : AtRest(q)' => pc'[q] = "done"
  BY <1>1, <1>4, <1>5 DEF PersonInv, RankFunctions
<1> QED
  BY <1>1, <1>2, <1>16, <1>17, <1>18 DEF PersonInv

\* A rank's result has the agents that its engines held when the mobsim ended, and
\* nothing else was left in its broker.
LEMMA PersonSendResult ==
  ASSUME PoolInv, PersonInv, NEW r \in Ranks, SendResult(r)
  PROVE  PersonInv'
<1> DEFINE res == [rank |-> r, iteration |-> current[r], agents |-> at[r]]
<1>1. /\ worker[r] = "running" /\ pc[r] = "done" /\ results' = Append(results, res)
      /\ at' = [at EXCEPT ![r] = {}] /\ cache' = [cache EXCEPT ![r] = {}]
      /\ worker' = [worker EXCEPT ![r] = "idle"] /\ pc' = pc /\ tick' = tick
      /\ unsent' = unsent /\ load' = load /\ expected' = expected /\ result' = result
      /\ chan' = chan /\ ctl' = ctl /\ input' = input /\ collected' = collected
  BY DEF SendResult
<1>2. ctl \in {"dispatch", "collect"} /\ r \notin Arrived \cup Taken
  BY <1>1, AtWork
<1>3. ~Replied(r) /\ ~AtRest(r)
  BY <1>1, <1>2, RepliedRanks DEF AtRest
<1>4. RankFunctions /\ worker \in [Ranks -> WorkerStates] /\ IsSequence(results)
  BY DEF PersonInv, PoolInv, PoolTypes
<1>5. RunInv
  BY <1>2 DEF PersonInv
<1>6. res.rank = r /\ res.agents = at[r]
  OBVIOUS
<1> HIDE DEF res
<1>7. Replies' = Replies \cup {res}
  <2>1. Elements(Append(results, res)) = Elements(results) \cup {res}
    <3>1. /\ Len(results) \in Nat /\ Len(Append(results, res)) = Len(results) + 1
          /\ \A i \in 1..Len(results) : Append(results, res)[i] = results[i]
          /\ Append(results, res)[Len(results) + 1] = res
      BY <1>4, AppendSequence
    <3>2. \A i : i \in 1..Len(Append(results, res)) <=> (i \in 1..Len(results) \/ i = Len(results) + 1)
      BY <3>1
    <3>3. ASSUME NEW x \in Elements(Append(results, res)) PROVE x \in Elements(results) \cup {res}
      BY <3>1, <3>2 DEF Elements
    <3>4. ASSUME NEW x \in Elements(results) \cup {res} PROVE x \in Elements(Append(results, res))
      BY <3>1, <3>2 DEF Elements
    <3> QED
      BY <3>3, <3>4
  <2> QED
    BY <1>1, <2>1 DEF Replies
<1>8. /\ Replied(r)' /\ Answer(r)' = at[r]
      /\ \A q \in Ranks : q # r => (Replied(q)' <=> Replied(q)) /\ Answer(q)' = Answer(q)
  <2>1. Replied(r)' /\ \A q \in Ranks : q # r => (Replied(q)' <=> Replied(q))
    BY <1>6, <1>7 DEF Replied
  <2>2. {y \in Replies' : y.rank = r} = {res}
    BY <1>3, <1>6, <1>7 DEF Replied
  <2>3. \A q \in Ranks : q # r => {y \in Replies' : y.rank = q} = {y \in Replies : y.rank = q}
    BY <1>6, <1>7
  <2>4. Answer(r)' = UNION {x.agents : x \in {y \in Replies' : y.rank = r}}
    BY Zenon DEF Answer
  <2>5. Answer(r)' = at[r]
    BY <1>6, <2>2, <2>4
  <2>6. ASSUME NEW q \in Ranks, q # r PROVE Answer(q)' = Answer(q)
    <3>1. Answer(q)' = UNION {x.agents : x \in {y \in Replies' : y.rank = q}}
      BY Zenon DEF Answer
    <3> QED
      BY <2>3, <2>6, <3>1, Zenon DEF Answer
  <2> QED
    BY <2>1, <2>5, <2>6
<1>9. AtRest(r)' /\ \A q \in Ranks : q # r => (AtRest(q)' <=> AtRest(q))
  BY <1>1, <1>4 DEF AtRest
<1>10. Begun(r) /\ \A q \in Ranks : Begun(q)' <=> Begun(q)
  BY <1>3, <1>8, <1>9 DEF Begun
<1>11. cache[r] = {}
  <2>1. RunPc[r] = "done" /\ RunCache[r] = cache[r]
    BY <1>1, <1>3, RunOfRank
  <2>2. Run!NothingPending
    BY <1>5 DEF RunInv, Run!VehicleInv
  <2> QED
    BY <1>5, <2>1, <2>2, RunRanks, RunReach, RunTicks, Run!DoneIsEmpty DEF RunInv
<1>12. cache' = cache
  BY <1>1, <1>4, <1>11 DEF RankFunctions
<1>13. RunAt' = RunAt
  <2>1. \A q \in Ranks : q # r => at'[q] = at[q]
    BY <1>1, <1>4 DEF RankFunctions
  <2>2. ASSUME NEW q \in Ranks
        PROVE  (IF Replied(q)' THEN Answer(q)'
                ELSE IF AtRest(q)' THEN {v \in input' : Home[v] = q} ELSE at'[q])
               = (IF Replied(q) THEN Answer(q)
                  ELSE IF AtRest(q) THEN {v \in input : Home[v] = q} ELSE at[q])
    BY <1>1, <1>3, <1>8, <1>9, <2>1
  <2> QED
    BY <2>2, Zenon DEF RunAt
<1>14. RunPc' = RunPc /\ RunTick' = RunTick /\ RunUnsent' = RunUnsent /\ RunLoad' = RunLoad
  BY <1>1, <1>10 DEF RunPc, RunTick, RunUnsent, RunLoad
<1>15. RunExpected' = RunExpected /\ RunResult' = RunResult /\ RunCache' = RunCache
  BY <1>1, <1>10, <1>12 DEF RunExpected, RunResult, RunCache
<1>16. Run!vars' = Run!vars
  BY <1>1, <1>13, <1>14, <1>15 DEF Run!vars
<1>17. RunInv'
  BY <1>5, <1>16, RunKeepsUnchanged
<1>18. RankFunctions' /\ \A q \in Ranks : AtRest(q)' => pc'[q] = "done"
  BY <1>1, <1>4, <1>9, <1>12 DEF PersonInv, RankFunctions
<1> QED
  BY <1>1, <1>2, <1>5, <1>17, <1>18 DEF PersonInv

\* A worker at work that waits at the initial barrier, passes it or panics stays where it
\* is in the mobsim.
LEMMA PersonAtWork ==
  ASSUME PoolInv, PersonInv, NEW r \in Ranks,
         InitialBarrier(r) \/ (worker[r] = "running" /\ Panicked(r))
  PROVE  PersonInv'
<1>1. /\ worker[r] \in {"initial", "running"} /\ ctl' = ctl /\ input' = input
      /\ results' = results /\ collected' = collected /\ UNCHANGED vars
  BY DEF InitialBarrier, Panicked
<1>2. ctl \in {"dispatch", "collect"} /\ worker \in [Ranks -> WorkerStates]
  BY <1>1, AtWork DEF PoolInv, PoolTypes
<1>3. \A q \in Ranks : AtRest(q)' <=> AtRest(q)
  <2>1. CASE InitialBarrier(r)
    <3>1. CASE \A s \in Ranks \ {r} : worker[s] = "waiting"
      <4>1. worker' = [s \in Ranks |-> "running"]
        BY <2>1, <3>1 DEF InitialBarrier
      <4> QED
        BY <1>1, <3>1, <4>1 DEF AtRest
    <3>2. CASE ~(\A s \in Ranks \ {r} : worker[s] = "waiting")
      <4>1. worker' = [worker EXCEPT ![r] = "waiting"]
        BY <2>1, <3>2 DEF InitialBarrier
      <4> QED
        BY <1>1, <1>2, <4>1 DEF AtRest
    <3> QED
      BY <3>1, <3>2
  <2>2. CASE Panicked(r)
    BY <1>1, <1>2, <2>2 DEF AtRest, Panicked
  <2> QED
    BY <2>1, <2>2
<1>4. \A q \in Ranks : (Replied(q)' <=> Replied(q)) /\ Answer(q)' = Answer(q)
  <2>1. Replies' = Replies
    BY <1>1 DEF Replies
  <2> QED
    BY <2>1 DEF Replied, Answer
<1>5. RunInv
  BY <1>2 DEF PersonInv
<1>6. RunInv'
  BY <1>1, <1>3, <1>4, <1>5, RunKept
<1> QED
  BY <1>1, <1>2, <1>3, <1>5, <1>6, PersonInIteration

LEMMA PersonTakeShutdown ==
  ASSUME PoolInv, PersonInv, NEW r \in Ranks, TakeShutdown(r)
  PROVE  PersonInv'
<1>1. /\ worker[r] \in {"new", "idle"} /\ commands[r] # <<>>
      /\ Head(commands[r]).kind = "shutdown" /\ worker' = [worker EXCEPT ![r] = "exited"]
      /\ ctl' = ctl /\ population' = population /\ UNCHANGED vars
  BY DEF TakeShutdown
<1>2. ctl = "join" /\ worker \in [Ranks -> WorkerStates]
  BY <1>1, NextCommand DEF PoolInv, PoolTypes
<1>3. /\ RankFunctions' /\ \A q \in Ranks : AtRest(q)' => pc'[q] = "done"
      /\ (LeftBehind' <=> LeftBehind) /\ Present' = Present
  BY <1>1, <1>2 DEF PersonInv, RankFunctions, AtRest, vars, LeftBehind, Present, InChannel
<1> QED
  BY <1>1, <1>2, <1>3 DEF PersonInv

\* A step of the mobsim is a step of the run.
LEMMA PersonMobsimStep ==
  ASSUME PoolInv, PersonInv, NEW r \in Ranks, MobsimStep(r)
  PROVE  PersonInv'
<1>1. worker[r] = "running" /\ UNCHANGED poolVars
  BY DEF MobsimStep
<1>2. ctl \in {"dispatch", "collect"} /\ r \notin Arrived \cup Taken
  BY <1>1, AtWork
<1>3. ~Replied(r) /\ ~AtRest(r)
  BY <1>1, <1>2, RepliedRanks DEF AtRest
<1>4. /\ RunInv /\ RankFunctions
      /\ \A q \in Ranks : AtRest(q) => pc[q] = "done"
  BY <1>2 DEF PersonInv
<1>5. \/ Step(r) \/ BarrierWait(r) \/ (\E q \in Ranks : Send(r, q)) \/ Recv(r) \/ EndStep(r)
  BY DEF MobsimStep
<1>6. RunInv'
  <2>1. CASE Step(r)
    BY <1>1, <1>3, <1>4, <2>1, StepOfRun, RunKeepsStep
  <2>2. CASE BarrierWait(r)
    BY <1>1, <1>3, <1>4, <2>2, BarrierOfRun, RunKeepsBarrier
  <2>3. ASSUME NEW q \in Ranks, Send(r, q) PROVE RunInv'
    BY <1>1, <1>3, <1>4, <2>3, SendOfRun, RunKeepsSend
  <2>4. CASE Recv(r)
    BY <1>1, <1>3, <1>4, <2>4, RecvOfRun, RunKeepsRecv
  <2>5. CASE EndStep(r)
    BY <1>1, <1>3, <1>4, <2>5, EndStepOfRun, RunKeepsEndStep
  <2> QED
    BY <1>5, <2>1, <2>2, <2>3, <2>4, <2>5
<1>7. /\ pc' = [q \in Ranks |-> pc'[q]]
      /\ \A q \in Ranks : AtRest(q) => pc'[q] = "done"
  <2>1. CASE BarrierWait(r)
    <3>1. CASE \A s \in Ranks \ {r} : pc[s] = "blocked"
      <4>1. pc' = [s \in Ranks |-> "exchange"]
        BY <2>1, <3>1 DEF BarrierWait
      <4> QED
        BY <1>3, <1>4, <3>1, <4>1
    <3>2. CASE ~(\A s \in Ranks \ {r} : pc[s] = "blocked")
      <4>1. pc' = [pc EXCEPT ![r] = "blocked"]
        BY <2>1, <3>2 DEF BarrierWait
      <4> QED
        BY <1>3, <1>4, <4>1 DEF RankFunctions
    <3> QED
      BY <3>1, <3>2
  <2>2. CASE ~BarrierWait(r)
    <3>1. PICK x : pc' = [pc EXCEPT ![r] = x] \/ pc' = pc
      BY <1>5, <2>2 DEF Step, Send, Recv, EndStep
    <3> QED
      BY <1>3, <1>4, <3>1 DEF RankFunctions
  <2> QED
    BY <2>1, <2>2
<1>8. RankFunctions'
  <2>1. tick' = [q \in Ranks |-> tick'[q]] /\ at' = [q \in Ranks |-> at'[q]]
    BY <1>4, <1>5 DEF RankFunctions, Step, PrepareSend, BarrierWait, Send, Recv, EndStep
  <2>2. unsent' = [q \in Ranks |-> unsent'[q]] /\ load' = [q \in Ranks |-> load'[q]]
    BY <1>4, <1>5 DEF RankFunctions, Step, PrepareSend, BarrierWait, Send, Recv, EndStep
  <2>3. expected' = [q \in Ranks |-> expected'[q]] /\ result' = [q \in Ranks |-> result'[q]]
    BY <1>4, <1>5 DEF RankFunctions, Step, PopFromCache, BarrierWait, Send, Recv, HandleIncoming,
                      EndStep
  <2>4. cache' = [q \in Ranks |-> cache'[q]] /\ chan' = [q \in Ranks |-> chan'[q]]
    BY <1>4, <1>5 DEF RankFunctions, Step, PopFromCache, BarrierWait, Send, Recv, HandleIncoming,
                      EndStep
  <2> QED
    BY <1>7, <2>1, <2>2, <2>3, <2>4 DEF RankFunctions
<1>9. \A q \in Ranks : AtRest(q)' <=> AtRest(q)
  BY <1>1, SameStage
<1> QED
  BY <1>1, <1>2, <1>4, <1>6, <1>7, <1>8, <1>9 DEF PersonInv, poolVars

LEMMA PersonStep == PoolInv /\ PoolInv' /\ PersonInv /\ [PoolNext]_allVars => PersonInv'
<1> SUFFICES ASSUME PoolInv, PoolInv', PersonInv, [PoolNext]_allVars PROVE PersonInv'
  OBVIOUS
<1>1. CASE ControllerNext
  BY <1>1, PersonStartIteration, PersonDispatch, PersonCollect, PersonController DEF ControllerNext
<1>2. ASSUME NEW r \in Ranks, WorkerNext(r) PROVE PersonInv'
  <2>1. ASSUME NEW q \in Ranks, SendFails(r, q) PROVE PersonInv'
    BY <2>1, PersonAtWork DEF SendFails
  <2> QED
    BY <1>2, <2>1, PersonTakeRun, PersonAtWork, PersonMobsimStep, PersonSendResult,
       PersonTakeShutdown DEF WorkerNext
<1>3. ASSUME NEW r \in Ranks, Panic(r) PROVE PersonInv'
  BY <1>3, PersonAtWork DEF Panic
<1>4. CASE UNCHANGED allVars
  <2>1. UNCHANGED vars /\ UNCHANGED poolVars
    BY <1>4 DEF allVars
  <2>2. \A q \in Ranks : (Replied(q)' <=> Replied(q)) /\ (AtRest(q)' <=> AtRest(q))
                         /\ Answer(q)' = Answer(q)
    BY <2>1, SameStage
  <2>3. CASE ctl \in {"dispatch", "collect"}
    <3>1. RunInv /\ input' = input /\ ctl' = ctl
      BY <2>1, <2>3 DEF PersonInv, poolVars
    <3>2. RunInv'
      BY <2>1, <2>2, <3>1, RunKept
    <3> QED
      BY <2>1, <2>2, <2>3, <3>1, <3>2, PersonInIteration
  <2>4. CASE ctl \notin {"dispatch", "collect"}
    <3>1. /\ RankFunctions' /\ \A q \in Ranks : AtRest(q)' => pc'[q] = "done"
          /\ (LeftBehind' <=> LeftBehind) /\ Present' = Present
      BY <2>1, <2>2 DEF PersonInv, RankFunctions, vars, LeftBehind, Present, InChannel
    <3> QED
      BY <2>1, <2>4, <3>1 DEF PersonInv, poolVars
  <2> QED
    BY <2>3, <2>4
<1> QED
  BY <1>1, <1>2, <1>3, <1>4 DEF PoolNext, PoolTerminated

\* In every iteration the mobsim of all workers is a run of SyncProtocol over all persons,
\* in whatever order the workers take their commands and answer, and whatever messages the
\* iteration before has left in the channels.
THEOREM PersonInvariant == PoolSpec => []PersonInv
  BY PersonStep, PersonInitially, PoolInvariant, PTL DEF PoolSpec

\* Whatever rank a leg is teleported to: a person whom Controller::run does not have between
\* two iterations is in exactly one message, to a rank that is no neighbour of its sender;
\* none is dropped with a broker or its heap, none is returned and left in a channel too.
THEOREM LeftoversAreTraced == PoolSpec => []LeftoversTraced
<1>1. PersonInv => LeftoversTraced
  BY DEF PersonInv, LeftoversTraced, Present
<1> QED
  BY <1>1, PersonInvariant, PTL

\* Vehicles are handed to neighbours only, not teleported across other partitions.
NeighboursOnly == \A r \in Ranks : Reach[r] \subseteq Nbr[r]

\* Then no message can be left, and no person is lost over any number of iterations: the
\* population that Controller::run has between two iterations and at the end is the one it
\* began with.
THEOREM PopulationIsConserved ==
  ASSUME NeighboursOnly
  PROVE  PoolSpec => []PopulationConserved
<1>1. LeftoversTraced => PopulationConserved
  <2> SUFFICES ASSUME LeftoversTraced, ctl \in {"start", "shutdown", "join", "finished"}
               PROVE  population = Vehicles
    BY DEF PopulationConserved
  <2>1. LeftBehind /\ population = {v \in Vehicles : \A r \in Ranks : v \notin InChannel(r)}
    BY DEF LeftoversTraced
  <2>2. ASSUME NEW r \in Ranks, NEW i \in 1..Len(chan[r]) PROVE FALSE
    <3>1. chan[r][i].from \in Ranks
      <4>1. chan[r] \in Seq(Messages)
        BY <2>1 DEF LeftBehind
      <4>2. chan[r][i] \in Messages
        BY <4>1
      <4> QED
        BY <4>2 DEF Messages
    <3>2. chan[r][i].from \notin Nbr[r] /\ r \in Nbr[chan[r][i].from]
      BY <2>1, <3>1 DEF LeftBehind, NeighboursOnly
    <3> QED
      BY <3>1, <3>2, RanksAssumption DEF RanksAssumption
  <2>3. \A v, r : r \in Ranks => v \notin InChannel(r)
    BY <2>2 DEF InChannel
  <2> QED
    BY <2>1, <2>3
<1> QED
  BY <1>1, LeftoversAreTraced, PTL
=============================================================================
