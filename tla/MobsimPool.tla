----------------------------- MODULE MobsimPool -----------------------------
(***************************************************************************)
(* The controller's iterations over a pool of mobsim workers.              *)
(*                                                                         *)
(* Controller::run_iteration splits the population over the ranks, sends a *)
(* RunMobsim command to every worker, waits for one result per rank and    *)
(* makes the next population from the returned agents.  A worker is a      *)
(* thread that lives for all iterations: broker and simulation are new in  *)
(* every iteration, the communicator, and so the contents of its channel,  *)
(* is not.  Inside an iteration a worker runs the SyncProtocol actions.    *)
(***************************************************************************)
EXTENDS SyncProtocol, SequenceFacts

CONSTANTS Home,            \* Home[v]: rank of the first activity's link
          FirstIteration,  \* controller.first_iteration
          LastIteration,   \* controller.last_iteration
          MayPanic         \* whether one worker thread may panic in a tick

ASSUME PoolAssumption ==
  /\ Home \in [Vehicles -> Ranks]
  /\ FirstIteration \in Nat /\ LastIteration \in Nat
  /\ FirstIteration <= LastIteration
  /\ MayPanic \in BOOLEAN

VARIABLES
  ctl,         \* phase of the controller thread
  iteration,   \* its loop variable
  population,  \* ControllerScenario.population
  input,       \* agents that were split for this iteration's mobsim
  pending,     \* ranks that have not been sent this iteration's command yet
  collected,   \* results: ranks received so far and their agents
  commands,    \* command channel of each worker
  results,     \* the one result channel
  worker,      \* state of each worker thread
  current      \* iteration each worker works on

poolVars == <<ctl, iteration, population, input, pending, collected, commands,
              results, worker, current>>
allVars == <<vars, poolVars>>

\* A worker has not waited at the initial barrier before its first mobsim run.
WorkerStates == {"new", "initial", "waiting", "running", "idle", "exited", "panicked"}
ControllerStates == {"start", "dispatch", "collect", "merge", "shutdown", "join",
                     "finished", "panicked"}

RunMobsim(i, agents) == [kind |-> "run", iteration |-> i, agents |-> agents]
Shutdown == [kind |-> "shutdown"]

PoolInit ==
  /\ ctl = "start" /\ iteration = FirstIteration
  /\ population = Vehicles /\ input = {} /\ pending = {} /\ collected = <<>>
  /\ commands = [r \in Ranks |-> <<>>] /\ results = <<>>
  /\ worker = [r \in Ranks |-> "new"]
  /\ current = [r \in Ranks |-> FirstIteration]
  /\ pc = [r \in Ranks |-> "done"]
  /\ tick = [r \in Ranks |-> EndTick + 1]
  /\ at = [r \in Ranks |-> {}]
  /\ unsent = [r \in Ranks |-> {}]
  /\ load = [r \in Ranks |-> NoLoad]
  /\ expected = [r \in Ranks |-> {}]
  /\ result = [r \in Ranks |-> {}]
  /\ cache = [r \in Ranks |-> {}]
  /\ chan = [r \in Ranks |-> <<>>]

-----------------------------------------------------------------------------
(* The controller.                                                          *)

\* split_for_mobsim takes the population out of the controller.
StartIteration ==
  /\ ctl = "start"
  /\ ctl' = "dispatch" /\ pending' = Ranks /\ collected' = <<>>
  /\ input' = population /\ population' = {}
  /\ UNCHANGED <<iteration, commands, results, worker, current, vars>>

\* The command of one rank, with the agents that start there.
Dispatch(r) ==
  /\ ctl = "dispatch" /\ r \in pending
  /\ commands' = [commands EXCEPT ![r] =
       Append(@, RunMobsim(iteration, {v \in input : Home[v] = r}))]
  /\ pending' = pending \ {r}
  /\ ctl' = IF pending = {r} THEN "collect" ELSE "dispatch"
  /\ UNCHANGED <<iteration, population, input, collected, results, worker, current, vars>>

\* Slip: `for _ in 1..num_parts`, the controller takes one result too few.
Collect_OneShort ==
  /\ ctl = "collect" /\ results # <<>>
  /\ LET res == Head(results) IN
       IF res.iteration # iteration \/ \E i \in 1..Len(collected) : collected[i].rank = res.rank
         THEN ctl' = "panicked" /\ UNCHANGED collected
         ELSE /\ collected' = Append(collected, res)
              /\ ctl' = IF Len(collected) + 2 = Cardinality(Ranks) THEN "merge" ELSE "collect"
  /\ results' = Tail(results)
  /\ UNCHANGED <<iteration, population, input, pending, commands, worker, current, vars>>

\* One result; the assertions of run_mobsim stop the controller.
Collect ==
  /\ ctl = "collect" /\ results # <<>>
  /\ LET res == Head(results) IN
       IF res.iteration # iteration \/ \E i \in 1..Len(collected) : collected[i].rank = res.rank
         THEN ctl' = "panicked" /\ UNCHANGED collected
         ELSE /\ collected' = Append(collected, res)
              /\ ctl' = IF Len(collected) + 1 = Cardinality(Ranks) THEN "merge" ELSE "collect"
  /\ results' = Tail(results)
  /\ UNCHANGED <<iteration, population, input, pending, commands, worker, current, vars>>

\* Slip: the loop over the results breaks on a failed recv.
CollectFails_Breaks ==
  /\ ctl = "collect" /\ results = <<>>
  /\ \A r \in Ranks : worker[r] \in {"exited", "panicked"}
  /\ ctl' = "merge"
  /\ UNCHANGED <<iteration, population, input, pending, collected, commands, results,
                 worker, current, vars>>

\* recv fails when every worker has dropped its end of the result channel.
CollectFails ==
  /\ ctl = "collect" /\ results = <<>>
  /\ \A r \in Ranks : worker[r] \in {"exited", "panicked"}
  /\ ctl' = "panicked"
  /\ UNCHANGED <<iteration, population, input, pending, collected, commands, results,
                 worker, current, vars>>

\* Population::from_agents; scoring and replanning keep the persons.
EndIteration ==
  /\ ctl = "merge"
  /\ population' = UNION {collected[i].agents : i \in 1..Len(collected)}
  /\ IF iteration = LastIteration
       THEN ctl' = "shutdown" /\ UNCHANGED iteration
       ELSE ctl' = "start" /\ iteration' = iteration + 1
  /\ UNCHANGED <<input, pending, collected, commands, results, worker, current, vars>>

\* MobsimWorkerPool::shutdown: the commands, then the joins.
SendShutdown ==
  /\ ctl = "shutdown"
  /\ commands' = [r \in Ranks |-> Append(commands[r], Shutdown)]
  /\ ctl' = "join"
  /\ UNCHANGED <<iteration, population, input, pending, collected, results, worker,
                 current, vars>>

\* Slip: the handles are polled but the loop is not left.
Join_PollsForever == ctl = "join" /\ UNCHANGED allVars

Join ==
  /\ ctl = "join"
  /\ \A r \in Ranks : worker[r] = "exited"
  /\ ctl' = "finished"
  /\ UNCHANGED <<iteration, population, input, pending, collected, commands, results,
                 worker, current, vars>>

-----------------------------------------------------------------------------
(* The workers.                                                             *)

\* run_iteration: a new broker and a new simulation; chan is not touched.
TakeRun(r) ==
  /\ worker[r] \in {"new", "idle"} /\ commands[r] # <<>>
  /\ Head(commands[r]).kind = "run"
  /\ current' = [current EXCEPT ![r] = Head(commands[r]).iteration]
  /\ commands' = [commands EXCEPT ![r] = Tail(@)]
  /\ worker' = [worker EXCEPT ![r] = IF @ = "new" THEN "initial" ELSE "running"]
  /\ at' = [at EXCEPT ![r] = Head(commands[r]).agents]
  /\ tick' = [tick EXCEPT ![r] = StartTick]
  /\ pc' = [pc EXCEPT ![r] = PhaseAt(StartTick)]
  /\ cache' = [cache EXCEPT ![r] = {}]
  /\ expected' = [expected EXCEPT ![r] = {}] /\ result' = [result EXCEPT ![r] = {}]
  /\ unsent' = [unsent EXCEPT ![r] = {}] /\ load' = [load EXCEPT ![r] = NoLoad]
  /\ UNCHANGED <<chan, ctl, iteration, population, input, pending, collected, results>>

\* global_barrier, passed once in the life of a worker.
InitialBarrier(r) ==
  /\ worker[r] = "initial"
  /\ IF \A s \in Ranks \ {r} : worker[s] = "waiting"
       THEN worker' = [s \in Ranks |-> "running"]
       ELSE worker' = [worker EXCEPT ![r] = "waiting"]
  /\ UNCHANGED <<ctl, iteration, population, input, pending, collected, commands, results,
                 current, vars>>

\* simulation.run() returned: engines are drained, the broker and its heap dropped.
SendResult(r) ==
  /\ worker[r] = "running" /\ pc[r] = "done"
  /\ results' = Append(results, [rank |-> r, iteration |-> current[r], agents |-> at[r]])
  /\ at' = [at EXCEPT ![r] = {}]
  /\ cache' = [cache EXCEPT ![r] = {}]
  /\ worker' = [worker EXCEPT ![r] = "idle"]
  /\ UNCHANGED <<pc, tick, unsent, load, expected, result, chan>>
  /\ UNCHANGED <<ctl, iteration, population, input, pending, collected, commands, current>>

TakeShutdown(r) ==
  /\ worker[r] \in {"new", "idle"} /\ commands[r] # <<>>
  /\ Head(commands[r]).kind = "shutdown"
  /\ commands' = [commands EXCEPT ![r] = Tail(@)]
  /\ worker' = [worker EXCEPT ![r] = "exited"]
  /\ UNCHANGED <<ctl, iteration, population, input, pending, collected, results, current, vars>>

Panicked(r) ==
  /\ worker' = [worker EXCEPT ![r] = "panicked"]
  /\ UNCHANGED <<ctl, iteration, population, input, pending, collected, commands, results,
                 current, vars>>

\* One of the workers panics while it moves its vehicles or takes in those of others.
Panic(r) ==
  /\ MayPanic /\ \A s \in Ranks : worker[s] # "panicked"
  /\ worker[r] = "running" /\ pc[r] \in {"step", "exchange"}
  /\ Panicked(r)

\* A send fails when the thread of the target, and so its receiver, is gone.
SendFails(r, q) ==
  /\ worker[r] = "running" /\ pc[r] = "exchange"
  /\ q \in unsent[r] /\ worker[q] = "panicked"
  /\ Panicked(r)

\* A rank's step in the mobsim; a receive waits as long as any sender is alive,
\* and every rank holds a sender to itself.
MobsimStep(r) ==
  /\ worker[r] = "running"
  /\ \/ Step(r)
     \/ BarrierWait(r)
     \/ \E q \in Ranks : worker[q] # "panicked" /\ Send(r, q)
     \/ Recv(r)
     \/ EndStep(r)
  /\ UNCHANGED poolVars

WorkerNext(r) ==
  \/ TakeRun(r)
  \/ InitialBarrier(r)
  \/ MobsimStep(r)
  \/ SendResult(r)
  \/ TakeShutdown(r)
  \/ \E q \in Ranks : SendFails(r, q)

ControllerNext ==
  \/ StartIteration
  \/ \E r \in Ranks : Dispatch(r)
  \/ Collect
  \/ CollectFails
  \/ EndIteration
  \/ SendShutdown
  \/ Join

\* Controller::run has returned or panicked.
PoolTerminated == ctl \in {"finished", "panicked"} /\ UNCHANGED allVars

PoolNext ==
  \/ ControllerNext
  \/ \E r \in Ranks : WorkerNext(r)
  \/ \E r \in Ranks : Panic(r)
  \/ PoolTerminated

PoolSpec == PoolInit /\ [][PoolNext]_allVars

\* All threads are scheduled; nothing forces a panic.
PoolFairSpec ==
  PoolSpec /\ WF_allVars(ControllerNext) /\ \A r \in Ranks : WF_allVars(WorkerNext(r))

-----------------------------------------------------------------------------
(* Properties.                                                              *)

\* The persons that the controller owns between two iterations, and at the end of
\* the run, are all persons of the scenario.
PopulationConserved ==
  ctl \in {"start", "shutdown", "join", "finished"} => population = Vehicles

\* Where teleported legs cross other partitions, a person who is missing between two
\* iterations, or at the end of the run, is in exactly one message that waits in the channel
\* of a rank that is no neighbour of its sender, for a later iteration to take it; nobody is
\* lost with a broker and its heap, and nobody whom the controller has is in a channel too.
LeftoversTraced ==
  ctl \in {"start", "shutdown", "join", "finished"} =>
    LeftBehind /\ population = {v \in Vehicles : \A r \in Ranks : v \notin InChannel(r)}

\* No worker starts ticking before all have reached the initial barrier, no worker
\* is in an iteration while another one is still in the previous one, so that ticks
\* of two iterations never meet in a channel, and the result channel never holds
\* what the assertions of run_mobsim reject: a result of another iteration, or a
\* second one of a rank.
WorkersInStep ==
  /\ \A r, s \in Ranks : worker[r] = "running" =>
       /\ worker[s] \notin {"new", "initial", "waiting"}
       /\ worker[s] = "running" => current[r] = current[s]
  /\ \A i \in 1..Len(results) : results[i].iteration = iteration
  /\ \A i, j \in 1..Len(results) : results[i].rank = results[j].rank => i = j
  /\ \A i \in 1..Len(results), j \in 1..Len(collected) :
       ctl = "collect" => results[i].rank # collected[j].rank

\* Results of an iteration in which a worker panicked are never merged: the
\* controller panics or waits, it does not go on without the rank's persons.
PanicNotIgnored ==
  (\E r \in Ranks : worker[r] = "panicked") =>
    ctl \in {"dispatch", "collect", "panicked"}

\* Unless a worker panics, the run ends, with all threads joined.
RunFinishes == <>(ctl = "finished" \/ \E r \in Ranks : worker[r] = "panicked")

-----------------------------------------------------------------------------
(* The inductive invariant of the pool.                                     *)

\* The ranks whose results are in the result channel, and those the controller has.
Arrived == {results[i].rank : i \in 1..Len(results)}
Taken == {collected[i].rank : i \in 1..Len(collected)}

PoolTypes ==
  /\ ctl \in ControllerStates /\ iteration \in Nat /\ pending \subseteq Ranks
  /\ worker \in [Ranks -> WorkerStates] /\ current \in [Ranks -> Nat]
  /\ commands = [r \in Ranks |-> commands[r]]
  /\ IsSequence(results) /\ IsSequence(collected)

\* How far rank r is in the iteration: its command is still to be sent, it is in the
\* channel, the worker is running the mobsim, or it has sent its result.
NotAsked(r) == r \in pending /\ commands[r] = <<>> /\ worker[r] \in {"new", "idle"}
Asked(r) ==
  /\ r \notin pending /\ worker[r] \in {"new", "idle"}
  /\ commands[r] = <<RunMobsim(iteration, {v \in input : Home[v] = r})>>
Working(r) ==
  /\ r \notin pending /\ commands[r] = <<>> /\ current[r] = iteration
  /\ worker[r] \in {"initial", "waiting", "running", "panicked"}
Answered(r) == r \notin pending /\ commands[r] = <<>> /\ worker[r] = "idle"

\* Every rank that has answered has one result, in the channel or with the controller.
InIteration ==
  ctl \in {"dispatch", "collect"} =>
    /\ ctl = "dispatch" => collected = <<>>
    /\ ctl = "collect" => pending = {}
    /\ Taken \subseteq Ranks /\ Arrived \subseteq Ranks /\ Arrived \cap Taken = {}
    /\ Cardinality(Taken) = Len(collected)
    /\ \A r \in Ranks : IF r \in Arrived \cup Taken THEN Answered(r)
                        ELSE NotAsked(r) \/ Asked(r) \/ Working(r)

\* Outside of an iteration no result is on its way and no worker has anything to do but
\* to exit.
BetweenIterations ==
  ctl \notin {"dispatch", "collect"} =>
    /\ results = <<>>
    /\ \A r \in Ranks :
         /\ ctl \in {"merge", "shutdown"} => commands[r] = <<>> /\ worker[r] = "idle"
         /\ ctl = "start" => commands[r] = <<>> /\ worker[r] \in {"new", "idle"}
         /\ ctl = "join" => \/ commands[r] = <<Shutdown>> /\ worker[r] = "idle"
                            \/ commands[r] = <<>> /\ worker[r] = "exited"
         /\ ctl = "finished" => worker[r] = "exited"
         /\ ctl = "panicked" => worker[r] \in {"exited", "panicked"}

\* The results in the channel are of this iteration and of different ranks.
ResultsDiffer ==
  /\ \A i \in 1..Len(results) : results[i].iteration = iteration
  /\ \A i, j \in 1..Len(results) : results[i].rank = results[j].rank => i = j

\* The initial barrier lets all workers go at once.
StartedTogether ==
  \A r, s \in Ranks : worker[r] \notin {"new", "initial", "waiting"} =>
    worker[s] \notin {"new", "initial", "waiting"}

PoolInv ==
  PoolTypes /\ InIteration /\ BetweenIterations /\ ResultsDiffer /\ StartedTogether
=============================================================================
