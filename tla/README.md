# TLA+ specifications of the parallel QSim

This directory holds a formal model of `rust_qsim`, a multi-threaded traffic
simulation (a port of MATSim's QSim): TLA+ modules, TLC configurations and TLAPS
proofs. `PROJECT.json` maps every definition to the lines it models and lists
components, runs, mutants, findings, hazards and theorems.

## 1. The system

A run is a sequence of iterations. In every iteration the population is split over
the partitions of the network, each partition is simulated by a thread (a *rank*),
tick by tick, and the agents go back to the controller, which scores and replans.

| component | state | operations | talks to |
|---|---|---|---|
| controller (`controller/controller.rs`) | iteration, population | run_iteration: mobsim, scoring, replanning, output | worker pool (channels), adapters |
| mobsim worker pool (`controller/mod.rs`) | command channel per worker, one result channel | spawn, run_mobsim, shutdown; worker: run_loop, run_iteration | controller, initial barrier |
| simulation loop (`simulation.rs`) | now, agents between the engines | run, do_sim_step | activity engine, leg engine |
| message broker, communicator (`messaging/`) | out messages, heap of early messages; one mpsc receiver per rank | add_veh, add_cap_update, send_recv, barrier | the brokers of all ranks |
| leg engine (`engines/leg_engine.rs`) | main modes, garage | do_step: departures, teleportation, nodes, links, exchange, arrivals | network, teleportation engine, broker |
| network partition (`network/sim_network.rs`) | links, active links and nodes, vehicle counter | send_veh_en_route, move_nodes, move_links, apply_storage_cap_updates | links; neighbours by way of the broker |
| link (`network/link.rs`, `flow_cap.rs`, `storage_cap.rs`, `stuck_timer.rs`) | queue, buffer, waiting list, flow and storage capacity, timer | push_veh, do_sim_step, offers_veh, pop_veh | its partition |
| teleportation engine, time queue | heap ordered by time and insertion | receive_vehicle, do_step; add, pop | broker for legs that end elsewhere |
| activity engine (`engines/activity_engine.rs`) | asleep queue, awake list | do_step: receive, wake_up, end, notify | agents |
| agents (`agents/agent_logic.rs`) | plan and route pointer; receiver of a requested route | advance_plan, notify_event | routing adapter |
| external services (`external_services/`) | bounded request channel, shutdown watch, tasks | spawn_thread, execute_adapter, on_request, on_shutdown | agents, gRPC service |
| id store (`id/id_store.rs`) | two sharded maps between external and internal ids, a lock per shard | create, look up, get, replace_ids, write and load a file | all threads |
| replanning (`replanning/mod.rs`) | strategies, weights per subpopulation, plans of a person | run: choose, handle, remove plans | controller (rayon) |
| routing (`replanning/routing/`) | graph in compressed rows, landmarks, queue and labels of a search | A* with zero or ALT heuristic, trip router, travel time collector | replanning, preparation, events |
| scenario (`scenario/`) | network, garage, population | load, partition_network, prepare_for_sim, split_for_mobsim, trip spans | controller, all ranks |
| input and output (`io/`, `bin/`) | files in XML and protobuf | read, write, convert_to_binary, convert_to_xml, merge tools | scenario, events |
| events (`events/`, `framework_events/`) | listeners of a rank, writers, numbers of partition events | process_event, finish, merge and compare files | engines, files |
| time (`time/`) | | ticks, times, decimal seconds, interpretation of end times | all |
| configuration, profiling, logging, random, pt | | | |

What is hard: the ranks synchronise with their network neighbours only, so they are
in different ticks at the same time and messages overtake; teleported legs go to
ranks nobody waits for; workers and channels live longer than an iteration; a link
that crosses a boundary has two storage accounts in two threads; the network skips
links and nodes that are not in a cache; vehicles on full links block each other;
requests for routes are answered asynchronously while the simulation waits; ids are
made by all threads and compared by an index alone; plans pass through routers,
selectors and two file formats, neither of which keeps everything, and must still fit
the network in the next iteration and the next run; every rank writes a file of its
own, from which tools put together what happened.

What makes the components correct is stated as properties in the modules; section 3
names them by run, and `hazards` in `PROJECT.json` says which line each is about.

## 2. Modules

| module | models | instance for TLC |
|---|---|---|
| `TickSync` | what the synchronisation promises, without messages | (refined by `SyncProtocol`) |
| `SyncProtocol` | the tick loop of all ranks, brokers, channels, barrier | `MCSyncProtocol` |
| `SyncProtocol_proofs` | theorems about `SyncProtocol`: ticks and messages; vehicles and lateness | |
| `MobsimPool` | controller and workers over the iterations, on top of `SyncProtocol` | `MCMobsimPool` |
| `MobsimPool_proofs` | theorems about `MobsimPool` | |
| `SimLink` | one link as operators on a record | |
| `SimNetwork` | the links, nodes and boundaries of all partitions | `MCSimNetwork` |
| `SimNetwork_proofs` | lemmas about the operators of a link, theorems about the network | |
| `TripPlan` | a plan, its trips and the replacement of a trip, as operators | |
| `RoutingAdapter` | the adapter thread of the routing service and its channel | |
| `Preplanning` | activity engines, adaptive agents and controller around the adapter | `MCPreplanning` |
| `Preplanning_proofs` | theorems about `Preplanning` and `RoutingAdapter` | |
| `IdStore` | the store of ids with its locks, over several processes | `MCIdStore` |
| `IdStore_proofs` | theorems about `IdStore` | |
| `RoutingGraph` | network to compressed rows, and what is read from them, as operators | |
| `AStar` | landmark searches, route search, backtracking | `MCAStar` |
| `AStar_proofs` | theorems about `RoutingGraph` and `AStar` | |
| `TripRouting` | network and teleporting modules, trip router, as operators | |
| `PrepareForSim` | check and repair of plans, as operators on `TripPlan`'s plans | |
| `PopulationFile` | what the formats keep of a person, as operators | |
| `ScenarioFiles` | network and vehicle files, loading, partitioning, the converting tools | |
| `Replanning` | strategies, selectors, plan memory, as operators | |
| `PlanCycle` | the controller's iterations over the plans, from files to files | `MCPlanCycle` |
| `PlanCycle_proofs` | theorems about `PlanCycle` and the operators it uses | |
| `EventFiles` | events, both file formats, decimal seconds, the merge of files | |
| `EventPublication` | all ranks as publishers, listeners, partition events, iterations | |
| `EventComparison` | the three threads of `compare_xml_event_files` | |
| `EventPipeline` | publication, files, merge and comparison together | `MCEvents` |
| `SequenceFacts` | operators on sequences and lemmas about them that several proofs use | |

Definitions whose name has an underscore (`EndStep_NoWait`) are *slips*: plausible
bugs of the definition that follows them. No specification uses them; a property is
worth something if the model with the slip violates it.

**SyncProtocol.** One process per rank. `Step` is the part of a tick before
`send_recv`: the vehicles move, each stays or goes to the message of another rank
(any choice of `Reach`), and the heap is emptied of what is due. `BarrierWait` is
`comm.barrier()` with `global_sync`. `Send` is one send of the loop over the
messages, `Recv` one blocking receive with `handle_incoming_msg`; sends and receives
of all ranks interleave. `EndStep` gives the vehicles to the engines and begins the
next tick. A channel is one FIFO sequence per receiver. The contents of the engines
are only the set of vehicles.

**MobsimPool** extends it: a worker runs the `SyncProtocol` actions while it is in
an iteration. `StartIteration`, `Dispatch`, `Collect`, `EndIteration`,
`SendShutdown`, `Join` are the controller; `TakeRun`, `InitialBarrier`,
`SendResult`, `TakeShutdown` the worker's loop. `Panic` is a worker's panic in a
tick, `SendFails` and `CollectFails` what the other threads then see: a send to a
dropped receiver fails, a receive fails only when all senders are gone.

**SimLink** and **SimNetwork.** A link's record has the fields of `LocalLink`.
The loops that fill the buffer are stated as the longest prefix that may go
(`Taken`). A rank's tick is `Depart`*, `StartNodes`, `MoveVehicle` (one vehicle over
a node, in any order, for the weighted random draw), `FinishNode`, `MoveLinks`
(all active links and the messages), `Exchange` (all messages of the tick applied).
Messages arrive in the tick they are sent in: that is what `SyncProtocol` is shown
to guarantee for neighbours. PCE, storage and flow are integers of a common unit;
the comparisons with 1e-10 are comparisons with 0.

**TripPlan**, **RoutingAdapter** and **Preplanning.** A plan is a sequence of activity
and leg records. `RoutingAdapter` has the thread's life (`Connect`, the loop with
`OnRequest` and `OnShutdown`, `StopAdapter`) and the tasks it spawns (`Answer`,
`CallFails`), which end in any order. `Preplanning` adds the ranks. `BeginTick`
takes in the agents whose leg ended and wakes agents up; `NotifyWakeup` tells one
awake agent, which may block in `blocking_send`; `EndActivities` scans the awake
list with `swap_remove`; `NotifyEnd` tells one leaving agent, which may block in
`blocking_recv`, and applies the answer; `LegStep` is the leg engine as the agents
see it: a leg takes any number of ticks. `ShutdownAdapters` and `JoinAdapter` are the
end of `Controller::run`. The abstractions: a second is a tick and time starts at 0; an
agent's activities are on one rank; ranks do not wait for each other between ticks
(more interleavings than the program has, `SyncProtocol` has the waiting); there is
one service, whose answer is any of `Responses`; a `TimeQueue` is the sequence in the
order (time, insertion), its counter does not wrap; activity durations are far below
the largest `SimTime`, beyond which `saturating_add` panics; coordinates, links and
modes of a request are left out, it names its two activities. `PreplanAssumption` says
which plans and answers these are. A plan ends with a main activity that lasts beyond
`EndTick` (`advance_plan` panics for an agent that leaves its last activity), and only
main activities have a preplanning horizon (the trip that `call_router` looks for would
otherwise begin later than where the agent is); an answer has legs and stage activities
in turn, or nothing.

**IdStore.** A thread works through the operations of `Program`. A step is what
happens between two acquisitions of a lock: `CreateBegin` takes the write lock of the
map's shard, `CreatePush` that of the vector's shard, `CreateInsert` and `CreateFound`
return; `LookupBegin` and `LookupFetch` are both look-ups, `GetInternal` is `get`.
`ClearMapping` and `ClearIds` are the two critical sections of `replace_ids`, which
the main thread runs for each type of the file (`LoadType`) before the others start.
`StoreToFile` ends a process and begins the next with the file.

**RoutingGraph** and **AStar.** Rows are found by offsets, as in the code, one half by
start and one by end node. A step of `AStar` pops one node and relaxes its edges, or
follows one parent. Nodes of equal priority come in any order, the landmark is any
node. Costs are travel times in whole seconds.

**TripRouting**, **PrepareForSim**, **PopulationFile**, **ScenarioFiles**,
**Replanning** and **PlanCycle.** The operators return what the functions return, a
failure included; panics are phases of `PlanCycle`. Its actions are `Convert` (a tool
on the scenario's files), `Read`, `Prepare` of one person (rayon: any order),
`Simulate` (split, garage look-ups, scoring, plans file), `MobsimPanics`, `Replan` of
one person, `NextIteration` and `WriteOutput`. Least cost paths, geometry and METIS
are parameters, and so is the height of a coordinate (`AtGround` gives the one at height
zero): XML has x and y of an activity only. A distance that is not finite is a negative one.
The readers refuse what the code's `expect`s and `unwrap`s do (`XmlReadable`,
`ProtoReadable`). Random draws are sets of outcomes. Agents do not change their plans in
the mobsim here (adaptive ones are in `Preplanning`). Files are compared after they
have been read again: what a format drops, adds or refuses is in the operators.

**EventFiles**, **EventPublication**, **EventComparison** and **EventPipeline.** A
rank's tick has the steps of the engines in the code's order; each publishes its
events to the collector, the writer and a log. Which vehicles wait is free. Messages
of one tick are taken when both ranks have sent theirs (`SyncProtocol`). The writers
have the buffers of the code, `ProtoOnAny` writes a time step when the time changes.
Times are digits of decimal seconds; 16 ticks per second have more digits than the
model's `FractionDigits`, so that truncation happens.

## 3. Runs

| run | question | result |
|---|---|---|
| `sync_teleport` | line of 3 ranks, teleported legs to the far rank: `NeighbourMessagesOnTime`, `WaitJustified`, `NothingLeftBehind`, `VehiclesConserved`, `Termination`, refinement of `TickSync` | holds |
| `sync_global` | the same ranks with `global_sync`: `GlobalSyncLateness`, and no deadlock at the barrier | holds |
| `pool_iterations` | line of 3 ranks with `global_sync`, legs teleported to the far rank, 2 iterations, one panic at any point: `LeftoversTraced` (where the persons are whom the next population lacks), `WorkersInStep`, `PanicNotIgnored`, `RunFinishes` without a panic | holds |
| `pool_teleport` | the population is complete after an iteration with teleported legs | violated: finding 1 |
| `net_gridlock` | loop of full links over two boundaries: `GridlockDissolves`, `StuckTimerSound`, `QueueServedOnTime` | holds |
| `net_storage` | low capacities, a truck, a link shorter than a tick: `StorageAccounted`, `CachesCover`, `FlowBalance`, `VehiclesOnce` | holds |
| `preplan` | 3 agents on 2 ranks, a channel for one request, failing calls: `LeavesOnTime`, `AskedInTime`, `OneRequestPerTrip`, `MainActivitiesKept`, `ChannelOutlivesWorkers`, `RunCompletes` | holds |
| `id_store` | 3 threads, 2 types in one shard, 2 processes: `IdsAgree`, `FileIdsKept`, `StoreRunsThrough` | holds |
| `routing` | a family of networks, both heuristics: `GraphOfNetwork`, `SettledIsFinal`, `RouteIsLeastCost` | holds |
| `routing_alt` | ALT gives a least cost path on a one-way network | violated: finding 2 |
| `plan_cycle` | 332 scenarios through 3 iterations: `AcceptedRunsComplete`, `TripsKept`, `RestartUnchanged`, `PreparedStaysPrepared`, `RemovalKeepsBest` | holds |
| `events` | 2 ranks, 2 iterations, XML and protobuf: `FilesTellTheRun`, `TravelTimesAreStays`, `CrossingsPaired`, `VerdictSound` | holds |

Bounds. Three ranks in a line are the smallest neighbourhood in which two ranks are
not neighbours and one can be two ticks ahead of another; two ticks let a message
overtake. Two iterations are the least in which something can be carried over. The
circle of three links with two boundaries and a local link has every kind of link.
A link of the loop holds one vehicle in its queue and, at half a car per tick, one in
its buffer, so four vehicles are the least that can block two links. Ticks are bounded by
`EndTick`, as in the program; `LastDeparture` bounds when legs begin. The agents of
`MCPreplanning` have two trips each, so that an answer could meet the wrong trip, with
horizons that are longer than the time there is, zero, shorter than and equal to the
stay; two of them end an activity in one tick. `Capacity` is 1 instead of 10000, the
least, so that `blocking_send` really blocks. The programs of `MCIdStore` let two
threads create the same id, a third another one of the same type, and look ids up that
were made by others. `MCAStar` has every network of a family with parallel links,
loops, links without modes (open to all) and dead ends. `MCPlanCycle` has plans with
and without routes, coordinates, scores and selected plans, trips that cannot be
routed, foreign routes and pt legs, activities and nodes above the ground, distances that
are no numbers, broken files, parts without a worker, and three
plans with room for two. `MCEvents` has a car that crosses and an agent that is
teleported across, and, for the comparison, the merged file with an event less, one
more, one changed and none.

Fairness. `FairSpec` and `PoolFairSpec` assume weak fairness of each thread as a whole:
the operating system schedules every thread that is not blocked in a receive or a
barrier. No fairness is assumed between the branches of a thread, and none for `Panic`.
`PreFairSpec` assumes the same of ranks, adapter and controller, and that the service
answers or fails each call: tonic reports a broken connection as an error.
`IdStoreFairSpec` assumes it of each thread of the store. `pool_iterations`, `preplan`
and `id_store` turn off the deadlock check: after a panic the threads really may all be
blocked; that they are not without one is what `RunFinishes`, `RunCompletes` and
`StoreRunsThrough` say.

## 4. Findings and remarks

1. *Persons get lost at the end of an iteration* (`pool_teleport`). A leg teleported in
   the last tick to a rank that is no neighbour stays in the channel: nobody waits for
   it. The next population lacks its person.
2. *The ALT heuristic overestimates on one-way networks* (`routing_alt`). It combines
   the costs from and to the landmark the wrong way round, which is a bound only if
   both directions cost the same; the path found can cost twice the least.

Seen while modelling, without a run of its own:

- What is left in a channel at the end of an iteration (finding 1) is received in the
  next one: the communicator is kept where everything else is made new
  (`controller/mod.rs:491`), although the comment there promises that nothing is carried
  over. `LeftoversTraced` says that this is all that is missing: each person whom the
  next population lacks is in exactly one message that waits in the channel of a rank
  that is no neighbour of the sender, none is lost with a broker's heap or an engine.
- Each rank holds a sender to itself and each worker one to the controller, so after
  one worker's panic no receive fails, and controller and neighbours wait for ever.
- On a link with a travel time of zero ticks a vehicle is served in the tick it enters
  if the link is local, a tick later if a boundary crosses it (`leg_engine.rs:85`).
- When the routing service cannot be reached the adapter panics before the initial
  barrier, which counts it (`external_services/routing/mod.rs:174`); everybody else
  stays there.
- Attributes of a person are not written to protobuf (`proto_population.rs:92`); XML
  has no third coordinate, neither for nodes nor for activities, so that a run that goes
  on from an XML file, or is converted to XML, has every activity at height zero
  (`io/xml/population.rs:188`, `scenario/population.rs:749`). The reader of XML plans names a missing vehicle
  "<person>_<mode>" and adds it to the garage.
- The comment at `io/xml/population.rs:334` announces a panic where the code warns.
- `RandomSelector` draws from a generator with the same seed each time it is asked in
  an iteration. A selector strategy alone does not change the selected plan
  (`replanning/mod.rs:378`). `ReRoute` is `unimplemented!`.
- `convert_to_xml` loses the vehicles: the XML file is written with types only. When
  several used links lead to a node, `convert_to_binary` gives it the weight of one of
  them (`convert_to_binary.rs:77`). For the in-links of a node
  `metis_partitioning.rs:55` names the node itself as its neighbour.
- The comparison of event files overlooks an event that only the second file has, if it
  is at a time that both have (`events/comparison.rs:337`); `VerdictSound` claims the
  other direction only.
- The tool that merges XML files orders them by the time read last, so its output is
  not chronological (`bin/merge_xml_events.rs:42`); `events/utils.rs` sorts by the next
  one. The XML reader panics on "travelled with pt", which the writer writes. An empty
  file equals a file with a single time step for the comparison.
- The travel time collector keeps the entry time of vehicles that are on the network
  at the end of an iteration; `TravelTimesAreStays` excludes them.

## 5. Proofs

Every theorem holds for every value of the constants that its module's assumptions
allow, and for any number of ranks, threads, vehicles, links, ids, iterations and ticks;
the runs of section 3 check the same properties on one instance each. Where an invariant
is not inductive, the module of the component has the one that is, under a comment "The
inductive invariant of ...", as a conjunction of named parts, so that TLC can evaluate it;
only those of `AStar`, which speaks of all tables of costs, and of `PlanCycle`, which needs
lemmas' notions, are with the proofs.
The proofs have one lemma per action; temporal reasoning is the last step only.

**Tick synchronisation** (`SyncProtocol_proofs`; `RanksAssumption`, `ReachAssumption`,
`TickAssumption`: finitely many ranks, a symmetric neighbourhood, any `Reach`).
`TypeOK`, `NeighbourMessagesOnTime`, `NeighbourSkew`, `WaitJustified`, `HeapBounded`,
`NothingLeftBehind`, and the refinement of `TickSync` without its fairness. `SyncInv` adds
what links the two ends of a channel: for neighbours n of r, the ticks for which a message
of n is in r's channel, heap or result are exactly those between what r has settled and
what n has sent (`LastSent`), each once and in order. From it follows that n cannot be two
ticks ahead, that a message in the heap is for the next tick, and that a sender still
expected has its message on the way or yet to send.

The second part of the module builds on `SyncInv`. `GlobalSyncLateness` needs that with
`global_sync` the messages of a channel are in the order of their ticks, and none is older
than the last (`ChannelInOrder`). `VehiclesConserved` is a cardinality; it follows from
`VehicleInv`: every vehicle is in one place of one rank, in one message there, and nothing
is pending between two ticks. `DoneIsEmpty` and `AllArrive` are about the end: if vehicles
go to neighbours only, a rank that has left the loop has taken everything that was sent to
it, and when all have, every vehicle is in the engines.

**Worker pool** (`MobsimPool_proofs`; `PoolAssumption` and those above). `WorkersInStep`
and `PanicNotIgnored` follow from `PoolInv`, which says how far each rank is in the
iteration: not asked, asked, working, or answered with its one result in the channel or
with the controller. `LeftoversTraced` is proved for any `Reach`, legs teleported past the
neighbours included: between two iterations a person is with the controller or in one
message in the channel of a rank that does not wait for its sender. `PopulationConserved`
is proved under `NeighboursOnly` (no leg is teleported past the neighbours), where no such
message is left; without it it is false, as `pool_teleport` shows. The argument is a refinement: the iteration's mobsim is a run of
`SyncProtocol`, although the workers start and end it at different times and the channels
are never emptied. A rank that has not taken its command is seen in its initial state,
one that has answered where it stopped, with the agents of its answer (`RunPc`, `RunAt`
...); every step of the pool is then a step of `Run`, an instance of
`SyncProtocol_proofs`, or changes nothing of it, and `SyncInv` and `VehicleInv` of `Run`
are kept by that module's lemmas (`PersonInv`).

**Network** (`SimNetwork_proofs`, whose first part is about a link's operators;
`LinkAssumption`, `NetworkAssumption`: finitely many vehicles, positive flow, routes that
are connected). `StuckTimerSound` and `FlowBalance` from `LinkInv`, in
which a buffer that has vehicles has its node in the cache; `VehiclesOnce` from `VehInv`
and `CountInv` (where a vehicle may be, and that the counter counts it); `CachesCover`
from `CacheInv`; `StorageAccounted` from `StorageInv`, with the updates that are on their
way; `QueueServedOnTime` from `ServedInv`, under `SlowBoundaries`: links across a boundary
take at least a tick. Shorter ones are served a tick late (section 4), so that the
hypothesis is needed; the instance of `net_gridlock` satisfies it. Sums over queues and
sets are recursive functions. What they compute is proved with the least number for which
it would be wrong, which needs no induction rule.

**External services** (`Preplanning_proofs`; `PreplanAssumption`, `AdapterAssumption`).
`ChannelOutlivesWorkers` from `ChannelInv`, which relates the adapter's life to that of
the ranks. `OneRequestHeld`, the part of `OneRequestPerTrip` that is about requests: none is
lost, made twice or answered twice on its way through channel and tasks (`RequestInv`).
The rest needs `DayInv`. Its parts, for every rank: which lists are in use in which phase
of a tick (`PhaseInv`); that the agents of a rank are divided among the time queue, the
awake list, those leaving, those between the engines and those on a leg, each once
(`PlacesInv`); that an entry of the time queue has the agent's present wake-up time, who
leaves is at an activity that is over, who is on a leg has no request (`StatesInv`); that
the next entry and the next end are never in the past (`TimesInv`); that who has not
asked is still to be notified (`AskedInv`); and, for every agent (`Follows`), that its plan is
one an agent can go through, with the main activities it began with, and that the request
it waits for names the ends of the trip from where it is. `LeavesOnTime`, `AskedInTime` and
`MainActivitiesKept` follow from `DayInv`, `OneRequestPerTrip` from it and `RequestInv`. The
main lemmas: the loop of `ActivityEngine::end` looks at every agent although `swap_remove`
puts the last one where it is (`ScanEndedIs`, by what a round does and how many agents are
left to look at); `replace_trip_elements` exchanges nothing but the trip from one main
activity to the next (`ReplaceTripIs`, `SpanStartsHere`).

**Id store** (`IdStore_proofs`; `IdStoreAssumption`). The agreement of the ids in use
(`IdsAgree`) is not inductive: an id is returned in a later critical section than the one
in which it was found or made. `StoreInv` adds that a thread in the middle of an operation
still holds the lock that keeps its finding true (`FindingHolds`), that the reverse map
points to the id itself (`MapPointsBack`), that ids in use are the mapped ones
(`HeldAreMapped`), and for `replace_ids` that the map of a type is emptied before its
vector (`MapClearedFirst`) and that nobody is in an operation meanwhile
(`QuietWhileLoading`, `WhoLoads`). `FileIdsKept` needs `FileInv` besides: the map knows
every element of a vector but the one just being added, and what has been loaded so far
is the beginning of the file.

**Routing** (`AStar_proofs`; `AStarAssumption`: networks are finite, their ids numbers,
speeds positive, and `Inf` lies beyond the costs of going anywhere and back without
passing a node twice. In the code it is the infinity of the floating point numbers, and
the factor two is for the difference of two costs, which `AltHeuristic::estimate` takes.)
`GraphOfNetwork` is `GraphIs`: sorting gives every node and link one index (`SortedIs`),
offsets and rows fit together whatever the rows are (`RowsAre`), so that each half of the
graph has every link of the mode in the row of its node and the two halves find each
other by the link's id. Nothing changes the graph afterwards (`GraphInv`).

`SettledIsFinal` and `RouteIsLeastCost` compare a search, which takes a node once and
never looks at it again, with `LeastCosts`, which knows nothing of searches: a table of
the least costs by the number of links (`IsLeast`). The induction is over that number.
*Lower bound:* if every link from a node that was taken has been looked at (`Relaxes`) and
every node in the queue is, by label and estimate, at least as far away as x (`Ordered`),
no row of the table has less for x than its label (`ForwardLower`). This needs a
consistent estimate: over no link does it fall by more than the link costs. A search
against the links has no estimates and is measured at the other end of the table
(`BackwardLower`). *Upper bound:* after k nodes a label is no less than row k (`AtMost`),
and no more than k links' share of `Inf` (`Bounded`), so that a cost is never taken for
unreachable. Together, a taken node has its least cost (`SettledFinal`), and what is left
when the queue gives an unreachable node is unreachable (`UnreachedIsFinal`). The zero
heuristic is consistent; ALT's estimate is the difference of two least costs and
consistent if every link can be driven back at the same cost (`AltIsConsistent`), which is
the hypothesis of `RouteIsLeastCost` and cannot be spared: `routing_alt` shows what
happens otherwise (section 4). The rest of `RouteIsLeastCost` is about the extraction:
each parent leads from a taken node over a link of just the difference of the labels
(`Backtracks`), so that the links put in front of each other connect (`Way`), cost what
the label says, and end at the start of the search, the only node without a parent;
`VerifyPath` therefore never fails. `AInv` has all this with the phases of the router, and
the tables of the landmark, complete when the route's search begins (`LandmarkInv`).

**Plans** (`PlanCycle_proofs`; `PlanCycleAssumption` and those of the modules it extends:
files hold activities, legs and plans of the right types, with any content and in any
number; `HeightAssumption`: what lies on a link lies at height zero). `RemovalKeepsBest` is
proved under `BestKept`: plans are removed by their score,
one is kept at least, and no person of the files has two selected plans. The other
selectors may remove any plan, the selected one included, which is what the configuration
asks for, and with two selected plans in a file both stay. The invariant is `RInv`: the persons are what a file can hold after any
conversion, reading, preparation and replanning so far, with one selected plan at most,
and, once the mobsim is over, exactly one. The main lemmas: of a sequence `RemoveAt` takes
one plan and no other (`RemoveAtIs`); what `WorstScore` returns is there, is the selected
one only if it is the last, and is no better than any other (`WorstByName`,
`WorstExists`); the loop of `remove_plans_if_needed` keeps this from round to round
(`RemovePlansKeep`); reading, writing and converting keep the plans' number and which of
them is selected (`PersonRead`, `PersonWritten`, `Converted`).

`PreparedStaysPrepared` needs no hypothesis (`PreparedOnce`). A plan is `Prepared` if every
trip of it is valid or is exactly what the router gives for it now. Three arguments lead
there. *The trip itself:* the route of a trip has the mode, the vehicle and the departure
that were asked for, so that the same question is asked again (`ModeAgain`, `VehicleAgain`,
`AdaptedStays`). *The other trips:* replacing what lies between two main activities leaves
the number of the trips and their order (`TripsReplaced`, `AsManyTrips`), the earlier ones
as they are, and an earlier trip does not depend on a later one, since its departure
follows from what comes before it (`StaysInCommon`); hence, trip by trip, `AdaptNext` and
`PlanPrepared`. *The run:* `PInv` says that as long as there are no issues every plan of a
person who has been prepared is `Prepared`; replanning leaves only plans that were there,
whatever selector removes the others (`ReplannedAmong`), and a run with issues ends before
its first mobsim. The plans must be sequences of activities and legs when they are read,
which conversions keep (`PersonRead`, `Converted`).

`AcceptedRunsComplete` is proved under `BestKept` and `RunsFit` (`RunsComplete`). `RunsFit`
says that access and egress are not by a mode of the network and that the user's files, if
they can be read, are complete (`FilesFit`): every link that routes are made of is in the
network and in a part there is a worker for, unless the file itself has other parts; every
person has a subpopulation, plans that lead from one main activity to another with vehicles
that are given, and, where the best plan may be asked for, one with a score and room to keep
it. Without the last hypothesis `BestScore` has nothing to choose from and a selector ends a
run long after it was accepted; the others rule out scenarios that fail in ways the property
does not name. The invariant `CInv` stands on `RInv` and `PInv` and adds what the user's
files hand on: a conversion writes files that are complete again, the vehicles lost in XML
excepted (`PersonAgain`, `NetworkWritten`, `ConvertedFits`; for protocol buffers, activities
and legs that were told apart are put together again, `ZipIs`); partitioning puts every
link in a part (`NetworkPartitioned`); the preparation adds no leg that needs a vehicle but
those it gives one (`ReplacedIsRouting`, `PlanUsable`), and every leg by a mode of the network
is part of a trip, hence prepared (`InTrip`, `DriversHaveVehicles`); replanning keeps a plan
with a score if there is one (`ScoreStays`) and the selected one (`SelectedStays`), so that
who was put in a part once is put in it again, and as long as that holds no selector fails
(`BestExists`, `SelectorsDoNotPanic`).

`TripsKept` is proved under `RunsFit` and `TripsFit` (`TripsAreKept`). `TripsFit` says that
the network of the user's files, if they can be read, is the one that the least cost paths
are made of, and that the routes in their plans lead on from each other: each begins at the
link of the activity before it or where the route before it ends. The hypothesis cannot be
spared: `trip_is_valid` compares a route with neither the activities around it nor the
routes next to it, so that a trip that is broken in the file and complete otherwise stays
as it is. The invariant `KInv` says, as long as there is a run, that every plan has the main
activities of a plan of the user's and is `Joined` (`KeptInv`), that the network is the
user's and each part of it closed (`GivenInv`), and that no vehicle is lost but in XML.
Formats change elements into ones that are `Alike` in what matters here (`LegLeadsAgain`,
`PlanJoinsAgain`), and weights, formats and partitioning leave a network as it was given
(`GivenRead`, `GivenWritten`, `GivenWeighted`, `GivenPartitioned`); replacing the elements of
a trip by ones that lead from its origin to its destination leaves a plan joined
(`PlanStaysKept`), and those of the router do (`CalcRouteIs`). When the mobsim starts every
plan is prepared, by `PInv`; a trip that stays is then one whose routes are all there
(`StaysJoined`), in turn with activities (`TripLegsAre`), so that joined legs connect its ends
(`JoinedConnects`), and its drivers have vehicles (`DriversHaveVehicles`).

Only model-checked:

- liveness (`Termination`, `RunFinishes`, `RunCompletes`, `StoreRunsThrough`) and the fair
  part of the refinement: the prover has no rule for them;
- `GridlockDissolves`, which bounds how long a circle of full links stays as it is and
  needs the number of ticks that the instance has;
- `RestartUnchanged` of `PlanCycle` and the properties of `EventPipeline`: they are about what
  long chains of functions compute from files; theorems about them would be inductions over
  that data, and those about `VerdictSound` and `FilesTellTheRun` would be about decimal
  digits (`10 ^ FractionDigits`), for which the provers have no rule.

## 6. Plan

The order in which the project was built, the most important behaviour first: tick
synchronisation and the worker pool on top of it; links and network; external services
and agents; the id store; routing; plans, replanning and scenario; events and their files.
Proofs followed in the same order. `TickSync` is the abstract specification that
`SyncProtocol` refines, and `SyncProtocol` the one that the iterations of `MobsimPool` are
runs of.

Two things would be worth adding: that arrival times do not depend on the partitioning, as
a refinement of the network with one partition, for links of at least one tick; and
theorems about `RestartUnchanged` and the event files.

## 7. Not modelled

- Configuration: parsing and overrides; what matters in a run are constants here.
- METIS, gRPC, XML and protobuf libraries: external, arbitrary results or what the
  code needs of them.
- The transit schedule (read by a tool for its ids only) and facilities files (read by
  nothing), profiling, logging, generated code, macros, experiments.
- Of events, the order of framework callbacks by priority; of time, the parsing of
  hh:mm:ss; of geometry, the arithmetic of floating point numbers.
