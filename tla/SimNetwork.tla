----------------------------- MODULE SimNetwork -----------------------------
(***************************************************************************)
(* The partitioned queue network: the network part of LegEngine::do_step   *)
(* on every rank, and what neighbouring ranks exchange in a tick.          *)
(*                                                                         *)
(* A link belongs to the partition of its end node.  If it starts in       *)
(* another partition it is split: the upstream rank has a SplitOutLink     *)
(* with its own account of the storage in use, which it increases for      *)
(* every vehicle it sends and decreases by the StorageUpdates that the     *)
(* downstream rank sends back.                                             *)
(*                                                                         *)
(* A rank's tick: departures, move_nodes, move_links, send_recv.  Messages *)
(* arrive in the tick they were sent in; SyncProtocol is about that.       *)
(***************************************************************************)
EXTENDS SimLink

CONSTANTS Ranks, Nodes,
          From, To,      \* the nodes of a link
          Part,          \* Part[n]: the partition of node n
          Route,         \* Route[v]: the links of v's leg
          EndTick,       \* the last tick of the run
          LastDeparture  \* bound: the tick by which every leg has begun

ASSUME NetworkAssumption ==
  /\ From \in [Links -> Nodes] /\ To \in [Links -> Nodes]
  /\ Part \in [Nodes -> Ranks]
  /\ \A v \in Vehicles :
       /\ Route[v] \in Seq(Links) /\ Route[v] # <<>>
       /\ \A i \in 1..Len(Route[v]) - 1 : To[Route[v][i]] = From[Route[v][i + 1]]
  /\ EndTick \in Nat /\ LastDeparture \in 0..EndTick

VARIABLES
  pc,       \* what each rank is doing
  now,      \* its tick
  todo,     \* the active nodes that move_nodes has still to handle
  link,     \* the LocalLinks (of Local and of In links)
  outQ,     \* SplitOutLink::q
  outUsed,  \* SplitOutLink::storage_cap.used
  activeLinks, activeNodes,
  vehCounter,
  pos,      \* curr_route_element: 0 before the leg, Len + 1 after it
  msgs      \* messages on their way

netVars == <<pc, now, todo, link, outQ, outUsed, activeLinks, activeNodes,
             vehCounter, pos, msgs>>

Owner(l) == Part[To[l]]
IsSplit(l) == Part[From[l]] # Part[To[l]]
LocalTo(r) == {l \in Links : Owner(l) = r}                    \* Local and In links of r
OutOf(r) == {l \in Links : IsSplit(l) /\ Part[From[l]] = r}  \* Out links of r
InTo(r) == {l \in LocalTo(r) : IsSplit(l)}
Neighbours(r) == {Owner(l) : l \in OutOf(r)} \cup {Part[From[l]] : l \in InTo(r)}
InLinks(n) == {l \in Links : To[l] = n}

CurrLink(v) == Route[v][pos[v]]
NextLink(v) == Route[v][pos[v] + 1]
\* is_wanting_to_arrive_on_current_link
Arriving == {v \in Vehicles : pos[v] = Len(Route[v])}

NetInit ==
  /\ pc = [r \in Ranks |-> "depart"]
  /\ now = [r \in Ranks |-> 0]
  /\ todo = [r \in Ranks |-> {}]
  /\ link = [l \in Links |-> NewLink(l)]
  /\ outQ = [l \in Links |-> <<>>]
  /\ outUsed = [l \in Links |-> 0]
  /\ activeLinks = [r \in Ranks |-> {}]
  /\ activeNodes = [r \in Ranks |-> {}]
  /\ vehCounter = [r \in Ranks |-> 0]
  /\ pos = [v \in Vehicles |-> 0]
  /\ msgs = {}

\* A leg begins: send_veh_en_route without an events manager.
Depart(r, v) ==
  LET l == Route[v][1] IN
    /\ pc[r] = "depart" /\ pos[v] = 0 /\ Owner(l) = r
    /\ pos' = [pos EXCEPT ![v] = 1]
    /\ link' = [link EXCEPT ![l] = PushVehToWaitingList(@, v)]
    /\ activeLinks' = [activeLinks EXCEPT ![r] = @ \cup {l}]
    /\ vehCounter' = [vehCounter EXCEPT ![r] = @ + 1]
    /\ UNCHANGED <<pc, now, todo, outQ, outUsed, activeNodes, msgs>>

\* No more departures in this tick; move_nodes copies the set of active nodes.
StartNodes(r) ==
  /\ pc[r] = "depart"
  /\ now[r] >= LastDeparture =>
       \A v \in Vehicles : Owner(Route[v][1]) = r => pos[v] > 0
  /\ pc' = [pc EXCEPT ![r] = "nodes"]
  /\ todo' = [todo EXCEPT ![r] = activeNodes[r]]
  /\ UNCHANGED <<now, link, outQ, outUsed, activeLinks, activeNodes, vehCounter,
                 pos, msgs>>

\* The storage in use as the partition of the link's start node sees it, and
\* StorageCap::is_available.
Held(l) == IF IsSplit(l) THEN outUsed[l] ELSE link[l].used
IsAvailable(l) == Storage[l] - Held(l) > 0

\* should_veh_move_out: there is a vehicle, and room for it or it is stuck.
ShouldVehMoveOut(l, t) ==
  /\ OffersVeh(link[l])
  /\ \/ IsStuck(Asked(link[l], t), t)
     \/ IsAvailable(NextLink(Head(link[l].buffer)))

\* The old link stays in the cache if it has more vehicles.
StillActive(l, k) == IF IsActive(k) THEN {l} ELSE {}

\* One round of the loop of move_node_capacity_priority that moves a vehicle.
\* Which of the links that can release one goes first is drawn at random.
MoveVehicle(r, n, l) ==
  /\ pc[r] = "nodes" /\ n \in todo[r]
  /\ l \in InLinks(n) \cap activeLinks[r]
  /\ ShouldVehMoveOut(l, now[r])
  /\ LET v == Head(link[l].buffer)
         next == NextLink(v)
         popped == [link EXCEPT ![l] = PopVeh(@)]
         pushed == IF IsSplit(next) THEN popped
                   ELSE [popped EXCEPT ![next] = PushVehToQueue(@, next, v, now[r])]
     IN
       /\ link' = pushed
       /\ IF IsSplit(next)
            THEN /\ outQ' = [outQ EXCEPT ![next] = Append(@, v)]
                 /\ outUsed' = [outUsed EXCEPT ![next] = @ + Pce[v]]
            ELSE UNCHANGED <<outQ, outUsed>>
       /\ pos' = [pos EXCEPT ![v] = @ + 1]
       /\ activeLinks' = [activeLinks EXCEPT ![r] =
                            ((@ \cup {next}) \ {l}) \cup StillActive(l, pushed[l])]
  /\ UNCHANGED <<pc, now, todo, activeNodes, vehCounter, msgs>>

\* The loop ends when every active link has been found exhausted.  Links that
\* still offer a vehicle have had their timer started; the node stays active if
\* there is one.
FinishNode(r, n) ==
  LET ins == InLinks(n) \cap activeLinks[r] IN
    /\ pc[r] = "nodes" /\ n \in todo[r]
    /\ \A l \in ins : ~ShouldVehMoveOut(l, now[r])
    /\ link' = [l \in Links |-> IF l \in ins THEN Asked(link[l], now[r]) ELSE link[l]]
    /\ activeNodes' = [activeNodes EXCEPT ![r] =
                         IF \E l \in ins : OffersVeh(link[l]) THEN @ ELSE @ \ {n}]
    /\ todo' = [todo EXCEPT ![r] = @ \ {n}]
    /\ UNCHANGED <<pc, now, outQ, outUsed, activeLinks, vehCounter, pos, msgs>>

\* Slip: a link reports what went on to the buffer, not what arrived.
Released_NotArrivals(l, k) == PceSum(k.buffer) - PceSum(link[l].buffer)

\* The storage that moving In link l has freed, k being the link afterwards.
Released(l, k) == link[l].used - k.used

\* Slip: the node is activated for the vehicles that were there before the move.
ToNodesActive_Before(l, k) == OffersVeh(link[l])

\* Whether the link has a vehicle for its node in the next tick.
ToNodesActive(l, k) == OffersVeh(k)

\* The vehicles that leave the partition or end their leg.
LeavingNet(r, ended) ==
  (UNION {SeqRange(outQ[l]) : l \in OutOf(r)}) \cup ended

\* Slip: the vehicles of the Out links are copied, not taken.
TakeVeh_Copies(r) == outQ

\* SplitOutLink::take_veh for all Out links.
TakeVeh(r) == [l \in Links |-> IF l \in OutOf(r) THEN <<>> ELSE outQ[l]]

\* move_links handles every active link; the messages for the neighbours hold the
\* vehicles of the Out links and the storage freed on the In links.
MoveLinks(r) ==
  LET act == activeLinks[r] \cap LocalTo(r)
      t == now[r]
      step == [l \in act |-> DoSimStep(link[l], l, Arriving, t)]
      ended == UNION {step[l].ended : l \in act}
      moved == [l \in act |-> step[l].link]
  IN
    /\ pc[r] = "nodes" /\ todo[r] = {}
    /\ link' = [l \in Links |-> IF l \in act THEN Asked(moved[l], t + 1) ELSE link[l]]
    /\ activeNodes' = [activeNodes EXCEPT ![r] =
                         @ \cup {To[l] : l \in {a \in act : ToNodesActive(a, moved[a])}}]
    /\ activeLinks' = [activeLinks EXCEPT ![r] = {l \in act : IsActive(moved[l])}]
    /\ vehCounter' = [vehCounter EXCEPT ![r] = @ - Cardinality(LeavingNet(r, ended))]
    /\ pos' = [v \in Vehicles |-> IF v \in ended THEN pos[v] + 1 ELSE pos[v]]
    /\ outQ' = TakeVeh(r)
    /\ msgs' = msgs \cup
         {[from |-> r, to |-> n, time |-> t,
           vehs |-> [l \in {o \in OutOf(r) : Owner(o) = n} |-> outQ[l]],
           caps |-> [l \in {i \in InTo(r) : Part[From[i]] = n} |->
                       IF l \in act THEN Released(l, moved[l]) ELSE 0]] :
          n \in Neighbours(r)}
    /\ pc' = [pc EXCEPT ![r] = "exchange"]
    /\ UNCHANGED <<now, todo, outUsed>>

\* The vehicles vs enter In link l over the partition boundary, in their order.
PushReceived(k, l, vs, t) ==
  [k EXCEPT !.q = @ \o [i \in 1..Len(vs) |->
                          [veh |-> vs[i], exit |-> t + Duration[l][vs[i]]]],
            !.used = @ + PceSum(vs)]

\* The rest of do_step once the messages of this tick from all neighbours are
\* there: storage updates are applied, vehicles are put on their link, and the
\* tick ends.
Exchange(r) ==
  LET got == {m \in msgs : m.to = r /\ m.time = now[r]}
      vehsOn == [l \in InTo(r) |->
                   (CHOOSE m \in got : l \in DOMAIN m.vehs).vehs[l]]
      freed == [l \in OutOf(r) |->
                   (CHOOSE m \in got : l \in DOMAIN m.caps).caps[l]]
      entered == {l \in InTo(r) : vehsOn[l] # <<>>}
  IN
    /\ pc[r] = "exchange"
    /\ {m.from : m \in got} = Neighbours(r)
    /\ msgs' = msgs \ got
    /\ outUsed' = [l \in Links |->
                     IF l \in OutOf(r) THEN outUsed[l] - freed[l] ELSE outUsed[l]]
    /\ link' = [l \in Links |->
                  IF l \in entered THEN PushReceived(link[l], l, vehsOn[l], now[r])
                  ELSE link[l]]
    /\ activeLinks' = [activeLinks EXCEPT ![r] = @ \cup entered]
    /\ vehCounter' = [vehCounter EXCEPT ![r] =
         @ + Cardinality(UNION {SeqRange(vehsOn[l]) : l \in entered})]
    /\ now' = [now EXCEPT ![r] = @ + 1]
    /\ pc' = [pc EXCEPT ![r] = IF now[r] < EndTick THEN "depart" ELSE "done"]
    /\ UNCHANGED <<todo, outQ, activeNodes, pos>>

NetDone == \A r \in Ranks : pc[r] = "done"

NetTerminated == NetDone /\ UNCHANGED netVars

PartitionNext(r) ==
  \/ \E v \in Vehicles : Depart(r, v)
  \/ StartNodes(r)
  \/ \E n \in Nodes : FinishNode(r, n) \/ \E l \in Links : MoveVehicle(r, n, l)
  \/ MoveLinks(r)
  \/ Exchange(r)

NetNext == (\E r \in Ranks : PartitionNext(r)) \/ NetTerminated

NetSpec == NetInit /\ [][NetNext]_netVars
-----------------------------------------------------------------------------
(* Properties.                                                              *)

\* The vehicles that are on their way to the downstream part of l.
InFlight(l) == UNION {SeqRange(m.vehs[l]) : m \in {k \in msgs : l \in DOMAIN k.vehs}}

\* Storage that l's owner has reported as free and its upstream has not yet heard of.
Reports(l) == {m \in msgs : l \in DOMAIN m.caps}
FreedInFlight(l) == SumOver([m \in Reports(l) |-> m.caps[l]], Reports(l))

\* Upstream of a boundary the storage in use is what has been sent, less what is
\* known to have left: vehicles and updates on their way are in it, so nothing is
\* counted twice or forgotten however far one partition is ahead of the other.
BoundaryAccount(l) ==
  outUsed[l] = PceSum(outQ[l]) + SumOver(Pce, InFlight(l)) + link[l].used + FreedInFlight(l)

\* A link that is filled above its storage is so by less than one vehicle.
NotOverfull(l) ==
  Held(l) > Storage[l] => \E v \in Vehicles : Held(l) < Storage[l] + Pce[v]

\* The storage account of every link is what its queue takes up, on both sides of a
\* partition boundary, and as long as nobody waits for the stuck threshold, no link is
\* overfull, across a boundary too.
StorageAccounted ==
  \A l \in Links :
    /\ link[l].used = PceSum(Vehs(link[l].q))
    /\ IsSplit(l) => BoundaryAccount(l)
    /\ Threshold > EndTick => NotOverfull(l)

\* move_links and move_nodes only look at active links and nodes: every link with a
\* vehicle on it must be in the cache of its partition, or the vehicle never moves
\* again; between two ticks no empty link is in it; and when move_nodes begins, every
\* link with a vehicle to offer has its end node in the cache.
CachesCover ==
  \A r \in Ranks :
    LET busy == {l \in LocalTo(r) : IsActive(link[l])}
                  \cup {l \in OutOf(r) : outQ[l] # <<>>}
    IN /\ busy \subseteq activeLinks[r]
       /\ pc[r] \in {"depart", "done"} => activeLinks[r] = busy
       /\ pc[r] \in {"depart", "exchange", "done"} =>
            \A l \in LocalTo(r) : OffersVeh(link[l]) => To[l] \in activeNodes[r]

\* The stuck timer of a link never lies in the future when move_nodes subtracts
\* it from the tick (ticks are unsigned), it runs only while a vehicle is offered,
\* and no vehicle is held at a full link beyond the threshold.
StuckTimerSound ==
  \A l \in Links : link[l].timer # Stopped =>
    /\ OffersVeh(link[l])
    /\ pc[Owner(l)] \in {"depart", "nodes"} => link[l].timer <= now[Owner(l)]
    /\ pc[Owner(l)] = "exchange" => now[Owner(l)] - link[l].timer < Threshold

\* All vehicles of a buffer but the last one fit into the link's flow capacity,
\* also if they have been held there at a full link, and after ticks in which the
\* link was inactive or overdrawn.
FlowBalance ==
  \A l \in Links :
    LET k == link[l] IN
      /\ k.flow <= FlowPerTick[l]
      /\ k.buffer # <<>> => PceSum(SubSeq(k.buffer, 1, Len(k.buffer) - 1)) < k.flow

\* The vehicles that are on the network of rank r.
VehOnNet(r) == (UNION {OnLink(link[l]) : l \in LocalTo(r)})
                 \cup (UNION {SeqRange(outQ[l]) : l \in OutOf(r)})

\* The parts of a link that hold vehicles, and those that hold v.
VehsAt(l, part) ==
  CASE part = "q"       -> SeqRange(Vehs(link[l].q))
    [] part = "buffer"  -> SeqRange(link[l].buffer)
    [] part = "waiting" -> SeqRange(link[l].waiting)
    [] part = "out"     -> SeqRange(outQ[l])
    [] part = "flight"  -> InFlight(l)
PlacesOf(v) ==
  {p \in Links \X {"q", "buffer", "waiting", "out", "flight"} : v \in VehsAt(p[1], p[2])}

\* A vehicle on its leg is in exactly one place of exactly one link, the one its
\* route pointer says; boundaries lose and duplicate nothing, and veh_on_net() counts
\* the vehicles on the partition's links.
VehiclesOnce ==
  /\ \A r \in Ranks :
       vehCounter[r] = Cardinality(VehOnNet(r))
  /\ \A v \in Vehicles :
       IF pos[v] \in 1..Len(Route[v])
         THEN \E p \in PlacesOf(v) : PlacesOf(v) = {p} /\ p[1] = CurrLink(v)
         ELSE PlacesOf(v) = {}

\* Who stands at the front of link k's queue with an exit time before t lacks the flow
\* capacity, and does not end its leg here.
ServedBefore(k, t, arriving) ==
  k.q # <<>> /\ k.q[1].exit < t =>
    k.q[1].veh \notin arriving /\ ~HasFlowCapacityLeft(k, <<>>)

\* A vehicle at the front of a queue is moved on by move_links in the tick of its
\* earliest exit time if the flow capacity allows it (LegEngine::do_step's
\* description of the one-tick delay at a node).
QueueServedOnTime ==
  \A l \in Links : pc[Owner(l)] = "depart" =>
    ServedBefore(link[l], now[Owner(l)], Arriving)

\* A circle of full links does not stand still for ever: the stuck threshold
\* lets a vehicle in, and all legs end before the run does.
GridlockDissolves ==
  NetDone => \A v \in Vehicles : pos[v] = Len(Route[v]) + 1

-----------------------------------------------------------------------------
(* The inductive invariant of the links' flow capacity and stuck timers.    *)

\* A rank knows only nodes of its partition; a message holds what the Out links
\* between its two ranks hold.
NetTypes ==
  /\ pc \in [Ranks -> {"depart", "nodes", "exchange", "done"}] /\ now \in [Ranks -> Nat]
  /\ todo \in [Ranks -> SUBSET Nodes] /\ activeNodes \in [Ranks -> SUBSET Nodes]
  /\ activeLinks = [r \in Ranks |-> activeLinks[r]]
  /\ \A r \in Ranks : \A n \in todo[r] \cup activeNodes[r] : Part[n] = r
  /\ link \in [Links -> LinkStates]
  /\ outQ \in [Links -> Seq(Vehicles)]
  /\ \A m \in msgs : m.vehs \in [{l \in OutOf(m.from) : Owner(l) = m.to} -> Seq(Vehicles)]

\* A link with a vehicle in its buffer is in the caches when they are used.
BufferCached(l, r) ==
  link[l].buffer # <<>> =>
    /\ l \in activeLinks[r]
    /\ pc[r] # "nodes" => To[l] \in activeNodes[r]

\* A timer that runs belongs to a vehicle that is offered; it runs from this tick or
\* an earlier one, from the next tick if it was started by move_links.  A node that
\* has been handled left no link stuck.
TimerRuns(l, r) ==
  link[l].timer # Stopped =>
    /\ link[l].buffer # <<>>
    /\ link[l].timer <= IF pc[r] = "exchange" THEN now[r] + 1 ELSE now[r]
    /\ pc[r] = "exchange" \/ (pc[r] = "nodes" /\ To[l] \notin todo[r]) =>
         now[r] - link[l].timer < Threshold

LinkInv ==
  /\ NetTypes
  /\ FlowBalance
  /\ \A l \in Links : BufferCached(l, Owner(l)) /\ TimerRuns(l, Owner(l))

-----------------------------------------------------------------------------
(* The inductive invariant of the places of the vehicles.                   *)

\* The vehicles on their way over link l.
Placed(l) == OnLink(link[l]) \cup SeqRange(outQ[l]) \cup InFlight(l)

\* No vehicle is twice on a link, nor on both sides of it or on the way as well.
PlacesApart(l) ==
  /\ Distinct(link[l]) /\ Once(outQ[l])
  /\ OnLink(link[l]) \cap SeqRange(outQ[l]) = {}
  /\ (OnLink(link[l]) \cup SeqRange(outQ[l])) \cap InFlight(l) = {}

\* The route pointer of a vehicle is where the vehicle is; a vehicle that has been put
\* into the buffer has a next link.
OnRoute(l) ==
  /\ \A v \in Placed(l) : v \in Vehicles /\ pos[v] \in 1..Len(Route[v]) /\ CurrLink(v) = l
  /\ \A v \in SeqRange(link[l].buffer) : pos[v] # Len(Route[v])

\* There is one message per pair of neighbours and tick, and none of them shares a
\* vehicle with another.
MsgsApart ==
  /\ \A m \in msgs : /\ m.from \in Ranks /\ m.time \in Nat
                     /\ \/ m.time < now[m.from]
                        \/ m.time = now[m.from] /\ pc[m.from] = "exchange"
                     /\ \A l \in DOMAIN m.vehs : Once(m.vehs[l])
  /\ \A m, n \in msgs :
       /\ m.from = n.from /\ m.to = n.to /\ m.time = n.time => m = n
       /\ m # n => \A l \in DOMAIN m.vehs \cap DOMAIN n.vehs :
                     SeqRange(m.vehs[l]) \cap SeqRange(n.vehs[l]) = {}

VehInv ==
  /\ pos \in [Vehicles -> Nat]
  /\ \A l \in Links : PlacesApart(l) /\ OnRoute(l)
  /\ \A v \in Vehicles, l \in Links :
       pos[v] \in 1..Len(Route[v]) /\ CurrLink(v) = l => v \in Placed(l)
  /\ MsgsApart

\* The caches hold the links that have vehicles; outside move_nodes they hold no others.
CacheInv ==
  \A r \in Ranks :
    /\ \A l \in LocalTo(r) : IsActive(link[l]) => l \in activeLinks[r]
    /\ \A l \in OutOf(r) : outQ[l] # <<>> => l \in activeLinks[r] /\ pc[r] = "nodes"
    /\ pc[r] # "nodes" => \A l \in activeLinks[r] : l \in LocalTo(r) /\ IsActive(link[l])

\* The inductive invariant of the storage accounts: what it says of reports and of the
\* time is needed for the accounts to stay as StorageAccounted says.
StorageInv ==
  /\ outUsed \in [Links -> Int]
  /\ \A r \in Ranks : pc[r] # "done" => now[r] <= EndTick
  /\ \A m \in msgs : m.caps \in [{l \in InTo(m.from) : Part[From[l]] = m.to} -> Nat]
  /\ \A l \in Links : IsFiniteSet(Reports(l))
  /\ StorageAccounted

-----------------------------------------------------------------------------
(* The inductive invariant of the queues' service.                          *)

\* From move_links to the next move_nodes no queue is behind; move_nodes may put a
\* vehicle at the front that can go on in the same tick.
ServedTick(r) == IF pc[r] = "exchange" THEN now[r] + 1 ELSE now[r]
ServedInv ==
  \A l \in Links :
    pc[Owner(l)] # "nodes" => ServedBefore(link[l], ServedTick(Owner(l)), Arriving)
=============================================================================
