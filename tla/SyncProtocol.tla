---------------------------- MODULE SyncProtocol ----------------------------
(***************************************************************************)
(* The time-step synchronisation of the partitions of one mobsim run.      *)
(*                                                                         *)
(* Every rank is a thread that loops over the ticks (Simulation::run).  In *)
(* a tick it moves its vehicles, which queues the ones that leave the      *)
(* partition in NetMessageBroker.out_messages, and then calls send_recv:   *)
(* one message to every neighbour (an empty one if there is nothing to     *)
(* say) and one to every other rank a vehicle is teleported to, and then   *)
(* blocking receives until every neighbour's message for this tick has     *)
(* come in.  A message for a later tick is kept in the broker's heap.      *)
(*                                                                         *)
(* mpsc::Receiver is one FIFO queue per rank, filled by all its senders.   *)
(***************************************************************************)
EXTENDS Integers, Sequences, FiniteSets

CONSTANTS Ranks,      \* the partitions of the network
          Nbr,        \* Nbr[r]: SimNetworkPartition::neighbors() of rank r
          Reach,      \* Reach[r]: the ranks r hands vehicles to: neighbours and,
                      \* for teleported legs, the rank of the leg's end link
          Vehicles,   \* the vehicles (with their agents) of the run
          StartTick,  \* qsim.start_time in ticks
          EndTick,    \* qsim.end_time in ticks
          GlobalSync  \* qsim.global_sync

\* Neighbourhood is symmetric: a link that is an In link of one partition is
\* the Out link of the other.
ASSUME RanksAssumption ==
  /\ Ranks # {} /\ IsFiniteSet(Ranks)
  /\ Nbr \in [Ranks -> SUBSET Ranks]
  /\ \A r \in Ranks : r \notin Nbr[r]
  /\ \A r, s \in Ranks : s \in Nbr[r] <=> r \in Nbr[s]

ASSUME ReachAssumption ==
  /\ Reach \in [Ranks -> SUBSET Ranks]
  /\ \A r \in Ranks : r \notin Reach[r]

ASSUME TickAssumption ==
  /\ StartTick \in Int /\ EndTick \in Int
  /\ GlobalSync \in BOOLEAN

VARIABLES
  pc,        \* where each rank's thread is (see Phases)
  tick,      \* the tick `now` of each rank
  at,        \* vehicles held by the engines of each rank
  unsent,    \* keys of out_messages still to be sent in this tick
  load,      \* the vehicles of those messages
  expected,  \* expected_vehicle_messages
  result,    \* messages that this tick's send_recv will return
  cache,     \* in_messages: heap of messages for later ticks
  chan       \* contents of each rank's mpsc receiver

vars == <<pc, tick, at, unsent, load, expected, result, cache, chan>>

\* step: moving vehicles; barrier/blocked: before and in comm.barrier();
\* exchange: in send_receive_vehicles; done: Simulation::run has returned.
Phases == {"step", "barrier", "blocked", "exchange", "done"}

\* InternalSyncMessage, the receiver being the channel it is in.
Messages == [from : Ranks, time : Int, vehs : SUBSET Vehicles]

NoLoad == [q \in Ranks |-> {}]

PhaseAt(t) == IF t <= EndTick THEN "step" ELSE "done"

-----------------------------------------------------------------------------
(* The operations.                                                          *)

Init ==
  /\ pc = [r \in Ranks |-> PhaseAt(StartTick)]
  /\ tick = [r \in Ranks |-> StartTick]
  /\ \E home \in [Vehicles -> Ranks] :
       at = [r \in Ranks |-> {v \in Vehicles : home[v] = r}]
  /\ unsent = [r \in Ranks |-> {}]
  /\ load = [r \in Ranks |-> NoLoad]
  /\ expected = [r \in Ranks |-> {}]
  /\ result = [r \in Ranks |-> {}]
  /\ cache = [r \in Ranks |-> {}]
  /\ chan = [r \in Ranks |-> <<>>]

\* Slip: a vehicle that is put into a message also stays with the engines.
PrepareSend_KeepsVehicle(r) ==
  \E dest \in [at[r] -> Reach[r] \cup {r}] :
    /\ at' = at
    /\ unsent' = [unsent EXCEPT ![r] = Nbr[r] \cup ({dest[v] : v \in at[r]} \ {r})]
    /\ load' = [load EXCEPT ![r] =
                  [q \in Ranks |-> IF q = r THEN {} ELSE {v \in at[r] : dest[v] = q}]]

\* The engines move: every vehicle either stays or is put into the message for
\* the rank of its next link (add_veh).  The other neighbours get an empty
\* message (prepare_send_recv_vehicles).
PrepareSend(r) ==
  \E dest \in [at[r] -> Reach[r] \cup {r}] :
    /\ at' = [at EXCEPT ![r] = {v \in at[r] : dest[v] = r}]
    /\ unsent' = [unsent EXCEPT ![r] = Nbr[r] \cup ({dest[v] : v \in at[r]} \ {r})]
    /\ load' = [load EXCEPT ![r] =
                  [q \in Ranks |-> IF q = r THEN {} ELSE {v \in at[r] : dest[v] = q}]]

\* Slip: a message from the heap does not settle its sender.
PopFromCache_NotSettled(r) ==
  LET due == {m \in cache[r] : m.time <= tick[r]} IN
    /\ expected' = [expected EXCEPT ![r] = Nbr[r]]
    /\ result' = [result EXCEPT ![r] = due]
    /\ cache' = [cache EXCEPT ![r] = @ \ due]

\* The heap is emptied down to the messages of later ticks; each popped message
\* settles its sender.
PopFromCache(r) ==
  LET due == {m \in cache[r] : m.time <= tick[r]} IN
    /\ expected' = [expected EXCEPT ![r] = Nbr[r] \ {m.from : m \in due}]
    /\ result' = [result EXCEPT ![r] = due]
    /\ cache' = [cache EXCEPT ![r] = @ \ due]

\* Slip: global_sync is ignored.
Step_NoBarrier(r) ==
  /\ pc[r] = "step"
  /\ PrepareSend(r)
  /\ PopFromCache(r)
  /\ pc' = [pc EXCEPT ![r] = "exchange"]
  /\ UNCHANGED <<tick, chan>>

\* One rank's tick up to the exchange.
Step(r) ==
  /\ pc[r] = "step"
  /\ PrepareSend(r)
  /\ PopFromCache(r)
  /\ pc' = [pc EXCEPT ![r] = IF GlobalSync THEN "barrier" ELSE "exchange"]
  /\ UNCHANGED <<tick, chan>>

\* std::sync::Barrier over all ranks: the last one to arrive releases the others.
BarrierWait(r) ==
  /\ pc[r] = "barrier"
  /\ IF \A s \in Ranks \ {r} : pc[s] = "blocked"
       THEN pc' = [s \in Ranks |-> "exchange"]
       ELSE pc' = [pc EXCEPT ![r] = "blocked"]
  /\ UNCHANGED <<tick, at, unsent, load, expected, result, cache, chan>>

\* One send of the loop over the HashMap of messages, in any order.
Send(r, q) ==
  /\ pc[r] = "exchange"
  /\ q \in unsent[r]
  /\ chan' = [chan EXCEPT ![q] =
                Append(@, [from |-> r, time |-> tick[r], vehs |-> load[r][q]])]
  /\ unsent' = [unsent EXCEPT ![r] = @ \ {q}]
  /\ load' = [load EXCEPT ![r][q] = {}]
  /\ UNCHANGED <<pc, tick, at, expected, result, cache>>

\* Slip: every message is returned at once, the heap is not used.
HandleIncoming_NoHeap(r, m) ==
  /\ result' = [result EXCEPT ![r] = @ \cup {m}]
  /\ cache' = cache

\* Slip: `msg.time() < now`, the message of this tick goes to the heap.
HandleIncoming_Strict(r, m) ==
  IF m.time < tick[r]
    THEN /\ result' = [result EXCEPT ![r] = @ \cup {m}]
         /\ cache' = cache
    ELSE /\ cache' = [cache EXCEPT ![r] = @ \cup {m}]
         /\ result' = result

\* A message of this tick or an earlier one is returned, a later one kept.
HandleIncoming(r, m) ==
  IF m.time <= tick[r]
    THEN /\ result' = [result EXCEPT ![r] = @ \cup {m}]
         /\ cache' = cache
    ELSE /\ cache' = [cache EXCEPT ![r] = @ \cup {m}]
         /\ result' = result

\* Slip: a message of another tick is left at the head of the channel.
Recv_OtherTickStays(r) ==
  /\ pc[r] = "exchange" /\ unsent[r] = {} /\ expected[r] # {}
  /\ chan[r] # <<>>
  /\ LET m == Head(chan[r]) IN
       IF m.time = tick[r]
         THEN /\ chan' = [chan EXCEPT ![r] = Tail(@)]
              /\ expected' = [expected EXCEPT ![r] = @ \ {m.from}]
              /\ HandleIncoming(r, m)
         ELSE UNCHANGED <<chan, expected, result, cache>>
  /\ UNCHANGED <<pc, tick, at, unsent, load>>

\* One blocking recv; only a message of this very tick settles its sender.
Recv(r) ==
  /\ pc[r] = "exchange" /\ unsent[r] = {} /\ expected[r] # {}
  /\ chan[r] # <<>>
  /\ LET m == Head(chan[r]) IN
       /\ chan' = [chan EXCEPT ![r] = Tail(@)]
       /\ expected' = [expected EXCEPT ![r] =
                         IF m.time = tick[r] THEN @ \ {m.from} ELSE @]
       /\ HandleIncoming(r, m)
  /\ UNCHANGED <<pc, tick, at, unsent, load>>

\* Slip: the tick ends with the messages that happen to be there.
EndStep_NoWait(r) ==
  /\ pc[r] = "exchange" /\ unsent[r] = {}
  /\ at' = [at EXCEPT ![r] = @ \cup UNION {m.vehs : m \in result[r]}]
  /\ result' = [result EXCEPT ![r] = {}]
  /\ tick' = [tick EXCEPT ![r] = @ + 1]
  /\ pc' = [pc EXCEPT ![r] = PhaseAt(tick[r] + 1)]
  /\ UNCHANGED <<unsent, load, expected, cache, chan>>

\* The received vehicles are passed to the engines and the tick ends.
EndStep(r) ==
  /\ pc[r] = "exchange" /\ unsent[r] = {} /\ expected[r] = {}
  /\ at' = [at EXCEPT ![r] = @ \cup UNION {m.vehs : m \in result[r]}]
  /\ result' = [result EXCEPT ![r] = {}]
  /\ tick' = [tick EXCEPT ![r] = @ + 1]
  /\ pc' = [pc EXCEPT ![r] = PhaseAt(tick[r] + 1)]
  /\ UNCHANGED <<unsent, load, expected, cache, chan>>

AllDone == \A r \in Ranks : pc[r] = "done"

\* All threads have returned; the run is over.
Terminated == AllDone /\ UNCHANGED vars

RankNext(r) ==
  \/ Step(r)
  \/ BarrierWait(r)
  \/ \E q \in Ranks : Send(r, q)
  \/ Recv(r)
  \/ EndStep(r)

Next == (\E r \in Ranks : RankNext(r)) \/ Terminated

Spec == Init /\ [][Next]_vars

\* Each thread keeps running while it is not blocked in recv or the barrier.
FairSpec == Spec /\ \A r \in Ranks : WF_vars(RankNext(r))
-----------------------------------------------------------------------------
(* Properties.                                                              *)

\* Every variable has its type; the loop over the ticks stops after EndTick, and
\* a rank only waits for its neighbours.
TypeOK ==
  /\ pc \in [Ranks -> Phases]
  /\ tick \in [Ranks -> Int]
  /\ at \in [Ranks -> SUBSET Vehicles]
  /\ unsent \in [Ranks -> SUBSET Ranks]
  /\ load \in [Ranks -> [Ranks -> SUBSET Vehicles]]
  /\ expected \in [Ranks -> SUBSET Ranks]
  /\ result \in [Ranks -> SUBSET Messages]
  /\ cache \in [Ranks -> SUBSET Messages]
  /\ chan \in [Ranks -> Seq(Messages)]
  /\ \A r \in Ranks :
       /\ expected[r] \subseteq Nbr[r]
       /\ pc[r] = "done" <=> tick[r] > EndTick
       /\ tick[r] = StartTick \/ tick[r] \in StartTick .. EndTick + 1

InExchange(r) == pc[r] \in {"barrier", "blocked", "exchange"}

\* The last tick for which s has sent its message to r.
LastSent(s, r) ==
  IF pc[s] = "exchange" /\ r \notin unsent[s] THEN tick[s] ELSE tick[s] - 1

\* Neighbouring partitions are never more than one tick apart: a rank cannot
\* leave send_recv before its neighbours have sent for the same tick.
NeighbourSkew ==
  \A r \in Ranks : \A n \in Nbr[r] : tick[r] <= tick[n] + 1

\* What send_recv returns holds exactly one message of every neighbour that is no
\* longer expected, the one of this tick: a message that overtook the receiver is
\* held back in the heap for its own tick, and none is applied late or twice.
NeighbourMessagesOnTime ==
  \A r \in Ranks : InExchange(r) =>
    \A n \in Nbr[r] :
      LET got == {m \in result[r] : m.from = n} IN
        IF n \in expected[r]
          THEN got = {}
          ELSE \E m \in got : got = {m} /\ m.time = tick[r]

\* A rank waits for a neighbour only if that neighbour has still to send, or its
\* message is in the channel: recv never waits for what was already taken.
WaitJustified ==
  \A r \in Ranks : InExchange(r) =>
    \A n \in expected[r] :
      \/ LastSent(n, r) < tick[r]
      \/ \E i \in 1..Len(chan[r]) :
           chan[r][i].from = n /\ chan[r][i].time = tick[r]

\* A neighbour can be at most one tick ahead, so the heap holds at most one
\* message per neighbour, for this or the next tick.
HeapBounded ==
  \A r \in Ranks :
    \A m \in cache[r] : m.from \in Nbr[r] =>
      /\ m.time <= tick[r] + 1
      /\ \A k \in cache[r] : k.from = m.from => k = m

\* The vehicles in the messages of a channel.
InChannel(r) == UNION {chan[r][i].vehs : i \in 1..Len(chan[r])}

\* Vehicle v is in the given place of rank r.
IsIn(v, place, r) ==
  CASE place = "engines" -> v \in at[r]
    [] place = "out"     -> v \in UNION {load[r][q] : q \in unsent[r]}
    [] place = "channel" -> v \in InChannel(r)
    [] place = "heap"    -> v \in UNION {m.vehs : m \in cache[r]}
    [] place = "result"  -> v \in UNION {m.vehs : m \in result[r]}

Places == {"engines", "out", "channel", "heap", "result"}

\* No vehicle is lost or duplicated by a hand-over between partitions, whatever
\* the ranks' relative progress.
VehiclesConserved ==
  \A v \in Vehicles :
    Cardinality({w \in Places \X Ranks : IsIn(v, w[1], w[2])}) = 1

\* When the threads have returned, no message of a neighbour is left in a channel
\* or a heap: what is lost at the end of a simulation can only be a leg that was
\* teleported to a rank that is no neighbour.
NothingLeftBehind ==
  AllDone =>
    \A r \in Ranks :
      /\ \A m \in cache[r] : m.from \notin Nbr[r]
      /\ \A i \in 1..Len(chan[r]) : chan[r][i].from \notin Nbr[r]

\* With global_sync nothing is ever early, and a message to a rank that does not
\* wait for it is taken at the latest one tick after it was sent.
GlobalSyncLateness ==
  GlobalSync =>
    \A r \in Ranks :
      /\ cache[r] = {}
      /\ \A m \in result[r] : m.time \in {tick[r] - 1, tick[r]}

\* Every rank reaches the end of the run.
Termination == <>AllDone

\* The ranks that r waits for in a tick.
Peers == [r \in Ranks |-> IF GlobalSync THEN Ranks \ {r} ELSE Nbr[r]]

Abstract == INSTANCE TickSync WITH Peers <- Peers, tick <- tick

\* The broker, the channels and the barrier implement TickSync.
ImplementsTickSync == Abstract!Spec

-----------------------------------------------------------------------------
(* The inductive invariant of the protocol.                                 *)

\* The first tick of which r still has to take n's message.
NextDue(r, n) ==
  IF InExchange(r) /\ n \notin expected[r] THEN tick[r] + 1 ELSE tick[r]

\* Nothing of a neighbour is in a channel or a heap that it has not sent yet.
SentBound ==
  \A r \in Ranks : \A n \in Nbr[r] :
    /\ \A i \in 1..Len(chan[r]) : chan[r][i].from = n => chan[r][i].time <= LastSent(n, r)
    /\ \A m \in cache[r] : m.from = n => m.time <= LastSent(n, r)

\* A neighbour's messages are in the order of their ticks, first in the heap, then in the
\* channel.
FifoOrder ==
  \A r \in Ranks : \A n \in Nbr[r] :
    /\ \A i, j \in 1..Len(chan[r]) :
         i < j /\ chan[r][i].from = n /\ chan[r][j].from = n => chan[r][i].time < chan[r][j].time
    /\ \A m \in cache[r] : \A i \in 1..Len(chan[r]) :
         m.from = n /\ chan[r][i].from = n => m.time < chan[r][i].time
    /\ \A m, k \in cache[r] : m.from = n /\ k.from = n /\ m.time = k.time => m = k

\* Nothing of a neighbour is overdue: it has not been waited for yet.
NothingOverdue ==
  \A r \in Ranks : \A n \in Nbr[r] :
    /\ \A i \in 1..Len(chan[r]) : chan[r][i].from = n => chan[r][i].time >= NextDue(r, n)
    /\ \A m \in cache[r] : m.from = n => m.time >= NextDue(r, n)

\* During the exchange the heap holds later ticks only.
HeapLater ==
  \A r \in Ranks : InExchange(r) => \A m \in cache[r] : m.time > tick[r]

\* A neighbour's messages of the ticks not taken yet are all there.
NothingMissing ==
  \A r \in Ranks : \A n \in Nbr[r] : \A t \in NextDue(r, n) .. LastSent(n, r) :
      \/ \E i \in 1..Len(chan[r]) : chan[r][i].from = n /\ chan[r][i].time = t
      \/ \E m \in cache[r] : m.from = n /\ m.time = t

\* No rank is ahead of what its neighbours have sent, and one that has settled a
\* neighbour was sent that neighbour's message of this tick.
SentInTime ==
  \A r \in Ranks : \A n \in Nbr[r] : NextDue(r, n) - 1 <= LastSent(n, r)

\* Before it sends, a rank has a message for every neighbour.
SendsToAll ==
  \A r \in Ranks : pc[r] \in {"barrier", "blocked"} => Nbr[r] \subseteq unsent[r]

\* The barrier keeps all ranks in the same tick until the last one has arrived.
BarrierInv ==
  \A r, s \in Ranks :
    /\ ~GlobalSync => pc[r] \notin {"barrier", "blocked"}
    /\ GlobalSync =>
         /\ pc[r] = "exchange" /\ pc[s] = "exchange" => tick[r] = tick[s]
         /\ pc[r] = "exchange" /\ pc[s] # "exchange" => tick[s] = tick[r] + 1
         /\ pc[r] # "exchange" /\ pc[s] # "exchange" => tick[r] = tick[s]

\* Only the ranks that a rank reaches get messages from it.
KnownSenders ==
  \A r \in Ranks :
    /\ unsent[r] \subseteq Nbr[r] \cup Reach[r]
    /\ \A i \in 1..Len(chan[r]) :
         r \in Nbr[chan[r][i].from] \cup Reach[chan[r][i].from]
    /\ \A m \in cache[r] : r \in Nbr[m.from] \cup Reach[m.from]

SyncInv ==
  /\ TypeOK
  /\ SentBound
  /\ FifoOrder
  /\ NothingOverdue
  /\ HeapLater
  /\ NothingMissing
  /\ SentInTime
  /\ SendsToAll
  /\ BarrierInv
  /\ KnownSenders
  /\ NeighbourMessagesOnTime

\* With global_sync the messages of a channel are in the order of their ticks.  A rank
\* that takes any finds none older than the last tick, and none older than this one
\* once it has a neighbour's message of this tick.
ChannelInOrder ==
  GlobalSync =>
    \A r \in Ranks :
      /\ \A i, j \in 1..Len(chan[r]) : i < j => chan[r][i].time <= chan[r][j].time
      /\ \A i \in 1..Len(chan[r]), n \in Nbr[r] : chan[r][i].time >= NextDue(r, n) - 1

\* Between two ticks a rank has nothing left to send or to pass to its engines.
NothingPending ==
  \A r \in Ranks : pc[r] \in {"step", "done"} => unsent[r] = {} /\ result[r] = {}

\* A vehicle is in one message of those to be sent, of a channel and of a heap.
InOneMessage ==
  \A v \in Vehicles : \A r \in Ranks :
    /\ \A p, q \in unsent[r] : v \in load[r][p] /\ v \in load[r][q] => p = q
    /\ \A i, j \in 1..Len(chan[r]) : v \in chan[r][i].vehs /\ v \in chan[r][j].vehs => i = j
    /\ \A m, k \in cache[r] : v \in m.vehs /\ v \in k.vehs => m = k

InOnePlace(v) ==
  \E place \in Places, r \in Ranks :
    /\ IsIn(v, place, r)
    /\ \A p \in Places, s \in Ranks : IsIn(v, p, s) => p = place /\ s = r

VehicleInv == NothingPending /\ InOneMessage /\ \A v \in Vehicles : InOnePlace(v)

\* What a run leaves in the channels: messages to ranks that did not wait for them, with
\* each vehicle once.
LeftBehind ==
  /\ chan \in [Ranks -> Seq(Messages)]
  /\ \A r \in Ranks : \A i \in 1..Len(chan[r]) :
       /\ chan[r][i].from \notin Nbr[r] /\ r \in Reach[chan[r][i].from]
       /\ chan[r][i].time <= EndTick
  /\ \A r, s \in Ranks : \A i \in 1..Len(chan[r]), j \in 1..Len(chan[s]) : \A v \in Vehicles :
       v \in chan[r][i].vehs /\ v \in chan[s][j].vehs => r = s /\ i = j

\* The start of a run over channels in which an earlier run left messages: the vehicles
\* that are in none of them are with the engines.
Begins ==
  /\ pc = [r \in Ranks |-> PhaseAt(StartTick)]
  /\ tick = [r \in Ranks |-> StartTick]
  /\ \E home \in [Vehicles -> Ranks] :
       at = [r \in Ranks |->
               {v \in Vehicles : home[v] = r /\ \A s \in Ranks : v \notin InChannel(s)}]
  /\ unsent = [r \in Ranks |-> {}]
  /\ load = [r \in Ranks |-> NoLoad]
  /\ expected = [r \in Ranks |-> {}]
  /\ result = [r \in Ranks |-> {}]
  /\ cache = [r \in Ranks |-> {}]
  /\ LeftBehind

\* No message is of a tick after the last one, so that the heap is empty in the end.
NoneAfterEnd ==
  \A r \in Ranks :
    /\ \A i \in 1..Len(chan[r]) : chan[r][i].time <= EndTick
    /\ \A m \in cache[r] : m.time <= EndTick
    /\ pc[r] = "done" => cache[r] = {}
=============================================================================
