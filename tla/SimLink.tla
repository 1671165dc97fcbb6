------------------------------ MODULE SimLink ------------------------------
(***************************************************************************)
(* A link of the queue model: LocalLink, the part of a link that is owned  *)
(* by the partition of its end node.                                       *)
(*                                                                         *)
(* Vehicles that enter over the start node drive in q until their earliest *)
(* exit time, vehicles that start their trip here stand in the waiting     *)
(* list; both are moved to the buffer while the flow capacity allows it,   *)
(* and the end node takes them from there.  StorageCap counts what is in   *)
(* q.  Capacities are integers: PCE, storage and flow are in one unit,     *)
(* small enough that the fractional capacities of a scenario are whole.    *)
(***************************************************************************)
EXTENDS Integers, Sequences, FiniteSets

CONSTANTS Links, Vehicles,
          Pce,         \* Pce[v]: passenger car equivalents
          FlowPerTick, \* FlowPerTick[l]: Flowcap::capacity_per_tick
          Storage,     \* Storage[l]: StorageCap::max
          Duration,    \* Duration[l][v]: ticks v needs for l at free speed
          Threshold    \* qsim.stuck_threshold in ticks

ASSUME LinkAssumption ==
  /\ IsFiniteSet(Vehicles) /\ Pce \in [Vehicles -> Nat \ {0}]
  /\ FlowPerTick \in [Links -> Nat \ {0}]
  /\ Storage \in [Links -> Nat]
  /\ Duration \in [Links -> [Vehicles -> Nat]]
  /\ Threshold \in Nat

\* StuckTimer::timer_started = None; a tick otherwise.
Stopped == -1

PceSum(s) ==
  LET sum[i \in 0..Len(s)] == IF i = 0 THEN 0 ELSE sum[i - 1] + Pce[s[i]] IN sum[Len(s)]

\* The sum of f over a finite set.
SumOver(f, S) ==
  LET sum[T \in SUBSET S] ==
        IF T = {} THEN 0 ELSE LET x == CHOOSE x \in T : TRUE IN f[x] + sum[T \ {x}]
  IN sum[S]

SeqRange(s) == {s[i] : i \in 1..Len(s)}

Vehs(q) == [i \in 1..Len(q) |-> q[i].veh]

\* The types of a LocalLink's fields.
QueueEntries == [veh : Vehicles, exit : Nat]
LinkStates ==
  [q : Seq(QueueEntries), buffer : Seq(Vehicles), waiting : Seq(Vehicles),
   used : Int, flow : Int, updated : Nat, timer : Nat \cup {Stopped}]

NewLink(l) ==
  [q |-> <<>>, buffer |-> <<>>, waiting |-> <<>>, used |-> 0,
   flow |-> FlowPerTick[l], updated |-> 0, timer |-> Stopped]

IsActive(k) == k.q # <<>> \/ k.waiting # <<>> \/ k.buffer # <<>>

\* The vehicle enters over the start node and takes up storage.
PushVehToQueue(k, l, v, now) ==
  [k EXCEPT !.q = Append(@, [veh |-> v, exit |-> now + Duration[l][v]]),
            !.used = @ + Pce[v]]

PushVehToWaitingList(k, v) == [k EXCEPT !.waiting = Append(@, v)]

\* Flowcap::update_capacity: what accrued since the last update, at most one
\* tick's worth.
UpdateFlowCap(k, l, now) ==
  IF k.updated < now
    THEN LET acc == (now - k.updated) * FlowPerTick[l] + k.flow IN
           [k EXCEPT !.flow = IF acc < FlowPerTick[l] THEN acc ELSE FlowPerTick[l],
                     !.updated = now]
    ELSE k

\* Slip: the vehicles that are already in the buffer are not counted.
HasFlowCapacityLeft_NoBuffer(k, ahead) == k.flow - PceSum(ahead) > 0

\* With `ahead` the vehicles that the running loop has just put into the buffer.
HasFlowCapacityLeft(k, ahead) == k.flow - PceSum(k.buffer \o ahead) > 0

\* How many entries a loop takes off the front of a queue: it stops at the first
\* entry whose index is not in `goes`.
Taken(goes) == CHOOSE m \in 0..Cardinality(goes) : 1..m \subseteq goes /\ m + 1 \notin goes

\* Those of the first m vehicles of s that go on, and those that arrive here.
GoOn(s, m, arriving) ==
  LET on[i \in 0..Len(s)] == IF i = 0 THEN <<>>
                             ELSE IF s[i] \in arriving THEN on[i - 1]
                             ELSE Append(on[i - 1], s[i])
  IN on[m]
Arrived(s, m, arriving) == {s[i] : i \in 1..m} \cap arriving

AddWaitingToBuffer(k, arriving) ==
  LET goes == {i \in 1..Len(k.waiting) :
                 \/ k.waiting[i] \in arriving
                 \/ HasFlowCapacityLeft(k, GoOn(k.waiting, i - 1, arriving))}
      m == Taken(goes)
  IN [link  |-> [k EXCEPT !.buffer = @ \o GoOn(k.waiting, m, arriving),
                          !.waiting = SubSeq(@, m + 1, Len(@))],
      ended |-> Arrived(k.waiting, m, arriving)]

\* Slip: `earliest_exit_time < now`.
Exits_Strict(e, now) == e.exit < now

Exits(e, now) == e.exit <= now

AddQueueToBuffer(k, arriving, now) ==
  LET vs == Vehs(k.q)
      goes == {i \in 1..Len(k.q) :
                 /\ Exits(k.q[i], now)
                 /\ \/ vs[i] \in arriving
                    \/ HasFlowCapacityLeft(k, GoOn(vs, i - 1, arriving))}
      m == Taken(goes)
  IN [link  |-> [k EXCEPT !.buffer = @ \o GoOn(vs, m, arriving),
                          !.used = @ - PceSum(SubSeq(vs, 1, m)),
                          !.q = SubSeq(@, m + 1, Len(@))],
      ended |-> Arrived(vs, m, arriving)]

\* The waiting list goes first.  The vehicles of both lists that end their leg
\* here are handed back.
DoSimStep(k, l, arriving, now) ==
  LET w == AddWaitingToBuffer(UpdateFlowCap(k, l, now), arriving)
      b == AddQueueToBuffer(w.link, arriving, now)
  IN [link |-> b.link, ended |-> w.ended \cup b.ended]

\* Slip: a running timer is started again.
StartTimer_Restarts(k, now) == [k EXCEPT !.timer = now]

\* StuckTimer::start: a running timer is left alone.
StartTimer(k, now) == IF k.timer = Stopped THEN [k EXCEPT !.timer = now] ELSE k

\* Whether the link has a vehicle for its end node.  Asking also starts the
\* timer, see Asked.
OffersVeh(k) == k.buffer # <<>> /\ k.flow > 0

\* The link after offers_veh(now).
Asked(k, now) == IF OffersVeh(k) THEN StartTimer(k, now) ELSE k

\* Slip: `now - time > stuck_threshold`.
IsStuck_Strict(k, now) == k.timer # Stopped /\ now - k.timer > Threshold

IsStuck(k, now) == k.timer # Stopped /\ now - k.timer >= Threshold

\* The end node takes the first vehicle of the buffer.
PopVeh(k) ==
  [k EXCEPT !.buffer = Tail(@),
            !.flow = @ - Pce[Head(k.buffer)],
            !.timer = Stopped]

-----------------------------------------------------------------------------
(* Which vehicles are on a link.                                            *)

OnLink(k) == SeqRange(Vehs(k.q)) \cup SeqRange(k.buffer) \cup SeqRange(k.waiting)

\* No vehicle is twice in s, and none is twice on link k.
Once(s) == \A i, j \in 1..Len(s) : s[i] = s[j] => i = j
Distinct(k) ==
  /\ Once(Vehs(k.q)) /\ Once(k.buffer) /\ Once(k.waiting)
  /\ SeqRange(Vehs(k.q)) \cap SeqRange(k.buffer) = {}
  /\ SeqRange(Vehs(k.q)) \cap SeqRange(k.waiting) = {}
  /\ SeqRange(k.buffer) \cap SeqRange(k.waiting) = {}
=============================================================================
