--------------------------- MODULE RoutingAdapter ---------------------------
(***************************************************************************)
(* The adapter thread of an external routing service: AsyncExecutor with   *)
(* the RoutingServiceAdapter.                                              *)
(*                                                                         *)
(* Simulation threads put requests into a bounded channel; the adapter's   *)
(* loop takes them out and spawns a task for each, which calls the service *)
(* and answers over the request's oneshot channel.  Tasks finish in any    *)
(* order.  A task that fails, or is cut off by the shutdown, drops its end *)
(* of the oneshot channel.                                                 *)
(***************************************************************************)
EXTENDS Integers, Sequences

CONSTANTS Capacity,     \* of the request channel (10000 in the code)
          Responses,    \* the sequences of plan elements the service may return
          MayFail       \* whether connecting and calls may fail

ASSUME AdapterAssumption == Capacity \in Nat \ {0} /\ MayFail \in BOOLEAN

VARIABLES
  adapter,   \* what the adapter thread is doing
  chan,      \* the request channel
  tasks,     \* requests whose task is running
  replies,   \* answers that have been sent and not been received
  dropped,   \* requests whose oneshot sender was dropped without an answer
  shutdown   \* the value of the shutdown watch channel

adapterVars == <<adapter, chan, tasks, replies, dropped, shutdown>>

AdapterInit ==
  /\ adapter = "connecting"
  /\ chan = <<>> /\ tasks = {} /\ replies = {} /\ dropped = {}
  /\ shutdown = FALSE

\* The receiving end of the channel exists as long as the thread does.
ChannelClosed == adapter \in {"stopped", "panicked"}

\* RoutingServiceAdapterFactory::build; attempts are repeated for a time.
Connect ==
  /\ adapter = "connecting"
  /\ adapter' = "barrier"
  /\ UNCHANGED <<chan, tasks, replies, dropped, shutdown>>

ConnectFails ==
  /\ MayFail /\ adapter = "connecting"
  /\ adapter' = "panicked"
  /\ UNCHANGED <<chan, tasks, replies, dropped, shutdown>>

\* A simulation thread's blocking_send.
SendRequest(q) ==
  /\ ~ChannelClosed /\ Len(chan) < Capacity
  /\ chan' = Append(chan, q)
  /\ UNCHANGED <<adapter, tasks, replies, dropped, shutdown>>

\* on_request for the next request.
OnRequest ==
  /\ adapter = "running" /\ chan # <<>>
  /\ chan' = Tail(chan)
  /\ tasks' = tasks \cup {Head(chan)}
  /\ UNCHANGED <<adapter, replies, dropped, shutdown>>

\* The service answers; if the receiver is gone, the answer is dropped.
Answer(q, elements, heard) ==
  /\ adapter \in {"running", "stopping"} /\ q \in tasks
  /\ tasks' = tasks \ {q}
  /\ replies' = IF heard THEN replies \cup {[req |-> q, elements |-> elements]} ELSE replies
  /\ UNCHANGED <<adapter, chan, dropped, shutdown>>

\* Slip: a failed call is only logged and the sender kept.
CallFails_KeepsSender(q) ==
  /\ MayFail /\ adapter \in {"running", "stopping"} /\ q \in tasks
  /\ tasks' = tasks \ {q}
  /\ UNCHANGED <<adapter, chan, replies, dropped, shutdown>>

\* The call returns an error, the task panics.
CallFails(q) ==
  /\ MayFail /\ adapter \in {"running", "stopping"} /\ q \in tasks
  /\ tasks' = tasks \ {q}
  /\ dropped' = dropped \cup {q}
  /\ UNCHANGED <<adapter, chan, replies, shutdown>>

\* select! takes the shutdown branch; the clients are told and awaited.
OnShutdown ==
  /\ adapter = "running" /\ shutdown
  /\ adapter' = "stopping"
  /\ UNCHANGED <<chan, tasks, replies, dropped, shutdown>>

\* The runtime is dropped with what is still in the channel or running.
StopAdapter ==
  /\ adapter = "stopping"
  /\ adapter' = "stopped"
  /\ chan' = <<>> /\ tasks' = {}
  /\ dropped' = dropped \cup tasks \cup {chan[i] : i \in 1..Len(chan)}
  /\ UNCHANGED <<replies, shutdown>>

\* The adapter's own thread; the tasks run on the threads of its runtime.
AdapterNext == Connect \/ ConnectFails \/ OnRequest \/ OnShutdown \/ StopAdapter
=============================================================================
