------------------------------ MODULE TickSync ------------------------------
(***************************************************************************)
(* What the synchronisation of the partitions promises, without messages:  *)
(* a rank completes its tick only when every peer has reached that tick.   *)
(* Peers[r] are the ranks r waits for: its network neighbours, or all      *)
(* ranks when qsim.global_sync is set.  SyncProtocol implements this       *)
(* specification with the brokers, the channels and the barrier of the     *)
(* code.                                                                   *)
(***************************************************************************)
EXTENDS Integers

CONSTANTS Ranks,      \* the partitions of the network
          Peers,      \* Peers[r]: the ranks that r synchronises with
          StartTick,  \* first tick of the mobsim (qsim.start_time)
          EndTick     \* last tick of the mobsim (qsim.end_time)

VARIABLE tick         \* tick[r]: the tick rank r is working on

Init == tick = [r \in Ranks |-> StartTick]

\* Rank r completes its tick: every peer has at least started it.
Advance(r) ==
  /\ tick[r] <= EndTick
  /\ \A p \in Peers[r] : tick[p] >= tick[r]
  /\ tick' = [tick EXCEPT ![r] = @ + 1]

Next == \E r \in Ranks : Advance(r)

Spec == Init /\ [][Next]_tick
=============================================================================
