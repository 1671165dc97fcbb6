---------------------------- MODULE MCSimNetwork ----------------------------
(* Small networks for TLC.  Nodes 1 and 2 are in partition 0, node 3 is in    *)
(* partition 1; links "ab" (1 to 2, local), "bc" (2 to 3) and "ca" (3 to 1)   *)
(* form a circle over the two boundaries.                                     *)
EXTENDS SimNetwork, TLC

CONSTANTS v1, v2, v3, v4

RingNodes == 1..3
RingPart == <<0, 0, 1>>
Ring == {"ab", "bc", "ca"}
RingFrom == [l \in Ring |-> CASE l = "ab" -> 1 [] l = "bc" -> 2 [] l = "ca" -> 3]
RingTo == [l \in Ring |-> CASE l = "ab" -> 2 [] l = "bc" -> 3 [] l = "ca" -> 1]

\* Short and long legs, one of them going round.
Mixed == (v1 :> <<"ab", "bc", "ca">>) @@ (v2 :> <<"ab", "bc", "ca">>)
           @@ (v3 :> <<"bc", "ca", "ab">>)

CarAndTruck == (v1 :> 1) @@ (v2 :> 2) @@ (v3 :> 1)
RoomForTruck == [l \in Ring |-> IF l = "ca" THEN 1 ELSE 2]
\* Half a truck per tick.
SlowFlow == [l \in Ring |-> 1]
\* bc is short: its free travel time is less than a tick.
ShortBc == [l \in Ring |-> [v \in {v1, v2, v3} |-> IF l = "bc" THEN 0 ELSE 1]]

\* Two partitions of one node each: "go" and "back" both cross the boundary.
LoopNodes == {1, 2}
LoopPart == <<0, 1>>
Loop == {"go", "back"}
LoopFrom == [l \in Loop |-> IF l = "go" THEN 1 ELSE 2]
LoopTo == [l \in Loop |-> IF l = "go" THEN 2 ELSE 1]
\* Each pair needs the link that the other pair is on.
Rounds == (v1 :> <<"go", "back", "go">>) @@ (v2 :> <<"go", "back">>)
            @@ (v3 :> <<"back", "go", "back">>) @@ (v4 :> <<"back", "go">>)
Cars == [v \in {v1, v2, v3, v4} |-> 2]
RoomForOne == [l \in Loop |-> 2]
HalfACar == [l \in Loop |-> 1]
OneTick == [l \in Loop |-> [v \in {v1, v2, v3, v4} |-> 1]]
=============================================================================
