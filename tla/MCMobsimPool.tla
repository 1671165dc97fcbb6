---------------------------- MODULE MCMobsimPool ----------------------------
(* Small instances of MobsimPool for TLC: three partitions in a line.        *)
EXTENDS MobsimPool

Line3 == 0..2
LineNbr == [r \in Line3 |-> {s \in Line3 : s = r - 1 \/ s = r + 1}]
\* A teleported leg may end in any partition.
ReachAll == [r \in Line3 |-> Line3 \ {r}]
\* Everybody starts in partition 0.
HomeZero == [v \in Vehicles |-> 0]
=============================================================================
