--------------------------- MODULE MCSyncProtocol ---------------------------
(* Small instances of SyncProtocol for TLC: partitions in a line 0 - 1 - 2,  *)
(* so that 0 and 2 are no neighbours.                                        *)
EXTENDS SyncProtocol

Line3 == 0..2

LineNbr == [r \in Line3 |-> {s \in Line3 : s = r - 1 \/ s = r + 1}]
\* A teleported leg may end in any partition.
ReachAll == [r \in Line3 |-> Line3 \ {r}]
=============================================================================
