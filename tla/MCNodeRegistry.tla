--------------------------- MODULE MCNodeRegistry ---------------------------
(* Small instances of NodeRegistry: one World Node with one Region, or     *)
(* two World Nodes that want the same Region, on a few connections.        *)
EXTENDS NodeRegistry, TLC

CONSTANTS n1, n2, r1, r2, c1, c2, c3, u1

OneRegion == n1 :> <<r1>>
\* r1 is configured at both nodes, and with the coordinates of r2.
Contended == n1 :> <<r1, r2>> @@ n2 :> <<r1>>

OwnCells == [r \in Regions |-> r]
OneCell == [r \in Regions |-> None]
=============================================================================
