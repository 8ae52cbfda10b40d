------------------------------ MODULE MCTxFlow -----------------------------
(***************************************************************************)
(* Constants for the runs of TxFlow: topologies and witness sets.          *)
(***************************************************************************)
EXTENDS TxFlow, TLC

CONSTANTS o, m, w   \* the origin, a node in the middle, a witness

MCOrigin == [t \in Tx |-> o]
Mesh == {{n, p} : <<n, p>> \in {x \in Nodes \X Nodes : x[1] # x[2]}}
Star == {{o, m}, {o, w}}
AllButOrigin == [n \in Nodes |-> Nodes \ {o}]
OnlyW == [n \in Nodes |-> {w}]
EveryNodeAccepts == [n \in Nodes |-> Tx]
============================================================================
