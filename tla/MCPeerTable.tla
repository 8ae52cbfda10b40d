---------------------------- MODULE MCPeerTable ----------------------------
(***************************************************************************)
(* Constants for the runs of PeerTable.                                    *)
(***************************************************************************)
EXTENDS PeerTable, TLC

CONSTANTS c1, c2, c3, k1, k2, a

\* c1 and c2 are the connections of two nodes that have dialled each other.
TwoDialledEachOther == [c \in Conns |-> IF c = c3 THEN k2 ELSE k1]
============================================================================
