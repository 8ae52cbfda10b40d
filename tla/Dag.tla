-------------------------------- MODULE Dag --------------------------------
(***************************************************************************)
(* The DAG of transaction hashes kept by internal/protocol/dag.go, as a    *)
(* set of pairs <<child, parent>>.  The map of the code has a key for a    *)
(* hash only once an edge leaves it, so its keys are the children.         *)
(***************************************************************************)
EXTENDS Integers

CONSTANTS
    Hashes,          \* the hashes that may occur in the graph
    CycleCheckDepth  \* dagCycleCheckDepth: how deep the cycle search goes

Edges == Hashes \X Hashes
Children(E) == {e[1] : e \in E}

\* isAncestorLocked: target is reached from cur over at most
\* CycleCheckDepth + 1 edges.
IsAncestor(E, cur, target) ==
    \E n \in 1 .. (CycleCheckDepth + 1) : \E path \in [0 .. n -> Hashes] :
        /\ path[0] = cur
        /\ path[n] = target
        /\ \A i \in 0 .. (n - 1) : <<path[i], path[i + 1]>> \in E

\* AddEdge refuses an edge for a cycle; an edge that is there already is an
\* error that AdvanceTip ignores.
RefusesEdge(E, from, to) == from = to \/ IsAncestor(E, to, from)

\* AdvanceTip adds the edges to the parents one by one and stops at the first
\* one refused.  Edges out of h cannot lead back to h, so which parents are
\* refused does not depend on the ones added before.
RefusedParents(E, h, parents) == {p \in parents : RefusesEdge(E, h, p)}
WithParents(E, h, parents) == E \cup {<<h, p>> : p \in parents}

\* CurrentTips: the keys of the map that are nobody's parent.
CurrentTips(E) == {h \in Children(E) : \A e \in E : e[2] # h}
============================================================================
