------------------------------ MODULE MCLedger -----------------------------
(***************************************************************************)
(* Constants for the runs of Ledger: the node a pays b (or itself), and    *)
(* foreign transactions pay a, b or the bystander c.                       *)
(***************************************************************************)
EXTENDS Ledger, TLC

MCInitBal == [x \in Accounts |-> IF x = Self THEN 9 ELSE 0]
MCForeignToSelf == [f \in Foreign |-> [to |-> Self, amount |-> 1]]

\* Own transactions are interchangeable: no definition tells one from another.
OwnTxSymmetry == Permutations(OwnTx)

CONSTANT Bystander
MCForeignToBystander == [f \in Foreign |-> [to |-> Bystander, amount |-> 2]]
============================================================================
