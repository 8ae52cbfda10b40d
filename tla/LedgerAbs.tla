----------------------------- MODULE LedgerAbs -----------------------------
(***************************************************************************)
(* What the ledger of a node promises: a transfer out of its own account   *)
(* takes place at once, at the next place of its chain, and only when the  *)
(* account covers amount and bond; a payment confirmed elsewhere is        *)
(* credited once; nothing else moves a balance.                            *)
(***************************************************************************)
EXTENDS Integers, Sequences

CONSTANTS
    Accounts, Self, InitBal, OwnTx, Foreign, ForeignTx,
    Bond(_)   \* the fee on an amount

VARIABLES
    balance,   \* what each account holds
    chain,     \* the own transfers, in order
    credited   \* the foreign payments already credited

vars == <<balance, chain, credited>>

Init ==
    /\ balance = InitBal
    /\ chain = <<>>
    /\ credited = {}

Transfer(t, to, amount) ==
    /\ \A i \in DOMAIN chain : chain[i].tx # t
    /\ amount > 0
    /\ balance[Self] >= amount + Bond(amount)
    /\ balance' = [balance EXCEPT ![Self] = @ - (amount + Bond(amount)),
                                  ![to] = @ + amount]
    /\ chain' = Append(chain, [tx |-> t, to |-> to, amount |-> amount])
    /\ UNCHANGED credited

Credit(x) ==
    /\ x \notin credited
    /\ credited' = credited \cup {x}
    /\ balance' = [balance EXCEPT ![ForeignTx[x].to] = @ + ForeignTx[x].amount]
    /\ UNCHANGED chain

\* The amount of a transfer is bounded by the balance that pays for it.
Next ==
    \/ \E t \in OwnTx, to \in Accounts : \E amount \in 1 .. balance[Self] :
           Transfer(t, to, amount)
    \/ \E x \in Foreign : Credit(x)

Spec == Init /\ [][Next]_vars
============================================================================
