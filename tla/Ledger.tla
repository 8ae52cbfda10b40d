------------------------------- MODULE Ledger -------------------------------
(***************************************************************************)
(* The ledger of one node: what its database holds, and the goroutines     *)
(* that read and write it without a common lock.                           *)
(*                                                                         *)
(*   - one goroutine per own transaction: BuildTx (on the API call), then  *)
(*     confirmTx / ConfirmTx once the quorum is there;                     *)
(*   - one reader goroutine per peer, which runs ApplyConfirmedTxBalance   *)
(*     on each TxConfirmed packet;                                         *)
(*   - the API calls Faucet and CreateSnapshot, and the autoSnapshot       *)
(*     goroutines.                                                         *)
(*                                                                         *)
(* Every database call is a step of its own: badger makes one call atomic, *)
(* nothing makes two calls atomic.  A crash keeps the database and loses   *)
(* the goroutines, the pending transactions and the DAG.                   *)
(***************************************************************************)
EXTENDS Amounts, FiniteSets, Functions

CONSTANTS
    Accounts,      \* public keys
    Self,          \* the key of this node: the sender of all its transactions
    Payees,        \* the keys its API clients pay to
    SendAmounts,   \* the amounts its API clients send
    OwnTx,         \* the transactions of this node (by hash)
    Foreign,       \* confirmed transactions of other nodes (by hash)
    ForeignTx,     \* their receiver and amount
    InitBal,       \* the balances stored when the node starts
    NoTx,          \* no transaction record
    NoSnap,        \* no snapshot record
    NoBalance,     \* a witness has no balance stored for a key
    CycleCheckDepth,
    SnapshotInterval,  \* protocol.snapshotInterval
    FaucetAmounts,     \* amounts asked of the faucet
    FaucetDefault,     \* the amount it uses for 0
    Readers,       \* reader goroutines, one per peer
    Callers,       \* API goroutines that run CreateSnapshot
    EchoOwn,       \* peers gossip this node's own TxConfirmed back to it
    MaxInFlight,   \* bound: own transactions between BuildTx and their end
    MaxSeq,        \* bound: the sequence numbers considered
    MaxCrashes,    \* bound: crashes
    MaxFaults,     \* bound: failing database calls
    MaxFaucets     \* bound: faucet calls

ASSUME LedgerAssumption ==
    /\ Self \in Accounts
    /\ Payees \subseteq Accounts
    /\ SendAmounts \subseteq Word
    /\ FaucetAmounts \subseteq Word
    /\ FaucetDefault \in Word
    /\ IsFiniteSet(Accounts) /\ IsFiniteSet(OwnTx) /\ IsFiniteSet(Foreign)
    /\ OwnTx \cap Foreign = {}
    /\ NoTx \notin OwnTx
    /\ ForeignTx \in [Foreign -> [to : Accounts, amount : Word]]
    /\ InitBal \in [Accounts -> Word]
    /\ CycleCheckDepth \in Nat
    /\ SnapshotInterval \in Nat \ {0}
    /\ EchoOwn \in BOOLEAN
    /\ MaxInFlight \in Nat
    /\ MaxSeq \in Nat
    /\ MaxCrashes \in Nat
    /\ MaxFaults \in Nat
    /\ MaxFaucets \in Nat
    /\ NoSnap \notin [seq : Nat, bal : Word]
    /\ NoBalance \notin Nat

VARIABLES
    \* the database
    bal,      \* balances (a key that is absent reads as 0)
    seq,      \* the latest sequence number of Self
    recs,     \* the transaction records of Self, by sequence number
    pool,     \* the reward pool
    applied,  \* hashes marked as applied
    snap,     \* the stored snapshot of Self
    \* memory
    pc,       \* where the goroutine of each own transaction stands
    txn,      \* the transaction it works on
    reg,      \* what it has read from the database
    dag,      \* the edges of the DAGManager
    rd,       \* the reader goroutines
    calls,    \* the CreateSnapshot calls
    jobs,     \* the autoSnapshot goroutines
    \* bounds
    crashes, faults, faucets

disk == <<bal, seq, recs, pool, applied, snap>>
memory == <<pc, txn, reg, dag, rd, calls, jobs>>
vars == <<disk, memory, crashes, faults, faucets>>

D == INSTANCE Dag WITH Hashes <- OwnTx

Tx == OwnTx \cup Foreign
Seqs == 1 .. MaxSeq

\* "idle": not sent; "seq": BuildTx has passed its balance check; "claim":
\* SendTx reads the balance it tells the witnesses; "pending": in pendingTx,
\* the witnesses are asked; "sender", "recv", "batch", "bond", "pool": the database call
\* that ConfirmTx makes next; "done": confirmed and announced; "failed":
\* dropped, by an error or a crash, before its record was written; "cut":
\* recorded, but a crash came before the bond was stored.
Building == {"seq", "claim", "pending"}
Confirming == {"sender", "recv", "batch"}
Bonding == {"bond", "pool"}
Locations == {"idle", "done", "failed", "cut"}
                 \cup Building \cup Confirming \cup Bonding
Unfinished == Building \cup Confirming \cup Bonding

Transactions == [to : Accounts, amount : Word, seq : 0 .. MaxSeq,
                 parents : SUBSET OwnTx]
Registers == [claim : Word, sender : Word, recv : Word, pool : Word]
IdleTx == [to |-> Self, amount |-> 0, seq |-> 0, parents |-> {}]
NoRegisters == [claim |-> 0, sender |-> 0, recv |-> 0, pool |-> 0]
Snapshots == [seq : 0 .. MaxSeq, bal : Word]

IdleReader == [pc |-> "idle", tx |-> NoTx, val |-> 0]
IdleCall == [pc |-> "idle", seq |-> 0, bal |-> 0]

TypeOK ==
    /\ bal \in [Accounts -> Word]
    /\ seq \in 0 .. MaxSeq
    /\ recs \in [Seqs -> OwnTx \cup {NoTx}]
    /\ pool \in Word
    /\ applied \subseteq Tx
    /\ snap \in Snapshots \cup {NoSnap}
    /\ pc \in [OwnTx -> Locations]
    /\ txn \in [OwnTx -> Transactions]
    /\ reg \in [OwnTx -> Registers]
    /\ dag \subseteq OwnTx \X OwnTx
    /\ rd \in [Readers -> [pc : {"idle", "read", "save", "mark"},
                           tx : Tx \cup {NoTx}, val : Word]]
    /\ \A r \in Readers : rd[r].pc # "idle" => rd[r].tx \in Tx
    /\ calls \in [Callers -> [pc : {"idle", "seq", "save"},
                              seq : 0 .. MaxSeq, bal : Word]]
    /\ jobs \subseteq Snapshots
    /\ crashes \in Nat
    /\ faults \in Nat
    /\ faucets \in Nat

Init ==
    /\ bal = InitBal
    /\ seq = 0
    /\ recs = [s \in Seqs |-> NoTx]
    /\ pool = 0
    /\ applied = {}
    /\ snap = NoSnap
    /\ pc = [t \in OwnTx |-> "idle"]
    /\ txn = [t \in OwnTx |-> IdleTx]
    /\ reg = [t \in OwnTx |-> NoRegisters]
    /\ dag = {}
    /\ rd = [r \in Readers |-> IdleReader]
    /\ calls = [c \in Callers |-> IdleCall]
    /\ jobs = {}
    /\ crashes = 0
    /\ faults = 0
    /\ faucets = 0

----------------------------------------------------------------------------
\* A database call may fail (e): the failure counts against MaxFaults.
Faulting(e) ==
    /\ e => faults < MaxFaults
    /\ faults' = IF e THEN faults + 1 ELSE faults

Goto(t, where) == pc' = [pc EXCEPT ![t] = where]

\* The goroutine ends: what it has read is gone.
Leave(t, where) == Goto(t, where) /\ reg' = [reg EXCEPT ![t] = NoRegisters]

\* A variant of Cost that forgets the bond.
CostWithoutBond(amount) == SafeAdd(amount, 0)

Cost(amount) == SafeAdd(amount, BondAmount(amount))

\* A variant of Admits that discards the error of the sum, as the witnesses do.
AdmitsOverflow(b, amount) ==
    ValidateAmount(amount) = "nil" /\ b >= Cost(amount).val

\* What BuildTx requires of the amount and of the balance it has read.
Admits(b, amount) ==
    /\ ValidateAmount(amount) = "nil"
    /\ Cost(amount).err = "nil"
    /\ b >= Cost(amount).val

InFlight == {t \in OwnTx : pc[t] \in Unfinished}

\* BuildTx up to its balance check.  A call that is refused leaves no trace.
BuildTx(t, to, amount) ==
    /\ pc[t] = "idle"
    /\ Cardinality(InFlight) < MaxInFlight
    /\ Admits(bal[Self], amount)
    /\ Goto(t, "seq")
    /\ txn' = [txn EXCEPT ![t].to = to, ![t].amount = amount]
    /\ UNCHANGED <<disk, reg, dag, rd, calls, jobs, crashes, faults, faucets>>

\* A variant of NextSeq that skips a number.
SkippedSeq == seq + 2

NextSeq == seq + 1

\* The rest of BuildTx, and SendTx up to the NonceLock broadcast: the sequence
\* number and the parents, the entry in pendingTx.  The nonce is a fresh random word,
\* so its lock is always acquired.  A failing read aborts the call.
BuildSeq(t, e) ==
    /\ pc[t] = "seq"
    /\ Faulting(e)
    /\ \/ /\ e
          /\ Goto(t, "failed")
          /\ UNCHANGED txn
       \/ /\ ~e
          /\ NextSeq <= MaxSeq
          /\ txn' = [txn EXCEPT ![t].seq = NextSeq,
                                ![t].parents = D!CurrentTips(dag)]
          /\ Goto(t, "claim")
    /\ UNCHANGED <<disk, reg, dag, rd, calls, jobs, crashes, faucets>>

\* GetBalance where its error is discarded: a failing read gives 0.
BalanceOrZero(a, e) == IF e THEN 0 ELSE bal[a]

\* SendTx reads the balance for the snapshot in TxVerify, and broadcasts it.
ReadClaim(t, e) ==
    /\ pc[t] = "claim"
    /\ Faulting(e)
    /\ reg' = [reg EXCEPT ![t].claim = BalanceOrZero(Self, e)]
    /\ Goto(t, "pending")
    /\ UNCHANGED <<disk, txn, dag, rd, calls, jobs, crashes, faucets>>

\* What a witness has stored for the key Self, once it has credited the
\* payments S to it.  (A faucet call for the key, made at the witness, is left
\* out.)
View(S) == IF S = {} THEN NoBalance
               ELSE SumFunctionOnSet([x \in Foreign |-> ForeignTx[x].amount], S)

\* verifyTxInternal: the smaller one of the sender's claim and the witness's view.
Effective(claim, view) ==
    IF view # NoBalance /\ view < claim THEN view ELSE claim

\* verifyTxInternal at another node.  The error of the sum is discarded, which
\* leaves 0.  The check of the sequence number does not apply: the node stores
\* none of Self.  (Where the origin is a witness of its own, it compares with
\* its own number and balance, and accepts nothing that a witness without a
\* view does not accept.)
Accepts(t, view) == Effective(reg[t].claim, view) >= Cost(txn[t].amount).val

\* A witness may have credited any of the payments to Self that fit a balance.
ToSelf == {x \in Foreign : ForeignTx[x].to = Self}
Views == {View(S) : S \in SUBSET ToSelf} \cap (Word \cup {NoBalance})

\* Some witnesses answer the TxVerify.
Answered(t) == pc[t] = "pending" /\ \E view \in Views : Accepts(t, view)

\* handleWitnessSig / confirmTx: the quorum is there and verifies.
QuorumReached(t) ==
    /\ Answered(t)
    /\ Goto(t, "sender")
    /\ UNCHANGED <<disk, txn, reg, dag, rd, calls, jobs, crashes, faults, faucets>>

\* confirmTx: the signatures collected do not verify; the transaction has
\* left pendingTx and is dropped.
QuorumFails(t) ==
    /\ Answered(t)
    /\ Leave(t, "failed")
    /\ UNCHANGED <<disk, txn, dag, rd, calls, jobs, crashes, faults, faucets>>

----------------------------------------------------------------------------
\* ConfirmTx, first read: the balance of the sender, and what is left of it.
ConfirmSender(t, e) ==
    LET total == Cost(txn[t].amount)
        left  == SafeSub(bal[Self], total.val)
    IN  /\ pc[t] = "sender"
        /\ Faulting(e)
        /\ \/ /\ e \/ total.err # "nil" \/ left.err # "nil"
              /\ Leave(t, "failed")
           \/ /\ ~e /\ total.err = "nil" /\ left.err = "nil"
              /\ reg' = [reg EXCEPT ![t].sender = left.val]
              /\ Goto(t, "recv")
        /\ UNCHANGED <<disk, txn, dag, rd, calls, jobs, crashes, faucets>>

\* Second read: the balance of the receiver; then AdvanceTip.  An error of
\* AdvanceTip leaves the edges it had already added.
ConfirmRecv(t, e) ==
    LET more    == SafeAdd(BalanceOrZero(txn[t].to, e), txn[t].amount)
        refused == D!RefusedParents(dag, t, txn[t].parents)
    IN  /\ pc[t] = "recv"
        /\ Faulting(e)
        /\ \/ /\ more.err # "nil" \/ refused # {}
              /\ \E done \in SUBSET (txn[t].parents \ refused) :
                     dag' = IF more.err # "nil" THEN dag
                            ELSE D!WithParents(dag, t, done)
              /\ Leave(t, "failed")
           \/ /\ more.err = "nil" /\ refused = {}
              /\ dag' = D!WithParents(dag, t, txn[t].parents)
              /\ reg' = [reg EXCEPT ![t].recv = more.val]
              /\ Goto(t, "batch")
        /\ UNCHANGED <<disk, txn, rd, calls, jobs, crashes, faucets>>

\* A variant of BatchBalances that forgets the receiver.
SenderOnly(t) == [bal EXCEPT ![Self] = reg[t].sender]

\* The batch sets the sender's balance, then the receiver's.
BatchBalances(t) == [bal EXCEPT ![Self] = reg[t].sender, ![txn[t].to] = reg[t].recv]

\* A variant of BatchSeq that leaves the stored sequence number alone.
KeptSeq(t) == seq

BatchSeq(t) == txn[t].seq

Record(t) == recs' = [recs EXCEPT ![txn[t].seq] = t]

\* A variant of RolledBack where the writes are separate and the first one
\* stays.
LeavesRecord(t) == Record(t) /\ UNCHANGED <<bal, seq>>

\* A batch that fails leaves nothing: badger discards the transaction.
RolledBack(t) == UNCHANGED <<bal, seq, recs>>

\* ConfirmTxBatch: both balances, the sequence number and the record in one
\* badger transaction.
ConfirmBatch(t, e) ==
    /\ pc[t] = "batch"
    /\ Faulting(e)
    /\ \/ /\ e
          /\ Leave(t, "failed")
          /\ RolledBack(t)
       \/ /\ ~e
          /\ bal' = BatchBalances(t)
          /\ seq' = BatchSeq(t)
          /\ Record(t)
          /\ Goto(t, "bond")
          /\ UNCHANGED reg
    /\ UNCHANGED <<pool, applied, snap, txn, dag, rd, calls, jobs, crashes, faucets>>

\* A variant of SnapshotOf labelled with the number before.
SnapshotBefore(t) == [seq |-> txn[t].seq - 1, bal |-> reg[t].sender]

SnapshotOf(t) == [seq |-> txn[t].seq, bal |-> reg[t].sender]

\* confirmTx returns: the TxConfirmed broadcast goes out, and every
\* SnapshotInterval-th transaction starts an autoSnapshot goroutine.
Finish(t) ==
    /\ Leave(t, "done")
    /\ jobs' = IF txn[t].seq % SnapshotInterval = 0
               THEN jobs \cup {SnapshotOf(t)}
               ELSE jobs

\* AccumulateBond, the read of the pool.  Its errors are discarded.
BondRead(t, e) ==
    /\ pc[t] = "bond"
    /\ Faulting(e)
    /\ \/ /\ e
          /\ Finish(t)
       \/ /\ ~e
          /\ reg' = [reg EXCEPT ![t].pool = pool]
          /\ Goto(t, "pool")
          /\ UNCHANGED jobs
    /\ UNCHANGED <<disk, txn, dag, rd, calls, crashes, faucets>>

\* A variant of PoolWithBond that adds the amount.
PoolWithAmount(t) == SafeAdd(reg[t].pool, txn[t].amount)

\* A variant of PoolWithBond that forgets what the pool holds.
BondAlone(t) == SafeAdd(0, BondAmount(txn[t].amount))

PoolWithBond(t) == SafeAdd(reg[t].pool, BondAmount(txn[t].amount))

\* AccumulateBond, the write.
BondWrite(t, e) ==
    /\ pc[t] = "pool"
    /\ Faulting(e)
    /\ pool' = IF e \/ PoolWithBond(t).err # "nil" THEN pool ELSE PoolWithBond(t).val
    /\ Finish(t)
    /\ UNCHANGED <<bal, seq, recs, applied, snap, txn, dag, rd, calls, crashes, faucets>>

----------------------------------------------------------------------------
\* The receiver and the amount of a transaction announced by TxConfirmed.
Payload(x) == IF x \in Foreign THEN ForeignTx[x]
              ELSE [to |-> txn[x].to, amount |-> txn[x].amount]

Announced == Foreign \cup (IF EchoOwn THEN {t \in OwnTx : pc[t] = "done"} ELSE {})

\* A variant of NotApplied that ignores the mark.
IgnoresMark(x, e) == TRUE

\* IsConfirmedTxApplied is false, or fails and reads as false.
NotApplied(x, e) == x \notin applied \/ e

\* ApplyConfirmedTxBalance, the duplicate check.  A packet that gossip drops
\* before it, and one that the check rejects, change nothing here.
ApplyCheck(r, x, e) ==
    /\ rd[r].pc = "idle"
    /\ x \in Announced
    /\ Faulting(e)
    /\ NotApplied(x, e)
    /\ rd' = [rd EXCEPT ![r] = [pc |-> "read", tx |-> x, val |-> 0]]
    /\ UNCHANGED <<disk, pc, txn, reg, dag, calls, jobs, crashes, faucets>>

ApplyRead(r, e) ==
    LET x    == Payload(rd[r].tx)
        more == SafeAdd(BalanceOrZero(x.to, e), x.amount)
    IN  /\ rd[r].pc = "read"
        /\ Faulting(e)
        /\ \/ /\ more.err # "nil"
              /\ rd' = [rd EXCEPT ![r] = IdleReader]
           \/ /\ more.err = "nil"
              /\ rd' = [rd EXCEPT ![r] = [pc |-> "save", tx |-> rd[r].tx, val |-> more.val]]
        /\ UNCHANGED <<disk, pc, txn, reg, dag, calls, jobs, crashes, faucets>>

\* SaveBalance; its failure returns before the mark.
ApplySave(r, e) ==
    /\ rd[r].pc = "save"
    /\ Faulting(e)
    /\ \/ /\ e
          /\ rd' = [rd EXCEPT ![r] = IdleReader]
          /\ UNCHANGED bal
       \/ /\ ~e
          /\ bal' = [bal EXCEPT ![Payload(rd[r].tx).to] = rd[r].val]
          /\ rd' = [rd EXCEPT ![r].pc = "mark"]
    /\ UNCHANGED <<seq, recs, pool, applied, snap, pc, txn, reg, dag, calls, jobs, crashes, faucets>>

\* MarkConfirmedTxApplied, whose error is discarded.
ApplyMark(r, e) ==
    /\ rd[r].pc = "mark"
    /\ Faulting(e)
    /\ applied' = IF e THEN applied ELSE applied \cup {rd[r].tx}
    /\ rd' = [rd EXCEPT ![r] = IdleReader]
    /\ UNCHANGED <<bal, seq, recs, pool, snap, pc, txn, reg, dag, calls, jobs, crashes, faucets>>

----------------------------------------------------------------------------
\* Faucet SETS the balance of any key; 0 asks for the default.
Faucet(a, amount) ==
    /\ faucets < MaxFaucets
    /\ faucets' = faucets + 1
    /\ bal' = [bal EXCEPT ![a] = IF amount = 0 THEN FaucetDefault ELSE amount]
    /\ UNCHANGED <<seq, recs, pool, applied, snap, memory, crashes, faults>>

\* CreateSnapshot: two reads, whose errors are discarded, and a write.
SnapshotBalance(c, e) ==
    /\ calls[c].pc = "idle"
    /\ Faulting(e)
    /\ calls' = [calls EXCEPT ![c] =
                    [pc |-> "seq", seq |-> 0, bal |-> BalanceOrZero(Self, e)]]
    /\ UNCHANGED <<disk, pc, txn, reg, dag, rd, jobs, crashes, faucets>>

SnapshotSeq(c, e) ==
    /\ calls[c].pc = "seq"
    /\ Faulting(e)
    /\ calls' = [calls EXCEPT ![c].pc = "save", ![c].seq = IF e THEN 0 ELSE seq]
    /\ UNCHANGED <<disk, pc, txn, reg, dag, rd, jobs, crashes, faucets>>

SnapshotSave(c, e) ==
    /\ calls[c].pc = "save"
    /\ Faulting(e)
    /\ snap' = IF e THEN snap ELSE [seq |-> calls[c].seq, bal |-> calls[c].bal]
    /\ calls' = [calls EXCEPT ![c] = IdleCall]
    /\ UNCHANGED <<bal, seq, recs, pool, applied, pc, txn, reg, dag, rd, jobs, crashes, faucets>>

\* autoSnapshot stores the balance and the sequence number it was given.
AutoSnapshot(j, e) ==
    /\ j \in jobs
    /\ Faulting(e)
    /\ snap' = IF e THEN snap ELSE j
    /\ jobs' = jobs \ {j}
    /\ UNCHANGED <<bal, seq, recs, pool, applied, pc, txn, reg, dag, rd, calls, crashes, faucets>>

\* The process dies and is started again on its database.
Crash ==
    /\ crashes < MaxCrashes
    /\ crashes' = crashes + 1
    /\ pc' = [t \in OwnTx |-> IF pc[t] \in Building \cup Confirming THEN "failed"
                              ELSE IF pc[t] \in Bonding THEN "cut" ELSE pc[t]]
    /\ reg' = [t \in OwnTx |-> NoRegisters]
    /\ rd' = [r \in Readers |-> IdleReader]
    /\ calls' = [c \in Callers |-> IdleCall]
    /\ jobs' = {}
    /\ dag' = {}
    /\ UNCHANGED <<disk, txn, faults, faucets>>

----------------------------------------------------------------------------
TxStep(t) ==
    \/ QuorumReached(t)
    \/ QuorumFails(t)
    \/ \E e \in BOOLEAN :
          \/ BuildSeq(t, e)
          \/ ReadClaim(t, e)
          \/ ConfirmSender(t, e)
          \/ ConfirmRecv(t, e)
          \/ ConfirmBatch(t, e)
          \/ BondRead(t, e)
          \/ BondWrite(t, e)

ReaderStep(r, e) ==
    \/ ApplyRead(r, e)
    \/ ApplySave(r, e)
    \/ ApplyMark(r, e)

\* A variant of CallStep that reads the sequence number first.
CallStepSwapped(c, e) ==
    \/ /\ calls[c].pc \in {"idle", "seq"}
       /\ Faulting(e)
       /\ calls' = [calls EXCEPT ![c] =
                       IF @.pc = "idle"
                       THEN [pc |-> "seq", seq |-> IF e THEN 0 ELSE seq, bal |-> 0]
                       ELSE [@ EXCEPT !.pc = "save", !.bal = BalanceOrZero(Self, e)]]
       /\ UNCHANGED <<disk, pc, txn, reg, dag, rd, jobs, crashes, faucets>>
    \/ SnapshotSave(c, e)

CallStep(c, e) ==
    \/ SnapshotBalance(c, e)
    \/ SnapshotSeq(c, e)
    \/ SnapshotSave(c, e)

Next ==
    \/ \E t \in OwnTx, to \in Payees, amount \in SendAmounts : BuildTx(t, to, amount)
    \/ \E t \in OwnTx : TxStep(t)
    \/ \E r \in Readers, x \in Tx, e \in BOOLEAN : ApplyCheck(r, x, e)
    \/ \E r \in Readers, e \in BOOLEAN : ReaderStep(r, e)
    \/ \E a \in Accounts, amount \in FaucetAmounts : Faucet(a, amount)
    \/ \E c \in Callers, e \in BOOLEAN : CallStep(c, e)
    \/ \E j \in jobs, e \in BOOLEAN : AutoSnapshot(j, e)
    \/ Crash

Spec == Init /\ [][Next]_vars

----------------------------------------------------------------------------
\* The transactions whose record has been written.
Confirmed == {t \in OwnTx : pc[t] \in Bonding \cup {"done", "cut"}}

\* What a transaction takes out of its sender's account.
Outlay(t) == BondAmount(txn[t].amount)
                 + (IF txn[t].to = Self THEN 0 ELSE txn[t].amount)

\* The foreign payments whose credit has been saved.
Credited == (applied \cup {rd[r].tx : r \in {q \in Readers : rd[q].pc = "mark"}})
                \cap Foreign

PaidTo(a, S) == {x \in S : Payload(x).to = a}
Outlays(S) == SumFunctionOnSet([t \in OwnTx |-> Outlay(t)], S)
Bonds(S) == SumFunctionOnSet([t \in OwnTx |-> BondAmount(txn[t].amount)], S)
Total(S) == SumFunctionOnSet([x \in Tx |-> Payload(x).amount], S)
Worth(b) == SumFunctionOnSet(b, Accounts)

(* The chain of Self has no holes, whatever the goroutines interleave, fail
   and lose: its records are those of 1 .. n, the stored sequence number is
   one of them, and a transaction being built or confirmed has a number at
   most one beyond them (BuildTx, ConfirmTxBatch: sequence and record are
   written together, the next number is read from the store). *)
SeqRecorded == seq > 0 => recs[seq] # NoTx
RecordsArePrefix == \A s \in Seqs : recs[s] # NoTx => \A i \in 1 .. s : recs[i] # NoTx
TxExtendsRecords ==
    \A t \in OwnTx : pc[t] \in {"claim", "pending"} \cup Confirming =>
        /\ txn[t].seq \in Seqs
        /\ txn[t].seq > 1 => recs[txn[t].seq - 1] # NoTx
NoGaps == SeqRecorded /\ RecordsArePrefix /\ TxExtendsRecords

(* AccumulateBond reads and writes the pool in two calls, so bonds can be
   lost; but the pool never holds more than the bonds charged. *)
BondsBacked == pool <= Bonds(Confirmed)

(* A transaction that was dropped, by a failing call, a failed quorum or a
   crash, is not on record: the client that never sees it confirmed may send
   it again (ConfirmTxBatch is one badger transaction). *)
DroppedIsUnrecorded == \A t \in OwnTx : pc[t] = "failed" => \A s \in Seqs : recs[s] # t

(* The witnesses sign only for what the sender's account covered when they
   were asked, amount and bond, though they discard the error of the sum and
   cannot see the account (BuildTx, the second balance read of SendTx,
   verifyTxInternal). *)
QuorumCovered ==
    \A t \in OwnTx : pc[t] \in Confirming =>
        Cost(txn[t].amount).err = "nil" /\ reg[t].claim >= Cost(txn[t].amount).val

(* A witness accepts every payment that the sender's account covers, whatever
   the witness has seen of the network before (types.go: the snapshot is what
   a witness checks the sender's balance with). *)
CoveredIsAccepted ==
    \A t \in OwnTx, view \in Views :
        pc[t] = "pending" /\ reg[t].claim >= Cost(txn[t].amount).val => Accepts(t, view)

(* A confirmed transaction is on record, under its own number: no other
   transaction of the node takes its place (BuildTx reads the number,
   ConfirmTxBatch stores the record under it). *)
ConfirmedOnRecord == \A t \in Confirmed : recs[txn[t].seq] = t

(* The bond of every confirmed transaction is in the pool, or on its way there,
   but for those that a crash or a failing call has cut off, one for each at
   most: for a client that waits, no update of the pool is lost (ConfirmTx
   takes the bond out of the account, AccumulateBond reads and writes the pool
   in two calls, whose errors are discarded). *)
BondsCollected ==
    \E lost \in SUBSET Confirmed :
        /\ Cardinality(lost) <= crashes + faults
        /\ pool + Bonds({t \in OwnTx : pc[t] \in Bonding}) + Bonds(lost) = Bonds(Confirmed)

(* A record, once written, is that of the same transaction for ever
   (ConfirmTxBatch writes at the key of sender and sequence number). *)
RecordsImmutable ==
    [][\A s \in Seqs : recs[s] # NoTx => recs'[s] = recs[s]]_vars

(* What the node has confirmed it could pay for: no more has left its account
   than it held at the start and was paid (BuildTx and ConfirmTx check the
   balance they have read; for runs without a faucet). *)
SpentWithinFunds ==
    Outlays(Confirmed) <= InitBal[Self] + Total(PaidTo(Self, Foreign))

(* The account of Self holds what it held, plus the payments credited to it,
   less what its confirmed transactions took: no write of ConfirmTx is lost or
   undone, whatever fails in it or is credited to others meanwhile (it writes
   back what it has computed from an earlier read). *)
SenderExact ==
    bal[Self] + Outlays(Confirmed)
        = InitBal[Self] + Total(PaidTo(Self, Credited))

(* Every other account holds what it held plus each payment to it, once. *)
ReceiversExact ==
    \A a \in Accounts \ {Self} :
        bal[a] = InitBal[a] + Total(PaidTo(a, Confirmed \cup Credited))

(* Value is neither made nor lost: balances, pool and the bonds that are
   charged and on their way to the pool add up to what there was at the start
   and what foreign payments brought in. *)
Conservation ==
    Worth(bal) + pool + Bonds({t \in OwnTx : pc[t] \in Bonding})
        = Worth(InitBal) + Total(Credited)

(* The stored snapshot is a state of the chain: its balance is the one the
   account had when its sequence number was the latest (autoSnapshot stores
   late, and in any order, what ConfirmTx gave it; where nobody calls
   CreateSnapshot). *)
SnapshotMatchesChain ==
    snap # NoSnap =>
        snap.bal + Outlays({recs[s] : s \in 1 .. snap.seq}) = InitBal[Self]

(* A snapshot is never of a later state than its sequence number says: its
   balance is the one the account had at that number or at an earlier one,
   though confirmations come between the two reads of CreateSnapshot and
   autoSnapshot goroutines overwrite what it stores (it reads the balance
   first; failing calls apart, which read as 0). *)
SnapshotLags ==
    snap # NoSnap /\ faults = 0 =>
        \E n \in 0 .. snap.seq :
            snap.bal + Outlays({recs[s] : s \in 1 .. n}) = InitBal[Self]

\* The abstract ledger: its chain is the sequence of the stored records.
Atomic == INSTANCE LedgerAbs WITH
    balance <- bal,
    chain <- [s \in 1 .. seq |-> [tx |-> recs[s], to |-> txn[recs[s]].to,
                                  amount |-> txn[recs[s]].amount]],
    credited <- Credited,
    Bond <- BondAmount

(* The three reads and writes of ConfirmTx, and the four calls of
   ApplyConfirmedTxBalance, look like one step each, however they interleave:
   for a client that waits for each transaction, next to a reader that credits
   other accounts from repeated announcements. *)
IsAtomicLedger == Atomic!Spec
============================================================================
