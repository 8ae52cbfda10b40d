---------------------------- MODULE LedgerProofs ---------------------------
(***************************************************************************)
(* Proofs about Ledger, for every set of accounts, transactions, readers   *)
(* and API callers, every legal amount and every bound.                    *)
(***************************************************************************)
EXTENDS Ledger, AmountsProofs

\* The results of the checked arithmetic are words.
LEMMA ArithmeticInWord ==
    /\ \A a, b \in Word : SafeAdd(a, b).val \in Word /\ SafeSub(a, b).val \in Word
    /\ \A a \in Word : BondAmount(a) \in Word /\ Cost(a).val \in Word
    /\ 0 \in Word
  <1>1. ASSUME NEW a \in Word, NEW b \in Word
        PROVE  SafeAdd(a, b).val \in Word /\ SafeSub(a, b).val \in Word
    <2>1. SafeAdd(a, b).val \in 0 .. MaxAmount
      BY SafeAddExact
    <2>2. SafeSub(a, b).val \in 0 .. a
      BY SafeSubExact
    <2>3. 0 .. a \subseteq Word
      BY AmountsAssumption DEF Word
    <2> QED BY <2>1, <2>2, <2>3, AmountsAreWords
  <1>2. ASSUME NEW a \in Word
        PROVE  BondAmount(a) \in Word /\ Cost(a).val \in Word
    <2>1. BondAmount(a) \in 0 .. a
      BY BondBounded
    <2>2. BondAmount(a) \in Word
      BY <2>1, AmountsAssumption DEF Word
    <2> QED BY <2>2, <1>1 DEF Cost
  <1> QED BY <1>1, <1>2, AmountsAreWords

\* The value read from the store, or 0 for a failing read, is a word.
LEMMA BalanceOrZeroInWord ==
    ASSUME TypeOK, NEW a \in Accounts, NEW e \in BOOLEAN
    PROVE  BalanceOrZero(a, e) \in Word
  BY ArithmeticInWord DEF TypeOK, BalanceOrZero

\* A payload is an account and an amount.
LEMMA PayloadType ==
    ASSUME TypeOK, NEW x \in Tx
    PROVE  Payload(x).to \in Accounts /\ Payload(x).amount \in Word
  BY LedgerAssumption DEF TypeOK, Payload, Tx, Transactions

\* Forgotten registers are registers.
LEMMA NoRegistersType == NoRegisters \in Registers
  BY ArithmeticInWord DEF NoRegisters, Registers

----------------------------------------------------------------------------
(* Type correctness of every reachable state. *)
LEMMA InitTypeOK == Init => TypeOK
  BY LedgerAssumption, ArithmeticInWord
  DEF Init, TypeOK, Locations, Transactions, Registers, IdleTx, NoRegisters,
      IdleReader, IdleCall, Tx

\* Building and confirming an own transaction.
LEMMA TxStepTypeOK ==
    ASSUME TypeOK, NEW t \in OwnTx, TxStep(t)
    PROVE  TypeOK'
  <1> USE LedgerAssumption DEF TypeOK, Locations, Building, Confirming, Bonding, disk
  <1>1. CASE QuorumReached(t) \/ QuorumFails(t)
    <2>1. reg' \in [OwnTx -> Registers]
      BY <1>1, NoRegistersType DEF QuorumReached, QuorumFails, Leave
    <2> QED BY <1>1, <2>1 DEF QuorumReached, QuorumFails, Answered, Leave, Goto
  <1>8. ASSUME NEW e \in BOOLEAN, ReadClaim(t, e) PROVE TypeOK'
    <2> DEFINE claim == BalanceOrZero(Self, e)
    <2>1. claim \in Word
      BY BalanceOrZeroInWord
    <2>2. reg' = [reg EXCEPT ![t].claim = claim]
      BY <1>8 DEF ReadClaim
    <2> HIDE DEF claim
    <2>3. reg' \in [OwnTx -> Registers]
      BY <2>1, <2>2 DEF Registers
    <2>4. pc' \in [OwnTx -> Locations] /\ faults' \in Nat
      BY <1>8 DEF ReadClaim, Faulting, Goto
    <2>5. UNCHANGED <<disk, txn, dag, rd, calls, jobs, crashes, faucets>>
      BY <1>8 DEF ReadClaim
    <2> QED BY <2>3, <2>4, <2>5
  <1>2. ASSUME NEW e \in BOOLEAN, BuildSeq(t, e) PROVE TypeOK'
    <2>1. CASE e
      BY <1>2, <2>1 DEF BuildSeq, Faulting, Goto
    <2>2. CASE ~e
      <3>1. NextSeq \in 0 .. MaxSeq /\ D!CurrentTips(dag) \subseteq OwnTx
        BY <1>2, <2>2 DEF BuildSeq, NextSeq, D!CurrentTips, D!Children
      <3>2. txn' \in [OwnTx -> Transactions]
        BY <1>2, <2>2, <3>1, SMTT(30) DEF BuildSeq, Transactions
      <3> QED BY <1>2, <2>2, <3>2 DEF BuildSeq, Faulting, Goto
    <2> QED BY <2>1, <2>2
  <1>3. ASSUME NEW e \in BOOLEAN, ConfirmSender(t, e) PROVE TypeOK'
    <2> DEFINE left == SafeSub(bal[Self], Cost(txn[t].amount).val)
    <2>0. reg' = [reg EXCEPT ![t] = NoRegisters] \/ reg' = [reg EXCEPT ![t].sender = left.val]
      BY <1>3 DEF ConfirmSender, Leave
    <2>1. left.val \in Word
      BY ArithmeticInWord DEF Transactions
    <2> HIDE DEF left
    <2>2. reg' \in [OwnTx -> Registers]
      <3>1. CASE reg' = [reg EXCEPT ![t] = NoRegisters]
        BY <3>1, NoRegistersType
      <3>2. CASE reg' = [reg EXCEPT ![t].sender = left.val]
        BY <3>2, <2>1, SMTT(30) DEF Registers
      <3> QED BY <2>0, <3>1, <3>2
    <2>3. pc' \in [OwnTx -> Locations] /\ faults' \in Nat
      BY <1>3 DEF ConfirmSender, Faulting, Leave, Goto
    <2>4. UNCHANGED <<disk, txn, dag, rd, calls, jobs, crashes, faucets>>
      BY <1>3 DEF ConfirmSender
    <2> QED BY <2>2, <2>3, <2>4
  <1>4. ASSUME NEW e \in BOOLEAN, ConfirmRecv(t, e) PROVE TypeOK'
    <2> DEFINE more == SafeAdd(BalanceOrZero(txn[t].to, e), txn[t].amount)
    <2>0. reg' = [reg EXCEPT ![t] = NoRegisters] \/ reg' = [reg EXCEPT ![t].recv = more.val]
      BY <1>4 DEF ConfirmRecv, Leave
    <2>1. more.val \in Word
      BY ArithmeticInWord, BalanceOrZeroInWord DEF Transactions
    <2> HIDE DEF more
    <2>2. reg' \in [OwnTx -> Registers]
      <3>1. CASE reg' = [reg EXCEPT ![t] = NoRegisters]
        BY <3>1, NoRegistersType
      <3>2. CASE reg' = [reg EXCEPT ![t].recv = more.val]
        BY <3>2, <2>1 DEF Registers
      <3> QED BY <2>0, <3>1, <3>2
    <2>3. dag' \subseteq OwnTx \X OwnTx
      BY <1>4 DEF ConfirmRecv, D!WithParents, Transactions
    <2>4. pc' \in [OwnTx -> Locations] /\ faults' \in Nat
      BY <1>4 DEF ConfirmRecv, Faulting, Leave, Goto
    <2>5. UNCHANGED <<disk, txn, rd, calls, jobs, crashes, faucets>>
      BY <1>4 DEF ConfirmRecv
    <2> QED BY <2>2, <2>3, <2>4, <2>5
  <1>5. ASSUME NEW e \in BOOLEAN, ConfirmBatch(t, e) PROVE TypeOK'
    <2>1. reg' \in [OwnTx -> Registers]
      BY <1>5, ArithmeticInWord DEF ConfirmBatch, Leave, Goto, Registers, NoRegisters
    <2>2. CASE e
      BY <1>5, <2>1, <2>2 DEF ConfirmBatch, Faulting, Leave, Goto, RolledBack
    <2>3. CASE ~e
      <3>1. bal' \in [Accounts -> Word] /\ seq' \in 0 .. MaxSeq
        BY <1>5, <2>3 DEF ConfirmBatch, BatchBalances, BatchSeq, Transactions, Registers
      <3> QED BY <1>5, <2>1, <2>3, <3>1, SMTT(30) DEF ConfirmBatch, Faulting, Goto, Record
    <2> QED BY <2>2, <2>3
  <1>6. ASSUME NEW e \in BOOLEAN, BondRead(t, e) PROVE TypeOK'
    <2>0. reg' = [reg EXCEPT ![t] = NoRegisters] \/ reg' = [reg EXCEPT ![t].pool = pool]
      BY <1>6 DEF BondRead, Finish, Leave
    <2>1. reg' \in [OwnTx -> Registers]
      <3>1. CASE reg' = [reg EXCEPT ![t] = NoRegisters]
        BY <3>1, NoRegistersType
      <3>2. CASE reg' = [reg EXCEPT ![t].pool = pool]
        BY <3>2 DEF Registers
      <3> QED BY <2>0, <3>1, <3>2
    <2>2. jobs' \subseteq Snapshots
      BY <1>6 DEF BondRead, Finish, SnapshotOf, Snapshots, Transactions, Registers
    <2> QED BY <1>6, <2>1, <2>2 DEF BondRead, Faulting, Finish, Leave, Goto
  <1>7. ASSUME NEW e \in BOOLEAN, BondWrite(t, e) PROVE TypeOK'
    <2>1. reg' \in [OwnTx -> Registers]
      BY <1>7, ArithmeticInWord DEF BondWrite, Finish, Leave, Goto, Registers, NoRegisters
    <2>2. jobs' \subseteq Snapshots
      BY <1>7 DEF BondWrite, Finish, SnapshotOf, Snapshots, Transactions, Registers
    <2>3. pool' \in Word
      BY <1>7, ArithmeticInWord DEF BondWrite, PoolWithBond, Transactions, Registers
    <2> QED BY <1>7, <2>1, <2>2, <2>3 DEF BondWrite, Faulting, Finish, Leave, Goto
  <1> QED BY <1>1, <1>2, <1>3, <1>4, <1>5, <1>6, <1>7, <1>8 DEF TxStep

\* The reader goroutines.
LEMMA ReaderTypeOK ==
    ASSUME TypeOK, NEW r \in Readers, NEW e \in BOOLEAN,
           (\E x \in Tx : ApplyCheck(r, x, e)) \/ ReaderStep(r, e)
    PROVE  TypeOK'
  <1> USE DEF TypeOK, disk
  <1>1. ASSUME NEW x \in Tx, ApplyCheck(r, x, e) PROVE TypeOK'
    BY <1>1, ArithmeticInWord DEF ApplyCheck, Faulting
  <1>2. CASE ApplyRead(r, e)
    <2> DEFINE x == Payload(rd[r].tx)
               more == SafeAdd(BalanceOrZero(x.to, e), x.amount)
    <2>1. rd[r].tx \in Tx
      BY <1>2 DEF ApplyRead
    <2>2. more.val \in Word
      BY <2>1, PayloadType, BalanceOrZeroInWord, ArithmeticInWord
    <2> HIDE DEF x, more
    <2>3. rd' = [rd EXCEPT ![r] = IdleReader]
             \/ rd' = [rd EXCEPT ![r] = [pc |-> "save", tx |-> rd[r].tx, val |-> more.val]]
      BY <1>2 DEF ApplyRead, x, more
    <2>4. /\ rd' \in [Readers -> [pc : {"idle", "read", "save", "mark"},
                                  tx : Tx \cup {NoTx}, val : Word]]
          /\ \A q \in Readers : rd'[q].pc # "idle" => rd'[q].tx \in Tx
      <3>1. CASE rd' = [rd EXCEPT ![r] = IdleReader]
        BY <3>1, ArithmeticInWord DEF IdleReader
      <3>2. CASE rd' = [rd EXCEPT ![r] = [pc |-> "save", tx |-> rd[r].tx, val |-> more.val]]
        BY <2>1, <2>2, <3>2
      <3> QED BY <2>3, <3>1, <3>2
    <2>5. faults' \in Nat
      BY <1>2 DEF ApplyRead, Faulting
    <2>6. UNCHANGED <<disk, pc, txn, reg, dag, calls, jobs, crashes, faucets>>
      BY <1>2 DEF ApplyRead
    <2> QED BY <2>4, <2>5, <2>6
  <1>3. CASE ApplySave(r, e)
    <2>1. Payload(rd[r].tx).to \in Accounts
      BY <1>3, PayloadType DEF ApplySave
    <2>2. bal' \in [Accounts -> Word]
      BY <1>3, <2>1 DEF ApplySave
    <2>3. faults' \in Nat
      BY <1>3 DEF ApplySave, Faulting
    <2>4. /\ rd' \in [Readers -> [pc : {"idle", "read", "save", "mark"},
                                  tx : Tx \cup {NoTx}, val : Word]]
          /\ \A q \in Readers : rd'[q].pc # "idle" => rd'[q].tx \in Tx
      BY <1>3, ArithmeticInWord DEF ApplySave, IdleReader
    <2>5. UNCHANGED <<seq, recs, pool, applied, snap, pc, txn, reg, dag, calls, jobs, crashes, faucets>>
      BY <1>3 DEF ApplySave
    <2> QED BY <2>2, <2>3, <2>4, <2>5
  <1>4. CASE ApplyMark(r, e)
    BY <1>4, ArithmeticInWord DEF ApplyMark, Faulting, IdleReader
  <1> QED BY <1>1, <1>2, <1>3, <1>4 DEF ReaderStep

\* The API calls, the autoSnapshot goroutines and a crash.
LEMMA OtherTypeOK ==
    ASSUME TypeOK,
           \/ \E t \in OwnTx, to \in Payees, amount \in SendAmounts : BuildTx(t, to, amount)
           \/ \E a \in Accounts, amount \in FaucetAmounts : Faucet(a, amount)
           \/ \E c \in Callers, e \in BOOLEAN : CallStep(c, e)
           \/ \E j \in jobs, e \in BOOLEAN : AutoSnapshot(j, e)
           \/ Crash
    PROVE  TypeOK'
  <1> USE LedgerAssumption DEF TypeOK, disk, memory
  <1>1. ASSUME NEW t \in OwnTx, NEW to \in Payees, NEW amount \in SendAmounts,
               BuildTx(t, to, amount)
        PROVE  TypeOK'
    <2>1. txn' \in [OwnTx -> Transactions]
      BY <1>1, SMTT(30) DEF BuildTx, Transactions
    <2> QED BY <1>1, <2>1 DEF BuildTx, Goto, Locations, Building
  <1>2. ASSUME NEW a \in Accounts, NEW amount \in FaucetAmounts, Faucet(a, amount)
        PROVE  TypeOK'
    BY <1>2 DEF Faucet
  <1>3. ASSUME NEW c \in Callers, NEW e \in BOOLEAN, CallStep(c, e) PROVE TypeOK'
    <2>1. CASE SnapshotBalance(c, e)
      <3>1. BalanceOrZero(Self, e) \in Word
        BY BalanceOrZeroInWord
      <3> QED BY <2>1, <3>1 DEF SnapshotBalance, Faulting
    <2>2. CASE SnapshotSeq(c, e)
      <3>1. (IF e THEN 0 ELSE seq) \in 0 .. MaxSeq
        OBVIOUS
      <3>2. calls' \in [Callers -> [pc : {"idle", "seq", "save"}, seq : 0 .. MaxSeq, bal : Word]]
        BY <2>2, <3>1, ZenonT(40) DEF SnapshotSeq
      <3>3. faults' \in Nat
        BY <2>2 DEF SnapshotSeq, Faulting
      <3> QED BY <2>2, <3>2, <3>3 DEF SnapshotSeq
    <2>3. CASE SnapshotSave(c, e)
      BY <2>3, ArithmeticInWord DEF SnapshotSave, Faulting, Snapshots, IdleCall
    <2> QED BY <1>3, <2>1, <2>2, <2>3 DEF CallStep
  <1>4. ASSUME NEW j \in jobs, NEW e \in BOOLEAN, AutoSnapshot(j, e) PROVE TypeOK'
    BY <1>4 DEF AutoSnapshot, Faulting
  <1>5. CASE Crash
    BY <1>5, ArithmeticInWord
    DEF Crash, Locations, Building, Confirming, Bonding, NoRegisters, Registers,
        IdleReader, IdleCall
  <1> QED BY <1>1, <1>2, <1>3, <1>4, <1>5

\* Every step leaves a well-typed state.
LEMMA NextTypeOK == TypeOK /\ [Next]_vars => TypeOK'
  <1> SUFFICES ASSUME TypeOK, [Next]_vars PROVE TypeOK'
    OBVIOUS
  <1>1. CASE UNCHANGED vars
    BY <1>1 DEF TypeOK, vars, disk, memory
  <1>2. CASE Next
    BY <1>2, TxStepTypeOK, ReaderTypeOK, OtherTypeOK DEF Next
  <1> QED BY <1>1, <1>2

(* Every reachable state is well typed: in particular every balance, register
   and pool stays a machine word although the checked arithmetic is applied to
   stale reads (the database calls of ConfirmTx, ApplyConfirmedTxBalance,
   AccumulateBond and the API). *)
THEOREM TypeCorrect == Spec => []TypeOK
  BY InitTypeOK, NextTypeOK, PTL DEF Spec

----------------------------------------------------------------------------
(* The chain of Self.  NoGaps is inductive together with TypeOK: a number is
   handed out as one more than a stored one, whose record is there, and
   records are only ever added. *)
LEMMA InitNoGaps == Init => NoGaps
  BY DEF Init, NoGaps, SeqRecorded, RecordsArePrefix, TxExtendsRecords, Confirming

\* Steps that touch neither the chain nor the numbers in use, and start no
\* transaction on its way to the batch, keep the chain whole.
LEMMA ChainUntouched ==
    ASSUME TypeOK, NoGaps, UNCHANGED <<seq, recs>>,
           \A t \in OwnTx : pc'[t] \in {"claim", "pending"} \cup Confirming =>
               /\ pc[t] \in {"claim", "pending"} \cup Confirming
               /\ txn'[t].seq = txn[t].seq
    PROVE  NoGaps'
  BY DEF NoGaps, SeqRecorded, RecordsArePrefix, TxExtendsRecords

\* The goroutine of a transaction leaves no hole.
LEMMA TxStepNoGaps ==
    ASSUME TypeOK, NoGaps, NEW t \in OwnTx, TxStep(t)
    PROVE  NoGaps'
  <1> USE DEF TypeOK
  <1>1. CASE QuorumReached(t) \/ QuorumFails(t)
    BY <1>1, ChainUntouched
    DEF QuorumReached, QuorumFails, Answered, Leave, Goto, Confirming, disk
  <1>6. ASSUME NEW e \in BOOLEAN, ReadClaim(t, e) PROVE NoGaps'
    BY <1>6, ChainUntouched DEF ReadClaim, Goto, Confirming, disk
  <1>2. ASSUME NEW e \in BOOLEAN, BuildSeq(t, e) PROVE NoGaps'
    <2>1. CASE e
      BY <1>2, <2>1, ChainUntouched DEF BuildSeq, Goto, Confirming, disk
    <2>2. CASE ~e
      <3>1. /\ UNCHANGED <<seq, recs>>
            /\ pc' = [pc EXCEPT ![t] = "claim"]
            /\ txn'[t].seq = seq + 1 /\ seq + 1 <= MaxSeq
            /\ \A u \in OwnTx \ {t} : txn'[u] = txn[u]
        BY <1>2, <2>2 DEF BuildSeq, Goto, NextSeq, disk, Transactions
      <3>2. SeqRecorded' /\ RecordsArePrefix'
        BY <3>1 DEF NoGaps, SeqRecorded, RecordsArePrefix
      <3>3. ASSUME NEW u \in OwnTx, pc'[u] \in {"claim", "pending"} \cup Confirming
            PROVE  txn'[u].seq \in Seqs /\ (txn'[u].seq > 1 => recs'[txn'[u].seq - 1] # NoTx)
        BY <3>1, <3>3, LedgerAssumption DEF NoGaps, SeqRecorded, TxExtendsRecords, Seqs
      <3> QED BY <3>2, <3>3 DEF NoGaps, TxExtendsRecords
    <2> QED BY <2>1, <2>2
  <1>3. ASSUME NEW e \in BOOLEAN, ConfirmSender(t, e) \/ ConfirmRecv(t, e) PROVE NoGaps'
    BY <1>3, ChainUntouched DEF ConfirmSender, ConfirmRecv, Goto, Leave, Confirming, disk
  <1>4. ASSUME NEW e \in BOOLEAN, ConfirmBatch(t, e) PROVE NoGaps'
    <2>1. CASE e
      BY <1>4, <2>1, ChainUntouched DEF ConfirmBatch, RolledBack, Goto, Leave, Confirming
    <2>2. CASE ~e
      <3> DEFINE n == txn[t].seq
      <3>1. n \in Seqs /\ (n > 1 => recs[n - 1] # NoTx)
        BY <1>4 DEF ConfirmBatch, NoGaps, TxExtendsRecords, Confirming
      <3>2. /\ seq' = n /\ recs' = [recs EXCEPT ![n] = t] /\ UNCHANGED txn
            /\ pc' = [pc EXCEPT ![t] = "bond"]
        BY <1>4, <2>2 DEF ConfirmBatch, Record, BatchSeq, Goto
      <3> HIDE DEF n
      <3>3. SeqRecorded'
        BY <3>1, <3>2, LedgerAssumption DEF SeqRecorded
      <3>4. RecordsArePrefix'
        BY <3>1, <3>2, LedgerAssumption DEF NoGaps, RecordsArePrefix, Seqs
      <3>5. TxExtendsRecords'
        BY <3>1, <3>2, LedgerAssumption DEF NoGaps, TxExtendsRecords, Seqs, Confirming
      <3> QED BY <3>3, <3>4, <3>5 DEF NoGaps
    <2> QED BY <2>1, <2>2
  <1>5. ASSUME NEW e \in BOOLEAN, BondRead(t, e) \/ BondWrite(t, e) PROVE NoGaps'
    BY <1>5, ChainUntouched DEF BondRead, BondWrite, Finish, Goto, Leave, Confirming, disk
  <1> QED BY <1>1, <1>2, <1>3, <1>4, <1>5, <1>6 DEF TxStep

\* Nor does any other step.
LEMMA NextNoGaps == TypeOK /\ NoGaps /\ [Next]_vars => NoGaps'
  <1> SUFFICES ASSUME TypeOK, NoGaps, [Next]_vars PROVE NoGaps'
    OBVIOUS
  <1>1. CASE UNCHANGED vars
    BY <1>1, ChainUntouched DEF vars, disk, memory
  <1>2. ASSUME NEW t \in OwnTx, NEW to \in Payees, NEW amount \in SendAmounts,
               BuildTx(t, to, amount)
        PROVE  NoGaps'
    BY <1>2, ChainUntouched DEF BuildTx, Goto, Confirming, disk, TypeOK
  <1>3. ASSUME NEW r \in Readers, NEW e \in BOOLEAN,
               (\E x \in Tx : ApplyCheck(r, x, e)) \/ ReaderStep(r, e)
        PROVE  NoGaps'
    BY <1>3, ChainUntouched
    DEF ApplyCheck, ReaderStep, ApplyRead, ApplySave, ApplyMark, disk
  <1>4. ASSUME NEW a \in Accounts, NEW amount \in FaucetAmounts, Faucet(a, amount)
        PROVE  NoGaps'
    BY <1>4, ChainUntouched DEF Faucet, memory
  <1>5. ASSUME NEW c \in Callers, NEW e \in BOOLEAN, CallStep(c, e) PROVE NoGaps'
    BY <1>5, ChainUntouched DEF CallStep, SnapshotBalance, SnapshotSeq, SnapshotSave, disk
  <1>6. ASSUME NEW j \in jobs, NEW e \in BOOLEAN, AutoSnapshot(j, e) PROVE NoGaps'
    BY <1>6, ChainUntouched DEF AutoSnapshot
  <1>7. CASE Crash
    BY <1>7, ChainUntouched DEF Crash, Building, Confirming, Bonding, disk, TypeOK
  <1> QED BY <1>1, <1>2, <1>3, <1>4, <1>5, <1>6, <1>7, TxStepNoGaps DEF Next

(* Whatever the goroutines of a node interleave, whatever database call fails
   and wherever the process crashes, the records of its own transactions are
   those of 1 .. n without a hole (BuildTx reads the stored number,
   ConfirmTxBatch writes number and record together). *)
THEOREM ChainHasNoGaps == Spec => []NoGaps
  BY InitTypeOK, InitNoGaps, NextTypeOK, NextNoGaps, PTL DEF Spec

----------------------------------------------------------------------------
\* The DAG has no edge and no transaction has parents.  That is not what the
\* repository says of it: by dag.go:67 AdvanceTip updates the tips when a
\* transaction is confirmed, and by src/README.md:32 the graph makes it scale.
DagEmpty == dag = {} /\ \A t \in OwnTx : txn[t].parents = {}

\* No step adds an edge: there is no tip to link to.
LEMMA NextDagEmpty == TypeOK /\ DagEmpty /\ [Next]_vars => DagEmpty'
  <1> SUFFICES ASSUME TypeOK, DagEmpty, [Next]_vars PROVE DagEmpty'
    OBVIOUS
  <1> USE DEF DagEmpty, TypeOK, Transactions
  <1>1. CASE UNCHANGED vars
    BY <1>1 DEF vars, memory
  <1>2. ASSUME NEW t \in OwnTx, NEW to \in Payees, NEW amount \in SendAmounts,
               BuildTx(t, to, amount)
        PROVE  DagEmpty'
    BY <1>2 DEF BuildTx
  <1>3. ASSUME NEW t \in OwnTx, NEW e \in BOOLEAN, BuildSeq(t, e) PROVE DagEmpty'
    <2>1. D!CurrentTips(dag) = {}
      BY DEF D!CurrentTips, D!Children
    <2> QED BY <1>3, <2>1 DEF BuildSeq
  <1>4. ASSUME NEW t \in OwnTx, NEW e \in BOOLEAN, ConfirmRecv(t, e) PROVE DagEmpty'
    BY <1>4 DEF ConfirmRecv, D!WithParents
  <1>5. ASSUME NEW t \in OwnTx, TxStep(t),
               ~ \E e \in BOOLEAN : BuildSeq(t, e) \/ ConfirmRecv(t, e)
        PROVE  DagEmpty'
    BY <1>5 DEF TxStep, QuorumReached, QuorumFails, ReadClaim, ConfirmSender, ConfirmBatch,
                BondRead, BondWrite
  <1>6. ASSUME NEW t \in OwnTx, TxStep(t) PROVE DagEmpty'
    BY <1>3, <1>4, <1>5, <1>6
  <1>7. ASSUME NEW r \in Readers, NEW x \in Tx, NEW e \in BOOLEAN, ApplyCheck(r, x, e)
        PROVE  DagEmpty'
    BY <1>7 DEF ApplyCheck
  <1>8. ASSUME NEW r \in Readers, NEW e \in BOOLEAN, ReaderStep(r, e) PROVE DagEmpty'
    BY <1>8 DEF ReaderStep, ApplyRead, ApplySave, ApplyMark
  <1>9. ASSUME NEW a \in Accounts, NEW amount \in FaucetAmounts, Faucet(a, amount)
        PROVE  DagEmpty'
    BY <1>9 DEF Faucet, memory
  <1>10. ASSUME NEW c \in Callers, NEW e \in BOOLEAN, CallStep(c, e) PROVE DagEmpty'
    BY <1>10 DEF CallStep, SnapshotBalance, SnapshotSeq, SnapshotSave
  <1>11. ASSUME NEW j \in jobs, NEW e \in BOOLEAN, AutoSnapshot(j, e) PROVE DagEmpty'
    BY <1>11 DEF AutoSnapshot
  <1>12. CASE Crash
    BY <1>12 DEF Crash
  <1> HIDE DEF DagEmpty, TypeOK, Transactions
  <1> QED BY <1>1, <1>2, <1>6, <1>7, <1>8, <1>9, <1>10, <1>11, <1>12 DEF Next

(* AdvanceTip and AddEdge, called as ConfirmTx calls them, never record an
   edge, so CurrentTips is empty for ever and every transaction of the node
   is built without parents.  No confirmed transaction is ever a tip, although
   dag.go:67 says that AdvanceTip updates the tips at each confirmation. *)
THEOREM DagStaysEmpty == Spec => []DagEmpty
  <1>1. Init => DagEmpty
    BY DEF Init, DagEmpty, IdleTx
  <1> QED BY <1>1, InitTypeOK, NextTypeOK, NextDagEmpty, PTL DEF Spec

----------------------------------------------------------------------------
(* Dropped transactions.  The invariant is the stronger one that whatever is
   on record has been confirmed: a record is written by the step that leaves
   the places from which a transaction can be dropped. *)
RecordedIsConfirmed ==
    \A s \in Seqs : recs[s] # NoTx => pc[recs[s]] \in Bonding \cup {"done", "cut"}

\* Steps that write no record and leave the confirmed transactions confirmed.
LEMMA RecordsUntouched ==
    ASSUME TypeOK, RecordedIsConfirmed, UNCHANGED recs,
           \A t \in OwnTx : pc[t] \in Bonding \cup {"done", "cut"}
                             => pc'[t] \in Bonding \cup {"done", "cut"}
    PROVE  RecordedIsConfirmed'
  BY DEF RecordedIsConfirmed, TypeOK

\* The batch is the only way onto the record.
LEMMA NextRecorded == TypeOK /\ NoGaps /\ RecordedIsConfirmed /\ [Next]_vars => RecordedIsConfirmed'
  <1> SUFFICES ASSUME TypeOK, NoGaps, RecordedIsConfirmed, [Next]_vars
               PROVE  RecordedIsConfirmed'
    OBVIOUS
  <1> USE DEF Building, Confirming, Bonding, disk
  <1>1. CASE UNCHANGED vars
    BY <1>1, RecordsUntouched DEF vars, memory
  <1>2. ASSUME NEW t \in OwnTx, NEW to \in Payees, NEW amount \in SendAmounts,
               BuildTx(t, to, amount)
        PROVE  RecordedIsConfirmed'
    BY <1>2, RecordsUntouched DEF BuildTx, Goto, TypeOK
  <1>3. ASSUME NEW t \in OwnTx, QuorumReached(t) \/ QuorumFails(t)
        PROVE  RecordedIsConfirmed'
    BY <1>3, RecordsUntouched DEF QuorumReached, QuorumFails, Answered, Leave, Goto, TypeOK
  <1>4. ASSUME NEW t \in OwnTx, NEW e \in BOOLEAN, ConfirmBatch(t, e)
        PROVE  RecordedIsConfirmed'
    <2>1. CASE e
      BY <1>4, <2>1, RecordsUntouched DEF ConfirmBatch, RolledBack, Leave, Goto, TypeOK
    <2>2. CASE ~e
      <3>1. /\ txn[t].seq \in Seqs
            /\ recs' = [recs EXCEPT ![txn[t].seq] = t]
            /\ pc' = [pc EXCEPT ![t] = "bond"]
        BY <1>4, <2>2 DEF ConfirmBatch, Record, Goto, NoGaps, TxExtendsRecords
      <3> QED BY <3>1 DEF RecordedIsConfirmed, TypeOK
    <2> QED BY <2>1, <2>2
  <1>5. ASSUME NEW t \in OwnTx, NEW e \in BOOLEAN,
               BuildSeq(t, e) \/ ReadClaim(t, e) \/ ConfirmSender(t, e) \/ ConfirmRecv(t, e)
        PROVE  RecordedIsConfirmed'
    BY <1>5, RecordsUntouched
    DEF BuildSeq, ReadClaim, ConfirmSender, ConfirmRecv, Leave, Goto, TypeOK
  <1>6. ASSUME NEW t \in OwnTx, NEW e \in BOOLEAN, BondRead(t, e) \/ BondWrite(t, e)
        PROVE  RecordedIsConfirmed'
    BY <1>6, RecordsUntouched DEF BondRead, BondWrite, Finish, Leave, Goto, TypeOK
  <1>7. ASSUME NEW r \in Readers, NEW e \in BOOLEAN,
               (\E x \in Tx : ApplyCheck(r, x, e)) \/ ReaderStep(r, e)
        PROVE  RecordedIsConfirmed'
    BY <1>7, RecordsUntouched DEF ApplyCheck, ReaderStep, ApplyRead, ApplySave, ApplyMark
  <1>8. ASSUME NEW a \in Accounts, NEW amount \in FaucetAmounts, Faucet(a, amount)
        PROVE  RecordedIsConfirmed'
    BY <1>8, RecordsUntouched DEF Faucet, memory
  <1>9. ASSUME NEW c \in Callers, NEW e \in BOOLEAN, CallStep(c, e) PROVE RecordedIsConfirmed'
    BY <1>9, RecordsUntouched DEF CallStep, SnapshotBalance, SnapshotSeq, SnapshotSave
  <1>10. ASSUME NEW j \in jobs, NEW e \in BOOLEAN, AutoSnapshot(j, e) PROVE RecordedIsConfirmed'
    BY <1>10, RecordsUntouched DEF AutoSnapshot
  <1>11. CASE Crash
    BY <1>11, RecordsUntouched DEF Crash, TypeOK
  <1> QED
    BY <1>1, <1>2, <1>3, <1>4, <1>5, <1>6, <1>7, <1>8, <1>9, <1>10, <1>11 DEF Next, TxStep

(* A transaction that a failing call, a failed quorum or a crash has dropped
   is never on record, however many other goroutines write the chain
   (ConfirmTxBatch is one badger transaction, and what follows it cannot
   drop the transaction any more). *)
THEOREM DroppedStaysUnrecorded == Spec => []DroppedIsUnrecorded
  <1>1. Init => RecordedIsConfirmed
    BY DEF Init, RecordedIsConfirmed
  <1>2. TypeOK /\ RecordedIsConfirmed => DroppedIsUnrecorded
    BY LedgerAssumption DEF TypeOK, RecordedIsConfirmed, DroppedIsUnrecorded, Bonding
  <1> QED
    BY <1>1, <1>2, InitTypeOK, InitNoGaps, NextTypeOK, NextNoGaps, NextRecorded, PTL DEF Spec

----------------------------------------------------------------------------
(* What the witnesses sign for.  The sum of amount and bond is checked by
   BuildTx alone, and stays checked because a transaction keeps its amount. *)
CostChecked ==
    \A t \in OwnTx : pc[t] \in Building \cup Confirming => Cost(txn[t].amount).err = "nil"

CoveredInv == CostChecked /\ QuorumCovered

\* A witness that accepts has seen a claim that covers the cost: the smaller
\* one of the claim and its own view does.
LEMMA AcceptsCovered ==
    ASSUME TypeOK, NEW t \in OwnTx, NEW view \in Views, Accepts(t, view)
    PROVE  reg[t].claim >= Cost(txn[t].amount).val
  <1>1. reg[t].claim \in Int /\ Cost(txn[t].amount).val \in Int
    <2>1. reg[t].claim \in Word /\ txn[t].amount \in Word
      BY DEF TypeOK, Registers, Transactions
    <2>2. Cost(txn[t].amount).val \in Word
      BY <2>1, ArithmeticInWord
    <2> QED BY <2>1, <2>2 DEF Word
  <1>2. view = NoBalance \/ view \in Int
    BY DEF Views, Word
  <1>3. CASE view = NoBalance
    BY <1>3 DEF Accepts, Effective
  <1>4. CASE view # NoBalance
    <2> DEFINE claim == reg[t].claim
               cost == Cost(txn[t].amount).val
    <2>1. claim \in Int /\ cost \in Int /\ view \in Int
      BY <1>1, <1>2, <1>4
    <2>2. (IF view # NoBalance /\ view < claim THEN view ELSE claim) >= cost
      BY DEF Accepts, Effective
    <2> HIDE DEF claim, cost
    <2>3. claim >= cost
      BY <1>4, <2>1, <2>2
    <2> QED BY <2>3 DEF claim, cost
  <1> QED BY <1>3, <1>4

\* Steps that start nothing, change no amount and keep the claim of what is
\* being confirmed.
LEMMA ClaimsUntouched ==
    ASSUME CoveredInv,
           \A t \in OwnTx :
               /\ pc'[t] \in Building \cup Confirming =>
                     /\ pc[t] \in Building \cup Confirming
                     /\ txn'[t].amount = txn[t].amount
               /\ pc'[t] \in Confirming =>
                     /\ pc[t] \in Confirming
                     /\ reg'[t].claim = reg[t].claim
    PROVE  CoveredInv'
  BY DEF CoveredInv, CostChecked, QuorumCovered, Confirming

\* A signed transaction stays covered.
LEMMA NextCovered == TypeOK /\ CoveredInv /\ [Next]_vars => CoveredInv'
  <1> SUFFICES ASSUME TypeOK, CoveredInv, [Next]_vars PROVE CoveredInv'
    OBVIOUS
  <1> USE DEF Building, Confirming, Bonding
  <1>1. CASE UNCHANGED vars
    BY <1>1, ClaimsUntouched DEF vars, memory
  <1>2. ASSUME NEW t \in OwnTx, NEW to \in Payees, NEW amount \in SendAmounts,
               BuildTx(t, to, amount)
        PROVE  CoveredInv'
    <2>1. /\ Cost(amount).err = "nil"
          /\ pc' = [pc EXCEPT ![t] = "seq"] /\ txn'[t].amount = amount
          /\ UNCHANGED reg
          /\ \A u \in OwnTx \ {t} : txn'[u] = txn[u]
      BY <1>2 DEF BuildTx, Admits, Goto, TypeOK, Transactions
    <2> QED BY <2>1 DEF CoveredInv, CostChecked, QuorumCovered, TypeOK
  <1>3. ASSUME NEW t \in OwnTx, QuorumReached(t) PROVE CoveredInv'
    <2>1. reg[t].claim >= Cost(txn[t].amount).val
      BY <1>3, AcceptsCovered DEF QuorumReached, Answered
    <2>2. Cost(txn[t].amount).err = "nil"
      BY <1>3 DEF QuorumReached, Answered, CoveredInv, CostChecked
    <2>3. pc' = [pc EXCEPT ![t] = "sender"] /\ UNCHANGED <<txn, reg>>
      BY <1>3 DEF QuorumReached, Goto
    <2> QED BY <2>1, <2>2, <2>3 DEF CoveredInv, CostChecked, QuorumCovered, TypeOK
  <1>4. ASSUME NEW t \in OwnTx, NEW e \in BOOLEAN,
               QuorumFails(t) \/ ConfirmBatch(t, e) \/ BondRead(t, e) \/ BondWrite(t, e)
        PROVE  CoveredInv'
    BY <1>4, ClaimsUntouched
    DEF QuorumFails, Answered, ConfirmBatch, BondRead, BondWrite, Finish, Leave, Goto, TypeOK
  <1>5. ASSUME NEW t \in OwnTx, NEW e \in BOOLEAN, BuildSeq(t, e) \/ ReadClaim(t, e)
        PROVE  CoveredInv'
    <2>1. /\ pc[t] \in Building
          /\ \E where \in Building \cup {"failed"} : pc' = [pc EXCEPT ![t] = where]
          /\ \A u \in OwnTx : txn'[u].amount = txn[u].amount
          /\ \A u \in OwnTx \ {t} : reg'[u] = reg[u]
      BY <1>5 DEF BuildSeq, ReadClaim, Goto, TypeOK, Transactions
    <2> QED BY <2>1, ClaimsUntouched DEF TypeOK
  <1>6. ASSUME NEW t \in OwnTx, NEW e \in BOOLEAN, ConfirmSender(t, e) \/ ConfirmRecv(t, e)
        PROVE  CoveredInv'
    BY <1>6, ClaimsUntouched DEF ConfirmSender, ConfirmRecv, Leave, Goto, TypeOK, Registers
  <1>7. ASSUME NEW r \in Readers, NEW e \in BOOLEAN,
               (\E x \in Tx : ApplyCheck(r, x, e)) \/ ReaderStep(r, e)
        PROVE  CoveredInv'
    BY <1>7, ClaimsUntouched DEF ApplyCheck, ReaderStep, ApplyRead, ApplySave, ApplyMark
  <1>8. ASSUME NEW a \in Accounts, NEW amount \in FaucetAmounts, Faucet(a, amount)
        PROVE  CoveredInv'
    BY <1>8, ClaimsUntouched DEF Faucet, memory
  <1>9. ASSUME NEW c \in Callers, NEW e \in BOOLEAN, CallStep(c, e) PROVE CoveredInv'
    BY <1>9, ClaimsUntouched DEF CallStep, SnapshotBalance, SnapshotSeq, SnapshotSave
  <1>10. ASSUME NEW j \in jobs, NEW e \in BOOLEAN, AutoSnapshot(j, e) PROVE CoveredInv'
    BY <1>10, ClaimsUntouched DEF AutoSnapshot
  <1>11. CASE Crash
    BY <1>11, ClaimsUntouched DEF Crash, TypeOK
  <1> QED
    BY <1>1, <1>2, <1>3, <1>4, <1>5, <1>6, <1>7, <1>8, <1>9, <1>10, <1>11 DEF Next, TxStep

(* Whatever a witness has seen of the network, its signature stands for a
   balance that covered amount and bond when the sender asked (the checks of
   BuildTx and verifyTxInternal, of which neither is enough alone). *)
THEOREM SignedIsCovered == Spec => []QuorumCovered
  <1>1. Init => CoveredInv
    BY DEF Init, CoveredInv, CostChecked, QuorumCovered, Building, Confirming
  <1>2. CoveredInv => QuorumCovered
    BY DEF CoveredInv
  <1> QED BY <1>1, <1>2, InitTypeOK, NextTypeOK, NextCovered, PTL DEF Spec
============================================================================
