------------------------- MODULE LedgerValueProofs -------------------------
(***************************************************************************)
(* Where the money is.  The sums over accounts and transactions follow the *)
(* steps of the ledger, one element at a time.                             *)
(***************************************************************************)
EXTENDS LedgerSerialProofs

\* The values that the sums add up.
OutlayTable == [t \in OwnTx |-> Outlay(t)]
BondTable == [t \in OwnTx |-> BondAmount(txn[t].amount)]
PaymentTable == [x \in Tx |-> Payload(x).amount]

TablesNat ==
    /\ \A t \in OwnTx : BondTable[t] \in Nat /\ OutlayTable[t] \in Nat
    /\ \A x \in Tx : PaymentTable[x] \in Nat

\* Amounts, outlays and bonds are natural numbers.
LEMMA TablesType == TypeOK => TablesNat
  <1> SUFFICES ASSUME TypeOK PROVE TablesNat
    OBVIOUS
  <1>1. Word \subseteq Nat
    BY AmountsAssumption DEF Word
  <1>2. ASSUME NEW t \in OwnTx PROVE BondTable[t] \in Nat /\ OutlayTable[t] \in Nat
    <2>1. txn[t].amount \in Nat /\ BondAmount(txn[t].amount) \in Nat
      BY <1>1, ArithmeticInWord DEF TypeOK, Transactions
    <2>2. Outlay(t) \in Nat
      BY <2>1 DEF Outlay
    <2> QED BY <2>1, <2>2 DEF BondTable, OutlayTable
  <1>3. ASSUME NEW x \in Tx PROVE PaymentTable[x] \in Nat
    BY <1>1, PayloadType DEF PaymentTable
  <1> QED BY <1>2, <1>3 DEF TablesNat

\* There are finitely many transactions.
LEMMA FiniteTx == IsFiniteSet(Tx) /\ \A S \in SUBSET Tx : IsFiniteSet(S)
  <1>1. IsFiniteSet(Tx)
    BY LedgerAssumption, FS_Union DEF Tx
  <1> QED BY <1>1, FS_Subset

\* The sets that are summed over consist of transactions.
LEMMA ConfirmedIsOwn == Confirmed \subseteq OwnTx /\ OwnTx \subseteq Tx /\ Credited \subseteq Tx
  BY DEF Confirmed, Credited, Tx

----------------------------------------------------------------------------
(* The reward pool, with no assumption about the client, the readers, the
   failures and the crashes. *)

\* The transactions whose bond is settled: stored, or lost.
Ended == {t \in OwnTx : pc[t] \in {"done", "cut"}}

\* The pool, and each value of it that a goroutine is about to add its bond
\* to, are covered by the bonds that were settled before.
PoolBacked ==
    /\ pool <= Bonds(Ended)
    /\ \A t \in OwnTx : pc[t] = "pool" => reg[t].pool <= Bonds(Ended)

\* A sum of bonds is a natural number.
LEMMA BondsNat ==
    ASSUME TypeOK, NEW S \in SUBSET OwnTx
    PROVE  SumFunctionOnSet(BondTable, S) \in Nat
  <1>1. IsFiniteSet(S)
    BY FiniteTx DEF Tx
  <1>2. \A t \in S : BondTable[t] \in Nat
    BY TablesType DEF TablesNat
  <1> HIDE DEF BondTable
  <1> QED BY <1>1, <1>2, SumInNat

\* A transaction that is settled stays so and keeps its amount.
LEMMA EndedStays ==
    ASSUME TypeOK, [Next]_vars
    PROVE  Ended \subseteq Ended' /\ \A t \in Ended : BondTable'[t] = BondTable[t]
  <1> SUFFICES ASSUME NEW t \in Ended PROVE t \in Ended' /\ txn'[t] = txn[t]
    BY DEF Ended, BondTable
  <1> USE DEF Ended, Building, Confirming, Bonding, disk
  <1>1. CASE UNCHANGED <<pc, txn>>
    BY <1>1
  <1>2. ASSUME NEW u \in OwnTx, NEW to \in Payees, NEW amount \in SendAmounts,
               BuildTx(u, to, amount)
        PROVE  t \in Ended' /\ txn'[t] = txn[t]
    BY <1>2 DEF BuildTx, Goto, TypeOK
  <1>3. ASSUME NEW u \in OwnTx, TxStep(u)
        PROVE  t \in Ended' /\ txn'[t] = txn[t]
    <2>1. pc[u] \notin {"done", "cut"} /\ \E where : pc' = [pc EXCEPT ![u] = where]
      BY <1>3
      DEF TxStep, BuildSeq, ReadClaim, QuorumReached, QuorumFails, Answered, ConfirmSender,
          ConfirmRecv, ConfirmBatch, BondRead, BondWrite, Finish, Leave, Goto
    <2>2. \A v \in OwnTx \ {u} : txn'[v] = txn[v]
      BY <1>3
      DEF TxStep, BuildSeq, ReadClaim, QuorumReached, QuorumFails, ConfirmSender,
          ConfirmRecv, ConfirmBatch, BondRead, BondWrite, TypeOK
    <2> QED BY <2>1, <2>2 DEF TypeOK
  <1>4. CASE Crash
    BY <1>4 DEF Crash, TypeOK
  <1> QED
    BY <1>1, <1>2, <1>3, <1>4
    DEF Next, vars, memory, ApplyCheck, ReaderStep, ApplyRead, ApplySave, ApplyMark, Faucet,
        CallStep, SnapshotBalance, SnapshotSeq, SnapshotSave, AutoSnapshot

\* More transactions end, so that the bonds that are settled grow.
LEMMA EndedBondsGrow ==
    ASSUME TypeOK, TypeOK', [Next]_vars
    PROVE  Bonds(Ended) \in Nat /\ Bonds(Ended)' \in Nat /\ Bonds(Ended) <= Bonds(Ended)'
  <1>1. /\ Bonds(Ended) = SumFunctionOnSet(BondTable, Ended)
        /\ Bonds(Ended)' = SumFunctionOnSet(BondTable', Ended')
    BY DEF Bonds, BondTable
  <1>2. /\ Ended \subseteq Ended' /\ Ended' \subseteq OwnTx
        /\ IsFiniteSet(Ended) /\ IsFiniteSet(Ended')
    BY EndedStays, FiniteTx DEF Ended, Tx
  <1>3. \A t \in OwnTx : BondTable'[t] \in Nat
    <2>1. TablesNat'
      BY TablesType, PTL
    <2> QED BY <2>1 DEF TablesNat
  <1>4. SumFunctionOnSet(BondTable', Ended) = SumFunctionOnSet(BondTable, Ended)
    BY <1>2, EndedStays, SumCongruent
  <1>5. SumFunctionOnSet(BondTable', Ended) <= SumFunctionOnSet(BondTable', Ended')
    BY <1>2, <1>3, SumMonotone
  <1>6. SumFunctionOnSet(BondTable, Ended) \in Nat
    BY <1>2, BondsNat
  <1>7. SumFunctionOnSet(BondTable', Ended') \in Nat
    BY <1>2, <1>3, SumInNat
  <1> QED BY <1>1, <1>4, <1>5, <1>6, <1>7

\* Steps that store no bond and read no pool.
LEMMA PoolUntouched ==
    ASSUME TypeOK, TypeOK', PoolBacked, [Next]_vars, UNCHANGED pool,
           \A t \in OwnTx : pc'[t] = "pool" =>
               \/ pc[t] = "pool" /\ reg'[t].pool = reg[t].pool
               \/ reg'[t].pool = pool
    PROVE  PoolBacked'
  <1> DEFINE before == Bonds(Ended)
             after == Bonds(Ended)'
  <1>1. before \in Nat /\ after \in Nat /\ before <= after
    BY EndedBondsGrow
  <1>2. /\ pool \in Int /\ pool <= before
        /\ \A t \in OwnTx : pc[t] = "pool" => reg[t].pool \in Int /\ reg[t].pool <= before
    BY AmountsAssumption DEF PoolBacked, TypeOK, Registers, Word
  <1> HIDE DEF before, after
  <1>3. pool <= after /\ \A t \in OwnTx : pc'[t] = "pool" => reg'[t].pool <= after
    BY <1>1, <1>2
  <1> QED BY <1>3 DEF PoolBacked, after

\* The step that stores a bond settles its transaction.
LEMMA WriteBacked ==
    ASSUME TypeOK, TypeOK', PoolBacked, [Next]_vars,
           NEW t \in OwnTx, NEW e \in BOOLEAN, BondWrite(t, e)
    PROVE  PoolBacked'
  <1> DEFINE bond == BondAmount(txn[t].amount)
             before == Bonds(Ended)
             after == Bonds(Ended)'
  <1>1. /\ pc[t] = "pool" /\ pc' = [pc EXCEPT ![t] = "done"] /\ UNCHANGED txn
        /\ reg' = [reg EXCEPT ![t] = NoRegisters]
        /\ pool' = IF e \/ PoolWithBond(t).err # "nil" THEN pool ELSE PoolWithBond(t).val
    BY DEF BondWrite, Finish, Leave, Goto
  <1>2. after = before + bond /\ before \in Nat
    <2>1. Ended' = Ended \cup {t} /\ t \notin Ended
      BY <1>1 DEF Ended, TypeOK
    <2>2. BondTable' = BondTable
      BY <1>1 DEF BondTable
    <2>3. IsFiniteSet(Ended) /\ Ended \subseteq OwnTx
      BY FiniteTx DEF Ended, Tx
    <2>4. \A u \in OwnTx : BondTable[u] \in Nat
      BY TablesType DEF TablesNat
    <2>5. SumFunctionOnSet(BondTable, Ended \cup {t})
              = SumFunctionOnSet(BondTable, Ended) + BondTable[t]
      BY <2>1, <2>3, <2>4, SumAdd
    <2>6. before = SumFunctionOnSet(BondTable, Ended) /\ BondTable[t] = bond
      BY DEF Bonds, BondTable
    <2>7. after = SumFunctionOnSet(BondTable, Ended \cup {t})
      BY <2>1, <2>2 DEF Bonds, BondTable
    <2> QED BY <2>3, <2>5, <2>6, <2>7, BondsNat
  <1>3. bond \in Word /\ bond \in Nat /\ reg[t].pool \in Word /\ reg[t].pool \in Int
    <2>1. txn[t].amount \in Word /\ reg[t].pool \in Word
      BY DEF TypeOK, Transactions, Registers
    <2>2. bond \in Word
      BY <2>1, ArithmeticInWord
    <2>3. Word \subseteq Nat
      BY AmountsAssumption DEF Word
    <2> HIDE DEF bond
    <2>4. bond \in Nat /\ reg[t].pool \in Nat
      BY <2>1, <2>2, <2>3, Zenon
    <2> QED BY <2>1, <2>2, <2>4
  <1>4. PoolWithBond(t).err = "nil" => PoolWithBond(t).val = reg[t].pool + bond
    BY <1>3, SafeAddExact DEF PoolWithBond
  <1>5. /\ pool \in Int /\ pool <= before /\ reg[t].pool <= before
        /\ \A u \in OwnTx : pc[u] = "pool" => reg[u].pool \in Int /\ reg[u].pool <= before
    BY <1>1, AmountsAssumption DEF PoolBacked, TypeOK, Registers, Word
  <1> HIDE DEF bond, before, after
  <1>6. pool' = pool \/ pool' = reg[t].pool + bond
    BY <1>1, <1>4
  <1>7. pool' <= after
    BY <1>2, <1>3, <1>5, <1>6
  <1>8. ASSUME NEW u \in OwnTx, pc'[u] = "pool" PROVE reg'[u].pool <= after
    <2>1. u # t /\ pc[u] = "pool" /\ reg'[u] = reg[u]
      BY <1>1, <1>8 DEF TypeOK
    <2> QED BY <1>2, <1>3, <1>5, <2>1
  <1> QED BY <1>7, <1>8 DEF PoolBacked, after

\* The pool, stored or about to be stored, stays backed.
LEMMA NextPoolBacked ==
    ASSUME TypeOK, TypeOK', PoolBacked, [Next]_vars
    PROVE  PoolBacked'
  <1> USE DEF disk
  <1>1. CASE UNCHANGED vars
    BY <1>1, PoolUntouched DEF vars, memory
  <1>2. ASSUME NEW t \in OwnTx, NEW e \in BOOLEAN, BondWrite(t, e) PROVE PoolBacked'
    BY <1>2, WriteBacked
  <1>3. ASSUME NEW t \in OwnTx, NEW e \in BOOLEAN, BondRead(t, e) PROVE PoolBacked'
    <2>1. UNCHANGED pool
      BY <1>3 DEF BondRead
    <2>2. CASE e
      BY <1>3, <2>1, <2>2, PoolUntouched DEF BondRead, Finish, Leave, Goto, TypeOK
    <2>3. CASE ~ e
      <3>1. pc' = [pc EXCEPT ![t] = "pool"] /\ reg' = [reg EXCEPT ![t].pool = pool]
        BY <1>3, <2>3 DEF BondRead, Goto
      <3>2. reg'[t].pool = pool /\ \A u \in OwnTx \ {t} : reg'[u] = reg[u]
        BY <3>1 DEF TypeOK, Registers
      <3> QED BY <2>1, <3>1, <3>2, PoolUntouched DEF TypeOK
    <2> QED BY <2>2, <2>3
  <1>4. ASSUME NEW t \in OwnTx,
               \/ \E to \in Payees, amount \in SendAmounts : BuildTx(t, to, amount)
               \/ QuorumReached(t) \/ QuorumFails(t)
               \/ \E e \in BOOLEAN :
                     \/ BuildSeq(t, e) \/ ReadClaim(t, e) \/ ConfirmSender(t, e)
                     \/ ConfirmRecv(t, e) \/ ConfirmBatch(t, e)
        PROVE  PoolBacked'
    <2>1. UNCHANGED pool
      BY <1>4
      DEF BuildTx, BuildSeq, ReadClaim, QuorumReached, QuorumFails, ConfirmSender,
          ConfirmRecv, ConfirmBatch
    <2>2. \E where \in Locations \ {"pool"} : pc' = [pc EXCEPT ![t] = where]
      BY <1>4
      DEF BuildTx, BuildSeq, ReadClaim, QuorumReached, QuorumFails, ConfirmSender,
          ConfirmRecv, ConfirmBatch, Leave, Goto, Locations, Building, Confirming, Bonding
    <2>3. \A u \in OwnTx \ {t} : reg'[u] = reg[u]
      <3>1. ASSUME NEW e \in BOOLEAN,
                   ReadClaim(t, e) \/ ConfirmSender(t, e) \/ ConfirmRecv(t, e) \/ ConfirmBatch(t, e)
            PROVE  \A u \in OwnTx \ {t} : reg'[u] = reg[u]
        BY <3>1 DEF ReadClaim, ConfirmSender, ConfirmRecv, ConfirmBatch, Leave, TypeOK
      <3> QED
        BY <1>4, <3>1 DEF BuildTx, BuildSeq, QuorumReached, QuorumFails, Leave, TypeOK
    <2> QED BY <2>1, <2>2, <2>3, PoolUntouched DEF TypeOK
  <1>5. CASE Crash
    BY <1>5, PoolUntouched DEF Crash, Building, Confirming, Bonding, TypeOK
  <1>6. CASE UNCHANGED <<pool, pc, reg>>
    BY <1>6, PoolUntouched
  <1> QED
    BY <1>1, <1>2, <1>3, <1>4, <1>5, <1>6
    DEF Next, TxStep, vars, memory, ApplyCheck, ReaderStep, ApplyRead, ApplySave, ApplyMark,
        Faucet, CallStep, SnapshotBalance, SnapshotSeq, SnapshotSave, AutoSnapshot

\* Transactions that have ended are confirmed, so the bonds charged cover the pool.
LEMMA PoolBackedEnough == TypeOK /\ PoolBacked => BondsBacked
  <1> SUFFICES ASSUME TypeOK, PoolBacked PROVE BondsBacked
    OBVIOUS
  <1>1. Ended \subseteq Confirmed /\ Confirmed \subseteq OwnTx /\ IsFiniteSet(Confirmed)
    BY FiniteTx DEF Ended, Confirmed, Tx
  <1>2. \A t \in OwnTx : BondTable[t] \in Nat
    BY TablesType DEF TablesNat
  <1>3. SumFunctionOnSet(BondTable, Ended) <= SumFunctionOnSet(BondTable, Confirmed)
    BY <1>1, <1>2, SumMonotone
  <1>4. SumFunctionOnSet(BondTable, Ended) \in Nat /\ SumFunctionOnSet(BondTable, Confirmed) \in Nat
    BY <1>1, BondsNat
  <1>5. Bonds(Ended) = SumFunctionOnSet(BondTable, Ended)
        /\ Bonds(Confirmed) = SumFunctionOnSet(BondTable, Confirmed)
    BY DEF Bonds, BondTable
  <1>6. pool \in Nat /\ pool <= Bonds(Ended)
    BY AmountsAssumption DEF TypeOK, PoolBacked, Word
  <1> QED BY <1>3, <1>4, <1>5, <1>6 DEF BondsBacked

(* Whatever fails, crashes and interleaves, the reward pool never holds more
   than the bonds of the confirmed transactions, although AccumulateBond
   reads and writes it in two calls: a lost update loses a bond, and nothing
   can count one twice. *)
THEOREM PoolNeverExceedsBonds == Spec => []BondsBacked
  <1>1. Init => PoolBacked
    <2> SUFFICES ASSUME Init PROVE PoolBacked
      OBVIOUS
    <2>1. TypeOK
      BY InitTypeOK
    <2>2. Ended \subseteq OwnTx /\ pool = 0 /\ \A t \in OwnTx : pc[t] # "pool"
      BY DEF Init, Ended
    <2>3. Bonds(Ended) \in Nat
      BY <2>1, <2>2, BondsNat DEF Bonds, BondTable
    <2> QED BY <2>2, <2>3 DEF PoolBacked
  <1>2. TypeOK /\ TypeOK' /\ PoolBacked /\ [Next]_vars => PoolBacked'
    BY NextPoolBacked
  <1> QED BY <1>1, <1>2, PoolBackedEnough, TypeCorrect, PTL DEF Spec

----------------------------------------------------------------------------
(* The accounts, in the serial setting. *)

Spent == SumFunctionOnSet(OutlayTable, Confirmed)
ReceivedBy(a) == SumFunctionOnSet(PaymentTable, PaidTo(a, Confirmed \cup Credited))
BroughtIn == SumFunctionOnSet(PaymentTable, Credited)
OnTheWay == SumFunctionOnSet(BondTable, InTransit)

\* The sums of the properties are sums over these tables.
LEMMA SumsAre ==
    /\ Outlays(Confirmed) = Spent
    /\ \A a \in Accounts : Total(PaidTo(a, Confirmed \cup Credited)) = ReceivedBy(a)
    /\ Total(Credited) = BroughtIn
    /\ Bonds(InTransit) = OnTheWay
  BY DEF Outlays, Total, Bonds, OutlayTable, PaymentTable, BondTable, Spent, ReceivedBy,
         BroughtIn, OnTheWay

\* All these sums are over finite sets of natural numbers.
LEMMA SumsNat ==
    ASSUME TypeOK
    PROVE  /\ Spent \in Nat /\ BroughtIn \in Nat /\ OnTheWay \in Nat
           /\ \A a \in Accounts : ReceivedBy(a) \in Nat
           /\ IsFiniteSet(Confirmed) /\ IsFiniteSet(InTransit) /\ IsFiniteSet(Credited)
           /\ \A a \in Accounts :
                 /\ PaidTo(a, Confirmed \cup Credited) \subseteq Tx
                 /\ IsFiniteSet(PaidTo(a, Confirmed \cup Credited))
  <1>1. /\ Confirmed \subseteq OwnTx /\ InTransit \subseteq OwnTx /\ Credited \subseteq Tx
        /\ \A a \in Accounts : PaidTo(a, Confirmed \cup Credited) \subseteq Tx
    BY DEF Confirmed, InTransit, Credited, PaidTo, Tx
  <1>2. /\ IsFiniteSet(Confirmed) /\ IsFiniteSet(InTransit) /\ IsFiniteSet(Credited)
        /\ \A a \in Accounts : IsFiniteSet(PaidTo(a, Confirmed \cup Credited))
    BY <1>1, FiniteTx, ConfirmedIsOwn
  <1>3. TablesNat
    BY TablesType
  <1>4. Spent \in Nat /\ BroughtIn \in Nat /\ OnTheWay \in Nat
    BY <1>1, <1>2, <1>3, SumInNat DEF TablesNat, Spent, BroughtIn, OnTheWay
  <1>5. \A a \in Accounts : ReceivedBy(a) \in Nat
    BY <1>1, <1>2, <1>3, SumInNat DEF TablesNat, ReceivedBy
  <1> QED BY <1>1, <1>2, <1>4, <1>5

\* A still step changes none of them.
LEMMA StillSums ==
    ASSUME TypeOK, Still
    PROVE  /\ Spent' = Spent /\ BroughtIn' = BroughtIn
           /\ MaxCrashes = 0 => OnTheWay' = OnTheWay
           /\ \A a \in Accounts : ReceivedBy(a)' = ReceivedBy(a)
  <1>1. /\ Confirmed' = Confirmed /\ Credited' = Credited
        /\ \A t \in Confirmed : txn'[t] = txn[t]
        /\ Confirmed \subseteq OwnTx /\ InTransit \subseteq Confirmed /\ Credited \subseteq Foreign
    BY DEF Still, Confirmed, InTransit, Credited
  <1>2. \A x \in Confirmed \cup Foreign : Payload(x)' = Payload(x)
    BY <1>1 DEF Payload
  <1>3. \A t \in Confirmed : OutlayTable'[t] = OutlayTable[t] /\ BondTable'[t] = BondTable[t]
    BY <1>1 DEF OutlayTable, BondTable, Outlay
  <1>4. \A x \in Confirmed \cup Foreign : PaymentTable'[x] = PaymentTable[x]
    BY <1>1, <1>2 DEF PaymentTable, Tx
  <1>5. Spent' = Spent
    BY <1>1, <1>3, SumsNat, SumCongruent DEF Spent
  <1>6. BroughtIn' = BroughtIn
    BY <1>1, <1>4, SumsNat, SumCongruent DEF BroughtIn
  <1>7. ASSUME MaxCrashes = 0 PROVE OnTheWay' = OnTheWay
    <2>1. InTransit' = InTransit
      BY <1>7 DEF Still
    <2> QED BY <1>1, <1>3, <2>1, SumsNat, SumCongruent DEF OnTheWay
  <1>8. ASSUME NEW a \in Accounts PROVE ReceivedBy(a)' = ReceivedBy(a)
    <2> DEFINE S == PaidTo(a, Confirmed \cup Credited)
    <2>1. S' = S /\ S \subseteq Confirmed \cup Foreign
      BY <1>1, <1>2 DEF PaidTo
    <2>2. IsFiniteSet(S)
      BY SumsNat
    <2> HIDE DEF S
    <2>3. SumFunctionOnSet(PaymentTable', S') = SumFunctionOnSet(PaymentTable, S)
      BY <1>4, <2>1, <2>2, SumCongruent
    <2> QED BY <2>3 DEF ReceivedBy, S
  <1> QED BY <1>5, <1>6, <1>7, <1>8

\* A transfer adds one outlay, one payment and one bond.
LEMMA TransferSums ==
    ASSUME TypeOK, NEW t \in OwnTx, Transferred(t)
    PROVE  /\ Spent' = Spent + Outlay(t) /\ BroughtIn' = BroughtIn
           /\ OnTheWay' = OnTheWay + BondAmount(txn[t].amount)
           /\ \A a \in Accounts :
                 ReceivedBy(a)' = ReceivedBy(a) + (IF a = txn[t].to THEN txn[t].amount ELSE 0)
  <1>1. /\ UNCHANGED txn /\ Credited' = Credited /\ t \notin Confirmed
        /\ Confirmed' = Confirmed \cup {t} /\ InTransit' = InTransit \cup {t}
        /\ t \notin InTransit /\ t \notin Credited /\ InTransit \subseteq OwnTx
    BY LedgerAssumption DEF Transferred, Confirmed, InTransit, Credited
  <1>2. /\ OutlayTable' = OutlayTable /\ BondTable' = BondTable /\ PaymentTable' = PaymentTable
        /\ \A x \in Tx : Payload(x)' = Payload(x)
    BY <1>1 DEF OutlayTable, BondTable, PaymentTable, Outlay, Payload
  <1>3. /\ OutlayTable[t] = Outlay(t) /\ BondTable[t] = BondAmount(txn[t].amount)
        /\ Payload(t) = [to |-> txn[t].to, amount |-> txn[t].amount]
        /\ PaymentTable[t] = txn[t].amount
    BY LedgerAssumption DEF OutlayTable, BondTable, PaymentTable, Payload, Tx
  <1>4. /\ \A u \in OwnTx : OutlayTable[u] \in Int /\ BondTable[u] \in Int
        /\ \A x \in Tx : PaymentTable[x] \in Int
    BY TablesType DEF TablesNat
  <1> HIDE DEF OutlayTable, BondTable, PaymentTable
  <1>5. Spent' = Spent + Outlay(t)
    BY <1>1, <1>2, <1>3, <1>4, SumsNat, ConfirmedIsOwn, SumAdd DEF Spent
  <1>6. OnTheWay' = OnTheWay + BondAmount(txn[t].amount)
    BY <1>1, <1>2, <1>3, <1>4, SumsNat, SumAdd DEF OnTheWay
  <1>7. ASSUME NEW a \in Accounts
        PROVE  ReceivedBy(a)' = ReceivedBy(a) + (IF a = txn[t].to THEN txn[t].amount ELSE 0)
    <2> DEFINE S == PaidTo(a, Confirmed \cup Credited)
    <2>1. /\ S' = IF a = txn[t].to THEN S \cup {t} ELSE S
          /\ t \notin S
      BY <1>1, <1>2, <1>3, ConfirmedIsOwn DEF PaidTo
    <2>2. IsFiniteSet(S) /\ S \subseteq Tx /\ t \in Tx
      BY SumsNat DEF Tx
    <2>3. SumFunctionOnSet(PaymentTable, S) \in Nat
      BY SumsNat DEF ReceivedBy
    <2> HIDE DEF S
    <2>4. SumFunctionOnSet(PaymentTable, S \cup {t})
              = SumFunctionOnSet(PaymentTable, S) + txn[t].amount
      BY <1>3, <1>4, <2>1, <2>2, SumAdd
    <2>5. SumFunctionOnSet(PaymentTable', S')
              = SumFunctionOnSet(PaymentTable, S) + (IF a = txn[t].to THEN txn[t].amount ELSE 0)
      BY <1>2, <2>1, <2>3, <2>4
    <2> QED BY <2>5 DEF ReceivedBy, S
  <1>8. BroughtIn' = BroughtIn
    BY <1>1, <1>2 DEF BroughtIn
  <1> QED BY <1>5, <1>6, <1>7, <1>8

\* A credit adds one payment.
LEMMA CreditSums ==
    ASSUME TypeOK, NEW y \in Foreign, CreditMade(y)
    PROVE  /\ Spent' = Spent /\ OnTheWay' = OnTheWay
           /\ BroughtIn' = BroughtIn + ForeignTx[y].amount
           /\ \A a \in Accounts : ReceivedBy(a)' =
                 ReceivedBy(a) + (IF a = ForeignTx[y].to THEN ForeignTx[y].amount ELSE 0)
  <1>1. /\ UNCHANGED <<pc, txn>> /\ y \notin Credited /\ Credited' = Credited \cup {y}
        /\ Confirmed' = Confirmed /\ InTransit' = InTransit /\ y \notin Confirmed
    BY LedgerAssumption DEF CreditMade, Confirmed, InTransit
  <1>2. /\ OutlayTable' = OutlayTable /\ BondTable' = BondTable /\ PaymentTable' = PaymentTable
        /\ \A x \in Tx : Payload(x)' = Payload(x)
    BY <1>1 DEF OutlayTable, BondTable, PaymentTable, Outlay, Payload
  <1>3. Payload(y) = ForeignTx[y] /\ PaymentTable[y] = ForeignTx[y].amount /\ y \in Tx
    BY DEF PaymentTable, Payload, Tx
  <1>4. \A x \in Tx : PaymentTable[x] \in Int
    BY TablesType DEF TablesNat
  <1> HIDE DEF OutlayTable, BondTable, PaymentTable
  <1>5. Spent' = Spent /\ OnTheWay' = OnTheWay
    BY <1>1, <1>2 DEF Spent, OnTheWay
  <1>6. BroughtIn' = BroughtIn + ForeignTx[y].amount
    BY <1>1, <1>2, <1>3, <1>4, SumsNat, ConfirmedIsOwn, SumAdd DEF BroughtIn
  <1>7. ASSUME NEW a \in Accounts
        PROVE  ReceivedBy(a)' =
                   ReceivedBy(a) + (IF a = ForeignTx[y].to THEN ForeignTx[y].amount ELSE 0)
    <2> DEFINE S == PaidTo(a, Confirmed \cup Credited)
    <2>1. /\ S' = IF a = ForeignTx[y].to THEN S \cup {y} ELSE S
          /\ y \notin S
      BY <1>1, <1>2, <1>3, ConfirmedIsOwn DEF PaidTo
    <2>2. IsFiniteSet(S) /\ S \subseteq Tx
      BY SumsNat
    <2>3. SumFunctionOnSet(PaymentTable, S) \in Nat
      BY SumsNat DEF ReceivedBy
    <2> HIDE DEF S
    <2>4. SumFunctionOnSet(PaymentTable, S \cup {y})
              = SumFunctionOnSet(PaymentTable, S) + ForeignTx[y].amount
      BY <1>3, <1>4, <2>1, <2>2, SumAdd
    <2>5. SumFunctionOnSet(PaymentTable', S') = SumFunctionOnSet(PaymentTable, S)
              + (IF a = ForeignTx[y].to THEN ForeignTx[y].amount ELSE 0)
      BY <1>2, <2>1, <2>3, <2>4
    <2> QED BY <2>5 DEF ReceivedBy, S
  <1> QED BY <1>5, <1>6, <1>7

\* A stored bond is no longer on its way.
LEMMA PooledSums ==
    ASSUME TypeOK, NEW t \in OwnTx, Pooled(t)
    PROVE  /\ Spent' = Spent /\ BroughtIn' = BroughtIn
           /\ OnTheWay' = OnTheWay - BondAmount(txn[t].amount)
           /\ OnTheWay >= BondAmount(txn[t].amount)
           /\ \A a \in Accounts : ReceivedBy(a)' = ReceivedBy(a)
  <1>1. /\ UNCHANGED txn /\ Credited' = Credited /\ Confirmed' = Confirmed
        /\ t \in InTransit /\ InTransit' = InTransit \ {t} /\ InTransit \subseteq OwnTx
    BY DEF Pooled, InTransit
  <1>2. /\ OutlayTable' = OutlayTable /\ BondTable' = BondTable /\ PaymentTable' = PaymentTable
        /\ \A x \in Tx : Payload(x)' = Payload(x)
    BY <1>1 DEF OutlayTable, BondTable, PaymentTable, Outlay, Payload
  <1>3. BondTable[t] = BondAmount(txn[t].amount)
    BY DEF BondTable
  <1>4. \A u \in OwnTx : BondTable[u] \in Nat
    BY TablesType DEF TablesNat
  <1> HIDE DEF OutlayTable, BondTable, PaymentTable
  <1>5. Spent' = Spent /\ BroughtIn' = BroughtIn
    BY <1>1, <1>2 DEF Spent, BroughtIn
  <1>6. ASSUME NEW a \in Accounts PROVE ReceivedBy(a)' = ReceivedBy(a)
    <2>1. PaidTo(a, Confirmed \cup Credited)' = PaidTo(a, Confirmed \cup Credited)
      BY <1>1, <1>2, ConfirmedIsOwn DEF PaidTo
    <2> QED BY <1>2, <2>1 DEF ReceivedBy
  <1>7. OnTheWay = BondTable[t] + SumFunctionOnSet(BondTable, InTransit \ {t})
    BY <1>1, <1>4, SumsNat, SumRemove DEF OnTheWay
  <1>8. SumFunctionOnSet(BondTable, InTransit \ {t}) \in Nat
    <2>1. IsFiniteSet(InTransit \ {t})
      BY SumsNat, FS_RemoveElement
    <2> QED BY <1>1, <1>4, <2>1, SumInNat
  <1>9. OnTheWay' = SumFunctionOnSet(BondTable, InTransit \ {t})
    BY <1>1, <1>2 DEF OnTheWay
  <1> QED BY <1>1, <1>3, <1>4, <1>5, <1>6, <1>7, <1>8, <1>9

\* What each account holds.
Books ==
    /\ bal[Self] + Spent = InitBal[Self]
    /\ \A a \in Accounts \ {Self} : bal[a] = InitBal[a] + ReceivedBy(a)

\* The books are right while nothing is confirmed.
LEMMA InitBooks == Init => Books
  <1> SUFFICES ASSUME Init PROVE Books
    OBVIOUS
  <1>1. Confirmed = {} /\ Credited = {}
    BY DEF Init, Confirmed, Credited, Bonding, IdleReader
  <1>2. Spent = 0 /\ \A a \in Accounts : ReceivedBy(a) = 0
    BY <1>1, SumEmpty DEF Spent, ReceivedBy, PaidTo
  <1>3. \A a \in Accounts : InitBal[a] \in Nat /\ bal[a] = InitBal[a]
    BY LedgerAssumption, AmountsAssumption DEF Init, Word
  <1> QED BY <1>2, <1>3, LedgerAssumption DEF Books

\* Each step books what it moves.
LEMMA NextBooks ==
    ASSUME SerialNode, TypeOK, SerialInv, Books, [Next]_vars
    PROVE  Books'
  <1>0. /\ Spent \in Nat /\ \A a \in Accounts : ReceivedBy(a) \in Nat /\ bal[a] \in Nat
        /\ \A a \in Accounts : InitBal[a] \in Nat
        /\ DOMAIN bal = Accounts
    BY SumsNat, LedgerAssumption, AmountsAssumption DEF TypeOK, Word
  <1>1. CASE Still
    BY <1>1, StillSums DEF Still, Books
  <1>2. ASSUME NEW t \in OwnTx, Pooled(t) PROVE Books'
    BY <1>2, PooledSums DEF Pooled, Books
  <1>3. ASSUME NEW t \in OwnTx, Transferred(t) PROVE Books'
    <2> DEFINE to == txn[t].to
               amount == txn[t].amount
               out == Outlay(t)
    <2>1. /\ to \in Accounts /\ to # Self /\ amount \in Nat /\ out <= bal[Self] /\ out \in Nat
          /\ bal' = [bal EXCEPT ![Self] = @ - out, ![to] = @ + amount]
      <3>1. out = amount + BondAmount(amount) /\ BondAmount(amount) \in Nat /\ amount \in Nat
        BY <1>3, CostExact, AmountsAssumption DEF Transferred, TypeOK, Transactions, Word
      <3> HIDE DEF out
      <3>2. out \in Nat
        BY <3>1
      <3> QED BY <1>3, <3>1, <3>2, LedgerAssumption DEF Transferred, out
    <2>2. /\ Spent' = Spent + out
          /\ \A a \in Accounts : ReceivedBy(a)' = ReceivedBy(a) + (IF a = to THEN amount ELSE 0)
      BY <1>3, TransferSums
    <2> HIDE DEF to, amount, out
    <2>3. bal'[Self] = bal[Self] - out
      BY <2>1, <1>0, LedgerAssumption
    <2>4. \A a \in Accounts \ {Self} : bal'[a] = bal[a] + (IF a = to THEN amount ELSE 0)
      BY <2>1, <1>0
    <2> QED BY <1>0, <2>1, <2>2, <2>3, <2>4, LedgerAssumption DEF Books
  <1>4. ASSUME NEW y \in Foreign, CreditMade(y) PROVE Books'
    <2> DEFINE to == ForeignTx[y].to
               amount == ForeignTx[y].amount
    <2>1. /\ to \in Accounts \ {Self} /\ amount \in Nat
          /\ bal' = [bal EXCEPT ![to] = @ + amount]
      BY <1>4, LedgerAssumption, AmountsAssumption DEF CreditMade, Word
    <2>2. /\ Spent' = Spent
          /\ \A a \in Accounts : ReceivedBy(a)' = ReceivedBy(a) + (IF a = to THEN amount ELSE 0)
      BY <1>4, CreditSums
    <2> HIDE DEF to, amount
    <2>3. bal'[Self] = bal[Self]
      BY <2>1, <1>0, LedgerAssumption
    <2>4. \A a \in Accounts \ {Self} : bal'[a] = bal[a] + (IF a = to THEN amount ELSE 0)
      BY <2>1, <1>0
    <2> QED BY <1>0, <2>1, <2>2, <2>3, <2>4, LedgerAssumption DEF Books
  <1> QED BY <1>1, <1>2, <1>3, <1>4, StepEffect

(* The books of a node that sends one transaction at a time are right: each
   account holds what it held at first and what it was paid, the node's own
   less what its confirmed transactions cost (ConfirmTx,
   ApplyConfirmedTxBalance). *)
THEOREM BooksKept ==
    ASSUME SerialNode
    PROVE  Spec => []Books
  <1>1. TypeOK /\ SerialInv /\ Books /\ [Next]_vars => Books'
    BY NextBooks
  <1> QED BY <1>1, InitBooks, ReadsAreFresh, TypeCorrect, PTL DEF Spec

(* Every other account holds what it held plus each payment to it, once,
   whether ConfirmTx or ApplyConfirmedTxBalance made it. *)
THEOREM ReceiverAccountsExact ==
    ASSUME SerialNode
    PROVE  Spec => []ReceiversExact
  <1>1. Books => ReceiversExact
    BY SumsAre DEF Books, ReceiversExact
  <1> QED BY <1>1, BooksKept, PTL

----------------------------------------------------------------------------
(* The node's own account, with calls that fail, crashes, any number of
   readers, and its own announcements coming back. *)

\* Nothing but ConfirmTx, one at a time, writes the account of the node: the
\* client waits and pays others, the faucet is not used, and no payment to the
\* node is announced.  Each of these is needed.  In LedgerDoubleSpend two
\* transactions are in flight; in LedgerLostCredit a payment to the node is
\* credited between the read and the write of ConfirmTx, or ConfirmTx confirms
\* between those of the credit, which undoes the deduction.
SoleWriter ==
    /\ OneAtATime
    /\ MaxFaucets = 0
    /\ Self \notin Payees
    /\ \A x \in Foreign : ForeignTx[x].to # Self

\* A reader credits a payment from abroad or an own transaction that is done.
EchoesDone ==
    \A r \in Readers : rd[r].pc # "idle" =>
        rd[r].tx \in Foreign \/ (rd[r].tx \in OwnTx /\ pc[rd[r].tx] = "done")

\* The account, and what a confirming goroutine has read of it.
OwnAccount ==
    /\ bal[Self] + Spent = InitBal[Self]
    /\ \A t \in OwnTx : pc[t] \in {"recv", "batch"} =>
          Outlay(t) <= bal[Self] /\ reg[t].sender = bal[Self] - Outlay(t)

SoleInv == Agreed /\ EchoesDone /\ OwnAccount

\* Nothing is confirmed or credited at first.
LEMMA InitSoleInv == Init => SoleInv
  <1> SUFFICES ASSUME Init PROVE SoleInv
    OBVIOUS
  <1>1. Confirmed = {}
    BY DEF Init, Confirmed, Bonding
  <1>2. Spent = 0
    BY <1>1, SumEmpty DEF Spent
  <1>3. InitBal[Self] \in Nat /\ bal[Self] = InitBal[Self]
    BY LedgerAssumption, AmountsAssumption DEF Init, Word
  <1> QED BY <1>2, <1>3 DEF Init, SoleInv, Agreed, EchoesDone, OwnAccount, IdleReader

\* Who is done stays done; readers start with what has been announced.
LEMMA NextEchoesDone ==
    ASSUME TypeOK, EchoesDone, [Next]_vars
    PROVE  EchoesDone'
  <1> USE DEF disk
  <1>1. \A t \in OwnTx : pc[t] = "done" => pc'[t] = "done"
    <2>1. ASSUME NEW t \in OwnTx, TxStep(t) PROVE \E where : pc[t] # "done" /\ pc' = [pc EXCEPT ![t] = where]
      BY <2>1
      DEF TxStep, BuildSeq, ReadClaim, QuorumReached, QuorumFails, Answered, ConfirmSender,
          ConfirmRecv, ConfirmBatch, BondRead, BondWrite, Finish, Leave, Goto
    <2>2. ASSUME NEW t \in OwnTx, NEW to, NEW a, BuildTx(t, to, a)
          PROVE  \E where : pc[t] # "done" /\ pc' = [pc EXCEPT ![t] = where]
      BY <2>2 DEF BuildTx, Goto
    <2>3. CASE Crash
      BY <2>3 DEF Crash, Building, Confirming, Bonding
    <2>4. CASE UNCHANGED pc
      BY <2>4
    <2> QED BY <2>1, <2>2, <2>3, <2>4
      DEF Next, vars, memory, ApplyCheck, ReaderStep, ApplyRead, ApplySave, ApplyMark, Faucet,
          CallStep, SnapshotBalance, SnapshotSeq, SnapshotSave, AutoSnapshot, TypeOK
  <1>2. CASE \A r \in Readers : rd'[r].pc # "idle" => rd[r].pc # "idle" /\ rd'[r].tx = rd[r].tx
    <2> SUFFICES ASSUME NEW r \in Readers, rd'[r].pc # "idle"
                 PROVE  rd'[r].tx \in Foreign \/ (rd'[r].tx \in OwnTx /\ pc'[rd'[r].tx] = "done")
      BY DEF EchoesDone
    <2>1. rd[r].pc # "idle" /\ rd'[r].tx = rd[r].tx
      BY <1>2
    <2> QED BY <1>1, <2>1 DEF EchoesDone
  <1>3. ASSUME NEW r \in Readers, NEW x \in Tx, NEW e \in BOOLEAN, ApplyCheck(r, x, e)
        PROVE  EchoesDone'
    <2>1. /\ rd' = [rd EXCEPT ![r] = [pc |-> "read", tx |-> x, val |-> 0]]
          /\ x \in Foreign \/ (x \in OwnTx /\ pc[x] = "done")
      BY <1>3 DEF ApplyCheck, Announced
    <2>2. rd'[r].tx = x /\ \A q \in Readers \ {r} : rd'[q] = rd[q]
      BY <2>1 DEF TypeOK
    <2> QED BY <1>1, <2>1, <2>2 DEF EchoesDone
  <1>4. ASSUME NEW r \in Readers, NEW e \in BOOLEAN, ReaderStep(r, e) PROVE EchoesDone'
    <2>1. rd[r].pc # "idle"
      BY <1>4 DEF ReaderStep, ApplyRead, ApplySave, ApplyMark
    <2>2. /\ rd'[r].pc = "idle" \/ rd'[r].tx = rd[r].tx
          /\ \A q \in Readers \ {r} : rd'[q] = rd[q]
      BY <1>4 DEF ReaderStep, ApplyRead, ApplySave, ApplyMark, TypeOK, IdleReader
    <2> QED BY <1>2, <2>1, <2>2
  <1>5. CASE Crash
    BY <1>2, <1>5 DEF Crash, IdleReader
  <1>6. CASE UNCHANGED rd
    BY <1>2, <1>6
  <1>7. ASSUME NEW t \in OwnTx, TxStep(t) PROVE UNCHANGED rd
    BY <1>7
    DEF TxStep, BuildSeq, ReadClaim, QuorumReached, QuorumFails, Answered, ConfirmSender,
        ConfirmRecv, ConfirmBatch, BondRead, BondWrite, Finish, Leave
  <1> QED BY <1>3, <1>4, <1>5, <1>6, <1>7
    DEF Next, vars, memory, BuildTx, Faucet, CallStep, SnapshotBalance, SnapshotSeq, SnapshotSave,
        AutoSnapshot

\* Steps that confirm nothing and neither write the account nor read it in
\* ConfirmTx.
LEMMA AccountUntouched ==
    ASSUME TypeOK, OwnAccount, bal'[Self] = bal[Self], Confirmed' = Confirmed,
           \A t \in Confirmed : txn'[t] = txn[t],
           \A t \in OwnTx : pc'[t] \in {"recv", "batch"} =>
               /\ pc[t] \in {"recv", "batch"}
               /\ txn'[t] = txn[t] /\ reg'[t].sender = reg[t].sender
    PROVE  OwnAccount'
  <1>1. \A t \in OwnTx : txn'[t] = txn[t] => Outlay(t)' = Outlay(t)
    BY DEF Outlay
  <1>2. Confirmed \subseteq OwnTx /\ IsFiniteSet(Confirmed)
    BY SumsNat, ConfirmedIsOwn
  <1>3. \A t \in Confirmed : OutlayTable'[t] = OutlayTable[t]
    BY <1>1, <1>2 DEF OutlayTable
  <1>4. Spent' = Spent
    BY <1>2, <1>3, SumCongruent DEF Spent
  <1> QED BY <1>1, <1>4 DEF OwnAccount

\* Credits go to others.
LEMMA CreditsElsewhere ==
    ASSUME SoleWriter, TypeOK, SoleInv, NEW r \in Readers, NEW e \in BOOLEAN, ReaderStep(r, e)
    PROVE  bal'[Self] = bal[Self] /\ UNCHANGED <<pc, txn, reg>>
  <1>1. UNCHANGED <<pc, txn, reg>>
    BY DEF ReaderStep, ApplyRead, ApplySave, ApplyMark
  <1>2. CASE UNCHANGED bal
    BY <1>1, <1>2
  <1>3. CASE bal' # bal
    <2>1. /\ rd[r].pc = "save" /\ bal' = [bal EXCEPT ![Payload(rd[r].tx).to] = rd[r].val]
      BY <1>3 DEF ReaderStep, ApplyRead, ApplySave, ApplyMark, disk
    <2>2. Payload(rd[r].tx).to # Self
      BY <2>1, LedgerAssumption DEF SoleInv, EchoesDone, Agreed, SoleWriter, Payload
    <2> QED BY <1>1, <2>1, <2>2, LedgerAssumption DEF TypeOK
  <1> QED BY <1>2, <1>3

\* ConfirmTx reads the account and computes what will be left of it.
LEMMA SenderReads ==
    ASSUME SoleWriter, TypeOK, SerialChain, SoleInv, NEW t \in OwnTx, NEW e \in BOOLEAN,
           ConfirmSender(t, e)
    PROVE  OwnAccount'
  <1> USE DEF Bonding, disk
  <1>1. /\ pc[t] = "sender" /\ UNCHANGED <<bal, txn>>
        /\ \E where \in {"recv", "failed"} : pc' = [pc EXCEPT ![t] = where]
    BY DEF ConfirmSender, Leave, Goto
  <1>2. \A u \in OwnTx \ {t} : pc[u] \notin {"recv", "batch"} /\ pc'[u] = pc[u]
    BY <1>1 DEF SerialChain, OneInFlight, Unfinished, Confirming, TypeOK
  <1>3. Confirmed' = Confirmed
    BY <1>1, <1>2 DEF Confirmed, TypeOK
  <1>4. CASE pc'[t] = "failed"
    BY <1>1, <1>2, <1>3, <1>4, AccountUntouched DEF SoleInv
  <1>5. CASE pc'[t] # "failed"
    <2> DEFINE total == Cost(txn[t].amount)
               left == SafeSub(bal[Self], total.val)
    <2>1. total.err = "nil" /\ left.err = "nil" /\ reg' = [reg EXCEPT ![t].sender = left.val]
      BY <1>5 DEF ConfirmSender, Leave, Goto, TypeOK
    <2>2. txn[t].amount \in Word /\ txn[t].to # Self /\ bal[Self] \in Word
      BY <1>1, LedgerAssumption DEF SoleInv, SoleWriter, Agreed, TypeOK, Transactions
    <2>3. total.val = Outlay(t) /\ total.val <= bal[Self] /\ left.val = bal[Self] - total.val
      <3>1. total.val \in Word /\ BondAmount(txn[t].amount) \in Word
        BY <2>2, ArithmeticInWord
      <3>2. total.val = txn[t].amount + BondAmount(txn[t].amount)
        BY <2>1, <2>2, CostExact
      <3>3. total.val = Outlay(t)
        BY <2>2, <3>1, <3>2, AmountsAssumption DEF Outlay, Word
      <3>4. total.val <= bal[Self] /\ left.val = bal[Self] - total.val
        BY <2>1, <2>2, <3>1, SafeSubExact
      <3> QED BY <3>3, <3>4
    <2> HIDE DEF total, left
    <2>4. reg'[t].sender = bal[Self] - Outlay(t) /\ Outlay(t) <= bal[Self] /\ Outlay(t)' = Outlay(t)
      BY <1>1, <2>1, <2>3 DEF TypeOK, Registers, Outlay
    <2>5. Spent' = Spent
      BY <1>1, <1>3 DEF Spent, OutlayTable, Outlay
    <2> QED BY <1>1, <1>2, <2>4, <2>5 DEF SoleInv, OwnAccount
  <1> QED BY <1>4, <1>5

\* The batch writes what was computed, and nothing came in between.
LEMMA BatchDeducts ==
    ASSUME SoleWriter, TypeOK, SerialChain, SoleInv, NEW t \in OwnTx, ConfirmBatch(t, FALSE)
    PROVE  OwnAccount'
  <1> USE DEF Bonding
  <1>1. /\ pc[t] = "batch" /\ pc' = [pc EXCEPT ![t] = "bond"] /\ UNCHANGED <<txn, reg>>
        /\ bal' = [bal EXCEPT ![Self] = reg[t].sender, ![txn[t].to] = reg[t].recv]
    BY DEF ConfirmBatch, BatchBalances, Goto
  <1>2. txn[t].to # Self /\ reg[t].sender = bal[Self] - Outlay(t)
    BY <1>1 DEF SoleInv, OwnAccount, Agreed, SoleWriter
  <1>3. bal'[Self] = bal[Self] - Outlay(t)
    BY <1>1, <1>2, LedgerAssumption DEF TypeOK
  <1>4. \A u \in OwnTx : pc'[u] \notin {"recv", "batch"}
    BY <1>1 DEF SerialChain, OneInFlight, Unfinished, Confirming, TypeOK
  <1>5. Confirmed' = Confirmed \cup {t} /\ t \notin Confirmed
    BY <1>1 DEF Confirmed, TypeOK
  <1>6. OutlayTable' = OutlayTable /\ OutlayTable[t] = Outlay(t)
    BY <1>1 DEF OutlayTable, Outlay
  <1>7. \A u \in OwnTx : OutlayTable[u] \in Int
    BY TablesType DEF TablesNat
  <1> HIDE DEF OutlayTable
  <1>8. Spent' = Spent + Outlay(t)
    BY <1>5, <1>6, <1>7, SumsNat, ConfirmedIsOwn, SumAdd DEF Spent
  <1>9. /\ Spent \in Nat /\ bal[Self] \in Nat /\ Outlay(t) \in Int
    BY <1>6, <1>7, SumsNat, LedgerAssumption, AmountsAssumption DEF TypeOK, Word
  <1> QED BY <1>3, <1>4, <1>8, <1>9 DEF SoleInv, OwnAccount

\* The other steps of a transaction leave the account alone.
LEMMA OtherStepsKeepAccount ==
    ASSUME TypeOK, OwnAccount, NEW t \in OwnTx, NEW e \in BOOLEAN,
           \/ BuildSeq(t, e) \/ ReadClaim(t, e) \/ QuorumReached(t) \/ QuorumFails(t)
           \/ ConfirmRecv(t, e) \/ (e /\ ConfirmBatch(t, e)) \/ BondRead(t, e) \/ BondWrite(t, e)
    PROVE  OwnAccount'
  <1> USE DEF Bonding, disk
  <1>1. /\ UNCHANGED bal
        /\ \A u \in OwnTx \ {t} : txn'[u] = txn[u] /\ reg'[u] = reg[u] /\ pc'[u] = pc[u]
    <2>1. CASE BuildSeq(t, e)
      BY <2>1 DEF BuildSeq, Goto, TypeOK
    <2>2. CASE ~BuildSeq(t, e)
      BY <2>2
      DEF ReadClaim, QuorumReached, QuorumFails, ConfirmRecv, ConfirmBatch, RolledBack, BondRead,
          BondWrite, Finish, Leave, Goto, TypeOK
    <2> QED BY <2>1, <2>2
  <1>2. \/ /\ pc[t] \in {"seq", "claim", "pending"} /\ pc'[t] \notin {"recv", "batch"} \cup Bonding \cup {"done", "cut"}
        \/ /\ pc[t] \in {"recv", "batch"} /\ pc'[t] = "failed" /\ UNCHANGED txn
        \/ /\ pc[t] = "recv" /\ pc'[t] = "batch" /\ UNCHANGED txn
           /\ reg'[t].sender = reg[t].sender
        \/ /\ pc[t] \in Bonding /\ pc'[t] \in Bonding \cup {"done"} /\ UNCHANGED txn
    <2>1. CASE BuildSeq(t, e) \/ ReadClaim(t, e) \/ QuorumReached(t) \/ QuorumFails(t)
      BY <2>1 DEF BuildSeq, ReadClaim, QuorumReached, QuorumFails, Answered, Leave, Goto, TypeOK
    <2>2. CASE ConfirmRecv(t, e)
      BY <2>2 DEF ConfirmRecv, Leave, Goto, TypeOK, Registers
    <2>3. CASE e /\ ConfirmBatch(t, e)
      BY <2>3 DEF ConfirmBatch, Leave, Goto, TypeOK
    <2>4. CASE BondRead(t, e) \/ BondWrite(t, e)
      BY <2>4 DEF BondRead, BondWrite, Finish, Leave, Goto, TypeOK
    <2> QED BY <2>1, <2>2, <2>3, <2>4
  <1>3. Confirmed' = Confirmed /\ \A u \in Confirmed : txn'[u] = txn[u]
    BY <1>1, <1>2 DEF Confirmed
  <1>4. \A u \in OwnTx : pc'[u] \in {"recv", "batch"} =>
            /\ pc[u] \in {"recv", "batch"}
            /\ txn'[u] = txn[u] /\ reg'[u].sender = reg[u].sender
    BY <1>1, <1>2
  <1> QED BY <1>1, <1>3, <1>4, AccountUntouched

\* Every step of a node whose account has one writer.
LEMMA NextOwnAccount ==
    ASSUME SoleWriter, TypeOK, SerialChain, SoleInv, [Next]_vars
    PROVE  OwnAccount'
  <1> USE DEF disk
  <1>1. CASE UNCHANGED <<bal, pc, txn, reg>>
    BY <1>1, AccountUntouched DEF SoleInv, Confirmed
  <1>2. ASSUME NEW t \in OwnTx, NEW to \in Payees, NEW amount \in SendAmounts,
               BuildTx(t, to, amount)
        PROVE  OwnAccount'
    <2>1. /\ UNCHANGED <<bal, reg>> /\ pc[t] = "idle" /\ pc'[t] = "seq"
          /\ \A u \in OwnTx \ {t} : txn'[u] = txn[u] /\ pc'[u] = pc[u]
      BY <1>2 DEF BuildTx, Goto, TypeOK
    <2>2. Confirmed' = Confirmed /\ t \notin Confirmed
      BY <2>1 DEF Confirmed, Bonding
    <2> QED BY <2>1, <2>2, AccountUntouched DEF SoleInv, Confirmed
  <1>3. ASSUME NEW t \in OwnTx, TxStep(t) PROVE OwnAccount'
    <2>1. ASSUME NEW e \in BOOLEAN, ConfirmSender(t, e) PROVE OwnAccount'
      BY <2>1, SenderReads
    <2>2. CASE ConfirmBatch(t, FALSE)
      BY <2>2, BatchDeducts
    <2>3. ASSUME NEW e \in BOOLEAN,
                 \/ BuildSeq(t, e) \/ ReadClaim(t, e) \/ QuorumReached(t) \/ QuorumFails(t)
                 \/ ConfirmRecv(t, e) \/ (e /\ ConfirmBatch(t, e)) \/ BondRead(t, e) \/ BondWrite(t, e)
          PROVE  OwnAccount'
      BY <2>3, OtherStepsKeepAccount DEF SoleInv
    <2> QED BY <1>3, <2>1, <2>2, <2>3 DEF TxStep
  <1>4. ASSUME NEW r \in Readers, NEW e \in BOOLEAN, ReaderStep(r, e) PROVE OwnAccount'
    BY <1>4, CreditsElsewhere, AccountUntouched DEF SoleInv, Confirmed
  <1>5. ASSUME NEW a \in Accounts, NEW amount \in FaucetAmounts, Faucet(a, amount) PROVE OwnAccount'
    BY <1>5 DEF Faucet, SoleWriter, TypeOK
  <1>6. CASE Crash
    <2>1. UNCHANGED <<bal, txn>> /\ \A t \in OwnTx : pc'[t] \notin {"recv", "batch"}
      BY <1>6 DEF Crash, Building, Confirming, Bonding, TypeOK
    <2>2. Confirmed' = Confirmed
      BY <1>6 DEF Crash, Building, Confirming, Bonding, Confirmed
    <2> QED BY <2>1, <2>2, AccountUntouched DEF SoleInv
  <1> QED BY <1>1, <1>2, <1>3, <1>4, <1>5, <1>6
    DEF Next, vars, memory, ApplyCheck, CallStep, SnapshotBalance, SnapshotSeq, SnapshotSave, AutoSnapshot

\* What a node is sure of when nobody else writes its account.
LEMMA AccountKept ==
    ASSUME SoleWriter
    PROVE  Spec => [](TypeOK /\ OwnAccount)
  <1>1. TypeOK /\ SerialChain /\ SoleInv /\ [Next]_vars => SoleInv'
    <2> SUFFICES ASSUME TypeOK, SerialChain, SoleInv, [Next]_vars PROVE SoleInv'
      OBVIOUS
    <2>1. OwnAccount'
      BY NextOwnAccount
    <2>2. Agreed' /\ EchoesDone'
      BY NextAgreed, NextEchoesDone DEF SoleInv
    <2> QED BY <2>1, <2>2 DEF SoleInv
  <1>2. SoleInv => OwnAccount
    BY DEF SoleInv
  <1>3. Spec => []SerialChain
    BY ChainIsSerial DEF SoleWriter
  <1> QED BY <1>1, <1>2, <1>3, InitSoleInv, TypeCorrect, PTL DEF Spec

(* A node whose account nobody but ConfirmTx writes, one transaction at a
   time (SoleWriter), holds exactly what it held, less what its confirmed
   transactions took, whatever calls fail, crashes happen, readers credit
   others and announcements come back. *)
THEOREM SenderAccountExact ==
    ASSUME SoleWriter
    PROVE  Spec => []SenderExact
  <1>1. TypeOK /\ OwnAccount => SenderExact
    <2> SUFFICES ASSUME TypeOK, OwnAccount PROVE SenderExact
      OBVIOUS
    <2>1. PaidTo(Self, Credited) = {}
      BY DEF SoleWriter, Credited, PaidTo, Payload
    <2>2. Total(PaidTo(Self, Credited)) = 0
      BY <2>1, SumEmpty DEF Total
    <2>3. InitBal[Self] \in Nat
      BY LedgerAssumption, AmountsAssumption DEF Word
    <2> QED BY <2>2, <2>3, SumsAre DEF OwnAccount, SenderExact
  <1> QED BY <1>1, AccountKept, PTL

(* Such a node does not overspend: its confirmed transactions were covered by
   what the account held at the start. A client that waits is not enough for
   that: a payment to the node that is credited while ConfirmTx runs writes back
   the balance from before the deduction, and the client spends it again. *)
THEOREM NoDoubleSpending ==
    ASSUME SoleWriter
    PROVE  Spec => []SpentWithinFunds
  <1>1. TypeOK /\ OwnAccount => SpentWithinFunds
    <2> SUFFICES ASSUME TypeOK, OwnAccount PROVE SpentWithinFunds
      OBVIOUS
    <2>1. PaidTo(Self, Foreign) = {}
      BY DEF SoleWriter, PaidTo, Payload
    <2>2. Total(PaidTo(Self, Foreign)) = 0
      BY <2>1, SumEmpty DEF Total
    <2>3. bal[Self] \in Nat /\ InitBal[Self] \in Nat /\ Spent \in Nat
      BY SumsNat, LedgerAssumption, AmountsAssumption DEF TypeOK, Word
    <2> QED BY <2>2, <2>3, SumsAre DEF OwnAccount, SpentWithinFunds
  <1> QED BY <1>1, AccountKept, PTL

----------------------------------------------------------------------------
(* All the money there is, in the serial setting without crashes. *)

\* MaxAmount, the largest legal amount, is also more than there is: the pool
\* never refuses a bond.
SupplyFits ==
    Worth(InitBal) + SumFunctionOnSet([x \in Foreign |-> ForeignTx[x].amount], Foreign)
        <= MaxAmount

\* What has been credited is at most what all foreign payments bring in.
LEMMA BroughtInBounded ==
    ASSUME TypeOK
    PROVE  BroughtIn <= SumFunctionOnSet([x \in Foreign |-> ForeignTx[x].amount], Foreign)
  <1> DEFINE F == [x \in Foreign |-> ForeignTx[x].amount]
  <1>1. Credited \subseteq Foreign /\ IsFiniteSet(Credited) /\ IsFiniteSet(Foreign)
    BY SumsNat, LedgerAssumption DEF Credited
  <1>2. \A x \in Foreign : F[x] \in Nat
    BY LedgerAssumption, AmountsAssumption DEF Word
  <1>3. \A x \in Credited : PaymentTable[x] = F[x]
    BY <1>1 DEF PaymentTable, Payload, Tx
  <1> HIDE DEF F
  <1>4. SumFunctionOnSet(F, Credited) <= SumFunctionOnSet(F, Foreign)
    BY <1>1, <1>2, SumMonotone
  <1>5. BroughtIn = SumFunctionOnSet(F, Credited)
    BY <1>1, <1>3, SumCongruent DEF BroughtIn
  <1> QED BY <1>4, <1>5 DEF F

\* The worth of the accounts is a natural number.
LEMMA WorthNat ==
    /\ \A b \in [Accounts -> Nat] : Worth(b) \in Nat
    /\ InitBal \in [Accounts -> Nat]
    /\ TypeOK => bal \in [Accounts -> Nat]
  <1>1. ASSUME NEW b \in [Accounts -> Nat] PROVE Worth(b) \in Nat
    <2>1. \A a \in Accounts : b[a] \in Nat
      OBVIOUS
    <2> QED BY <2>1, LedgerAssumption, SumInNat DEF Worth
  <1>2. InitBal \in [Accounts -> Nat] /\ (TypeOK => bal \in [Accounts -> Nat])
    BY LedgerAssumption, AmountsAssumption DEF TypeOK, Word
  <1> QED BY <1>1, <1>2

\* One balance changes.
LEMMA WorthUpdated ==
    ASSUME NEW b \in [Accounts -> Int], NEW a \in Accounts, NEW v \in Int
    PROVE  Worth([b EXCEPT ![a] = v]) = Worth(b) - b[a] + v /\ Worth(b) \in Int
  <1> DEFINE c == [b EXCEPT ![a] = v]
  <1>1. /\ \A y \in Accounts : b[y] \in Int /\ c[y] \in Int
        /\ \A y \in Accounts \ {a} : b[y] = c[y]
        /\ c[a] = v
    OBVIOUS
  <1>2. IsFiniteSet(Accounts)
    BY LedgerAssumption
  <1> HIDE DEF c
  <1>3. SumFunctionOnSet(c, Accounts) = SumFunctionOnSet(b, Accounts) - b[a] + c[a]
    BY <1>1, <1>2, SumUpdate
  <1>4. SumFunctionOnSet(b, Accounts) \in Int
    BY <1>1, <1>2, SumInInt
  <1> QED BY <1>1, <1>3, <1>4 DEF Worth, c

\* Each step moves value and makes none.
LEMMA NextConservation ==
    ASSUME SerialNode, MaxCrashes = 0, SupplyFits,
           TypeOK, SerialInv, Conservation, [Next]_vars
    PROVE  Conservation'
  <1>1. /\ Worth(bal) + pool + OnTheWay = Worth(InitBal) + BroughtIn
        /\ Conservation' <=> Worth(bal') + pool' + OnTheWay' = Worth(InitBal) + BroughtIn'
    BY DEF Conservation, Bonds, Total, BondTable, PaymentTable, OnTheWay, BroughtIn, InTransit
  <1>2. /\ Worth(bal) \in Nat /\ Worth(InitBal) \in Nat /\ pool \in Nat
        /\ OnTheWay \in Nat /\ BroughtIn \in Nat
        /\ bal \in [Accounts -> Nat]
    BY WorthNat, SumsNat, AmountsAssumption DEF TypeOK, Word
  <1>3. CASE Still
    BY <1>1, <1>3, StillSums DEF Still
  <1>4. ASSUME NEW t \in OwnTx, Pooled(t) PROVE Conservation'
    <2> DEFINE bond == BondAmount(txn[t].amount)
    <2>1. bond \in Nat
      BY CostExact, AmountsAssumption DEF TypeOK, Transactions, Word
    <2>2. /\ BroughtIn' = BroughtIn /\ OnTheWay' = OnTheWay - bond /\ OnTheWay >= bond
      BY <1>4, PooledSums
    <2>3. UNCHANGED bal /\ pool' = IF pool + bond <= MaxAmount THEN pool + bond ELSE pool
      BY <1>4 DEF Pooled
    <2> HIDE DEF bond
    <2>4. BroughtIn <= MaxAmount - Worth(InitBal)
      <3> DEFINE most == SumFunctionOnSet([x \in Foreign |-> ForeignTx[x].amount], Foreign)
      <3>1. BroughtIn <= most /\ Worth(InitBal) + most <= MaxAmount
        BY BroughtInBounded DEF SupplyFits
      <3>2. most \in Int
        <4>1. \A x \in Foreign : [y \in Foreign |-> ForeignTx[y].amount][x] \in Int
          BY LedgerAssumption, AmountsAssumption DEF Word
        <4> QED BY <4>1, LedgerAssumption, SumInInt
      <3> HIDE DEF most
      <3> QED BY <1>2, <3>1, <3>2, AmountsAssumption
    <2>5. pool + bond <= MaxAmount
      BY <1>1, <1>2, <2>1, <2>2, <2>4, AmountsAssumption
    <2> QED BY <1>1, <1>2, <2>1, <2>2, <2>3, <2>5
  <1>5. ASSUME NEW t \in OwnTx, Transferred(t) PROVE Conservation'
    <2> DEFINE to == txn[t].to
               amount == txn[t].amount
               bond == BondAmount(amount)
               b == [bal EXCEPT ![Self] = bal[Self] - (amount + bond)]
    <2>1. /\ bond \in Nat /\ amount \in Nat /\ to \in Accounts /\ to # Self /\ Self \in Accounts
      BY <1>5, CostExact, LedgerAssumption, AmountsAssumption
      DEF Transferred, TypeOK, Transactions, Word
    <2>2. bal' = [bal EXCEPT ![Self] = @ - (amount + bond), ![to] = @ + amount]
      BY <1>5 DEF Transferred
    <2>3. BroughtIn' = BroughtIn /\ OnTheWay' = OnTheWay + bond /\ pool' = pool
      BY <1>5, TransferSums DEF Transferred
    <2> HIDE DEF to, amount, bond
    <2>4. b \in [Accounts -> Int] /\ bal \in [Accounts -> Int] /\ b[to] = bal[to]
      BY <1>2, <2>1
    <2>5. bal' = [b EXCEPT ![to] = b[to] + amount]
      BY <1>2, <2>1, <2>2, <2>4
    <2>6. Worth(b) = Worth(bal) - bal[Self] + (bal[Self] - (amount + bond))
      BY <1>2, <2>1, <2>4, WorthUpdated
    <2> HIDE DEF b
    <2>7. b[to] + amount \in Int /\ b[to] \in Int
      BY <2>1, <2>4
    <2>8. /\ Worth([b EXCEPT ![to] = b[to] + amount]) = Worth(b) - b[to] + (b[to] + amount)
          /\ Worth(b) \in Int
      BY <2>1, <2>4, <2>7, WorthUpdated
    <2>9. Worth(bal') = Worth(b) - b[to] + (b[to] + amount)
      BY <2>5, <2>8
    <2> QED BY <1>1, <1>2, <2>1, <2>3, <2>6, <2>7, <2>8, <2>9
  <1>6. ASSUME NEW y \in Foreign, CreditMade(y) PROVE Conservation'
    <2> DEFINE to == ForeignTx[y].to
               amount == ForeignTx[y].amount
    <2>1. to \in Accounts /\ amount \in Nat
      BY <1>6, LedgerAssumption, AmountsAssumption DEF CreditMade, Word
    <2>2. bal' = [bal EXCEPT ![to] = @ + amount] /\ pool' = pool
      BY <1>6 DEF CreditMade
    <2>3. BroughtIn' = BroughtIn + amount /\ OnTheWay' = OnTheWay
      BY <1>6, CreditSums
    <2> HIDE DEF to, amount
    <2>4. bal \in [Accounts -> Int] /\ bal[to] \in Int /\ bal' = [bal EXCEPT ![to] = bal[to] + amount]
      BY <1>2, <2>1, <2>2
    <2>5. Worth(bal') = Worth(bal) - bal[to] + (bal[to] + amount)
      <3>1. bal[to] + amount \in Int
        BY <2>1, <2>4
      <3>2. Worth([bal EXCEPT ![to] = bal[to] + amount])
                = Worth(bal) - bal[to] + (bal[to] + amount)
        BY <2>1, <2>4, <3>1, WorthUpdated
      <3> QED BY <2>4, <3>2
    <2> QED BY <1>1, <1>2, <2>1, <2>2, <2>3, <2>4, <2>5
  <1> QED BY <1>3, <1>4, <1>5, <1>6, StepEffect

(* Nothing is made or lost: balances, pool and the bonds on their way add up
   to what there was and what came in, as long as MaxAmount is not less than
   the money there is, and no crash cuts off a bond (ConfirmTxBatch,
   AccumulateBond, ApplyConfirmedTxBalance). *)
THEOREM ValueIsConserved ==
    ASSUME SerialNode, MaxCrashes = 0, SupplyFits
    PROVE  Spec => []Conservation
  <1>1. Init => Conservation
    <2> SUFFICES ASSUME Init PROVE Conservation
      OBVIOUS
    <2>1. InTransit = {} /\ Credited = {} /\ pool = 0 /\ bal = InitBal
      BY DEF Init, InTransit, Credited, Bonding, IdleReader
    <2>2. Bonds(InTransit) = 0 /\ Total(Credited) = 0
      BY <2>1, SumEmpty DEF Bonds, Total
    <2>3. Worth(InitBal) \in Nat
      BY WorthNat
    <2> QED BY <2>1, <2>2, <2>3 DEF Conservation, InTransit
  <1>2. TypeOK /\ SerialInv /\ Conservation /\ [Next]_vars => Conservation'
    BY NextConservation
  <1> QED BY <1>1, <1>2, ReadsAreFresh, TypeCorrect, PTL DEF Spec

----------------------------------------------------------------------------
(* The snapshots, in the serial setting without calls of CreateSnapshot. *)

RecordedTo(n) == {recs[s] : s \in 1 .. n}

\* The pair of sequence number and balance is a state of the chain.
IsChainState(j) ==
    /\ j.seq \in 0 .. seq
    /\ j.bal + SumFunctionOnSet(OutlayTable, RecordedTo(j.seq)) = InitBal[Self]

Snaps == jobs \cup ({snap} \ {NoSnap})
SnapsTrue == \A j \in Snaps : IsChainState(j)

\* What is on record stays on record.
LEMMA RecordsStay ==
    ASSUME SerialNode, TypeOK, SerialInv, [Next]_vars
    PROVE  /\ seq \in Nat /\ seq' \in Nat /\ seq <= seq'
           /\ \A s \in 1 .. seq : recs'[s] = recs[s] /\ recs[s] \in Confirmed
           /\ \A t \in Confirmed : txn'[t] = txn[t]
  <1>1. seq \in Nat /\ 1 .. seq \subseteq Seqs
    BY LedgerAssumption DEF TypeOK, Seqs
  <1>2. \A s \in 1 .. seq : recs[s] \in Confirmed
    BY DEF SerialInv, SerialChain, RecordsAreConfirmed
  <1>3. CASE Still
    BY <1>1, <1>2, <1>3 DEF Still
  <1>4. ASSUME NEW t \in OwnTx, Pooled(t)
        PROVE  UNCHANGED <<seq, recs, txn>>
    BY <1>4 DEF Pooled
  <1>5. ASSUME NEW t \in OwnTx, Transferred(t)
        PROVE  seq' = seq + 1 /\ recs' = [recs EXCEPT ![seq + 1] = t] /\ UNCHANGED txn
    BY <1>5 DEF Transferred
  <1>6. ASSUME NEW x \in Foreign, CreditMade(x)
        PROVE  UNCHANGED <<seq, recs, txn>>
    BY <1>6 DEF CreditMade
  <1>7. ASSUME NEW t \in OwnTx, Transferred(t)
        PROVE  \A s \in 1 .. seq : recs'[s] = recs[s]
    BY <1>1, <1>5, <1>7 DEF TypeOK
  <1> QED BY <1>1, <1>2, <1>3, <1>4, <1>5, <1>6, <1>7, StepEffect

\* What was a state of the chain stays one: the chain only grows.
LEMMA ChainStateStays ==
    ASSUME SerialNode, TypeOK, SerialInv, [Next]_vars, NEW j, IsChainState(j)
    PROVE  IsChainState(j)'
  <1> DEFINE R == RecordedTo(j.seq)
  <1>1. j.seq \in 0 .. seq /\ j.seq \in 0 .. seq'
    BY RecordsStay DEF IsChainState
  <1>2. R' = R /\ R \subseteq Confirmed
    BY <1>1, RecordsStay DEF RecordedTo
  <1>3. IsFiniteSet(R)
    BY <1>2, SumsNat, FS_Subset
  <1>4. \A t \in R : OutlayTable'[t] = OutlayTable[t]
    BY <1>2, RecordsStay DEF OutlayTable, Outlay, Confirmed
  <1>5. SumFunctionOnSet(OutlayTable', R) = SumFunctionOnSet(OutlayTable, R)
    BY <1>3, <1>4, SumCongruent
  <1> HIDE DEF R
  <1>6. SumFunctionOnSet(OutlayTable, R)' = SumFunctionOnSet(OutlayTable, R)
    BY <1>2, <1>5
  <1>7. j.bal + SumFunctionOnSet(OutlayTable, R)' = InitBal[Self]
    BY <1>6 DEF IsChainState, R
  <1> QED BY <1>1, <1>7 DEF IsChainState, R

\* A snapshot in the making is that of the transaction just confirmed.
LEMMA LatestIsChainState ==
    ASSUME SerialNode, TypeOK, SerialInv, Books, NEW t \in OwnTx, pc[t] \in Bonding
    PROVE  IsChainState(SnapshotOf(t))
  <1>1. txn[t].seq = seq /\ reg[t].sender = bal[Self]
    BY DEF SerialInv, SerialChain, BondingIsLatest, RegistersFresh
  <1>2. SnapshotOf(t).seq = seq /\ SnapshotOf(t).bal = bal[Self]
    BY <1>1 DEF SnapshotOf
  <1>3. RecordedTo(seq) = Confirmed
    BY DEF SerialInv, SerialChain, RecordsAreConfirmed, ConfirmedAreRecorded, RecordedTo
  <1>4. seq \in 0 .. seq
    BY LedgerAssumption DEF TypeOK
  <1> QED BY <1>2, <1>3, <1>4 DEF IsChainState, Books, Spent

\* Every new snapshot is one that a settled bond has asked for.
LEMMA SnapSources ==
    ASSUME SerialNode, Callers = {}, TypeOK, [Next]_vars
    PROVE  \A j \in Snaps' : j \in Snaps \/ \E t \in OwnTx : pc[t] \in Bonding /\ j = SnapshotOf(t)
  <1> USE DEF Snaps, disk
  <1>1. CASE UNCHANGED <<jobs, snap>>
    BY <1>1
  <1>2. ASSUME NEW t \in OwnTx, NEW e \in BOOLEAN, BondRead(t, e) \/ BondWrite(t, e)
        PROVE  /\ pc[t] \in Bonding /\ UNCHANGED snap
               /\ jobs' \subseteq jobs \cup {SnapshotOf(t)}
    BY <1>2 DEF BondRead, BondWrite, Finish, Bonding
  <1>3. ASSUME NEW j \in jobs, NEW e \in BOOLEAN, AutoSnapshot(j, e)
        PROVE  jobs' \subseteq jobs /\ snap' \in {snap, j}
    BY <1>3 DEF AutoSnapshot
  <1>4. CASE Crash
    BY <1>4 DEF Crash
  <1>5. ASSUME NEW t \in OwnTx, TxStep(t),
               \A e \in BOOLEAN : ~ BondRead(t, e) /\ ~ BondWrite(t, e)
        PROVE  UNCHANGED <<jobs, snap>>
    BY <1>5
    DEF TxStep, BuildSeq, ReadClaim, QuorumReached, QuorumFails, ConfirmSender, ConfirmRecv,
        ConfirmBatch
  <1>6. CASE /\ \A t \in OwnTx : ~ TxStep(t)
             /\ \A j \in jobs, e \in BOOLEAN : ~ AutoSnapshot(j, e)
             /\ ~ Crash
    <2>1. UNCHANGED <<jobs, snap>>
      BY <1>6
      DEF Next, vars, memory, BuildTx, ApplyCheck, ReaderStep, ApplyRead, ApplySave,
          ApplyMark, Faucet
    <2> QED BY <1>1, <2>1
  <1> QED BY <1>1, <1>2, <1>3, <1>4, <1>5, <1>6

(* The stored snapshot is a state of the chain: the goroutine that stores it
   was given the number and the balance of the same confirmation (confirmTx,
   autoSnapshot), however late it runs and whatever was lost in a crash. *)
THEOREM SnapshotIsChainState ==
    ASSUME SerialNode, Callers = {}
    PROVE  Spec => []SnapshotMatchesChain
  <1>1. Init => SnapsTrue
    BY DEF Init, SnapsTrue, Snaps
  <1>2. TypeOK /\ SerialInv /\ Books /\ SnapsTrue /\ [Next]_vars => SnapsTrue'
    <2> SUFFICES ASSUME TypeOK, SerialInv, Books, SnapsTrue, [Next]_vars, NEW j \in Snaps'
                 PROVE  IsChainState(j)'
      BY DEF SnapsTrue
    <2>1. IsChainState(j)
      BY SnapSources, LatestIsChainState DEF SnapsTrue
    <2> QED BY <2>1, ChainStateStays
  <1>3. SnapsTrue => SnapshotMatchesChain
    BY DEF SnapsTrue, Snaps, IsChainState, SnapshotMatchesChain, Outlays, OutlayTable, RecordedTo
  <1> QED BY <1>1, <1>2, <1>3, BooksKept, ReadsAreFresh, TypeCorrect, PTL DEF Spec
=============================================================================
