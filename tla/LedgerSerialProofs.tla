------------------------ MODULE LedgerSerialProofs -------------------------
(***************************************************************************)
(* The ledger of a node whose client waits for each transaction before it  *)
(* sends the next one.  The first part assumes nothing else: calls fail,   *)
(* the process crashes, readers and API calls interleave.                  *)
(***************************************************************************)
EXTENDS LedgerProofs, SumsProofs, SequenceTheorems

\* The client that waits: at most one own transaction is between BuildTx and
\* its end.
OneAtATime == MaxInFlight = 1

\* A transaction that has its number and has not used it.
Numbered == {"claim", "pending"} \cup Confirming

OneInFlight ==
    \A t, u \in OwnTx : pc[t] \in Unfinished /\ pc[u] \in Unfinished => t = u

\* The records are exactly those of 1 .. seq, and the number on its way is
\* the next one.
RecordsUpToSeq == \A s \in Seqs : recs[s] # NoTx <=> s <= seq
NextIsFree == \A t \in OwnTx : pc[t] \in Numbered => txn[t].seq = seq + 1 /\ txn[t].seq \in Seqs

\* The records and the confirmed transactions are in bijection.
RecordsAreConfirmed ==
    \A s \in 1 .. seq : recs[s] \in Confirmed /\ txn[recs[s]].seq = s
ConfirmedAreRecorded ==
    \A t \in Confirmed : txn[t].seq \in 1 .. seq /\ recs[txn[t].seq] = t

\* The transaction whose bond is on its way is the latest one.
BondingIsLatest == \A t \in OwnTx : pc[t] \in Bonding => txn[t].seq = seq

SerialChain ==
    /\ OneInFlight /\ RecordsUpToSeq /\ NextIsFree
    /\ RecordsAreConfirmed /\ ConfirmedAreRecorded /\ BondingIsLatest

\* A database without records is a serial chain.
LEMMA InitSerialChain == Init => SerialChain
  BY LedgerAssumption
  DEF Init, SerialChain, OneInFlight, RecordsUpToSeq, NextIsFree, RecordsAreConfirmed,
      ConfirmedAreRecorded, BondingIsLatest, Confirmed, Unfinished, Numbered, Building,
      Confirming, Bonding, Seqs

\* BuildTx waits for the transaction in flight.
LEMMA NoneInFlight ==
    ASSUME OneAtATime, OneInFlight, Cardinality(InFlight) < MaxInFlight
    PROVE  \A u \in OwnTx : pc[u] \notin Unfinished
  <1> SUFFICES ASSUME NEW u \in OwnTx, pc[u] \in Unfinished PROVE FALSE
    OBVIOUS
  <1>1. InFlight = {u}
    BY DEF InFlight, OneInFlight
  <1>2. Cardinality(InFlight) = 1
    BY <1>1, FS_Singleton
  <1> QED BY <1>2 DEF OneAtATime

\* Steps that write no record, start nothing and give no number: a
\* transaction stays where it was in its life, or is dropped, or cut short.
LEMMA SerialUntouched ==
    ASSUME TypeOK, SerialChain, UNCHANGED <<seq, recs>>,
           \A t \in OwnTx :
               /\ pc'[t] \in Unfinished => pc[t] \in Unfinished
               /\ pc'[t] \in Numbered => pc[t] \in Numbered
               /\ pc'[t] \in Bonding => pc[t] \in Bonding
               /\ pc'[t] \in Bonding \cup {"done", "cut"}
                     <=> pc[t] \in Bonding \cup {"done", "cut"}
               /\ txn'[t].seq = txn[t].seq
    PROVE  SerialChain'
  <1>1. Confirmed' = Confirmed
    BY DEF Confirmed
  <1>2. OneInFlight'
    BY DEF SerialChain, OneInFlight
  <1>3. RecordsUpToSeq' /\ NextIsFree' /\ BondingIsLatest'
    BY DEF SerialChain, RecordsUpToSeq, NextIsFree, BondingIsLatest
  <1>4. RecordsAreConfirmed' /\ ConfirmedAreRecorded'
    BY <1>1, LedgerAssumption
    DEF SerialChain, RecordsAreConfirmed, ConfirmedAreRecorded, Confirmed
  <1> QED BY <1>2, <1>3, <1>4 DEF SerialChain

\* The step that writes a record.
LEMMA SerialBatch ==
    ASSUME TypeOK, SerialChain, NEW t \in OwnTx, ConfirmBatch(t, FALSE)
    PROVE  /\ seq + 1 \in Seqs /\ recs[seq + 1] = NoTx /\ txn[t].seq = seq + 1
           /\ t \notin Confirmed
           /\ seq' = seq + 1
           /\ recs' = [recs EXCEPT ![seq + 1] = t]
           /\ pc' = [pc EXCEPT ![t] = "bond"]
           /\ Confirmed' = Confirmed \cup {t}
           /\ SerialChain'
  <1>1. txn[t].seq = seq + 1 /\ seq + 1 \in Seqs /\ pc[t] = "batch" /\ seq \in Nat
    BY DEF ConfirmBatch, SerialChain, NextIsFree, Numbered, Confirming, TypeOK
  <1>2. recs[seq + 1] = NoTx
    BY <1>1 DEF SerialChain, RecordsUpToSeq
  <1>3. t \notin Confirmed
    BY <1>1 DEF Confirmed, Bonding
  <1>4. /\ seq' = seq + 1 /\ recs' = [recs EXCEPT ![seq + 1] = t]
        /\ pc' = [pc EXCEPT ![t] = "bond"] /\ UNCHANGED txn
    BY <1>1 DEF ConfirmBatch, BatchSeq, Record, Goto
  <1>5. Confirmed' = Confirmed \cup {t}
    BY <1>4 DEF Confirmed, Bonding, TypeOK
  <1>6. \A u \in OwnTx \ {t} : pc'[u] = pc[u] /\ pc[u] \notin Unfinished
    BY <1>1, <1>4 DEF SerialChain, OneInFlight, Unfinished, Confirming, TypeOK
  <1>7. OneInFlight' /\ NextIsFree' /\ BondingIsLatest'
    BY <1>1, <1>4, <1>6
    DEF OneInFlight, NextIsFree, BondingIsLatest, Unfinished, Numbered, Building, Confirming,
        Bonding, TypeOK
  <1>8. RecordsUpToSeq'
    BY <1>1, <1>4, LedgerAssumption DEF SerialChain, RecordsUpToSeq, TypeOK, Seqs
  <1>9. RecordsAreConfirmed' /\ ConfirmedAreRecorded'
    <2>1. seq \in 0 .. MaxSeq /\ 1 .. seq \subseteq Seqs
      BY LedgerAssumption DEF TypeOK, Seqs
    <2>2. \A s \in 1 .. seq : recs'[s] = recs[s]
      BY <1>1, <1>4, <2>1 DEF TypeOK
    <2>3. recs'[seq + 1] = t
      BY <1>1, <1>4 DEF TypeOK
    <2>4. 1 .. (seq + 1) = (1 .. seq) \cup {seq + 1}
      BY <1>1
    <2>5. RecordsAreConfirmed'
      BY <1>1, <1>4, <1>5, <2>2, <2>3, <2>4 DEF SerialChain, RecordsAreConfirmed
    <2>6. ConfirmedAreRecorded'
      BY <1>1, <1>4, <1>5, <2>2, <2>3, <2>4 DEF SerialChain, ConfirmedAreRecorded
    <2> QED BY <2>5, <2>6
  <1> QED BY <1>1, <1>2, <1>3, <1>4, <1>5, <1>7, <1>8, <1>9 DEF SerialChain

\* Each step keeps the chain serial: there is only one transaction to number.
LEMMA NextSerialChain ==
    ASSUME OneAtATime, TypeOK, SerialChain, [Next]_vars
    PROVE  SerialChain'
  <1> USE DEF Unfinished, Numbered, Building, Confirming, Bonding, disk
  <1>1. CASE UNCHANGED vars
    BY <1>1, SerialUntouched DEF vars, memory
  <1>2. ASSUME NEW t \in OwnTx, NEW to \in Payees, NEW amount \in SendAmounts,
               BuildTx(t, to, amount)
        PROVE  SerialChain'
    <2>1. \A u \in OwnTx : pc[u] \notin Unfinished
      BY <1>2, NoneInFlight DEF BuildTx, SerialChain
    <2>2. /\ pc[t] = "idle" /\ pc' = [pc EXCEPT ![t] = "seq"]
          /\ UNCHANGED <<seq, recs>>
          /\ \A u \in OwnTx : txn'[u].seq = txn[u].seq
      BY <1>2 DEF BuildTx, Goto, TypeOK, Transactions
    <2>3. Confirmed' = Confirmed
      BY <2>2 DEF Confirmed, TypeOK
    <2>4. OneInFlight' /\ RecordsUpToSeq' /\ NextIsFree' /\ BondingIsLatest'
      BY <2>1, <2>2
      DEF TypeOK, SerialChain, OneInFlight, RecordsUpToSeq, NextIsFree, BondingIsLatest
    <2>5. RecordsAreConfirmed' /\ ConfirmedAreRecorded'
      BY <2>2, <2>3
      DEF SerialChain, RecordsAreConfirmed, ConfirmedAreRecorded, Confirmed
    <2> QED BY <2>4, <2>5 DEF SerialChain
  <1>3. ASSUME NEW t \in OwnTx, BuildSeq(t, FALSE) PROVE SerialChain'
    <2>1. /\ pc[t] = "seq" /\ pc' = [pc EXCEPT ![t] = "claim"]
          /\ UNCHANGED <<seq, recs>>
          /\ txn'[t].seq = seq + 1 /\ seq + 1 \in Seqs
          /\ \A u \in OwnTx \ {t} : txn'[u] = txn[u]
      BY <1>3, LedgerAssumption DEF BuildSeq, NextSeq, Goto, TypeOK, Transactions, Seqs
    <2>2. Confirmed' = Confirmed /\ Confirmed \subseteq OwnTx \ {t}
      BY <2>1 DEF Confirmed, TypeOK
    <2>3. \A u \in OwnTx \ {t} : pc'[u] = pc[u] /\ pc[u] \notin Unfinished
      BY <2>1 DEF SerialChain, OneInFlight, TypeOK
    <2>4. OneInFlight' /\ RecordsUpToSeq' /\ NextIsFree' /\ BondingIsLatest'
      BY <2>1, <2>3
      DEF TypeOK, SerialChain, OneInFlight, RecordsUpToSeq, NextIsFree, BondingIsLatest
    <2>5. RecordsAreConfirmed' /\ ConfirmedAreRecorded'
      BY <2>1, <2>2 DEF SerialChain, RecordsAreConfirmed, ConfirmedAreRecorded
    <2> QED BY <2>4, <2>5 DEF SerialChain
  <1>4. ASSUME NEW t \in OwnTx,
               \/ BuildSeq(t, TRUE)
               \/ \E e \in BOOLEAN :
                     ReadClaim(t, e) \/ ConfirmSender(t, e) \/ ConfirmRecv(t, e)
        PROVE  SerialChain'
    <2>1. /\ pc[t] \in Unfinished \ Bonding /\ UNCHANGED <<seq, recs, txn>>
          /\ \E where : pc' = [pc EXCEPT ![t] = where]
          /\ pc'[t] \in {"failed"} \cup Numbered /\ (pc'[t] \in Numbered => pc[t] \in Numbered)
      BY <1>4 DEF BuildSeq, ReadClaim, ConfirmSender, ConfirmRecv, Leave, Goto, TypeOK
    <2> QED BY <2>1, SerialUntouched DEF TypeOK
  <1>5. ASSUME NEW t \in OwnTx, QuorumReached(t) \/ QuorumFails(t) PROVE SerialChain'
    BY <1>5, SerialUntouched DEF QuorumReached, QuorumFails, Answered, Leave, Goto, TypeOK
  <1>6. ASSUME NEW t \in OwnTx, NEW e \in BOOLEAN, ConfirmBatch(t, e) PROVE SerialChain'
    <2>1. CASE e
      BY <1>6, <2>1, SerialUntouched DEF ConfirmBatch, RolledBack, Leave, Goto, TypeOK
    <2>2. CASE ~e
      BY <1>6, <2>2, SerialBatch
    <2> QED BY <2>1, <2>2
  <1>7. ASSUME NEW t \in OwnTx, NEW e \in BOOLEAN, BondRead(t, e) \/ BondWrite(t, e)
        PROVE  SerialChain'
    BY <1>7, SerialUntouched DEF BondRead, BondWrite, Finish, Leave, Goto, TypeOK
  <1>8. ASSUME NEW r \in Readers, NEW e \in BOOLEAN,
               (\E x \in Tx : ApplyCheck(r, x, e)) \/ ReaderStep(r, e)
        PROVE  SerialChain'
    BY <1>8, SerialUntouched DEF ApplyCheck, ReaderStep, ApplyRead, ApplySave, ApplyMark
  <1>9. ASSUME NEW a \in Accounts, NEW amount \in FaucetAmounts, Faucet(a, amount)
        PROVE  SerialChain'
    BY <1>9, SerialUntouched DEF Faucet, memory
  <1>10. ASSUME NEW c \in Callers, NEW e \in BOOLEAN, CallStep(c, e) PROVE SerialChain'
    BY <1>10, SerialUntouched DEF CallStep, SnapshotBalance, SnapshotSeq, SnapshotSave
  <1>11. ASSUME NEW j \in jobs, NEW e \in BOOLEAN, AutoSnapshot(j, e) PROVE SerialChain'
    BY <1>11, SerialUntouched DEF AutoSnapshot
  <1>12. CASE Crash
    BY <1>12, SerialUntouched DEF Crash, TypeOK
  <1> QED
    BY <1>1, <1>2, <1>3, <1>4, <1>5, <1>6, <1>7, <1>8, <1>9, <1>10, <1>11, <1>12
    DEF Next, TxStep

(* For a client that waits for each transaction, the records are exactly the
   confirmed transactions, each under a number of its own, and a transaction
   in flight has the number after the last one (BuildTx, ConfirmTxBatch). *)
THEOREM ChainIsSerial ==
    ASSUME OneAtATime
    PROVE  Spec => []SerialChain
  <1>1. TypeOK /\ SerialChain /\ [Next]_vars => SerialChain'
    BY NextSerialChain
  <1> QED BY <1>1, InitSerialChain, InitTypeOK, NextTypeOK, PTL DEF Spec

(* For such a client a confirmed transaction stays on record, under its own
   number, whatever fails, crashes or is credited meanwhile (BuildTx,
   ConfirmTxBatch). *)
THEOREM ConfirmedStaysOnRecord ==
    ASSUME OneAtATime
    PROVE  Spec => []ConfirmedOnRecord
  <1>1. SerialChain => ConfirmedOnRecord
    BY DEF SerialChain, ConfirmedAreRecorded, ConfirmedOnRecord
  <1> QED BY <1>1, ChainIsSerial, PTL

\* The batch is the only step that writes a record.
LEMMA RecordKept ==
    ASSUME OneAtATime, TypeOK, SerialChain, [Next]_vars
    PROVE  \A s \in Seqs : recs[s] # NoTx => recs'[s] = recs[s]
  <1>1. CASE UNCHANGED recs
    BY <1>1
  <1>2. ASSUME NEW t \in OwnTx, ConfirmBatch(t, FALSE)
        PROVE  \A s \in Seqs : recs[s] # NoTx => recs'[s] = recs[s]
    BY <1>2, SerialBatch DEF TypeOK
  <1>3. ASSUME NEW t \in OwnTx, TxStep(t), ~ ConfirmBatch(t, FALSE) PROVE UNCHANGED recs
    BY <1>3
    DEF TxStep, disk, BuildSeq, ReadClaim, QuorumReached, QuorumFails, ConfirmSender,
        ConfirmRecv, ConfirmBatch, RolledBack, BondRead, BondWrite
  <1>4. CASE \A t \in OwnTx : ~ TxStep(t)
    <2>1. UNCHANGED recs
      BY <1>4
      DEF Next, ReaderStep, CallStep, vars, disk, BuildTx, ApplyCheck, ApplyRead, ApplySave,
          ApplyMark, Faucet, SnapshotBalance, SnapshotSeq, SnapshotSave, AutoSnapshot, Crash
    <2> QED BY <2>1
  <1> QED BY <1>1, <1>2, <1>3, <1>4

(* For a client that waits, no record is ever overwritten, whatever calls
   fail, whatever the other goroutines do and wherever the process crashes:
   the number read by BuildTx is still the next one when ConfirmTxBatch
   writes under it. *)
THEOREM RecordsNeverChange ==
    ASSUME OneAtATime
    PROVE  Spec => RecordsImmutable
  <1>1. TypeOK /\ SerialChain /\ [Next]_vars
            => [\A s \in Seqs : recs[s] # NoTx => recs'[s] = recs[s]]_vars
    BY RecordKept
  <1> QED BY <1>1, ChainIsSerial, TypeCorrect, PTL DEF Spec, RecordsImmutable

----------------------------------------------------------------------------
(* The second part: the setting in which a confirmation and a credit look
   like one step each.  The client waits and pays others, no database call
   fails, the faucet is not used; either no peer announces a payment, or one
   reader credits payments to third accounts, and its process stays up.  Each of
   these is needed: README.md names, under the departures of the code, what
   breaks without it. *)
LoneReader ==
    /\ \A r, q \in Readers : r = q
    /\ ~EchoOwn
    /\ MaxCrashes = 0
    /\ \A x \in Foreign : ForeignTx[x].to \notin Payees \cup {Self}

SerialNode ==
    /\ OneAtATime
    /\ MaxFaults = 0
    /\ MaxFaucets = 0
    /\ Self \notin Payees
    /\ Readers = {} \/ LoneReader

\* What BuildTx has checked stays true of a transaction.
Agreed ==
    \A t \in OwnTx : pc[t] # "idle" =>
        /\ txn[t].amount \in 1 .. MaxAmount /\ txn[t].to \in Payees
        /\ Cost(txn[t].amount).err = "nil"

\* What a goroutine has read is still what the database holds.
RegistersFresh ==
    \A t \in OwnTx :
        /\ pc[t] \in {"recv", "batch"} =>
              Outlay(t) <= bal[Self] /\ reg[t].sender = bal[Self] - Outlay(t)
        /\ pc[t] = "batch" => reg[t].recv = bal[txn[t].to] + txn[t].amount
        /\ pc[t] \in Bonding => reg[t].sender = bal[Self]
        /\ pc[t] = "pool" => reg[t].pool = pool

ReadersFresh ==
    \A r \in Readers :
        /\ rd[r].pc # "idle" => rd[r].tx \in Foreign
        /\ rd[r].pc \in {"read", "save"} => rd[r].tx \notin applied
        /\ rd[r].pc = "save" =>
              rd[r].val = bal[ForeignTx[rd[r].tx].to] + ForeignTx[rd[r].tx].amount

NobodyReads == Readers = {} => applied = {}

SerialInv == SerialChain /\ Agreed /\ RegistersFresh /\ ReadersFresh /\ NobodyReads

\* No call fails where none may.
LEMMA NoFault ==
    ASSUME SerialNode, TypeOK, NEW e \in BOOLEAN, Faulting(e)
    PROVE  ~ e
  BY DEF SerialNode, TypeOK, Faulting

\* Admitted amounts have an exact cost.
LEMMA CostExact ==
    ASSUME NEW amount \in Word
    PROVE  /\ BondAmount(amount) \in 0 .. amount
           /\ Cost(amount).err = "nil" =>
                  /\ Cost(amount).val = amount + BondAmount(amount)
                  /\ Cost(amount).val <= MaxAmount
  <1>1. BondAmount(amount) \in 0 .. amount /\ BondAmount(amount) \in Word
    BY BondBounded, ArithmeticInWord
  <1> QED BY <1>1, SafeAddExact DEF Cost

\* Steps that start no transaction and leave payee and amount alone.
LEMMA AgreedUntouched ==
    ASSUME Agreed,
           \A t \in OwnTx : pc'[t] # "idle" =>
               /\ pc[t] # "idle"
               /\ txn'[t].to = txn[t].to /\ txn'[t].amount = txn[t].amount
    PROVE  Agreed'
  BY DEF Agreed

\* Readers and marks stay in agreement.
LEMMA NextAgreed ==
    ASSUME TypeOK, Agreed, [Next]_vars
    PROVE  Agreed'
  <1> USE DEF disk
  <1>1. CASE UNCHANGED vars
    BY <1>1, AgreedUntouched DEF vars, memory
  <1>2. ASSUME NEW t \in OwnTx, NEW to \in Payees, NEW amount \in SendAmounts,
               BuildTx(t, to, amount)
        PROVE  Agreed'
    <2>1. amount \in 1 .. MaxAmount /\ Cost(amount).err = "nil"
      BY <1>2, LedgerAssumption, AmountsAssumption DEF BuildTx, Admits, ValidateAmount, Word
    <2>2. /\ txn'[t].to = to /\ txn'[t].amount = amount
          /\ \A u \in OwnTx \ {t} : txn'[u] = txn[u] /\ pc'[u] = pc[u]
      BY <1>2 DEF BuildTx, Goto, TypeOK, Transactions
    <2> QED BY <2>1, <2>2 DEF Agreed
  <1>3. ASSUME NEW t \in OwnTx, NEW e \in BOOLEAN, BuildSeq(t, e) PROVE Agreed'
    <2>1. /\ pc[t] = "seq"
          /\ \A u \in OwnTx : txn'[u].to = txn[u].to /\ txn'[u].amount = txn[u].amount
          /\ \A u \in OwnTx \ {t} : pc'[u] = pc[u]
      <3>1. CASE e
        BY <1>3, <3>1 DEF BuildSeq, Goto, TypeOK
      <3>2. CASE ~e
        <4> DEFINE parents == D!CurrentTips(dag)
        <4>1. pc[t] = "seq" /\ \A u \in OwnTx \ {t} : pc'[u] = pc[u]
          BY <1>3, <3>2 DEF BuildSeq, Goto, TypeOK
        <4>2. txn' = [txn EXCEPT ![t].seq = NextSeq, ![t].parents = parents]
          BY <1>3, <3>2 DEF BuildSeq
        <4> HIDE DEF parents
        <4>3. \A u \in OwnTx : txn'[u].to = txn[u].to /\ txn'[u].amount = txn[u].amount
          BY <4>2 DEF TypeOK, Transactions
        <4> QED BY <4>1, <4>3
      <3> QED BY <3>1, <3>2
    <2> QED BY <2>1, AgreedUntouched
  <1>4. ASSUME NEW t \in OwnTx, NEW e \in BOOLEAN,
               \/ ReadClaim(t, e) \/ ConfirmSender(t, e) \/ ConfirmRecv(t, e)
               \/ ConfirmBatch(t, e) \/ BondRead(t, e) \/ BondWrite(t, e)
               \/ QuorumReached(t) \/ QuorumFails(t)
        PROVE  Agreed'
    <2>1. pc[t] # "idle" /\ UNCHANGED txn
      BY <1>4
      DEF ReadClaim, ConfirmSender, ConfirmRecv, ConfirmBatch, BondRead, BondWrite,
          QuorumReached, QuorumFails, Answered
    <2>2. \E where : pc' = [pc EXCEPT ![t] = where]
      BY <1>4
      DEF ReadClaim, ConfirmSender, ConfirmRecv, ConfirmBatch, BondRead, BondWrite,
          QuorumReached, QuorumFails, Finish, Leave, Goto
    <2> QED BY <2>1, <2>2, AgreedUntouched DEF TypeOK
  <1>5. CASE ~ \E t \in OwnTx : TxStep(t) \/ \E to \in Payees, a \in SendAmounts : BuildTx(t, to, a)
    <2>1. UNCHANGED txn /\ (UNCHANGED pc \/ Crash)
      BY <1>5, <1>1
      DEF Next, vars, memory, ApplyCheck, ReaderStep, ApplyRead, ApplySave, ApplyMark, Faucet,
          CallStep, SnapshotBalance, SnapshotSeq, SnapshotSave, AutoSnapshot, Crash
    <2> QED BY <2>1, AgreedUntouched DEF Crash, TypeOK, Building, Confirming, Bonding
  <1> QED BY <1>2, <1>3, <1>4, <1>5 DEF TxStep

\* The two actions that move a balance, in terms of what they find there.
LEMMA BatchEffect ==
    ASSUME SerialNode, TypeOK, SerialInv, NEW t \in OwnTx, ConfirmBatch(t, FALSE)
    PROVE  /\ txn[t].to \in Payees /\ txn[t].to # Self
           /\ txn[t].amount \in 1 .. MaxAmount
           /\ Outlay(t) = txn[t].amount + BondAmount(txn[t].amount)
           /\ Outlay(t) <= bal[Self]
           /\ bal' = [bal EXCEPT ![Self] = @ - Outlay(t), ![txn[t].to] = @ + txn[t].amount]
  <1>1. pc[t] = "batch" /\ bal' = [bal EXCEPT ![Self] = reg[t].sender, ![txn[t].to] = reg[t].recv]
    BY DEF ConfirmBatch, BatchBalances
  <1>2. txn[t].to \in Payees /\ txn[t].amount \in 1 .. MaxAmount
    BY <1>1 DEF SerialInv, Agreed
  <1>3. txn[t].to # Self
    BY <1>2 DEF SerialNode
  <1>4. /\ Outlay(t) <= bal[Self] /\ reg[t].sender = bal[Self] - Outlay(t)
        /\ reg[t].recv = bal[txn[t].to] + txn[t].amount
    BY <1>1 DEF SerialInv, RegistersFresh
  <1>5. BondAmount(txn[t].amount) \in Nat
    BY CostExact DEF TypeOK, Transactions
  <1>6. Outlay(t) = txn[t].amount + BondAmount(txn[t].amount)
    BY <1>2, <1>3, <1>5 DEF Outlay
  <1>7. bal' = [bal EXCEPT ![Self] = bal[Self] - Outlay(t),
                           ![txn[t].to] = bal[txn[t].to] + txn[t].amount]
    BY <1>1, <1>4
  <1> QED BY <1>2, <1>3, <1>4, <1>6, <1>7

\* ApplySave credits a payment that was not credited before, in full.
LEMMA SaveEffect ==
    ASSUME SerialNode, TypeOK, SerialInv, NEW r \in Readers, ApplySave(r, FALSE)
    PROVE  LET x == rd[r].tx
           IN  /\ x \in Foreign /\ x \notin applied
               /\ ForeignTx[x].to \in Accounts \ (Payees \cup {Self})
               /\ bal' = [bal EXCEPT ![ForeignTx[x].to] = @ + ForeignTx[x].amount]
               /\ rd' = [rd EXCEPT ![r].pc = "mark"]
               /\ \A q \in Readers : q = r
  <1> DEFINE x == rd[r].tx
  <1>1. /\ x \in Foreign /\ x \notin applied /\ rd[r].pc = "save"
        /\ rd[r].val = bal[ForeignTx[x].to] + ForeignTx[x].amount
    BY DEF ApplySave, SerialInv, ReadersFresh
  <1>2. bal' = [bal EXCEPT ![ForeignTx[x].to] = rd[r].val] /\ rd' = [rd EXCEPT ![r].pc = "mark"]
    BY <1>1 DEF ApplySave, Payload
  <1>3. LoneReader
    BY DEF SerialNode
  <1>4. ForeignTx[x].to \in Accounts \ (Payees \cup {Self})
    BY <1>1, <1>3, LedgerAssumption DEF LoneReader
  <1>5. \A q \in Readers : q = r
    BY <1>3 DEF LoneReader
  <1> HIDE DEF x
  <1>6. bal' = [bal EXCEPT ![ForeignTx[x].to] = bal[ForeignTx[x].to] + ForeignTx[x].amount]
    BY <1>1, <1>2
  <1> QED BY <1>1, <1>2, <1>4, <1>5, <1>6 DEF x

\* Steps that touch neither balances nor pool nor what a goroutine that is
\* still confirming has read.
LEMMA FreshUntouched ==
    ASSUME RegistersFresh, UNCHANGED <<bal, pool>>,
           \A t \in OwnTx : pc'[t] \in {"recv", "batch"} \cup Bonding =>
               /\ pc'[t] = pc[t] /\ reg'[t] = reg[t]
               /\ txn'[t].to = txn[t].to /\ txn'[t].amount = txn[t].amount
    PROVE  RegistersFresh'
  <1> SUFFICES ASSUME NEW t \in OwnTx, pc'[t] \in {"recv", "batch"} \cup Bonding
               PROVE  /\ pc'[t] \in {"recv", "batch"} =>
                             Outlay(t)' <= bal'[Self] /\ reg'[t].sender = bal'[Self] - Outlay(t)'
                      /\ pc'[t] = "batch" => reg'[t].recv = bal'[txn'[t].to] + txn'[t].amount
                      /\ pc'[t] \in Bonding => reg'[t].sender = bal'[Self]
                      /\ pc'[t] = "pool" => reg'[t].pool = pool'
    BY DEF RegistersFresh, Bonding
  <1>1. Outlay(t)' = Outlay(t)
    BY DEF Outlay
  <1> QED BY <1>1 DEF RegistersFresh

\* What the confirming goroutine reads stays what the database holds.
LEMMA ConfirmingFresh ==
    ASSUME SerialNode, TypeOK, SerialInv, NEW t \in OwnTx, NEW e \in BOOLEAN,
           ConfirmSender(t, e) \/ ConfirmRecv(t, e) \/ BondRead(t, e)
    PROVE  RegistersFresh'
  <1> USE DEF Bonding, disk
  <1>1. ~ e
    BY NoFault DEF ConfirmSender, ConfirmRecv, BondRead
  <1>2. pc[t] \in Unfinished /\ UNCHANGED <<bal, pool, txn>>
    BY DEF ConfirmSender, ConfirmRecv, BondRead, Unfinished, Confirming
  <1>3. \A u \in OwnTx \ {t} : pc[u] \notin Unfinished
    BY <1>2 DEF SerialInv, SerialChain, OneInFlight
  <1>4. \E where : pc' = [pc EXCEPT ![t] = where]
    BY DEF ConfirmSender, ConfirmRecv, BondRead, Finish, Leave, Goto
  <1>5. \A u \in OwnTx \ {t} : pc'[u] \notin Unfinished
    BY <1>3, <1>4 DEF TypeOK
  <1>6. CASE pc'[t] = "failed"
    BY <1>2, <1>5, <1>6, FreshUntouched DEF SerialInv, Unfinished, Confirming
  <1>7. CASE ConfirmSender(t, e) /\ pc'[t] # "failed"
    <2> DEFINE total == Cost(txn[t].amount)
               left == SafeSub(bal[Self], total.val)
    <2>1. /\ pc[t] = "sender" /\ pc' = [pc EXCEPT ![t] = "recv"]
          /\ total.err = "nil" /\ left.err = "nil"
          /\ reg' = [reg EXCEPT ![t].sender = left.val]
      BY <1>7, <1>1 DEF ConfirmSender, Leave, Goto, TypeOK
    <2>2. txn[t].amount \in Word /\ txn[t].to # Self /\ bal[Self] \in Word
      BY <2>1, LedgerAssumption DEF SerialInv, SerialNode, Agreed, TypeOK, Transactions
    <2>3. /\ total.val \in Word /\ total.val = Outlay(t)
          /\ total.val <= bal[Self] /\ left.val = bal[Self] - total.val
      <3>1. total.val \in Word /\ BondAmount(txn[t].amount) \in Word
        BY <2>2, ArithmeticInWord
      <3>2. total.val = txn[t].amount + BondAmount(txn[t].amount)
        BY <2>1, <2>2, CostExact
      <3>3. total.val = Outlay(t)
        BY <2>2, <3>1, <3>2, AmountsAssumption DEF Outlay, Word
      <3>4. total.val <= bal[Self] /\ left.val = bal[Self] - total.val
        BY <2>1, <2>2, <3>1, SafeSubExact
      <3> QED BY <3>1, <3>3, <3>4
    <2> HIDE DEF total, left
    <2>4. reg'[t].sender = left.val /\ pc'[t] = "recv"
      BY <2>1 DEF TypeOK, Registers
    <2>5. Outlay(t)' = Outlay(t)
      BY <1>2 DEF Outlay
    <2> QED BY <1>2, <1>5, <2>3, <2>4, <2>5 DEF RegistersFresh, Unfinished, Confirming
  <1>8. CASE ConfirmRecv(t, e) /\ pc'[t] # "failed"
    <2> DEFINE more == SafeAdd(bal[txn[t].to], txn[t].amount)
    <2>1. /\ pc[t] = "recv" /\ pc' = [pc EXCEPT ![t] = "batch"] /\ more.err = "nil"
          /\ reg' = [reg EXCEPT ![t].recv = more.val]
      BY <1>8, <1>1 DEF ConfirmRecv, BalanceOrZero, Leave, Goto, TypeOK
    <2>2. more.val = bal[txn[t].to] + txn[t].amount
      BY <2>1, SafeAddExact DEF TypeOK, Transactions
    <2> HIDE DEF more
    <2>3. reg'[t].recv = more.val /\ reg'[t].sender = reg[t].sender /\ pc'[t] = "batch"
      BY <2>1 DEF TypeOK, Registers
    <2>4. Outlay(t)' = Outlay(t)
      BY <1>2 DEF Outlay
    <2> QED
      BY <1>2, <1>5, <2>1, <2>2, <2>3, <2>4
      DEF SerialInv, RegistersFresh, Unfinished, Confirming
  <1>9. CASE BondRead(t, e)
    <2>1. /\ pc[t] = "bond" /\ pc' = [pc EXCEPT ![t] = "pool"]
          /\ reg' = [reg EXCEPT ![t].pool = pool]
      BY <1>9, <1>1 DEF BondRead, Goto
    <2>2. reg'[t].pool = pool /\ reg'[t].sender = reg[t].sender /\ pc'[t] = "pool"
      BY <2>1 DEF TypeOK, Registers
    <2> QED
      BY <1>2, <1>5, <2>1, <2>2 DEF SerialInv, RegistersFresh, Unfinished, Confirming
  <1> QED BY <1>6, <1>7, <1>8, <1>9

\* What a goroutine has read stays what is stored: nobody else writes it.
LEMMA NextRegistersFresh ==
    ASSUME SerialNode, TypeOK, SerialInv, [Next]_vars
    PROVE  RegistersFresh'
  <1> USE DEF Bonding, disk
  <1>1. CASE UNCHANGED vars
    BY <1>1, FreshUntouched DEF SerialInv, vars, memory
  <1>2. ASSUME NEW t \in OwnTx,
               \/ \E to \in Payees, amount \in SendAmounts : BuildTx(t, to, amount)
               \/ \E e \in BOOLEAN : BuildSeq(t, e) \/ ReadClaim(t, e)
               \/ QuorumReached(t) \/ QuorumFails(t)
        PROVE  RegistersFresh'
    <2>1. \E where \in {"seq", "claim", "pending", "sender", "failed"} :
              pc' = [pc EXCEPT ![t] = where]
      BY <1>2 DEF BuildTx, BuildSeq, ReadClaim, QuorumReached, QuorumFails, Leave, Goto
    <2>2. UNCHANGED <<bal, pool>>
      BY <1>2 DEF BuildTx, BuildSeq, ReadClaim, QuorumReached, QuorumFails
    <2>3. \A u \in OwnTx \ {t} : reg'[u] = reg[u] /\ txn'[u] = txn[u]
      BY <1>2 DEF BuildTx, BuildSeq, ReadClaim, QuorumReached, QuorumFails, Leave, TypeOK
    <2> QED BY <2>1, <2>2, <2>3, FreshUntouched DEF SerialInv, TypeOK
  <1>3. ASSUME NEW t \in OwnTx, NEW e \in BOOLEAN,
               ConfirmSender(t, e) \/ ConfirmRecv(t, e) \/ BondRead(t, e)
        PROVE  RegistersFresh'
    BY <1>3, ConfirmingFresh
  <1>4. ASSUME NEW t \in OwnTx, NEW e \in BOOLEAN, ConfirmBatch(t, e) PROVE RegistersFresh'
    <2>1. ConfirmBatch(t, FALSE)
      BY <1>4, NoFault DEF ConfirmBatch
    <2>2. /\ pc[t] = "batch" /\ pc' = [pc EXCEPT ![t] = "bond"] /\ UNCHANGED reg
          /\ bal' = [bal EXCEPT ![Self] = reg[t].sender, ![txn[t].to] = reg[t].recv]
      BY <2>1 DEF ConfirmBatch, BatchBalances, Goto
    <2>3. bal'[Self] = reg[t].sender /\ pc'[t] = "bond"
      BY <2>1, <2>2, BatchEffect, LedgerAssumption DEF TypeOK
    <2>4. \A u \in OwnTx \ {t} : pc'[u] \notin Unfinished
      BY <2>2 DEF SerialInv, SerialChain, OneInFlight, Unfinished, Confirming, TypeOK
    <2> QED BY <2>2, <2>3, <2>4 DEF RegistersFresh, Unfinished, Confirming
  <1>5. ASSUME NEW t \in OwnTx, NEW e \in BOOLEAN, BondWrite(t, e) PROVE RegistersFresh'
    <2>1. pc[t] = "pool" /\ pc' = [pc EXCEPT ![t] = "done"]
      BY <1>5 DEF BondWrite, Finish, Leave, Goto
    <2>2. \A u \in OwnTx : pc'[u] \notin Unfinished
      BY <2>1
      DEF SerialInv, SerialChain, OneInFlight, Unfinished, Building, Confirming, TypeOK
    <2> QED BY <2>2 DEF RegistersFresh, Unfinished, Confirming
  <1>6. ASSUME NEW r \in Readers, NEW e \in BOOLEAN, ApplySave(r, e) PROVE RegistersFresh'
    <2>1. ApplySave(r, FALSE)
      BY <1>6, NoFault DEF ApplySave
    <2>2. UNCHANGED <<pool, pc, txn, reg>>
      BY <2>1 DEF ApplySave
    <2>3. \A a \in Payees \cup {Self} : bal'[a] = bal[a]
      <3> DEFINE to == ForeignTx[rd[r].tx].to
      <3>1. /\ to \in Accounts \ (Payees \cup {Self})
            /\ bal' = [bal EXCEPT ![to] = @ + ForeignTx[rd[r].tx].amount]
        BY <2>1, SaveEffect
      <3> HIDE DEF to
      <3> QED BY <3>1, LedgerAssumption DEF TypeOK
    <2>4. \A t \in OwnTx : pc[t] # "idle" => txn[t].to \in Payees
      BY DEF SerialInv, Agreed
    <2> QED BY <2>2, <2>3, <2>4 DEF SerialInv, RegistersFresh, Outlay
  <1>7. ASSUME NEW r \in Readers, NEW e \in BOOLEAN,
               (\E x \in Tx : ApplyCheck(r, x, e)) \/ ApplyRead(r, e) \/ ApplyMark(r, e)
        PROVE  RegistersFresh'
    BY <1>7, FreshUntouched DEF SerialInv, ApplyCheck, ApplyRead, ApplyMark
  <1>8. ASSUME NEW a \in Accounts, NEW amount \in FaucetAmounts, Faucet(a, amount)
        PROVE  RegistersFresh'
    BY <1>8 DEF SerialNode, Faucet, TypeOK
  <1>9. ASSUME NEW c \in Callers, NEW e \in BOOLEAN, CallStep(c, e) PROVE RegistersFresh'
    BY <1>9, FreshUntouched
    DEF SerialInv, CallStep, SnapshotBalance, SnapshotSeq, SnapshotSave
  <1>10. ASSUME NEW j \in jobs, NEW e \in BOOLEAN, AutoSnapshot(j, e) PROVE RegistersFresh'
    BY <1>10, FreshUntouched DEF SerialInv, AutoSnapshot
  <1>11. CASE Crash
    <2>1. UNCHANGED <<bal, pool>> /\ \A t \in OwnTx : pc'[t] \notin {"recv", "batch"} \cup Bonding
      BY <1>11 DEF Crash, Confirming, Building
    <2> QED BY <2>1, FreshUntouched DEF SerialInv
  <1> QED
    BY <1>1, <1>2, <1>3, <1>4, <1>5, <1>6, <1>7, <1>8, <1>9, <1>10, <1>11
    DEF Next, TxStep, ReaderStep

\* What the reader has checked and read stays so.
LEMMA NextReadersFresh ==
    ASSUME SerialNode, TypeOK, SerialInv, [Next]_vars
    PROVE  ReadersFresh' /\ NobodyReads'
  <1> USE DEF disk
  <1>1. CASE UNCHANGED <<bal, rd, applied>>
    BY <1>1 DEF SerialInv, ReadersFresh, NobodyReads
  <1>2. ASSUME NEW t \in OwnTx, NEW e \in BOOLEAN, ConfirmBatch(t, e)
        PROVE  ReadersFresh' /\ NobodyReads'
    <2>1. ConfirmBatch(t, FALSE)
      BY <1>2, NoFault DEF ConfirmBatch
    <2> DEFINE to == txn[t].to
    <2>2. /\ to \in Payees
          /\ bal' = [bal EXCEPT ![Self] = @ - Outlay(t), ![to] = @ + txn[t].amount]
      BY <2>1, BatchEffect
    <2>3. UNCHANGED <<rd, applied>>
      BY <2>1 DEF ConfirmBatch
    <2> HIDE DEF to
    <2>4. \A a \in Accounts \ (Payees \cup {Self}) : bal'[a] = bal[a]
      BY <2>2, LedgerAssumption DEF TypeOK
    <2>5. ASSUME NEW r \in Readers, rd[r].pc = "save"
          PROVE  /\ rd[r].tx \in Foreign
                 /\ ForeignTx[rd[r].tx].to \in Accounts \ (Payees \cup {Self})
      BY <2>5, LedgerAssumption DEF SerialInv, ReadersFresh, SerialNode, LoneReader
    <2> QED BY <2>3, <2>4, <2>5 DEF SerialInv, ReadersFresh, NobodyReads
  <1>3. ASSUME NEW r \in Readers, NEW e \in BOOLEAN, ReaderStep(r, e)
        PROVE  ReadersFresh'
    <2>1. ~ e /\ \A q \in Readers : q = r
      BY <1>3, NoFault
      DEF ReaderStep, ApplyRead, ApplySave, ApplyMark, SerialNode, LoneReader
    <2>2. CASE ApplyRead(r, e)
      <3> DEFINE x == rd[r].tx
                 more == SafeAdd(bal[ForeignTx[x].to], ForeignTx[x].amount)
      <3>1. /\ x \in Foreign /\ x \notin applied /\ rd[r].pc = "read" /\ UNCHANGED <<bal, applied>>
            /\ \/ rd' = [rd EXCEPT ![r] = IdleReader]
               \/ /\ rd' = [rd EXCEPT ![r] = [pc |-> "save", tx |-> x, val |-> more.val]]
                  /\ more.err = "nil"
        BY <2>1, <2>2 DEF ApplyRead, BalanceOrZero, Payload, SerialInv, ReadersFresh
      <3>2. more.err = "nil" => more.val = bal[ForeignTx[x].to] + ForeignTx[x].amount
        BY <3>1, SafeAddExact, LedgerAssumption DEF TypeOK
      <3> HIDE DEF x, more
      <3>3. CASE rd' = [rd EXCEPT ![r] = IdleReader]
        BY <2>1, <3>3 DEF ReadersFresh, IdleReader, TypeOK
      <3>4. CASE rd' # [rd EXCEPT ![r] = IdleReader]
        <4>1. /\ rd'[r] = [pc |-> "save", tx |-> x, val |-> more.val]
          BY <3>1, <3>4 DEF TypeOK
        <4> QED BY <2>1, <3>1, <3>2, <3>4, <4>1 DEF ReadersFresh
      <3> QED BY <3>3, <3>4
    <2>3. CASE ApplySave(r, e)
      <3>1. rd'[r].pc = "mark" /\ rd'[r].tx = rd[r].tx /\ rd[r].tx \in Foreign
        BY <2>1, <2>3 DEF ApplySave, SerialInv, ReadersFresh, TypeOK
      <3> QED BY <2>1, <3>1 DEF ReadersFresh
    <2>4. CASE ApplyMark(r, e)
      <3>1. rd'[r].pc = "idle"
        BY <2>1, <2>4 DEF ApplyMark, IdleReader, TypeOK
      <3> QED BY <2>1, <3>1 DEF ReadersFresh
    <2> QED BY <1>3, <2>2, <2>3, <2>4 DEF ReaderStep
  <1>4. ASSUME NEW r \in Readers, NEW x \in Tx, NEW e \in BOOLEAN, ApplyCheck(r, x, e)
        PROVE  ReadersFresh'
    <2>1. /\ ~ e /\ (\A q \in Readers : q = r) /\ x \in Foreign /\ x \notin applied
          /\ rd' = [rd EXCEPT ![r] = [pc |-> "read", tx |-> x, val |-> 0]]
          /\ UNCHANGED applied
      BY <1>4, NoFault DEF ApplyCheck, SerialNode, LoneReader, Announced, NotApplied
    <2>2. rd'[r] = [pc |-> "read", tx |-> x, val |-> 0]
      BY <2>1 DEF TypeOK
    <2> QED BY <2>1, <2>2 DEF ReadersFresh
  <1>5. ASSUME NEW r \in Readers, NEW e \in BOOLEAN,
               (\E x \in Tx : ApplyCheck(r, x, e)) \/ ReaderStep(r, e)
        PROVE  ReadersFresh' /\ NobodyReads'
    BY <1>3, <1>4, <1>5 DEF NobodyReads
  <1>6. ASSUME NEW t \in OwnTx, TxStep(t), \A e \in BOOLEAN : ~ ConfirmBatch(t, e)
        PROVE  UNCHANGED <<bal, rd, applied>>
    BY <1>6
    DEF TxStep, BuildSeq, ReadClaim, QuorumReached, QuorumFails, ConfirmSender, ConfirmRecv,
        BondRead, BondWrite
  <1>7. ASSUME NEW a \in Accounts, NEW amount \in FaucetAmounts, Faucet(a, amount) PROVE FALSE
    BY <1>7 DEF SerialNode, Faucet, TypeOK
  <1>8. CASE Crash
    BY <1>8 DEF Crash, IdleReader, SerialInv, ReadersFresh, NobodyReads
  <1>9. CASE /\ \A t \in OwnTx : ~ TxStep(t)
             /\ \A r \in Readers, e \in BOOLEAN :
                   ~ ReaderStep(r, e) /\ \A x \in Tx : ~ ApplyCheck(r, x, e)
             /\ ~ Crash
    <2>1. UNCHANGED <<bal, rd, applied>>
      BY <1>7, <1>9
      DEF Next, vars, memory, BuildTx, CallStep, SnapshotBalance, SnapshotSeq, SnapshotSave,
          AutoSnapshot
    <2> QED BY <1>1, <2>1
  <1> QED BY <1>1, <1>2, <1>5, <1>6, <1>8, <1>9

\* At the start nothing has been read.
LEMMA InitSerialInv == Init => SerialInv
  BY InitSerialChain
  DEF Init, SerialInv, Agreed, RegistersFresh, ReadersFresh, NobodyReads, IdleReader, Bonding

(* In the serial setting, what the confirming goroutine and the reader hold
   in their hands agrees with the database from the read to the write. *)
THEOREM ReadsAreFresh ==
    ASSUME SerialNode
    PROVE  Spec => []SerialInv
  <1>1. TypeOK /\ SerialInv /\ [Next]_vars => SerialInv'
    BY NextSerialChain, NextAgreed, NextRegistersFresh, NextReadersFresh
    DEF SerialInv, SerialNode
  <1> QED BY <1>1, InitSerialInv, InitTypeOK, NextTypeOK, PTL DEF Spec

----------------------------------------------------------------------------
\* What a step does to the value on the books: nothing, or it stores a bond,
\* or makes a transfer, or a credit.
InTransit == {t \in OwnTx : pc[t] \in Bonding}

Still ==
    /\ UNCHANGED <<bal, seq, recs, pool>>
    /\ Credited' = Credited /\ Confirmed' = Confirmed
    /\ \A t \in Confirmed : txn'[t] = txn[t]
    /\ MaxCrashes = 0 => InTransit' = InTransit

Pooled(t) ==
    /\ t \in InTransit
    /\ UNCHANGED <<bal, seq, recs, txn>>
    /\ Credited' = Credited /\ Confirmed' = Confirmed
    /\ pool' = IF pool + BondAmount(txn[t].amount) <= MaxAmount
               THEN pool + BondAmount(txn[t].amount) ELSE pool
    /\ InTransit' = InTransit \ {t}

Transferred(t) ==
    /\ txn[t].to \in Payees /\ txn[t].to # Self /\ txn[t].amount \in 1 .. MaxAmount
    /\ Outlay(t) = txn[t].amount + BondAmount(txn[t].amount)
    /\ Outlay(t) <= bal[Self]
    /\ bal' = [bal EXCEPT ![Self] = @ - Outlay(t), ![txn[t].to] = @ + txn[t].amount]
    /\ seq' = seq + 1 /\ recs' = [recs EXCEPT ![seq + 1] = t] /\ seq + 1 \in Seqs
    /\ UNCHANGED <<pool, txn>>
    /\ Credited' = Credited
    /\ t \notin Confirmed /\ Confirmed' = Confirmed \cup {t}
    /\ InTransit' = InTransit \cup {t}

CreditMade(x) ==
    /\ x \notin Credited /\ Credited' = Credited \cup {x}
    /\ bal' = [bal EXCEPT ![ForeignTx[x].to] = @ + ForeignTx[x].amount]
    /\ ForeignTx[x].to \in Accounts \ (Payees \cup {Self})
    /\ UNCHANGED <<seq, recs, pool, pc, txn>>

\* Most steps are still: they store nothing on the books and confirm nothing.
LEMMA StillStep ==
    ASSUME TypeOK, UNCHANGED <<bal, seq, recs, pool, applied, rd>>,
           \A t \in OwnTx :
               /\ pc'[t] \in Bonding <=> pc[t] \in Bonding
               /\ pc'[t] \in {"done", "cut"} <=> pc[t] \in {"done", "cut"}
               /\ t \in Confirmed => txn'[t] = txn[t]
    PROVE  Still
  BY DEF Still, Credited, Confirmed, InTransit

\* The goroutine of a transaction transfers, settles a bond, or prepares.
LEMMA TxStepEffect ==
    ASSUME SerialNode, TypeOK, SerialInv, NEW t \in OwnTx, TxStep(t)
    PROVE  Still \/ Pooled(t) \/ Transferred(t)
  <1> USE DEF Bonding, disk
  <1>1. ASSUME QuorumReached(t) \/ QuorumFails(t) PROVE Still
    BY <1>1, StillStep DEF QuorumReached, QuorumFails, Answered, Leave, Goto, TypeOK
  <1>2. ASSUME NEW e \in BOOLEAN, BuildSeq(t, e) PROVE Still
    <2>1. /\ pc[t] = "seq" /\ (\E where \in {"claim", "failed"} : pc' = [pc EXCEPT ![t] = where])
          /\ UNCHANGED <<bal, seq, recs, pool, applied, rd>>
          /\ \A u \in OwnTx \ {t} : txn'[u] = txn[u]
      BY <1>2 DEF BuildSeq, Goto, TypeOK
    <2>2. t \notin Confirmed
      BY <2>1 DEF Confirmed
    <2> QED BY <2>1, <2>2, StillStep DEF TypeOK
  <1>3. ASSUME NEW e \in BOOLEAN,
               ReadClaim(t, e) \/ ConfirmSender(t, e) \/ ConfirmRecv(t, e)
        PROVE  Still
    BY <1>3, StillStep DEF ReadClaim, ConfirmSender, ConfirmRecv, Leave, Goto, TypeOK
  <1>4. ASSUME NEW e \in BOOLEAN, BondRead(t, e) PROVE Still
    <2>1. ~ e
      BY <1>4, NoFault DEF BondRead
    <2> QED BY <1>4, <2>1, StillStep DEF BondRead, Goto, TypeOK
  <1>5. ASSUME NEW e \in BOOLEAN, ConfirmBatch(t, e) PROVE Transferred(t)
    <2>1. ConfirmBatch(t, FALSE)
      BY <1>5, NoFault DEF ConfirmBatch
    <2>2. UNCHANGED <<pool, txn, applied, rd>>
      BY <2>1 DEF ConfirmBatch
    <2>3. Credited' = Credited
      BY <2>2 DEF Credited
    <2>4. InTransit' = InTransit \cup {t}
      <3>1. pc' = [pc EXCEPT ![t] = "bond"]
        BY <2>1 DEF ConfirmBatch, Goto
      <3> QED BY <3>1 DEF InTransit, TypeOK
    <2>5. /\ seq' = seq + 1 /\ recs' = [recs EXCEPT ![seq + 1] = t] /\ seq + 1 \in Seqs
          /\ t \notin Confirmed /\ Confirmed' = Confirmed \cup {t}
      BY <2>1, SerialBatch DEF SerialInv
    <2>6. /\ txn[t].to \in Payees /\ txn[t].to # Self /\ txn[t].amount \in 1 .. MaxAmount
          /\ Outlay(t) = txn[t].amount + BondAmount(txn[t].amount)
          /\ Outlay(t) <= bal[Self]
          /\ bal' = [bal EXCEPT ![Self] = @ - Outlay(t), ![txn[t].to] = @ + txn[t].amount]
      BY <2>1, BatchEffect
    <2> QED BY <2>2, <2>3, <2>4, <2>5, <2>6 DEF Transferred
  <1>6. ASSUME NEW e \in BOOLEAN, BondWrite(t, e) PROVE Pooled(t)
    <2>1. ~ e
      BY <1>6, NoFault DEF BondWrite
    <2>2. /\ pc[t] = "pool" /\ pc' = [pc EXCEPT ![t] = "done"]
          /\ UNCHANGED <<bal, seq, recs, txn, applied, rd>>
          /\ pool' = IF PoolWithBond(t).err # "nil" THEN pool ELSE PoolWithBond(t).val
      BY <1>6, <2>1 DEF BondWrite, Finish, Leave, Goto
    <2>3. reg[t].pool = pool
      BY <2>2 DEF SerialInv, RegistersFresh
    <2>4. BondAmount(txn[t].amount) \in Word /\ pool \in Word
      BY ArithmeticInWord DEF TypeOK, Transactions
    <2>5. pool' = IF pool + BondAmount(txn[t].amount) <= MaxAmount
                  THEN pool + BondAmount(txn[t].amount) ELSE pool
      BY <2>2, <2>3, <2>4, SafeAddExact DEF PoolWithBond
    <2>6. t \in InTransit /\ InTransit' = InTransit \ {t}
      BY <2>2 DEF InTransit, TypeOK
    <2>7. Confirmed' = Confirmed /\ Credited' = Credited
      BY <2>2 DEF Confirmed, Credited, TypeOK
    <2> QED BY <2>2, <2>5, <2>6, <2>7 DEF Pooled
  <1> QED BY <1>1, <1>2, <1>3, <1>4, <1>5, <1>6 DEF TxStep

\* A reader credits a payment, or prepares to.
LEMMA ReaderEffect ==
    ASSUME SerialNode, TypeOK, SerialInv, NEW r \in Readers, NEW e \in BOOLEAN,
           (\E x \in Tx : ApplyCheck(r, x, e)) \/ ReaderStep(r, e)
    PROVE  Still \/ \E x \in Foreign : CreditMade(x)
  <1> USE DEF disk
  <1>1. ~ e /\ \A q \in Readers : q = r
    BY NoFault DEF ApplyCheck, ReaderStep, ApplyRead, ApplySave, ApplyMark, SerialNode, LoneReader
  <1>2. CASE ApplySave(r, e)
    <2> DEFINE x == rd[r].tx
               to == ForeignTx[x].to
    <2>1. ApplySave(r, FALSE)
      BY <1>1, <1>2
    <2>2. /\ x \in Foreign /\ x \notin applied /\ to \in Accounts \ (Payees \cup {Self})
          /\ bal' = [bal EXCEPT ![to] = @ + ForeignTx[x].amount]
          /\ rd' = [rd EXCEPT ![r].pc = "mark"]
      BY <2>1, SaveEffect
    <2>3. rd[r].pc = "save" /\ UNCHANGED <<seq, recs, pool, applied, pc, txn>>
      BY <2>1 DEF ApplySave
    <2> HIDE DEF to
    <2>4. x \notin Credited /\ Credited' = Credited \cup {x}
      BY <1>1, <2>2, <2>3 DEF Credited, TypeOK
    <2> QED BY <2>2, <2>3, <2>4 DEF CreditMade, to
  <1>3. CASE ~ ApplySave(r, e)
    <2>1. UNCHANGED <<bal, seq, recs, pool, pc, txn>>
      BY <1>3 DEF ApplyCheck, ReaderStep, ApplyRead, ApplySave, ApplyMark
    <2>2. Credited' = Credited
      <3>1. CASE ApplyMark(r, e)
        <4>1. /\ rd[r].pc = "mark" /\ applied' = applied \cup {rd[r].tx}
              /\ rd' = [rd EXCEPT ![r] = IdleReader]
          BY <1>1, <3>1 DEF ApplyMark
        <4> QED BY <1>1, <4>1 DEF Credited, TypeOK, IdleReader
      <3>2. CASE ~ ApplyMark(r, e)
        <4>1. /\ UNCHANGED applied /\ rd[r].pc \in {"idle", "read"}
              /\ \E v : rd' = [rd EXCEPT ![r] = v] /\ v.pc # "mark"
          <5>1. ASSUME NEW x \in Tx, ApplyCheck(r, x, e)
                PROVE  /\ UNCHANGED applied /\ rd[r].pc \in {"idle", "read"}
                       /\ rd' = [rd EXCEPT ![r] = [pc |-> "read", tx |-> x, val |-> 0]]
            BY <5>1 DEF ApplyCheck
          <5>2. ASSUME ApplyRead(r, e)
                PROVE  /\ UNCHANGED applied /\ rd[r].pc \in {"idle", "read"}
                       /\ \E v : rd' = [rd EXCEPT ![r] = v] /\ v.pc \in {"idle", "save"}
            <6> DEFINE v == SafeAdd(BalanceOrZero(Payload(rd[r].tx).to, e),
                                    Payload(rd[r].tx).amount).val
            <6>1. /\ UNCHANGED applied /\ rd[r].pc = "read"
                  /\ \/ rd' = [rd EXCEPT ![r] = IdleReader]
                     \/ rd' = [rd EXCEPT ![r] = [pc |-> "save", tx |-> rd[r].tx, val |-> v]]
              BY <5>2 DEF ApplyRead
            <6> HIDE DEF v
            <6>2. IdleReader.pc = "idle" /\ [pc |-> "save", tx |-> rd[r].tx, val |-> v].pc = "save"
              BY DEF IdleReader
            <6> QED BY <6>1, <6>2
          <5> QED BY <5>1, <5>2, <1>3, <3>2 DEF ReaderStep
        <4> QED BY <1>1, <4>1 DEF Credited, TypeOK
      <3> QED BY <3>1, <3>2
    <2> QED BY <2>1, <2>2 DEF Still, Confirmed, InTransit
  <1> QED BY <1>2, <1>3

\* What a step of the node does to balances, records and the pool.
LEMMA StepEffect ==
    ASSUME SerialNode, TypeOK, SerialInv, [Next]_vars
    PROVE  \/ Still
           \/ \E t \in OwnTx : Pooled(t) \/ Transferred(t)
           \/ \E x \in Foreign : CreditMade(x)
  <1> USE DEF disk
  <1>1. CASE UNCHANGED vars
    BY <1>1, StillStep DEF vars, memory
  <1>2. ASSUME NEW t \in OwnTx, NEW to \in Payees, NEW amount \in SendAmounts,
               BuildTx(t, to, amount)
        PROVE  Still
    <2>1. /\ pc[t] = "idle" /\ pc' = [pc EXCEPT ![t] = "seq"]
          /\ UNCHANGED <<bal, seq, recs, pool, applied, rd>>
          /\ \A u \in OwnTx \ {t} : txn'[u] = txn[u]
      BY <1>2 DEF BuildTx, Goto, TypeOK
    <2>2. t \notin Confirmed
      BY <2>1 DEF Confirmed, Bonding
    <2> QED BY <2>1, <2>2, StillStep DEF TypeOK, Bonding
  <1>3. ASSUME NEW a \in Accounts, NEW amount \in FaucetAmounts, Faucet(a, amount) PROVE FALSE
    BY <1>3 DEF SerialNode, Faucet, TypeOK
  <1>4. ASSUME \/ \E c \in Callers, e \in BOOLEAN : CallStep(c, e)
               \/ \E j \in jobs, e \in BOOLEAN : AutoSnapshot(j, e)
        PROVE  Still
    BY <1>4, StillStep
    DEF CallStep, SnapshotBalance, SnapshotSeq, SnapshotSave, AutoSnapshot
  <1>5. CASE Crash
    <2>1. UNCHANGED <<bal, seq, recs, pool, applied, txn>>
      BY <1>5 DEF Crash
    <2>2. Confirmed' = Confirmed
      BY <1>5 DEF Crash, Confirmed, Building, Confirming, Bonding, TypeOK
    <2>3. MaxCrashes # 0
      BY <1>5 DEF Crash, TypeOK
    <2>4. Readers = {}
      BY <2>3 DEF SerialNode, LoneReader
    <2>5. Credited' = Credited
      BY <2>1, <2>4 DEF Credited
    <2> QED BY <2>1, <2>2, <2>3, <2>5 DEF Still
  <1> QED BY <1>1, <1>2, <1>3, <1>4, <1>5, TxStepEffect, ReaderEffect DEF Next

----------------------------------------------------------------------------
\* The chain of the abstract ledger, as a sequence.
Chain == [s \in 1 .. seq |-> [tx |-> recs[s], to |-> txn[recs[s]].to,
                              amount |-> txn[recs[s]].amount]]

\* Appending, entry by entry.
LEMMA AppendByEntries ==
    ASSUME NEW S, NEW f \in Seq(S), NEW v \in S, NEW g \in Seq(S),
           Len(g) = Len(f) + 1, \A s \in 1 .. Len(f) : g[s] = f[s], g[Len(f) + 1] = v
    PROVE  g = Append(f, v)
  <1>1. /\ Append(f, v) \in Seq(S) /\ Len(Append(f, v)) = Len(f) + 1
        /\ \A s \in 1 .. Len(f) : Append(f, v)[s] = f[s]
        /\ Append(f, v)[Len(f) + 1] = v
    BY AppendProperties
  <1>2. \A s \in 1 .. (Len(f) + 1) : Append(f, v)[s] = g[s]
    BY <1>1
  <1> QED BY <1>1, <1>2

\* The empty ledger maps to the initial state of the atomic one.
LEMMA StartsAtomic == Init => Atomic!Init
  BY DEF Init, Atomic!Init, Credited, IdleReader

\* A step that moves nothing is a stutter of the atomic ledger.
LEMMA StillIsStutter ==
    ASSUME TypeOK, SerialInv, Still
    PROVE  UNCHANGED Atomic!vars
  <1>1. \A s \in 1 .. seq : recs[s] \in Confirmed
    BY DEF SerialInv, SerialChain, RecordsAreConfirmed
  <1> QED BY <1>1 DEF Still, Atomic!vars

\* A batch is a transfer of the atomic ledger.
LEMMA TransferIsAtomic ==
    ASSUME TypeOK, SerialInv, NEW t \in OwnTx, Transferred(t)
    PROVE  Atomic!Next
  <1> DEFINE Transfers == [tx : OwnTx, to : Accounts, amount : Word]
  <1>0. \A s \in 1 .. seq : recs[s] \in OwnTx
    BY DEF SerialInv, SerialChain, RecordsAreConfirmed, Confirmed
  <1>1. SUFFICES ASSUME NEW to \in Accounts, to = txn[t].to,
                        NEW amount \in Word, amount = txn[t].amount
                 PROVE  Atomic!Next
    BY DEF TypeOK, Transactions
  <1>2. \A i \in DOMAIN Chain : Chain[i].tx # t
    BY DEF Chain, Transferred, SerialInv, SerialChain, RecordsAreConfirmed
  <1>3. Chain' = Append(Chain, [tx |-> t, to |-> to, amount |-> amount])
    <2>1. seq \in Nat /\ seq' = seq + 1
      BY DEF TypeOK, Transferred
    <2>2. (\A s \in 1 .. seq : recs'[s] = recs[s]) /\ recs'[seq + 1] = t
      BY LedgerAssumption DEF TypeOK, Transferred, Seqs
    <2>3. UNCHANGED txn
      BY DEF Transferred
    <2>4. \A u \in OwnTx : txn[u].to \in Accounts /\ txn[u].amount \in Word
      BY DEF TypeOK, Transactions
    <2>5. Chain \in Seq(Transfers) /\ Len(Chain) = seq
      BY <1>0, <2>1, <2>4 DEF Chain
    <2>6. Chain' \in Seq(Transfers) /\ Len(Chain') = seq + 1
      BY <1>0, <2>1, <2>2, <2>3, <2>4 DEF Chain
    <2>7. \A s \in 1 .. seq : Chain'[s] = Chain[s]
      BY <2>1, <2>2, <2>3 DEF Chain
    <2>8. Chain'[seq + 1] = [tx |-> t, to |-> to, amount |-> amount]
      BY <1>1, <2>1, <2>2, <2>3 DEF Chain
    <2>9. [tx |-> t, to |-> to, amount |-> amount] \in Transfers
      OBVIOUS
    <2> HIDE DEF Transfers
    <2> QED BY <2>5, <2>6, <2>7, <2>8, <2>9, AppendByEntries
  <1>4. amount > 0 /\ bal[Self] >= amount + BondAmount(amount) /\ amount \in 1 .. bal[Self]
    <2>1. BondAmount(amount) \in Nat /\ amount \in 1 .. MaxAmount /\ bal[Self] \in Nat
      BY <1>1, CostExact, LedgerAssumption, AmountsAssumption DEF Transferred, TypeOK, Word
    <2> QED BY <1>1, <2>1 DEF Transferred
  <1>5. /\ bal' = [bal EXCEPT ![Self] = @ - (amount + BondAmount(amount)), ![to] = @ + amount]
        /\ UNCHANGED Credited
    BY <1>1 DEF Transferred
  <1>6. Atomic!Transfer(t, to, amount)
    BY <1>2, <1>3, <1>4, <1>5 DEF Atomic!Transfer, Chain
  <1> QED BY <1>4, <1>6 DEF Atomic!Next

\* A saved credit is a credit of the atomic ledger.
LEMMA CreditIsAtomic ==
    ASSUME NEW x \in Foreign, CreditMade(x)
    PROVE  Atomic!Next
  <1>1. Atomic!Credit(x)
    BY DEF CreditMade, Atomic!Credit
  <1>2. \E y \in Foreign : Atomic!Credit(y)
    BY <1>1
  <1> QED BY <1>2 DEF Atomic!Next

(* The ledger implements the atomic one, for a client that waits and one
   reader of payments to third accounts: the four calls of ConfirmTx, and the
   four of ApplyConfirmedTxBalance, look like one step, taken where the
   balances are written. *)
THEOREM ImplementsAtomicLedger ==
    ASSUME SerialNode
    PROVE  Spec => IsAtomicLedger
  <1>1. TypeOK /\ SerialInv /\ [Next]_vars => [Atomic!Next]_(Atomic!vars)
    <2> SUFFICES ASSUME TypeOK, SerialInv, [Next]_vars PROVE [Atomic!Next]_(Atomic!vars)
      OBVIOUS
    <2>1. CASE Still
      BY <2>1, StillIsStutter
    <2>2. ASSUME NEW t \in OwnTx, Pooled(t) PROVE Still \/ UNCHANGED Atomic!vars
      BY <2>2 DEF Pooled, Atomic!vars
    <2>3. ASSUME NEW t \in OwnTx, Transferred(t) PROVE Atomic!Next
      BY <2>3, TransferIsAtomic
    <2>4. ASSUME NEW x \in Foreign, CreditMade(x) PROVE Atomic!Next
      BY <2>4, CreditIsAtomic
    <2> QED BY <2>1, <2>2, <2>3, <2>4, StepEffect, StillIsStutter
  <1> QED
    BY <1>1, StartsAtomic, ReadsAreFresh, TypeCorrect, PTL
    DEF Spec, IsAtomicLedger, Atomic!Spec
=============================================================================
