# A verification of the CDML node

TLA+ modules for the ledger and the confirmation protocol of CDML, the TLC
configurations that check them on small instances, and proofs for TLAPS. The
reference is the Go code; `PROJECT.json` maps every definition to the lines it
stands for.

    tlc -workers 2 -config LedgerInterleaved.cfg MCLedger
    tlapm LedgerProofs.tla

## 1. The system

A CDML node keeps the balances of the keys it knows and the chain of its own
transactions. It sends a transaction by asking a set of *witnesses* (other
nodes) to sign it; `quorumK` signatures confirm it. There is no global state:
each node credits what it hears to have been confirmed.

| Component | State | Operations | Talks to |
|---|---|---|---|
| Amounts (`core/amount.go`) | none | `SafeAdd`, `SafeSub`, `ValidateAmount`, `BondAmount` | used by all below |
| Chain store (`storage/chain.go`) | balances, latest sequence number, records, reward pool, applied marks, in badger | one database call each; `ConfirmTxBatch` writes four keys in one badger transaction | key-value store |
| Snapshot store (`storage/snapshot.go`) | the latest snapshot of each key, in badger | `SaveSnapshot` | key-value store |
| Transaction processor (`protocol/transaction.go`) | none of its own | `BuildTx`, `verifyTxInternal`, `ConfirmTx`, `ApplyConfirmedTxBalance`, `autoSnapshot` | chain store, DAG, snapshots |
| DAG manager (`protocol/dag.go`) | edges, in memory | `AddEdge`, `AdvanceTip`, `CurrentTips`, `Depth` | called by the processor |
| Confirmation protocol (`node/node.go`) | `pendingTx` with the signatures of each, in memory | `SendTx`, `handleNonceLock`, `handleTxVerify`, `handleWitnessSig`, `handleTxConfirmed`, `confirmTx` | gossip, processor, quorum |
| Gossip (`network/gossip.go`) | message id -> how often it has passed | `ShouldForward`, `SelectPeers` | every packet handler |
| Nonce locks (`storage/snapshot.go`) | nonces with an expiry, in badger | `Lock`, `IsLocked`, (`Unlock`, never reached) | handlers |
| Quorum (`crypto/sign.go`) | none | `VerifyQuorum`, `countValidSigs` | `confirmTx` |
| Peers (`network/packet.go`, `node/node.go`) | send channel, state, the table of peers | `Send`, `Close`, `StartWritePump`, `readLoop`, `addPeer`, `removePeer`, `Stop` | TCP |
| Witness store (`storage/snapshot.go`) | the registered witnesses, in badger | `SaveActiveWitnesses`, `GetActiveSet` | API, handlers |
| REST API (`api`) | none | `POST /v1/tx`, faucet, snapshots, witnesses, queries | all of the above |
| Start-up, key file, handshake (`node`, `cmd`) | key pair on disk | `New`, `Start`, `acceptLoop`, `connectToSeed` | peers |
| Hashes and keys (`crypto`) | none | hashing, signing | - |
| Scripts (`scripts`) | none | HTTP clients, file generation | API |

Who runs concurrently: one reader goroutine and one write pump per connection,
one goroutine per API call, one `confirmTx` goroutine per transaction that has
its signatures, one `autoSnapshot` goroutine per thousandth transaction
(`snapshotInterval`). They share
the database and the maps of the node. A single database call is atomic;
nothing makes a read and the write that depends on it atomic.

What is hard about it, and so what the properties are about:

* **Read, then write.** `ConfirmTx` reads two balances, and later writes both
  back; so do the credit of a foreign payment and the bond. Sequence numbers
  are read when a transaction is built and stored when it is confirmed.
* **Failure and crash** between the batch, the bond and the announcement, or
  between a credit and its mark; errors that are discarded: a node that could
  not store a nonce lock relays the packet, one that could not read it signs.
* **Flooding.** A node relays a message to all its peers, the one it came from
  included; what ends this is a budget of six passes per message id, and the
  three packets of one transaction share one id.
* **Order.** `NonceLock` has to arrive before `TxVerify`, or the signatures do
  not count. A full send channel drops packets, a lock expires after 15 s.
* **Counting.** Readers append signatures concurrently, and exactly one of them
  has to start `confirmTx`; the count is of signatures, the quorum of witnesses.
* **Peers.** Three goroutines may close one peer. `Close` runs `removePeer`,
  which takes the lock some callers hold, and deletes by key, though two nodes
  that dial each other have two connections with one key; `Send` checks the
  state and sends outside the lock.
* **Stale knowledge.** A witness judges a sender by a snapshot and by what it has
  itself credited to the sender; the active set is read when a witness signs and
  again when the origin counts; a restart forgets the transactions in flight
  but not their locks and signatures.

What makes each part correct: the chain of a node has no holes and its records
never change; a confirmed transaction was covered by the account; every account
is exact and value is conserved; a dropped transaction left no record; a
snapshot is a state of the chain; no confirmation without a quorum of witnesses
that held the lock; at most one confirmation; no credit without a confirmation;
floods end; the witnesses' word stands for a covered balance; a forgotten
transaction stays forgotten; no channel is closed twice, closed peers leave the
table, live ones are in it, and nobody waits for ever.

## 2. The modules

| Module | What it models |
|---|---|
| `Amounts` | the arithmetic of `core/amount.go` on unsigned words |
| `Dag` | `dag.go` as functions on a set of edges |
| `Ledger` | the database of one node and every goroutine that uses it |
| `LedgerAbs` | what the ledger promises: transfers in one step |
| `TxFlow` | the confirmation protocol between nodes, with gossip and send queues |
| `PeerTable` | the connections of one node, their goroutines, and the lock of the peer table |
| `MCLedger`, `MCTxFlow`, `MCPeerTable` | constants for TLC |
| `AmountsProofs`, `LedgerProofs`, `TxFlowProofs`, `PeerTableProofs` | theorems about each of these |
| `SumsProofs` | lemmas on sums over finite sets |
| `LedgerSerialProofs` | a client that waits: its chain, and the refinement of `LedgerAbs` |
| `LedgerValueProofs` | the reward pool, the balances, the value of the whole, the snapshots |
| `TxFlowOrderProofs` | the order of `NonceLock` and `TxVerify`, and how much a flood can queue |

### Ledger

The variables are the database (`bal`, `seq`, `recs`, `pool`, `applied`,
`snap`: survive a crash) and memory (`pc`, `txn`, `reg`: the goroutine of each
own transaction, its transaction and what it has read; `dag`; `rd`: readers in
`ApplyConfirmedTxBalance`; `calls`: `CreateSnapshot` calls; `jobs`:
`autoSnapshot` goroutines).

Each action is the code from one database call to just before the next:

| Code | Actions |
|---|---|
| `BuildTx` | `BuildTx` (balance), `BuildSeq` (sequence number, parents) |
| `SendTx` | `ReadClaim`: the second read of the balance, which goes into the snapshot |
| `verifyTxInternal` at the witnesses | `Accepts`, a condition of the next two |
| `handleWitnessSig`, `confirmTx` before `ConfirmTx` | `QuorumReached`, `QuorumFails` |
| `ConfirmTx` | `ConfirmSender`, `ConfirmRecv` (with `AdvanceTip`), `ConfirmBatch`, then `AccumulateBond`: `BondRead`, `BondWrite` |
| `ApplyConfirmedTxBalance` | `ApplyCheck`, `ApplyRead`, `ApplySave`, `ApplyMark` |
| `Handler.Faucet` | `Faucet` |
| `Handler.CreateSnapshot` | `SnapshotBalance`, `SnapshotSeq`, `SnapshotSave` |
| `autoSnapshot` | `AutoSnapshot` |
| restart | `Crash` |

The argument `e` of an action says that its database call fails; the code's
treatment of the error (return, ignore, read as zero) is what the action does
then. Two writes of `ConfirmTxBatch` to the same key (sender = receiver) happen
in the order of the code. The witnesses are other nodes; whether the quorum comes
is a free choice among what their `verifyTxInternal` allows (`Accepts`). That
decision depends on the claim in the snapshot and on the balance the witness
has stored for the sender. The only thing that stores one there is the credit
of a payment to the sender, so a witness has seen some subset of these
(`Views`). A faucet call at a witness is left out. The sequence number is checked only
against one the witness has stored itself, and it stores none of another node.
An origin that is registered as a witness of its own (the local network registers
every node) would check its own number and balance as well, and may refuse
where `Accepts` accepts; `Accepts` leaves that out, and the quorum may fail at
any time anyhow (`QuorumFails`).

`LedgerAbs` has a balance for each account, a chain and the foreign payments
credited. A transfer checks the balance, moves the amount, takes the bond and
extends the chain in one step. `Ledger` maps to it with the stored balances
and the stored records.

### TxFlow

`links[<<n, p>>]` is the queue from n to p: the send channel, the socket and
the receive buffer as one FIFO of bounded length. A packet for a full queue is
dropped, as `Peer.Send` does. A connection may break, which loses both queues,
and be dialled again. A node may restart (`Restart`): its connections, its gossip
table, its readers, `pendingTx` and its `confirmTx` goroutines are gone, its
locks, marks, witnesses and confirmed transactions are in the database.
`RegisterWitnesses` may replace the active set of any node at any time
(`Register`). `hops` is the table of the gossip layer, `locked` the nonce locks,
`pending`, `sigs`, `closed` the `pendingMeta` of each transaction at its origin,
`rd` a reader inside `handleWitnessSig`, `jobs` the `confirmTx` goroutines.

The gate of the gossip layer is one action (`Gate`) and the handler behind it
another, so two readers of one node may pass the gate in one order and handle
their packets in the other. `handleWitnessSig` is three actions, because the
look-up in `pendingTx`, the append under `sigMu` and the deletion from
`pendingTx` are three critical sections; `confirmTx` is three more. A broadcast
is one step: the order in which one node fills several queues cannot be seen at
their other ends. Signatures cannot be forged, and what `verifyTxInternal` accepts is the
constant `Accepts` here.

A database call of a handler may fail (`Faulting`, at most `MaxFaults` times). A
witness that cannot store a lock relays the packet all the same, one that cannot
read it signs without it, and a node that cannot credit relays `TxConfirmed`:
the code discards these three errors. A failing read of the active set ends the
handler, or drops the transaction in `confirmTx`. `signed` and `trusted` are history variables: the signatures made, and the
active sets that `confirmTx` has read. Nonces are random words and never collide, so a lock is
named by its transaction.

### PeerTable

A connection is used once; dialling again takes another one with the same key.
Each has a reader (the goroutine of `handleInbound` or `connectToSeed`, then
`readLoop`) and a write pump; there are API calls and `confirmTx` goroutines
(`Callers`), and `Stop`. `pc` says where each is. A step is the code between two
operations on a lock, a channel or a connection:

| Code | Actions |
|---|---|
| handshake, `NewPeer` | `Connect` |
| `addPeer` | `AddLock`, `AddPeer` |
| `readLoop`, `handlePacket` | `ReadFails`, `Handle` |
| `StartWritePump` | `PumpWrite` |
| `broadcast`, `sendToOriginator`, `PeerList`, `PeerCount` | `LookUp`, `Query` |
| writes of `pendingTx` | `UpdateLock`, `Update` |
| `Peer.Send` | `SendCheck` (the state, under `p.mu`), `SendPut` (the channel) |
| `Peer.Close` | `ClosePeer`, then `removePeer`: `RemoveLock`, `RemovePeer` |
| `Stop` | `Stop`, `StopRLock`, `StopClose`, `StopDone` |

`n.mu` is the variables `writer` and `shared`. As in Go, a waiting `Lock` shuts
out later calls of `RLock` and then waits for those that hold it; a read lock
that is released within the step that took it does not appear. `p.mu` is held
only within a step. What a packet says is left out: a handler looks peers up and
sends, or writes `pendingTx`, or answers a ping.

## 3. Runs

Times are with two workers. Every run allows a stuttering end
(`CHECK_DEADLOCK FALSE`): the clients stop sending when all transactions are
used and the network is then quiet; in `PeerTable` the process may end.

| Run | Question | Bounds |
|---|---|---|
| `LedgerInterleaved` (80 s) | `TypeOK`, `NoGaps`, `BondsBacked`, `DroppedIsUnrecorded`, `QuorumCovered` under every interleaving | three transactions, two in flight, one foreign payment, one faucet call, one failing call, one crash |
| `LedgerOwnAccount` (49 s) | `SenderExact`, `ConfirmedOnRecord`, `RecordsImmutable`, `BondsCollected`, `SnapshotLags` for a client that waits for each transaction, whatever fails | two transactions, a reader that credits a third account and, again, the receivers of the node's own transactions, one `CreateSnapshot` caller, one failing call, one crash |
| `LedgerValue` (20 s) | `IsAtomicLedger`, `ReceiversExact`, `Conservation`, `SnapshotMatchesChain` for such a client, while payments come in | three transactions, a snapshot after each, two payments to a third account, announced any number of times to one reader |
| `FlowOrdered` (48 s) | `LockPrecedesVerify`, `QuorumSafety`, `QueuesHaveRoom`, `ConfirmedOnce` | full mesh of three, a quorum of one of two witnesses, queues of eight packets (seven are reached), one failing call, no break, restart or expiry |
| `FlowEnds` (94 s) | `TypeOK`, `QuorumSafety`, `CreditImpliesConfirmed`, `LostStaysLost`, `FloodEnds` | a star, two witnesses, queues of two packets, a budget of two passes, one lock expires, one event out of: a connection breaks, a node restarts, a set of witnesses is registered |
| `PeersServe` (18 s) | `TypeOK`, `ClosedOnce`, `DeadPeersLeave`, `LiveIsListed`, `LockServed`, `EndTogether` | three connections, two with one key, a table of two, a queue of one, one caller, two events (packets, calls, failing connections, `Stop`) |

Why the bounds are enough to be interesting. Two transactions in flight are
what a lost update needs; the third starts from the state they leave. Amounts
are words below 32 with `MaxAmount` 15: the faucet fills the account to the
maximum, so that a credit overflows it, and an amount of 12 overflows with its
bond; in `LedgerInterleaved` the account pays for one transaction, and a second
and a third need the faucet or a lost update, and fail otherwise.
`SnapshotInterval` is 2 instead of 1000, so automatic snapshots happen, and 1
in `LedgerValue`, so that several goroutines hold one and the older may be
stored last. In `TxFlow` the budget
of passes is 2 instead of 6, which the flood still exhausts (the runs that
refute a property use 6, and queues of 64). A quorum of one lets a second
signature arrive while the first is being handled. In `PeerTable` a table of two
is full for the third connection, two connections with one key replace each
other, and two events let a reader, a pump and `Stop` close the same peer while
a caller waits for the lock.

Why `LedgerOwnAccount` and `LedgerValue` restrict the client: with two own
transactions in flight, or with a payment to the node credited while it
confirms, their properties do not hold of this code, as shown below. The two say
what the ledger gives a client that sends one transaction at a time: the node's
own account has one writer and each other account one reader or `ConfirmTx`,
and what is left to go wrong is failures, crashes and the order of the calls.
They ask different things: `LedgerOwnAccount` what survives a failing call, a
crash, a repeated credit and a call of `CreateSnapshot`; `LedgerValue` what else is
exact without these. An automatic snapshot may be stored over that of a
caller, or the other way round, and a caller reads at two times: `SnapshotLags`
says what is left, `SnapshotMatchesChain` what holds without a caller.
`SpentWithinFunds` needs the same restriction: one
transaction in flight is not enough. If a payment to the node is credited between
the two reads of a balance and a batch, the credit may put back what the batch
has deducted, and the next transaction spends it again.

The symmetry of `OwnTx` is used in `LedgerInterleaved` and `LedgerOwnAccount`, where
only invariants and a property of single steps are checked, and no definition
tells one own transaction from another.

Fairness. `FloodEnds` assumes weak fairness of each reader, of the second
broadcast of `SendTx` and of the `confirmTx` goroutines: a goroutine that can
run is eventually run by the Go scheduler. Nothing is assumed of clients, of
breaking or re-established connections, of restarts, or of expiring locks.
`LockServed` and `EndTogether` assume only that some goroutine that can run
does. The work in `PeerTable` is bounded, so every behaviour then comes to a
state in which no goroutine can run, and the two properties are about these
final states. A write to a connection always ends, because it has a deadline.

### Where the code departs from what it says

Each of these is a run that TLC ends with a counterexample.

* `LedgerDoubleSpend`: with two transactions in flight, both deduct from the
  same balance; together they spend more than the account held
  (`SpentWithinFunds`).
* `LedgerLostCredit`: with one transaction in flight, a payment to the node that
  is credited between the read of the balance in `ConfirmTx` and the batch is
  overwritten (`SenderExact`).
* `LedgerEchoCredit`: `ConfirmTx` does not mark its transaction as applied, so
  the node's own `TxConfirmed`, gossiped back to it, credits the receiver a
  second time in its books (`ReceiversExact`).
* `FlowUncredited`: copies of `NonceLock` and `TxVerify` that bounce between
  two nodes use up the budget of `TxConfirmed`; the transaction is confirmed
  and never credited (`ConfirmationReachesAll`).
* `FlowDuplicateSigs`: the count of signatures that ends the collection
  includes a second answer of one witness, the quorum does not; the transaction
  is dropped although the other witness would have signed
  (`CollectedIsQuorum`).
* `PeersSend`: a broadcast has checked the state of a peer, the peer is closed
  with its channel, and the send panics (`SendSurvives`).

Others follow by changing a constant or a property of these configurations:

* Sequence numbers: `LedgerOwnAccount` with `MaxInFlight = 2` breaks
  `ConfirmedOnRecord` and `RecordsImmutable`. Two transactions built before
  either is confirmed share a number; both are confirmed, and the record of the
  first is gone.
* Bonds: the same configuration breaks `BondsCollected`, also without a crash or
  a failing call. Two `confirmTx` goroutines read the same pool, and one of the two
  bonds never reaches it.
* Snapshots: `LedgerValue` with `Callers = {c1}` breaks `SnapshotMatchesChain`.
  `CreateSnapshot` reads the balance before a batch and the number after it.
* Credits: `LedgerValue` with `Readers = {r1, r2}` breaks `ReceiversExact`. Two
  readers pass the duplicate check with the same `TxConfirmed` before either
  has set the mark.
* `LedgerValue` with `MaxCrashes = 1` breaks `Conservation` (a crash between the
  batch and the bond) and `ReceiversExact` (a crash between a credit and its
  mark), and so does a failing call at these places; `Payees = {a}` breaks
  `Conservation`: when a node pays itself, the write of the receiver's balance
  replaces that of the sender's.
* Overspending with one transaction in flight: `LedgerLostCredit` with
  `OwnTx = {t1, t2}` breaks `SpentWithinFunds`.
* Witnesses: `LedgerLostCredit` with `CoveredIsAccepted` as its property. A
  witness that has credited one small payment to the sender takes it for all
  the sender owns, and refuses what the account covers.
* The DAG: dag.go:67 says that `AdvanceTip` updates the tips when a transaction is
  confirmed, and src/README.md (lines 26, 32, 58) that the ledger is based on a DAG
  and scales by it. No confirmed transaction ever is a tip, has a parent or
  adds an edge: the ledger is a chain of records, not a graph. This needs no run,
  because it is so in every behaviour (`DagStaysEmpty`).
* `PeersServe` with `StopReturns` as its property: `Stop` holds the read lock
  while `Close` calls `removePeer`, which waits for the write lock; the node
  hangs on shutdown and never closes its database. In the same way a connection
  that finds the table full (`addPeer`) stops its whole node. `LockServed` names
  these two as the only waits without end (`SelfLocked`).
* `LiveIsListed` has an exception, too: when two nodes have dialled each other,
  the end of one connection removes the entry of the other one, which stays
  open but is no longer sent to.
* A restart between `ConfirmTx` and the broadcast leaves a confirmed transaction
  that no other node ever credits.

## 4. Proofs

`AmountsProofs`: `SafeAdd` and `SafeSub` are exact, that is, they succeed
exactly when the exact result is a legal amount, for every word size at least
twice the maximal amount (`AmountsAssumption`); results are words.

`LedgerProofs`, for every value of the constants that meets `LedgerAssumption`
and `AmountsAssumption`:

* `TypeCorrect`: `Spec => []TypeOK`. `TypeOK` is inductive; the proof has a
  step per action and uses the lemmas about amounts.
* `ChainHasNoGaps`: `Spec => []NoGaps`. `NoGaps` with `TypeOK` is inductive: its
  third part, which relates the number of each transaction in flight to the
  records, is what carries the other two through `ConfirmBatch`.
* `DroppedStaysUnrecorded`: `Spec => []DroppedIsUnrecorded`. Follows from
  `RecordedIsConfirmed` (whatever is on record has passed its batch), which is
  inductive with `TypeOK` and `NoGaps`: the batch is the only way onto the
  record, and no action drops a transaction after it.
* `SignedIsCovered`: `Spec => []QuorumCovered`. The invariant joins two checks:
  that of `BuildTx`, after which the sum of amount and bond did not overflow,
  stays true of a transaction because its amount never changes; and that of a
  witness, whose effective balance is at most the claim. The check of the
  witness alone would let an overflowing sum pass as 0.
* `DagStaysEmpty`: the graph never gets an edge, and every transaction is built
  without parents. `CurrentTips` lists the ends of edges, and edges are made
  only to parents, which come from `CurrentTips`. So `AdvanceTip` never changes
  anything, nor refuses. This is no promise of the code: it is the reason why what
  dag.go:67 promises of `AdvanceTip` happens at no confirmation (section 3).

`LedgerSerialProofs`, for a client that waits for each transaction
(`OneAtATime`: `MaxInFlight = 1`):

* `ChainIsSerial`: `Spec => []SerialChain`. The records are exactly the
  confirmed transactions, each under a number of its own, and the transaction in
  flight has the number after the last one. Failures, crashes, the faucet and
  concurrent credits are all allowed.
* `RecordsNeverChange`: `Spec => RecordsImmutable`, from `SerialChain`: the batch
  is the only step that writes a record, and its number is free.
* `ConfirmedStaysOnRecord`: `Spec => []ConfirmedOnRecord`, from `SerialChain`.
* `ReadsAreFresh`: `Spec => []SerialInv`. `SerialInv` adds to `SerialChain` that
  what the confirming goroutine and the reader have read from the database is
  still what is stored when they write it back. It assumes `SerialNode`:
  the client waits and pays others (`Self \notin Payees`), no database call
  fails, the faucet is not used, and either no peer announces a payment
  or one reader credits payments to third accounts in a process that stays up.
  None can be dropped: `LedgerDoubleSpend`, `LedgerLostCredit`,
  `LedgerEchoCredit` and the constants named in section 3 show what happens
  without one. `LedgerValue` checks the alternative with a reader; the one with
  crashes and without a reader is only proved.
* `ImplementsAtomicLedger`: `SerialNode` and `Spec` imply `IsAtomicLedger`. Every
  step either leaves balances and records alone, or puts a bond into the pool,
  or is a whole transfer, or a whole credit (`StepEffect`); the first two are
  stutters of `LedgerAbs`, the others its `Transfer` and `Credit`.

`SumsProofs`: how a sum over a finite set changes with the set and with the
function. `SumFunctionOnSet` is a fold, that is, a recursive function on subsets;
each lemma looks at a smallest subset for which it fails. That works where an
induction theorem with an operator parameter does not.

`LedgerValueProofs`:

* `PoolNeverExceedsBonds`: `Spec => []BondsBacked`, under every interleaving,
  failure and crash. `BondsBacked` says nothing of the values that
  `AccumulateBond` has read and not yet written; `PoolBacked` does, and compares
  both with the bonds of the transactions that have *ended*: one that has read
  the pool has not, so its own bond is still to be added. Lost updates make the
  pool smaller, never larger.
* `BooksKept`, from which `ReceiverAccountsExact` follows: under `SerialNode`,
  each account is its initial balance and the payments it was sent, less the
  outlays of the confirmed transactions of its owner. Crashes are allowed if no
  peer announces a payment.
* `SenderAccountExact` and `NoDoubleSpending` (`Spent <= InitBal[Self]`) ask for
  less: that `ConfirmTx` is the only writer of the node's account, one at a time
  (`SoleWriter`: `OneAtATime`, no faucet call, no payment to the node by itself or
  by others). Calls may fail, the process may crash, any number of readers
  may credit and announcements may repeat. The invariant (`AccountKept`) joins what
  the account holds to what the confirmed transactions cost, and says of a
  goroutine past its first read that its result is still the account less its
  outlay; readers only ever hold announced payments, none of which is to the node
  (`EchoesDone`). A client that waits but is credited meanwhile is not covered,
  and may overspend (section 3).
* `ValueIsConserved`: `[]Conservation` under `SerialNode`, without crashes (one
  between the batch and the bond loses the bond) and with a supply that fits
  (`SupplyFits`: balances and announced payments add up to at most `MaxAmount`,
  or a bond is refused for lack of room in the pool). `LedgerValue` meets both.
* `SnapshotIsChainState`: `[]SnapshotMatchesChain` under `SerialNode` without
  `CreateSnapshot` calls, which read the balance and the number at different
  times. `SnapsTrue` covers the goroutines that have yet to store their snapshot.

`TxFlowProofs`, for any finite set of nodes, any registrations of witnesses, transactions, quorum,
budget and length of queues (`FlowAssumption`):

* `FlowTypeCorrect`: `Spec => []TypeOK`. `TypeOK` is inductive.
* `ConfirmedByQuorum`: `Spec => []QuorumSafety`. A confirmation is decided on
  signatures that were made long before, at other nodes, and have since passed
  through queues, readers and `pendingMeta`. The inductive invariant therefore
  follows them all the way: `SignaturesMade` says that every signature in any of
  these places was made by its witness, with what the witness then knew of the
  lock; `QuorumBacked` says that a `confirmTx` goroutine that got past
  `VerifyQuorum` has its quorum among them, in the set it read. A signature once
  made stays made (`SignedGrows`), a set once read stays read (`TrustGrows`), and
  removing or copying a packet makes none.
* `AtMostOneConfirmation`: `Spec => []ConfirmedOnce`. Inductive with
  `OneAttempt`: a reader that is to delete the entry, a `confirmTx` goroutine and
  a confirmation exclude each other, and each implies that the entry is closed.
* `CreditsAreConfirmed`: `Spec => []CreditImpliesConfirmed`. A credit is made of
  a packet that any node may have relayed. `AnnouncementsTrue` follows the
  confirmation through `confirmTx` goroutines, queues and readers; it is
  inductive because confirmations are never taken back (`DoneGrows`).
* `LostForGood`: `Spec => []LostStaysLost`. A transaction that was forgotten has
  neither an entry, nor a reader about to remove it, nor a `confirmTx`
  goroutine, and only an entry leads to any of these.

`TxFlowOrderProofs`:

* `LockAlwaysFirst`: `Spec /\ []QueuesHaveRoom => []LockPrecedesVerify`, if
  connections and nodes stay up and a node gossips to all its peers
  (`Undisturbed`). A queue that drops the `NonceLock` and takes the `TxVerify`, a
  break between the two, and a sample of peers that differs for the two each
  undo the order. Nothing is assumed of the database and of the clock:
  `handleNonceLock` discards the error of `Lock`, `IsLocked` reads an error as "not
  locked", and a lock may expire before the `TxVerify` comes. Each of these costs
  the word of the witness it happens to, and of no other, because a node that
  does not hold the lock has relayed the packet all the same.
  `LockPrecedesVerify` counts them: at most `faults + expiries` witnesses sign
  without the lock. The invariant `OrderInv` follows not the lock but the
  packet: some nodes have been told of the lock (`Told`), and of these at most
  `faults + expiries` do not hold it or have signed without it (`FewLack`). A node
  that was told has sent the lock to each peer
  (`LocksSpread`), a `TxVerify` in a queue has the lock ahead of it
  (`VerifyBehindLock`), and the handler of a `TxVerify` runs at a node that was told
  (`VerifierTold`). "Ahead" ends in one of three ways (`PastQueue`): a reader is
  about to handle the lock, it has been handled, or the budget of the message id
  is used up, and then the `TxVerify`, which has the same id, does not pass
  either. That is why no bound on the budget is needed.
* `FloodFits`: `Spec => []QueuesHaveRoom`, while connections and nodes stay up
  (`Steady`) and `FloodBound` is below the capacity of a queue. The invariant is
  a balance (`PaidFor`): what node n has in its queue to any peer, and what its
  readers have let through the gate and not sent yet (`Owes`), is at most three
  for each transaction it has started, two for each passage of a
  transaction's id through its gate (a `TxVerify` leaves a signature and a
  relay) and one for each passage of a signature's. The gate is passed by
  one step and the packets are sent by another, and several readers of one node
  may be between the two; so the debt is a sum over readers. That
  `TxConfirmed` is broadcast once per transaction rests on `OneAttempt`
  (`AnnouncedOnce`). The bound is 3T + 2hT + hTN for T transactions, h hops and
  N nodes. With the six hops and the 64 places of the code a transaction fits
  in a network of eight nodes. The proof counts all that is ever sent and
  nothing that is received, so it is about bursts; the run shows that
  queues of eight suffice where the bound is 13.
* `LockFirstInBoundedFlood`: `Spec => []LockPrecedesVerify`, from the two, with
  conditions on constants only (`Undisturbed` and the bound), and again for any
  number of failing calls and expiring locks.

`PeerTableProofs`, for any number of connections, keys and callers, any length of
the queues and any size of the table (`PeerAssumption`, `NobodyAssumption`):

* `PeersTypeCorrect`: `Spec => []TypeOK`. Inductive once a thread inside `Send`,
  `Close` or `removePeer` is known to have a peer (`AtConn`).
* `NeverClosedTwice`, `ClosedPeersLeave`, `LivePeersListed`: `Spec => []ClosedOnce`,
  `[]DeadPeersLeave`, `[]LiveIsListed`, from one invariant, `TableInv`. It adds that
  a connection that has not been through `addPeer` is unknown to every thread
  (`UnstartedIsUnknown`): were it closed before, `addPeer` would file a dead peer
  for ever. It adds that a closed channel is that of a closed peer, that who is on the way
  into `removePeer` has closed its peer, and that a peer is filed under its key.
  The lock is not needed: each of the three holds because the check of the
  state and the callback are in the same `Close`.

Only model-checked: liveness (`FloodEnds`, `LockServed`, `EndTogether`) and
whatever else needs fairness or `ENABLED`, which is out of the prover's reach;
and the counterexamples above; and `BondsCollected` and `SnapshotLags`.

## 5. Not modelled

Hashing, keys and signatures (values that differ when their contents differ);
HTTP decoding and routing, and the queries that only read; badger itself (a call
is atomic and durable, or fails); the framing of packets and the handshake, which
is one step; the key file and the configuration; the scripts, which are HTTP
clients and write files; the clean-up of gossip entries after ten minutes, when
no packet of the transaction is left; `Depth`, the cycle search at its depth
limit and the expiry of snapshots after six hours, which nothing reaches (the
graph is empty, a transaction takes seconds). `SaveLatestSeq`, `SaveTx`,
`GetLatest`, `SetBatch`, `HasPrefix`, `ScanPrefix` and `ReleaseNonceLock` have no
caller. That an entry of `pendingTx` without enough signatures stays for ever is
true of `TxFlow`, and no property: the code promises nothing else.

## 6. Plan

In this order:

1. `BondsCollected` and `SnapshotLags` as theorems, next to `BondsBacked` and
   `SnapshotIsChainState`.
2. Mutual exclusion of `n.mu` in `PeerTable` as a theorem: who is inside holds
   the lock.
3. Larger instances: a line of nodes whose witnesses are two hops away, two
   origins.
4. A bound on queues that counts what has been received, for any number of
   transactions one after the other.
