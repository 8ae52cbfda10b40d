------------------------------- MODULE TxFlow ------------------------------
(***************************************************************************)
(* The confirmation protocol between nodes (node/node.go), over the gossip *)
(* layer (internal/network/gossip.go) and the send queues of the peers     *)
(* (internal/network/packet.go).                                           *)
(*                                                                         *)
(* The origin of a transaction gossips a NonceLock and then a TxVerify;    *)
(* active witnesses that accept it answer with a signature that says       *)
(* whether they hold the lock; the origin confirms when it has collected   *)
(* quorumK signatures and gossips TxConfirmed, upon which every node       *)
(* credits the receiver.                                                   *)
(*                                                                         *)
(* One reader goroutine per connection handles packets in order; readers   *)
(* of one node run concurrently.  The gate of the gossip layer is one      *)
(* step, the handler behind it another; handleWitnessSig takes a step for  *)
(* each of its critical sections.  What ConfirmTx does with balances is    *)
(* the subject of Ledger.                                                  *)
(***************************************************************************)
EXTENDS Integers, Sequences, FiniteSets, FiniteSetsExt, SequencesExt

CONSTANTS
    Nodes,
    Connections,   \* the connections: two-element sets of nodes
    Tx,            \* transactions (by hash)
    Origin,        \* the node that sends each transaction
    InitWitnesses, \* the active witness set each node has registered before
    WitnessSets,   \* the sets that its API clients register
    Accepts,       \* the transactions verifyTxInternal accepts at each node
    QuorumK,       \* quorumK
    GossipHops,    \* gossipHops
    GossipFanout,  \* gossipFanout
    LinkCap,       \* packets a connection holds, the send channel included
    MaxExpiries,   \* bound: nonce locks that expire
    MaxBreaks,     \* bound: connections that break, nodes that restart, sets registered
    MaxFaults      \* bound: handlers with a failing database call

ASSUME FlowAssumption ==
    /\ IsFiniteSet(Nodes)
    /\ \A c \in Connections : \E n, p \in Nodes : n # p /\ c = {n, p}
    /\ Origin \in [Tx -> Nodes]
    /\ InitWitnesses \in [Nodes -> SUBSET Nodes]
    /\ WitnessSets \subseteq SUBSET Nodes
    /\ Accepts \in [Nodes -> SUBSET Tx]
    /\ QuorumK \in Nat \ {0}
    /\ GossipHops \in Nat \ {0}
    /\ GossipFanout \in Nat \ {0}
    /\ LinkCap \in Nat \ {0}
    /\ MaxExpiries \in Nat
    /\ MaxBreaks \in Nat
    /\ MaxFaults \in Nat

VARIABLES
    links,     \* the packets on the way from one node to another
    up,        \* the connections that are established
    hops,      \* Gossip.seen: how often each node has let a message id pass
    locked,    \* the nonce locks each node holds
    witnesses, \* the active witness set each node has stored
    sending,   \* how far SendTx has come
    pending,   \* the transactions in pendingTx of their origin
    sigs,      \* pendingMeta.sigs
    closed,    \* pendingMeta.confirmed
    rd,        \* the readers inside a handler, by node and peer
    jobs,      \* the confirmTx goroutines
    commits,   \* how often ConfirmTx has succeeded
    credited,  \* the transactions each node has marked as applied
    expiries, breaks, faults,
    signed,    \* history: the signatures made (node, transaction, lock seen)
    trusted    \* history: the active sets that confirmTx has read for each

gossip == <<links, up, hops>>
origin == <<sending, pending, sigs, closed, jobs, commits>>
registry == <<witnesses, trusted>>
vars == <<gossip, locked, origin, rd, credited, expiries, breaks, faults, signed, registry>>

\* NonceLock, TxVerify and TxConfirmed of a transaction carry its hash as
\* their message id; a signature carries the hash XOR the witness's key.
SigIds == Tx \X Nodes
Ids == Tx \cup SigIds

Signatures == [wit : Nodes, seen : BOOLEAN]
FloodPackets == [type : {"lock", "verify", "confirmed"}, tx : Tx]
SigPackets == [type : {"sig"}, tx : Tx, sig : Signatures]
Packets == FloodPackets \cup SigPackets

Idle == [pc |-> "idle"]

TypeOK ==
    /\ links \in [Nodes \X Nodes -> Seq(Packets)]
    /\ up \subseteq Connections
    /\ hops \in [Nodes -> [Ids -> 0 .. GossipHops]]
    /\ locked \in [Nodes -> SUBSET Tx]
    /\ sending \in [Tx -> {"new", "locked", "sent", "lost"}]
    /\ pending \subseteq Tx
    /\ sigs \in [Tx -> Seq(Signatures)]
    /\ closed \subseteq Tx
    /\ rd \in [Nodes \X Nodes -> {Idle}
                   \cup [pc : {"lock", "verify", "confirmed"}, tx : Tx]
                   \cup [pc : {"append"}, tx : Tx, sig : Signatures]
                   \cup [pc : {"delete"}, tx : Tx, sigs : Seq(Signatures)]]
    /\ jobs \subseteq [pc : {"quorum", "confirm", "announce"}, tx : Tx, sigs : Seq(Signatures)]
    /\ commits \in [Tx -> Nat]
    /\ credited \in [Nodes -> SUBSET Tx]
    /\ expiries \in Nat /\ breaks \in Nat /\ faults \in Nat
    /\ signed \subseteq Nodes \X Tx \X BOOLEAN
    /\ witnesses \in [Nodes -> SUBSET Nodes] /\ trusted \in [Tx -> SUBSET Nodes]

Init ==
    /\ links = [l \in Nodes \X Nodes |-> <<>>]
    /\ up = Connections
    /\ hops = [n \in Nodes |-> [i \in Ids |-> 0]]
    /\ locked = [n \in Nodes |-> {}]
    /\ sending = [t \in Tx |-> "new"]
    /\ pending = {}
    /\ sigs = [t \in Tx |-> <<>>]
    /\ closed = {}
    /\ rd = [l \in Nodes \X Nodes |-> Idle]
    /\ jobs = {}
    /\ commits = [t \in Tx |-> 0]
    /\ credited = [n \in Nodes |-> {}]
    /\ expiries = 0 /\ breaks = 0 /\ faults = 0
    /\ signed = {}
    /\ witnesses = InitWitnesses
    /\ trusted = [t \in Tx |-> {}]

----------------------------------------------------------------------------
PeersOf(n) == {p \in Nodes : {n, p} \in up}

\* SelectPeers: all peers, or as many of them as the fanout at random.
Selections(n) ==
    {S \in SUBSET PeersOf(n) :
        Cardinality(S) = (IF GossipFanout >= Cardinality(PeersOf(n))
                          THEN Cardinality(PeersOf(n)) ELSE GossipFanout)}

\* Peer.Send to each node of S: a full queue drops the packet.
Put(L, n, S, pkt) ==
    [l \in Nodes \X Nodes |->
        IF l[1] = n /\ l[2] \in S /\ Len(L[l]) < LinkCap
        THEN Append(L[l], pkt) ELSE L[l]]

\* A database call of a handler may fail (e): the failure counts against
\* MaxFaults.
Faulting(e) ==
    /\ e => faults < MaxFaults
    /\ faults' = IF e THEN faults + 1 ELSE faults

\* The reader of node n takes the first packet that p has sent.
Take(n, p) == [links EXCEPT ![<<p, n>>] = Tail(@)]

\* ShouldForward: a message id passes GossipHops times.
Passes(n, i) == hops[n][i] < GossipHops

\* A variant of Counted that counts dropped messages, too.
CountedAlways(n, i) == hops' = [hops EXCEPT ![n][i] = @ + 1]

\* A variant of Counted that forgets to count.
NeverCounted(n, i) == UNCHANGED hops

Counted(n, i) == hops' = [hops EXCEPT ![n][i] = IF @ < GossipHops THEN @ + 1 ELSE @]

LockOf(t) == [type |-> "lock", tx |-> t]
VerifyOf(t) == [type |-> "verify", tx |-> t]
ConfirmedOf(t) == [type |-> "confirmed", tx |-> t]
SigOf(t, s) == [type |-> "sig", tx |-> t, sig |-> s]

----------------------------------------------------------------------------
\* A variant of Opening: SendTx starts with the TxVerify.
OpeningVerify(t) == VerifyOf(t)

\* The first packet SendTx broadcasts.
Opening(t) == LockOf(t)

\* SendTx, first part: the lock, the entry in pendingTx, the NonceLock
\* broadcast.  A call whose lock cannot be stored is refused and leaves no
\* trace.
SendLock(t) ==
    LET n == Origin[t] IN
    /\ sending[t] = "new"
    /\ sending' = [sending EXCEPT ![t] = "locked"]
    /\ locked' = [locked EXCEPT ![n] = @ \cup {t}]
    /\ pending' = pending \cup {t}
    /\ \E S \in Selections(n) : links' = Put(links, n, S, Opening(t))
    /\ UNCHANGED <<up, hops, sigs, closed, rd, jobs, commits, credited,
                   expiries, breaks, faults, signed, registry>>

\* SendTx, second part: the TxVerify broadcast.
SendVerify(t) ==
    LET n == Origin[t] IN
    /\ sending[t] = "locked"
    /\ sending' = [sending EXCEPT ![t] = "sent"]
    /\ \E S \in Selections(n) : links' = Put(links, n, S, VerifyOf(t))
    /\ UNCHANGED <<up, hops, locked, pending, sigs, closed, rd, jobs, commits, credited,
                   expiries, breaks, faults, signed, registry>>

\* The reader of n for peer p is free and has a packet to handle.
HasPacket(n, p) == rd[<<n, p>>] = Idle /\ links[<<p, n>>] # <<>>
Packet(n, p) == Head(links[<<p, n>>])

\* The gate of the three flooded packets: ShouldForward, under its own lock.
\* A packet that passes is handled in a later step of the same reader.
Gate(n, p) ==
    LET pkt == Packet(n, p) IN
    /\ HasPacket(n, p)
    /\ pkt \in FloodPackets
    /\ Counted(n, pkt.tx)
    /\ links' = Take(n, p)
    /\ rd' = IF Passes(n, pkt.tx)
             THEN [rd EXCEPT ![<<n, p>>] = [pc |-> pkt.type, tx |-> pkt.tx]]
             ELSE rd
    /\ UNCHANGED <<up, locked, origin, credited, expiries, breaks, faults, signed, registry>>

\* The reader has handled its packet.
Handled(n, p) == rd' = [rd EXCEPT ![<<n, p>>] = Idle]

\* handleNonceLock behind the gate.  The error of Lock is discarded: a node
\* that could not store the lock relays the packet all the same.
HandleNonceLock(n, p) ==
    LET t == rd[<<n, p>>].tx IN
    /\ rd[<<n, p>>].pc = "lock"
    /\ Handled(n, p)
    /\ \E e \in BOOLEAN :
          /\ Faulting(e)
          /\ locked' = IF e THEN locked ELSE [locked EXCEPT ![n] = @ \cup {t}]
    /\ \E S \in Selections(n) : links' = Put(links, n, S, LockOf(t))
    /\ UNCHANGED <<up, hops, origin, credited, expiries, breaks, signed, registry>>

\* handleTxVerify goes on to sign: the node is an active witness in its own
\* view and verifyTxInternal accepts.
Signs(n, t) == n \in witnesses[n] /\ t \in Accepts[n]

\* IsLocked: a read that fails says that there is no lock.
LockSeen(n, t, e) == t \in locked[n] /\ ~e

\* The signature goes to the origin if it is a peer, else to the gossip.
SigReceivers(n, t) ==
    IF Origin[t] \in PeersOf(n) THEN {{Origin[t]}} ELSE Selections(n)

\* handleTxVerify behind the gate: the checks, the signature and the relay.
\* A failing read of the active set, or one inside verifyTxInternal, ends the
\* handler before the signature; a failing read of the lock does not.
HandleTxVerify(n, p) ==
    LET t == rd[<<n, p>>].tx
        SignatureOf(e) == [wit |-> n, seen |-> LockSeen(n, t, e)]
    IN
    /\ rd[<<n, p>>].pc = "verify"
    /\ Handled(n, p)
    /\ \E e \in BOOLEAN :
          /\ Faulting(e)
          /\ \/ /\ e \/ ~Signs(n, t)
                /\ UNCHANGED <<links, signed>>
             \/ /\ Signs(n, t)
                /\ signed' = signed \cup {<<n, t, LockSeen(n, t, e)>>}
                /\ \E R \in SigReceivers(n, t), S \in Selections(n) :
                       links' = Put(Put(links, n, R, SigOf(t, SignatureOf(e))),
                                    n, S, VerifyOf(t))
    /\ UNCHANGED <<up, hops, locked, origin, credited, expiries, breaks, registry>>

----------------------------------------------------------------------------
\* handleWitnessSig, the lookup in pendingTx.  A node that does not find the
\* transaction relays the signature; the origin goes on with it.
ReceiveSig(n, p) ==
    LET pkt == Packet(n, p)
        i   == <<pkt.tx, pkt.sig.wit>>
    IN
    /\ HasPacket(n, p)
    /\ pkt.type = "sig"
    /\ \/ /\ Origin[pkt.tx] = n /\ pkt.tx \in pending
          /\ rd' = [rd EXCEPT ![<<n, p>>] =
                       [pc |-> "append", tx |-> pkt.tx, sig |-> pkt.sig]]
          /\ links' = Take(n, p)
          /\ UNCHANGED hops
       \/ /\ ~(Origin[pkt.tx] = n /\ pkt.tx \in pending)
          /\ Counted(n, i)
          /\ IF Passes(n, i)
             THEN \E S \in Selections(n) : links' = Put(Take(n, p), n, S, pkt)
             ELSE links' = Take(n, p)
          /\ UNCHANGED rd
    /\ UNCHANGED <<up, locked, origin, credited, expiries, breaks, faults, signed, registry>>

\* A variant of Completes that fires again for every signature after the
\* last one needed.
CompletesAgain(t, collected) == Len(collected) >= QuorumK

\* shouldConfirm
Completes(t, collected) == Len(collected) = QuorumK /\ t \notin closed

\* handleWitnessSig under sigMu: append, count, and decide.
AppendSig(n, p) ==
    LET r         == rd[<<n, p>>]
        collected == Append(sigs[r.tx], r.sig)
    IN
    /\ r.pc = "append"
    /\ sigs' = [sigs EXCEPT ![r.tx] = collected]
    /\ IF Completes(r.tx, collected)
       THEN /\ closed' = closed \cup {r.tx}
            /\ rd' = [rd EXCEPT ![<<n, p>>] =
                         [pc |-> "delete", tx |-> r.tx, sigs |-> collected]]
       ELSE /\ rd' = [rd EXCEPT ![<<n, p>>] = Idle]
            /\ UNCHANGED closed
    /\ UNCHANGED <<gossip, locked, sending, pending, jobs, commits, credited,
                   expiries, breaks, faults, signed, registry>>

\* The reader that completed the quorum removes the pending transaction and
\* starts confirmTx on its copy of the signatures.
StartConfirm(n, p) ==
    LET r == rd[<<n, p>>] IN
    /\ r.pc = "delete"
    /\ pending' = pending \ {r.tx}
    /\ jobs' = jobs \cup {[pc |-> "quorum", tx |-> r.tx, sigs |-> r.sigs]}
    /\ rd' = [rd EXCEPT ![<<n, p>>] = Idle]
    /\ UNCHANGED <<gossip, locked, sending, sigs, closed, commits, credited,
                   expiries, breaks, faults, signed, registry>>

\* A variant of ValidSigners that counts signatures without the lock.
SignersOfAny(j) == {s.wit : s \in ToSet(j.sigs)} \cap witnesses[Origin[j.tx]]

\* countValidSigs: distinct active witnesses that saw the lock.
ValidSigners(j) ==
    {s.wit : s \in {x \in ToSet(j.sigs) : x.seen}} \cap witnesses[Origin[j.tx]]

\* confirmTx: VerifyQuorum against the active set of the origin; a failure,
\* of the check or of reading the set, drops the transaction.
VerifyQuorum(j) ==
    /\ j \in jobs /\ j.pc = "quorum"
    /\ \E e \in BOOLEAN :
          /\ Faulting(e)
          /\ jobs' = (jobs \ {j})
                        \cup (IF Cardinality(ValidSigners(j)) >= QuorumK /\ ~e
                              THEN {[j EXCEPT !.pc = "confirm"]} ELSE {})
          /\ trusted' = IF e THEN trusted
                        ELSE [trusted EXCEPT ![j.tx] = @ \cup witnesses[Origin[j.tx]]]
    /\ UNCHANGED <<gossip, locked, sending, pending, sigs, closed, rd, commits, credited,
                   expiries, breaks, signed, witnesses>>

\* A variant of AfterFailure that announces nevertheless.
AnnouncedAnyway(j) == (jobs \ {j}) \cup {[j EXCEPT !.pc = "announce"]}

AfterFailure(j) == jobs \ {j}

\* confirmTx: ConfirmTx succeeds, or fails and drops the transaction.
ConfirmTx(j) ==
    /\ j \in jobs /\ j.pc = "confirm"
    /\ \/ /\ commits' = [commits EXCEPT ![j.tx] = @ + 1]
          /\ jobs' = (jobs \ {j}) \cup {[j EXCEPT !.pc = "announce"]}
       \/ /\ jobs' = AfterFailure(j)
          /\ UNCHANGED commits
    /\ UNCHANGED <<gossip, locked, sending, pending, sigs, closed, rd, credited,
                   expiries, breaks, faults, signed, registry>>

\* confirmTx: the TxConfirmed broadcast.
Announce(j) ==
    /\ j \in jobs /\ j.pc = "announce"
    /\ jobs' = jobs \ {j}
    /\ \E S \in Selections(Origin[j.tx]) :
           links' = Put(links, Origin[j.tx], S, ConfirmedOf(j.tx))
    /\ UNCHANGED <<up, hops, locked, sending, pending, sigs, closed, rd, commits, credited,
                   expiries, breaks, faults, signed, registry>>

\* handleTxConfirmed behind the gate.  The error of ApplyConfirmedTxBalance is
\* discarded: a node that could not credit relays the packet all the same.
HandleTxConfirmed(n, p) ==
    LET t == rd[<<n, p>>].tx IN
    /\ rd[<<n, p>>].pc = "confirmed"
    /\ Handled(n, p)
    /\ \E e \in BOOLEAN :
          /\ Faulting(e)
          /\ credited' = IF e THEN credited ELSE [credited EXCEPT ![n] = @ \cup {t}]
    /\ \E S \in Selections(n) : links' = Put(links, n, S, ConfirmedOf(t))
    /\ UNCHANGED <<up, hops, locked, origin, expiries, breaks, signed, registry>>

----------------------------------------------------------------------------
\* A nonce lock reaches its TTL.
Expire(n, t) ==
    /\ expiries < MaxExpiries
    /\ t \in locked[n]
    /\ expiries' = expiries + 1
    /\ locked' = [locked EXCEPT ![n] = @ \ {t}]
    /\ UNCHANGED <<gossip, origin, rd, credited, breaks, faults, signed, registry>>

\* A connection breaks: both ends close the peer, what is on the way is lost.
Break(c) ==
    /\ breaks < MaxBreaks
    /\ c \in up
    /\ breaks' = breaks + 1
    /\ up' = up \ {c}
    /\ links' = [l \in Nodes \X Nodes |-> IF {l[1], l[2]} = c THEN <<>> ELSE links[l]]
    /\ UNCHANGED <<hops, locked, origin, rd, credited, expiries, faults, signed, registry>>

\* connectToSeed dials again.
Reconnect(c) ==
    /\ c \in Connections \ up
    /\ up' = up \cup {c}
    /\ UNCHANGED <<links, hops, locked, origin, rd, credited, expiries, breaks, faults, signed, registry>>

\* RegisterWitnesses replaces the active set of a node.
Register(n, W) ==
    /\ breaks < MaxBreaks
    /\ breaks' = breaks + 1
    /\ witnesses' = [witnesses EXCEPT ![n] = W]
    /\ UNCHANGED <<gossip, locked, origin, rd, credited, expiries, faults, signed, trusted>>

OwnTx(n) == {t \in Tx : Origin[t] = n}

\* A variant of ForgottenBy where pendingTx is read back from the database.
ReadBackBy(n) == {}

\* pendingTx of a node is in its memory only.
ForgottenBy(n) == OwnTx(n)

\* A node dies and is started again on its database, which holds its nonce
\* locks and witnesses, its confirmed transactions and the marks of the
\* credited ones.
\* (What pendingMeta holds is out of reach without its entry in pendingTx.)
Restart(n) ==
    /\ breaks < MaxBreaks
    /\ breaks' = breaks + 1
    /\ up' = {c \in up : n \notin c}
    /\ links' = [l \in Nodes \X Nodes |-> IF n \in {l[1], l[2]} THEN <<>> ELSE links[l]]
    /\ hops' = [hops EXCEPT ![n] = [i \in Ids |-> 0]]
    /\ rd' = [l \in Nodes \X Nodes |-> IF l[1] = n THEN Idle ELSE rd[l]]
    /\ sending' = [t \in Tx |->
                      IF t \in OwnTx(n) /\ sending[t] # "new" /\ commits[t] = 0
                      THEN "lost" ELSE sending[t]]
    /\ pending' = pending \ ForgottenBy(n)
    /\ jobs' = {j \in jobs : j.tx \notin OwnTx(n)}
    /\ UNCHANGED <<locked, sigs, closed, commits, credited, expiries, faults, signed, registry>>

Reader(n, p) ==
    \/ Gate(n, p)
    \/ HandleNonceLock(n, p)
    \/ HandleTxVerify(n, p)
    \/ ReceiveSig(n, p)
    \/ AppendSig(n, p)
    \/ StartConfirm(n, p)
    \/ HandleTxConfirmed(n, p)

Confirmer(j) == VerifyQuorum(j) \/ ConfirmTx(j) \/ Announce(j)

Next ==
    \/ \E t \in Tx : SendLock(t) \/ SendVerify(t)
    \/ \E n, p \in Nodes : Reader(n, p)
    \/ \E j \in jobs : Confirmer(j)
    \/ \E n \in Nodes, t \in Tx : Expire(n, t)
    \/ \E n \in Nodes : Restart(n)
    \/ \E n \in Nodes, W \in WitnessSets : Register(n, W)
    \/ \E c \in Connections : Break(c) \/ Reconnect(c)

Spec == Init /\ [][Next]_vars

\* Every goroutine that can take a step eventually takes one.
Fairness ==
    /\ \A n, p \in Nodes : WF_vars(Reader(n, p))
    /\ \A t \in Tx : WF_vars(SendVerify(t))
    /\ WF_vars(\E j \in jobs : Confirmer(j))

FairSpec == Spec /\ Fairness

----------------------------------------------------------------------------
(* A transaction is confirmed only after QuorumK different nodes, all of them
   active witnesses in the view of its origin when confirmTx looked, have
   signed it while they held its nonce lock, whatever sets are registered
   meanwhile (handleTxVerify, handleWitnessSig, VerifyQuorum). *)
QuorumSafety ==
    \A t \in Tx : commits[t] > 0 =>
        Cardinality({w \in trusted[t] : <<w, t, TRUE>> \in signed}) >= QuorumK

(* A transaction is confirmed at most once, though several readers append
   signatures to it and more than QuorumK may arrive (sigMu and the confirmed
   flag of pendingMeta). *)
ConfirmedOnce ==
    \A t \in Tx :
        commits[t] + Cardinality({j \in jobs : j.tx = t /\ j.pc \in {"quorum", "confirm"}})
                   + Cardinality({l \in Nodes \X Nodes : rd[l].pc = "delete" /\ rd[l].tx = t})
            <= 1

(* A node that credits a transaction credits one that its origin has
   confirmed: TxConfirmed goes out after ConfirmTx has succeeded. *)
CreditImpliesConfirmed ==
    \A n \in Nodes, t \in Tx : t \in credited[n] => commits[t] > 0

(* A transaction whose origin dies before ConfirmTx is never confirmed, though
   its signatures are still on their way when the origin is back: whoever sent
   it may send the payment again (pendingTx is all that confirmTx starts
   from). *)
LostStaysLost == \A t \in Tx : sending[t] = "lost" => commits[t] = 0

(* The NonceLock is ahead of the TxVerify on every path: when no connection
   breaks, no queue overflows and the fanout covers the peers, a witness sees
   the lock of whatever it signs, but for one witness at most per failing
   database call and per lock that expires.  A node that could not store a
   lock still passes it on, ahead of the TxVerify, and the nodes behind it sign
   with the lock (SendTx broadcasts the two in this order, relays preserve it,
   the readers handle packets in order; handleNonceLock discards the error of
   Lock and goes on to the broadcast, IsLocked reads an error as no lock). *)
LockPrecedesVerify ==
    \A t \in Tx :
        Cardinality({n \in Nodes : <<n, t, FALSE>> \in signed}) <= faults + expiries

(* A flood fits into the queues: what the hop budget lets through never
   makes a send queue drop a packet (ShouldForward, Send). *)
QueuesHaveRoom == \A l \in Nodes \X Nodes : Len(links[l]) < LinkCap

(* Flooding ends: from some point on no packet is on its way and no reader is
   busy, although a node sends every message back to where it came from (the
   hop budget of ShouldForward). *)
Quiet == (\A l \in Nodes \X Nodes : links[l] = <<>> /\ rd[l] = Idle) /\ jobs = {}
FloodEnds == <>[]Quiet

(* Once the network is quiet, a confirmed transaction is credited at every
   other node. *)
ConfirmationReachesAll ==
    \A t \in Tx : Quiet /\ commits[t] > 0 =>
        \A n \in Nodes \ {Origin[t]} : t \in credited[n]

(* A transaction that has collected its QuorumK signatures, and so has left
   pendingTx for confirmTx, has its quorum: the signatures come from QuorumK
   different active witnesses that saw the lock (handleWitnessSig,
   VerifyQuorum). *)
CollectedIsQuorum ==
    \A j \in jobs : j.pc = "quorum" => Cardinality(ValidSigners(j)) >= QuorumK
============================================================================
