---------------------------- MODULE TxFlowProofs ---------------------------
(***************************************************************************)
(* Proofs about TxFlow, for every number of nodes, every topology, every   *)
(* set of witnesses and every loss of packets.                             *)
(***************************************************************************)
EXTENDS TxFlow, FiniteSetTheorems, TLAPS

Links == Nodes \X Nodes

\* Sending leaves queues of packets, and adds nothing but the packet sent.
LEMMA PutType ==
    ASSUME NEW L \in [Links -> Seq(Packets)], NEW n, NEW S, NEW pkt \in Packets
    PROVE  /\ Put(L, n, S, pkt) \in [Links -> Seq(Packets)]
           /\ \A l \in Links : \A i \in 1 .. Len(Put(L, n, S, pkt)[l]) :
                 \/ Put(L, n, S, pkt)[l][i] = pkt
                 \/ i \in 1 .. Len(L[l]) /\ Put(L, n, S, pkt)[l][i] = L[l][i]
  <1>1. ASSUME NEW l \in Links
        PROVE  /\ Put(L, n, S, pkt)[l] \in Seq(Packets)
               /\ \A i \in 1 .. Len(Put(L, n, S, pkt)[l]) :
                     \/ Put(L, n, S, pkt)[l][i] = pkt
                     \/ i \in 1 .. Len(L[l]) /\ Put(L, n, S, pkt)[l][i] = L[l][i]
    <2>1. L[l] \in Seq(Packets)
      OBVIOUS
    <2>2. Put(L, n, S, pkt)[l] \in {Append(L[l], pkt), L[l]}
      BY DEF Put, Links
    <2> QED BY <2>1, <2>2, SMTT(30)
  <1>2. Put(L, n, S, pkt) = [l \in Links |-> Put(L, n, S, pkt)[l]]
    BY DEF Put, Links
  <1> QED BY <1>1, <1>2

\* A broadcast leaves queues of packets.
LEMMA BroadcastType ==
    ASSUME TypeOK, NEW n, NEW pkt \in Packets,
           \E S \in Selections(n) : links' = Put(links, n, S, pkt)
    PROVE  links' \in [Links -> Seq(Packets)]
  <1>1. PICK S : links' = Put(links, n, S, pkt)
    OBVIOUS
  <1>2. links \in [Links -> Seq(Packets)]
    BY DEF TypeOK, Links
  <1> QED BY <1>1, <1>2, PutType

\* Taking a packet leaves queues of packets, and the rest of them.
LEMMA TakeType ==
    ASSUME TypeOK, NEW n \in Nodes, NEW p \in Nodes, links[<<p, n>>] # <<>>
    PROVE  /\ Packet(n, p) \in Packets
           /\ Packet(n, p) = links[<<p, n>>][1]
           /\ 1 \in 1 .. Len(links[<<p, n>>])
           /\ Take(n, p) \in [Links -> Seq(Packets)]
           /\ \A l \in Links : \A i \in 1 .. Len(Take(n, p)[l]) :
                 \E k \in 1 .. Len(links[l]) : Take(n, p)[l][i] = links[l][k]
  <1>1. <<p, n>> \in Links /\ links \in [Links -> Seq(Packets)]
    BY DEF TypeOK, Links
  <1>2. links[<<p, n>>] \in Seq(Packets)
    BY <1>1
  <1>3. /\ Packet(n, p) \in Packets
        /\ Packet(n, p) = links[<<p, n>>][1]
        /\ 1 \in 1 .. Len(links[<<p, n>>])
        /\ Tail(links[<<p, n>>]) \in Seq(Packets)
        /\ \A i \in 1 .. Len(Tail(links[<<p, n>>])) :
              /\ i + 1 \in 1 .. Len(links[<<p, n>>])
              /\ Tail(links[<<p, n>>])[i] = links[<<p, n>>][i + 1]
    BY <1>2 DEF Packet
  <1>4. ASSUME NEW l \in Links
        PROVE  \A i \in 1 .. Len(Take(n, p)[l]) :
                   \E k \in 1 .. Len(links[l]) : Take(n, p)[l][i] = links[l][k]
    <2>1. CASE l = <<p, n>>
      BY <1>1, <1>3, <2>1 DEF Take
    <2>2. CASE l # <<p, n>>
      BY <1>1, <2>2 DEF Take
    <2> QED BY <2>1, <2>2
  <1> QED BY <1>1, <1>3, <1>4 DEF Take

\* What a reader, and a confirmTx goroutine, may be doing.
Handling == [pc : {"lock", "verify", "confirmed"}, tx : Tx]
Appending == [pc : {"append"}, tx : Tx, sig : Signatures]
Deleting == [pc : {"delete"}, tx : Tx, sigs : Seq(Signatures)]
Jobs == [pc : {"quorum", "confirm", "announce"}, tx : Tx, sigs : Seq(Signatures)]

\* The state of a reader by its program counter.
LEMMA ReaderType ==
    ASSUME TypeOK, NEW l \in Links
    PROVE  /\ rd[l] \in {Idle} \cup Handling \cup Appending \cup Deleting
           /\ rd[l].pc \in {"lock", "verify", "confirmed"} => rd[l] \in Handling
           /\ rd[l].pc = "append" => rd[l] \in Appending
           /\ rd[l].pc = "delete" => rd[l] \in Deleting
  BY DEF TypeOK, Links, Idle, Handling, Appending, Deleting

\* The table of the gate stays one.
LEMMA CountedType ==
    ASSUME TypeOK, NEW n \in Nodes, NEW i \in Ids, Counted(n, i)
    PROVE  hops' \in [Nodes -> [Ids -> 0 .. GossipHops]]
  BY FlowAssumption DEF TypeOK, Counted

\* What the handlers send are packets.
LEMMA PacketsOf ==
    ASSUME NEW t \in Tx
    PROVE  /\ LockOf(t) \in Packets /\ VerifyOf(t) \in Packets /\ ConfirmedOf(t) \in Packets
           /\ \A s \in Signatures : SigOf(t, s) \in Packets
  BY DEF LockOf, VerifyOf, ConfirmedOf, SigOf, Packets, FloodPackets, SigPackets

----------------------------------------------------------------------------
(* Type correctness of every reachable state. *)
LEMMA InitTypeOK == Init => TypeOK
  BY FlowAssumption DEF Init, TypeOK, Ids, SigIds

\* SendTx leaves a well-typed state, ...
LEMMA SendTypeOK ==
    ASSUME TypeOK, NEW t \in Tx, SendLock(t) \/ SendVerify(t)
    PROVE  TypeOK'
  <1>1. links' \in [Links -> Seq(Packets)]
    <2>1. CASE SendLock(t)
      <3>1. \E S \in Selections(Origin[t]) : links' = Put(links, Origin[t], S, LockOf(t))
        BY <2>1 DEF SendLock, Opening
      <3> QED BY <3>1, BroadcastType, PacketsOf
    <2>2. CASE SendVerify(t)
      <3>1. \E S \in Selections(Origin[t]) : links' = Put(links, Origin[t], S, VerifyOf(t))
        BY <2>2 DEF SendVerify
      <3> QED BY <3>1, BroadcastType, PacketsOf
    <2> QED BY <2>1, <2>2
  <1>2. Origin[t] \in Nodes
    BY FlowAssumption
  <1>3. CASE SendLock(t)
    BY <1>1, <1>2, <1>3 DEF SendLock, TypeOK, registry, Links
  <1>4. CASE SendVerify(t)
    BY <1>1, <1>2, <1>4 DEF SendVerify, TypeOK, registry, Links
  <1> QED BY <1>3, <1>4

\* ... the gate, ...
LEMMA GateTypeOK ==
    ASSUME TypeOK, NEW n \in Nodes, NEW p \in Nodes, Gate(n, p)
    PROVE  TypeOK'
  <1>1. links' \in [Links -> Seq(Packets)] /\ Packet(n, p) \in FloodPackets
    BY TakeType DEF Gate, HasPacket
  <1>2. Packet(n, p).tx \in Ids /\ [pc |-> Packet(n, p).type, tx |-> Packet(n, p).tx] \in Handling
    BY <1>1 DEF FloodPackets, Ids, Handling
  <1>3. hops' \in [Nodes -> [Ids -> 0 .. GossipHops]]
    BY <1>2, CountedType DEF Gate
  <1>4. rd' \in [Links -> {Idle} \cup Handling \cup Appending \cup Deleting]
    BY <1>2 DEF Gate, TypeOK, Links, Handling, Appending, Deleting
  <1> QED BY <1>1, <1>3, <1>4
      DEF Gate, TypeOK, registry, Links, origin, Handling, Appending, Deleting

\* A failing call is counted.
LEMMA FaultsCounted ==
    ASSUME TypeOK, NEW e \in BOOLEAN, Faulting(e)
    PROVE  faults' \in Nat
  BY DEF Faulting, TypeOK

\* What the handler of a TxVerify leaves: nothing, or a signature of its node
\* and a relayed packet.
LEMMA VerifyEffect ==
    ASSUME TypeOK, NEW n \in Nodes, NEW p \in Nodes, HandleTxVerify(n, p),
           NEW t, t = rd[<<n, p>>].tx
    PROVE  /\ t \in Tx /\ faults' \in Nat
           /\ \/ UNCHANGED <<links, signed>>
              \/ \E s \in Signatures :
                    /\ s.wit = n
                    /\ \E e \in BOOLEAN : Faulting(e) /\ s.seen = LockSeen(n, t, e)
                    /\ signed' = signed \cup {<<n, t, s.seen>>}
                    /\ \E R \in SigReceivers(n, t), S \in Selections(n) :
                           links' = Put(Put(links, n, R, SigOf(t, s)), n, S, VerifyOf(t))
  <1>1. t \in Tx
    BY ReaderType DEF HandleTxVerify, Links, Handling
  <1>2. PICK e \in BOOLEAN :
            /\ Faulting(e)
            /\ \/ UNCHANGED <<links, signed>>
               \/ /\ signed' = signed \cup {<<n, t, LockSeen(n, t, e)>>}
                  /\ \E R \in SigReceivers(n, t), S \in Selections(n) :
                         links' = Put(Put(links, n, R, SigOf(t, [wit |-> n, seen |-> LockSeen(n, t, e)])),
                                      n, S, VerifyOf(t))
    BY DEF HandleTxVerify
  <1>3. faults' \in Nat
    BY <1>2, FaultsCounted
  <1>4. CASE UNCHANGED <<links, signed>>
    BY <1>1, <1>3, <1>4
  <1>5. CASE ~ UNCHANGED <<links, signed>>
    <2> DEFINE s == [wit |-> n, seen |-> LockSeen(n, t, e)]
    <2>1. s \in Signatures /\ s.wit = n /\ s.seen = LockSeen(n, t, e)
      BY DEF Signatures, LockSeen
    <2>2. /\ signed' = signed \cup {<<n, t, s.seen>>}
          /\ \E R \in SigReceivers(n, t), S \in Selections(n) :
                 links' = Put(Put(links, n, R, SigOf(t, s)), n, S, VerifyOf(t))
      BY <1>2, <1>5
    <2> HIDE DEF s
    <2> QED BY <1>1, <1>2, <1>3, <2>1, <2>2
  <1> QED BY <1>4, <1>5

\* ... the handlers of the flooded packets, ...
LEMMA HandlerTypeOK ==
    ASSUME TypeOK, NEW n \in Nodes, NEW p \in Nodes,
           HandleNonceLock(n, p) \/ HandleTxVerify(n, p) \/ HandleTxConfirmed(n, p)
    PROVE  TypeOK'
  <1> DEFINE t == rd[<<n, p>>].tx
  <1>1. t \in Tx
    BY ReaderType
    DEF HandleNonceLock, HandleTxVerify, HandleTxConfirmed, Links, Handling
  <1> HIDE DEF t
  <1>2. rd' \in [Links -> {Idle} \cup Handling \cup Appending \cup Deleting]
    BY DEF HandleNonceLock, HandleTxVerify, HandleTxConfirmed, Handled,
           TypeOK, Links, Handling, Appending, Deleting
  <1>3. links \in [Links -> Seq(Packets)]
    BY DEF TypeOK, Links
  <1>4. CASE HandleNonceLock(n, p)
    <2>1. \E S \in Selections(n) : links' = Put(links, n, S, LockOf(t))
      BY <1>4 DEF HandleNonceLock, t
    <2>2. links' \in [Links -> Seq(Packets)]
      BY <1>1, <2>1, BroadcastType, PacketsOf
    <2>3. faults' \in Nat
      BY <1>4, FaultsCounted DEF HandleNonceLock
    <2>4. locked' \in [Nodes -> SUBSET Tx]
      BY <1>1, <1>4 DEF HandleNonceLock, TypeOK, t
    <2> QED BY <1>2, <1>4, <2>2, <2>3, <2>4
        DEF HandleNonceLock, TypeOK, registry, Links, origin, Handling, Appending, Deleting
  <1>5. CASE HandleTxConfirmed(n, p)
    <2>1. \E S \in Selections(n) : links' = Put(links, n, S, ConfirmedOf(t))
      BY <1>5 DEF HandleTxConfirmed, t
    <2>2. links' \in [Links -> Seq(Packets)]
      BY <1>1, <2>1, BroadcastType, PacketsOf
    <2>3. faults' \in Nat
      BY <1>5, FaultsCounted DEF HandleTxConfirmed
    <2>4. credited' \in [Nodes -> SUBSET Tx]
      BY <1>1, <1>5 DEF HandleTxConfirmed, TypeOK, t
    <2> QED BY <1>2, <1>5, <2>2, <2>3, <2>4
        DEF HandleTxConfirmed, TypeOK, registry, Links, origin, Handling, Appending, Deleting
  <1>6. CASE HandleTxVerify(n, p)
    <2>1. ASSUME NEW s \in Signatures, NEW R, NEW S
          PROVE  Put(Put(links, n, R, SigOf(t, s)), n, S, VerifyOf(t)) \in [Links -> Seq(Packets)]
      <3>1. Put(links, n, R, SigOf(t, s)) \in [Links -> Seq(Packets)]
        BY <1>1, <1>3, PutType, PacketsOf
      <3> QED BY <1>1, <3>1, PutType, PacketsOf
    <2>2. /\ faults' \in Nat
          /\ \/ UNCHANGED <<links, signed>>
             \/ \E s \in Signatures :
                   /\ signed' = signed \cup {<<n, t, s.seen>>}
                   /\ \E R, S : links' = Put(Put(links, n, R, SigOf(t, s)), n, S, VerifyOf(t))
      BY <1>6, VerifyEffect DEF t
    <2>3. links' \in [Links -> Seq(Packets)]
      BY <1>3, <2>1, <2>2
    <2>4. signed' \subseteq Nodes \X Tx \X BOOLEAN
      BY <1>1, <2>2 DEF TypeOK, Signatures
    <2> QED BY <1>2, <1>6, <2>2, <2>3, <2>4
        DEF HandleTxVerify, TypeOK, registry, Links, origin, Handling, Appending, Deleting
  <1> QED BY <1>4, <1>5, <1>6

\* ... the steps of handleWitnessSig, ...
LEMMA SignatureTypeOK ==
    ASSUME TypeOK, NEW n \in Nodes, NEW p \in Nodes,
           ReceiveSig(n, p) \/ AppendSig(n, p) \/ StartConfirm(n, p)
    PROVE  TypeOK'
  <1>1. CASE ReceiveSig(n, p)
    <2> DEFINE pkt == Packet(n, p)
    <2>1. Take(n, p) \in [Links -> Seq(Packets)] /\ pkt \in Packets
      BY <1>1, TakeType DEF ReceiveSig, HasPacket
    <2>2. pkt \in SigPackets
      BY <1>1, <2>1 DEF ReceiveSig, Packets, FloodPackets
    <2>3. <<pkt.tx, pkt.sig.wit>> \in Ids /\ [pc |-> "append", tx |-> pkt.tx, sig |-> pkt.sig] \in Appending
      BY <2>2 DEF SigPackets, Signatures, Ids, SigIds, Appending
    <2>4. hops' \in [Nodes -> [Ids -> 0 .. GossipHops]]
      BY <1>1, <2>3, CountedType DEF ReceiveSig, TypeOK
    <2>5. links' \in [Links -> Seq(Packets)]
      BY <1>1, <2>1, PutType DEF ReceiveSig
    <2>6. rd' \in [Links -> {Idle} \cup Handling \cup Appending \cup Deleting]
      BY <1>1, <2>3 DEF ReceiveSig, TypeOK, Links, Handling, Appending, Deleting
    <2> QED BY <1>1, <2>4, <2>5, <2>6
        DEF ReceiveSig, TypeOK, registry, Links, origin, Handling, Appending, Deleting
  <1>2. CASE AppendSig(n, p)
    <2> DEFINE r == rd[<<n, p>>]
               collected == Append(sigs[r.tx], r.sig)
    <2>1. r \in Appending
      BY <1>2, ReaderType DEF AppendSig, Links
    <2>2. r.tx \in Tx /\ collected \in Seq(Signatures)
      BY <2>1 DEF Appending, TypeOK
    <2>3. [pc |-> "delete", tx |-> r.tx, sigs |-> collected] \in Deleting
      BY <2>2 DEF Deleting
    <2> HIDE DEF collected
    <2>4. rd' \in [Links -> {Idle} \cup Handling \cup Appending \cup Deleting]
      BY <1>2, <2>3, ZenonT(40) DEF AppendSig, collected, TypeOK, Links, Handling, Appending, Deleting
    <2>5. sigs' \in [Tx -> Seq(Signatures)] /\ closed' \subseteq Tx
      BY <1>2, <2>2 DEF AppendSig, collected, TypeOK
    <2> QED BY <1>2, <2>4, <2>5
        DEF AppendSig, TypeOK, registry, Links, gossip, Handling, Appending, Deleting
  <1>3. CASE StartConfirm(n, p)
    <2> DEFINE r == rd[<<n, p>>]
    <2>1. r \in Deleting
      BY <1>3, ReaderType DEF StartConfirm, Links
    <2>2. [pc |-> "quorum", tx |-> r.tx, sigs |-> r.sigs] \in Jobs
      BY <2>1 DEF Deleting, Jobs
    <2>3. jobs' \subseteq Jobs /\ pending' \subseteq Tx
      BY <1>3, <2>2 DEF StartConfirm, TypeOK, Jobs
    <2>4. rd' \in [Links -> {Idle} \cup Handling \cup Appending \cup Deleting]
      BY <1>3 DEF StartConfirm, TypeOK, Links, Handling, Appending, Deleting
    <2> QED BY <1>3, <2>3, <2>4
        DEF StartConfirm, TypeOK, registry, Links, gossip, Jobs, Handling, Appending, Deleting
  <1> QED BY <1>1, <1>2, <1>3

\* ... those of confirmTx, ...
LEMMA ConfirmerTypeOK ==
    ASSUME TypeOK, NEW j \in jobs, Confirmer(j)
    PROVE  TypeOK'
  <1>1. j \in Jobs
    BY DEF TypeOK, Jobs
  <1>2. \A c \in {"quorum", "confirm", "announce"} : [j EXCEPT !.pc = c] \in Jobs
    BY <1>1 DEF Jobs
  <1>3. CASE VerifyQuorum(j)
    <2>1. jobs' \subseteq Jobs
      BY <1>2, <1>3 DEF VerifyQuorum, TypeOK, Jobs
    <2>2. witnesses[Origin[j.tx]] \subseteq Nodes /\ j.tx \in Tx
      BY <1>1, FlowAssumption DEF TypeOK, Jobs
    <2>3. trusted' \in [Tx -> SUBSET Nodes]
      BY <1>3, <2>2 DEF VerifyQuorum, TypeOK
    <2>4. faults' \in Nat
      BY <1>3, FaultsCounted DEF VerifyQuorum
    <2> QED BY <1>3, <2>1, <2>3, <2>4 DEF VerifyQuorum, TypeOK, gossip, Jobs
  <1>4. CASE ConfirmTx(j)
    <2>1. j.tx \in Tx
      BY <1>1 DEF Jobs
    <2>2. jobs' \subseteq Jobs
      BY <1>2, <1>4 DEF ConfirmTx, AfterFailure, TypeOK, Jobs
    <2>3. commits' \in [Tx -> Nat]
      <3>1. commits \in [Tx -> Nat]
        BY DEF TypeOK
      <3>2. commits' = [commits EXCEPT ![j.tx] = @ + 1] \/ commits' = commits
        BY <1>4 DEF ConfirmTx
      <3> QED BY <2>1, <3>1, <3>2
    <2>4. UNCHANGED <<links, up, hops, locked, sending, pending, sigs, closed, rd, credited,
                      expiries, breaks, faults, signed, witnesses, trusted>>
      BY <1>4 DEF ConfirmTx, gossip, registry
    <2> QED BY <2>2, <2>3, <2>4 DEF TypeOK, Jobs
  <1>5. CASE Announce(j)
    <2>1. \E S \in Selections(Origin[j.tx]) :
              links' = Put(links, Origin[j.tx], S, ConfirmedOf(j.tx))
      BY <1>5 DEF Announce
    <2>2. links' \in [Links -> Seq(Packets)]
      BY <1>1, <2>1, BroadcastType, PacketsOf DEF Jobs
    <2>3. jobs' \subseteq Jobs
      BY <1>5 DEF Announce, TypeOK, Jobs
    <2> QED BY <1>5, <2>2, <2>3 DEF Announce, TypeOK, registry, Links, Jobs
  <1> QED BY <1>3, <1>4, <1>5 DEF Confirmer

\* A restart only loses: packets, readers, goroutines.
LEMMA RestartLoses ==
    ASSUME TypeOK, NEW n \in Nodes, Restart(n)
    PROVE  /\ \A l \in Links : links'[l] = <<>> \/ links'[l] = links[l]
           /\ \A l \in Links : rd'[l] = Idle \/ rd'[l] = rd[l]
           /\ \A l \in Links : l[1] = n => rd'[l] = Idle
           /\ jobs' = {j \in jobs : j.tx \notin OwnTx(n)}
           /\ pending' = pending \ OwnTx(n)
           /\ UNCHANGED <<locked, sigs, closed, commits, credited, expiries, faults, signed, registry>>
  BY DEF Restart, Links, ForgottenBy

\* ... and what happens to the network, ...
LEMMA EnvironmentTypeOK ==
    ASSUME TypeOK,
           \/ \E n \in Nodes, t \in Tx : Expire(n, t)
           \/ \E c \in Connections : Break(c) \/ Reconnect(c)
           \/ \E n \in Nodes : Restart(n)
           \/ \E n \in Nodes, W \in WitnessSets : Register(n, W)
    PROVE  TypeOK'
  <1>1. ASSUME NEW n \in Nodes, NEW t \in Tx, Expire(n, t) PROVE TypeOK'
    <2>1. locked' \in [Nodes -> SUBSET Tx] /\ expiries' \in Nat
      BY <1>1 DEF Expire, TypeOK
    <2>2. UNCHANGED <<gossip, origin, rd, credited, breaks, faults, signed, registry>>
      BY <1>1 DEF Expire
    <2> QED BY <2>1, <2>2 DEF TypeOK, registry, gossip, origin
  <1>2. ASSUME NEW c \in Connections, Break(c) PROVE TypeOK'
    <2>1. links' \in [Links -> Seq(Packets)]
      BY <1>2 DEF Break, TypeOK, Links
    <2> QED BY <1>2, <2>1 DEF Break, TypeOK, registry, Links, origin
  <1>3. ASSUME NEW c \in Connections, Reconnect(c) PROVE TypeOK'
    BY <1>3 DEF Reconnect, TypeOK, registry, origin
  <1>4. ASSUME NEW n \in Nodes, Restart(n) PROVE TypeOK'
    <2>1. links' \in [Links -> Seq(Packets)]
      <3>1. \A l \in Links : links'[l] \in Seq(Packets)
        <4>1. \A l \in Links : links[l] \in Seq(Packets)
          BY DEF TypeOK, Links
        <4>2. <<>> \in Seq(Packets)
          OBVIOUS
        <4>3. \A l \in Links : links'[l] = <<>> \/ links'[l] = links[l]
          BY <1>4, RestartLoses
        <4> QED BY <4>1, <4>2, <4>3
      <3>2. links' = [l \in Links |-> links'[l]]
        BY <1>4 DEF Restart, Links
      <3> QED BY <3>1, <3>2
    <2>2. rd' \in [Links -> {Idle} \cup Handling \cup Appending \cup Deleting]
      <3>1. \A l \in Links : rd'[l] \in {Idle} \cup Handling \cup Appending \cup Deleting
        BY <1>4, RestartLoses, ReaderType
      <3>2. rd' = [l \in Links |-> rd'[l]]
        BY <1>4 DEF Restart, Links
      <3> QED BY <3>1, <3>2
    <2>3. hops' \in [Nodes -> [Ids -> 0 .. GossipHops]]
      BY <1>4, FlowAssumption DEF Restart, TypeOK
    <2>4. sending' \in [Tx -> {"new", "locked", "sent", "lost"}]
      BY <1>4 DEF Restart, TypeOK
    <2>5. up' \subseteq Connections /\ pending' \subseteq Tx /\ jobs' \subseteq jobs /\ breaks' \in Nat
      BY <1>4 DEF Restart, TypeOK
    <2> QED BY <1>4, <2>1, <2>2, <2>3, <2>4, <2>5
        DEF Restart, TypeOK, registry, Links, Handling, Appending, Deleting
  <1>5. ASSUME NEW n \in Nodes, NEW W \in WitnessSets, Register(n, W) PROVE TypeOK'
    BY <1>5, FlowAssumption DEF Register, TypeOK, gossip, origin
  <1> QED BY <1>1, <1>2, <1>3, <1>4, <1>5

\* ... so that every step does.
LEMMA NextTypeOK == TypeOK /\ [Next]_vars => TypeOK'
  <1>1. ASSUME TypeOK, UNCHANGED vars PROVE TypeOK'
    BY <1>1 DEF TypeOK, registry, vars, gossip, origin
  <1> QED BY <1>1, SendTypeOK, GateTypeOK, HandlerTypeOK, SignatureTypeOK, ConfirmerTypeOK,
             EnvironmentTypeOK
      DEF Next, Reader

(* Every reachable state of the protocol is well typed: in particular the gate
   never counts a message beyond its budget (ShouldForward). *)
THEOREM FlowTypeCorrect == Spec => []TypeOK
  BY InitTypeOK, NextTypeOK, PTL DEF Spec

----------------------------------------------------------------------------
(* Every signature that is in a queue, with a reader, in pendingMeta or with a
   confirmTx goroutine has been made by its witness, with what the witness
   then knew of the lock.  G stands for the signatures made so far. *)
MadeIn(G, t, s) == <<s.wit, t, s.seen>> \in G
ListMade(G, t, q) == \A i \in 1 .. Len(q) : MadeIn(G, t, q[i])
QueuesMade(G, L) ==
    \A l \in Links : \A i \in 1 .. Len(L[l]) :
        L[l][i].type = "sig" => MadeIn(G, L[l][i].tx, L[l][i].sig)
CollectedMade(G) == \A t \in Tx : ListMade(G, t, sigs[t])
ReadersMade(G) ==
    \A l \in Links :
        /\ rd[l].pc = "append" => MadeIn(G, rd[l].tx, rd[l].sig)
        /\ rd[l].pc = "delete" => ListMade(G, rd[l].tx, rd[l].sigs)
JobsMade(G) == \A j \in jobs : ListMade(G, j.tx, j.sigs)

SignaturesMade ==
    /\ QueuesMade(signed, links)
    /\ CollectedMade(signed)
    /\ ReadersMade(signed)
    /\ JobsMade(signed)

\* Signatures are never unmade.
LEMMA SignedGrows == [Next]_vars => signed \subseteq signed'
  <1>1. ASSUME NEW n \in Nodes, NEW p \in Nodes, Reader(n, p) PROVE signed \subseteq signed'
    BY <1>1 DEF Reader, Gate, HandleNonceLock, HandleTxVerify, ReceiveSig, AppendSig,
                StartConfirm, HandleTxConfirmed
  <1>2. ASSUME NEW j \in jobs, Confirmer(j) PROVE signed \subseteq signed'
    BY <1>2 DEF Confirmer, VerifyQuorum, ConfirmTx, Announce
  <1>3. ASSUME NEW t \in Tx, SendLock(t) \/ SendVerify(t) PROVE signed \subseteq signed'
    BY <1>3 DEF SendLock, SendVerify
  <1>4. ASSUME \/ \E n \in Nodes, t \in Tx : Expire(n, t)
               \/ \E c \in Connections : Break(c) \/ Reconnect(c)
               \/ \E n \in Nodes, W \in WitnessSets : Register(n, W)
               \/ \E n \in Nodes : Restart(n)
               \/ UNCHANGED vars
        PROVE  signed \subseteq signed'
    BY <1>4 DEF Expire, Break, Reconnect, Register, Restart, vars
  <1> QED BY <1>1, <1>2, <1>3, <1>4 DEF Next

\* What confirmTx has read of the active sets is never forgotten.
LEMMA TrustGrows ==
    ASSUME TypeOK, [Next]_vars, NEW t \in Tx
    PROVE  trusted[t] \subseteq trusted'[t]
  <1>1. ASSUME NEW n \in Nodes, NEW p \in Nodes, Reader(n, p) PROVE UNCHANGED trusted
    BY <1>1 DEF Reader, Gate, HandleNonceLock, HandleTxVerify, ReceiveSig, AppendSig,
                StartConfirm, HandleTxConfirmed, registry
  <1>2. ASSUME NEW j \in jobs, VerifyQuorum(j) PROVE trusted[t] \subseteq trusted'[t]
    BY <1>2 DEF VerifyQuorum, TypeOK
  <1>3. ASSUME NEW j \in jobs, ConfirmTx(j) \/ Announce(j) PROVE UNCHANGED trusted
    BY <1>3 DEF ConfirmTx, Announce, registry
  <1>4. ASSUME NEW x \in Tx, SendLock(x) \/ SendVerify(x) PROVE UNCHANGED trusted
    BY <1>4 DEF SendLock, SendVerify, registry
  <1>5. ASSUME \/ \E n \in Nodes, x \in Tx : Expire(n, x)
               \/ \E c \in Connections : Break(c) \/ Reconnect(c)
               \/ \E n \in Nodes, W \in WitnessSets : Register(n, W)
               \/ \E n \in Nodes : Restart(n)
               \/ UNCHANGED vars
        PROVE  UNCHANGED trusted
    BY <1>5 DEF Expire, Break, Reconnect, Register, Restart, vars, registry
  <1> QED BY <1>1, <1>2, <1>3, <1>4, <1>5 DEF Next, Confirmer

\* Signatures that were made are so among more of them.
LEMMA MadeGrows ==
    ASSUME SignaturesMade, NEW G, signed \subseteq G
    PROVE  QueuesMade(G, links) /\ CollectedMade(G) /\ ReadersMade(G) /\ JobsMade(G)
  BY DEF SignaturesMade, QueuesMade, CollectedMade, ReadersMade, JobsMade, ListMade, MadeIn

\* Sending a packet that is no signature, or one that has been made.
LEMMA PutMade ==
    ASSUME NEW G, NEW L \in [Links -> Seq(Packets)], QueuesMade(G, L),
           NEW n, NEW S, NEW pkt \in Packets,
           pkt.type = "sig" => MadeIn(G, pkt.tx, pkt.sig)
    PROVE  QueuesMade(G, Put(L, n, S, pkt))
  <1> SUFFICES ASSUME NEW l \in Links, NEW i \in 1 .. Len(Put(L, n, S, pkt)[l]),
                      Put(L, n, S, pkt)[l][i].type = "sig"
               PROVE  MadeIn(G, Put(L, n, S, pkt)[l][i].tx, Put(L, n, S, pkt)[l][i].sig)
    BY DEF QueuesMade
  <1>1. \/ Put(L, n, S, pkt)[l][i] = pkt
        \/ i \in 1 .. Len(L[l]) /\ Put(L, n, S, pkt)[l][i] = L[l][i]
    BY PutType
  <1> QED BY <1>1 DEF QueuesMade

\* A signature that is taken from a queue was made.
LEMMA TakeMade ==
    ASSUME TypeOK, NEW G, QueuesMade(G, links), NEW n \in Nodes, NEW p \in Nodes,
           links[<<p, n>>] # <<>>
    PROVE  /\ QueuesMade(G, Take(n, p))
           /\ Packet(n, p).type = "sig" => MadeIn(G, Packet(n, p).tx, Packet(n, p).sig)
  <1>1. QueuesMade(G, Take(n, p))
    <2> SUFFICES ASSUME NEW l \in Links, NEW i \in 1 .. Len(Take(n, p)[l]),
                        Take(n, p)[l][i].type = "sig"
                 PROVE  MadeIn(G, Take(n, p)[l][i].tx, Take(n, p)[l][i].sig)
      BY DEF QueuesMade
    <2>1. \E k \in 1 .. Len(links[l]) : Take(n, p)[l][i] = links[l][k]
      BY TakeType
    <2> QED BY <2>1 DEF QueuesMade
  <1>2. <<p, n>> \in Links
    BY DEF Links
  <1> QED BY <1>1, <1>2, TakeType DEF QueuesMade

\* A broadcast of a packet that is no signature.
LEMMA BroadcastMade ==
    ASSUME TypeOK, NEW G, QueuesMade(G, links), NEW n, NEW pkt \in Packets,
           pkt.type # "sig", \E S \in Selections(n) : links' = Put(links, n, S, pkt)
    PROVE  QueuesMade(G, links')
  <1>1. links \in [Links -> Seq(Packets)]
    BY DEF TypeOK, Links
  <1> QED BY <1>1, PutMade

\* The flooded packets are no signatures.
LEMMA FloodTypes ==
    ASSUME NEW t
    PROVE  LockOf(t).type # "sig" /\ VerifyOf(t).type # "sig" /\ ConfirmedOf(t).type # "sig"
  BY DEF LockOf, VerifyOf, ConfirmedOf

\* A step changes the queues, ...
LEMMA NextQueuesMade ==
    ASSUME TypeOK, SignaturesMade, [Next]_vars
    PROVE  QueuesMade(signed', links')
  <1>0. QueuesMade(signed', links)
    BY SignedGrows, MadeGrows
  <1>1. ASSUME links' = links PROVE QueuesMade(signed', links')
    BY <1>0, <1>1
  <1>2. ASSUME NEW t \in Tx, SendLock(t) \/ SendVerify(t) PROVE QueuesMade(signed', links')
    <2>1. PICK pkt \in {LockOf(t), VerifyOf(t)} :
              \E S \in Selections(Origin[t]) : links' = Put(links, Origin[t], S, pkt)
      BY <1>2 DEF SendLock, SendVerify, Opening
    <2> QED BY <1>0, <2>1, BroadcastMade, PacketsOf, FloodTypes
  <1>3. ASSUME NEW n \in Nodes, NEW p \in Nodes, Gate(n, p) PROVE QueuesMade(signed', links')
    BY <1>0, <1>3, TakeMade DEF Gate, HasPacket
  <1>4. ASSUME NEW n \in Nodes, NEW p \in Nodes, HandleNonceLock(n, p) \/ HandleTxConfirmed(n, p)
        PROVE  QueuesMade(signed', links')
    <2> DEFINE t == rd[<<n, p>>].tx
    <2>1. t \in Tx
      BY <1>4, ReaderType DEF HandleNonceLock, HandleTxConfirmed, Links, Handling
    <2> HIDE DEF t
    <2>2. PICK pkt \in {LockOf(t), ConfirmedOf(t)} :
              \E S \in Selections(n) : links' = Put(links, n, S, pkt)
      BY <1>4 DEF HandleNonceLock, HandleTxConfirmed, t
    <2> QED BY <1>0, <2>1, <2>2, BroadcastMade, PacketsOf, FloodTypes
  <1>5. ASSUME NEW n \in Nodes, NEW p \in Nodes, HandleTxVerify(n, p)
        PROVE  QueuesMade(signed', links')
    <2> DEFINE t == rd[<<n, p>>].tx
    <2>1. /\ t \in Tx
          /\ \/ links' = links
             \/ \E s \in Signatures :
                   /\ s.wit = n /\ signed' = signed \cup {<<n, t, s.seen>>}
                   /\ \E R, S : links' = Put(Put(links, n, R, SigOf(t, s)), n, S, VerifyOf(t))
      BY <1>5, VerifyEffect
    <2> HIDE DEF t
    <2>2. ASSUME NEW s \in Signatures, s.wit = n, signed' = signed \cup {<<n, t, s.seen>>},
                 NEW R, NEW S, links' = Put(Put(links, n, R, SigOf(t, s)), n, S, VerifyOf(t))
          PROVE  QueuesMade(signed', links')
      <3>1. MadeIn(signed', t, s)
        BY <2>2 DEF MadeIn
      <3>2. links \in [Links -> Seq(Packets)]
        BY DEF TypeOK, Links
      <3>3. SigOf(t, s).tx = t /\ SigOf(t, s).sig = s /\ SigOf(t, s) \in Packets
        BY <2>1, PacketsOf DEF SigOf
      <3>4. QueuesMade(signed', Put(links, n, R, SigOf(t, s)))
        BY <1>0, <3>1, <3>2, <3>3, PutMade
      <3>5. Put(links, n, R, SigOf(t, s)) \in [Links -> Seq(Packets)]
        BY <3>2, <3>3, PutType
      <3> QED BY <2>1, <2>2, <3>4, <3>5, PutMade, PacketsOf, FloodTypes
    <2> QED BY <1>1, <2>1, <2>2
  <1>6. ASSUME NEW n \in Nodes, NEW p \in Nodes, ReceiveSig(n, p)
        PROVE  QueuesMade(signed', links')
    <2>1. links[<<p, n>>] # <<>>
      BY <1>6 DEF ReceiveSig, HasPacket
    <2>2. /\ Take(n, p) \in [Links -> Seq(Packets)]
          /\ QueuesMade(signed', Take(n, p))
          /\ Packet(n, p) \in Packets
          /\ Packet(n, p).type = "sig" => MadeIn(signed', Packet(n, p).tx, Packet(n, p).sig)
      BY <1>0, <2>1, TakeType, TakeMade
    <2>3. \/ links' = Take(n, p)
          \/ \E S : links' = Put(Take(n, p), n, S, Packet(n, p))
      BY <1>6 DEF ReceiveSig
    <2> QED BY <2>2, <2>3, PutMade
  <1>7. ASSUME NEW j \in jobs, Confirmer(j) PROVE QueuesMade(signed', links')
    <2>1. CASE Announce(j)
      <3>1. j.tx \in Tx
        BY DEF TypeOK
      <3>2. \E S \in Selections(Origin[j.tx]) :
                links' = Put(links, Origin[j.tx], S, ConfirmedOf(j.tx))
        BY <2>1 DEF Announce
      <3> QED BY <1>0, <3>1, <3>2, BroadcastMade, PacketsOf, FloodTypes
    <2>2. CASE VerifyQuorum(j) \/ ConfirmTx(j)
      BY <1>1, <2>2 DEF VerifyQuorum, ConfirmTx, gossip
    <2> QED BY <1>7, <2>1, <2>2 DEF Confirmer
  <1>8. ASSUME NEW c \in Connections, Break(c) PROVE QueuesMade(signed', links')
    <2>1. \A l \in Links : links'[l] = <<>> \/ links'[l] = links[l]
      BY <1>8 DEF Break, Links
    <2> QED BY <1>0, <2>1 DEF QueuesMade
  <1>12. ASSUME NEW n \in Nodes, Restart(n) PROVE QueuesMade(signed', links')
    <2>1. \A l \in Links : links'[l] = <<>> \/ links'[l] = links[l]
      BY <1>12, RestartLoses
    <2> QED BY <1>0, <2>1 DEF QueuesMade
  <1>9. ASSUME NEW n \in Nodes, NEW p \in Nodes, AppendSig(n, p) \/ StartConfirm(n, p)
        PROVE  links' = links
    BY <1>9 DEF AppendSig, StartConfirm, gossip
  <1>10. ASSUME \/ \E n \in Nodes, t \in Tx : Expire(n, t)
                \/ \E c \in Connections : Reconnect(c)
                \/ \E n \in Nodes, W \in WitnessSets : Register(n, W)
         PROVE  links' = links
    BY <1>10 DEF Expire, Reconnect, Register, gossip
  <1>11. ASSUME UNCHANGED vars PROVE links' = links
    BY <1>11 DEF vars, gossip
  <1> QED
    BY <1>1, <1>2, <1>3, <1>4, <1>5, <1>6, <1>7, <1>8, <1>9, <1>10, <1>11, <1>12 DEF Next, Reader

\* ... the lists of collected signatures, and the goroutines that hold some.
LEMMA NextListsMade ==
    ASSUME TypeOK, SignaturesMade, [Next]_vars
    PROVE  CollectedMade(signed)' /\ ReadersMade(signed)' /\ JobsMade(signed)'
  <1>0. CollectedMade(signed') /\ ReadersMade(signed') /\ JobsMade(signed')
    BY SignedGrows, MadeGrows
  <1>1. ASSUME UNCHANGED <<sigs, rd, jobs>>
        PROVE  CollectedMade(signed)' /\ ReadersMade(signed)' /\ JobsMade(signed)'
    BY <1>0, <1>1 DEF CollectedMade, ReadersMade, JobsMade
  <1>2. ASSUME NEW n \in Nodes, NEW p \in Nodes, UNCHANGED <<sigs, jobs>>,
               \E r : /\ rd' = [rd EXCEPT ![<<n, p>>] = r]
                      /\ r.pc = "append" => MadeIn(signed', r.tx, r.sig)
                      /\ r.pc = "delete" => ListMade(signed', r.tx, r.sigs)
        PROVE  CollectedMade(signed)' /\ ReadersMade(signed)' /\ JobsMade(signed)'
    <2>1. PICK r : /\ rd' = [rd EXCEPT ![<<n, p>>] = r]
                   /\ r.pc = "append" => MadeIn(signed', r.tx, r.sig)
                   /\ r.pc = "delete" => ListMade(signed', r.tx, r.sigs)
      BY <1>2
    <2>2. \A l \in Links : rd'[l] = r \/ rd'[l] = rd[l]
      BY <2>1 DEF TypeOK, Links
    <2>3. ReadersMade(signed)'
      BY <1>0, <2>1, <2>2 DEF ReadersMade
    <2> QED BY <1>0, <1>2, <2>3 DEF CollectedMade, JobsMade
  <1>3. ASSUME NEW n \in Nodes, NEW p \in Nodes, Gate(n, p)
        PROVE  CollectedMade(signed)' /\ ReadersMade(signed)' /\ JobsMade(signed)'
    <2> DEFINE h == [pc |-> Packet(n, p).type, tx |-> Packet(n, p).tx]
    <2>1. h.pc \in {"lock", "verify", "confirmed"}
      BY <1>3 DEF Gate, FloodPackets
    <2>2. rd' = [rd EXCEPT ![<<n, p>>] = h] \/ rd' = rd
      BY <1>3 DEF Gate
    <2>3. UNCHANGED <<sigs, jobs>>
      BY <1>3 DEF Gate, origin
    <2> HIDE DEF h
    <2>4. CASE rd' = [rd EXCEPT ![<<n, p>>] = h]
      BY <1>2, <2>1, <2>3, <2>4
    <2> QED BY <1>1, <2>2, <2>3, <2>4
  <1>4. ASSUME NEW n \in Nodes, NEW p \in Nodes,
               HandleNonceLock(n, p) \/ HandleTxVerify(n, p) \/ HandleTxConfirmed(n, p)
        PROVE  CollectedMade(signed)' /\ ReadersMade(signed)' /\ JobsMade(signed)'
    <2>1. rd' = [rd EXCEPT ![<<n, p>>] = Idle] /\ UNCHANGED <<sigs, jobs>>
      BY <1>4 DEF HandleNonceLock, HandleTxVerify, HandleTxConfirmed, Handled, origin
    <2>2. Idle.pc # "append" /\ Idle.pc # "delete"
      BY DEF Idle
    <2> QED BY <1>2, <2>1, <2>2
  <1>5. ASSUME NEW n \in Nodes, NEW p \in Nodes, ReceiveSig(n, p)
        PROVE  CollectedMade(signed)' /\ ReadersMade(signed)' /\ JobsMade(signed)'
    <2> DEFINE a == [pc |-> "append", tx |-> Packet(n, p).tx, sig |-> Packet(n, p).sig]
    <2>1. MadeIn(signed', a.tx, a.sig)
      <3>1. Packet(n, p).type = "sig" /\ links[<<p, n>>] # <<>> /\ QueuesMade(signed', links)
        BY <1>5, SignedGrows, MadeGrows DEF ReceiveSig, HasPacket
      <3> QED BY <3>1, TakeMade
    <2>2. (rd' = [rd EXCEPT ![<<n, p>>] = a] \/ rd' = rd) /\ UNCHANGED <<sigs, jobs>>
      BY <1>5 DEF ReceiveSig, origin
    <2>3. a.pc = "append"
      OBVIOUS
    <2> HIDE DEF a
    <2>4. CASE rd' = [rd EXCEPT ![<<n, p>>] = a]
      BY <1>2, <2>1, <2>2, <2>3, <2>4
    <2> QED BY <1>1, <2>2, <2>4
  <1>6. ASSUME NEW n \in Nodes, NEW p \in Nodes, AppendSig(n, p)
        PROVE  CollectedMade(signed)' /\ ReadersMade(signed)' /\ JobsMade(signed)'
    <2> DEFINE r == rd[<<n, p>>]
               collected == Append(sigs[r.tx], r.sig)
               d == [pc |-> "delete", tx |-> r.tx, sigs |-> collected]
    <2>1. r \in Appending /\ MadeIn(signed', r.tx, r.sig)
      BY <1>0, <1>6, ReaderType DEF AppendSig, Links, ReadersMade
    <2>2. ListMade(signed', r.tx, collected)
      <3>1. sigs[r.tx] \in Seq(Signatures) /\ r.sig \in Signatures
        BY <2>1 DEF TypeOK, Appending
      <3>2. ListMade(signed', r.tx, sigs[r.tx])
        BY <1>0, <2>1 DEF CollectedMade, Appending
      <3>3. \A i \in 1 .. Len(collected) :
                collected[i] = r.sig \/ (i \in 1 .. Len(sigs[r.tx]) /\ collected[i] = sigs[r.tx][i])
        BY <3>1
      <3> QED BY <2>1, <3>2, <3>3 DEF ListMade
    <2>3. sigs' = [sigs EXCEPT ![r.tx] = collected] /\ UNCHANGED jobs
      BY <1>6 DEF AppendSig
    <2>4. rd' \in {[rd EXCEPT ![<<n, p>>] = d], [rd EXCEPT ![<<n, p>>] = Idle]}
      BY <1>6 DEF AppendSig
    <2> HIDE DEF collected
    <2>5. CollectedMade(signed)'
      <3>1. \A t \in Tx : sigs'[t] = sigs[t] \/ (t = r.tx /\ sigs'[t] = collected)
        BY <2>1, <2>3 DEF TypeOK, Appending
      <3> QED BY <1>0, <2>2, <3>1 DEF CollectedMade
    <2>6. \A l \in Links : rd'[l] = d \/ rd'[l] = Idle \/ rd'[l] = rd[l]
      BY <2>4 DEF TypeOK, Links
    <2>7. ReadersMade(signed)'
      BY <1>0, <2>2, <2>6 DEF ReadersMade, Idle
    <2> QED BY <1>0, <2>3, <2>5, <2>7 DEF JobsMade
  <1>7. ASSUME NEW n \in Nodes, NEW p \in Nodes, StartConfirm(n, p)
        PROVE  CollectedMade(signed)' /\ ReadersMade(signed)' /\ JobsMade(signed)'
    <2> DEFINE r == rd[<<n, p>>]
               j == [pc |-> "quorum", tx |-> r.tx, sigs |-> r.sigs]
    <2>1. ListMade(signed', r.tx, r.sigs)
      BY <1>0, <1>7 DEF StartConfirm, ReadersMade, Links
    <2>2. jobs' = jobs \cup {j} /\ UNCHANGED sigs /\ rd' = [rd EXCEPT ![<<n, p>>] = Idle]
      BY <1>7 DEF StartConfirm
    <2>3. JobsMade(signed)'
      BY <1>0, <2>1, <2>2 DEF JobsMade
    <2>4. \A l \in Links : rd'[l] = Idle \/ rd'[l] = rd[l]
      BY <2>2 DEF TypeOK, Links
    <2>5. ReadersMade(signed)'
      BY <1>0, <2>4 DEF ReadersMade, Idle
    <2> QED BY <1>0, <2>2, <2>3, <2>5 DEF CollectedMade
  <1>8. ASSUME NEW j \in jobs, Confirmer(j)
        PROVE  CollectedMade(signed)' /\ ReadersMade(signed)' /\ JobsMade(signed)'
    <2>1. UNCHANGED <<sigs, rd>>
      BY <1>8 DEF Confirmer, VerifyQuorum, ConfirmTx, Announce
    <2>2. \A k \in jobs' : k \in jobs \/ (k.tx = j.tx /\ k.sigs = j.sigs)
      <3>1. j \in Jobs
        BY DEF TypeOK, Jobs
      <3>2. \A c : [j EXCEPT !.pc = c].tx = j.tx /\ [j EXCEPT !.pc = c].sigs = j.sigs
        BY <3>1 DEF Jobs
      <3>3. \A k \in jobs' : k \in jobs \/ \E c : k = [j EXCEPT !.pc = c]
        BY <1>8 DEF Confirmer, VerifyQuorum, ConfirmTx, AfterFailure, Announce
      <3> QED BY <3>2, <3>3
    <2>3. JobsMade(signed)'
      BY <1>0, <2>2 DEF JobsMade
    <2> QED BY <1>0, <2>1, <2>3 DEF CollectedMade, ReadersMade
  <1>9. ASSUME NEW t \in Tx, SendLock(t) \/ SendVerify(t) PROVE UNCHANGED <<sigs, rd, jobs>>
    BY <1>9 DEF SendLock, SendVerify
  <1>10. ASSUME \/ \E n \in Nodes, t \in Tx : Expire(n, t)
                \/ \E c \in Connections : Break(c) \/ Reconnect(c)
                \/ \E n \in Nodes, W \in WitnessSets : Register(n, W)
                \/ UNCHANGED vars
         PROVE  UNCHANGED <<sigs, rd, jobs>>
    BY <1>10 DEF Expire, Break, Reconnect, Register, vars, origin
  <1>11. ASSUME NEW n \in Nodes, Restart(n)
         PROVE  CollectedMade(signed)' /\ ReadersMade(signed)' /\ JobsMade(signed)'
    <2>1. /\ \A l \in Links : rd'[l] = Idle \/ rd'[l] = rd[l]
          /\ jobs' \subseteq jobs /\ UNCHANGED sigs
      BY <1>11, RestartLoses
    <2>2. ReadersMade(signed)'
      BY <1>0, <2>1 DEF ReadersMade, Idle
    <2> QED BY <1>0, <2>1, <2>2 DEF CollectedMade, JobsMade
  <1> QED BY <1>1, <1>3, <1>4, <1>5, <1>6, <1>7, <1>8, <1>9, <1>10, <1>11 DEF Next, Reader

\* No step invents a signature.
LEMMA NextSignaturesMade ==
    ASSUME TypeOK, SignaturesMade, [Next]_vars
    PROVE  SignaturesMade'
  <1>1. QueuesMade(signed, links)'
    BY NextQueuesMade DEF QueuesMade
  <1> QED BY <1>1, NextListsMade DEF SignaturesMade

\* There are none at the start.
LEMMA InitSignaturesMade == Init => SignaturesMade
  BY DEF Init, SignaturesMade, QueuesMade, CollectedMade, ReadersMade, JobsMade, ListMade,
         Links, Idle

----------------------------------------------------------------------------
(* The witnesses of a transaction that have signed it with its lock, and the
   goroutines and confirmations that rely on there being a quorum of them. *)
Backers(t) == {w \in trusted[t] : <<w, t, TRUE>> \in signed}
QuorumBacked ==
    /\ \A j \in jobs : j.pc = "confirm" => Cardinality(Backers(j.tx)) >= QuorumK
    /\ \A t \in Tx : commits[t] > 0 => Cardinality(Backers(t)) >= QuorumK

\* The witnesses counted by VerifyQuorum have signed with the lock.
LEMMA ValidSignersBack ==
    ASSUME TypeOK, JobsMade(signed), NEW j \in jobs, VerifyQuorum(j),
           trusted' = [trusted EXCEPT ![j.tx] = @ \cup witnesses[Origin[j.tx]]]
    PROVE  ValidSigners(j) \subseteq Backers(j.tx)'
  <1> SUFFICES ASSUME NEW w \in ValidSigners(j) PROVE w \in Backers(j.tx)'
    OBVIOUS
  <1>1. PICK s \in ToSet(j.sigs) : s.seen /\ s.wit = w
    BY DEF ValidSigners
  <1>2. j.sigs \in Seq(Signatures) /\ j.tx \in Tx
    BY DEF TypeOK
  <1>3. PICK i \in 1 .. Len(j.sigs) : s = j.sigs[i]
    BY <1>1, <1>2 DEF ToSet
  <1>4. <<s.wit, j.tx, s.seen>> \in signed /\ s \in Signatures
    BY <1>2, <1>3 DEF JobsMade, ListMade, MadeIn
  <1>5. s.seen = TRUE
    BY <1>1, <1>4 DEF Signatures
  <1>6. w \in trusted'[j.tx] /\ signed' = signed
    <2>1. trusted \in [Tx -> SUBSET Nodes]
      BY DEF TypeOK
    <2>2. w \in witnesses[Origin[j.tx]]
      BY DEF ValidSigners
    <2>3. w \in trusted'[j.tx]
      BY <1>2, <2>1, <2>2
    <2> QED BY <2>3 DEF VerifyQuorum
  <1> QED BY <1>1, <1>4, <1>5, <1>6 DEF Backers

\* VerifyQuorum lets a goroutine pass only with a quorum.
LEMMA NextQuorumBacked ==
    ASSUME TypeOK, SignaturesMade, QuorumBacked, [Next]_vars
    PROVE  QuorumBacked'
  <1>0. ASSUME NEW t \in Tx, NEW W, W \subseteq Backers(t)', Cardinality(W) >= QuorumK
        PROVE  Cardinality(Backers(t)') >= QuorumK
    <2>0. TypeOK'
      BY NextTypeOK
    <2>1. trusted'[t] \subseteq Nodes /\ IsFiniteSet(Nodes)
      BY <2>0, FlowAssumption DEF TypeOK
    <2>2. IsFiniteSet(Backers(t)')
      BY <2>1, FS_Subset DEF Backers
    <2>3. Cardinality(W) <= Cardinality(Backers(t)') /\ IsFiniteSet(W)
      BY <1>0, <2>2, FS_Subset
    <2> QED BY <1>0, <2>2, <2>3, FS_CardinalityType, FlowAssumption
  <1>9. ASSUME NEW t \in Tx, Cardinality(Backers(t)) >= QuorumK
        PROVE  Cardinality(Backers(t)') >= QuorumK
    <2>1. Backers(t) \subseteq Backers(t)'
      BY SignedGrows, TrustGrows DEF Backers
    <2> QED BY <1>0, <1>9, <2>1
  <1>1. ASSUME \A j \in jobs' : j.pc = "confirm" =>
                   j \in jobs \/ (j.tx \in Tx /\ Cardinality(Backers(j.tx)') >= QuorumK),
               \A t \in Tx : commits'[t] > 0 =>
                   commits[t] > 0 \/ Cardinality(Backers(t)) >= QuorumK
        PROVE  QuorumBacked'
    <2>1. \A j \in jobs' : j.pc = "confirm" => Cardinality(Backers(j.tx)') >= QuorumK
      <3> SUFFICES ASSUME NEW j \in jobs', j.pc = "confirm", j \in jobs
                   PROVE  Cardinality(Backers(j.tx)') >= QuorumK
        BY <1>1
      <3>1. j.tx \in Tx /\ Cardinality(Backers(j.tx)) >= QuorumK
        BY DEF TypeOK, QuorumBacked
      <3> QED BY <1>9, <3>1
    <2>2. \A t \in Tx : commits'[t] > 0 => Cardinality(Backers(t)') >= QuorumK
      BY <1>9, <1>1 DEF QuorumBacked
    <2> QED BY <2>1, <2>2 DEF QuorumBacked, Backers
  <1>2. ASSUME NEW j \in jobs, VerifyQuorum(j) PROVE QuorumBacked'
    <2>1. j.tx \in Tx /\ [j EXCEPT !.pc = "confirm"].tx = j.tx
      BY DEF TypeOK
    <2>2. PICK e \in BOOLEAN :
              /\ jobs' = (jobs \ {j})
                            \cup (IF Cardinality(ValidSigners(j)) >= QuorumK /\ ~e
                                  THEN {[j EXCEPT !.pc = "confirm"]} ELSE {})
              /\ trusted' = IF e THEN trusted
                            ELSE [trusted EXCEPT ![j.tx] = @ \cup witnesses[Origin[j.tx]]]
              /\ commits' = commits
      BY <1>2 DEF VerifyQuorum
    <2>3. CASE Cardinality(ValidSigners(j)) >= QuorumK /\ ~e
      <3>1. ValidSigners(j) \subseteq Backers(j.tx)'
        BY <1>2, <2>2, <2>3, ValidSignersBack DEF SignaturesMade
      <3>2. Cardinality(Backers(j.tx)') >= QuorumK
        BY <1>0, <2>1, <2>3, <3>1
      <3> QED BY <1>1, <2>1, <2>2, <2>3, <3>2
    <2>4. CASE ~(Cardinality(ValidSigners(j)) >= QuorumK /\ ~e)
      BY <1>1, <2>2, <2>4
    <2> QED BY <2>3, <2>4
  <1>3. ASSUME NEW j \in jobs, ConfirmTx(j) PROVE QuorumBacked'
    <2>1. j.tx \in Tx /\ [j EXCEPT !.pc = "announce"].pc = "announce"
      BY DEF TypeOK
    <2>2. Cardinality(Backers(j.tx)) >= QuorumK
      BY <1>3 DEF ConfirmTx, QuorumBacked
    <2>3. \A t \in Tx : commits'[t] > 0 => commits[t] > 0 \/ t = j.tx
      BY <1>3, <2>1 DEF ConfirmTx, TypeOK
    <2> QED BY <1>1, <1>3, <2>1, <2>2, <2>3 DEF ConfirmTx, AfterFailure
  <1>4. ASSUME NEW j \in jobs, Announce(j) PROVE QuorumBacked'
    BY <1>1, <1>4 DEF Announce
  <1>5. ASSUME NEW n \in Nodes, NEW p \in Nodes, Reader(n, p) PROVE QuorumBacked'
    <2>1. CASE StartConfirm(n, p)
      BY <1>1, <2>1 DEF StartConfirm
    <2>2. CASE Gate(n, p) \/ ReceiveSig(n, p) \/ AppendSig(n, p)
      BY <1>1, <2>2 DEF Gate, ReceiveSig, AppendSig, origin
    <2>3. CASE HandleNonceLock(n, p) \/ HandleTxVerify(n, p) \/ HandleTxConfirmed(n, p)
      BY <1>1, <2>3 DEF HandleNonceLock, HandleTxVerify, HandleTxConfirmed, origin
    <2> QED BY <1>5, <2>1, <2>2, <2>3 DEF Reader
  <1>6. ASSUME NEW t \in Tx, SendLock(t) \/ SendVerify(t) PROVE QuorumBacked'
    BY <1>1, <1>6 DEF SendLock, SendVerify
  <1>7. ASSUME \/ \E n \in Nodes, t \in Tx : Expire(n, t)
               \/ \E c \in Connections : Break(c) \/ Reconnect(c)
               \/ \E n \in Nodes, W \in WitnessSets : Register(n, W)
               \/ UNCHANGED vars
        PROVE  QuorumBacked'
    BY <1>1, <1>7 DEF Expire, Break, Reconnect, Register, vars, origin
  <1>8. ASSUME NEW n \in Nodes, Restart(n) PROVE QuorumBacked'
    <2>1. UNCHANGED commits /\ jobs' \subseteq jobs
      BY <1>8, RestartLoses
    <2> QED BY <1>1, <2>1
  <1> QED BY <1>2, <1>3, <1>4, <1>5, <1>6, <1>7, <1>8 DEF Next, Confirmer

(* No transaction is confirmed without QuorumK different active witnesses that
   signed it while they held its lock, on any network, however packets are
   lost, doubled and delayed, whoever else answers and whatever witnesses are
   registered meanwhile (countValidSigs, RegisterWitnesses). *)
THEOREM ConfirmedByQuorum == Spec => []QuorumSafety
  <1>1. Init => QuorumBacked
    BY DEF Init, QuorumBacked
  <1>2. QuorumBacked => QuorumSafety
    BY DEF QuorumBacked, QuorumSafety, Backers
  <1> QED BY <1>1, <1>2, InitTypeOK, NextTypeOK, InitSignaturesMade, NextSignaturesMade,
             NextQuorumBacked, PTL DEF Spec

----------------------------------------------------------------------------
(* One attempt to confirm: the reader that closed the transaction, then the
   confirmTx goroutine it started, then the confirmation. *)
Closers(t) == {l \in Links : rd[l].pc = "delete" /\ rd[l].tx = t}
Attempts(t) == {j \in jobs : j.tx = t /\ j.pc \in {"quorum", "confirm"}}
AtMostOne(S) == \A x, y \in S : x = y

OneAttempt ==
    \A t \in Tx :
        /\ AtMostOne(Closers(t)) /\ AtMostOne(Attempts(t)) /\ commits[t] <= 1
        /\ Attempts(t) # {} => Closers(t) = {}
        /\ commits[t] > 0 => Closers(t) = {} /\ Attempts(t) = {}
        /\ t \notin closed => Closers(t) = {} /\ Attempts(t) = {} /\ commits[t] = 0

\* Only the signature that closes an entry starts an attempt.
LEMMA NextOneAttempt ==
    ASSUME TypeOK, OneAttempt, [Next]_vars
    PROVE  OneAttempt'
  <1> USE DEF OneAttempt, AtMostOne
  <1>1. ASSUME \A t \in Tx : Closers(t)' \subseteq Closers(t) /\ Attempts(t)' \subseteq Attempts(t),
               closed' = closed, commits' = commits
        PROVE  OneAttempt'
    BY <1>1
  <1>2. ASSUME UNCHANGED <<closed, jobs, commits>>,
               NEW l \in Links, rd[l].pc # "delete",
               \E r : r.pc # "delete" /\ (rd' = [rd EXCEPT ![l] = r] \/ rd' = rd)
        PROVE  OneAttempt'
    <2>1. \A m \in Links : rd'[m] = rd[m] \/ (rd'[m].pc # "delete" /\ rd[m].pc # "delete")
      BY <1>2 DEF TypeOK, Links
    <2>2. \A t \in Tx : Closers(t)' = Closers(t)
      BY <2>1 DEF Closers
    <2> QED BY <1>1, <1>2, <2>2 DEF Attempts
  <1>3. ASSUME NEW n \in Nodes, NEW p \in Nodes, Gate(n, p) PROVE OneAttempt'
    <2> DEFINE h == [pc |-> Packet(n, p).type, tx |-> Packet(n, p).tx]
    <2>1. h.pc # "delete" /\ rd[<<n, p>>].pc # "delete" /\ <<n, p>> \in Links
      BY <1>3 DEF Gate, HasPacket, FloodPackets, Idle, Links
    <2>2. rd' = [rd EXCEPT ![<<n, p>>] = h] \/ rd' = rd
      BY <1>3 DEF Gate
    <2>3. UNCHANGED <<closed, jobs, commits>>
      BY <1>3 DEF Gate, origin
    <2> HIDE DEF h
    <2> QED BY <1>2, <2>1, <2>2, <2>3
  <1>4. ASSUME NEW n \in Nodes, NEW p \in Nodes,
               HandleNonceLock(n, p) \/ HandleTxVerify(n, p) \/ HandleTxConfirmed(n, p)
        PROVE  OneAttempt'
    <2>1. /\ rd' = [rd EXCEPT ![<<n, p>>] = Idle] /\ UNCHANGED <<closed, jobs, commits>>
          /\ rd[<<n, p>>].pc # "delete"
      BY <1>4 DEF HandleNonceLock, HandleTxVerify, HandleTxConfirmed, Handled, origin
    <2>2. Idle.pc # "delete" /\ <<n, p>> \in Links
      BY DEF Idle, Links
    <2> QED BY <1>2, <2>1, <2>2
  <1>5. ASSUME NEW n \in Nodes, NEW p \in Nodes, ReceiveSig(n, p) PROVE OneAttempt'
    <2> DEFINE a == [pc |-> "append", tx |-> Packet(n, p).tx, sig |-> Packet(n, p).sig]
    <2>1. a.pc # "delete" /\ rd[<<n, p>>].pc # "delete" /\ <<n, p>> \in Links
      BY <1>5 DEF ReceiveSig, HasPacket, Idle, Links
    <2>2. rd' = [rd EXCEPT ![<<n, p>>] = a] \/ rd' = rd
      BY <1>5 DEF ReceiveSig
    <2>3. UNCHANGED <<closed, jobs, commits>>
      BY <1>5 DEF ReceiveSig, origin
    <2> HIDE DEF a
    <2> QED BY <1>2, <2>1, <2>2, <2>3
  <1>6. ASSUME NEW n \in Nodes, NEW p \in Nodes, AppendSig(n, p) PROVE OneAttempt'
    <2> DEFINE r == rd[<<n, p>>]
               collected == Append(sigs[r.tx], r.sig)
               d == [pc |-> "delete", tx |-> r.tx, sigs |-> collected]
    <2>1. r.pc = "append" /\ r.tx \in Tx /\ <<n, p>> \in Links
      BY <1>6, ReaderType DEF AppendSig, Links, Appending
    <2>2. d.pc = "delete" /\ d.tx = r.tx /\ Idle.pc # "delete"
      BY DEF Idle
    <2>3. CASE Completes(r.tx, collected)
      <3>1. /\ closed' = closed \cup {r.tx} /\ rd' = [rd EXCEPT ![<<n, p>>] = d]
            /\ UNCHANGED <<jobs, commits>> /\ r.tx \notin closed
        BY <1>6, <2>3 DEF AppendSig, Completes
      <3> HIDE DEF d
      <3>2. \A t \in Tx : Closers(t)' = Closers(t) \cup (IF t = r.tx THEN {<<n, p>>} ELSE {})
        <4>1. \A l \in Links : rd'[l] = IF l = <<n, p>> THEN d ELSE rd[l]
          BY <3>1 DEF TypeOK, Links
        <4> QED BY <2>1, <2>2, <4>1 DEF Closers
      <3>3. \A t \in Tx : Attempts(t)' = Attempts(t)
        BY <3>1 DEF Attempts
      <3> QED BY <2>1, <3>1, <3>2, <3>3
    <2>4. CASE ~Completes(r.tx, collected)
      <3>1. rd' = [rd EXCEPT ![<<n, p>>] = Idle] /\ UNCHANGED <<closed, jobs, commits>>
        BY <1>6, <2>4 DEF AppendSig
      <3> QED BY <1>2, <2>1, <2>2, <3>1
    <2> QED BY <2>3, <2>4
  <1>7. ASSUME NEW n \in Nodes, NEW p \in Nodes, StartConfirm(n, p) PROVE OneAttempt'
    <2> DEFINE r == rd[<<n, p>>]
               j == [pc |-> "quorum", tx |-> r.tx, sigs |-> r.sigs]
    <2>1. r.pc = "delete" /\ r.tx \in Tx /\ <<n, p>> \in Links
      BY <1>7, ReaderType DEF StartConfirm, Links, Deleting
    <2>2. jobs' = jobs \cup {j} /\ rd' = [rd EXCEPT ![<<n, p>>] = Idle]
          /\ UNCHANGED <<closed, commits>>
      BY <1>7 DEF StartConfirm
    <2>3. j.tx = r.tx /\ j.pc = "quorum" /\ Idle.pc # "delete"
      BY DEF Idle
    <2> HIDE DEF j
    <2>4. \A t \in Tx : Closers(t)' = Closers(t) \ {<<n, p>>}
      BY <2>2, <2>3 DEF Closers, TypeOK, Links
    <2>5. \A t \in Tx : Attempts(t)' = Attempts(t) \cup (IF t = r.tx THEN {j} ELSE {})
      BY <2>2, <2>3 DEF Attempts
    <2>6. <<n, p>> \in Closers(r.tx)
      BY <2>1 DEF Closers
    <2> QED BY <2>1, <2>2, <2>4, <2>5, <2>6
  <1>8. ASSUME NEW j \in jobs, VerifyQuorum(j) PROVE OneAttempt'
    <2> DEFINE k == [j EXCEPT !.pc = "confirm"]
    <2>1. j.tx \in Tx /\ j.pc = "quorum" /\ k.tx = j.tx
      BY <1>8 DEF TypeOK, VerifyQuorum
    <2>2. /\ jobs' = (jobs \ {j}) \cup {k} \/ jobs' = jobs \ {j}
          /\ UNCHANGED <<rd, closed, commits>>
      BY <1>8 DEF VerifyQuorum
    <2> HIDE DEF k
    <2>3. /\ j \in Attempts(j.tx)
          /\ \A t \in Tx : Closers(t)' = Closers(t)
          /\ \A t \in Tx : t # j.tx => Attempts(t)' = Attempts(t)
          /\ Attempts(j.tx)' \subseteq (Attempts(j.tx) \ {j}) \cup {k}
      BY <2>1, <2>2 DEF Attempts, Closers
    <2> QED BY <2>1, <2>2, <2>3
  <1>9. ASSUME NEW j \in jobs, ConfirmTx(j) PROVE OneAttempt'
    <2> DEFINE k == [j EXCEPT !.pc = "announce"]
    <2>1. j.tx \in Tx /\ j.pc = "confirm" /\ k.tx = j.tx /\ k.pc = "announce"
      BY <1>9 DEF TypeOK, ConfirmTx
    <2>2. /\ \/ jobs' = (jobs \ {j}) \cup {k} /\ commits' = [commits EXCEPT ![j.tx] = @ + 1]
             \/ jobs' = jobs \ {j} /\ commits' = commits
          /\ UNCHANGED <<rd, closed>>
      BY <1>9 DEF ConfirmTx, AfterFailure
    <2> HIDE DEF k
    <2>3. /\ j \in Attempts(j.tx)
          /\ \A t \in Tx : Closers(t)' = Closers(t)
          /\ \A t \in Tx : Attempts(t)' = Attempts(t) \ {j}
      BY <2>1, <2>2 DEF Attempts, Closers
    <2>4. commits \in [Tx -> Nat] /\ commits[j.tx] = 0
      <3>1. commits \in [Tx -> Nat] /\ commits[j.tx] \in Nat
        BY <2>1 DEF TypeOK
      <3>2. ~(commits[j.tx] > 0)
        BY <2>1, <2>3
      <3> QED BY <3>1, <3>2
    <2>5. \A t \in Tx : commits'[t] = commits[t] \/ (t = j.tx /\ commits'[t] = 1)
      BY <2>1, <2>2, <2>4
    <2>6. Closers(j.tx) = {} /\ Attempts(j.tx)' = {} /\ j.tx \in closed
      BY <2>1, <2>3
    <2> QED BY <2>2, <2>3, <2>4, <2>5, <2>6
  <1>10. ASSUME NEW j \in jobs, Announce(j) PROVE OneAttempt'
    BY <1>1, <1>10 DEF Announce, Attempts, Closers
  <1>11. ASSUME NEW t \in Tx, SendLock(t) \/ SendVerify(t) PROVE OneAttempt'
    BY <1>1, <1>11 DEF SendLock, SendVerify, Attempts, Closers
  <1>12. ASSUME \/ \E n \in Nodes, t \in Tx : Expire(n, t)
                \/ \E c \in Connections : Break(c) \/ Reconnect(c)
                \/ \E n \in Nodes, W \in WitnessSets : Register(n, W)
                \/ UNCHANGED vars
         PROVE  OneAttempt'
    BY <1>1, <1>12 DEF Expire, Break, Reconnect, Register, vars, origin, Attempts, Closers
  <1>13. ASSUME NEW n \in Nodes, Restart(n) PROVE OneAttempt'
    <2>1. \A t \in Tx : Closers(t)' \subseteq Closers(t) /\ Attempts(t)' \subseteq Attempts(t)
      BY <1>13, RestartLoses DEF Closers, Attempts, Idle
    <2> QED BY <1>1, <1>13, <2>1, RestartLoses
  <1> QED BY <1>3, <1>4, <1>5, <1>6, <1>7, <1>8, <1>9, <1>10, <1>11, <1>12, <1>13
      DEF Next, Reader, Confirmer

\* At most one attempt, counted.
LEMMA OneAttemptCounted == TypeOK /\ OneAttempt => ConfirmedOnce
  <1> SUFFICES ASSUME TypeOK, OneAttempt, NEW t \in Tx
               PROVE  commits[t] + Cardinality(Attempts(t)) + Cardinality(Closers(t)) <= 1
    BY DEF ConfirmedOnce, Attempts, Closers, Links
  <1>1. \A S : AtMostOne(S) => Cardinality(S) = IF S = {} THEN 0 ELSE 1
    <2> SUFFICES ASSUME NEW S, AtMostOne(S) PROVE Cardinality(S) = IF S = {} THEN 0 ELSE 1
      OBVIOUS
    <2>1. CASE S = {}
      BY <2>1, FS_EmptySet
    <2>2. CASE S # {}
      <3>1. PICK x : S = {x}
        BY <2>2 DEF AtMostOne
      <3> QED BY <2>2, <3>1, FS_Singleton
    <2> QED BY <2>1, <2>2
  <1>2. commits[t] \in Nat
    BY DEF TypeOK
  <1> QED BY <1>1, <1>2 DEF OneAttempt

(* However many signatures arrive, and however the readers that append them
   interleave, at most one goroutine gets to confirm a transaction, and it does
   so once (handleWitnessSig, confirmTx). *)
THEOREM AtMostOneConfirmation == Spec => []ConfirmedOnce
  <1>1. Init => OneAttempt
    BY DEF Init, OneAttempt, AtMostOne, Closers, Attempts, Idle, Links
  <1> QED BY <1>1, InitTypeOK, NextTypeOK, NextOneAttempt, OneAttemptCounted, PTL DEF Spec
----------------------------------------------------------------------------
(* The confirmed transactions, and the places in which a confirmation travels
   from ConfirmTx to the account of a receiver: a confirmTx goroutine that is
   to announce it, a queue, a reader of handleTxConfirmed. *)
Done == {t \in Tx : commits[t] > 0}
QueuesTrue(C, L) ==
    \A l \in Links : \A i \in 1 .. Len(L[l]) :
        L[l][i].type = "confirmed" => L[l][i].tx \in C
ReadersTrue(C) == \A l \in Links : rd[l].pc = "confirmed" => rd[l].tx \in C
JobsTrue(C) == \A j \in jobs : j.pc = "announce" => j.tx \in C
CreditsTrue(C) == \A n \in Nodes : credited[n] \subseteq C

AnnouncementsTrue ==
    /\ QueuesTrue(Done, links)
    /\ ReadersTrue(Done)
    /\ JobsTrue(Done)
    /\ CreditsTrue(Done)

\* Confirmations are never taken back.
LEMMA DoneGrows ==
    ASSUME TypeOK, [Next]_vars
    PROVE  Done \subseteq Done'
  <1>1. ASSUME UNCHANGED commits PROVE Done \subseteq Done'
    BY <1>1 DEF Done
  <1>2. ASSUME NEW n \in Nodes, NEW p \in Nodes, Reader(n, p) PROVE UNCHANGED commits
    BY <1>2 DEF Reader, Gate, HandleNonceLock, HandleTxVerify, ReceiveSig, AppendSig,
                StartConfirm, HandleTxConfirmed, origin
  <1>3. ASSUME NEW j \in jobs, Confirmer(j) PROVE Done \subseteq Done'
    <2>1. CASE commits' = [commits EXCEPT ![j.tx] = @ + 1]
      <3>1. \A t \in Tx : commits[t] \in Nat /\ commits'[t] \in {commits[t], commits[t] + 1}
        BY <2>1 DEF TypeOK
      <3> QED BY <3>1 DEF Done
    <2>2. CASE UNCHANGED commits
      BY <1>1, <2>2
    <2> QED BY <1>3, <2>1, <2>2 DEF Confirmer, VerifyQuorum, ConfirmTx, Announce
  <1>4. ASSUME NEW t \in Tx, SendLock(t) \/ SendVerify(t) PROVE UNCHANGED commits
    BY <1>4 DEF SendLock, SendVerify
  <1>5. ASSUME \/ \E n \in Nodes, t \in Tx : Expire(n, t)
               \/ \E c \in Connections : Break(c) \/ Reconnect(c)
               \/ \E n \in Nodes, W \in WitnessSets : Register(n, W)
               \/ \E n \in Nodes : Restart(n)
               \/ UNCHANGED vars
        PROVE  UNCHANGED commits
    BY <1>5 DEF Expire, Break, Reconnect, Register, Restart, vars, origin
  <1> QED BY <1>1, <1>2, <1>3, <1>4, <1>5 DEF Next

\* Announcements that are true stay so when more is confirmed.
LEMMA TrueGrows ==
    ASSUME AnnouncementsTrue, NEW C, Done \subseteq C
    PROVE  QueuesTrue(C, links) /\ ReadersTrue(C) /\ JobsTrue(C) /\ CreditsTrue(C)
  BY DEF AnnouncementsTrue, QueuesTrue, ReadersTrue, JobsTrue, CreditsTrue

\* Sending, relaying and taking packets keeps every announcement true if the
\* packet sent is.
LEMMA PutTrue ==
    ASSUME NEW C, NEW L \in [Links -> Seq(Packets)], QueuesTrue(C, L),
           NEW n, NEW S, NEW pkt \in Packets,
           pkt.type = "confirmed" => pkt.tx \in C
    PROVE  QueuesTrue(C, Put(L, n, S, pkt))
  <1> SUFFICES ASSUME NEW l \in Links, NEW i \in 1 .. Len(Put(L, n, S, pkt)[l]),
                      Put(L, n, S, pkt)[l][i].type = "confirmed"
               PROVE  Put(L, n, S, pkt)[l][i].tx \in C
    BY DEF QueuesTrue
  <1>1. \/ Put(L, n, S, pkt)[l][i] = pkt
        \/ i \in 1 .. Len(L[l]) /\ Put(L, n, S, pkt)[l][i] = L[l][i]
    BY PutType
  <1> QED BY <1>1 DEF QueuesTrue

\* A broadcast of what is true.
LEMMA BroadcastTrue ==
    ASSUME TypeOK, NEW C, QueuesTrue(C, links), NEW n, NEW pkt \in Packets,
           pkt.type = "confirmed" => pkt.tx \in C,
           \E S \in Selections(n) : links' = Put(links, n, S, pkt)
    PROVE  QueuesTrue(C, links')
  <1>1. links \in [Links -> Seq(Packets)]
    BY DEF TypeOK, Links
  <1> QED BY <1>1, PutTrue

\* An announcement that is taken from a queue is true.
LEMMA TakeTrue ==
    ASSUME TypeOK, NEW C, QueuesTrue(C, links), NEW n \in Nodes, NEW p \in Nodes,
           links[<<p, n>>] # <<>>
    PROVE  /\ QueuesTrue(C, Take(n, p))
           /\ Packet(n, p).type = "confirmed" => Packet(n, p).tx \in C
  <1>1. QueuesTrue(C, Take(n, p))
    <2> SUFFICES ASSUME NEW l \in Links, NEW i \in 1 .. Len(Take(n, p)[l]),
                        Take(n, p)[l][i].type = "confirmed"
                 PROVE  Take(n, p)[l][i].tx \in C
      BY DEF QueuesTrue
    <2>1. \E k \in 1 .. Len(links[l]) : Take(n, p)[l][i] = links[l][k]
      BY TakeType
    <2> QED BY <2>1 DEF QueuesTrue
  <1>2. <<p, n>> \in Links
    BY DEF Links
  <1> QED BY <1>1, <1>2, TakeType DEF QueuesTrue

\* The other packets announce nothing.
LEMMA OtherTypes ==
    ASSUME NEW t, NEW s
    PROVE  /\ LockOf(t).type # "confirmed" /\ VerifyOf(t).type # "confirmed"
           /\ SigOf(t, s).type # "confirmed" /\ ConfirmedOf(t).tx = t
  BY DEF LockOf, VerifyOf, SigOf, ConfirmedOf


\* TxConfirmed enters a queue only from a goroutine that is to announce it or
\* from a reader that relays it.
LEMMA NextQueuesTrue ==
    ASSUME TypeOK, AnnouncementsTrue, [Next]_vars
    PROVE  QueuesTrue(Done', links')
  <1>0. QueuesTrue(Done', links) /\ ReadersTrue(Done') /\ JobsTrue(Done')
    BY DoneGrows, TrueGrows
  <1>1. ASSUME links' = links PROVE QueuesTrue(Done', links')
    BY <1>0, <1>1
  <1>2. ASSUME NEW t \in Tx, SendLock(t) \/ SendVerify(t) PROVE QueuesTrue(Done', links')
    <2>1. PICK pkt \in {LockOf(t), VerifyOf(t)} :
              \E S \in Selections(Origin[t]) : links' = Put(links, Origin[t], S, pkt)
      BY <1>2 DEF SendLock, SendVerify, Opening
    <2> QED BY <1>0, <2>1, BroadcastTrue, PacketsOf, OtherTypes
  <1>3. ASSUME NEW n \in Nodes, NEW p \in Nodes, Gate(n, p) PROVE QueuesTrue(Done', links')
    BY <1>0, <1>3, TakeTrue DEF Gate, HasPacket
  <1>4. ASSUME NEW n \in Nodes, NEW p \in Nodes, HandleNonceLock(n, p) \/ HandleTxConfirmed(n, p)
        PROVE  QueuesTrue(Done', links')
    <2> DEFINE t == rd[<<n, p>>].tx
    <2>1. t \in Tx
      BY <1>4, ReaderType DEF HandleNonceLock, HandleTxConfirmed, Links, Handling
    <2>2. HandleTxConfirmed(n, p) => t \in Done'
      BY <1>0 DEF HandleTxConfirmed, ReadersTrue, Links
    <2> HIDE DEF t
    <2>3. PICK pkt \in Packets : /\ pkt.type = "confirmed" => pkt.tx \in Done'
                                 /\ \E S \in Selections(n) : links' = Put(links, n, S, pkt)
      <3>1. CASE HandleNonceLock(n, p)
        BY <2>1, <3>1, PacketsOf, OtherTypes DEF HandleNonceLock, t
      <3>2. CASE HandleTxConfirmed(n, p)
        BY <2>1, <2>2, <3>2, PacketsOf, OtherTypes DEF HandleTxConfirmed, t
      <3> QED BY <1>4, <3>1, <3>2
    <2> QED BY <1>0, <2>3, BroadcastTrue
  <1>5. ASSUME NEW n \in Nodes, NEW p \in Nodes, HandleTxVerify(n, p)
        PROVE  QueuesTrue(Done', links')
    <2> DEFINE t == rd[<<n, p>>].tx
    <2>1. t \in Tx
      BY <1>5, VerifyEffect
    <2>2. \/ links' = links
          \/ \E s \in Signatures : \E R, S :
                links' = Put(Put(links, n, R, SigOf(t, s)), n, S, VerifyOf(t))
      BY <1>5, VerifyEffect
    <2> HIDE DEF t
    <2>3. ASSUME NEW s \in Signatures, NEW R, NEW S,
                 links' = Put(Put(links, n, R, SigOf(t, s)), n, S, VerifyOf(t))
          PROVE  QueuesTrue(Done', links')
      <3>1. links \in [Links -> Seq(Packets)]
        BY DEF TypeOK, Links
      <3>2. SigOf(t, s) \in Packets /\ VerifyOf(t) \in Packets
        BY <2>1, PacketsOf
      <3>3. QueuesTrue(Done', Put(links, n, R, SigOf(t, s)))
        BY <1>0, <3>1, <3>2, PutTrue, OtherTypes
      <3>4. Put(links, n, R, SigOf(t, s)) \in [Links -> Seq(Packets)]
        BY <3>1, <3>2, PutType
      <3> QED BY <2>3, <3>2, <3>3, <3>4, PutTrue, OtherTypes
    <2> QED BY <1>1, <2>2, <2>3
  <1>6. ASSUME NEW n \in Nodes, NEW p \in Nodes, ReceiveSig(n, p)
        PROVE  QueuesTrue(Done', links')
    <2>1. links[<<p, n>>] # <<>>
      BY <1>6 DEF ReceiveSig, HasPacket
    <2>2. /\ Take(n, p) \in [Links -> Seq(Packets)]
          /\ QueuesTrue(Done', Take(n, p))
          /\ Packet(n, p) \in Packets
          /\ Packet(n, p).type = "confirmed" => Packet(n, p).tx \in Done'
      BY <1>0, <2>1, TakeType, TakeTrue
    <2>3. \/ links' = Take(n, p)
          \/ \E S : links' = Put(Take(n, p), n, S, Packet(n, p))
      BY <1>6 DEF ReceiveSig
    <2> QED BY <2>2, <2>3, PutTrue
  <1>7. ASSUME NEW j \in jobs, Confirmer(j) PROVE QueuesTrue(Done', links')
    <2>1. CASE Announce(j)
      <3>1. j.tx \in Tx
        BY DEF TypeOK
      <3>2. \E S \in Selections(Origin[j.tx]) :
                links' = Put(links, Origin[j.tx], S, ConfirmedOf(j.tx))
        BY <2>1 DEF Announce
      <3>3. j.tx \in Done'
        BY <1>0, <2>1 DEF Announce, JobsTrue
      <3> QED BY <1>0, <3>1, <3>2, <3>3, BroadcastTrue, PacketsOf, OtherTypes
    <2>2. CASE VerifyQuorum(j) \/ ConfirmTx(j)
      BY <1>1, <2>2 DEF VerifyQuorum, ConfirmTx, gossip
    <2> QED BY <1>7, <2>1, <2>2 DEF Confirmer
  <1>8. ASSUME NEW c \in Connections, Break(c) PROVE QueuesTrue(Done', links')
    <2>1. \A l \in Links : links'[l] = <<>> \/ links'[l] = links[l]
      BY <1>8 DEF Break, Links
    <2> QED BY <1>0, <2>1 DEF QueuesTrue
  <1>12. ASSUME NEW n \in Nodes, Restart(n) PROVE QueuesTrue(Done', links')
    <2>1. \A l \in Links : links'[l] = <<>> \/ links'[l] = links[l]
      BY <1>12, RestartLoses
    <2> QED BY <1>0, <2>1 DEF QueuesTrue
  <1>9. ASSUME NEW n \in Nodes, NEW p \in Nodes, AppendSig(n, p) \/ StartConfirm(n, p)
        PROVE  links' = links
    BY <1>9 DEF AppendSig, StartConfirm, gossip
  <1>10. ASSUME \/ \E n \in Nodes, t \in Tx : Expire(n, t)
                \/ \E c \in Connections : Reconnect(c)
                \/ \E n \in Nodes, W \in WitnessSets : Register(n, W)
         PROVE  links' = links
    BY <1>10 DEF Expire, Reconnect, Register, gossip
  <1>11. ASSUME UNCHANGED vars PROVE links' = links
    BY <1>11 DEF vars, gossip
  <1> QED
    BY <1>1, <1>2, <1>3, <1>4, <1>5, <1>6, <1>7, <1>8, <1>9, <1>10, <1>11, <1>12 DEF Next, Reader

\* A reader comes by TxConfirmed from a queue.
LEMMA NextReadersTrue ==
    ASSUME TypeOK, AnnouncementsTrue, [Next]_vars
    PROVE  ReadersTrue(Done)'
  <1>0. QueuesTrue(Done', links) /\ ReadersTrue(Done')
    BY DoneGrows, TrueGrows
  <1>1. ASSUME NEW n \in Nodes, NEW p \in Nodes, NEW r, rd' = [rd EXCEPT ![<<n, p>>] = r],
               r.pc = "confirmed" => r.tx \in Done'
        PROVE  ReadersTrue(Done)'
    <2>1. \A l \in Links : rd'[l] = r \/ rd'[l] = rd[l]
      BY <1>1 DEF TypeOK, Links
    <2> QED BY <1>0, <1>1, <2>1 DEF ReadersTrue
  <1>2. ASSUME UNCHANGED rd PROVE ReadersTrue(Done)'
    BY <1>0, <1>2 DEF ReadersTrue
  <1>3. ASSUME NEW n \in Nodes, NEW p \in Nodes, Gate(n, p) PROVE ReadersTrue(Done)'
    <2> DEFINE h == [pc |-> Packet(n, p).type, tx |-> Packet(n, p).tx]
    <2>1. h.pc = "confirmed" => h.tx \in Done'
      <3>1. links[<<p, n>>] # <<>>
        BY <1>3 DEF Gate, HasPacket
      <3> QED BY <1>0, <3>1, TakeTrue
    <2>2. rd' = [rd EXCEPT ![<<n, p>>] = h] \/ rd' = rd
      BY <1>3 DEF Gate
    <2> HIDE DEF h
    <2> QED BY <1>1, <1>2, <2>1, <2>2
  <1>4. ASSUME NEW n \in Nodes, NEW p \in Nodes, Reader(n, p), ~Gate(n, p)
        PROVE  ReadersTrue(Done)'
    <2>1. CASE ReceiveSig(n, p)
      <3> DEFINE a == [pc |-> "append", tx |-> Packet(n, p).tx, sig |-> Packet(n, p).sig]
      <3>1. a.pc # "confirmed"
        OBVIOUS
      <3>2. UNCHANGED rd \/ rd' = [rd EXCEPT ![<<n, p>>] = a]
        BY <2>1 DEF ReceiveSig
      <3> HIDE DEF a
      <3> QED BY <1>1, <1>2, <3>1, <3>2
    <2>2. Idle.pc # "confirmed"
      BY DEF Idle
    <2>3. CASE AppendSig(n, p)
      <3> DEFINE d == [pc |-> "delete", tx |-> rd[<<n, p>>].tx,
                       sigs |-> Append(sigs[rd[<<n, p>>].tx], rd[<<n, p>>].sig)]
      <3>1. d.pc # "confirmed"
        OBVIOUS
      <3>2. rd' = [rd EXCEPT ![<<n, p>>] = Idle] \/ rd' = [rd EXCEPT ![<<n, p>>] = d]
        BY <2>3 DEF AppendSig
      <3> HIDE DEF d
      <3> QED BY <1>1, <2>2, <3>1, <3>2
    <2>4. CASE \/ StartConfirm(n, p) \/ HandleNonceLock(n, p) \/ HandleTxVerify(n, p)
               \/ HandleTxConfirmed(n, p)
      <3>1. rd' = [rd EXCEPT ![<<n, p>>] = Idle]
        BY <2>4 DEF StartConfirm, HandleNonceLock, HandleTxVerify, HandleTxConfirmed, Handled
      <3> QED BY <1>1, <2>2, <3>1
    <2> QED BY <1>4, <2>1, <2>3, <2>4 DEF Reader
  <1>5. ASSUME NEW j \in jobs, Confirmer(j) PROVE UNCHANGED rd
    BY <1>5 DEF Confirmer, VerifyQuorum, ConfirmTx, Announce
  <1>6. ASSUME NEW t \in Tx, SendLock(t) \/ SendVerify(t) PROVE UNCHANGED rd
    BY <1>6 DEF SendLock, SendVerify
  <1>7. ASSUME \/ \E n \in Nodes, t \in Tx : Expire(n, t)
               \/ \E c \in Connections : Break(c) \/ Reconnect(c)
               \/ \E n \in Nodes, W \in WitnessSets : Register(n, W)
               \/ UNCHANGED vars
        PROVE  UNCHANGED rd
    BY <1>7 DEF Expire, Break, Reconnect, Register, vars
  <1>8. ASSUME NEW n \in Nodes, Restart(n) PROVE ReadersTrue(Done)'
    <2>1. \A l \in Links : rd'[l] = Idle \/ rd'[l] = rd[l]
      BY <1>8, RestartLoses
    <2> QED BY <1>0, <2>1 DEF ReadersTrue, Idle
  <1> QED BY <1>2, <1>3, <1>4, <1>5, <1>6, <1>7, <1>8 DEF Next

\* A goroutine is to announce only what it has just confirmed.
LEMMA NextJobsTrue ==
    ASSUME TypeOK, AnnouncementsTrue, [Next]_vars
    PROVE  JobsTrue(Done)'
  <1>0. JobsTrue(Done')
    BY DoneGrows, TrueGrows
  <1>1. ASSUME \A k \in jobs' : k \in jobs \/ k.pc # "announce" \/ k.tx \in Done'
        PROVE  JobsTrue(Done)'
    BY <1>0, <1>1 DEF JobsTrue
  <1>2. ASSUME UNCHANGED jobs PROVE JobsTrue(Done)'
    BY <1>0, <1>2 DEF JobsTrue
  <1>3. ASSUME NEW n \in Nodes, NEW p \in Nodes, StartConfirm(n, p) PROVE JobsTrue(Done)'
    BY <1>1, <1>3 DEF StartConfirm
  <1>4. ASSUME NEW n \in Nodes, NEW p \in Nodes, Reader(n, p), ~StartConfirm(n, p)
        PROVE  UNCHANGED jobs
    BY <1>4 DEF Reader, Gate, HandleNonceLock, HandleTxVerify, ReceiveSig, AppendSig,
                HandleTxConfirmed, origin
  <1>5. ASSUME NEW j \in jobs, Confirmer(j) PROVE JobsTrue(Done)'
    <2>1. j \in Jobs
      BY DEF TypeOK, Jobs
    <2>2. \A c : [j EXCEPT !.pc = c].tx = j.tx /\ [j EXCEPT !.pc = c].pc = c
      BY <2>1 DEF Jobs
    <2>3. CASE VerifyQuorum(j)
      <3> DEFINE next == [j EXCEPT !.pc = "confirm"]
      <3>1. next.pc = "confirm"
        BY <2>2
      <3>2. \A k \in jobs' : k \in jobs \/ k = next
        BY <2>3 DEF VerifyQuorum
      <3> HIDE DEF next
      <3> QED BY <1>1, <3>1, <3>2
    <2>4. CASE ConfirmTx(j) /\ commits' = [commits EXCEPT ![j.tx] = @ + 1]
      <3>1. j.tx \in Done'
        BY <2>1, <2>4 DEF TypeOK, Done, Jobs
      <3> DEFINE next == [j EXCEPT !.pc = "announce"]
      <3>2. next.tx = j.tx
        BY <2>2
      <3>3. \A k \in jobs' : k \in jobs \/ k = next
        BY <2>4 DEF ConfirmTx, AfterFailure
      <3> HIDE DEF next
      <3> QED BY <1>1, <3>1, <3>2, <3>3
    <2>5. CASE \/ Announce(j)
               \/ ConfirmTx(j) /\ jobs' = AfterFailure(j)
      BY <1>1, <2>5 DEF Announce, AfterFailure
    <2> QED BY <1>5, <2>3, <2>4, <2>5 DEF Confirmer, ConfirmTx
  <1>6. ASSUME NEW t \in Tx, SendLock(t) \/ SendVerify(t) PROVE UNCHANGED jobs
    BY <1>6 DEF SendLock, SendVerify
  <1>7. ASSUME \/ \E n \in Nodes, t \in Tx : Expire(n, t)
               \/ \E c \in Connections : Break(c) \/ Reconnect(c)
               \/ \E n \in Nodes, W \in WitnessSets : Register(n, W)
               \/ UNCHANGED vars
        PROVE  UNCHANGED jobs
    BY <1>7 DEF Expire, Break, Reconnect, Register, vars, origin
  <1>8. ASSUME NEW n \in Nodes, Restart(n) PROVE JobsTrue(Done)'
    BY <1>1, <1>8, RestartLoses
  <1> QED BY <1>2, <1>3, <1>4, <1>5, <1>6, <1>7, <1>8 DEF Next

\* A node credits what its reader brings.
LEMMA NextCreditsTrue ==
    ASSUME TypeOK, AnnouncementsTrue, [Next]_vars
    PROVE  CreditsTrue(Done)'
  <1>0. ReadersTrue(Done') /\ CreditsTrue(Done')
    BY DoneGrows, TrueGrows
  <1>1. ASSUME UNCHANGED credited PROVE CreditsTrue(Done)'
    BY <1>0, <1>1 DEF CreditsTrue
  <1>2. ASSUME NEW n \in Nodes, NEW p \in Nodes, HandleTxConfirmed(n, p)
        PROVE  CreditsTrue(Done)'
    <2>1. rd[<<n, p>>].tx \in Done'
      BY <1>0, <1>2 DEF HandleTxConfirmed, ReadersTrue, Links
    <2>2. \/ credited' = credited
          \/ credited' = [credited EXCEPT ![n] = @ \cup {rd[<<n, p>>].tx}]
      BY <1>2 DEF HandleTxConfirmed
    <2>3. \A m \in Nodes : credited'[m] \subseteq credited[m] \cup {rd[<<n, p>>].tx}
      BY <2>2 DEF TypeOK
    <2> QED BY <1>0, <2>1, <2>3 DEF CreditsTrue
  <1>3. ASSUME NEW n \in Nodes, NEW p \in Nodes, Reader(n, p), ~HandleTxConfirmed(n, p)
        PROVE  UNCHANGED credited
    BY <1>3 DEF Reader, Gate, HandleNonceLock, HandleTxVerify, ReceiveSig, AppendSig,
                StartConfirm
  <1>4. ASSUME NEW j \in jobs, Confirmer(j) PROVE UNCHANGED credited
    BY <1>4 DEF Confirmer, VerifyQuorum, ConfirmTx, Announce
  <1>5. ASSUME NEW t \in Tx, SendLock(t) \/ SendVerify(t) PROVE UNCHANGED credited
    BY <1>5 DEF SendLock, SendVerify
  <1>6. ASSUME \/ \E n \in Nodes, t \in Tx : Expire(n, t)
               \/ \E c \in Connections : Break(c) \/ Reconnect(c)
               \/ \E n \in Nodes, W \in WitnessSets : Register(n, W)
               \/ \E n \in Nodes : Restart(n)
               \/ UNCHANGED vars
        PROVE  UNCHANGED credited
    BY <1>6 DEF Expire, Break, Reconnect, Register, Restart, vars
  <1> QED BY <1>1, <1>2, <1>3, <1>4, <1>5, <1>6 DEF Next

(* Whatever is lost, repeated or delayed, and however often ConfirmTx fails, no
   node credits a receiver unless the origin has confirmed the transaction
   (confirmTx, handleTxConfirmed). *)
THEOREM CreditsAreConfirmed == Spec => []CreditImpliesConfirmed
  <1>1. Init => AnnouncementsTrue
    BY DEF Init, AnnouncementsTrue, QueuesTrue, ReadersTrue, JobsTrue, CreditsTrue, Links, Idle
  <1>2. TypeOK /\ AnnouncementsTrue /\ [Next]_vars => AnnouncementsTrue'
    <2> SUFFICES ASSUME TypeOK, AnnouncementsTrue, [Next]_vars PROVE AnnouncementsTrue'
      OBVIOUS
    <2>1. QueuesTrue(Done, links)'
      BY NextQueuesTrue DEF QueuesTrue
    <2> QED BY <2>1, NextReadersTrue, NextJobsTrue, NextCreditsTrue DEF AnnouncementsTrue
  <1>3. AnnouncementsTrue => CreditImpliesConfirmed
    BY DEF AnnouncementsTrue, CreditsTrue, CreditImpliesConfirmed, Done
  <1> QED BY <1>1, <1>2, <1>3, InitTypeOK, NextTypeOK, PTL DEF Spec

----------------------------------------------------------------------------
(* What is left of a transaction whose origin has restarted: nothing that
   could start confirmTx again, and no confirmTx that could go on. *)
Gone(t) ==
    /\ commits[t] = 0
    /\ t \notin pending
    /\ \A j \in jobs : j.tx # t
    /\ \A l \in Links : rd[l].pc \in {"append", "delete"} => rd[l].tx # t

\* Only the readers of the origin work on the signatures.
OriginReads ==
    \A l \in Links : rd[l].pc \in {"append", "delete"} => Origin[rd[l].tx] = l[1]

LostInv == OriginReads /\ \A t \in Tx : sending[t] = "lost" => Gone(t)

\* Steps after which the readers and goroutines are some of those before,
\* or work on nothing that was lost.
LEMMA LossKept ==
    ASSUME TypeOK, LostInv,
           \A t \in Tx : sending'[t] = "lost" => sending[t] = "lost" /\ commits'[t] = commits[t],
           \A t \in pending' : t \in pending \/ sending[t] # "lost",
           \A j \in jobs' : (\E k \in jobs : k.tx = j.tx) \/ sending[j.tx] # "lost",
           \A l \in Links : rd'[l].pc \in {"append", "delete"} =>
               \/ rd'[l] = rd[l]
               \/ Origin[rd'[l].tx] = l[1] /\ sending[rd'[l].tx] # "lost"
    PROVE  LostInv'
  <1>1. OriginReads'
    BY DEF LostInv, OriginReads
  <1>2. ASSUME NEW t \in Tx, sending'[t] = "lost" PROVE Gone(t)'
    <2>1. sending[t] = "lost" /\ Gone(t) /\ commits'[t] = 0
      BY <1>2 DEF LostInv, Gone
    <2>2. t \notin pending' /\ \A j \in jobs' : j.tx # t
      BY <2>1 DEF Gone
    <2>3. \A l \in Links : rd'[l].pc \in {"append", "delete"} => rd'[l].tx # t
      BY <2>1 DEF Gone
    <2> QED BY <2>1, <2>2, <2>3 DEF Gone
  <1> QED BY <1>1, <1>2 DEF LostInv

\* A forgotten transaction stays without an entry, and so without an attempt.
LEMMA NextLost ==
    ASSUME TypeOK, LostInv, [Next]_vars
    PROVE  LostInv'
  <1>1. ASSUME UNCHANGED <<sending, pending, jobs, commits>>,
               \A l \in Links : rd'[l].pc \in {"append", "delete"} => rd'[l] = rd[l]
        PROVE  LostInv'
    BY <1>1, LossKept
  <1>2. ASSUME NEW t \in Tx, SendLock(t) PROVE LostInv'
    <2>1. /\ sending[t] = "new" /\ sending' = [sending EXCEPT ![t] = "locked"]
          /\ pending' = pending \cup {t} /\ UNCHANGED <<jobs, rd, commits>>
      BY <1>2 DEF SendLock
    <2> QED BY <2>1, LossKept DEF TypeOK
  <1>3. ASSUME NEW t \in Tx, SendVerify(t) PROVE LostInv'
    <2>1. /\ sending' = [sending EXCEPT ![t] = "sent"]
          /\ UNCHANGED <<pending, jobs, rd, commits>>
      BY <1>3 DEF SendVerify
    <2> QED BY <2>1, LossKept DEF TypeOK
  <1>4. ASSUME NEW n \in Nodes, NEW p \in Nodes,
               NEW r, r.pc \notin {"append", "delete"},
               UNCHANGED <<sending, pending, jobs, commits>>,
               rd' = [rd EXCEPT ![<<n, p>>] = r] \/ rd' = rd
        PROVE  LostInv'
    <2>1. \A l \in Links : rd'[l] = r \/ rd'[l] = rd[l]
      BY <1>4 DEF TypeOK, Links
    <2> QED BY <1>1, <1>4, <2>1
  <1>5. ASSUME NEW n \in Nodes, NEW p \in Nodes, Gate(n, p) PROVE LostInv'
    <2> DEFINE h == [pc |-> Packet(n, p).type, tx |-> Packet(n, p).tx]
    <2>1. h.pc \notin {"append", "delete"}
      BY <1>5 DEF Gate, FloodPackets
    <2>2. rd' = [rd EXCEPT ![<<n, p>>] = h] \/ rd' = rd
      BY <1>5 DEF Gate
    <2>3. UNCHANGED <<sending, pending, jobs, commits>>
      BY <1>5 DEF Gate, origin
    <2> HIDE DEF h
    <2> QED BY <1>4, <2>1, <2>2, <2>3
  <1>6. ASSUME NEW n \in Nodes, NEW p \in Nodes,
               HandleNonceLock(n, p) \/ HandleTxVerify(n, p) \/ HandleTxConfirmed(n, p)
        PROVE  LostInv'
    <2>1. rd' = [rd EXCEPT ![<<n, p>>] = Idle] /\ UNCHANGED <<sending, pending, jobs, commits>>
      BY <1>6 DEF HandleNonceLock, HandleTxVerify, HandleTxConfirmed, Handled, origin
    <2>2. Idle.pc \notin {"append", "delete"}
      BY DEF Idle
    <2> QED BY <1>4, <2>1, <2>2
  <1>7. ASSUME NEW n \in Nodes, NEW p \in Nodes, ReceiveSig(n, p) PROVE LostInv'
    <2>0. UNCHANGED <<sending, pending, jobs, commits>>
      BY <1>7 DEF ReceiveSig, origin
    <2>1. CASE UNCHANGED rd
      BY <1>1, <2>0, <2>1
    <2>2. CASE /\ Origin[Packet(n, p).tx] = n /\ Packet(n, p).tx \in pending
               /\ rd' = [rd EXCEPT ![<<n, p>>] =
                            [pc |-> "append", tx |-> Packet(n, p).tx, sig |-> Packet(n, p).sig]]
      <3> DEFINE a == [pc |-> "append", tx |-> Packet(n, p).tx, sig |-> Packet(n, p).sig]
      <3>1. \A l \in Links : rd'[l] = rd[l] \/ (l = <<n, p>> /\ rd'[l] = a)
        BY <2>2 DEF TypeOK, Links
      <3>2. a.tx \in pending /\ Origin[a.tx] = n
        BY <2>2
      <3>3. sending[a.tx] # "lost"
        BY <3>2 DEF LostInv, Gone, TypeOK
      <3> HIDE DEF a
      <3> QED BY <2>0, <3>1, <3>2, <3>3, LossKept
    <2> QED BY <1>7, <2>1, <2>2 DEF ReceiveSig
  <1>8. ASSUME NEW n \in Nodes, NEW p \in Nodes, AppendSig(n, p) PROVE LostInv'
    <2> DEFINE r == rd[<<n, p>>]
               d == [pc |-> "delete", tx |-> r.tx, sigs |-> Append(sigs[r.tx], r.sig)]
    <2>0. UNCHANGED <<sending, pending, jobs, commits>>
      BY <1>8 DEF AppendSig
    <2>1. <<n, p>> \in Links /\ r.pc = "append" /\ r.tx \in Tx
      <3>1. <<n, p>> \in Links /\ r.pc = "append"
        BY <1>8 DEF AppendSig, Links
      <3> QED BY <3>1, ReaderType DEF Appending
    <2>2. Origin[r.tx] = n /\ sending[r.tx] # "lost"
      BY <2>1 DEF LostInv, OriginReads, Gone
    <2>3. d.tx = r.tx /\ Idle.pc = "idle"
      BY DEF Idle
    <2>4. rd' = [rd EXCEPT ![<<n, p>>] = Idle] \/ rd' = [rd EXCEPT ![<<n, p>>] = d]
      BY <1>8 DEF AppendSig
    <2> HIDE DEF d
    <2>5. \A l \in Links : rd'[l] = rd[l] \/ rd'[l] = Idle \/ (l = <<n, p>> /\ rd'[l] = d)
      BY <2>4 DEF TypeOK, Links
    <2> QED BY <2>0, <2>2, <2>3, <2>5, LossKept
  <1>9. ASSUME NEW n \in Nodes, NEW p \in Nodes, StartConfirm(n, p) PROVE LostInv'
    <2> DEFINE r == rd[<<n, p>>]
    <2>1. <<n, p>> \in Links /\ r.pc = "delete" /\ r.tx \in Tx
      <3>1. <<n, p>> \in Links /\ r.pc = "delete"
        BY <1>9 DEF StartConfirm, Links
      <3> QED BY <3>1, ReaderType DEF Deleting
    <2>2. sending[r.tx] # "lost"
      BY <2>1 DEF LostInv, Gone
    <2>3. /\ rd' = [rd EXCEPT ![<<n, p>>] = Idle] /\ UNCHANGED <<sending, commits>>
          /\ pending' \subseteq pending
          /\ \A j \in jobs' : j \in jobs \/ j.tx = r.tx
      BY <1>9 DEF StartConfirm
    <2>4. \A l \in Links : rd'[l] = rd[l] \/ rd'[l].pc = "idle"
      BY <2>3 DEF TypeOK, Links, Idle
    <2> QED BY <2>2, <2>3, <2>4, LossKept
  <1>10. ASSUME NEW j \in jobs, Confirmer(j) PROVE LostInv'
    <2>1. j \in Jobs /\ j.tx \in Tx /\ sending[j.tx] # "lost"
      <3>1. j \in Jobs
        BY DEF TypeOK, Jobs
      <3> QED BY <3>1 DEF Jobs, LostInv, Gone
    <2>2. \A k \in jobs' : k \in jobs \/ k.tx = j.tx
      <3>1. \A c : [j EXCEPT !.pc = c].tx = j.tx
        BY <2>1 DEF Jobs
      <3>2. \A k \in jobs' : k \in jobs \/ \E c : k = [j EXCEPT !.pc = c]
        BY <1>10 DEF Confirmer, VerifyQuorum, ConfirmTx, AfterFailure, Announce
      <3> QED BY <3>1, <3>2
    <2>3. \A t \in Tx : sending'[t] = "lost" => sending[t] = "lost" /\ commits'[t] = commits[t]
      BY <1>10, <2>1 DEF Confirmer, VerifyQuorum, ConfirmTx, Announce, TypeOK
    <2>4. UNCHANGED <<sending, pending, rd>>
      BY <1>10 DEF Confirmer, VerifyQuorum, ConfirmTx, Announce
    <2> QED BY <2>1, <2>2, <2>3, <2>4, LossKept
  <1>11. ASSUME \/ \E n \in Nodes, t \in Tx : Expire(n, t)
                \/ \E c \in Connections : Break(c) \/ Reconnect(c)
                \/ \E n \in Nodes, W \in WitnessSets : Register(n, W)
                \/ UNCHANGED vars
         PROVE  LostInv'
    <2>1. UNCHANGED <<sending, pending, jobs, commits, rd>>
      BY <1>11 DEF Expire, Break, Reconnect, Register, vars, origin
    <2> QED BY <1>1, <2>1
  <1>12. ASSUME NEW n \in Nodes, Restart(n) PROVE LostInv'
    <2>1. OriginReads'
      BY <1>12, RestartLoses DEF LostInv, OriginReads, Idle
    <2>2. ASSUME NEW t \in Tx, sending'[t] = "lost" PROVE Gone(t)'
      <3>1. CASE sending[t] = "lost"
        BY <1>12, <3>1, RestartLoses DEF LostInv, Gone, Idle
      <3>2. CASE sending[t] # "lost"
        <4>1. t \in OwnTx(n) /\ commits[t] = 0
          BY <1>12, <2>2, <3>2 DEF Restart
        <4>2. commits'[t] = 0 /\ t \notin pending' /\ \A j \in jobs' : j.tx # t
          BY <1>12, <4>1, RestartLoses
        <4>3. ASSUME NEW l \in Links, rd'[l].pc \in {"append", "delete"} PROVE rd'[l].tx # t
          <5>1. rd'[l] = rd[l] /\ l[1] # n
            BY <1>12, <4>3, RestartLoses DEF Idle
          <5>2. Origin[rd[l].tx] = l[1]
            BY <4>3, <5>1 DEF LostInv, OriginReads
          <5> QED BY <4>1, <5>1, <5>2 DEF OwnTx
        <4> QED BY <4>2, <4>3 DEF Gone
      <3> QED BY <3>1, <3>2
    <2> QED BY <2>1, <2>2 DEF LostInv
  <1> QED
    BY <1>2, <1>3, <1>5, <1>6, <1>7, <1>8, <1>9, <1>10, <1>11, <1>12 DEF Next, Reader

(* A transaction whose origin restarts before it is confirmed is lost for
   good, whatever signatures arrive later: nothing but pendingTx, which the
   restart empties, leads to confirmTx (New, handleWitnessSig). *)
THEOREM LostForGood == Spec => []LostStaysLost
  <1>1. Init => LostInv
    BY DEF Init, LostInv, OriginReads, Links, Idle
  <1>2. LostInv => LostStaysLost
    BY DEF LostInv, Gone, LostStaysLost
  <1> QED BY <1>1, <1>2, InitTypeOK, NextTypeOK, NextLost, PTL DEF Spec
============================================================================
