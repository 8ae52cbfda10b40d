------------------------- MODULE TxFlowOrderProofs -------------------------
(***************************************************************************)
(* The order of NonceLock and TxVerify, for every number of nodes, every   *)
(* topology, every set of witnesses and every hop budget, in a network     *)
(* that stays up and whose queues have room, whatever database calls fail  *)
(* and locks expire; and how much room the queues need.                    *)
(***************************************************************************)
EXTENDS TxFlowProofs, SumsProofs

\* Connections stay up, and a node gossips to all its peers.
Undisturbed == MaxBreaks = 0 /\ GossipFanout >= Cardinality(Nodes)

\* In what follows L, R, K and H stand for the queues, the readers, the locks
\* that each node has been told of, whether it could store them or not and
\* whether it still holds them or not, and the counts of the gate.  The lock
\* of t has left the queue from p to n for good: the reader is about to handle
\* it, n has been told, or the gate of n is shut for t, to the TxVerify as
\* well, which carries the same message id.
PastQueue(R, K, H, p, n, t) ==
    \/ R[<<n, p>>] = [pc |-> "lock", tx |-> t]
    \/ t \in K[n]
    \/ H[n][t] = GossipHops

LockIn(q, k, t) == \E i \in 1 .. k : q[i] = LockOf(t)

\* A node that has been told of a lock has sent it to each of its peers.
LocksSpread(L, R, K, H) ==
    \A p, n \in Nodes : n \in PeersOf(p) => \A t \in K[p] :
        \/ LockIn(L[<<p, n>>], Len(L[<<p, n>>]), t)
        \/ PastQueue(R, K, H, p, n, t)

\* A TxVerify in a queue has the lock ahead of it.
VerifyBehindLock(L, R, K, H) ==
    \A p, n \in Nodes, t \in Tx : \A k \in 1 .. Len(L[<<p, n>>]) :
        L[<<p, n>>][k] = VerifyOf(t) =>
            \/ LockIn(L[<<p, n>>], k - 1, t)
            \/ PastQueue(R, K, H, p, n, t)

\* The handler of a TxVerify runs at a node that has been told of the lock.
VerifierTold(R, K) ==
    \A n, p \in Nodes : R[<<n, p>>].pc = "verify" => R[<<n, p>>].tx \in K[n]

\* The origin knows of the lock from its first broadcast on.
OriginTold(K) == \A t \in Tx : sending[t] # "new" => t \in K[Origin[t]]

\* The nodes that have been told of a lock and do not hold it, and those that
\* have signed without it.
Lacking(K, t) ==
    {n \in Nodes : t \in K[n] \ locked[n] \/ <<n, t, FALSE>> \in signed}

\* A failing call or an expiry makes one of them.
FewLack(K) == \A t \in Tx : Cardinality(Lacking(K, t)) <= faults + expiries

Told == [Nodes -> SUBSET Tx]

OrderFor(K) ==
    /\ up = Connections
    /\ LocksSpread(links, rd, K, hops)
    /\ VerifyBehindLock(links, rd, K, hops)
    /\ VerifierTold(rd, K)
    /\ OriginTold(K)
    /\ FewLack(K)

OrderInv == \E K \in Told : OrderFor(K)

----------------------------------------------------------------------------
\* A lock in a queue stays where it is when a packet is appended.
LEMMA AppendKeeps ==
    ASSUME NEW q \in Seq(Packets), NEW pkt \in Packets
    PROVE  /\ Len(Append(q, pkt)) = Len(q) + 1
           /\ Append(q, pkt)[Len(q) + 1] = pkt
           /\ \A k \in 1 .. Len(q) : Append(q, pkt)[k] = q[k]
           /\ \A k \in 0 .. Len(q), t \in Tx : LockIn(q, k, t) => LockIn(Append(q, pkt), k, t)
           /\ \A t \in Tx : pkt = LockOf(t) => LockIn(Append(q, pkt), Len(q) + 1, t)
  <1>1. /\ Len(Append(q, pkt)) = Len(q) + 1
        /\ Append(q, pkt)[Len(q) + 1] = pkt
        /\ \A k \in 1 .. Len(q) : Append(q, pkt)[k] = q[k]
    OBVIOUS
  <1>2. Len(q) \in Nat
    OBVIOUS
  <1> QED BY <1>1, <1>2 DEF LockIn

\* More packets ahead hold no fewer locks.
LEMMA LockInGrows ==
    ASSUME NEW q, NEW k \in Nat, NEW m \in Nat, k <= m, NEW t, LockIn(q, k, t)
    PROVE  LockIn(q, m, t)
  BY DEF LockIn

\* When the head leaves a queue, a lock either was the head or moves up.
LEMMA TailShifts ==
    ASSUME NEW q \in Seq(Packets), q # <<>>
    PROVE  /\ Len(Tail(q)) = Len(q) - 1
           /\ \A k \in 1 .. Len(Tail(q)) : k + 1 \in 1 .. Len(q) /\ Tail(q)[k] = q[k + 1]
           /\ \A k \in 1 .. Len(q), t \in Tx :
                 LockIn(q, k, t) => Head(q) = LockOf(t) \/ LockIn(Tail(q), k - 1, t)
  <1>1. /\ Len(q) \in Nat \ {0}
        /\ Len(Tail(q)) = Len(q) - 1
        /\ \A k \in 1 .. Len(Tail(q)) : k + 1 \in 1 .. Len(q) /\ Tail(q)[k] = q[k + 1]
        /\ Head(q) = q[1]
    OBVIOUS
  <1>2. ASSUME NEW k \in 1 .. Len(q), NEW t \in Tx, LockIn(q, k, t), Head(q) # LockOf(t)
        PROVE  LockIn(Tail(q), k - 1, t)
    <2>1. PICK i \in 1 .. k : q[i] = LockOf(t)
      BY <1>2 DEF LockIn
    <2>2. i # 1
      BY <1>1, <1>2, <2>1
    <2>3. i - 1 \in 1 .. (k - 1) /\ i - 1 \in 1 .. Len(Tail(q))
      BY <1>1, <2>2
    <2>4. Tail(q)[i - 1] = LockOf(t)
      BY <1>1, <2>1, <2>3
    <2> QED BY <2>3, <2>4 DEF LockIn
  <1> QED BY <1>1, <1>2

\* What a step may do to readers, locks and counts: what was past its queue
\* stays so.
StaysPast(R, K, H, R2, K2, H2) ==
    \A p, n \in Nodes, t \in Tx :
        PastQueue(R, K, H, p, n, t) => PastQueue(R2, K2, H2, p, n, t)

\* What a broadcast may do to the queues: pkt goes to the end of some, and to
\* the end of every queue of a node that takes a new lock.
AddsAtEnd(L, L2, K, K2, pkt) ==
    /\ \A l \in Links : L2[l] \in {L[l], Append(L[l], pkt)}
    /\ \A p, n \in Nodes, t \in Tx :
          n \in PeersOf(p) /\ t \in K2[p] \ K[p] =>
              pkt = LockOf(t) /\ L2[<<p, n>>] = Append(L[<<p, n>>], pkt)
    /\ \A p, n \in Nodes, t \in Tx :
          pkt = VerifyOf(t) /\ L2[<<p, n>>] # L[<<p, n>>] => n \in PeersOf(p) /\ t \in K[p]

\* Packets added at the end keep the order of locks and TxVerify packets.
LEMMA AddKeepsOrder ==
    ASSUME NEW L \in [Links -> Seq(Packets)], NEW L2, NEW pkt \in Packets,
           NEW R, NEW K \in [Nodes -> SUBSET Tx], NEW H,
           NEW R2, NEW K2 \in [Nodes -> SUBSET Tx], NEW H2,
           LocksSpread(L, R, K, H), VerifyBehindLock(L, R, K, H),
           StaysPast(R, K, H, R2, K2, H2), AddsAtEnd(L, L2, K, K2, pkt)
    PROVE  LocksSpread(L2, R2, K2, H2) /\ VerifyBehindLock(L2, R2, K2, H2)
  <1>1. ASSUME NEW p \in Nodes, NEW n \in Nodes
        PROVE  /\ L[<<p, n>>] \in Seq(Packets)
               /\ Len(L[<<p, n>>]) \in Nat
               /\ L2[<<p, n>>] \in {L[<<p, n>>], Append(L[<<p, n>>], pkt)}
    <2>1. <<p, n>> \in Links
      BY DEF Links
    <2>2. L[<<p, n>>] \in Seq(Packets)
      BY <2>1
    <2>3. Len(L[<<p, n>>]) \in Nat
      BY <2>2
    <2> QED BY <2>1, <2>2, <2>3 DEF AddsAtEnd
  <1>2. ASSUME NEW p \in Nodes, NEW n \in Nodes, NEW t \in Tx, n \in PeersOf(p), t \in K[p]
        PROVE  \/ LockIn(L[<<p, n>>], Len(L[<<p, n>>]), t)
               \/ PastQueue(R2, K2, H2, p, n, t)
    BY <1>2 DEF LocksSpread, StaysPast
  <1>3. ASSUME NEW p \in Nodes, NEW n \in Nodes, NEW t \in Tx, n \in PeersOf(p), t \in K2[p]
        PROVE  \/ LockIn(L2[<<p, n>>], Len(L2[<<p, n>>]), t)
               \/ PastQueue(R2, K2, H2, p, n, t)
    <2> DEFINE q == L[<<p, n>>]
    <2>1. q \in Seq(Packets) /\ Len(q) \in Nat /\ L2[<<p, n>>] \in {q, Append(q, pkt)}
      BY <1>1
    <2>2. CASE t \in K[p]
      <3>1. LockIn(q, Len(q), t) \/ PastQueue(R2, K2, H2, p, n, t)
        BY <1>2, <1>3, <2>2
      <3> HIDE DEF q
      <3>2. LockIn(q, Len(q), t) => LockIn(Append(q, pkt), Len(Append(q, pkt)), t)
        <4>1. Len(Append(q, pkt)) = Len(q) + 1
          BY <2>1, AppendKeeps
        <4>2. LockIn(q, Len(q), t) => LockIn(Append(q, pkt), Len(q), t)
          <5>1. Len(q) \in 0 .. Len(q)
            BY <2>1
          <5> QED BY <2>1, <5>1, AppendKeeps
        <4> QED BY <2>1, <4>1, <4>2, LockInGrows
      <3> QED BY <2>1, <3>1, <3>2
    <2>3. CASE t \notin K[p]
      <3>1. pkt = LockOf(t) /\ L2[<<p, n>>] = Append(q, pkt)
        BY <1>3, <2>3 DEF AddsAtEnd
      <3> HIDE DEF q
      <3>2. LockIn(Append(q, pkt), Len(Append(q, pkt)), t)
        BY <2>1, <3>1, AppendKeeps
      <3> QED BY <3>1, <3>2
    <2> QED BY <2>2, <2>3
  <1>4. ASSUME NEW p \in Nodes, NEW n \in Nodes, NEW t \in Tx,
               NEW k \in 1 .. Len(L2[<<p, n>>]), L2[<<p, n>>][k] = VerifyOf(t)
        PROVE  \/ LockIn(L2[<<p, n>>], k - 1, t)
               \/ PastQueue(R2, K2, H2, p, n, t)
    <2> DEFINE q == L[<<p, n>>]
               q2 == L2[<<p, n>>]
    <2>1. q \in Seq(Packets) /\ Len(q) \in Nat /\ q2 \in {q, Append(q, pkt)}
      BY <1>1
    <2>2. ASSUME NEW i \in 1 .. Len(q), q[i] = VerifyOf(t)
          PROVE  LockIn(q, i - 1, t) \/ PastQueue(R2, K2, H2, p, n, t)
      BY <2>2 DEF VerifyBehindLock, StaysPast
    <2>3. q2 # q => (pkt = VerifyOf(t) => n \in PeersOf(p) /\ t \in K[p])
      BY DEF AddsAtEnd
    <2>4. n \in PeersOf(p) /\ t \in K[p] =>
             LockIn(q, Len(q), t) \/ PastQueue(R2, K2, H2, p, n, t)
      BY <1>2
    <2>5. k \in 1 .. Len(q2) /\ q2[k] = VerifyOf(t)
      BY <1>4
    <2> HIDE DEF q, q2
    <2>6. CASE q2 = q
      BY <2>2, <2>5, <2>6 DEF q2
    <2>7. CASE q2 = Append(q, pkt) /\ q2 # q
      <3>1. /\ Len(q2) = Len(q) + 1
            /\ q2[Len(q) + 1] = pkt
            /\ \A i \in 1 .. Len(q) : q2[i] = q[i]
            /\ \A i \in 0 .. Len(q) : LockIn(q, i, t) => LockIn(q2, i, t)
        BY <2>1, <2>7, AppendKeeps
      <3>2. CASE k = Len(q) + 1
        <4>1. LockIn(q, Len(q), t) \/ PastQueue(R2, K2, H2, p, n, t)
          BY <2>3, <2>4, <2>5, <2>7, <3>1, <3>2
        <4>2. Len(q) \in 0 .. Len(q) /\ k - 1 = Len(q)
          BY <2>1, <3>2
        <4> QED BY <3>1, <4>1, <4>2 DEF q2
      <3>3. CASE k # Len(q) + 1
        <4>1. k \in 1 .. Len(q) /\ k - 1 \in 0 .. Len(q)
          BY <2>1, <2>5, <3>1, <3>3
        <4>2. q[k] = VerifyOf(t)
          BY <2>5, <3>1, <4>1
        <4> QED BY <2>2, <3>1, <4>1, <4>2 DEF q2
      <3> QED BY <3>2, <3>3
    <2> QED BY <2>1, <2>6, <2>7
  <1>5. LocksSpread(L2, R2, K2, H2)
    BY <1>3 DEF LocksSpread
  <1>6. VerifyBehindLock(L2, R2, K2, H2)
    BY <1>4 DEF VerifyBehindLock
  <1> QED BY <1>5, <1>6

\* Taking a packet keeps the order, when a lock that is taken is past its
\* queue.
LEMMA TakeKeepsOrder ==
    ASSUME TypeOK, NEW n \in Nodes, NEW p \in Nodes, links[<<p, n>>] # <<>>,
           NEW R, NEW K \in [Nodes -> SUBSET Tx], NEW H, NEW R2, NEW H2,
           LocksSpread(links, R, K, H), VerifyBehindLock(links, R, K, H),
           StaysPast(R, K, H, R2, K, H2),
           \A t \in Tx : Packet(n, p) = LockOf(t) => PastQueue(R2, K, H2, p, n, t)
    PROVE  LocksSpread(Take(n, p), R2, K, H2) /\ VerifyBehindLock(Take(n, p), R2, K, H2)
  <1> DEFINE L2 == Take(n, p)
  <1>1. /\ <<p, n>> \in Links /\ links \in [Links -> Seq(Packets)]
        /\ links[<<p, n>>] \in Seq(Packets)
    BY DEF TypeOK, Links
  <1>2. L2[<<p, n>>] = Tail(links[<<p, n>>]) /\ \A l \in Links : l # <<p, n>> => L2[l] = links[l]
    BY <1>1 DEF Take
  <1>3. Packet(n, p) = Head(links[<<p, n>>])
    BY DEF Packet
  <1> HIDE DEF L2
  <1>4. ASSUME NEW a \in Nodes, NEW b \in Nodes, NEW t \in Tx,
               NEW k \in 0 .. Len(links[<<a, b>>]), LockIn(links[<<a, b>>], k, t)
        PROVE  \/ LockIn(L2[<<a, b>>], k - 1, t)
               \/ <<a, b>> # <<p, n>> /\ LockIn(L2[<<a, b>>], k, t)
               \/ PastQueue(R2, K, H2, a, b, t)
    <2>1. CASE <<a, b>> = <<p, n>>
      <3>1. k \in 1 .. Len(links[<<p, n>>])
        BY <1>1, <1>4, <2>1 DEF LockIn
      <3>2. Packet(n, p) = LockOf(t) \/ LockIn(L2[<<p, n>>], k - 1, t)
        BY <1>1, <1>2, <1>3, <1>4, <2>1, <3>1, TailShifts
      <3> QED BY <2>1, <3>2
    <2>2. CASE <<a, b>> # <<p, n>>
      <3>1. <<a, b>> \in Links
        BY DEF Links
      <3> QED BY <1>2, <1>4, <2>2, <3>1
    <2> QED BY <2>1, <2>2
  <1>5. ASSUME NEW a \in Nodes, NEW b \in Nodes
        PROVE  /\ links[<<a, b>>] \in Seq(Packets) /\ Len(links[<<a, b>>]) \in Nat
               /\ <<a, b>> # <<p, n>> => L2[<<a, b>>] = links[<<a, b>>]
               /\ <<a, b>> = <<p, n>> =>
                     /\ Len(L2[<<a, b>>]) = Len(links[<<a, b>>]) - 1
                     /\ \A k \in 1 .. Len(L2[<<a, b>>]) :
                           /\ k + 1 \in 1 .. Len(links[<<a, b>>])
                           /\ L2[<<a, b>>][k] = links[<<a, b>>][k + 1]
    <2>1. <<a, b>> \in Links /\ links[<<a, b>>] \in Seq(Packets)
      BY <1>1 DEF Links
    <2>2. Len(links[<<a, b>>]) \in Nat
      BY <2>1
    <2>3. <<a, b>> # <<p, n>> => L2[<<a, b>>] = links[<<a, b>>]
      BY <1>2, <2>1
    <2>4. ASSUME <<a, b>> = <<p, n>>
          PROVE  /\ Len(L2[<<a, b>>]) = Len(links[<<a, b>>]) - 1
                 /\ \A k \in 1 .. Len(L2[<<a, b>>]) :
                       /\ k + 1 \in 1 .. Len(links[<<a, b>>])
                       /\ L2[<<a, b>>][k] = links[<<a, b>>][k + 1]
      <3>1. /\ Len(L2[<<p, n>>]) = Len(links[<<p, n>>]) - 1
            /\ \A k \in 1 .. Len(L2[<<p, n>>]) :
                  /\ k + 1 \in 1 .. Len(links[<<p, n>>])
                  /\ L2[<<p, n>>][k] = links[<<p, n>>][k + 1]
        BY <1>1, <1>2, TailShifts
      <3> QED BY <2>4, <3>1
    <2> QED BY <2>1, <2>2, <2>3, <2>4
  <1>6. ASSUME NEW a \in Nodes, NEW b \in Nodes, b \in PeersOf(a), NEW t \in K[a]
        PROVE  \/ LockIn(L2[<<a, b>>], Len(L2[<<a, b>>]), t)
               \/ PastQueue(R2, K, H2, a, b, t)
    <2> DEFINE m == Len(links[<<a, b>>])
    <2>1. t \in Tx /\ m \in 0 .. m
      BY <1>5
    <2>2. LockIn(links[<<a, b>>], m, t) \/ PastQueue(R2, K, H2, a, b, t)
      BY <1>6, <2>1 DEF LocksSpread, StaysPast
    <2>3. \/ LockIn(L2[<<a, b>>], m - 1, t)
          \/ <<a, b>> # <<p, n>> /\ LockIn(L2[<<a, b>>], m, t)
          \/ PastQueue(R2, K, H2, a, b, t)
      BY <1>4, <2>1, <2>2
    <2>4. <<a, b>> # <<p, n>> /\ LockIn(L2[<<a, b>>], m - 1, t) => LockIn(L2[<<a, b>>], m, t)
      BY <1>5 DEF LockIn
    <2> QED BY <1>5, <2>3, <2>4
  <1>7. ASSUME NEW a \in Nodes, NEW b \in Nodes, NEW t \in Tx,
               NEW k \in 1 .. Len(L2[<<a, b>>]), L2[<<a, b>>][k] = VerifyOf(t)
        PROVE  \/ LockIn(L2[<<a, b>>], k - 1, t)
               \/ PastQueue(R2, K, H2, a, b, t)
    <2>1. ASSUME NEW i \in 1 .. Len(links[<<a, b>>]), links[<<a, b>>][i] = VerifyOf(t)
          PROVE  \/ LockIn(L2[<<a, b>>], i - 2, t)
                 \/ <<a, b>> # <<p, n>> /\ LockIn(L2[<<a, b>>], i - 1, t)
                 \/ PastQueue(R2, K, H2, a, b, t)
      <3>1. LockIn(links[<<a, b>>], i - 1, t) \/ PastQueue(R2, K, H2, a, b, t)
        BY <2>1 DEF VerifyBehindLock, StaysPast
      <3>2. i - 1 \in 0 .. Len(links[<<a, b>>]) /\ (i - 1) - 1 = i - 2
        BY <1>5
      <3> QED BY <1>4, <3>1, <3>2
    <2>2. CASE <<a, b>> = <<p, n>>
      <3>1. k + 1 \in 1 .. Len(links[<<a, b>>]) /\ links[<<a, b>>][k + 1] = VerifyOf(t)
        BY <1>5, <1>7, <2>2
      <3>2. (k + 1) - 2 = k - 1
        BY <1>5, <2>2
      <3> QED BY <2>1, <2>2, <3>1, <3>2
    <2>3. CASE <<a, b>> # <<p, n>>
      <3>1. k \in 1 .. Len(links[<<a, b>>]) /\ links[<<a, b>>][k] = VerifyOf(t)
        BY <1>5, <1>7, <2>3
      <3>2. LockIn(L2[<<a, b>>], k - 2, t) => LockIn(L2[<<a, b>>], k - 1, t)
        BY <1>5, <3>1 DEF LockIn
      <3> QED BY <2>1, <3>1, <3>2
    <2> QED BY <2>2, <2>3
  <1> QED BY <1>6, <1>7 DEF LocksSpread, VerifyBehindLock, L2

----------------------------------------------------------------------------
\* A gossip that reaches as many peers as there are nodes reaches every peer.
LEMMA SelectsAll ==
    ASSUME Undisturbed, NEW n \in Nodes, NEW S \in Selections(n)
    PROVE  S = PeersOf(n)
  <1>1. PeersOf(n) \subseteq Nodes /\ S \subseteq PeersOf(n)
    BY DEF Selections, PeersOf
  <1>2. IsFiniteSet(Nodes) /\ IsFiniteSet(PeersOf(n))
    BY <1>1, FlowAssumption, FS_Subset
  <1>3. Cardinality(PeersOf(n)) <= Cardinality(Nodes)
    BY <1>1, <1>2, FS_Subset
  <1>4. /\ Cardinality(PeersOf(n)) \in Nat /\ Cardinality(Nodes) \in Nat
        /\ GossipFanout \in Nat
    BY <1>2, FS_CardinalityType, FlowAssumption
  <1>5. Cardinality(S) = Cardinality(PeersOf(n))
    BY <1>3, <1>4 DEF Selections, Undisturbed
  <1> QED BY <1>1, <1>2, <1>5, FS_Subset

\* What Put adds, and where.
LEMMA PutAdds ==
    ASSUME NEW L \in [Links -> Seq(Packets)], NEW n, NEW S, NEW pkt
    PROVE  \A l \in Links :
               /\ Put(L, n, S, pkt)[l] \in {L[l], Append(L[l], pkt)}
               /\ Put(L, n, S, pkt)[l] # L[l] => l[1] = n /\ l[2] \in S
               /\ l[1] = n /\ l[2] \in S /\ Len(L[l]) < LinkCap =>
                     Put(L, n, S, pkt)[l] = Append(L[l], pkt)
  BY DEF Put, Links

\* The queues are in order for the given readers, locks and counts.
Ordered(L, R, K, H) == LocksSpread(L, R, K, H) /\ VerifyBehindLock(L, R, K, H)

\* A packet that is no TxVerify may be sent to anybody.
LEMMA OtherPut ==
    ASSUME NEW L \in [Links -> Seq(Packets)], NEW n, NEW S, NEW pkt \in Packets,
           pkt.type # "verify",
           NEW R, NEW K \in [Nodes -> SUBSET Tx], NEW H, NEW R2, NEW H2,
           Ordered(L, R, K, H), StaysPast(R, K, H, R2, K, H2)
    PROVE  Ordered(Put(L, n, S, pkt), R2, K, H2)
  <1>1. \A t \in Tx : pkt # VerifyOf(t)
    BY DEF VerifyOf
  <1>2. AddsAtEnd(L, Put(L, n, S, pkt), K, K, pkt)
    BY <1>1, PutAdds DEF AddsAtEnd
  <1> QED BY <1>2, AddKeepsOrder DEF Ordered

\* Readers alone do not disturb the order.
LEMMA OrderedKept ==
    ASSUME NEW L, NEW R, NEW K \in [Nodes -> SUBSET Tx], NEW H, NEW R2, NEW H2,
           Ordered(L, R, K, H), StaysPast(R, K, H, R2, K, H2)
    PROVE  Ordered(L, R2, K, H2)
  <1>1. LocksSpread(L, R2, K, H2)
    <2>1. \A p \in Nodes : K[p] \subseteq Tx
      OBVIOUS
    <2> QED BY <2>1 DEF Ordered, LocksSpread, StaysPast
  <1>2. VerifyBehindLock(L, R2, K, H2)
    BY DEF Ordered, VerifyBehindLock, StaysPast
  <1> QED BY <1>1, <1>2 DEF Ordered

\* A TxVerify may be sent to the peers of a node that holds the lock.
LEMMA VerifyPut ==
    ASSUME NEW L \in [Links -> Seq(Packets)], NEW n \in Nodes, NEW S \in SUBSET PeersOf(n),
           NEW t \in Tx,
           NEW R, NEW K \in [Nodes -> SUBSET Tx], NEW H, NEW R2, NEW H2, t \in K[n],
           Ordered(L, R, K, H), StaysPast(R, K, H, R2, K, H2)
    PROVE  Ordered(Put(L, n, S, VerifyOf(t)), R2, K, H2)
  <1> DEFINE L2 == Put(L, n, S, VerifyOf(t))
  <1>1. VerifyOf(t) \in Packets
    BY PacketsOf
  <1>2. ASSUME NEW a \in Nodes, NEW b \in Nodes, NEW x \in Tx,
               VerifyOf(t) = VerifyOf(x), L2[<<a, b>>] # L[<<a, b>>]
        PROVE  b \in PeersOf(a) /\ x \in K[a]
    <2>1. <<a, b>> \in Links /\ <<a, b>>[1] = a /\ <<a, b>>[2] = b
      BY DEF Links
    <2>2. a = n /\ b \in S
      BY <1>2, <2>1, PutAdds
    <2>3. x = t
      BY <1>2 DEF VerifyOf
    <2> QED BY <2>2, <2>3
  <1>3. AddsAtEnd(L, L2, K, K, VerifyOf(t))
    BY <1>2, PutAdds DEF AddsAtEnd
  <1> QED BY <1>1, <1>3, AddKeepsOrder DEF Ordered

\* A node that takes a lock sends it to each of its peers.
LEMMA LockPut ==
    ASSUME NEW L \in [Links -> Seq(Packets)], \A l \in Links : Len(L[l]) < LinkCap,
           NEW n \in Nodes, NEW t \in Tx,
           NEW R, NEW K \in [Nodes -> SUBSET Tx], NEW H, NEW R2,
           NEW K2 \in [Nodes -> SUBSET Tx], NEW H2,
           \A m \in Nodes, x \in Tx : x \in K2[m] \ K[m] => m = n /\ x = t,
           Ordered(L, R, K, H), StaysPast(R, K, H, R2, K2, H2)
    PROVE  Ordered(Put(L, n, PeersOf(n), LockOf(t)), R2, K2, H2)
  <1> DEFINE L2 == Put(L, n, PeersOf(n), LockOf(t))
  <1>1. LockOf(t) \in Packets
    BY PacketsOf
  <1>2. \A l \in Links : l[1] = n /\ l[2] \in PeersOf(n) => L2[l] = Append(L[l], LockOf(t))
    BY PutAdds
  <1>3. ASSUME NEW a \in Nodes, NEW b \in Nodes, NEW x \in Tx,
               b \in PeersOf(a), x \in K2[a] \ K[a]
        PROVE  LockOf(t) = LockOf(x) /\ L2[<<a, b>>] = Append(L[<<a, b>>], LockOf(t))
    <2>1. a = n /\ x = t
      BY <1>3
    <2>2. <<a, b>> \in Links /\ <<a, b>>[1] = a /\ <<a, b>>[2] = b
      BY DEF Links
    <2>3. <<a, b>>[2] \in PeersOf(n)
      BY <1>3, <2>1, <2>2
    <2> HIDE DEF L2
    <2>4. L2[<<a, b>>] = Append(L[<<a, b>>], LockOf(t))
      BY <1>2, <2>1, <2>2, <2>3
    <2> QED BY <2>1, <2>4
  <1>4. \A x \in Tx : LockOf(t) # VerifyOf(x)
    BY DEF LockOf, VerifyOf
  <1>5. AddsAtEnd(L, L2, K, K2, LockOf(t))
    BY <1>3, <1>4, PutAdds DEF AddsAtEnd
  <1>6. LocksSpread(L, R, K, H) /\ VerifyBehindLock(L, R, K, H)
    BY DEF Ordered
  <1> HIDE DEF L2
  <1>7. LocksSpread(L2, R2, K2, H2) /\ VerifyBehindLock(L2, R2, K2, H2)
    BY <1>1, <1>5, <1>6, AddKeepsOrder
  <1> QED BY <1>7 DEF Ordered, L2

\* A reader that leaves nonce lock handling has been told of the lock; nothing
\* else brings a lock back before its queue.
LEMMA PastKept ==
    ASSUME TypeOK, NEW n \in Nodes, NEW p \in Nodes, NEW K, NEW K2,
           \A l \in Links : l # <<n, p>> => rd'[l] = rd[l],
           \A t \in Tx : rd[<<n, p>>] = [pc |-> "lock", tx |-> t] => t \in K2[n],
           \A m \in Nodes : K[m] \subseteq K2[m],
           \A m \in Nodes, t \in Tx : hops[m][t] = GossipHops => hops'[m][t] = GossipHops
    PROVE  StaysPast(rd, K, hops, rd', K2, hops')
  <1> SUFFICES ASSUME NEW b \in Nodes, NEW a \in Nodes, NEW t \in Tx,
                      PastQueue(rd, K, hops, b, a, t)
               PROVE  PastQueue(rd', K2, hops', b, a, t)
    BY DEF StaysPast
  <1>1. CASE rd[<<a, b>>] = [pc |-> "lock", tx |-> t]
    <2>1. CASE <<a, b>> # <<n, p>>
      <3>1. rd'[<<a, b>>] = rd[<<a, b>>]
        BY <2>1 DEF Links
      <3> QED BY <1>1, <3>1 DEF PastQueue
    <2>2. CASE <<a, b>> = <<n, p>>
      <3>1. a = n /\ rd[<<n, p>>] = [pc |-> "lock", tx |-> t]
        BY <1>1, <2>2
      <3> QED BY <3>1 DEF PastQueue
    <2> QED BY <2>1, <2>2
  <1>2. CASE t \in K[a] \/ hops[a][t] = GossipHops
    BY <1>2 DEF PastQueue
  <1> QED BY <1>1, <1>2 DEF PastQueue

\* The count of a message id that is used up stays so.
LEMMA CountsStay ==
    ASSUME TypeOK, NEW n \in Nodes, NEW i \in Ids, Counted(n, i)
    PROVE  \A m \in Nodes, t \in Tx : hops[m][t] = GossipHops => hops'[m][t] = GossipHops
  <1>1. hops \in [Nodes -> [Ids -> 0 .. GossipHops]] /\ Tx \subseteq Ids /\ GossipHops \in Nat
    BY FlowAssumption DEF TypeOK, Ids
  <1> SUFFICES ASSUME NEW m \in Nodes, NEW t \in Tx, hops[m][t] = GossipHops
               PROVE  hops'[m][t] = GossipHops
    OBVIOUS
  <1>2. hops' = [hops EXCEPT ![n][i] = IF @ < GossipHops THEN @ + 1 ELSE @]
    BY DEF Counted
  <1>3. CASE m = n /\ t = i
    <2>1. ~(hops[n][i] < GossipHops)
      BY <1>1, <1>3
    <2>2. hops'[n][i] = hops[n][i]
      BY <1>1, <1>2, <2>1
    <2> QED BY <1>3, <2>2
  <1>4. CASE m # n \/ t # i
    <2>1. hops'[m][t] = hops[m][t]
      BY <1>1, <1>2, <1>4
    <2> QED BY <2>1
  <1> QED BY <1>3, <1>4

\* What a reader that ends a handler leaves alone.
LEMMA ReaderEnds ==
    ASSUME TypeOK, NEW n \in Nodes, NEW p \in Nodes, rd' = [rd EXCEPT ![<<n, p>>] = Idle]
    PROVE  /\ \A l \in Links : l # <<n, p>> => rd'[l] = rd[l]
           /\ rd'[<<n, p>>].pc # "verify"
  BY DEF TypeOK, Links, Idle

----------------------------------------------------------------------------
\* What every step keeps of the order.
StepKeepsOrder(K) ==
    /\ up' = up
    /\ Ordered(links', rd', K, hops')
    /\ VerifierTold(rd', K)
    /\ OriginTold(K)'
    /\ FewLack(K)'

\* A step by which nobody comes to lack a lock, ...
LEMMA NobodyLacks ==
    ASSUME TypeOK, NEW K \in Told, NEW K2 \in Told, FewLack(K),
           \A t \in Tx : Lacking(K2, t)' \subseteq Lacking(K, t),
           faults' \in Nat, expiries' \in Nat, faults' >= faults, expiries' >= expiries
    PROVE  FewLack(K2)'
  <1> SUFFICES ASSUME NEW t \in Tx PROVE Cardinality(Lacking(K2, t)') <= faults' + expiries'
    BY DEF FewLack
  <1>1. IsFiniteSet(Lacking(K, t))
    BY FlowAssumption, FS_Subset DEF Lacking
  <1>2. /\ Cardinality(Lacking(K2, t)') <= Cardinality(Lacking(K, t))
        /\ Cardinality(Lacking(K2, t)') \in Nat /\ Cardinality(Lacking(K, t)) \in Nat
    BY <1>1, FS_Subset, FS_CardinalityType
  <1>3. Cardinality(Lacking(K, t)) <= faults + expiries
    BY DEF FewLack
  <1> QED BY <1>2, <1>3 DEF TypeOK

\* ... and one by which one node does, through a failure or an expiry.
LEMMA OneLacks ==
    ASSUME TypeOK, NEW K \in Told, NEW K2 \in Told, FewLack(K), NEW n \in Nodes,
           \A t \in Tx : Lacking(K2, t)' \subseteq Lacking(K, t) \cup {n},
           \/ faults' = faults + 1 /\ expiries' = expiries
           \/ faults' = faults /\ expiries' = expiries + 1
    PROVE  FewLack(K2)'
  <1> SUFFICES ASSUME NEW t \in Tx PROVE Cardinality(Lacking(K2, t)') <= faults' + expiries'
    BY DEF FewLack
  <1> DEFINE W == Lacking(K, t)
  <1>1. IsFiniteSet(W) /\ IsFiniteSet(W \cup {n})
    <2>1. IsFiniteSet(Nodes) /\ W \subseteq Nodes /\ W \cup {n} \subseteq Nodes
      BY FlowAssumption DEF Lacking
    <2> HIDE DEF W
    <2> QED BY <2>1, FS_Subset
  <1>2. Cardinality(W) <= faults + expiries
    BY DEF FewLack
  <1>3. Lacking(K2, t)' \subseteq W \cup {n}
    OBVIOUS
  <1> HIDE DEF W
  <1>4. Cardinality(W \cup {n}) = IF n \in W THEN Cardinality(W) ELSE Cardinality(W) + 1
    BY <1>1, FS_AddElement
  <1>5. /\ Cardinality(Lacking(K2, t)') <= Cardinality(W \cup {n})
        /\ Cardinality(Lacking(K2, t)') \in Nat /\ Cardinality(W) \in Nat
    BY <1>1, <1>3, FS_Subset, FS_CardinalityType
  <1> QED BY <1>2, <1>4, <1>5 DEF TypeOK

\* The calls that a handler makes.
LEMMA FaultingCounts ==
    ASSUME TypeOK, NEW e \in BOOLEAN, Faulting(e)
    PROVE  /\ faults' \in Nat /\ faults' >= faults
           /\ e => faults' = faults + 1
  BY DEF Faulting, TypeOK

\* Nothing has been sent at the start.
LEMMA OrderStart == Init => OrderInv
  <1> SUFFICES ASSUME Init PROVE OrderInv
    OBVIOUS
  <1>1. \A p, n \in Nodes : /\ <<p, n>> \in Links /\ links[<<p, n>>] = <<>>
                            /\ locked[p] = {} /\ rd[<<n, p>>] = Idle
    BY DEF Init, Links
  <1>2. LocksSpread(links, rd, locked, hops)
    BY <1>1 DEF LocksSpread
  <1>3. VerifyBehindLock(links, rd, locked, hops)
    <2>1. 1 .. Len(<<>>) = {}
      OBVIOUS
    <2>2. \A p, n \in Nodes : 1 .. Len(links[<<p, n>>]) = {}
      BY <1>1, <2>1, Zenon
    <2> QED BY <2>2 DEF VerifyBehindLock
  <1>4. VerifierTold(rd, locked)
    <2>1. Idle.pc # "verify"
      BY DEF Idle
    <2> QED BY <1>1, <2>1 DEF VerifierTold
  <1>5. FewLack(locked)
    <2>1. \A t \in Tx : Lacking(locked, t) = {}
      BY <1>1 DEF Init, Lacking
    <2>2. faults = 0 /\ expiries = 0
      BY DEF Init
    <2>3. \A t \in Tx : Cardinality(Lacking(locked, t)) = 0
      BY <2>1, FS_EmptySet
    <2> QED BY <2>2, <2>3 DEF FewLack
  <1>6. OriginTold(locked) /\ up = Connections /\ locked \in Told
    BY DEF Init, OriginTold, Told
  <1> QED BY <1>2, <1>3, <1>4, <1>5, <1>6 DEF OrderInv, OrderFor

\* SendTx sends the lock first, to every peer.
LEMMA SendKeepsOrder ==
    ASSUME TypeOK, Undisturbed, QueuesHaveRoom, NEW K \in Told, OrderFor(K),
           NEW t \in Tx, SendLock(t) \/ SendVerify(t)
    PROVE  \E K2 \in Told : StepKeepsOrder(K2)
  <1> DEFINE n == Origin[t]
  <1>1. /\ n \in Nodes /\ links \in [Links -> Seq(Packets)]
        /\ K \in [Nodes -> SUBSET Tx] /\ sending \in [Tx -> {"new", "locked", "sent", "lost"}]
        /\ \A l \in Links : Len(links[l]) < LinkCap
    BY FlowAssumption DEF TypeOK, Links, QueuesHaveRoom, Told
  <1>2. Ordered(links, rd, K, hops)
    BY DEF OrderFor, Ordered
  <1> HIDE DEF n
  <1>3. CASE SendLock(t)
    <2> PICK K2 \in Told : K2 = [K EXCEPT ![n] = @ \cup {t}]
      BY <1>1 DEF Told
    <2>1. /\ locked' = [locked EXCEPT ![n] = @ \cup {t}]
          /\ sending' = [sending EXCEPT ![t] = "locked"]
          /\ \E S \in Selections(n) : links' = Put(links, n, S, LockOf(t))
          /\ UNCHANGED <<up, rd, hops, signed, faults, expiries>>
      BY <1>3 DEF SendLock, Opening, n
    <2>2. links' = Put(links, n, PeersOf(n), LockOf(t))
      BY <1>1, <2>1, SelectsAll
    <2>3. /\ K2 \in [Nodes -> SUBSET Tx] /\ t \in K2[n]
          /\ \A m \in Nodes : K[m] \subseteq K2[m]
          /\ \A m \in Nodes, x \in Tx : x \in K2[m] \ K[m] => m = n /\ x = t
      BY <1>1
    <2>8. FewLack(K2)'
      <3>1. \A m \in Nodes : locked[m] \subseteq locked'[m]
        BY <2>1 DEF TypeOK
      <3>2. t \in locked'[n]
        BY <1>1, <2>1 DEF TypeOK
      <3>3. \A x \in Tx : Lacking(K2, x)' \subseteq Lacking(K, x)
        BY <2>1, <2>3, <3>1, <3>2 DEF Lacking
      <3>4. faults' \in Nat /\ expiries' \in Nat /\ faults' >= faults /\ expiries' >= expiries
        BY <2>1 DEF TypeOK
      <3> QED BY <3>3, <3>4, NobodyLacks DEF OrderFor
    <2>4. StaysPast(rd, K, hops, rd', K2, hops')
      BY <2>1, <2>3 DEF StaysPast, PastQueue
    <2>5. Ordered(links', rd', K2, hops')
      BY <1>1, <1>2, <2>2, <2>3, <2>4, LockPut
    <2>6. VerifierTold(rd', K2)
      BY <2>1, <2>3 DEF OrderFor, VerifierTold
    <2>7. OriginTold(K2)'
      <3>1. ASSUME NEW x \in Tx, sending'[x] # "new" PROVE x \in K2[Origin[x]]
        <4>1. CASE x = t
          BY <2>3, <4>1 DEF n
        <4>2. CASE x # t
          <5>1. sending[x] # "new" /\ Origin[x] \in Nodes
            BY <1>1, <2>1, <3>1, <4>2, FlowAssumption
          <5> QED BY <2>3, <5>1 DEF OrderFor, OriginTold
        <4> QED BY <4>1, <4>2
      <3> QED BY <3>1 DEF OriginTold
    <2> QED BY <2>1, <2>5, <2>6, <2>7, <2>8 DEF StepKeepsOrder
  <1>4. CASE SendVerify(t)
    <2>1. /\ sending[t] = "locked" /\ sending' = [sending EXCEPT ![t] = "sent"]
          /\ \E S \in Selections(n) : links' = Put(links, n, S, VerifyOf(t))
          /\ UNCHANGED <<up, rd, hops, locked, signed, faults, expiries>>
      BY <1>4 DEF SendVerify, n
    <2>2. links' = Put(links, n, PeersOf(n), VerifyOf(t))
      BY <1>1, <2>1, SelectsAll
    <2>3. t \in K[n]
      BY <2>1 DEF OrderFor, OriginTold, n
    <2>4. StaysPast(rd, K, hops, rd', K, hops')
      BY <2>1 DEF StaysPast, PastQueue
    <2>5. Ordered(links', rd', K, hops')
      BY <1>1, <1>2, <2>1, <2>2, <2>3, <2>4, VerifyPut
    <2>6. OriginTold(K)'
      BY <1>1, <2>1 DEF OrderFor, OriginTold
    <2>7. FewLack(K)'
      BY <2>1 DEF OrderFor, FewLack, Lacking
    <2> QED BY <2>1, <2>5, <2>6, <2>7 DEF StepKeepsOrder, OrderFor, VerifierTold
  <1> QED BY <1>3, <1>4

\* A TxVerify that passes the gate comes to a node that has been told.
LEMMA GateKeepsOrder ==
    ASSUME TypeOK, NEW K \in Told, OrderFor(K), NEW n \in Nodes, NEW p \in Nodes, Gate(n, p)
    PROVE  StepKeepsOrder(K)
  <1> DEFINE pkt == Packet(n, p)
             t == pkt.tx
  <1>1. /\ rd[<<n, p>>] = Idle /\ links[<<p, n>>] # <<>>
        /\ pkt \in FloodPackets /\ Counted(n, t) /\ links' = Take(n, p)
        /\ rd' = IF Passes(n, t) THEN [rd EXCEPT ![<<n, p>>] = [pc |-> pkt.type, tx |-> t]] ELSE rd
        /\ UNCHANGED <<up, locked, signed, sending, faults, expiries>>
    BY DEF Gate, HasPacket, registry, origin
  <1>2. /\ t \in Tx /\ t \in Ids
        /\ pkt = [type |-> pkt.type, tx |-> t]
        /\ pkt.type \in {"lock", "verify", "confirmed"}
    BY <1>1 DEF FloodPackets, Ids
  <1>3. /\ hops \in [Nodes -> [Ids -> 0 .. GossipHops]] /\ GossipHops \in Nat
        /\ K \in [Nodes -> SUBSET Tx] /\ Tx \subseteq Ids
        /\ rd \in [Links -> {Idle} \cup Handling \cup Appending \cup Deleting]
        /\ <<n, p>> \in Links
    BY FlowAssumption DEF TypeOK, Ids, Links, Handling, Appending, Deleting, Told
  <1> HIDE DEF pkt, t
  <1>4. \A m \in Nodes, x \in Tx : hops[m][x] = GossipHops => hops'[m][x] = GossipHops
    BY <1>1, <1>2, CountsStay
  <1>5. StaysPast(rd, K, hops, rd', K, hops')
    <2>1. \A l \in Links : l # <<n, p>> => rd'[l] = rd[l]
      BY <1>1, <1>3
    <2>2. \A x \in Tx : rd[<<n, p>>] # [pc |-> "lock", tx |-> x]
      BY <1>1 DEF Idle
    <2>3. \A m \in Nodes : K[m] \subseteq K[m]
      BY <1>1
    <2> QED BY <1>4, <2>1, <2>2, <2>3, PastKept
  <1>6. \A x \in Tx : Packet(n, p) = LockOf(x) => PastQueue(rd', K, hops', p, n, x)
    <2> SUFFICES ASSUME pkt = LockOf(t) PROVE PastQueue(rd', K, hops', p, n, t)
      BY DEF LockOf, pkt, t
    <2>1. pkt.type = "lock"
      BY DEF LockOf
    <2>2. CASE Passes(n, t)
      <3>1. rd'[<<n, p>>] = [pc |-> "lock", tx |-> t]
        BY <1>1, <1>3, <2>1, <2>2
      <3> QED BY <3>1 DEF PastQueue
    <2>3. CASE ~Passes(n, t)
      <3>1. hops[n][t] = GossipHops
        <4>1. hops[n] \in [Ids -> 0 .. GossipHops]
          BY <1>3
        <4>2. hops[n][t] \in 0 .. GossipHops
          BY <1>2, <4>1
        <4>3. ~(hops[n][t] < GossipHops)
          BY <2>3 DEF Passes
        <4>4. \A h \in 0 .. GossipHops : ~(h < GossipHops) => h = GossipHops
          BY FlowAssumption
        <4> QED BY <4>2, <4>3, <4>4, Zenon
      <3> QED BY <1>2, <1>4, <3>1 DEF PastQueue
    <2> QED BY <2>2, <2>3
  <1>7. Ordered(links', rd', K, hops')
    <2>1. LocksSpread(links, rd, K, hops) /\ VerifyBehindLock(links, rd, K, hops)
      BY DEF OrderFor
    <2>2. K = K
      BY <1>1
    <2> QED BY <1>1, <1>3, <1>5, <1>6, <2>1, <2>2, TakeKeepsOrder DEF Ordered
  <1>8. VerifierTold(rd', K)
    <2> SUFFICES ASSUME NEW a \in Nodes, NEW b \in Nodes, rd'[<<a, b>>].pc = "verify"
                 PROVE  rd'[<<a, b>>].tx \in K[a]
      BY <1>1 DEF VerifierTold
    <2>1. CASE rd'[<<a, b>>] = rd[<<a, b>>]
      BY <2>1 DEF OrderFor, VerifierTold
    <2>2. CASE rd'[<<a, b>>] # rd[<<a, b>>]
      <3>1. Passes(n, t) /\ <<a, b>> = <<n, p>> /\ rd'[<<a, b>>] = [pc |-> pkt.type, tx |-> t]
        BY <1>1, <1>3, <2>2 DEF Links
      <3>2. pkt = VerifyOf(t)
        BY <1>2, <3>1 DEF VerifyOf
      <3>3. 1 \in 1 .. Len(links[<<p, n>>]) /\ links[<<p, n>>][1] = VerifyOf(t)
        BY <1>1, <3>2, TakeType DEF pkt
      <3>4. PastQueue(rd, K, hops, p, n, t)
        <4>1. LockIn(links[<<p, n>>], 1 - 1, t) \/ PastQueue(rd, K, hops, p, n, t)
          BY <1>2, <3>3 DEF OrderFor, VerifyBehindLock
        <4> QED BY <4>1 DEF LockIn
      <3>5. t \in K[n]
        BY <1>1, <1>2, <1>3, <3>1, <3>4 DEF PastQueue, Passes, Idle
      <3>6. a = n
        BY <3>1
      <3> QED BY <3>1, <3>5, <3>6
    <2> QED BY <2>1, <2>2
  <1> QED BY <1>1, <1>7, <1>8 DEF StepKeepsOrder, OrderFor, OriginTold, FewLack, Lacking

\* A reader that moves on to anything but a TxVerify leaves the others alone.
LEMMA VerifierKept ==
    ASSUME NEW K, VerifierTold(rd, K), NEW n \in Nodes, NEW p \in Nodes,
           \A l \in Links : l # <<n, p>> => rd'[l] = rd[l],
           rd'[<<n, p>>].pc # "verify"
    PROVE  VerifierTold(rd', K)
  <1> SUFFICES ASSUME NEW a \in Nodes, NEW b \in Nodes, rd'[<<a, b>>].pc = "verify"
               PROVE  rd'[<<a, b>>].tx \in K[a]
    BY DEF VerifierTold
  <1>1. <<a, b>> # <<n, p>> /\ <<a, b>> \in Links
    BY DEF Links
  <1>2. rd'[<<a, b>>] = rd[<<a, b>>]
    BY <1>1
  <1> QED BY <1>2 DEF VerifierTold

\* handleNonceLock relays the lock to every peer, whether it could store it
\* or not.
LEMMA LockHandlerKeepsOrder ==
    ASSUME TypeOK, Undisturbed, QueuesHaveRoom, NEW K \in Told, OrderFor(K),
           NEW n \in Nodes, NEW p \in Nodes, HandleNonceLock(n, p)
    PROVE  \E K2 \in Told : StepKeepsOrder(K2)
  <1>0. PICK t : t = rd[<<n, p>>].tx
    OBVIOUS
  <1>1. /\ rd[<<n, p>>].pc = "lock" /\ rd' = [rd EXCEPT ![<<n, p>>] = Idle]
        /\ \E S \in Selections(n) : links' = Put(links, n, S, LockOf(t))
        /\ UNCHANGED <<up, hops, signed, sending, expiries>>
    BY <1>0 DEF HandleNonceLock, Handled, registry, origin
  <1>2. /\ links \in [Links -> Seq(Packets)] /\ K \in [Nodes -> SUBSET Tx]
        /\ \A l \in Links : Len(links[l]) < LinkCap
        /\ t \in Tx
    BY <1>0, <1>1, ReaderType DEF TypeOK, Links, QueuesHaveRoom, Handling, Told
  <1>3. Ordered(links, rd, K, hops)
    BY DEF OrderFor, Ordered
  <1>4. \A x \in Tx : rd[<<n, p>>] = [pc |-> "lock", tx |-> x] => x = t
    BY <1>0
  <1>5. PICK e \in BOOLEAN :
            Faulting(e) /\ locked' = IF e THEN locked ELSE [locked EXCEPT ![n] = @ \cup {t}]
    BY <1>0 DEF HandleNonceLock
  <1> PICK K2 \in Told : K2 = [K EXCEPT ![n] = @ \cup {t}]
    BY <1>2 DEF Told
  <1>6. links' = Put(links, n, PeersOf(n), LockOf(t))
    BY <1>1, SelectsAll
  <1>7. /\ K2 \in [Nodes -> SUBSET Tx] /\ t \in K2[n]
        /\ \A m \in Nodes : K[m] \subseteq K2[m]
        /\ \A m \in Nodes, x \in Tx : x \in K2[m] \ K[m] => m = n /\ x = t
    BY <1>2
  <1>8. FewLack(K2)'
    <2>1. CASE e
      <3>1. locked' = locked /\ faults' = faults + 1
        BY <1>5, <2>1, FaultingCounts
      <3>2. \A x \in Tx : Lacking(K2, x)' \subseteq Lacking(K, x) \cup {n}
        BY <1>1, <1>7, <3>1 DEF Lacking
      <3> QED BY <1>1, <3>1, <3>2, OneLacks DEF OrderFor
    <2>2. CASE ~e
      <3>1. /\ t \in locked'[n]
            /\ \A m \in Nodes : locked[m] \subseteq locked'[m]
        BY <1>5, <2>2 DEF TypeOK
      <3>2. \A x \in Tx : Lacking(K2, x)' \subseteq Lacking(K, x)
        BY <1>1, <1>7, <3>1 DEF Lacking
      <3>3. faults' \in Nat /\ faults' >= faults
        BY <1>5, FaultingCounts
      <3>4. expiries' \in Nat /\ expiries' >= expiries
        BY <1>1 DEF TypeOK
      <3> QED BY <3>2, <3>3, <3>4, NobodyLacks DEF OrderFor
    <2> QED BY <2>1, <2>2
  <1>9. StaysPast(rd, K, hops, rd', K2, hops')
    <2>1. \A x \in Tx : rd[<<n, p>>] = [pc |-> "lock", tx |-> x] => x \in K2[n]
      BY <1>4, <1>7
    <2>2. \A l \in Links : l # <<n, p>> => rd'[l] = rd[l]
      BY <1>1, ReaderEnds
    <2>3. hops' = hops
      BY <1>1
    <2> QED BY <1>7, <2>1, <2>2, <2>3, PastKept
  <1>10. Ordered(links', rd', K2, hops')
    BY <1>2, <1>3, <1>6, <1>7, <1>9, LockPut
  <1>11. VerifierTold(rd', K2)
    <2>1. /\ \A l \in Links : l # <<n, p>> => rd'[l] = rd[l]
          /\ rd'[<<n, p>>].pc # "verify"
      BY <1>1, ReaderEnds
    <2>2. VerifierTold(rd, K)
      BY DEF OrderFor
    <2>3. \A m \in Nodes : K[m] \subseteq K2[m]
      BY <1>7
    <2>4. VerifierTold(rd', K)
      BY <2>1, <2>2, VerifierKept
    <2>5. ASSUME NEW a \in Nodes, NEW b \in Nodes, rd'[<<a, b>>].pc = "verify"
          PROVE  rd'[<<a, b>>].tx \in K2[a]
      <3>1. rd'[<<a, b>>].tx \in K[a]
        BY <2>4, <2>5 DEF VerifierTold
      <3> QED BY <2>3, <3>1
    <2> QED BY <2>5 DEF VerifierTold
  <1>12. OriginTold(K2)'
    BY <1>1, <1>7, FlowAssumption DEF OrderFor, OriginTold
  <1> QED BY <1>1, <1>8, <1>10, <1>11, <1>12 DEF StepKeepsOrder

\* handleTxVerify signs with the lock, unless the node lacks it or the call
\* that reads it fails, and relays behind it.
LEMMA VerifyHandlerKeepsOrder ==
    ASSUME TypeOK, NEW K \in Told, OrderFor(K),
           NEW n \in Nodes, NEW p \in Nodes, HandleTxVerify(n, p)
    PROVE  StepKeepsOrder(K)
  <1> DEFINE t == rd[<<n, p>>].tx
             SignatureOf(e) == [wit |-> n, seen |-> LockSeen(n, t, e)]
  <1>1. /\ rd[<<n, p>>].pc = "verify" /\ rd' = [rd EXCEPT ![<<n, p>>] = Idle]
        /\ UNCHANGED <<up, hops, locked, sending, expiries>>
    BY DEF HandleTxVerify, Handled, origin
  <1>2. links \in [Links -> Seq(Packets)] /\ K \in [Nodes -> SUBSET Tx]
    BY DEF TypeOK, Links, Told
  <1>3. t \in Tx /\ t \in K[n]
    BY <1>1, ReaderType DEF Links, Handling, OrderFor, VerifierTold
  <1>4. PICK e \in BOOLEAN :
           /\ Faulting(e)
           /\ \/ UNCHANGED <<links, signed>>
              \/ /\ signed' = signed \cup {<<n, t, LockSeen(n, t, e)>>}
                 /\ \E R \in SigReceivers(n, t), S \in Selections(n) :
                       links' = Put(Put(links, n, R, SigOf(t, SignatureOf(e))), n, S, VerifyOf(t))
    BY DEF HandleTxVerify
  <1>5. SignatureOf(e) \in Signatures
    BY DEF Signatures, LockSeen
  <1>6. Ordered(links, rd, K, hops)
    BY DEF OrderFor, Ordered
  <1>7. \A x \in Tx : rd[<<n, p>>] # [pc |-> "lock", tx |-> x]
    BY <1>1
  <1> HIDE DEF t, SignatureOf
  <1>8. StaysPast(rd, K, hops, rd', K, hops')
    BY <1>1, <1>7, PastKept, ReaderEnds
  <1>9. Ordered(links', rd', K, hops')
    <2>1. CASE links' = links
      <3>1. Ordered(links, rd', K, hops)
        BY <1>1, <1>2, <1>6, <1>8, OrderedKept
      <3> QED BY <1>1, <2>1, <3>1
    <2>2. ASSUME NEW R \in SigReceivers(n, t), NEW S \in Selections(n),
                 links' = Put(Put(links, n, R, SigOf(t, SignatureOf(e))), n, S, VerifyOf(t))
          PROVE  Ordered(links', rd', K, hops')
      <3> DEFINE L == Put(links, n, R, SigOf(t, SignatureOf(e)))
      <3>1. SigOf(t, SignatureOf(e)) \in Packets /\ SigOf(t, SignatureOf(e)).type # "verify"
        BY <1>3, <1>5, PacketsOf DEF SigOf
      <3>2. L \in [Links -> Seq(Packets)]
        BY <1>2, <3>1, PutType
      <3>3. Ordered(L, rd', K, hops)
        BY <1>1, <1>2, <1>6, <1>8, <3>1, OtherPut
      <3>4. StaysPast(rd', K, hops, rd', K, hops)
        BY DEF StaysPast
      <3>5. S \in SUBSET PeersOf(n)
        BY DEF Selections
      <3> HIDE DEF L
      <3>6. Ordered(Put(L, n, S, VerifyOf(t)), rd', K, hops)
        BY <1>2, <1>3, <3>2, <3>3, <3>4, <3>5, VerifyPut
      <3> QED BY <1>1, <2>2, <3>6 DEF L
    <2> QED BY <1>4, <2>1, <2>2
  <1>10. VerifierTold(rd', K)
    BY <1>1, VerifierKept, ReaderEnds DEF OrderFor
  <1>11. FewLack(K)'
    <2>1. signed' \subseteq signed \cup {<<n, t, LockSeen(n, t, e)>>}
      BY <1>4
    <2>2. CASE e
      <3>1. \A x \in Tx : Lacking(K, x)' \subseteq Lacking(K, x) \cup {n}
        BY <1>1, <2>1 DEF Lacking
      <3>2. faults' = faults + 1
        BY <1>4, <2>2, FaultingCounts
      <3> QED BY <1>1, <3>1, <3>2, OneLacks DEF OrderFor
    <2>3. CASE ~e
      <3>1. \A x \in Tx : Lacking(K, x)' \subseteq Lacking(K, x)
        <4>1. CASE t \in locked[n]
          <5>1. LockSeen(n, t, e) = TRUE
            BY <2>3, <4>1 DEF LockSeen
          <5>2. \A m, x : <<m, x, FALSE>> # <<n, t, TRUE>>
            OBVIOUS
          <5> QED BY <1>1, <2>1, <5>1, <5>2 DEF Lacking
        <4>2. CASE t \notin locked[n]
          <5>1. n \in Lacking(K, t)
            BY <1>3, <4>2 DEF Lacking
          <5>2. \A x \in Tx : Lacking(K, x)' \subseteq Lacking(K, x) \cup (IF x = t THEN {n} ELSE {})
            BY <1>1, <2>1 DEF Lacking
          <5> QED BY <5>1, <5>2
        <4> QED BY <4>1, <4>2
      <3>2. faults' \in Nat /\ faults' >= faults
        BY <1>4, FaultingCounts
      <3>3. expiries' \in Nat /\ expiries' >= expiries
        BY <1>1 DEF TypeOK
      <3> QED BY <3>1, <3>2, <3>3, NobodyLacks DEF OrderFor
    <2> QED BY <2>2, <2>3
  <1> QED BY <1>1, <1>9, <1>10, <1>11 DEF StepKeepsOrder, OrderFor, OriginTold

\* A TxConfirmed disturbs nothing.
LEMMA ConfirmedHandlerKeepsOrder ==
    ASSUME TypeOK, NEW K \in Told, OrderFor(K), NEW n \in Nodes, NEW p \in Nodes, HandleTxConfirmed(n, p)
    PROVE  StepKeepsOrder(K)
  <1> DEFINE t == rd[<<n, p>>].tx
  <1>1. /\ rd[<<n, p>>].pc = "confirmed" /\ rd' = [rd EXCEPT ![<<n, p>>] = Idle]
        /\ \E S : links' = Put(links, n, S, ConfirmedOf(t))
        /\ UNCHANGED <<up, hops, locked, signed, sending, expiries>>
    BY DEF HandleTxConfirmed, Handled, registry, origin
  <1>2. links \in [Links -> Seq(Packets)] /\ K \in [Nodes -> SUBSET Tx] /\ t \in Tx
    BY <1>1, ReaderType DEF TypeOK, Links, Handling, Told
  <1>3. Ordered(links, rd, K, hops)
    BY DEF OrderFor, Ordered
  <1>4. \A x \in Tx : rd[<<n, p>>] # [pc |-> "lock", tx |-> x]
    BY <1>1
  <1> HIDE DEF t
  <1>5. StaysPast(rd, K, hops, rd', K, hops')
    BY <1>1, <1>4, PastKept, ReaderEnds
  <1>6. Ordered(links', rd', K, hops')
    <2>1. ConfirmedOf(t) \in Packets /\ ConfirmedOf(t).type # "verify"
      BY <1>2, PacketsOf DEF ConfirmedOf
    <2>2. \A S : Ordered(Put(links, n, S, ConfirmedOf(t)), rd', K, hops)
      BY <1>1, <1>2, <1>3, <1>5, <2>1, OtherPut
    <2> QED BY <1>1, <2>2
  <1>7. VerifierTold(rd', K)
    BY <1>1, VerifierKept, ReaderEnds DEF OrderFor
  <1>8. FewLack(K)'
    <2>1. faults' \in Nat /\ faults' >= faults
      BY FaultingCounts DEF HandleTxConfirmed
    <2>2. expiries' \in Nat /\ expiries' >= expiries
      BY <1>1 DEF TypeOK
    <2>3. \A x \in Tx : Lacking(K, x)' \subseteq Lacking(K, x)
      BY <1>1 DEF Lacking
    <2> QED BY <2>1, <2>2, <2>3, NobodyLacks DEF OrderFor
  <1> QED BY <1>1, <1>6, <1>7, <1>8 DEF StepKeepsOrder, OrderFor, OriginTold

\* Nor does a signature that is taken or relayed, ...
LEMMA ReceiveKeepsOrder ==
    ASSUME TypeOK, NEW K \in Told, OrderFor(K), NEW n \in Nodes, NEW p \in Nodes, ReceiveSig(n, p)
    PROVE  StepKeepsOrder(K)
  <1> DEFINE pkt == Packet(n, p)
             i == <<pkt.tx, pkt.sig.wit>>
  <1>1. /\ rd[<<n, p>>] = Idle /\ links[<<p, n>>] # <<>> /\ pkt.type = "sig"
        /\ \/ links' = Take(n, p)
           \/ \E S : links' = Put(Take(n, p), n, S, pkt)
        /\ rd' \in {rd, [rd EXCEPT ![<<n, p>>] = [pc |-> "append", tx |-> pkt.tx, sig |-> pkt.sig]]}
        /\ hops' = hops \/ Counted(n, i)
        /\ UNCHANGED <<up, locked, signed, sending, faults, expiries>>
    BY DEF ReceiveSig, HasPacket, registry, origin
  <1>2. /\ pkt \in Packets
        /\ Take(n, p) \in [Links -> Seq(Packets)]
    BY <1>1, TakeType
  <1>3. i \in Ids
    BY <1>1, <1>2 DEF Packets, FloodPackets, SigPackets, Signatures, Ids, SigIds
  <1>4. /\ hops \in [Nodes -> [Ids -> 0 .. GossipHops]] /\ GossipHops \in Nat
        /\ K \in [Nodes -> SUBSET Tx] /\ Tx \subseteq Ids
        /\ rd \in [Links -> {Idle} \cup Handling \cup Appending \cup Deleting]
        /\ <<n, p>> \in Links
    BY FlowAssumption DEF TypeOK, Ids, Links, Handling, Appending, Deleting, Told
  <1> HIDE DEF pkt, i
  <1>5. \A m \in Nodes, x \in Tx : hops[m][x] = GossipHops => hops'[m][x] = GossipHops
    BY <1>1, <1>3, CountsStay
  <1>6. /\ \A l \in Links : l # <<n, p>> => rd'[l] = rd[l]
        /\ rd'[<<n, p>>].pc # "verify"
    BY <1>1, <1>4 DEF Idle
  <1>7. \A m \in Nodes : K[m] \subseteq K[m]
    BY <1>1
  <1>8. \A x \in Tx : rd[<<n, p>>] # [pc |-> "lock", tx |-> x]
    BY <1>1 DEF Idle
  <1>9. StaysPast(rd, K, hops, rd', K, hops')
    BY <1>5, <1>6, <1>7, <1>8, PastKept
  <1>10. Ordered(Take(n, p), rd', K, hops')
    <2>1. \A x \in Tx : Packet(n, p) # LockOf(x)
      BY <1>1 DEF LockOf, pkt
    <2>2. StaysPast(rd, K, hops, rd', K, hops')
      BY <1>1, <1>9
    <2>3. LocksSpread(links, rd, K, hops) /\ VerifyBehindLock(links, rd, K, hops)
      BY DEF OrderFor
    <2> QED BY <1>1, <1>4, <2>1, <2>2, <2>3, TakeKeepsOrder DEF Ordered
  <1>11. Ordered(links', rd', K, hops')
    <2>1. StaysPast(rd', K, hops', rd', K, hops')
      BY DEF StaysPast
    <2>2. pkt.type # "verify"
      BY <1>1
    <2>3. ASSUME NEW S
          PROVE  Ordered(Put(Take(n, p), n, S, pkt), rd', K, hops')
      BY <1>2, <1>4, <1>10, <2>1, <2>2, OtherPut
    <2> QED BY <1>1, <1>10, <2>3
  <1>12. VerifierTold(rd', K)
    BY <1>6, <1>7, VerifierKept DEF OrderFor
  <1> QED BY <1>1, <1>11, <1>12 DEF StepKeepsOrder, OrderFor, OriginTold, FewLack, Lacking

\* ... one that is collected, ...
LEMMA CollectorKeepsOrder ==
    ASSUME TypeOK, NEW K \in Told, OrderFor(K), NEW n \in Nodes, NEW p \in Nodes,
           AppendSig(n, p) \/ StartConfirm(n, p)
    PROVE  StepKeepsOrder(K)
  <1>1. /\ rd[<<n, p>>].pc \in {"append", "delete"}
        /\ \E x : x.pc # "verify" /\ rd' = [rd EXCEPT ![<<n, p>>] = x]
        /\ UNCHANGED <<links, up, hops, locked, signed, sending, faults, expiries>>
    <2>1. CASE AppendSig(n, p)
      <3> DEFINE r == rd[<<n, p>>]
                 c == [pc |-> "delete", tx |-> r.tx, sigs |-> Append(sigs[r.tx], r.sig)]
      <3>1. /\ r.pc = "append"
            /\ rd' = [rd EXCEPT ![<<n, p>>] = c] \/ rd' = [rd EXCEPT ![<<n, p>>] = Idle]
            /\ UNCHANGED <<links, up, hops, locked, signed, sending, faults, expiries>>
        BY <2>1 DEF AppendSig, gossip
      <3>2. c.pc # "verify" /\ Idle.pc # "verify"
        BY DEF Idle
      <3> QED BY <3>1, <3>2
    <2>2. CASE StartConfirm(n, p)
      <3>1. Idle.pc # "verify"
        BY DEF Idle
      <3> QED BY <2>2, <3>1 DEF StartConfirm, gossip
    <2> QED BY <2>1, <2>2
  <1>2. /\ K \in [Nodes -> SUBSET Tx]
        /\ rd \in [Links -> {Idle} \cup Handling \cup Appending \cup Deleting]
        /\ <<n, p>> \in Links
    BY DEF TypeOK, Links, Handling, Appending, Deleting, Told
  <1>3. /\ \A l \in Links : l # <<n, p>> => rd'[l] = rd[l]
        /\ rd'[<<n, p>>].pc # "verify"
    BY <1>1, <1>2
  <1>4. \A x \in Tx : rd[<<n, p>>] # [pc |-> "lock", tx |-> x]
    BY <1>1
  <1>5. Ordered(links', rd', K, hops')
    <2>1. StaysPast(rd, K, hops, rd', K, hops')
      BY <1>1, <1>3, <1>4, PastKept
    <2>2. StaysPast(rd, K, hops, rd', K, hops)
      BY <1>1, <2>1
    <2>3. Ordered(links, rd, K, hops)
      BY DEF OrderFor, Ordered
    <2>4. Ordered(links, rd', K, hops)
      BY <1>2, <2>2, <2>3, OrderedKept
    <2> QED BY <1>1, <2>4
  <1>6. VerifierTold(rd', K)
    BY <1>1, <1>3, VerifierKept DEF OrderFor
  <1> QED BY <1>1, <1>5, <1>6 DEF StepKeepsOrder, OrderFor, OriginTold, FewLack, Lacking

\* ... or a confirmTx goroutine.
LEMMA ConfirmerKeepsOrder ==
    ASSUME TypeOK, NEW K \in Told, OrderFor(K), NEW j \in jobs, Confirmer(j)
    PROVE  StepKeepsOrder(K)
  <1>1. /\ UNCHANGED <<rd, up, hops, locked, signed, sending, expiries>>
        /\ links' = links \/ \E S, n : links' = Put(links, n, S, ConfirmedOf(j.tx))
    BY DEF Confirmer, VerifyQuorum, ConfirmTx, Announce, gossip, registry
  <1>2. /\ links \in [Links -> Seq(Packets)] /\ K \in [Nodes -> SUBSET Tx]
        /\ j.tx \in Tx
    BY DEF TypeOK, Links, Jobs, Told
  <1>3. Ordered(links, rd, K, hops)
    BY DEF OrderFor, Ordered
  <1>4. ASSUME NEW S, NEW n
        PROVE  Ordered(Put(links, n, S, ConfirmedOf(j.tx)), rd, K, hops)
    <2>1. ConfirmedOf(j.tx) \in Packets /\ ConfirmedOf(j.tx).type # "verify"
      BY <1>2, PacketsOf DEF ConfirmedOf
    <2>2. StaysPast(rd, K, hops, rd, K, hops)
      BY DEF StaysPast
    <2> QED BY <1>2, <1>3, <2>1, <2>2, OtherPut
  <1>5. Ordered(links', rd', K, hops')
    BY <1>1, <1>3, <1>4
  <1>6. FewLack(K)'
    <2>1. faults' \in Nat /\ faults' >= faults
      <3>1. CASE VerifyQuorum(j)
        BY <3>1, FaultingCounts DEF VerifyQuorum
      <3>2. CASE ConfirmTx(j) \/ Announce(j)
        BY <3>2 DEF ConfirmTx, Announce, TypeOK
      <3> QED BY <3>1, <3>2 DEF Confirmer
    <2>2. expiries' \in Nat /\ expiries' >= expiries
      BY <1>1 DEF TypeOK
    <2>3. \A x \in Tx : Lacking(K, x)' \subseteq Lacking(K, x)
      BY <1>1 DEF Lacking
    <2> QED BY <2>1, <2>2, <2>3, NobodyLacks DEF OrderFor
  <1> QED BY <1>1, <1>5, <1>6 DEF StepKeepsOrder, OrderFor, VerifierTold, OriginTold

\* A node whose lock expires comes to lack it.
LEMMA ExpiryKeepsOrder ==
    ASSUME TypeOK, NEW K \in Told, OrderFor(K), NEW n \in Nodes, NEW t \in Tx, Expire(n, t)
    PROVE  StepKeepsOrder(K)
  <1>1. /\ UNCHANGED <<links, rd, up, hops, signed, sending, faults>>
        /\ expiries' = expiries + 1
        /\ locked' = [locked EXCEPT ![n] = @ \ {t}]
    BY DEF Expire, gossip, origin
  <1>2. \A x \in Tx : Lacking(K, x)' \subseteq Lacking(K, x) \cup {n}
    <2>1. \A m \in Nodes : m # n => locked'[m] = locked[m]
      BY <1>1 DEF TypeOK
    <2> QED BY <1>1, <2>1 DEF Lacking
  <1>3. FewLack(K)'
    BY <1>1, <1>2, OneLacks DEF OrderFor
  <1> QED BY <1>1, <1>3 DEF StepKeepsOrder, OrderFor, Ordered, VerifierTold, OriginTold

\* Without breaks and restarts only the protocol and the TTL of the locks
\* take steps.
LEMMA NextOrderInv ==
    ASSUME TypeOK, Undisturbed, QueuesHaveRoom, OrderInv, [Next]_vars
    PROVE  OrderInv'
  <1>1. PICK K \in Told : OrderFor(K)
    BY DEF OrderInv
  <1>2. ASSUME NEW K2 \in Told, StepKeepsOrder(K2) PROVE OrderInv'
    <2>1. OrderFor(K2)'
      BY <1>1, <1>2 DEF StepKeepsOrder, Ordered, OrderFor, LocksSpread, VerifyBehindLock, PeersOf,
                        VerifierTold
    <2> QED BY <2>1 DEF OrderInv, Told
  <1>3. CASE UNCHANGED vars
    <2>1. UNCHANGED <<links, rd, up, hops, locked, signed, sending, faults, expiries>>
      BY <1>3 DEF vars, gossip, origin
    <2>2. StepKeepsOrder(K)
      BY <1>1, <2>1
      DEF StepKeepsOrder, Ordered, OrderFor, VerifierTold, OriginTold, FewLack, Lacking
    <2> QED BY <1>2, <2>2
  <1>4. ASSUME NEW t \in Tx, SendLock(t) \/ SendVerify(t) PROVE OrderInv'
    BY <1>1, <1>2, <1>4, SendKeepsOrder
  <1>5. ASSUME NEW n \in Nodes, NEW p \in Nodes, Reader(n, p) PROVE OrderInv'
    <2>1. CASE HandleNonceLock(n, p)
      BY <1>1, <1>2, <2>1, LockHandlerKeepsOrder
    <2>2. CASE ~HandleNonceLock(n, p)
      <3>1. StepKeepsOrder(K)
        BY <1>1, <1>5, <2>2, GateKeepsOrder, VerifyHandlerKeepsOrder,
           ConfirmedHandlerKeepsOrder, ReceiveKeepsOrder, CollectorKeepsOrder DEF Reader
      <3> QED BY <1>2, <3>1
    <2> QED BY <2>1, <2>2
  <1>6. ASSUME NEW j \in jobs, Confirmer(j) PROVE OrderInv'
    BY <1>1, <1>2, <1>6, ConfirmerKeepsOrder
  <1>7. ASSUME NEW n \in Nodes, NEW t \in Tx, Expire(n, t) PROVE OrderInv'
    BY <1>1, <1>2, <1>7, ExpiryKeepsOrder
  <1>8. ~(breaks < MaxBreaks) /\ Connections \ up = {}
    BY <1>1 DEF TypeOK, Undisturbed, OrderFor
  <1>9. /\ \A n \in Nodes : ~Restart(n)
        /\ \A n \in Nodes, W \in WitnessSets : ~Register(n, W)
        /\ \A c \in Connections : ~Break(c) /\ ~Reconnect(c)
    BY <1>8 DEF Restart, Register, Break, Reconnect
  <1> QED BY <1>3, <1>4, <1>5, <1>6, <1>7, <1>9 DEF Next

\* The witnesses that have signed without the lock are among those that lack
\* it.
LEMMA OrderPrecedes == TypeOK /\ OrderInv => LockPrecedesVerify
  <1> SUFFICES ASSUME TypeOK, OrderInv, NEW t \in Tx
               PROVE  Cardinality({n \in Nodes : <<n, t, FALSE>> \in signed}) <= faults + expiries
    BY DEF LockPrecedesVerify
  <1> DEFINE F == {n \in Nodes : <<n, t, FALSE>> \in signed}
  <1>1. PICK K \in Told : OrderFor(K)
    BY DEF OrderInv
  <1>2. IsFiniteSet(Lacking(K, t)) /\ F \subseteq Lacking(K, t)
    BY FlowAssumption, FS_Subset DEF Lacking
  <1>3. Cardinality(Lacking(K, t)) <= faults + expiries
    BY <1>1 DEF OrderFor, FewLack
  <1> HIDE DEF F
  <1>4. /\ Cardinality(F) <= Cardinality(Lacking(K, t))
        /\ Cardinality(F) \in Nat /\ Cardinality(Lacking(K, t)) \in Nat
    BY <1>2, FS_Subset, FS_CardinalityType
  <1>5. Cardinality(F) <= faults + expiries
    BY <1>3, <1>4 DEF TypeOK
  <1> QED BY <1>5 DEF F

(* The NonceLock is ahead of the TxVerify on every path: as long as the send
   queues have room, connections and nodes stay up and the fanout covers the
   peers, a database call that fails or a lock that expires costs one witness
   at most its lock, and no other witness signs a transaction whose lock it
   does not hold, whatever the topology, the hop budget and the interleaving
   of the readers (SendTx, handleNonceLock, handleTxVerify, ShouldForward).
   A node that could not store a lock stands between its peers and the lock
   no more than one that could: handleNonceLock relays in either case. *)
THEOREM LockAlwaysFirst ==
    ASSUME Undisturbed
    PROVE  Spec /\ []QueuesHaveRoom => []LockPrecedesVerify
  <1>1. Init => OrderInv
    BY OrderStart
  <1>2. TypeOK /\ QueuesHaveRoom /\ OrderInv /\ [Next]_vars => OrderInv'
    BY NextOrderInv
  <1>3. TypeOK /\ OrderInv => LockPrecedesVerify
    BY OrderPrecedes
  <1>4. Spec => []TypeOK
    BY FlowTypeCorrect
  <1> QED BY <1>1, <1>2, <1>3, <1>4, PTL DEF Spec

----------------------------------------------------------------------------
(* How much a flood can queue.  What a node sends to a peer is paid for by
   its own part in SendTx and confirmTx or by a passage of its gate; what a
   passage pays for and the handler behind the gate has yet to send is owed. *)

\* The packets that a reader may still send to one peer.
Owes(r) == IF r.pc = "verify" THEN 2 ELSE IF r.pc \in {"lock", "confirmed"} THEN 1 ELSE 0

\* The broadcasts that the origin of t has made: NonceLock, TxVerify,
\* TxConfirmed.
Announced(t) == commits[t] > 0 /\ \A j \in jobs : j.pc = "announce" => j.tx # t
Broadcasts(t) ==
    (IF sending[t] = "new" THEN 0 ELSE IF sending[t] = "locked" THEN 1 ELSE 2)
        + (IF Announced(t) THEN 1 ELSE 0)

BroadcastTable == [t \in Tx |-> Broadcasts(t)]

\* The sums, for readers R, counts H and broadcasts B.
OwedBy(R, n) == SumFunctionOnSet([p \in Nodes |-> Owes(R[<<n, p>>])], Nodes)
Passed(S, H, n) == SumFunctionOnSet([i \in S |-> H[n][i]], S)
StartedBy(B, n) == SumFunctionOnSet(B, OwnTx(n))

\* What node n has been paid for and owes nobody.
Slack(B, H, R, n) ==
    StartedBy(B, n) + 2 * Passed(Tx, H, n) + Passed(SigIds, H, n) - OwedBy(R, n)

Backlog(L, n, p) == Len(L[<<n, p>>])

PaidFor ==
    \A n, p \in Nodes : Backlog(links, n, p) <= Slack(BroadcastTable, hops, rd, n)

\* A confirmation is announced once.
AnnouncedOnce ==
    \A j \in jobs : j.pc = "announce" =>
        /\ commits[j.tx] > 0
        /\ \A k \in jobs : k.pc = "announce" /\ k.tx = j.tx => k = j

\* Nodes run through, and there are finitely many transactions.
Steady == MaxBreaks = 0 /\ IsFiniteSet(Tx)

\* The sets that are summed over are finite.
LEMMA SumsFinite ==
    ASSUME Steady, NEW n
    PROVE  /\ IsFiniteSet(Tx) /\ IsFiniteSet(Nodes) /\ IsFiniteSet(OwnTx(n)) /\ IsFiniteSet(SigIds)
           /\ OwnTx(n) \subseteq Tx /\ Tx \subseteq Ids /\ SigIds \subseteq Ids
           /\ Cardinality(SigIds) = Cardinality(Tx) * Cardinality(Nodes)
           /\ Cardinality(OwnTx(n)) <= Cardinality(Tx)
           /\ Cardinality(Tx) \in Nat /\ Cardinality(OwnTx(n)) \in Nat
           /\ Cardinality(Nodes) \in Nat
  <1>1. IsFiniteSet(Tx) /\ IsFiniteSet(Nodes)
    BY FlowAssumption DEF Steady
  <1>2. /\ OwnTx(n) \subseteq Tx /\ IsFiniteSet(OwnTx(n))
        /\ Cardinality(OwnTx(n)) <= Cardinality(Tx)
    BY <1>1, FS_Subset DEF OwnTx
  <1>3. IsFiniteSet(SigIds) /\ Cardinality(SigIds) = Cardinality(Tx) * Cardinality(Nodes)
    BY <1>1, FS_Product DEF SigIds
  <1> QED BY <1>1, <1>2, <1>3, FS_CardinalityType DEF Ids

Counts == [Nodes -> [Ids -> 0 .. GossipHops]]

\* The counts after message i at node n.
Bumped(H, n, i) == [H EXCEPT ![n][i] = IF @ < GossipHops THEN @ + 1 ELSE @]

\* What has passed the gate is within the budget.
LEMMA PassedBounded ==
    ASSUME NEW H \in Counts, NEW S \in SUBSET Ids, IsFiniteSet(S), NEW n \in Nodes
    PROVE  Passed(S, H, n) \in Nat /\ Passed(S, H, n) <= GossipHops * Cardinality(S)
  <1> DEFINE f == [i \in S |-> H[n][i]]
  <1>1. \A i \in S : f[i] \in Nat /\ f[i] <= GossipHops
    BY FlowAssumption DEF Counts
  <1>2. GossipHops \in Nat
    BY FlowAssumption
  <1> HIDE DEF f
  <1>3. SumFunctionOnSet(f, S) \in Nat /\ SumFunctionOnSet(f, S) <= GossipHops * Cardinality(S)
    BY <1>1, <1>2, SumInNat, SumBounded
  <1> QED BY <1>3 DEF Passed, f

\* A passage counts once.
LEMMA PassedMoves ==
    ASSUME NEW H \in Counts, NEW S \in SUBSET Ids, IsFiniteSet(S),
           NEW n \in Nodes, NEW i \in Ids, NEW H2 \in Counts,
           H2 = Bumped(H, n, i)
    PROVE  /\ \A m \in Nodes : Passed(S, H2, m) >= Passed(S, H, m)
           /\ H[n][i] < GossipHops /\ i \in S => Passed(S, H2, n) = Passed(S, H, n) + 1
  <1>1. ASSUME NEW m \in Nodes, NEW x \in S
        PROVE  /\ H[m][x] \in Int /\ H2[m][x] \in Int
               /\ m # n \/ x # i => H2[m][x] = H[m][x]
               /\ m = n /\ x = i => H2[m][x] = IF H[m][x] < GossipHops THEN H[m][x] + 1 ELSE H[m][x]
    BY FlowAssumption DEF Counts, Bumped
  <1>2. ASSUME NEW m \in Nodes
        PROVE  Passed(S, H, m) \in Nat
    BY PassedBounded
  <1>3. ASSUME NEW m \in Nodes, m # n \/ i \notin S
        PROVE  Passed(S, H2, m) = Passed(S, H, m)
    <2>1. [x \in S |-> H2[m][x]] = [x \in S |-> H[m][x]]
      BY <1>1, <1>3
    <2> QED BY <2>1 DEF Passed
  <1>4. ASSUME i \in S
        PROVE  Passed(S, H2, n) = Passed(S, H, n) - H[n][i] + H2[n][i]
    <2> DEFINE f == [x \in S |-> H[n][x]]
               g == [x \in S |-> H2[n][x]]
    <2>1. /\ \A x \in S : f[x] \in Int /\ g[x] \in Int
          /\ \A x \in S \ {i} : f[x] = g[x]
      BY <1>1
    <2>2. f[i] = H[n][i] /\ g[i] = H2[n][i]
      BY <1>4
    <2> HIDE DEF f, g
    <2>3. SumFunctionOnSet(g, S) = SumFunctionOnSet(f, S) - f[i] + g[i]
      BY <1>4, <2>1, SumUpdate
    <2> QED BY <2>2, <2>3 DEF Passed, f, g
  <1>5. CASE i \in S
    <2>1. Passed(S, H2, n) = Passed(S, H, n) + (IF H[n][i] < GossipHops THEN 1 ELSE 0)
      BY <1>1, <1>2, <1>4, <1>5
    <2>2. Passed(S, H2, n) >= Passed(S, H, n)
      BY <1>2, <2>1
    <2>3. ASSUME NEW m \in Nodes PROVE Passed(S, H2, m) >= Passed(S, H, m)
      <3>1. CASE m = n
        BY <2>2, <3>1
      <3>2. CASE m # n
        <4>1. Passed(S, H2, m) = Passed(S, H, m) /\ Passed(S, H, m) \in Nat
          BY <1>2, <1>3, <3>2
        <4> QED BY <4>1
      <3> QED BY <3>1, <3>2
    <2> QED BY <2>1, <2>3
  <1>6. CASE i \notin S
    <2>1. ASSUME NEW m \in Nodes PROVE Passed(S, H2, m) >= Passed(S, H, m)
      <3>1. Passed(S, H2, m) = Passed(S, H, m) /\ Passed(S, H, m) \in Nat
        BY <1>2, <1>3, <1>6
      <3> QED BY <3>1
    <2> QED BY <1>6, <2>1
  <1> QED BY <1>5, <1>6

\* What readers owe is a natural number, whatever they do.
LEMMA OwedNat ==
    ASSUME NEW R, NEW n
    PROVE  OwedBy(R, n) \in Nat /\ \A p : Owes(R[<<n, p>>]) \in Nat
  <1> DEFINE f == [p \in Nodes |-> Owes(R[<<n, p>>])]
  <1>1. \A p : Owes(R[<<n, p>>]) \in Nat
    BY DEF Owes
  <1>2. (\A p \in Nodes : f[p] \in Nat) /\ IsFiniteSet(Nodes)
    BY <1>1, FlowAssumption
  <1> HIDE DEF f
  <1>3. SumFunctionOnSet(f, Nodes) \in Nat
    BY <1>2, SumInNat
  <1> QED BY <1>1, <1>3 DEF OwedBy, f

\* One reader changes what its node owes.
LEMMA OwedMoves ==
    ASSUME NEW R, NEW R2, NEW n \in Nodes, NEW p \in Nodes,
           \A l \in Links : l # <<n, p>> => R2[l] = R[l]
    PROVE  /\ OwedBy(R2, n) = OwedBy(R, n) - Owes(R[<<n, p>>]) + Owes(R2[<<n, p>>])
           /\ \A m \in Nodes : m # n => OwedBy(R2, m) = OwedBy(R, m)
  <1>1. ASSUME NEW m \in Nodes, m # n PROVE OwedBy(R2, m) = OwedBy(R, m)
    <2>1. \A q \in Nodes : R2[<<m, q>>] = R[<<m, q>>]
      BY <1>1 DEF Links
    <2>2. [q \in Nodes |-> Owes(R2[<<m, q>>])] = [q \in Nodes |-> Owes(R[<<m, q>>])]
      BY <2>1
    <2> QED BY <2>2 DEF OwedBy
  <1>2. OwedBy(R2, n) = OwedBy(R, n) - Owes(R[<<n, p>>]) + Owes(R2[<<n, p>>])
    <2> DEFINE f == [q \in Nodes |-> Owes(R[<<n, q>>])]
               g == [q \in Nodes |-> Owes(R2[<<n, q>>])]
    <2>1. \A q \in Nodes \ {p} : f[q] = g[q]
      BY DEF Links
    <2>2. (\A q \in Nodes : f[q] \in Int /\ g[q] \in Int) /\ IsFiniteSet(Nodes)
      BY OwedNat, FlowAssumption
    <2>3. f[p] = Owes(R[<<n, p>>]) /\ g[p] = Owes(R2[<<n, p>>])
      OBVIOUS
    <2> HIDE DEF f, g
    <2>4. SumFunctionOnSet(g, Nodes) = SumFunctionOnSet(f, Nodes) - f[p] + g[p]
      BY <2>1, <2>2, SumUpdate
    <2> QED BY <2>3, <2>4 DEF OwedBy, f, g
  <1> QED BY <1>1, <1>2

\* A node starts at most three broadcasts for each of its transactions.
LEMMA StartedBounded ==
    ASSUME Steady, NEW B \in [Tx -> 0 .. 3], NEW n \in Nodes
    PROVE  StartedBy(B, n) \in Nat /\ StartedBy(B, n) <= 3 * Cardinality(Tx)
  <1>1. \A t \in OwnTx(n) : B[t] \in Nat /\ B[t] <= 3
    BY SumsFinite
  <1>2. /\ SumFunctionOnSet(B, OwnTx(n)) \in Nat
        /\ SumFunctionOnSet(B, OwnTx(n)) <= 3 * Cardinality(OwnTx(n))
    BY <1>1, SumsFinite, SumInNat, SumBounded
  <1> QED BY <1>2, SumsFinite DEF StartedBy

\* A broadcast counts at the origin.
LEMMA StartedMoves ==
    ASSUME Steady, NEW B \in [Tx -> 0 .. 3], NEW t \in Tx, NEW B2 \in [Tx -> 0 .. 3],
           \A x \in Tx : x # t => B2[x] = B[x]
    PROVE  /\ StartedBy(B2, Origin[t]) = StartedBy(B, Origin[t]) - B[t] + B2[t]
           /\ \A m \in Nodes : m # Origin[t] => StartedBy(B2, m) = StartedBy(B, m)
  <1>1. ASSUME NEW m \in Nodes, m # Origin[t] PROVE StartedBy(B2, m) = StartedBy(B, m)
    <2>1. \A x \in OwnTx(m) : B2[x] = B[x]
      BY <1>1 DEF OwnTx
    <2> QED BY <2>1, SumsFinite, SumCongruent DEF StartedBy
  <1>2. StartedBy(B2, Origin[t]) = StartedBy(B, Origin[t]) - B[t] + B2[t]
    <2>1. t \in OwnTx(Origin[t])
      BY DEF OwnTx
    <2>2. \A x \in OwnTx(Origin[t]) : B[x] \in Int /\ B2[x] \in Int
      BY SumsFinite
    <2>3. \A x \in OwnTx(Origin[t]) \ {t} : B[x] = B2[x]
      BY SumsFinite
    <2> QED BY <2>1, <2>2, <2>3, SumsFinite, SumUpdate DEF StartedBy
  <1> QED BY <1>1, <1>2

\* What node a gets when node n gets k.
Share(a, n, k) == IF a = n THEN k ELSE 0

\* Shares are natural numbers that add up.
LEMMA Shares ==
    ASSUME NEW a, NEW n
    PROVE  /\ \A k \in Nat : Share(a, n, k) \in Nat
           /\ Share(a, n, 0) = 0
           /\ Share(a, n, 1) + Share(a, n, 1) = Share(a, n, 2)
           /\ \A k \in 0 .. 2 : Share(a, n, k) <= Share(a, n, 2)
  BY DEF Share

\* The length of a queue is a natural number.
LEMMA BacklogNat ==
    ASSUME NEW L \in [Links -> Seq(Packets)], NEW a \in Nodes, NEW b \in Nodes
    PROVE  Backlog(L, a, b) \in Nat
  <1>1. L[<<a, b>>] \in Seq(Packets)
    BY DEF Links
  <1> QED BY <1>1 DEF Backlog

\* Queues grow by what is put into them.
LEMMA PutLength ==
    ASSUME NEW L \in [Links -> Seq(Packets)], NEW n, NEW S, NEW pkt \in Packets,
           NEW a \in Nodes, NEW b \in Nodes
    PROVE  Backlog(Put(L, n, S, pkt), a, b) <= Backlog(L, a, b) + Share(a, n, 1)
  <1> DEFINE q == L[<<a, b>>]
             q2 == Put(L, n, S, pkt)[<<a, b>>]
  <1>1. <<a, b>> \in Links /\ <<a, b>>[1] = a
    BY DEF Links
  <1>2. q \in Seq(Packets)
    BY <1>1
  <1>3. q2 = q \/ q2 = Append(q, pkt)
    BY <1>1, PutAdds
  <1>4. q2 # q => a = n
    BY <1>1, PutAdds
  <1> HIDE DEF q, q2
  <1>5. Len(q) \in Nat /\ Len(Append(q, pkt)) = Len(q) + 1
    BY <1>2
  <1>6. Len(q2) <= Len(q) + Share(a, n, 1)
    <2>1. CASE q2 = q
      BY <1>5, <2>1, Shares
    <2>2. CASE q2 # q
      <3>1. Len(q2) = Len(q) + 1 /\ Share(a, n, 1) = 1
        BY <1>3, <1>4, <1>5, <2>2 DEF Share
      <3> QED BY <1>5, <3>1
    <2> QED BY <2>1, <2>2
  <1> QED BY <1>6 DEF Backlog, q, q2

\* Taking a packet makes no queue longer.
LEMMA TakeLength ==
    ASSUME TypeOK, NEW n \in Nodes, NEW p \in Nodes, links[<<p, n>>] # <<>>,
           NEW a \in Nodes, NEW b \in Nodes
    PROVE  Backlog(Take(n, p), a, b) <= Backlog(links, a, b)
  <1>1. <<a, b>> \in Links /\ links \in [Links -> Seq(Packets)] /\ <<p, n>> \in Links
    BY DEF TypeOK, Links
  <1>2. links[<<a, b>>] \in Seq(Packets) /\ links[<<p, n>>] \in Seq(Packets)
    BY <1>1
  <1>3. Len(links[<<a, b>>]) \in Nat /\ Len(Tail(links[<<p, n>>])) <= Len(links[<<p, n>>])
    BY <1>2
  <1>4. CASE <<a, b>> = <<p, n>>
    <2>1. Take(n, p)[<<p, n>>] = Tail(links[<<p, n>>])
      BY <1>1 DEF Take
    <2> QED BY <1>3, <1>4, <2>1 DEF Backlog
  <1>5. CASE <<a, b>> # <<p, n>>
    <2>1. Take(n, p)[<<a, b>>] = links[<<a, b>>]
      BY <1>1, <1>5 DEF Take
    <2> QED BY <1>3, <2>1 DEF Backlog
  <1> QED BY <1>4, <1>5

----------------------------------------------------------------------------
\* What the slack consists of, and how far it can go.
LEMMA SlackParts ==
    ASSUME Steady, NEW B \in [Tx -> 0 .. 3], NEW H \in Counts, NEW R, NEW n \in Nodes
    PROVE  /\ StartedBy(B, n) \in Nat /\ StartedBy(B, n) <= 3 * Cardinality(Tx)
           /\ Passed(Tx, H, n) \in Nat /\ Passed(Tx, H, n) <= GossipHops * Cardinality(Tx)
           /\ Passed(SigIds, H, n) \in Nat
           /\ Passed(SigIds, H, n) <= GossipHops * Cardinality(SigIds)
           /\ OwedBy(R, n) \in Nat
           /\ Slack(B, H, R, n) \in Int
  <1>1. StartedBy(B, n) \in Nat /\ StartedBy(B, n) <= 3 * Cardinality(Tx)
    BY StartedBounded
  <1>2. ASSUME NEW S \in {Tx, SigIds}
        PROVE  Passed(S, H, n) \in Nat /\ Passed(S, H, n) <= GossipHops * Cardinality(S)
    <2>1. S \in SUBSET Ids /\ IsFiniteSet(S)
      BY SumsFinite
    <2> QED BY <2>1, PassedBounded
  <1>3. OwedBy(R, n) \in Nat
    BY OwedNat
  <1> QED BY <1>1, <1>2, <1>3 DEF Slack

\* A broadcast of the origin is paid for.
LEMMA BroadcastPays ==
    ASSUME Steady, NEW B \in [Tx -> 0 .. 3], NEW B2 \in [Tx -> 0 .. 3], NEW H \in Counts, NEW R,
           NEW t \in Tx, B2[t] = B[t] + 1, \A x \in Tx : x # t => B2[x] = B[x],
           NEW m \in Nodes
    PROVE  Slack(B2, H, R, m) = Slack(B, H, R, m) + Share(m, Origin[t], 1)
  <1>1. /\ StartedBy(B2, Origin[t]) = StartedBy(B, Origin[t]) - B[t] + B2[t]
        /\ \A x \in Nodes : x # Origin[t] => StartedBy(B2, x) = StartedBy(B, x)
    BY StartedMoves
  <1>2. StartedBy(B, m) \in Nat
    BY StartedBounded
  <1>3. B[t] \in Nat
    OBVIOUS
  <1>4. StartedBy(B2, m) = StartedBy(B, m) + Share(m, Origin[t], 1)
    <2>1. CASE m = Origin[t]
      <3>1. StartedBy(B2, m) = StartedBy(B, m) - B[t] + (B[t] + 1)
        BY <1>1, <2>1
      <3> QED BY <1>2, <1>3, <2>1, <3>1 DEF Share
    <2>2. CASE m # Origin[t]
      BY <1>1, <1>2, <2>2 DEF Share
    <2> QED BY <2>1, <2>2
  <1>5. Share(m, Origin[t], 1) \in Nat
    BY Shares
  <1>6. /\ Passed(Tx, H, m) \in Nat /\ Passed(SigIds, H, m) \in Nat
        /\ OwedBy(R, m) \in Nat
    BY SlackParts
  <1> QED BY <1>2, <1>4, <1>5, <1>6 DEF Slack

\* A passage of the gate pays for two packets behind it, the relay of a
\* signature for one.
LEMMA PassagePays ==
    ASSUME Steady, NEW B \in [Tx -> 0 .. 3], NEW H \in Counts, NEW H2 \in Counts, NEW R,
           NEW n \in Nodes, NEW i \in Ids, H2 = Bumped(H, n, i),
           NEW m \in Nodes
    PROVE  /\ Slack(B, H2, R, m) >= Slack(B, H, R, m)
           /\ m = n /\ H[n][i] < GossipHops /\ i \in Tx =>
                 Slack(B, H2, R, m) >= Slack(B, H, R, m) + 2
           /\ m = n /\ H[n][i] < GossipHops /\ i \in SigIds =>
                 Slack(B, H2, R, m) >= Slack(B, H, R, m) + 1
  <1>1. ASSUME NEW S \in {Tx, SigIds}
        PROVE  /\ Passed(S, H2, m) >= Passed(S, H, m)
               /\ H[n][i] < GossipHops /\ i \in S => Passed(S, H2, n) = Passed(S, H, n) + 1
    <2>1. S \in SUBSET Ids /\ IsFiniteSet(S)
      BY SumsFinite
    <2> QED BY <2>1, PassedMoves
  <1>2. /\ Passed(Tx, H2, m) >= Passed(Tx, H, m)
        /\ Passed(SigIds, H2, m) >= Passed(SigIds, H, m)
    BY <1>1
  <1>3. /\ StartedBy(B, m) \in Nat /\ OwedBy(R, m) \in Nat
        /\ Passed(Tx, H, m) \in Nat /\ Passed(SigIds, H, m) \in Nat
        /\ Passed(Tx, H2, m) \in Nat /\ Passed(SigIds, H2, m) \in Nat
    BY SlackParts
  <1>4. Slack(B, H2, R, m) >= Slack(B, H, R, m)
    BY <1>2, <1>3 DEF Slack
  <1>5. ASSUME m = n, H[n][i] < GossipHops, i \in Tx
        PROVE  Slack(B, H2, R, m) >= Slack(B, H, R, m) + 2
    <2>1. Passed(Tx, H2, m) = Passed(Tx, H, m) + 1
      BY <1>1, <1>5
    <2> QED BY <1>2, <1>3, <2>1 DEF Slack
  <1>6. ASSUME m = n, H[n][i] < GossipHops, i \in SigIds
        PROVE  Slack(B, H2, R, m) >= Slack(B, H, R, m) + 1
    <2>1. Passed(SigIds, H2, m) = Passed(SigIds, H, m) + 1
      BY <1>1, <1>6
    <2> QED BY <1>2, <1>3, <2>1 DEF Slack
  <1> QED BY <1>4, <1>5, <1>6

\* Reader l changes from r to r2; the other readers stay.
OneReader(R, R2, l, r, r2) ==
    R[l] = r /\ R2[l] = r2 /\ \A m \in Links : m # l => R2[m] = R[m]

\* A reader that starts to owe uses up slack, one that is done gives it back.
LEMMA ReaderPays ==
    ASSUME Steady, NEW B \in [Tx -> 0 .. 3], NEW H \in Counts, NEW R, NEW R2,
           NEW n \in Nodes, NEW p \in Nodes, NEW r, NEW r2,
           OneReader(R, R2, <<n, p>>, r, r2), NEW m \in Nodes
    PROVE  Slack(B, H, R2, m) + Share(m, n, Owes(r2)) = Slack(B, H, R, m) + Share(m, n, Owes(r))
  <1>1. /\ OwedBy(R2, n) = OwedBy(R, n) - Owes(r) + Owes(r2)
        /\ \A x \in Nodes : x # n => OwedBy(R2, x) = OwedBy(R, x)
    BY OwedMoves DEF OneReader
  <1>2. Owes(r) \in Nat /\ Owes(r2) \in Nat
    BY DEF Owes
  <1>3. /\ StartedBy(B, m) \in Nat /\ OwedBy(R, m) \in Nat /\ OwedBy(R2, m) \in Nat
        /\ Passed(Tx, H, m) \in Nat /\ Passed(SigIds, H, m) \in Nat
    BY SlackParts
  <1>4. CASE m = n
    <2>1. OwedBy(R2, m) = OwedBy(R, m) - Owes(r) + Owes(r2)
      BY <1>1, <1>4
    <2>2. Share(m, n, Owes(r)) = Owes(r) /\ Share(m, n, Owes(r2)) = Owes(r2)
      BY <1>4 DEF Share
    <2> QED BY <1>2, <1>3, <2>1, <2>2 DEF Slack
  <1>5. CASE m # n
    <2>1. OwedBy(R2, m) = OwedBy(R, m)
      BY <1>1, <1>5
    <2>2. Share(m, n, Owes(r)) = 0 /\ Share(m, n, Owes(r2)) = 0
      BY <1>5 DEF Share
    <2> QED BY <1>3, <2>1, <2>2 DEF Slack
  <1> QED BY <1>4, <1>5

\* The table of broadcasts is well-typed before and after every step.
LEMMA BroadcastsType ==
    /\ BroadcastTable \in [Tx -> 0 .. 3] /\ BroadcastTable' \in [Tx -> 0 .. 3]
    /\ \A t \in Tx : BroadcastTable[t] = Broadcasts(t) /\ BroadcastTable'[t] = Broadcasts(t)'
  BY DEF BroadcastTable, Broadcasts

\* What a reader and the confirmation goroutine do leaves the broadcasts of
\* the origin as they are.
LEMMA NothingStarted ==
    ASSUME UNCHANGED <<sending, commits>>,
           \A j : j.pc = "announce" => (j \in jobs <=> j \in jobs')
    PROVE  BroadcastTable' = BroadcastTable
  <1>1. ASSUME NEW t PROVE Broadcasts(t)' = Broadcasts(t)
    <2>1. Announced(t)' <=> Announced(t)
      BY DEF Announced
    <2> QED BY <2>1 DEF Broadcasts
  <1> QED BY <1>1 DEF BroadcastTable

----------------------------------------------------------------------------
\* A step in which node n queues at most k packets for each peer pays for
\* them.
StepPaid(n, k) ==
    \A a, b \in Nodes :
        /\ Backlog(links', a, b) <= Backlog(links, a, b) + Share(a, n, k)
        /\ Slack(BroadcastTable', hops', rd', a) >=
              Slack(BroadcastTable, hops, rd, a) + Share(a, n, k)

\* What the balance of a step is about is well-typed.
LEMMA BalanceTypes ==
    ASSUME Steady, TypeOK, NEW a \in Nodes, NEW b \in Nodes
    PROVE  /\ Backlog(links, a, b) \in Nat
           /\ Slack(BroadcastTable, hops, rd, a) \in Int
  <1>1. links \in [Links -> Seq(Packets)] /\ hops \in Counts
    BY DEF TypeOK, Links, Counts
  <1> QED BY <1>1, BacklogNat, BroadcastsType, SlackParts

\* ... and so it is after the step.
LEMMA BalanceTypesAfter ==
    ASSUME Steady, TypeOK', NEW a \in Nodes, NEW b \in Nodes
    PROVE  /\ Backlog(links', a, b) \in Nat
           /\ Slack(BroadcastTable', hops', rd', a) \in Int
  <1>1. links' \in [Links -> Seq(Packets)] /\ hops' \in Counts
    BY DEF TypeOK, Links, Counts
  <1> QED BY <1>1, BacklogNat, BroadcastsType, SlackParts

\* Such a step leaves everything paid for.
LEMMA StepKeepsPaid ==
    ASSUME Steady, TypeOK, TypeOK', PaidFor, NEW n, NEW k \in Nat, StepPaid(n, k)
    PROVE  PaidFor'
  <1> SUFFICES ASSUME NEW a \in Nodes, NEW b \in Nodes
               PROVE  Backlog(links', a, b) <= Slack(BroadcastTable', hops', rd', a)
    BY DEF PaidFor
  <1>1. /\ Backlog(links, a, b) \in Nat /\ Backlog(links', a, b) \in Nat
        /\ Slack(BroadcastTable, hops, rd, a) \in Int
        /\ Slack(BroadcastTable', hops', rd', a) \in Int
        /\ Share(a, n, k) \in Nat
    BY BalanceTypes, BalanceTypesAfter, Shares
  <1>2. Backlog(links, a, b) <= Slack(BroadcastTable, hops, rd, a)
    BY DEF PaidFor
  <1>3. /\ Backlog(links', a, b) <= Backlog(links, a, b) + Share(a, n, k)
        /\ Slack(BroadcastTable', hops', rd', a) >=
              Slack(BroadcastTable, hops, rd, a) + Share(a, n, k)
    BY DEF StepPaid
  <1> QED BY <1>1, <1>2, <1>3

\* SendTx pays for what it broadcasts.
LEMMA SendPaid ==
    ASSUME Steady, TypeOK, NEW t \in Tx, SendLock(t) \/ SendVerify(t)
    PROVE  StepPaid(Origin[t], 1)
  <1>1. /\ links \in [Links -> Seq(Packets)] /\ hops \in Counts /\ hops' = hops /\ rd' = rd
    BY DEF TypeOK, Counts, SendLock, SendVerify, Links
  <1>2. PICK S, pkt : pkt \in Packets /\ links' = Put(links, Origin[t], S, pkt)
    <2>1. LockOf(t) \in Packets /\ VerifyOf(t) \in Packets
      BY PacketsOf
    <2> QED BY <2>1 DEF SendLock, SendVerify, Opening
  <1>3. UNCHANGED <<jobs, commits>>
    BY DEF SendLock, SendVerify
  <1>4. \A x \in Tx : Announced(x)' <=> Announced(x)
    BY <1>3 DEF Announced
  <1>5. /\ \A x \in Tx : x # t => sending'[x] = sending[x]
        /\ \/ sending[t] = "new" /\ sending'[t] = "locked"
           \/ sending[t] = "locked" /\ sending'[t] = "sent"
    BY DEF TypeOK, SendLock, SendVerify
  <1>6. /\ BroadcastTable'[t] = BroadcastTable[t] + 1
        /\ \A x \in Tx : x # t => BroadcastTable'[x] = BroadcastTable[x]
    BY <1>4, <1>5, BroadcastsType DEF Broadcasts
  <1>7. ASSUME NEW a \in Nodes, NEW b \in Nodes
        PROVE  /\ Backlog(links', a, b) <= Backlog(links, a, b) + Share(a, Origin[t], 1)
               /\ Slack(BroadcastTable', hops', rd', a) >=
                     Slack(BroadcastTable, hops, rd, a) + Share(a, Origin[t], 1)
    <2>1. Slack(BroadcastTable', hops, rd, a) =
              Slack(BroadcastTable, hops, rd, a) + Share(a, Origin[t], 1)
      BY <1>1, <1>6, BroadcastsType, BroadcastPays
    <2>2. Slack(BroadcastTable, hops, rd, a) \in Int /\ Share(a, Origin[t], 1) \in Nat
      BY BalanceTypes, Shares
    <2> QED BY <1>1, <1>2, <2>1, <2>2, PutLength
  <1> QED BY <1>7 DEF StepPaid

\* What passes the gate pays for its relay.
LEMMA GatePaid ==
    ASSUME Steady, TypeOK, TypeOK', NEW n \in Nodes, NEW p \in Nodes, Gate(n, p)
    PROVE  StepPaid(n, 0)
  <1> DEFINE i == Packet(n, p).tx
             B == BroadcastTable
  <1>1. /\ hops \in Counts /\ hops' \in Counts /\ rd[<<n, p>>] = Idle
    BY DEF TypeOK, Counts, Gate, HasPacket
  <1>2. i \in Tx /\ i \in Ids
    BY DEF Gate, FloodPackets, Ids
  <1>3. hops' = Bumped(hops, n, i)
    BY DEF Gate, Counted, Bumped
  <1>4. B \in [Tx -> 0 .. 3] /\ B' = B
    BY BroadcastsType, NothingStarted DEF Gate, origin
  <1> HIDE DEF i, B
  <1>5. ASSUME NEW a \in Nodes PROVE Slack(B, hops', rd', a) >= Slack(B, hops, rd, a)
    <2>1. /\ Slack(B, hops', rd, a) >= Slack(B, hops, rd, a)
          /\ a = n /\ hops[n][i] < GossipHops =>
                Slack(B, hops', rd, a) >= Slack(B, hops, rd, a) + 2
      BY <1>1, <1>2, <1>3, <1>4, PassagePays
    <2>2. /\ Slack(B, hops, rd, a) \in Int /\ Slack(B, hops', rd, a) \in Int
          /\ Slack(B, hops', rd', a) \in Int
      BY <1>1, <1>4, SlackParts
    <2>3. CASE Passes(n, i)
      <3> DEFINE r2 == rd'[<<n, p>>]
      <3>1. rd' = [rd EXCEPT ![<<n, p>>] = [pc |-> Packet(n, p).type, tx |-> Packet(n, p).tx]]
        BY <2>3 DEF Gate, i
      <3>2. OneReader(rd, rd', <<n, p>>, Idle, r2)
        BY <1>1, <3>1 DEF OneReader, TypeOK, Links
      <3>3. Owes(Idle) = 0 /\ Owes(r2) \in 0 .. 2
        BY DEF Owes, Idle
      <3> HIDE DEF r2
      <3>4. Slack(B, hops', rd', a) + Share(a, n, Owes(r2)) =
                Slack(B, hops', rd, a) + Share(a, n, Owes(Idle))
        BY <1>1, <1>4, <3>2, ReaderPays
      <3>5. CASE a = n
        <4>1. Share(a, n, Owes(r2)) \in 0 .. 2 /\ Share(a, n, Owes(Idle)) = 0
          BY <3>3, <3>5 DEF Share
        <4>2. Slack(B, hops', rd, a) >= Slack(B, hops, rd, a) + 2
          BY <2>1, <2>3, <3>5 DEF Passes
        <4> QED BY <2>2, <3>4, <4>1, <4>2
      <3>6. CASE a # n
        <4>1. Share(a, n, Owes(r2)) = 0 /\ Share(a, n, Owes(Idle)) = 0
          BY <3>6 DEF Share
        <4> QED BY <2>1, <2>2, <3>4, <4>1
      <3> QED BY <3>5, <3>6
    <2>4. CASE ~Passes(n, i)
      <3>1. rd' = rd
        BY <2>4 DEF Gate, i
      <3> QED BY <2>1, <3>1
    <2> QED BY <2>3, <2>4
  <1>6. ASSUME NEW a \in Nodes, NEW b \in Nodes
        PROVE  /\ Backlog(links', a, b) <= Backlog(links, a, b) + Share(a, n, 0)
               /\ Slack(BroadcastTable', hops', rd', a) >=
                     Slack(BroadcastTable, hops, rd, a) + Share(a, n, 0)
    <2>1. Backlog(links', a, b) <= Backlog(links, a, b)
      BY TakeLength DEF Gate, HasPacket
    <2>2. /\ Backlog(links, a, b) \in Nat /\ Slack(BroadcastTable, hops, rd, a) \in Int
          /\ Share(a, n, 0) = 0
      BY BalanceTypes, Shares
    <2>3. Slack(BroadcastTable', hops', rd', a) >= Slack(BroadcastTable, hops, rd, a)
      BY <1>4, <1>5 DEF B
    <2> QED BY <2>1, <2>2, <2>3
  <1> QED BY <1>6 DEF StepPaid

\* A reader that is done with its packet has sent what it owed.
LEMMA ReaderDonePaid ==
    ASSUME Steady, TypeOK, NEW n \in Nodes, NEW p \in Nodes,
           hops' = hops, BroadcastTable' = BroadcastTable,
           NEW r, NEW r2, OneReader(rd, rd', <<n, p>>, r, r2), Owes(r2) = 0,
           \A a, b \in Nodes :
               Backlog(links', a, b) <= Backlog(links, a, b) + Share(a, n, Owes(r))
    PROVE  StepPaid(n, Owes(r))
  <1>1. ASSUME NEW a \in Nodes
        PROVE  Slack(BroadcastTable', hops', rd', a) >=
                  Slack(BroadcastTable, hops, rd, a) + Share(a, n, Owes(r))
    <2>1. hops \in Counts
      BY DEF TypeOK, Counts
    <2>2. Slack(BroadcastTable, hops, rd', a) + Share(a, n, Owes(r2)) =
              Slack(BroadcastTable, hops, rd, a) + Share(a, n, Owes(r))
      BY <2>1, BroadcastsType, ReaderPays
    <2>3. Share(a, n, Owes(r)) \in Nat /\ Share(a, n, Owes(r2)) = 0
      BY Shares DEF Owes
    <2>4. /\ Slack(BroadcastTable, hops, rd, a) \in Int
          /\ Slack(BroadcastTable, hops, rd', a) \in Int
      BY <2>1, BroadcastsType, SlackParts
    <2> QED BY <2>2, <2>3, <2>4
  <1> QED BY <1>1 DEF StepPaid

\* What a handler behind the gate leaves of its reader.
LEMMA HandledReader ==
    ASSUME TypeOK, NEW n \in Nodes, NEW p \in Nodes, Handled(n, p)
    PROVE  OneReader(rd, rd', <<n, p>>, rd[<<n, p>>], Idle) /\ Owes(Idle) = 0
  BY DEF TypeOK, Handled, OneReader, Owes, Idle, Links

\* handleNonceLock and handleTxConfirmed relay what they handle.
LEMMA RelayPaid ==
    ASSUME Steady, TypeOK, NEW n \in Nodes, NEW p \in Nodes,
           HandleNonceLock(n, p) \/ HandleTxConfirmed(n, p)
    PROVE  StepPaid(n, 1)
  <1> DEFINE t == rd[<<n, p>>].tx
  <1>1. Handled(n, p) /\ hops' = hops /\ links \in [Links -> Seq(Packets)]
    BY DEF TypeOK, HandleNonceLock, HandleTxConfirmed, Links
  <1>2. BroadcastTable' = BroadcastTable
    BY NothingStarted DEF HandleNonceLock, HandleTxConfirmed, origin
  <1>3. Owes(rd[<<n, p>>]) = 1
    BY DEF Owes, HandleNonceLock, HandleTxConfirmed
  <1>4. PICK S, pkt : pkt \in Packets /\ links' = Put(links, n, S, pkt)
    <2>1. t \in Tx
      BY ReaderType DEF HandleNonceLock, HandleTxConfirmed, Links, Handling
    <2>2. LockOf(t) \in Packets /\ ConfirmedOf(t) \in Packets
      BY <2>1, PacketsOf
    <2> QED BY <2>2 DEF HandleNonceLock, HandleTxConfirmed
  <1>5. \A a, b \in Nodes : Backlog(links', a, b) <= Backlog(links, a, b) + Share(a, n, 1)
    BY <1>1, <1>4, PutLength
  <1> QED BY <1>1, <1>2, <1>3, <1>5, HandledReader, ReaderDonePaid

\* handleTxVerify sends a signature and the relay, or neither.
LEMMA VerifyPaid ==
    ASSUME Steady, TypeOK, NEW n \in Nodes, NEW p \in Nodes, HandleTxVerify(n, p)
    PROVE  StepPaid(n, 2)
  <1> DEFINE t == rd[<<n, p>>].tx
  <1>1. Handled(n, p) /\ hops' = hops /\ links \in [Links -> Seq(Packets)]
    BY DEF TypeOK, HandleTxVerify, Links
  <1>2. BroadcastTable' = BroadcastTable
    BY NothingStarted DEF HandleTxVerify, origin
  <1>3. Owes(rd[<<n, p>>]) = 2
    BY DEF Owes, HandleTxVerify
  <1>4. (\A s \in Signatures : SigOf(t, s) \in Packets) /\ VerifyOf(t) \in Packets
    BY VerifyEffect, PacketsOf
  <1>5. ASSUME NEW a \in Nodes, NEW b \in Nodes
        PROVE  Backlog(links', a, b) <= Backlog(links, a, b) + Share(a, n, 2)
    <2>1. /\ Backlog(links, a, b) \in Nat
          /\ Share(a, n, 1) \in Nat /\ Share(a, n, 1) + Share(a, n, 1) = Share(a, n, 2)
      BY <1>1, BacklogNat, Shares
    <2>2. CASE links' = links
      BY <2>1, <2>2
    <2>3. ASSUME NEW s \in Signatures, NEW R, NEW S,
                 links' = Put(Put(links, n, R, SigOf(t, s)), n, S, VerifyOf(t))
          PROVE  Backlog(links', a, b) <= Backlog(links, a, b) + Share(a, n, 2)
      <3> DEFINE L == Put(links, n, R, SigOf(t, s))
                 L2 == Put(L, n, S, VerifyOf(t))
      <3>1. L \in [Links -> Seq(Packets)]
        BY <1>1, <1>4, PutType
      <3>2. Backlog(L, a, b) <= Backlog(links, a, b) + Share(a, n, 1)
        BY <1>1, <1>4, PutLength
      <3> HIDE DEF L
      <3>3. Backlog(L2, a, b) <= Backlog(L, a, b) + Share(a, n, 1)
        BY <1>4, <3>1, PutLength
      <3>4. Backlog(L, a, b) \in Nat /\ Backlog(L2, a, b) \in Nat
        <4>1. L2 \in [Links -> Seq(Packets)]
          BY <1>4, <3>1, PutType
        <4> QED BY <3>1, <4>1, BacklogNat
      <3>5. links' = L2
        BY <2>3 DEF L
      <3> HIDE DEF L2
      <3> QED BY <2>1, <3>2, <3>3, <3>4, <3>5
    <2>4. \/ links' = links
          \/ \E s \in Signatures : \E R, S :
                links' = Put(Put(links, n, R, SigOf(t, s)), n, S, VerifyOf(t))
      BY VerifyEffect
    <2> QED BY <2>2, <2>3, <2>4
  <1> QED BY <1>1, <1>2, <1>3, <1>5, HandledReader, ReaderDonePaid

\* A signature that passes the gate pays for its relay.
LEMMA ReceivePaid ==
    ASSUME Steady, TypeOK, TypeOK', NEW n \in Nodes, NEW p \in Nodes, ReceiveSig(n, p)
    PROVE  \E k \in {0, 1} : StepPaid(n, k)
  <1> DEFINE pkt == Packet(n, p)
             i == <<pkt.tx, pkt.sig.wit>>
             B == BroadcastTable
             T == Take(n, p)
  <1>1. /\ hops \in Counts /\ hops' \in Counts /\ rd[<<n, p>>] = Idle
        /\ B \in [Tx -> 0 .. 3] /\ B' = B
    <2>1. B' = B
      BY NothingStarted DEF ReceiveSig, origin
    <2> QED BY <2>1, BroadcastsType DEF TypeOK, Counts, ReceiveSig, HasPacket
  <1>2. T \in [Links -> Seq(Packets)] /\ pkt \in Packets
    BY TakeType DEF ReceiveSig, HasPacket
  <1>3. \A a, b \in Nodes : Backlog(T, a, b) <= Backlog(links, a, b)
    BY TakeLength DEF ReceiveSig, HasPacket
  <1>4. i \in SigIds /\ i \in Ids
    <2>1. pkt \in SigPackets
      BY <1>2 DEF ReceiveSig, Packets, FloodPackets
    <2> QED BY <2>1 DEF SigPackets, Signatures, SigIds, Ids
  <1>5. Owes(Idle) = 0 /\ \A x, g : Owes([pc |-> "append", tx |-> x, sig |-> g]) = 0
    BY DEF Owes, Idle
  <1>6. CASE hops' = hops /\ links' = T
              /\ \E x, g : rd' = [rd EXCEPT ![<<n, p>>] = [pc |-> "append", tx |-> x, sig |-> g]]
    <2> HIDE DEF pkt, i, T
    <2>1. PICK x, g : rd' = [rd EXCEPT ![<<n, p>>] = [pc |-> "append", tx |-> x, sig |-> g]]
      BY <1>6
    <2>2. OneReader(rd, rd', <<n, p>>, Idle, [pc |-> "append", tx |-> x, sig |-> g])
      BY <1>1, <2>1 DEF OneReader, TypeOK, Links
    <2>3. ASSUME NEW a \in Nodes, NEW b \in Nodes
          PROVE  Backlog(links', a, b) <= Backlog(links, a, b) + Share(a, n, 0)
      BY <1>3, <1>6, BalanceTypes, Shares
    <2>4. StepPaid(n, 0)
      BY <1>1, <1>5, <1>6, <2>2, <2>3, ReaderDonePaid
    <2> QED BY <2>4
  <1>7. CASE /\ Counted(n, i) /\ rd' = rd
             /\ IF Passes(n, i) THEN \E S \in Selections(n) : links' = Put(T, n, S, pkt)
                ELSE links' = T
    <2> HIDE DEF pkt, i, T, B
    <2>1. hops' = Bumped(hops, n, i)
      BY <1>7 DEF Counted, Bumped
    <2>2. CASE Passes(n, i)
      <3>1. PICK S : links' = Put(T, n, S, pkt)
        BY <1>7, <2>2
      <3>2. ASSUME NEW a \in Nodes, NEW b \in Nodes
            PROVE  /\ Backlog(links', a, b) <= Backlog(links, a, b) + Share(a, n, 1)
                   /\ Slack(B, hops', rd, a) >= Slack(B, hops, rd, a) + Share(a, n, 1)
        <4>1. /\ Slack(B, hops', rd, a) >= Slack(B, hops, rd, a)
              /\ a = n => Slack(B, hops', rd, a) >= Slack(B, hops, rd, a) + 1
          BY <1>1, <1>4, <2>1, <2>2, PassagePays DEF Passes
        <4>2. Backlog(links', a, b) <= Backlog(T, a, b) + Share(a, n, 1)
          BY <1>2, <3>1, PutLength
        <4>3. /\ Backlog(T, a, b) \in Nat /\ Backlog(links, a, b) \in Nat
              /\ Backlog(links', a, b) \in Nat /\ Share(a, n, 1) \in Nat
              /\ Slack(B, hops, rd, a) \in Int /\ Slack(B, hops', rd, a) \in Int
          BY <1>1, <1>2, BacklogNat, BalanceTypes, BalanceTypesAfter, Shares, SlackParts
        <4>4. Backlog(T, a, b) <= Backlog(links, a, b)
          BY <1>3
        <4>5. (a = n /\ Share(a, n, 1) = 1) \/ Share(a, n, 1) = 0
          BY DEF Share
        <4> QED BY <4>1, <4>2, <4>3, <4>4, <4>5
      <3>3. StepPaid(n, 1)
        BY <1>1, <1>7, <3>2 DEF StepPaid, B
      <3> QED BY <3>3
    <2>3. CASE ~Passes(n, i)
      <3>1. ASSUME NEW a \in Nodes, NEW b \in Nodes
            PROVE  /\ Backlog(links', a, b) <= Backlog(links, a, b) + Share(a, n, 0)
                   /\ Slack(B, hops', rd, a) >= Slack(B, hops, rd, a) + Share(a, n, 0)
        <4>1. Slack(B, hops', rd, a) >= Slack(B, hops, rd, a)
          BY <1>1, <1>4, <2>1, PassagePays
        <4>2. /\ Backlog(links, a, b) \in Nat /\ Share(a, n, 0) = 0
              /\ Slack(B, hops, rd, a) \in Int
          BY <1>1, BalanceTypes, Shares, SlackParts
        <4>3. Backlog(links', a, b) <= Backlog(links, a, b)
          BY <1>3, <1>7, <2>3
        <4> QED BY <4>1, <4>2, <4>3
      <3>2. StepPaid(n, 0)
        BY <1>1, <1>7, <3>1 DEF StepPaid, B
      <3> QED BY <3>2
    <2> QED BY <2>2, <2>3
  <1>8. \/ /\ hops' = hops /\ links' = T
           /\ \E x, g : rd' = [rd EXCEPT ![<<n, p>>] = [pc |-> "append", tx |-> x, sig |-> g]]
        \/ /\ Counted(n, i) /\ rd' = rd
           /\ IF Passes(n, i) THEN \E S \in Selections(n) : links' = Put(T, n, S, pkt)
              ELSE links' = T
    BY DEF ReceiveSig
  <1> QED BY <1>6, <1>7, <1>8

\* Collecting signatures sends nothing.
LEMMA CollectorPaid ==
    ASSUME Steady, TypeOK, NEW n \in Nodes, NEW p \in Nodes,
           AppendSig(n, p) \/ StartConfirm(n, p)
    PROVE  StepPaid(n, 0)
  <1>1. hops' = hops /\ links' = links /\ UNCHANGED <<sending, commits>>
    BY DEF AppendSig, StartConfirm, gossip
  <1>2. \A j : j.pc = "announce" => (j \in jobs <=> j \in jobs')
    BY DEF AppendSig, StartConfirm
  <1>3. BroadcastTable' = BroadcastTable
    BY <1>1, <1>2, NothingStarted
  <1>4. Owes(rd[<<n, p>>]) = 0
    BY DEF Owes, AppendSig, StartConfirm
  <1>5. \E r2 : Owes(r2) = 0 /\ rd' = [rd EXCEPT ![<<n, p>>] = r2]
    <2>1. Owes(Idle) = 0 /\ \A x, s : Owes([pc |-> "delete", tx |-> x, sigs |-> s]) = 0
      BY DEF Owes, Idle
    <2> QED BY <2>1 DEF AppendSig, StartConfirm
  <1>6. \E r2 : Owes(r2) = 0 /\ OneReader(rd, rd', <<n, p>>, rd[<<n, p>>], r2)
    BY <1>5 DEF OneReader, TypeOK, Links
  <1>7. ASSUME NEW a \in Nodes, NEW b \in Nodes
        PROVE  Backlog(links', a, b) <= Backlog(links, a, b) + Share(a, n, 0)
    BY <1>1, BalanceTypes, Shares
  <1> QED BY <1>1, <1>3, <1>4, <1>6, <1>7, ReaderDonePaid

\* A step that sends nothing, starts nothing and leaves readers and gates
\* alone has nothing to pay for.
LEMMA QuietPaid ==
    ASSUME Steady, TypeOK, UNCHANGED <<links, hops, rd>>, BroadcastTable' = BroadcastTable, NEW n
    PROVE  StepPaid(n, 0)
  <1>1. ASSUME NEW a \in Nodes, NEW b \in Nodes
        PROVE  /\ Backlog(links', a, b) <= Backlog(links, a, b) + Share(a, n, 0)
               /\ Slack(BroadcastTable', hops', rd', a) >=
                     Slack(BroadcastTable, hops, rd, a) + Share(a, n, 0)
    BY BalanceTypes, Shares
  <1> QED BY <1>1 DEF StepPaid

\* ConfirmTx has not succeeded for a transaction that it is to confirm.
LEMMA FirstConfirmation ==
    ASSUME TypeOK, OneAttempt, NEW j \in jobs, j.pc = "confirm"
    PROVE  commits[j.tx] = 0 /\ j.tx \in Tx
  <1>1. j.tx \in Tx
    BY DEF TypeOK
  <1>2. j \in Attempts(j.tx)
    BY DEF Attempts
  <1>3. ~(commits[j.tx] > 0)
    BY <1>1, <1>2 DEF OneAttempt
  <1>4. commits[j.tx] \in Nat
    BY <1>1 DEF TypeOK
  <1> QED BY <1>1, <1>3, <1>4

\* confirmTx announces once what ConfirmTx has committed, and pays for it.
LEMMA ConfirmerPaid ==
    ASSUME Steady, TypeOK, OneAttempt, AnnouncedOnce, NEW j \in jobs, Confirmer(j)
    PROVE  \E n \in Nodes, k \in {0, 1} : StepPaid(n, k)
  <1>1. j \in Jobs /\ j.tx \in Tx /\ Origin[j.tx] \in Nodes /\ jobs \subseteq Jobs
    BY FlowAssumption DEF TypeOK, Jobs
  <1>2. \A c \in {"confirm", "announce"} :
            [j EXCEPT !.pc = c].pc = c /\ [j EXCEPT !.pc = c].tx = j.tx
    BY <1>1 DEF Jobs
  <1>3. ASSUME UNCHANGED <<links, hops, rd>>, BroadcastTable' = BroadcastTable
        PROVE  \E n \in Nodes, k \in {0, 1} : StepPaid(n, k)
    <2>1. StepPaid(Origin[j.tx], 0)
      BY <1>3, QuietPaid
    <2> QED BY <1>1, <2>1
  <1>4. CASE VerifyQuorum(j)
    <2>1. \A x : x.pc = "announce" => (x \in jobs <=> x \in jobs')
      BY <1>2, <1>4 DEF VerifyQuorum
    <2>2. UNCHANGED <<links, hops, rd, sending, commits>>
      BY <1>4 DEF VerifyQuorum, gossip
    <2> QED BY <1>3, <2>1, <2>2, NothingStarted
  <1>5. CASE ConfirmTx(j)
    <2>1. UNCHANGED <<links, hops, rd, sending>> /\ j.pc = "confirm"
      BY <1>5 DEF ConfirmTx, gossip
    <2>2. CASE commits' = commits /\ jobs' = jobs \ {j}
      <3>1. \A x : x.pc = "announce" => (x \in jobs <=> x \in jobs')
        BY <2>1, <2>2
      <3> QED BY <1>3, <2>1, <2>2, <3>1, NothingStarted
    <2>3. CASE /\ commits' = [commits EXCEPT ![j.tx] = @ + 1]
               /\ jobs' = (jobs \ {j}) \cup {[j EXCEPT !.pc = "announce"]}
      <3>1. commits[j.tx] = 0
        BY <2>1, FirstConfirmation
      <3>2. ASSUME NEW x \in Tx PROVE Announced(x)' <=> Announced(x)
        <4>1. CASE x = j.tx
          <5>1. ~Announced(x)
            BY <3>1, <4>1 DEF Announced
          <5>2. [j EXCEPT !.pc = "announce"] \in jobs'
            BY <2>3
          <5>3. ~Announced(x)'
            BY <1>2, <4>1, <5>2 DEF Announced
          <5> QED BY <5>1, <5>3
        <4>2. CASE x # j.tx
          <5>1. commits'[x] = commits[x]
            BY <2>3, <4>2 DEF TypeOK
          <5>2. (\A y \in jobs' : y.pc = "announce" => y.tx # x)
                   <=> (\A y \in jobs : y.pc = "announce" => y.tx # x)
            BY <1>2, <2>1, <2>3, <4>2
          <5> QED BY <5>1, <5>2 DEF Announced
        <4> QED BY <4>1, <4>2
      <3>3. BroadcastTable' = BroadcastTable
        BY <2>1, <3>2 DEF BroadcastTable, Broadcasts
      <3> QED BY <1>3, <2>1, <3>3
    <2> QED BY <1>5, <2>2, <2>3 DEF ConfirmTx, AfterFailure
  <1>6. CASE Announce(j)
    <2> DEFINE t == j.tx
               n == Origin[t]
    <2>1. UNCHANGED <<hops, rd, sending, commits>> /\ jobs' = jobs \ {j} /\ j.pc = "announce"
      BY <1>6 DEF Announce
    <2>2. links \in [Links -> Seq(Packets)] /\ hops \in Counts /\ ConfirmedOf(t) \in Packets
      BY <1>1, PacketsOf DEF TypeOK, Counts, Links
    <2>3. PICK S : links' = Put(links, n, S, ConfirmedOf(t))
      BY <1>6 DEF Announce
    <2>4. ~Announced(t) /\ Announced(t)'
      BY <2>1 DEF Announced, AnnouncedOnce
    <2>5. \A x \in Tx : x # t => (Announced(x)' <=> Announced(x))
      BY <2>1 DEF Announced
    <2>6. /\ BroadcastTable'[t] = BroadcastTable[t] + 1
          /\ \A x \in Tx : x # t => BroadcastTable'[x] = BroadcastTable[x]
      BY <1>1, <2>1, <2>4, <2>5, BroadcastsType DEF Broadcasts
    <2>7. ASSUME NEW a \in Nodes, NEW b \in Nodes
          PROVE  /\ Backlog(links', a, b) <= Backlog(links, a, b) + Share(a, n, 1)
                 /\ Slack(BroadcastTable', hops', rd', a) >=
                       Slack(BroadcastTable, hops, rd, a) + Share(a, n, 1)
      <3>1. Slack(BroadcastTable', hops, rd, a) =
                Slack(BroadcastTable, hops, rd, a) + Share(a, n, 1)
        <4>1. t \in Tx /\ hops \in Counts
          BY <1>1, <2>2
        <4>2. BroadcastTable \in [Tx -> 0 .. 3] /\ BroadcastTable' \in [Tx -> 0 .. 3]
          BY BroadcastsType
        <4> HIDE DEF t
        <4> QED BY <2>6, <4>1, <4>2, BroadcastPays DEF n
      <3>2. Slack(BroadcastTable, hops, rd, a) \in Int /\ Share(a, n, 1) \in Nat
        BY BalanceTypes, Shares
      <3>3. Backlog(links', a, b) <= Backlog(links, a, b) + Share(a, n, 1)
        BY <2>2, <2>3, PutLength
      <3> QED BY <2>1, <3>1, <3>2, <3>3
    <2>8. StepPaid(n, 1)
      BY <2>7 DEF StepPaid
    <2> QED BY <1>1, <2>8
  <1> QED BY <1>4, <1>5, <1>6 DEF Confirmer

\* A confirmation is announced once, since it is made once.
LEMMA NextAnnouncedOnce ==
    ASSUME TypeOK, OneAttempt, AnnouncedOnce, [Next]_vars
    PROVE  AnnouncedOnce'
  <1>1. ASSUME UNCHANGED commits, \A x \in jobs' : x.pc = "announce" => x \in jobs
        PROVE  AnnouncedOnce'
    BY <1>1 DEF AnnouncedOnce
  <1>2. CASE UNCHANGED vars
    BY <1>1, <1>2 DEF vars, origin
  <1>3. ASSUME NEW t \in Tx, SendLock(t) \/ SendVerify(t) PROVE AnnouncedOnce'
    BY <1>1, <1>3 DEF SendLock, SendVerify
  <1>4. ASSUME NEW n \in Nodes, NEW p \in Nodes, Reader(n, p) PROVE AnnouncedOnce'
    <2>1. CASE StartConfirm(n, p)
      BY <1>1, <2>1 DEF StartConfirm
    <2>2. CASE ~StartConfirm(n, p)
      <3>1. UNCHANGED <<jobs, commits>>
        BY <1>4, <2>2 DEF Reader, Gate, HandleNonceLock, HandleTxVerify, ReceiveSig, AppendSig,
                          HandleTxConfirmed, origin
      <3> QED BY <1>1, <3>1
    <2> QED BY <2>1, <2>2
  <1>5. ASSUME NEW j \in jobs, Confirmer(j) PROVE AnnouncedOnce'
    <2>1. j \in Jobs /\ j.tx \in Tx /\ jobs \subseteq Jobs
      BY DEF TypeOK, Jobs
    <2>2. \A c \in {"confirm", "announce"} :
              [j EXCEPT !.pc = c].pc = c /\ [j EXCEPT !.pc = c].tx = j.tx
      BY <2>1 DEF Jobs
    <2>3. CASE VerifyQuorum(j) \/ Announce(j)
      BY <1>1, <2>2, <2>3 DEF VerifyQuorum, Announce
    <2>4. CASE commits' = commits /\ jobs' = jobs \ {j}
      BY <1>1, <2>4
    <2>5. CASE /\ commits' = [commits EXCEPT ![j.tx] = @ + 1]
               /\ jobs' = (jobs \ {j}) \cup {[j EXCEPT !.pc = "announce"]}
               /\ j.pc = "confirm"
      <3>1. commits[j.tx] = 0
        BY <2>5, FirstConfirmation
      <3>2. \A x \in jobs : x.pc = "announce" => x.tx # j.tx
        BY <3>1 DEF AnnouncedOnce
      <3>3. commits'[j.tx] > 0
        BY <2>1, <2>5, <3>1 DEF TypeOK
      <3>4. \A x \in Tx : x # j.tx => commits'[x] = commits[x]
        BY <2>5 DEF TypeOK
      <3>5. \A x \in jobs' : x.pc = "announce" =>
                \/ x \in jobs /\ x.tx # j.tx /\ x.tx \in Tx
                \/ x = [j EXCEPT !.pc = "announce"] /\ x.tx = j.tx
        BY <2>1, <2>2, <2>5, <3>2 DEF Jobs
      <3> QED BY <3>3, <3>4, <3>5 DEF AnnouncedOnce
    <2> QED BY <1>5, <2>3, <2>4, <2>5 DEF Confirmer, ConfirmTx, AfterFailure
  <1>6. ASSUME \/ \E n \in Nodes, t \in Tx : Expire(n, t)
               \/ \E c \in Connections : Break(c) \/ Reconnect(c)
               \/ \E n \in Nodes : Restart(n)
               \/ \E n \in Nodes, W \in WitnessSets : Register(n, W)
        PROVE  AnnouncedOnce'
    BY <1>1, <1>6 DEF Expire, Break, Reconnect, Restart, Register, origin
  <1> QED BY <1>2, <1>3, <1>4, <1>5, <1>6 DEF Next

----------------------------------------------------------------------------
FloodInv == PaidFor /\ AnnouncedOnce

\* At the start nothing is queued and nothing owed.
LEMMA FloodStart ==
    ASSUME Steady, Init
    PROVE  FloodInv
  <1>1. ASSUME NEW n \in Nodes, NEW p \in Nodes PROVE Backlog(links, n, p) = 0
    BY DEF Init, Backlog
  <1>2. hops \in Counts /\ BroadcastTable \in [Tx -> 0 .. 3]
    BY FlowAssumption, BroadcastsType DEF Init, Counts
  <1>3. ASSUME NEW n \in Nodes PROVE OwedBy(rd, n) = 0
    <2> DEFINE f == [p \in Nodes |-> Owes(rd[<<n, p>>])]
    <2>1. \A p \in Nodes : f[p] = 0
      BY DEF Init, Owes, Idle
    <2> HIDE DEF f
    <2>2. SumFunctionOnSet(f, Nodes) \in Nat /\ SumFunctionOnSet(f, Nodes) <= 0 * Cardinality(Nodes)
      BY <2>1, SumsFinite, SumInNat, SumBounded
    <2>3. SumFunctionOnSet(f, Nodes) = 0
      BY <2>2, SumsFinite
    <2> QED BY <2>3 DEF OwedBy, f
  <1>4. ASSUME NEW n \in Nodes PROVE Slack(BroadcastTable, hops, rd, n) >= 0
    <2>1. /\ StartedBy(BroadcastTable, n) \in Nat
          /\ Passed(Tx, hops, n) \in Nat /\ Passed(SigIds, hops, n) \in Nat
      BY <1>2, SlackParts
    <2> QED BY <1>3, <2>1 DEF Slack
  <1>5. PaidFor
    BY <1>1, <1>4 DEF PaidFor
  <1>6. AnnouncedOnce
    BY DEF Init, AnnouncedOnce
  <1> QED BY <1>5, <1>6 DEF FloodInv

\* Every step of a network that stays up pays for what it queues.
LEMMA NextFloodInv ==
    ASSUME Steady, TypeOK, TypeOK', OneAttempt, FloodInv, [Next]_vars
    PROVE  FloodInv'
  <1> USE DEF FloodInv
  <1>1. AnnouncedOnce'
    BY NextAnnouncedOnce
  <1>2. ASSUME NEW n, NEW k \in {0, 1, 2}, StepPaid(n, k) PROVE PaidFor'
    BY <1>2, StepKeepsPaid
  <1>3. CASE UNCHANGED <<links, hops, rd, sending, jobs, commits>>
    <2>1. BroadcastTable' = BroadcastTable
      BY <1>3, NothingStarted
    <2>2. \A n : StepPaid(n, 0)
      BY <1>3, <2>1, QuietPaid
    <2> QED BY <1>1, <1>2, <2>2
  <1>4. ASSUME NEW t \in Tx, SendLock(t) \/ SendVerify(t) PROVE PaidFor'
    BY <1>2, <1>4, SendPaid
  <1>5. ASSUME NEW n \in Nodes, NEW p \in Nodes, Reader(n, p) PROVE PaidFor'
    <2>1. CASE Gate(n, p)
      BY <1>2, <2>1, GatePaid
    <2>2. CASE HandleNonceLock(n, p) \/ HandleTxConfirmed(n, p)
      BY <1>2, <2>2, RelayPaid
    <2>3. CASE HandleTxVerify(n, p)
      BY <1>2, <2>3, VerifyPaid
    <2>4. CASE ReceiveSig(n, p)
      BY <1>2, <2>4, ReceivePaid
    <2>5. CASE AppendSig(n, p) \/ StartConfirm(n, p)
      BY <1>2, <2>5, CollectorPaid
    <2> QED BY <1>5, <2>1, <2>2, <2>3, <2>4, <2>5 DEF Reader
  <1>6. ASSUME NEW j \in jobs, Confirmer(j) PROVE PaidFor'
    BY <1>2, <1>6, ConfirmerPaid
  <1>7. ~(breaks < MaxBreaks)
    BY DEF TypeOK, Steady
  <1>8. /\ \A n \in Nodes : ~Restart(n)
        /\ \A n \in Nodes, W \in WitnessSets : ~Register(n, W)
        /\ \A c \in Connections : ~Break(c)
    BY <1>7 DEF Restart, Register, Break
  <1>9. /\ \A n \in Nodes, t \in Tx :
               Expire(n, t) => UNCHANGED <<links, hops, rd, sending, jobs, commits>>
        /\ \A c \in Connections :
               Reconnect(c) => UNCHANGED <<links, hops, rd, sending, jobs, commits>>
    BY DEF Expire, Reconnect, gossip, origin
  <1>10. UNCHANGED vars => UNCHANGED <<links, hops, rd, sending, jobs, commits>>
    BY DEF vars, gossip, origin
  <1> QED BY <1>1, <1>3, <1>4, <1>5, <1>6, <1>8, <1>9, <1>10 DEF Next

\* What one node may send to one peer: three broadcasts for each transaction,
\* two packets behind each passage of its message id, one for each passage
\* of a signature.
FloodBound ==
    3 * Cardinality(Tx) + 2 * (GossipHops * Cardinality(Tx))
        + GossipHops * (Cardinality(Tx) * Cardinality(Nodes))

\* Whatever is paid for is within the bound.
LEMMA PaidIsBounded ==
    ASSUME Steady, TypeOK, PaidFor, FloodBound < LinkCap
    PROVE  QueuesHaveRoom
  <1> SUFFICES ASSUME NEW n \in Nodes, NEW p \in Nodes
               PROVE  Backlog(links, n, p) < LinkCap
    BY DEF QueuesHaveRoom, Backlog
  <1>1. hops \in Counts
    BY DEF TypeOK, Counts
  <1>2. /\ Backlog(links, n, p) \in Nat
        /\ Slack(BroadcastTable, hops, rd, n) \in Int
    BY BalanceTypes
  <1>3. Backlog(links, n, p) <= Slack(BroadcastTable, hops, rd, n)
    BY DEF PaidFor
  <1>4. Slack(BroadcastTable, hops, rd, n) <= FloodBound
    <2> DEFINE a == GossipHops * Cardinality(Tx)
               b == GossipHops * (Cardinality(Tx) * Cardinality(Nodes))
    <2>1. /\ Cardinality(Tx) \in Nat /\ a \in Nat /\ b \in Nat
          /\ Cardinality(SigIds) = Cardinality(Tx) * Cardinality(Nodes)
      BY SumsFinite, FlowAssumption
    <2>2. /\ StartedBy(BroadcastTable, n) \in Nat
          /\ StartedBy(BroadcastTable, n) <= 3 * Cardinality(Tx)
          /\ Passed(Tx, hops, n) \in Nat /\ Passed(Tx, hops, n) <= a
          /\ Passed(SigIds, hops, n) \in Nat /\ Passed(SigIds, hops, n) <= b
          /\ OwedBy(rd, n) \in Nat
      BY <1>1, <2>1, BroadcastsType, SlackParts
    <2>3. FloodBound = 3 * Cardinality(Tx) + 2 * a + b
      BY DEF FloodBound
    <2> HIDE DEF a, b
    <2> QED BY <2>1, <2>2, <2>3 DEF Slack
  <1>5. FloodBound \in Int /\ LinkCap \in Nat
    BY SumsFinite, FlowAssumption DEF FloodBound
  <1> QED BY <1>2, <1>3, <1>4, <1>5

(* A flood fits into the queues: while connections and nodes stay up, a queue
   that has room for three broadcasts per transaction and what the hop budget
   lets through never drops a packet, whatever the topology, the fanout and
   the interleaving of the readers (SendTx, confirmTx, ShouldForward, Send). *)
THEOREM FloodFits ==
    ASSUME Steady, FloodBound < LinkCap
    PROVE  Spec => []QueuesHaveRoom
  <1>1. Init => FloodInv
    BY FloodStart
  <1>2. TypeOK /\ TypeOK' /\ OneAttempt /\ FloodInv /\ [Next]_vars => FloodInv'
    BY NextFloodInv
  <1>3. Init => OneAttempt
    BY DEF Init, OneAttempt, AtMostOne, Closers, Attempts, Idle, Links
  <1>4. TypeOK /\ OneAttempt /\ [Next]_vars => OneAttempt'
    BY NextOneAttempt
  <1>5. TypeOK /\ FloodInv => QueuesHaveRoom
    BY PaidIsBounded DEF FloodInv
  <1>6. Spec => []TypeOK
    BY FlowTypeCorrect
  <1> QED BY <1>1, <1>2, <1>3, <1>4, <1>5, <1>6, PTL DEF Spec

(* With such queues the lock is first without an assumption on the queues: in
   a network where connections and nodes stay up and the fanout covers the
   peers, at most as many witnesses sign a transaction without its lock as
   database calls fail and locks expire (SendTx, handleNonceLock,
   handleTxVerify, ShouldForward, Send). *)
THEOREM LockFirstInBoundedFlood ==
    ASSUME Undisturbed, IsFiniteSet(Tx), FloodBound < LinkCap
    PROVE  Spec => []LockPrecedesVerify
  <1>1. Steady
    BY DEF Steady, Undisturbed
  <1>2. Spec => []QueuesHaveRoom
    BY <1>1, FloodFits
  <1>3. Spec /\ []QueuesHaveRoom => []LockPrecedesVerify
    BY LockAlwaysFirst
  <1> QED BY <1>2, <1>3, PTL
=============================================================================
