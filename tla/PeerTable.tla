----------------------------- MODULE PeerTable -----------------------------
(***************************************************************************)
(* The connections of one node: Peer with its send channel and its two     *)
(* goroutines (internal/network/packet.go), and the table of peers under   *)
(* the read/write lock n.mu (node/node.go).                                *)
(*                                                                         *)
(* A connection has a reader (handleInbound or connectToSeed, then         *)
(* readLoop) and a write pump.  Both end with Close, which runs removePeer *)
(* on the table.  Handlers, API calls and confirmTx look peers up under    *)
(* the lock and send to them outside of it.  A step is the code between    *)
(* two operations on a lock, a channel or a connection; p.mu is held only  *)
(* within a step.                                                          *)
(***************************************************************************)
EXTENDS Naturals, FiniteSets

CONSTANTS
    Conns,      \* the connections, each used once: dialling again takes another
    Keys,       \* public keys
    KeyOf,      \* the key that the other end of a connection presents
    Callers,    \* API calls and confirmTx goroutines
    MaxPeers,   \* core.MaxPeers
    Fanout,     \* network.Fanout
    SendQueue,  \* capacity of sendCh
    MaxWork,    \* bound: packets handled, calls made and connections that fail
    NoConn, Nobody

ASSUME PeerAssumption ==
    /\ IsFiniteSet(Conns) /\ IsFiniteSet(Keys)
    /\ KeyOf \in [Conns -> Keys]
    /\ MaxPeers \in Nat \ {0}
    /\ Fanout \in Nat \ {0}
    /\ SendQueue \in Nat \ {0}
    /\ MaxWork \in Nat
    /\ NoConn \notin Conns

Readers == {"reader"} \X Conns
Pumps == {"pump"} \X Conns
Calls == {"call"} \X Callers
Stopper == <<"stop", NoConn>>
Threads == Readers \cup Pumps \cup Calls \cup {Stopper}

ASSUME NobodyAssumption == Nobody \notin Threads

VARIABLES
    state,    \* Peer.state
    queue,    \* how many packets sendCh holds
    shut,     \* the connections closed by Close, with their sendCh
    peers,    \* Node.peers
    writer,   \* n.mu: the thread that has called Lock and is not done with it
    shared,   \* n.mu: the threads that hold the read lock across a call
    pc,       \* where each thread is
    at,       \* the peer a thread sends to or closes
    todo,     \* the peers a thread has still to send to or to close
    panic,    \* the operation on a closed channel that ended the process
    work      \* how many of these there were

conns == <<state, queue, shut>>
lock == <<writer, shared>>
local == <<pc, at, todo>>
vars == <<conns, peers, lock, local, panic, work>>

Places == {"none", "add", "adding", "run", "query", "update", "updating", "lookup",
           "send", "put", "close", "remove", "removing", "stop", "stopping", "done"}

TypeOK ==
    /\ state \in [Conns -> {"connecting", "active", "closed"}]
    /\ queue \in [Conns -> 0 .. SendQueue]
    /\ shut \subseteq Conns
    /\ peers \in [Keys -> Conns \cup {NoConn}]
    /\ writer \in Threads \cup {Nobody}
    /\ shared \subseteq Threads
    /\ pc \in [Threads -> Places]
    /\ at \in [Threads -> Conns \cup {NoConn}]
    /\ todo \in [Threads -> SUBSET Conns]
    /\ panic \in {"none", "send", "close"}
    /\ work \in 0 .. MaxWork

Init ==
    /\ state = [c \in Conns |-> "connecting"]
    /\ queue = [c \in Conns |-> 0]
    /\ shut = {}
    /\ peers = [k \in Keys |-> NoConn]
    /\ writer = Nobody
    /\ shared = {}
    /\ pc = [t \in Threads |-> "none"]
    /\ at = [t \in Threads |-> NoConn]
    /\ todo = [t \in Threads |-> {}]
    /\ panic = "none"
    /\ work = 0

----------------------------------------------------------------------------
Reader(c) == <<"reader", c>>
Pump(c) == <<"pump", c>>

Listed == {peers[k] : k \in Keys} \ {NoConn}

\* SelectPeers: all of S, or as many as the fanout at random.
Selections(S) ==
    {R \in SUBSET S : Cardinality(R) = (IF Fanout >= Cardinality(S)
                                        THEN Cardinality(S) ELSE Fanout)}

Goto(t, place) == pc' = [pc EXCEPT ![t] = place]
Step(t, from, to) == pc[t] = from /\ Goto(t, to)

\* sync.RWMutex: Lock first shuts out other callers of Lock and RLock, then
\* waits for the holders of the read lock.
Lock(t, from, to) == Step(t, from, to) /\ writer = Nobody /\ writer' = t
Locked(t) == writer = t /\ shared = {}
Unlock == writer' = Nobody
MayRLock == writer = Nobody

Works == work < MaxWork /\ work' = work + 1

----------------------------------------------------------------------------
\* handleInbound and connectToSeed up to addPeer: the handshake is done.
Connect(c) ==
    /\ state[c] = "connecting"
    /\ state' = [state EXCEPT ![c] = "active"]
    /\ Goto(Reader(c), "add")
    /\ UNCHANGED <<queue, shut, peers, lock, at, todo, panic, work>>

AddLock(c) ==
    /\ Lock(Reader(c), "add", "adding")
    /\ UNCHANGED <<conns, peers, shared, at, todo, panic, work>>

\* addPeer returns, the write pump and the read loop start.
Started(c) == pc' = [pc EXCEPT ![Reader(c)] = "run", ![Pump(c)] = "run"]

\* A variant of Reject that gives the entry of another peer away.
Evict(c) ==
    /\ \E k \in Keys \ {KeyOf[c]} :
           peers[k] # NoConn /\ peers' = [peers EXCEPT ![k] = NoConn, ![KeyOf[c]] = c]
    /\ Started(c)
    /\ Unlock
    /\ UNCHANGED at

\* addPeer with a full table: Close, with the lock held.
Reject(c) ==
    /\ Goto(Reader(c), "close")
    /\ at' = [at EXCEPT ![Reader(c)] = c]
    /\ UNCHANGED <<peers, writer>>

AddPeer(c) ==
    /\ pc[Reader(c)] = "adding"
    /\ Locked(Reader(c))
    /\ IF Cardinality(Listed) >= MaxPeers
       THEN Reject(c)
       ELSE /\ peers' = [peers EXCEPT ![KeyOf[c]] = c]
            /\ Started(c)
            /\ Unlock
            /\ UNCHANGED at
    /\ UNCHANGED <<conns, shared, todo, panic, work>>

\* readLoop: ReadPacket fails (reset, silent for a minute, closed here).
ReadFails(c) ==
    /\ Step(Reader(c), "run", "close")
    /\ at' = [at EXCEPT ![Reader(c)] = c]
    /\ \/ c \in shut /\ UNCHANGED work
       \/ c \notin shut /\ Works
    /\ UNCHANGED <<conns, peers, lock, todo, panic>>

\* readLoop: a packet whose handler broadcasts or looks up the originator, or
\* deletes from pendingTx, or (a ping) answers on the same connection.
Handle(c) ==
    /\ Works
    /\ c \notin shut
    /\ \/ Step(Reader(c), "run", "lookup") /\ UNCHANGED todo
       \/ Step(Reader(c), "run", "update") /\ UNCHANGED todo
       \/ Step(Reader(c), "run", "send") /\ todo' = [todo EXCEPT ![Reader(c)] = {c}]
    /\ UNCHANGED <<conns, peers, lock, at, panic>>

\* A variant of PumpEnds without the deferred Close.
PumpReturns(c) == Goto(Pump(c), "done") /\ UNCHANGED at

\* StartWritePump leaves its loop, and closes the peer.
PumpEnds(c) ==
    /\ Goto(Pump(c), "close")
    /\ at' = [at EXCEPT ![Pump(c)] = c]

\* StartWritePump writes the next packet, which may fail (and does, once the
\* connection is closed); it ends when the channel is closed and empty.
PumpWrite(c) ==
    /\ pc[Pump(c)] = "run"
    /\ \/ /\ queue[c] > 0
          /\ queue' = [queue EXCEPT ![c] = @ - 1]
          /\ \/ c \notin shut /\ UNCHANGED <<pc, at, work>>
             \/ c \notin shut /\ PumpEnds(c) /\ Works
             \/ c \in shut /\ PumpEnds(c) /\ UNCHANGED work
       \/ /\ queue[c] = 0 /\ c \in shut
          /\ PumpEnds(c)
          /\ UNCHANGED <<queue, work>>
    /\ UNCHANGED <<state, shut, peers, lock, todo, panic>>

----------------------------------------------------------------------------
\* An API call that reads the table (PeerList, PeerCount), or SendTx, which
\* writes pendingTx and then broadcasts, or confirmTx, which broadcasts.
Call(t) ==
    /\ Works
    /\ \E to \in {"query", "update", "lookup"} : Step(t, "none", to)
    /\ UNCHANGED <<conns, peers, lock, at, todo, panic>>

Query(t) ==
    /\ MayRLock
    /\ Step(t, "query", "none")
    /\ UNCHANGED <<conns, peers, lock, at, todo, panic, work>>

\* pendingTx changes under the write lock.
UpdateLock(t) ==
    /\ Lock(t, "update", "updating")
    /\ UNCHANGED <<conns, peers, shared, at, todo, panic, work>>

\* A variant of Update that returns with the lock.
UpdateKeepsLock(t) ==
    /\ Locked(t)
    /\ Step(t, "updating", IF t \in Calls THEN "lookup" ELSE "run")
    /\ UNCHANGED <<conns, peers, lock, at, todo, panic, work>>

Update(t) ==
    /\ Locked(t)
    /\ Step(t, "updating", IF t \in Calls THEN "lookup" ELSE "run")
    /\ Unlock
    /\ UNCHANGED <<conns, peers, shared, at, todo, panic, work>>

\* broadcast, or the look-up in sendToOriginator: RLock, copy, RUnlock.
LookUp(t) ==
    /\ MayRLock
    /\ Step(t, "lookup", "send")
    /\ \E R \in Selections(Listed) \cup {{c} : c \in Listed} : todo' = [todo EXCEPT ![t] = R]
    /\ UNCHANGED <<conns, peers, lock, at, panic, work>>

\* Send, its first half: the state, under p.mu.
SendCheck(t, c) ==
    /\ c \in todo[t]
    /\ todo' = [todo EXCEPT ![t] = @ \ {c}]
    /\ \/ /\ state[c] = "active"
          /\ Step(t, "send", "put")
          /\ at' = [at EXCEPT ![t] = c]
       \/ /\ state[c] # "active" /\ pc[t] = "send"
          /\ UNCHANGED <<pc, at>>
    /\ UNCHANGED <<conns, peers, lock, panic, work>>

\* A variant of Enqueued without the default case.
Appended(c) == queue[c] + 1

\* The select in Send: a full channel drops the packet.
Enqueued(c) == IF queue[c] < SendQueue THEN queue[c] + 1 ELSE queue[c]

\* Send, its second half: on a closed channel, it panics.
SendPut(t) ==
    LET c == at[t] IN
    /\ Step(t, "put", "send")
    /\ at' = [at EXCEPT ![t] = NoConn]
    /\ IF c \in shut
       THEN panic' = "send" /\ UNCHANGED queue
       ELSE queue' = [queue EXCEPT ![c] = Enqueued(c)] /\ UNCHANGED panic
    /\ UNCHANGED <<state, shut, peers, lock, todo, work>>

SendDone(t) ==
    /\ todo[t] = {}
    /\ Step(t, "send", IF t \in Calls THEN "none" ELSE "run")
    /\ UNCHANGED <<conns, peers, lock, at, todo, panic, work>>

----------------------------------------------------------------------------
\* Close returns.  (The Close of a rejected peer never does.)
Returns(t) ==
    /\ Goto(t, IF t = Stopper THEN "stopping" ELSE "done")
    /\ at' = [at EXCEPT ![t] = NoConn]

\* A variant of CallsBack with no onClose.
NoCallback(t) == Returns(t)

\* Close goes on to onClose, which is removePeer.
CallsBack(t) == Goto(t, "remove") /\ UNCHANGED at

\* A variant of MayClose without the check.
AlwaysCloses(c) == TRUE

\* The check at the head of Close.
MayClose(c) == state[c] # "closed"

\* Close: the state, under p.mu, the connection and the channel.  (A Send
\* between the two would find the state it finds after them, an error.)
\* Closing a channel twice panics.
ClosePeer(t) ==
    LET c == at[t] IN
    /\ pc[t] = "close"
    /\ IF ~MayClose(c)
       THEN Returns(t) /\ UNCHANGED <<state, shut, panic, work>>
       ELSE /\ state' = [state EXCEPT ![c] = "closed"]
            /\ shut' = shut \cup {c}
            /\ panic' = IF c \in shut THEN "close" ELSE "none"
            /\ CallsBack(t)
    /\ UNCHANGED <<queue, peers, lock, todo, work>>

\* removePeer.
RemoveLock(t) ==
    /\ Lock(t, "remove", "removing")
    /\ UNCHANGED <<conns, peers, shared, at, todo, panic, work>>

RemovePeer(t) ==
    /\ Locked(t)
    /\ pc[t] = "removing"
    /\ peers' = [peers EXCEPT ![KeyOf[at[t]]] = NoConn]
    /\ Returns(t)
    /\ Unlock
    /\ UNCHANGED <<conns, shared, todo, panic, work>>

\* Stop: the read lock, Close of every peer, and the read lock's release
\* before the database is closed.
Stop ==
    /\ Works
    /\ Step(Stopper, "none", "stop")
    /\ UNCHANGED <<conns, peers, lock, at, todo, panic>>

StopRLock ==
    /\ MayRLock
    /\ Step(Stopper, "stop", "stopping")
    /\ shared' = shared \cup {Stopper}
    /\ todo' = [todo EXCEPT ![Stopper] = Listed]
    /\ UNCHANGED <<conns, peers, writer, at, panic, work>>

StopClose(c) ==
    /\ c \in todo[Stopper]
    /\ Step(Stopper, "stopping", "close")
    /\ at' = [at EXCEPT ![Stopper] = c]
    /\ todo' = [todo EXCEPT ![Stopper] = @ \ {c}]
    /\ UNCHANGED <<conns, peers, lock, panic, work>>

StopDone ==
    /\ todo[Stopper] = {}
    /\ Step(Stopper, "stopping", "done")
    /\ shared' = shared \ {Stopper}
    /\ UNCHANGED <<conns, peers, writer, at, todo, panic, work>>

----------------------------------------------------------------------------
\* The steps of a thread that need n.mu.
Acquire(t) ==
    \/ \E c \in Conns : t = Reader(c) /\ (AddLock(c) \/ AddPeer(c))
    \/ t \in Readers \cup Calls /\ (UpdateLock(t) \/ Update(t) \/ LookUp(t))
    \/ t \in Calls /\ Query(t)
    \/ t \notin Calls /\ (RemoveLock(t) \/ RemovePeer(t))
    \/ t = Stopper /\ StopRLock

\* Its other steps.
Proceed(t) ==
    \/ \E c \in Conns : t = Reader(c) /\ (ReadFails(c) \/ Handle(c))
    \/ \E c \in Conns : t = Pump(c) /\ PumpWrite(c)
    \/ t \in Readers \cup Calls /\ (SendPut(t) \/ SendDone(t) \/ \E c \in Conns : SendCheck(t, c))
    \/ t \notin Calls /\ ClosePeer(t)
    \/ t = Stopper /\ (StopDone \/ \E c \in Conns : StopClose(c))

Run(t) == panic = "none" /\ (Acquire(t) \/ Proceed(t))

Next ==
    \/ panic = "none" /\ \E c \in Conns : Connect(c)
    \/ panic = "none" /\ \E t \in Calls : Call(t)
    \/ panic = "none" /\ Stop
    \/ \E t \in Threads : Run(t)

Spec == Init /\ [][Next]_vars

\* Some goroutine that can run does.  (With bounded work this is enough: every
\* behaviour comes to a state in which no goroutine can.)
Fairness == WF_vars(\E t \in Threads : Run(t))

FairSpec == Spec /\ Fairness

----------------------------------------------------------------------------
(* No channel is closed twice, though the reader, the pump and Stop may all
   close one peer (the state that Close checks under p.mu). *)
ClosedOnce == panic # "close"

(* A closed peer that is still in the table is on its way out: the thread that
   closed it has removePeer ahead (Close, addPeer before the goroutines start). *)
DeadPeersLeave ==
    \A k \in Keys : peers[k] # NoConn /\ state[peers[k]] = "closed" =>
        \E t \in Threads : at[t] = peers[k] /\ pc[t] \in {"remove", "removing"}

(* A live connection is in the table, unless another connection with the same
   key has taken its entry or removed it (addPeer, removePeer by key). *)
LiveIsListed ==
    \A c \in Conns : state[c] = "active" /\ pc[Pump(c)] # "none" =>
        \/ peers[KeyOf[c]] = c
        \/ \E d \in Conns \ {c} : KeyOf[d] = KeyOf[c] /\ state[d] # "connecting"

\* A thread that waits for n.mu while it holds it: Stop and a full addPeer
\* call Close, whose removePeer takes it again.
SelfLocked ==
    \E t \in Threads :
        \/ pc[t] = "remove" /\ writer = t
        \/ pc[t] \in {"remove", "removing"} /\ t \in shared

Waiting == {"add", "adding", "query", "update", "updating", "lookup", "remove", "removing", "stop"}

(* Again and again nobody waits for n.mu, unless a thread waits for itself or
   the process dies: no other cycle of locks, full channels and slow writes
   can block the node (n.mu, p.mu, sendCh). *)
LockServed ==
    []<>((\A t \in Threads : pc[t] \notin Waiting) \/ SelfLocked \/ panic # "none")

(* The two goroutines of a connection end together: when one has ended, the
   other does, too (the deferred Close of readLoop and StartWritePump). *)
EndTogether ==
    []<>((\A c \in Conns : pc[Reader(c)] = "done" <=> pc[Pump(c)] = "done")
         \/ SelfLocked \/ panic # "none")

(* Send to a peer that is being closed returns an error: it does not end the
   process (Peer.Send, "peer not active"). *)
SendSurvives == panic # "send"

(* A node that is told to stop stops (main after the signal, Node.Stop). *)
StopReturns == pc[Stopper] = "stop" ~> pc[Stopper] = "done" \/ panic # "none"
============================================================================
