-------------------------- MODULE PeerTableProofs --------------------------
(***************************************************************************)
(* Proofs about PeerTable, for every number of connections, keys and       *)
(* callers, every queue length, fanout and table size.                     *)
(***************************************************************************)
EXTENDS PeerTable, TLAPS

\* The threads are what their names say, and different ones.
LEMMA ThreadNames ==
    /\ \A c \in Conns : /\ Reader(c) \in Readers /\ Reader(c) \in Threads
                        /\ Pump(c) \in Pumps /\ Pump(c) \in Threads
    /\ \A c, d \in Conns : /\ Reader(c) # Pump(d)
                           /\ Reader(c) = Reader(d) => c = d
                           /\ Pump(c) = Pump(d) => c = d
    /\ Readers \subseteq Threads /\ Pumps \subseteq Threads /\ Calls \subseteq Threads
    /\ Stopper \in Threads /\ Stopper \notin Readers \cup Pumps \cup Calls
    /\ Readers \cap Pumps = {} /\ Calls \cap (Readers \cup Pumps) = {}
  BY DEF Reader, Pump, Readers, Pumps, Calls, Stopper, Threads

\* Different connections have different readers and pumps.
LEMMA ThreadsDiffer ==
    ASSUME NEW c \in Conns, NEW d \in Conns
    PROVE  /\ Reader(d) = Reader(c) <=> d = c
           /\ Pump(d) = Pump(c) <=> d = c
           /\ Reader(d) # Pump(c) /\ Pump(d) # Reader(c)
  BY DEF Reader, Pump

----------------------------------------------------------------------------
(* Type correctness.  A thread that is inside Send, Close or removePeer has a
   peer to send to or to close. *)
AtConn ==
    \A t \in Threads : pc[t] \in {"put", "close", "remove", "removing"} => at[t] \in Conns

TypeInv == TypeOK /\ AtConn

\* A step of one thread that stays among the places, its peer and its list.
LEMMA ThreadStep ==
    ASSUME TypeInv, NEW t \in Threads, NEW x \in Places,
           pc' = [pc EXCEPT ![t] = x],
           UNCHANGED at \/ \E c \in Conns \cup {NoConn} : at' = [at EXCEPT ![t] = c],
           x \in {"put", "close", "remove", "removing"} => at'[t] \in Conns
    PROVE  /\ pc' \in [Threads -> Places]
           /\ at' \in [Threads -> Conns \cup {NoConn}]
           /\ AtConn'
  BY DEF TypeInv, TypeOK, AtConn

\* The empty table is well typed.
LEMMA InitTypeInv == Init => TypeInv
  BY PeerAssumption DEF Init, TypeInv, TypeOK, AtConn, Places

\* The steps of a connection's own goroutines.
LEMMA ConnTypeInv ==
    ASSUME TypeInv, NEW c \in Conns,
           \/ Connect(c) \/ AddLock(c) \/ AddPeer(c) \/ ReadFails(c) \/ Handle(c) \/ PumpWrite(c)
    PROVE  TypeInv'
  <1> USE ThreadNames DEF lock, conns, local, Lock, Locked, Unlock, Step, Goto
  <1>1. CASE Connect(c)
    <2>1. pc' = [pc EXCEPT ![Reader(c)] = "add"] /\ UNCHANGED at
      BY <1>1 DEF Connect
    <2>2. pc' \in [Threads -> Places] /\ AtConn'
      BY <2>1, ThreadStep DEF Places
    <2> QED BY <1>1, <2>2 DEF Connect, TypeInv, TypeOK
  <1>2. CASE AddLock(c)
    <2>1. pc' = [pc EXCEPT ![Reader(c)] = "adding"] /\ UNCHANGED at
      BY <1>2 DEF AddLock
    <2>2. pc' \in [Threads -> Places] /\ AtConn'
      BY <2>1, ThreadStep DEF Places
    <2> QED BY <1>2, <2>2 DEF AddLock, TypeInv, TypeOK
  <1>3. CASE AddPeer(c)
    <2>1. CASE Cardinality(Listed) >= MaxPeers
      <3>1. pc' = [pc EXCEPT ![Reader(c)] = "close"] /\ at' = [at EXCEPT ![Reader(c)] = c]
        BY <1>3, <2>1 DEF AddPeer, Reject
      <3>2. at'[Reader(c)] = c
        BY <3>1 DEF TypeInv, TypeOK
      <3>3. pc' \in [Threads -> Places] /\ at' \in [Threads -> Conns \cup {NoConn}] /\ AtConn'
        BY <3>1, <3>2, ThreadStep DEF Places
      <3> QED BY <1>3, <2>1, <3>3 DEF AddPeer, Reject, TypeInv, TypeOK
    <2>2. CASE ~(Cardinality(Listed) >= MaxPeers)
      <3>1. pc' = [pc EXCEPT ![Reader(c)] = "run", ![Pump(c)] = "run"] /\ UNCHANGED at
        BY <1>3, <2>2 DEF AddPeer, Started
      <3>2. pc' \in [Threads -> Places] /\ AtConn'
        BY <3>1 DEF TypeInv, TypeOK, AtConn, Places
      <3>3. peers' \in [Keys -> Conns \cup {NoConn}]
        BY <1>3, <2>2 DEF AddPeer, TypeInv, TypeOK
      <3> QED BY <1>3, <2>2, <3>1, <3>2, <3>3 DEF AddPeer, TypeInv, TypeOK
    <2> QED BY <2>1, <2>2
  <1>4. CASE ReadFails(c)
    <2>1. pc' = [pc EXCEPT ![Reader(c)] = "close"] /\ at' = [at EXCEPT ![Reader(c)] = c]
      BY <1>4 DEF ReadFails
    <2>2. at'[Reader(c)] = c
      BY <2>1 DEF TypeInv, TypeOK
    <2>3. pc' \in [Threads -> Places] /\ at' \in [Threads -> Conns \cup {NoConn}] /\ AtConn'
      BY <2>1, <2>2, ThreadStep DEF Places
    <2>4. work' \in 0 .. MaxWork
      BY <1>4, PeerAssumption DEF ReadFails, Works, TypeInv, TypeOK
    <2> QED BY <1>4, <2>3, <2>4 DEF ReadFails, TypeInv, TypeOK
  <1>5. CASE Handle(c)
    <2>1. \E x \in {"lookup", "update", "send"} : pc' = [pc EXCEPT ![Reader(c)] = x]
      BY <1>5 DEF Handle
    <2>2. UNCHANGED at
      BY <1>5 DEF Handle
    <2>3. pc' \in [Threads -> Places] /\ AtConn'
      BY <2>1, <2>2, ThreadStep DEF Places
    <2>4. todo' \in [Threads -> SUBSET Conns]
      BY <1>5 DEF Handle, TypeInv, TypeOK
    <2>5. work' \in 0 .. MaxWork
      BY <1>5, PeerAssumption DEF Handle, Works, TypeInv, TypeOK
    <2> QED BY <1>5, <2>3, <2>4, <2>5 DEF Handle, TypeInv, TypeOK
  <1>6. CASE PumpWrite(c)
    <2>1. \/ UNCHANGED <<pc, at>>
          \/ pc' = [pc EXCEPT ![Pump(c)] = "close"] /\ at' = [at EXCEPT ![Pump(c)] = c]
      BY <1>6 DEF PumpWrite, PumpEnds
    <2>2. pc' \in [Threads -> Places] /\ at' \in [Threads -> Conns \cup {NoConn}] /\ AtConn'
      <3>1. CASE UNCHANGED <<pc, at>>
        BY <3>1 DEF TypeInv, TypeOK, AtConn
      <3>2. CASE pc' = [pc EXCEPT ![Pump(c)] = "close"] /\ at' = [at EXCEPT ![Pump(c)] = c]
        <4>1. at'[Pump(c)] = c
          BY <3>2 DEF TypeInv, TypeOK
        <4> QED BY <3>2, <4>1, ThreadStep DEF Places
      <3> QED BY <2>1, <3>1, <3>2
    <2>3. queue' \in [Conns -> 0 .. SendQueue]
      <3>1. CASE UNCHANGED queue
        BY <3>1 DEF TypeInv, TypeOK
      <3>2. CASE queue[c] > 0 /\ queue' = [queue EXCEPT ![c] = @ - 1]
        <4>1. queue \in [Conns -> 0 .. SendQueue] /\ SendQueue \in Nat
          BY PeerAssumption DEF TypeInv, TypeOK
        <4>2. queue[c] - 1 \in 0 .. SendQueue
          BY <3>2, <4>1
        <4> QED BY <3>2, <4>1, <4>2
      <3> QED BY <1>6, <3>1, <3>2 DEF PumpWrite
    <2>4. work' \in 0 .. MaxWork
      <3>1. work' = work \/ (work < MaxWork /\ work' = work + 1)
        BY <1>6 DEF PumpWrite, Works
      <3> QED BY <3>1, PeerAssumption DEF TypeInv, TypeOK
    <2>5. UNCHANGED <<state, shut, peers, lock, todo, panic>>
      BY <1>6 DEF PumpWrite
    <2> QED BY <2>2, <2>3, <2>4, <2>5 DEF TypeInv, TypeOK
  <1> QED BY <1>1, <1>2, <1>3, <1>4, <1>5, <1>6

\* The steps of readers, calls and Stop that look up, send and update.
LEMMA UseTypeInv ==
    ASSUME TypeInv, NEW t \in Threads,
           \/ Call(t) \/ Query(t) \/ UpdateLock(t) \/ Update(t) \/ LookUp(t)
           \/ (\E c \in Conns : SendCheck(t, c)) \/ SendPut(t) \/ SendDone(t)
    PROVE  TypeInv'
  <1> USE DEF lock, conns, local, Lock, Locked, Unlock, Step, Goto
  <1>1. CASE Call(t)
    <2>1. \E x \in {"query", "update", "lookup"} : pc' = [pc EXCEPT ![t] = x]
      BY <1>1 DEF Call
    <2>2. UNCHANGED at
      BY <1>1 DEF Call
    <2>3. pc' \in [Threads -> Places] /\ AtConn'
      BY <2>1, <2>2, ThreadStep DEF Places
    <2>4. work' \in 0 .. MaxWork
      BY <1>1, PeerAssumption DEF Call, Works, TypeInv, TypeOK
    <2> QED BY <1>1, <2>3, <2>4 DEF Call, TypeInv, TypeOK
  <1>2. CASE Query(t) \/ UpdateLock(t) \/ Update(t) \/ SendDone(t)
    <2>1. \E x \in {"none", "updating", "lookup", "run"} : pc' = [pc EXCEPT ![t] = x]
      BY <1>2 DEF Query, UpdateLock, Update, SendDone
    <2>2. UNCHANGED at
      BY <1>2 DEF Query, UpdateLock, Update, SendDone
    <2>3. pc' \in [Threads -> Places] /\ AtConn'
      BY <2>1, <2>2, ThreadStep DEF Places
    <2>4. /\ writer' \in Threads \cup {Nobody}
          /\ UNCHANGED <<conns, peers, shared, at, todo, panic, work>>
      BY <1>2 DEF Query, UpdateLock, Update, SendDone, TypeInv, TypeOK
    <2> QED BY <2>3, <2>4 DEF TypeInv, TypeOK
  <1>3. CASE LookUp(t)
    <2>1. pc' = [pc EXCEPT ![t] = "send"] /\ UNCHANGED at
      BY <1>3 DEF LookUp
    <2>2. pc' \in [Threads -> Places] /\ AtConn'
      BY <2>1, ThreadStep DEF Places
    <2>3. todo' \in [Threads -> SUBSET Conns]
      <3>1. Listed \subseteq Conns
        BY DEF Listed, TypeInv, TypeOK
      <3>2. \E R \in SUBSET Listed : todo' = [todo EXCEPT ![t] = R]
        BY <1>3 DEF LookUp, Selections
      <3> QED BY <3>1, <3>2 DEF TypeInv, TypeOK
    <2> QED BY <1>3, <2>2, <2>3 DEF LookUp, TypeInv, TypeOK
  <1>4. ASSUME NEW c \in Conns, SendCheck(t, c) PROVE TypeInv'
    <2>1. \/ UNCHANGED <<pc, at>>
          \/ pc' = [pc EXCEPT ![t] = "put"] /\ at' = [at EXCEPT ![t] = c]
      BY <1>4 DEF SendCheck
    <2>2. pc' \in [Threads -> Places] /\ at' \in [Threads -> Conns \cup {NoConn}] /\ AtConn'
      <3>1. CASE UNCHANGED <<pc, at>>
        BY <3>1 DEF TypeInv, TypeOK, AtConn
      <3>2. CASE pc' = [pc EXCEPT ![t] = "put"] /\ at' = [at EXCEPT ![t] = c]
        <4>1. at'[t] = c
          BY <3>2 DEF TypeInv, TypeOK
        <4> QED BY <3>2, <4>1, ThreadStep DEF Places
      <3> QED BY <2>1, <3>1, <3>2
    <2>3. todo' \in [Threads -> SUBSET Conns]
      BY <1>4 DEF SendCheck, TypeInv, TypeOK
    <2> QED BY <1>4, <2>2, <2>3 DEF SendCheck, TypeInv, TypeOK
  <1>5. CASE SendPut(t)
    <2>1. pc' = [pc EXCEPT ![t] = "send"] /\ at' = [at EXCEPT ![t] = NoConn]
      BY <1>5 DEF SendPut
    <2>2. pc' \in [Threads -> Places] /\ at' \in [Threads -> Conns \cup {NoConn}] /\ AtConn'
      BY <2>1, ThreadStep DEF Places
    <2>3. queue' \in [Conns -> 0 .. SendQueue]
      <3>1. at[t] \in Conns
        BY <1>5 DEF SendPut, TypeInv, AtConn
      <3>2. queue[at[t]] \in 0 .. SendQueue /\ SendQueue \in Nat
        BY <3>1, PeerAssumption DEF TypeInv, TypeOK
      <3>3. Enqueued(at[t]) \in 0 .. SendQueue
        BY <3>2 DEF Enqueued
      <3>4. UNCHANGED queue \/ queue' = [queue EXCEPT ![at[t]] = Enqueued(at[t])]
        BY <1>5 DEF SendPut
      <3> QED BY <3>1, <3>3, <3>4 DEF TypeInv, TypeOK
    <2>4. panic' \in {"none", "send", "close"}
      BY <1>5 DEF SendPut, TypeInv, TypeOK
    <2>5. UNCHANGED <<state, shut, peers, lock, todo, work>>
      BY <1>5 DEF SendPut
    <2> QED BY <2>2, <2>3, <2>4, <2>5 DEF TypeInv, TypeOK
  <1> QED BY <1>1, <1>2, <1>3, <1>4, <1>5

\* The steps of Close, removePeer and Stop.
LEMMA CloseTypeInv ==
    ASSUME TypeInv, NEW t \in Threads,
           \/ ClosePeer(t) \/ RemoveLock(t) \/ RemovePeer(t)
           \/ Stop \/ StopRLock \/ StopDone \/ \E c \in Conns : StopClose(c)
    PROVE  TypeInv'
  <1> USE ThreadNames DEF lock, conns, local, Lock, Locked, Unlock, Step, Goto
  <1>1. CASE ClosePeer(t)
    <2>1. at[t] \in Conns
      BY <1>1 DEF ClosePeer, TypeInv, AtConn
    <2>2. \/ /\ \E x \in {"stopping", "done"} : pc' = [pc EXCEPT ![t] = x]
             /\ at' = [at EXCEPT ![t] = NoConn]
          \/ pc' = [pc EXCEPT ![t] = "remove"] /\ UNCHANGED at
      BY <1>1 DEF ClosePeer, Returns, CallsBack
    <2>3. pc' \in [Threads -> Places] /\ at' \in [Threads -> Conns \cup {NoConn}] /\ AtConn'
      BY <2>1, <2>2, ThreadStep DEF Places
    <2>4. state' = state \/ state' = [state EXCEPT ![at[t]] = "closed"]
      BY <1>1 DEF ClosePeer
    <2>5. state' \in [Conns -> {"connecting", "active", "closed"}]
      BY <2>4 DEF TypeInv, TypeOK
    <2>6. shut' \subseteq Conns /\ panic' \in {"none", "send", "close"}
      BY <1>1, <2>1 DEF ClosePeer, TypeInv, TypeOK
    <2>7. UNCHANGED <<queue, peers, lock, todo, work>>
      BY <1>1 DEF ClosePeer
    <2> QED BY <2>3, <2>5, <2>6, <2>7 DEF TypeInv, TypeOK
  <1>2. CASE RemoveLock(t)
    <2>1. at[t] \in Conns /\ pc' = [pc EXCEPT ![t] = "removing"] /\ UNCHANGED at
      BY <1>2 DEF RemoveLock, TypeInv, AtConn
    <2>2. pc' \in [Threads -> Places] /\ AtConn'
      BY <2>1, ThreadStep DEF Places
    <2> QED BY <1>2, <2>2 DEF RemoveLock, TypeInv, TypeOK
  <1>3. CASE RemovePeer(t)
    <2>1. /\ \E x \in {"stopping", "done"} : pc' = [pc EXCEPT ![t] = x]
          /\ at' = [at EXCEPT ![t] = NoConn]
      BY <1>3 DEF RemovePeer, Returns
    <2>2. pc' \in [Threads -> Places] /\ at' \in [Threads -> Conns \cup {NoConn}] /\ AtConn'
      BY <2>1, ThreadStep DEF Places
    <2>3. peers' \in [Keys -> Conns \cup {NoConn}]
      BY <1>3 DEF RemovePeer, TypeInv, TypeOK
    <2>4. writer' = Nobody /\ UNCHANGED <<conns, shared, todo, panic, work>>
      BY <1>3 DEF RemovePeer
    <2> QED BY <2>2, <2>3, <2>4 DEF TypeInv, TypeOK
  <1>4. CASE Stop
    <2>1. pc' = [pc EXCEPT ![Stopper] = "stop"] /\ UNCHANGED at
      BY <1>4 DEF Stop
    <2>2. pc' \in [Threads -> Places] /\ AtConn'
      BY <2>1, ThreadStep DEF Places
    <2>3. work' \in 0 .. MaxWork
      BY <1>4, PeerAssumption DEF Stop, Works, TypeInv, TypeOK
    <2> QED BY <1>4, <2>2, <2>3 DEF Stop, TypeInv, TypeOK
  <1>5. CASE StopRLock
    <2>1. pc' = [pc EXCEPT ![Stopper] = "stopping"] /\ UNCHANGED at
      BY <1>5 DEF StopRLock
    <2>2. pc' \in [Threads -> Places] /\ AtConn'
      BY <2>1, ThreadStep DEF Places
    <2>3. Listed \subseteq Conns
      BY DEF Listed, TypeInv, TypeOK
    <2>4. todo' \in [Threads -> SUBSET Conns] /\ shared' \subseteq Threads
      BY <1>5, <2>3 DEF StopRLock, TypeInv, TypeOK
    <2> QED BY <1>5, <2>2, <2>4 DEF StopRLock, TypeInv, TypeOK
  <1>6. CASE StopDone
    <2>1. pc' = [pc EXCEPT ![Stopper] = "done"] /\ UNCHANGED at
      BY <1>6 DEF StopDone
    <2>2. pc' \in [Threads -> Places] /\ AtConn'
      BY <2>1, ThreadStep DEF Places
    <2> QED BY <1>6, <2>2 DEF StopDone, TypeInv, TypeOK
  <1>7. ASSUME NEW c \in Conns, StopClose(c) PROVE TypeInv'
    <2>1. pc' = [pc EXCEPT ![Stopper] = "close"] /\ at' = [at EXCEPT ![Stopper] = c]
      BY <1>7 DEF StopClose
    <2>2. at'[Stopper] = c
      BY <2>1 DEF TypeInv, TypeOK
    <2>3. pc' \in [Threads -> Places] /\ at' \in [Threads -> Conns \cup {NoConn}] /\ AtConn'
      <3>1. Stopper \in Threads /\ "close" \in Places /\ at'[Stopper] \in Conns
        BY <2>2 DEF Places
      <3>2. \E d \in Conns \cup {NoConn} : at' = [at EXCEPT ![Stopper] = d]
        BY <2>1
      <3> QED BY <2>1, <3>1, <3>2, ThreadStep
    <2>4. todo' \in [Threads -> SUBSET Conns]
      BY <1>7 DEF StopClose, TypeInv, TypeOK
    <2> QED BY <1>7, <2>3, <2>4 DEF StopClose, TypeInv, TypeOK
  <1> QED BY <1>1, <1>2, <1>3, <1>4, <1>5, <1>6, <1>7

\* Every step is one of those above.
LEMMA StepKinds ==
    ASSUME Next
    PROVE  \/ \E c \in Conns : \/ Connect(c) \/ AddLock(c) \/ AddPeer(c)
                               \/ ReadFails(c) \/ Handle(c) \/ PumpWrite(c)
           \/ \E t \in Calls : Call(t) \/ Query(t)
           \/ \E t \in Readers \cup Calls :
                 \/ UpdateLock(t) \/ Update(t) \/ LookUp(t)
                 \/ (\E c \in Conns : SendCheck(t, c)) \/ SendPut(t) \/ SendDone(t)
           \/ \E t \in Threads \ Calls :
                 (panic = "none" /\ ClosePeer(t)) \/ RemoveLock(t) \/ RemovePeer(t)
           \/ Stop \/ StopRLock \/ StopDone \/ \E c \in Conns : StopClose(c)
  BY ThreadNames DEF Next, Run, Acquire, Proceed

\* Every step leaves a well-typed state.
LEMMA NextTypeInv == TypeInv /\ [Next]_vars => TypeInv'
  <1>1. ASSUME TypeInv, UNCHANGED vars PROVE TypeInv'
    BY <1>1 DEF TypeInv, TypeOK, AtConn, vars, conns, lock, local
  <1>2. ASSUME TypeInv, Next PROVE TypeInv'
    BY <1>2, StepKinds, ConnTypeInv, UseTypeInv, CloseTypeInv, ThreadNames
  <1> QED BY <1>1, <1>2

(* Every reachable state is well typed: in particular no send queue ever holds
   more packets than its capacity, and Close and Send always have a peer
   (Peer.Send, Close). *)
THEOREM PeersTypeCorrect == Spec => []TypeOK
  <1>1. TypeInv => TypeOK
    BY DEF TypeInv
  <1> QED BY <1>1, InitTypeInv, NextTypeInv, PTL DEF Spec

----------------------------------------------------------------------------
(* The table.  A connection is unstarted until addPeer has let its goroutines
   go; until then nobody else knows it.  Who is in removePeer has closed its
   peer, and the table files peers by their keys. *)
Unstarted(c) == pc[Reader(c)] \in {"none", "add", "adding"}

UnstartedIsUnknown ==
    \A c \in Conns :
        /\ Unstarted(c) =>
              /\ state[c] # "closed"
              /\ pc[Pump(c)] = "none"
              /\ \A k \in Keys : peers[k] # c
              /\ \A t \in Threads : at[t] # c /\ c \notin todo[t]
        /\ state[c] = "connecting" => pc[Reader(c)] = "none"

ShutIsClosed == \A c \in Conns : c \in shut <=> state[c] = "closed"
LeavingIsClosed ==
    \A t \in Threads : pc[t] \in {"remove", "removing"} => state[at[t]] = "closed"
FiledByKey == \A k \in Keys : peers[k] # NoConn => KeyOf[peers[k]] = k

TableInv ==
    /\ UnstartedIsUnknown
    /\ ShutIsClosed
    /\ LeavingIsClosed
    /\ FiledByKey
    /\ ClosedOnce
    /\ DeadPeersLeave
    /\ LiveIsListed

\* An empty table holds no closed peer.
LEMMA InitTableInv == Init => TableInv
  BY PeerAssumption, ThreadNames
  DEF Init, TableInv, UnstartedIsUnknown, ShutIsClosed, LeavingIsClosed, FiledByKey, ClosedOnce,
      DeadPeersLeave, LiveIsListed

\* A thread that may touch only started connections, and is not on its way
\* into or out of removePeer, except to take the lock there.
LEMMA TableUntouched ==
    ASSUME TypeInv, TableInv, NEW t \in Threads, NEW x,
           UNCHANGED <<state, shut, peers>>, panic' # "close",
           pc' = [pc EXCEPT ![t] = x],
           \A u \in Threads \ {t} : at'[u] = at[u] /\ todo'[u] = todo[u],
           \A c \in Conns : Unstarted(c) => at'[t] # c /\ c \notin todo'[t],
           t \in Readers \cup Pumps =>
               /\ pc[t] # "none" /\ x # "none"
               /\ x \in {"add", "adding"} <=> pc[t] \in {"add", "adding"},
           \/ pc[t] \notin {"remove", "removing"} /\ x \notin {"remove", "removing"}
           \/ pc[t] = "remove" /\ x = "removing" /\ UNCHANGED at
    PROVE  TableInv'
  <1>1. \A u \in Threads : pc'[u] = IF u = t THEN x ELSE pc[u]
    BY DEF TypeInv, TypeOK
  <1>2. ASSUME NEW c \in Conns
        PROVE  /\ pc'[Reader(c)] \in {"none", "add", "adding"}
                     <=> pc[Reader(c)] \in {"none", "add", "adding"}
               /\ pc'[Reader(c)] = "none" <=> pc[Reader(c)] = "none"
               /\ pc'[Pump(c)] = "none" <=> pc[Pump(c)] = "none"
    <2>1. Reader(c) \in Threads /\ Pump(c) \in Threads
      BY ThreadNames
    <2>2. Reader(c) \in Readers /\ Pump(c) \in Pumps
      BY ThreadNames
    <2>3. pc'[Reader(c)] = (IF Reader(c) = t THEN x ELSE pc[Reader(c)])
      BY <1>1, <2>1
    <2>4. pc'[Pump(c)] = (IF Pump(c) = t THEN x ELSE pc[Pump(c)])
      BY <1>1, <2>1
    <2> QED BY <2>2, <2>3, <2>4
  <1>3. UnstartedIsUnknown'
    <2>1. \A c \in Conns, u \in Threads : Unstarted(c) => at'[u] # c /\ c \notin todo'[u]
      BY DEF TableInv, UnstartedIsUnknown
    <2> QED BY <1>2, <2>1, ZenonT(40) DEF TableInv, UnstartedIsUnknown, Unstarted, Reader, Pump
  <1>4. \A u \in Threads :
            /\ pc'[u] \in {"remove", "removing"} <=> pc[u] \in {"remove", "removing"}
            /\ pc[u] \in {"remove", "removing"} => at'[u] = at[u]
    BY <1>1
  <1>5. LeavingIsClosed' /\ DeadPeersLeave'
    BY <1>4 DEF TableInv, LeavingIsClosed, DeadPeersLeave
  <1>6. LiveIsListed'
    BY <1>2 DEF TableInv, LiveIsListed, Pump
  <1>7. ShutIsClosed' /\ FiledByKey' /\ ClosedOnce'
    BY DEF TableInv, ShutIsClosed, FiledByKey, ClosedOnce
  <1> QED BY <1>3, <1>5, <1>6, <1>7 DEF TableInv

\* What a thread knows has been started, and so has every listed peer.
LEMMA KnownIsStarted ==
    ASSUME TypeInv, TableInv
    PROVE  /\ \A c \in Conns, t \in Threads : Unstarted(c) => at[t] # c /\ c \notin todo[t]
           /\ \A c \in Listed : c \in Conns /\ ~Unstarted(c)
  BY DEF TypeInv, TypeOK, TableInv, UnstartedIsUnknown, Listed

\* The steps that change neither the table nor the state of a connection.
LEMMA UseTableInv ==
    ASSUME TypeInv, TableInv,
           \/ \E c \in Conns : AddLock(c) \/ ReadFails(c) \/ Handle(c) \/ PumpWrite(c)
           \/ \E t \in Calls : Call(t) \/ Query(t)
           \/ \E t \in Readers \cup Calls :
                 \/ UpdateLock(t) \/ Update(t) \/ LookUp(t)
                 \/ (\E c \in Conns : SendCheck(t, c)) \/ SendPut(t) \/ SendDone(t)
           \/ \E t \in Threads \ Calls : RemoveLock(t)
           \/ Stop \/ StopRLock \/ StopDone \/ \E c \in Conns : StopClose(c)
    PROVE  TableInv'
  <1> USE DEF lock, conns, local, Lock, Locked, Unlock, Step, Goto
  <1>0. /\ \A c \in Conns, t \in Threads : Unstarted(c) => at[t] # c /\ c \notin todo[t]
        /\ \A c \in Listed : c \in Conns /\ ~Unstarted(c)
        /\ panic # "close"
        /\ at \in [Threads -> Conns \cup {NoConn}] /\ todo \in [Threads -> SUBSET Conns]
        /\ NoConn \notin Conns
    BY KnownIsStarted, PeerAssumption DEF TableInv, ClosedOnce, TypeInv, TypeOK
  <1>1. ASSUME NEW c \in Conns, AddLock(c) PROVE TableInv'
    BY <1>0, <1>1, TableUntouched, ThreadNames DEF AddLock
  <1>2. ASSUME NEW c \in Conns, ReadFails(c) PROVE TableInv'
    <2>1. pc[Reader(c)] = "run" /\ ~Unstarted(c)
      BY <1>2 DEF ReadFails, Unstarted
    <2>4. \A d \in Conns : Unstarted(d) => at'[Reader(c)] # d /\ d \notin todo'[Reader(c)]
      BY <1>0, <1>2, <2>1, ThreadNames DEF ReadFails
    <2> QED BY <1>0, <1>2, <2>1, <2>4, TableUntouched, ThreadNames DEF ReadFails
  <1>3. ASSUME NEW c \in Conns, Handle(c) PROVE TableInv'
    <2>1. pc[Reader(c)] = "run" /\ ~Unstarted(c)
      BY <1>3 DEF Handle, Unstarted
    <2>2. \E x \in {"lookup", "update", "send"} : pc' = [pc EXCEPT ![Reader(c)] = x]
      BY <1>3 DEF Handle
    <2>3. /\ UNCHANGED <<state, shut, peers, at, panic>>
          /\ todo' = todo \/ todo' = [todo EXCEPT ![Reader(c)] = {c}]
      BY <1>3 DEF Handle
    <2>4. \A d \in Conns : Unstarted(d) => at'[Reader(c)] # d /\ d \notin todo'[Reader(c)]
      BY <1>0, <2>1, <2>3, ThreadNames
    <2> QED BY <1>0, <2>1, <2>2, <2>3, <2>4, TableUntouched, ThreadNames
  <1>4. ASSUME NEW c \in Conns, PumpWrite(c) PROVE TableInv'
    <2>1. pc[Pump(c)] = "run" /\ UNCHANGED <<state, shut, peers, todo, panic>>
      BY <1>4 DEF PumpWrite
    <2>2. ~Unstarted(c)
      BY <2>1 DEF TableInv, UnstartedIsUnknown
    <2>3. \/ pc' = [pc EXCEPT ![Pump(c)] = "run"] /\ UNCHANGED at
          \/ pc' = [pc EXCEPT ![Pump(c)] = "close"] /\ at' = [at EXCEPT ![Pump(c)] = c]
      BY <1>4, <2>1, ThreadNames DEF PumpWrite, PumpEnds, TypeInv, TypeOK
    <2>4. \A d \in Conns : Unstarted(d) => at'[Pump(c)] # d /\ d \notin todo'[Pump(c)]
      BY <1>0, <2>1, <2>2, <2>3, ThreadNames
    <2> QED BY <1>0, <2>1, <2>3, <2>4, TableUntouched, ThreadNames
  <1>5. ASSUME NEW t \in Calls, Call(t) PROVE TableInv'
    <2>1. \E x \in {"query", "update", "lookup"} : pc' = [pc EXCEPT ![t] = x]
      BY <1>5 DEF Call
    <2>2. pc[t] = "none" /\ UNCHANGED <<state, shut, peers, at, todo, panic>>
      BY <1>5 DEF Call
    <2> QED BY <1>0, <2>1, <2>2, TableUntouched, ThreadNames
  <1>6. ASSUME NEW t \in Calls, Query(t) PROVE TableInv'
    BY <1>0, <1>6, TableUntouched, ThreadNames DEF Query
  <1>7. ASSUME NEW t \in Readers \cup Calls, UpdateLock(t) \/ Update(t) \/ SendDone(t)
        PROVE  TableInv'
    <2>1. /\ pc[t] \in {"update", "updating", "send"}
          /\ \E x \in {"none", "updating", "lookup", "run"} :
                 pc' = [pc EXCEPT ![t] = x] /\ (t \in Readers => x # "none")
      BY <1>7, ThreadNames DEF UpdateLock, Update, SendDone
    <2>2. UNCHANGED <<state, shut, peers, at, todo, panic>>
      BY <1>7 DEF UpdateLock, Update, SendDone
    <2> QED BY <1>0, <2>1, <2>2, TableUntouched, ThreadNames
  <1>8. ASSUME NEW t \in Readers \cup Calls, LookUp(t) PROVE TableInv'
    <2>1. \E R \in SUBSET Listed : todo' = [todo EXCEPT ![t] = R]
      BY <1>8 DEF LookUp, Selections
    <2>2. /\ pc[t] = "lookup" /\ pc' = [pc EXCEPT ![t] = "send"]
          /\ UNCHANGED <<state, shut, peers, at, panic>>
      BY <1>8 DEF LookUp
    <2> QED BY <1>0, <2>1, <2>2, TableUntouched, ThreadNames, ZenonT(40)
  <1>9. ASSUME NEW t \in Readers \cup Calls, NEW c \in Conns, SendCheck(t, c) PROVE TableInv'
    <2>1. /\ c \in todo[t] /\ todo' = [todo EXCEPT ![t] = @ \ {c}]
          /\ pc[t] = "send" /\ UNCHANGED <<state, shut, peers, panic>>
      BY <1>9 DEF SendCheck
    <2>2. ~Unstarted(c)
      BY <1>0, <2>1, ThreadNames
    <2>3. \/ pc' = [pc EXCEPT ![t] = "send"] /\ UNCHANGED at
          \/ pc' = [pc EXCEPT ![t] = "put"] /\ at' = [at EXCEPT ![t] = c]
      BY <1>9, <2>1, ThreadNames DEF SendCheck, TypeInv, TypeOK
    <2>4. \A d \in Conns : Unstarted(d) => at'[t] # d /\ d \notin todo'[t]
      BY <1>0, <2>1, <2>2, <2>3, ThreadNames
    <2> QED BY <1>0, <2>1, <2>3, <2>4, TableUntouched, ThreadNames
  <1>10. ASSUME NEW t \in Readers \cup Calls, SendPut(t) PROVE TableInv'
    <2>1. /\ pc[t] = "put" /\ pc' = [pc EXCEPT ![t] = "send"]
          /\ at' = [at EXCEPT ![t] = NoConn] /\ panic' # "close"
          /\ UNCHANGED <<state, shut, peers, todo>>
      BY <1>0, <1>10 DEF SendPut
    <2> QED BY <1>0, <2>1, TableUntouched, ThreadNames, ZenonT(40)
  <1>11. ASSUME NEW t \in Threads \ Calls, RemoveLock(t) PROVE TableInv'
    BY <1>0, <1>11, TableUntouched, ThreadNames DEF RemoveLock
  <1>12. CASE Stop
    BY <1>0, <1>12, TableUntouched, ThreadNames DEF Stop
  <1>13. CASE StopRLock
    BY <1>0, <1>13, TableUntouched, ThreadNames DEF StopRLock
  <1>14. CASE StopDone
    BY <1>0, <1>14, TableUntouched, ThreadNames DEF StopDone
  <1>15. ASSUME NEW c \in Conns, StopClose(c) PROVE TableInv'
    <2>1. ~Unstarted(c)
      BY <1>0, <1>15, ThreadNames DEF StopClose
    <2>4. \A d \in Conns : Unstarted(d) => at'[Stopper] # d /\ d \notin todo'[Stopper]
      BY <1>0, <1>15, <2>1, ThreadNames DEF StopClose
    <2> QED BY <1>0, <1>15, <2>4, TableUntouched, ThreadNames DEF StopClose
  <1> QED BY <1>1, <1>2, <1>3, <1>4, <1>5, <1>6, <1>7, <1>8, <1>9, <1>10, <1>11, <1>12,
             <1>13, <1>14, <1>15

\* The handshake is done.
LEMMA ConnectTableInv ==
    ASSUME TypeInv, TableInv, NEW c \in Conns, Connect(c)
    PROVE  TableInv'
  <1>1. /\ state[c] = "connecting" /\ state' = [state EXCEPT ![c] = "active"]
        /\ pc' = [pc EXCEPT ![Reader(c)] = "add"]
        /\ UNCHANGED <<queue, shut, peers, writer, shared, at, todo, panic, work>>
    BY DEF Connect, Goto, lock
  <1>2. pc[Reader(c)] = "none" /\ Unstarted(c)
    BY <1>1 DEF TableInv, UnstartedIsUnknown, Unstarted
  <1>3. /\ \A d \in Conns : state'[d] = IF d = c THEN "active" ELSE state[d]
        /\ \A t \in Threads : pc'[t] = IF t = Reader(c) THEN "add" ELSE pc[t]
    BY <1>1 DEF TypeInv, TypeOK
  <1>4. ASSUME NEW d \in Conns
        PROVE  /\ Reader(d) \in Threads /\ Pump(d) \in Threads
               /\ Reader(d) = Reader(c) <=> d = c
               /\ pc'[Pump(d)] = pc[Pump(d)]
               /\ pc'[Reader(d)] = IF d = c THEN "add" ELSE pc[Reader(d)]
    BY <1>3, ThreadNames, ThreadsDiffer
  <1>5. UnstartedIsUnknown'
    <2> SUFFICES ASSUME NEW d \in Conns
                 PROVE  /\ pc'[Reader(d)] \in {"none", "add", "adding"} =>
                              /\ state'[d] # "closed"
                              /\ pc'[Pump(d)] = "none"
                              /\ \A k \in Keys : peers'[k] # d
                              /\ \A t \in Threads : at'[t] # d /\ d \notin todo'[t]
                        /\ state'[d] = "connecting" => pc'[Reader(d)] = "none"
      BY DEF UnstartedIsUnknown, Unstarted, Reader, Pump
    <2>1. CASE d = c
      BY <1>1, <1>2, <1>3, <1>4, <2>1 DEF TableInv, UnstartedIsUnknown
    <2>2. CASE d # c
      BY <1>1, <1>3, <1>4, <2>2 DEF TableInv, UnstartedIsUnknown, Unstarted
    <2> QED BY <2>1, <2>2
  <1>6. ShutIsClosed' /\ FiledByKey' /\ ClosedOnce'
    BY <1>1, <1>3 DEF TableInv, ShutIsClosed, FiledByKey, ClosedOnce
  <1>7. \A t \in Threads : /\ pc'[t] \in {"remove", "removing"} <=> pc[t] \in {"remove", "removing"}
                           /\ pc[t] \in {"remove", "removing"} => at[t] \in Conns
    BY <1>2, <1>3 DEF TypeInv, AtConn
  <1>8. LeavingIsClosed' /\ DeadPeersLeave'
    <2>1. LeavingIsClosed'
      BY <1>1, <1>3, <1>7 DEF TableInv, LeavingIsClosed
    <2>2. \A k \in Keys : peers[k] # NoConn => peers[k] \in Conns
      BY DEF TypeInv, TypeOK
    <2>3. DeadPeersLeave'
      <3>1. \A k \in Keys : peers[k] # NoConn /\ state'[peers[k]] = "closed"
                                => state[peers[k]] = "closed"
        BY <1>3, <2>2
      <3>2. ASSUME NEW k \in Keys, peers'[k] # NoConn, state'[peers'[k]] = "closed"
            PROVE  \E t \in Threads : at'[t] = peers'[k] /\ pc'[t] \in {"remove", "removing"}
        <4>1. PICK t \in Threads : at[t] = peers[k] /\ pc[t] \in {"remove", "removing"}
          BY <1>1, <3>1, <3>2 DEF TableInv, DeadPeersLeave
        <4> QED BY <1>1, <1>7, <4>1
      <3> QED BY <3>2 DEF DeadPeersLeave
    <2> QED BY <2>1, <2>3
  <1>9. LiveIsListed'
    <2>1. pc[Pump(c)] = "none"
      BY <1>2 DEF TableInv, UnstartedIsUnknown
    <2> QED BY <1>1, <1>3, <1>4, <2>1 DEF TableInv, LiveIsListed, Pump
  <1> QED BY <1>5, <1>6, <1>8, <1>9 DEF TableInv

\* addPeer takes the connection in, or starts to close it.
LEMMA AddTableInv ==
    ASSUME TypeInv, TableInv, NEW c \in Conns, AddPeer(c)
    PROVE  TableInv'
  <1>1. /\ pc[Reader(c)] = "adding" /\ Unstarted(c)
        /\ UNCHANGED <<state, queue, shut, shared, todo, panic, work>>
    BY DEF AddPeer, Unstarted, conns
  <1>2. /\ state[c] = "active" /\ pc[Pump(c)] = "none"
        /\ \A k \in Keys : peers[k] # c
        /\ \A t \in Threads : at[t] # c /\ c \notin todo[t]
    <2>1. state[c] \in {"connecting", "active", "closed"}
      BY DEF TypeInv, TypeOK
    <2> QED BY <1>1, <2>1 DEF TableInv, UnstartedIsUnknown
  <1>3. ASSUME NEW d \in Conns
        PROVE  /\ Reader(d) \in Threads /\ Pump(d) \in Threads
               /\ Reader(d) = Reader(c) <=> d = c
               /\ Pump(d) = Pump(c) <=> d = c
               /\ Reader(d) # Pump(c) /\ Pump(d) # Reader(c)
    <2>1. Reader(d) \in Threads /\ Pump(d) \in Threads
      BY ThreadNames
    <2>2. /\ Reader(d) = Reader(c) <=> d = c
          /\ Pump(d) = Pump(c) <=> d = c
          /\ Reader(d) # Pump(c) /\ Pump(d) # Reader(c)
      BY ThreadsDiffer
    <2> QED BY <2>1, <2>2
  <1>4. /\ \A k \in Keys : peers[k] # NoConn => peers[k] \in Conns
        /\ KeyOf[c] \in Keys /\ c # NoConn
    BY PeerAssumption DEF TypeInv, TypeOK
  <1>5. CASE Cardinality(Listed) >= MaxPeers
    <2>1. /\ pc' = [pc EXCEPT ![Reader(c)] = "close"]
          /\ at' = [at EXCEPT ![Reader(c)] = c] /\ UNCHANGED peers
      BY <1>5 DEF AddPeer, Reject, Goto
    <2>2. \A t \in Threads : /\ pc'[t] = IF t = Reader(c) THEN "close" ELSE pc[t]
                             /\ at'[t] = IF t = Reader(c) THEN c ELSE at[t]
      BY <2>1 DEF TypeInv, TypeOK
    <2>3. UnstartedIsUnknown'
      <3> SUFFICES ASSUME NEW d \in Conns
                   PROVE  /\ pc'[Reader(d)] \in {"none", "add", "adding"} =>
                                /\ state'[d] # "closed"
                                /\ pc'[Pump(d)] = "none"
                                /\ \A k \in Keys : peers'[k] # d
                                /\ \A t \in Threads : at'[t] # d /\ d \notin todo'[t]
                          /\ state'[d] = "connecting" => pc'[Reader(d)] = "none"
        BY DEF UnstartedIsUnknown, Unstarted, Reader, Pump
      <3>1. CASE d = c
        <4>1. pc'[Reader(c)] = "close"
          <5>1. Reader(c) \in Threads
            BY <1>3
          <5> QED BY <2>2, <5>1
        <4> QED BY <1>1, <1>2, <3>1, <4>1
      <3>2. CASE d # c
        <4>1. pc'[Reader(d)] = pc[Reader(d)] /\ pc'[Pump(d)] = pc[Pump(d)]
          BY <1>3, <2>2, <3>2
        <4> QED BY <1>1, <1>3, <2>1, <2>2, <3>2, <4>1
                DEF TableInv, UnstartedIsUnknown, Unstarted
      <3> QED BY <3>1, <3>2
    <2>4. ShutIsClosed' /\ FiledByKey' /\ ClosedOnce'
      BY <1>1, <2>1 DEF TableInv, ShutIsClosed, FiledByKey, ClosedOnce
    <2>5. \A t \in Threads :
              /\ pc'[t] \in {"remove", "removing"} <=> pc[t] \in {"remove", "removing"}
              /\ pc[t] \in {"remove", "removing"} => at'[t] = at[t]
      BY <1>1, <2>2
    <2>6. LeavingIsClosed' /\ DeadPeersLeave'
      BY <1>1, <2>1, <2>5 DEF TableInv, LeavingIsClosed, DeadPeersLeave
    <2>7. LiveIsListed'
      BY <1>1, <1>3, <2>1, <2>2 DEF TableInv, LiveIsListed, Pump
    <2> QED BY <2>3, <2>4, <2>6, <2>7 DEF TableInv
  <1>6. CASE ~(Cardinality(Listed) >= MaxPeers)
    <2>1. /\ peers' = [peers EXCEPT ![KeyOf[c]] = c]
          /\ pc' = [pc EXCEPT ![Reader(c)] = "run", ![Pump(c)] = "run"] /\ UNCHANGED at
      BY <1>6 DEF AddPeer, Started
    <2>2. /\ \A t \in Threads : pc'[t] = IF t = Reader(c) \/ t = Pump(c) THEN "run" ELSE pc[t]
          /\ \A k \in Keys : peers'[k] = IF k = KeyOf[c] THEN c ELSE peers[k]
      BY <2>1, ThreadNames DEF TypeInv, TypeOK
    <2>3. UnstartedIsUnknown'
      <3> SUFFICES ASSUME NEW d \in Conns
                   PROVE  /\ pc'[Reader(d)] \in {"none", "add", "adding"} =>
                                /\ state'[d] # "closed"
                                /\ pc'[Pump(d)] = "none"
                                /\ \A k \in Keys : peers'[k] # d
                                /\ \A t \in Threads : at'[t] # d /\ d \notin todo'[t]
                          /\ state'[d] = "connecting" => pc'[Reader(d)] = "none"
        BY DEF UnstartedIsUnknown, Unstarted, Reader, Pump
      <3>1. CASE d = c
        <4>1. pc'[Reader(c)] = "run"
          <5>1. Reader(c) \in Threads
            BY <1>3
          <5> QED BY <2>2, <5>1
        <4> QED BY <1>1, <1>2, <3>1, <4>1
      <3>2. CASE d # c
        <4>1. pc'[Reader(d)] = pc[Reader(d)] /\ pc'[Pump(d)] = pc[Pump(d)]
          BY <1>3, <2>2, <3>2
        <4> QED BY <1>1, <1>3, <2>1, <2>2, <3>2, <4>1
                DEF TableInv, UnstartedIsUnknown, Unstarted
      <3> QED BY <3>1, <3>2
    <2>4. ShutIsClosed' /\ FiledByKey' /\ ClosedOnce'
      BY <1>1, <2>2 DEF TableInv, ShutIsClosed, FiledByKey, ClosedOnce
    <2>5. \A t \in Threads : pc'[t] \in {"remove", "removing"} <=> pc[t] \in {"remove", "removing"}
      BY <1>1, <1>2, <2>2
    <2>6. LeavingIsClosed' /\ DeadPeersLeave'
      <3>1. LeavingIsClosed'
        BY <1>1, <2>1, <2>5 DEF TableInv, LeavingIsClosed
      <3>2. ASSUME NEW k \in Keys, peers'[k] # NoConn, state'[peers'[k]] = "closed"
            PROVE  \E t \in Threads : at'[t] = peers'[k] /\ pc'[t] \in {"remove", "removing"}
        <4>1. peers'[k] = peers[k]
          BY <1>1, <1>2, <2>2, <3>2
        <4>2. PICK t \in Threads : at[t] = peers[k] /\ pc[t] \in {"remove", "removing"}
          BY <1>1, <3>2, <4>1 DEF TableInv, DeadPeersLeave
        <4> QED BY <2>1, <2>5, <4>1, <4>2
      <3> QED BY <3>1, <3>2 DEF DeadPeersLeave
    <2>7. LiveIsListed'
      <3> SUFFICES ASSUME NEW d \in Conns, state'[d] = "active", pc'[Pump(d)] # "none"
                   PROVE  \/ peers'[KeyOf[d]] = d
                          \/ \E e \in Conns \ {d} : KeyOf[e] = KeyOf[d] /\ state'[e] # "connecting"
        BY DEF LiveIsListed, Pump
      <3>1. CASE d = c
        BY <1>4, <2>2, <3>1
      <3>2. CASE d # c /\ KeyOf[d] = KeyOf[c]
        BY <1>1, <1>2, <3>2
      <3>3. CASE d # c /\ KeyOf[d] # KeyOf[c]
        <4>1. pc[Pump(d)] # "none" /\ state[d] = "active"
          BY <1>1, <1>3, <2>2, <3>3
        <4>2. \/ peers[KeyOf[d]] = d
              \/ \E e \in Conns \ {d} : KeyOf[e] = KeyOf[d] /\ state[e] # "connecting"
          BY <4>1 DEF TableInv, LiveIsListed
        <4>3. KeyOf[d] \in Keys
          BY PeerAssumption
        <4> QED BY <1>1, <2>2, <3>3, <4>2, <4>3
      <3> QED BY <3>1, <3>2, <3>3
    <2> QED BY <2>3, <2>4, <2>6, <2>7 DEF TableInv
  <1> QED BY <1>5, <1>6

\* Close, up to the callback.
LEMMA CloseTableInv ==
    ASSUME TypeInv, TableInv, NEW t \in Threads, panic = "none", ClosePeer(t)
    PROVE  TableInv'
  <1> DEFINE c == at[t]
  <1>1. c \in Conns /\ pc[t] = "close" /\ UNCHANGED <<queue, peers, writer, shared, todo, work>>
    BY DEF ClosePeer, TypeInv, AtConn, lock
  <1>2. ~Unstarted(c)
    BY <1>1, KnownIsStarted
  <1>3. NoConn \notin Conns /\ at \in [Threads -> Conns \cup {NoConn}]
    BY PeerAssumption DEF TypeInv, TypeOK
  <1>4. CASE ~MayClose(c)
    <2>1. /\ \E x \in {"stopping", "done"} : pc' = [pc EXCEPT ![t] = x]
          /\ at' = [at EXCEPT ![t] = NoConn]
          /\ UNCHANGED <<state, shut, panic>>
      BY <1>4 DEF ClosePeer, Returns, Goto
    <2>2. \A d \in Conns : Unstarted(d) => at'[t] # d /\ d \notin todo'[t]
      BY <1>1, <1>3, <2>1, KnownIsStarted
    <2>3. panic' # "close"
      BY <2>1
    <2> QED BY <1>1, <1>3, <2>1, <2>2, <2>3, TableUntouched
  <1>5. CASE MayClose(c)
    <2>1. /\ state' = [state EXCEPT ![c] = "closed"] /\ shut' = shut \cup {c}
          /\ panic' = IF c \in shut THEN "close" ELSE "none"
          /\ pc' = [pc EXCEPT ![t] = "remove"] /\ UNCHANGED at
      BY <1>5 DEF ClosePeer, CallsBack, Goto
    <2> HIDE DEF c
    <2>2. c \notin shut
      BY <1>1, <1>5 DEF MayClose, TableInv, ShutIsClosed
    <2>3. /\ \A d \in Conns : state'[d] = IF d = c THEN "closed" ELSE state[d]
          /\ \A u \in Threads : pc'[u] = IF u = t THEN "remove" ELSE pc[u]
      BY <2>1 DEF TypeInv, TypeOK
    <2>4. UnstartedIsUnknown'
      <3> SUFFICES ASSUME NEW d \in Conns
                   PROVE  /\ pc'[Reader(d)] \in {"none", "add", "adding"} =>
                                /\ state'[d] # "closed"
                                /\ pc'[Pump(d)] = "none"
                                /\ \A k \in Keys : peers'[k] # d
                                /\ \A u \in Threads : at'[u] # d /\ d \notin todo'[u]
                          /\ state'[d] = "connecting" => pc'[Reader(d)] = "none"
        BY DEF UnstartedIsUnknown, Unstarted, Reader, Pump
      <3>1. Reader(d) \in Threads /\ Pump(d) \in Threads
        BY ThreadNames
      <3>2. /\ pc'[Reader(d)] = IF Reader(d) = t THEN "remove" ELSE pc[Reader(d)]
            /\ pc'[Pump(d)] = IF Pump(d) = t THEN "remove" ELSE pc[Pump(d)]
        BY <2>3, <3>1
      <3>3. CASE pc'[Reader(d)] \in {"none", "add", "adding"}
        <4>1. Unstarted(d) /\ d # c
          BY <1>2, <3>2, <3>3 DEF Unstarted
        <4>2. pc[Pump(d)] = "none"
          BY <4>1 DEF TableInv, UnstartedIsUnknown
        <4> QED BY <1>1, <2>1, <2>3, <3>2, <4>1, <4>2 DEF TableInv, UnstartedIsUnknown
      <3>4. CASE state'[d] = "connecting"
        <4>1. state[d] = "connecting" /\ pc[Reader(d)] = "none"
          BY <2>3, <3>4 DEF TableInv, UnstartedIsUnknown
        <4> QED BY <1>1, <3>2, <3>3, <4>1
      <3> QED BY <3>3, <3>4
    <2>5. ShutIsClosed' /\ FiledByKey' /\ ClosedOnce'
      BY <1>1, <2>1, <2>2, <2>3 DEF TableInv, ShutIsClosed, FiledByKey, ClosedOnce
    <2>6. LeavingIsClosed'
      <3> SUFFICES ASSUME NEW u \in Threads, pc'[u] \in {"remove", "removing"}
                   PROVE  state'[at'[u]] = "closed"
        BY DEF LeavingIsClosed
      <3>1. CASE u = t
        BY <1>1, <2>1, <2>3, <3>1 DEF c
      <3>2. CASE u # t
        <4>1. pc[u] \in {"remove", "removing"}
          BY <2>3, <3>2
        <4>2. at[u] \in Conns /\ state[at[u]] = "closed"
          BY <4>1 DEF TypeInv, AtConn, TableInv, LeavingIsClosed
        <4> QED BY <2>1, <2>3, <4>2
      <3> QED BY <3>1, <3>2
    <2>7. DeadPeersLeave'
      <3> SUFFICES ASSUME NEW k \in Keys, peers'[k] # NoConn, state'[peers'[k]] = "closed"
                   PROVE  \E u \in Threads : at'[u] = peers'[k] /\ pc'[u] \in {"remove", "removing"}
        BY DEF DeadPeersLeave
      <3>1. peers'[k] = peers[k] /\ peers[k] \in Conns
        BY <1>1 DEF TypeInv, TypeOK
      <3>2. CASE peers[k] = c
        BY <2>1, <2>3, <3>1, <3>2 DEF c
      <3>3. CASE peers[k] # c
        <4>1. state[peers[k]] = "closed"
          BY <2>3, <3>1, <3>3
        <4>2. PICK u \in Threads : at[u] = peers[k] /\ pc[u] \in {"remove", "removing"}
          BY <3>1, <4>1 DEF TableInv, DeadPeersLeave
        <4> QED BY <2>1, <2>3, <3>1, <4>2
      <3> QED BY <3>2, <3>3
    <2>8. LiveIsListed'
      <3> SUFFICES ASSUME NEW d \in Conns, state'[d] = "active", pc'[Pump(d)] # "none"
                   PROVE  \/ peers'[KeyOf[d]] = d
                          \/ \E e \in Conns \ {d} : KeyOf[e] = KeyOf[d] /\ state'[e] # "connecting"
        BY DEF LiveIsListed, Pump
      <3>1. state[d] = "active"
        BY <2>3
      <3>2. pc[Pump(d)] # "none"
        <4>1. Pump(d) \in Threads
          BY ThreadNames
        <4> QED BY <1>1, <2>3, <4>1
      <3>3. \/ peers[KeyOf[d]] = d
            \/ \E e \in Conns \ {d} : KeyOf[e] = KeyOf[d] /\ state[e] # "connecting"
        BY <3>1, <3>2 DEF TableInv, LiveIsListed
      <3> QED BY <1>1, <2>3, <3>3
    <2> QED BY <2>4, <2>5, <2>6, <2>7, <2>8 DEF TableInv
  <1> QED BY <1>4, <1>5

\* removePeer deletes by key: its own peer, or the one that has replaced it.
LEMMA RemoveTableInv ==
    ASSUME TypeInv, TableInv, NEW t \in Threads, RemovePeer(t)
    PROVE  TableInv'
  <1> DEFINE c == at[t]
  <1>1. /\ c \in Conns /\ pc[t] = "removing"
        /\ UNCHANGED <<state, queue, shut, shared, todo, panic, work>>
    BY DEF RemovePeer, TypeInv, AtConn, conns
  <1>2. /\ \E x \in {"stopping", "done"} : pc' = [pc EXCEPT ![t] = x]
        /\ at' = [at EXCEPT ![t] = NoConn]
        /\ peers' = [peers EXCEPT ![KeyOf[c]] = NoConn]
    BY DEF RemovePeer, Returns, Goto
  <1>3. state[c] = "closed" /\ ~Unstarted(c)
    BY <1>1, KnownIsStarted DEF TableInv, LeavingIsClosed
  <1>4. NoConn \notin Conns /\ KeyOf[c] \in Keys
    BY <1>1, PeerAssumption
  <1> HIDE DEF c
  <1>5. /\ \A u \in Threads : u # t => pc'[u] = pc[u] /\ at'[u] = at[u]
        /\ pc'[t] \in {"stopping", "done"} /\ at'[t] = NoConn
        /\ \A k \in Keys : peers'[k] = IF k = KeyOf[c] THEN NoConn ELSE peers[k]
    BY <1>2, <1>4 DEF TypeInv, TypeOK
  <1>6. UnstartedIsUnknown'
    <2> SUFFICES ASSUME NEW d \in Conns
                 PROVE  /\ pc'[Reader(d)] \in {"none", "add", "adding"} =>
                              /\ state'[d] # "closed"
                              /\ pc'[Pump(d)] = "none"
                              /\ \A k \in Keys : peers'[k] # d
                              /\ \A u \in Threads : at'[u] # d /\ d \notin todo'[u]
                        /\ state'[d] = "connecting" => pc'[Reader(d)] = "none"
      BY DEF UnstartedIsUnknown, Unstarted, Reader, Pump
    <2>1. Reader(d) \in Threads /\ Pump(d) \in Threads
      BY ThreadNames
    <2>2. ASSUME pc'[Reader(d)] \in {"none", "add", "adding"}
          PROVE  /\ state'[d] # "closed"
                 /\ pc'[Pump(d)] = "none"
                 /\ \A k \in Keys : peers'[k] # d
                 /\ \A u \in Threads : at'[u] # d /\ d \notin todo'[u]
      <3>1. Unstarted(d)
        BY <1>5, <2>1, <2>2 DEF Unstarted
      <3>2. pc[Pump(d)] = "none" /\ pc'[Pump(d)] = "none"
        BY <1>1, <1>5, <2>1, <3>1 DEF TableInv, UnstartedIsUnknown
      <3>3. \A k \in Keys : peers'[k] # d
        BY <1>4, <1>5, <3>1 DEF TableInv, UnstartedIsUnknown
      <3>4. \A u \in Threads : at'[u] # d /\ d \notin todo'[u]
        BY <1>1, <1>4, <1>5, <3>1 DEF TableInv, UnstartedIsUnknown
      <3>5. state'[d] # "closed"
        BY <1>1, <3>1 DEF TableInv, UnstartedIsUnknown
      <3> QED BY <3>2, <3>3, <3>4, <3>5
    <2>3. state'[d] = "connecting" => pc'[Reader(d)] = "none"
      BY <1>1, <1>5, <2>1 DEF TableInv, UnstartedIsUnknown
    <2> QED BY <2>2, <2>3
  <1>7. ShutIsClosed' /\ FiledByKey' /\ ClosedOnce'
    BY <1>1, <1>5 DEF TableInv, ShutIsClosed, FiledByKey, ClosedOnce
  <1>8. LeavingIsClosed'
    <2> SUFFICES ASSUME NEW u \in Threads, pc'[u] \in {"remove", "removing"}
                 PROVE  state'[at'[u]] = "closed"
      BY DEF LeavingIsClosed
    <2> QED BY <1>1, <1>5 DEF TableInv, LeavingIsClosed
  <1>9. DeadPeersLeave'
    <2> SUFFICES ASSUME NEW k \in Keys, peers'[k] # NoConn, state'[peers'[k]] = "closed"
                 PROVE  \E u \in Threads : at'[u] = peers'[k] /\ pc'[u] \in {"remove", "removing"}
      BY DEF DeadPeersLeave
    <2>1. k # KeyOf[c] /\ peers'[k] = peers[k] /\ state[peers[k]] = "closed"
      BY <1>1, <1>5
    <2>2. PICK u \in Threads : at[u] = peers[k] /\ pc[u] \in {"remove", "removing"}
      BY <2>1 DEF TableInv, DeadPeersLeave
    <2>3. u # t
      BY <2>1, <2>2 DEF TableInv, FiledByKey, c
    <2> QED BY <1>5, <2>1, <2>2, <2>3
  <1>10. LiveIsListed'
    <2> SUFFICES ASSUME NEW d \in Conns, state'[d] = "active", pc'[Pump(d)] # "none"
                 PROVE  \/ peers'[KeyOf[d]] = d
                        \/ \E e \in Conns \ {d} : KeyOf[e] = KeyOf[d] /\ state'[e] # "connecting"
      BY DEF LiveIsListed, Pump
    <2>1. state[d] = "active" /\ d # c
      BY <1>1, <1>3
    <2>2. CASE KeyOf[d] = KeyOf[c]
      BY <1>1, <1>3, <2>1, <2>2
    <2>3. CASE KeyOf[d] # KeyOf[c]
      <3>1. pc[Pump(d)] # "none" /\ KeyOf[d] \in Keys
        <4>1. Pump(d) \in Threads
          BY ThreadNames
        <4> QED BY <1>1, <1>5, <4>1, PeerAssumption
      <3>2. \/ peers[KeyOf[d]] = d
            \/ \E e \in Conns \ {d} : KeyOf[e] = KeyOf[d] /\ state[e] # "connecting"
        BY <2>1, <3>1 DEF TableInv, LiveIsListed
      <3> QED BY <1>1, <1>5, <2>3, <3>1, <3>2
    <2> QED BY <2>2, <2>3
  <1> QED BY <1>6, <1>7, <1>8, <1>9, <1>10 DEF TableInv

\* Every step keeps the table in line with the peers.
LEMMA NextTableInv == TypeInv /\ TableInv /\ [Next]_vars => TableInv'
  <1> SUFFICES ASSUME TypeInv, TableInv, [Next]_vars PROVE TableInv'
    OBVIOUS
  <1>1. CASE UNCHANGED vars
    BY <1>1 DEF TableInv, UnstartedIsUnknown, Unstarted, ShutIsClosed, LeavingIsClosed, FiledByKey,
                ClosedOnce, DeadPeersLeave, LiveIsListed, vars, conns, lock, local, Reader, Pump
  <1>2. CASE Next
    BY <1>2, StepKinds, ConnectTableInv, AddTableInv, UseTableInv, CloseTableInv, RemoveTableInv
  <1> QED BY <1>1, <1>2

(* The reader, the pump and Stop may all close one connection; none is closed
   twice (the check under p.mu in Close). *)
THEOREM NeverClosedTwice == Spec => []ClosedOnce
  <1>1. TableInv => ClosedOnce
    BY DEF TableInv
  <1> QED BY <1>1, InitTypeInv, InitTableInv, NextTypeInv, NextTableInv, PTL DEF Spec

(* A closed peer that is still in the table is about to be removed from it,
   however many connections share its key (addPeer, removePeer). *)
THEOREM ClosedPeersLeave == Spec => []DeadPeersLeave
  <1>1. TableInv => DeadPeersLeave
    BY DEF TableInv
  <1> QED BY <1>1, InitTypeInv, InitTableInv, NextTypeInv, NextTableInv, PTL DEF Spec

(* Only a connection with the same key can take a live one out of the table
   (addPeer overwrites, removePeer deletes by key). *)
THEOREM LivePeersListed == Spec => []LiveIsListed
  <1>1. TableInv => LiveIsListed
    BY DEF TableInv
  <1> QED BY <1>1, InitTypeInv, InitTableInv, NextTypeInv, NextTableInv, PTL DEF Spec
============================================================================
