------------------------ MODULE ConnectionPoolProofs ------------------------
(***************************************************************************)
(* What ConnectionPoolClients guarantees for any set of connections and    *)
(* any finite set of threads: its type invariant, that no wakeup is lost,  *)
(* and that the pool is a FIFO queue.                                      *)
(***************************************************************************)
EXTENDS ConnectionPoolClients, FiniteSetTheorems, SequenceTheorems, TLAPS

(* notify_one moves a waiter to the woken threads, or there is no waiter.  *)
LEMMA NotifyCases ==
  ASSUME notify_one
  PROVE  \/ waiting = {} /\ UNCHANGED <<waiting, notified>>
         \/ \E t \in waiting : Wake(t)
  BY DEF notify_one, cvVars

(* The type invariant holds: waiting and woken threads are disjoint sets   *)
(* of threads, and only known connections pass through the pool.           *)
THEOREM TypeCorrect == Spec => []TypeOK
<1>1. Init => TypeOK
  BY DEF Init, PoolInit, CvInit, TypeOK
<1>2. TypeOK /\ [Next]_vars => TypeOK'
  <2> SUFFICES ASSUME TypeOK, [Next]_vars PROVE TypeOK'
    OBVIOUS
  <2> USE DEF TypeOK
  <2>1. ASSUME NEW c \in Connections, Add(c) PROVE TypeOK'
    <3>1. /\ connection_pool_' \in Seq(Connections)
          /\ added' \in Seq(Connections)
          /\ taken' \in Seq(Connections)
      BY <2>1 DEF Add, addConnection
    <3>2. waiting' \subseteq Threads /\ notified' \subseteq Threads
          /\ waiting' \cap notified' = {}
      BY <2>1, NotifyCases, Zenon DEF Add, addConnection, Wake
    <3> QED BY <3>1, <3>2
  <2>2. ASSUME NEW t \in Threads, Get(t) PROVE TypeOK'
    <3>1. CASE connection_pool_ = <<>>
      BY <2>2, <3>1 DEF Get, getConnection, WaitForConnection, TakeConnection,
        Sleep, Proceed
    <3>2. CASE connection_pool_ # <<>>
      <4>1. /\ Head(connection_pool_) \in Connections
            /\ Tail(connection_pool_) \in Seq(Connections)
        BY <3>2, HeadTailProperties
      <4>2. /\ connection_pool_' = Tail(connection_pool_)
            /\ notified' = notified \ {t}
            /\ taken' = Append(taken, Head(connection_pool_))
            /\ UNCHANGED <<waiting, added>>
        BY <2>2, <3>2
        DEF Get, getConnection, WaitForConnection, TakeConnection, Sleep,
          Proceed
      <4>3. taken' \in Seq(Connections)
        BY <4>1, <4>2
      <4> QED BY <4>1, <4>2, <4>3
    <3> QED BY <3>1, <3>2
  <2>3. ASSUME NEW t \in Threads, Spurious(t) PROVE TypeOK'
    BY <2>3 DEF Spurious, SpuriousWakeup, Wake
  <2>4. CASE UNCHANGED vars
    BY <2>4 DEF vars
  <2> QED BY <2>1, <2>2, <2>3, <2>4 DEF Next
<1> QED BY <1>1, <1>2, PTL DEF Spec

(* No wakeup is lost.  NoLostWakeup is inductive beside TypeOK: a          *)
(* connection is added together with a woken thread, and a woken thread    *)
(* leaves `notified` only with a connection or because there is none.      *)
THEOREM WakeupsAreNotLost == Spec => []NoLostWakeup
<1>1. Init => NoLostWakeup
  BY DEF Init, PoolInit, CvInit, NoLostWakeup
<1>2. TypeOK /\ TypeOK' /\ NoLostWakeup /\ [Next]_vars => NoLostWakeup'
  <2> SUFFICES ASSUME TypeOK, TypeOK', NoLostWakeup, [Next]_vars, waiting' # {}
               PROVE  Len(connection_pool_') <= Cardinality(notified')
    BY DEF NoLostWakeup
  <2>1. /\ IsFiniteSet(notified) /\ Cardinality(notified) \in Nat
        /\ IsFiniteSet(notified') /\ Cardinality(notified') \in Nat
    BY ThreadsAssumption, FS_Subset, FS_CardinalityType DEF TypeOK
  <2>2. Len(connection_pool_) \in Nat
    BY DEF TypeOK
  <2>3. ASSUME NEW t \in waiting, Wake(t)
        PROVE  Cardinality(notified') = Cardinality(notified) + 1
    <3>1. t \notin notified
      BY DEF TypeOK
    <3> QED BY <2>1, <2>3, <3>1, FS_AddElement DEF Wake
  <2>4. ASSUME NEW c \in Connections, Add(c)
        PROVE  Len(connection_pool_') <= Cardinality(notified')
    <3>1. PICK t \in waiting : Wake(t)
      BY <2>4, NotifyCases, Zenon DEF Add, addConnection
    <3>2. Len(connection_pool_') = Len(connection_pool_) + 1
      BY <2>4 DEF Add, addConnection, TypeOK
    <3> QED BY <2>1, <2>2, <2>3, <3>1, <3>2 DEF NoLostWakeup
  <2>5. ASSUME NEW t \in Threads, Get(t)
        PROVE  Len(connection_pool_') <= Cardinality(notified')
    <3>1. CASE connection_pool_ = <<>>
      <4>1. connection_pool_' = <<>>
        BY <2>5, <3>1 DEF Get, getConnection, WaitForConnection,
          TakeConnection, Sleep, Proceed
      <4> QED BY <2>1, <4>1
    <3>2. CASE connection_pool_ # <<>>
      <4>1. /\ connection_pool_' = Tail(connection_pool_)
            /\ notified' = notified \ {t}
            /\ UNCHANGED waiting
        BY <2>5, <3>2 DEF Get, getConnection, WaitForConnection,
          TakeConnection, Sleep, Proceed
      <4>2. Len(connection_pool_') = Len(connection_pool_) - 1
        BY <3>2, <4>1, HeadTailProperties DEF TypeOK
      <4>3. Cardinality(notified') >= Cardinality(notified) - 1
        BY <2>1, <4>1, FS_RemoveElement
      <4> QED BY <2>1, <2>2, <4>1, <4>2, <4>3 DEF NoLostWakeup
    <3> QED BY <3>1, <3>2
  <2>6. ASSUME NEW t \in Threads, Spurious(t)
        PROVE  Len(connection_pool_') <= Cardinality(notified')
    <3>1. t \in waiting /\ Wake(t) /\ connection_pool_' = connection_pool_
      BY <2>6 DEF Spurious, SpuriousWakeup
    <3>2. Cardinality(notified') = Cardinality(notified) + 1
      BY <2>3, <3>1
    <3> QED BY <2>1, <2>2, <3>1, <3>2 DEF NoLostWakeup
  <2>7. CASE UNCHANGED vars
    BY <2>7 DEF vars, NoLostWakeup
  <2> QED BY <2>4, <2>5, <2>6, <2>7 DEF Next
<1> QED BY <1>1, <1>2, TypeCorrect, PTL DEF Spec

(* What was added is what was taken, then what is still in the pool.       *)
HistoryInv ==
  /\ Len(added) = Len(taken) + Len(connection_pool_)
  /\ \A i \in 1..Len(taken) : taken[i] = added[i]
  /\ \A i \in 1..Len(connection_pool_) :
       connection_pool_[i] = added[Len(taken) + i]

LEMMA HistoryInvariant == Spec => []HistoryInv
<1>1. Init => HistoryInv
  BY DEF Init, PoolInit, CvInit, HistoryInv
<1>2. TypeOK /\ HistoryInv /\ [Next]_vars => HistoryInv'
  <2> SUFFICES ASSUME TypeOK, HistoryInv, [Next]_vars PROVE HistoryInv'
    OBVIOUS
  <2> USE DEF TypeOK, HistoryInv
  <2>1. ASSUME NEW c \in Connections, Add(c) PROVE HistoryInv'
    <3>1. /\ connection_pool_' = Append(connection_pool_, c)
          /\ added' = Append(added, c)
          /\ taken' = taken
      BY <2>1 DEF Add, addConnection
    <3> QED BY <3>1
  <2>2. ASSUME NEW t \in Threads, Get(t) PROVE HistoryInv'
    <3>1. CASE connection_pool_ = <<>>
      <4>1. UNCHANGED <<connection_pool_, added, taken>>
        BY <2>2, <3>1 DEF Get, getConnection, WaitForConnection,
          TakeConnection, Sleep, Proceed
      <4> QED BY <4>1
    <3>2. CASE connection_pool_ # <<>>
      <4>1. /\ connection_pool_' = Tail(connection_pool_)
            /\ taken' = Append(taken, connection_pool_[1])
            /\ added' = added
        BY <2>2, <3>2 DEF Get, getConnection, WaitForConnection,
          TakeConnection, Sleep, Proceed
      <4>2. Len(connection_pool_) \in Nat \ {0} /\ Len(taken) \in Nat
        BY <3>2, EmptySeq
      <4>3. /\ Len(connection_pool_') = Len(connection_pool_) - 1
            /\ \A i \in 1..Len(connection_pool_') :
                 connection_pool_'[i] = connection_pool_[i + 1]
        BY <3>2, <4>1, HeadTailProperties
      <4>4. /\ Len(taken') = Len(taken) + 1
            /\ \A i \in 1..Len(taken) : taken'[i] = taken[i]
            /\ taken'[Len(taken) + 1] = connection_pool_[1]
        BY <3>2, <4>1, <4>2
      <4>5. Len(added') = Len(taken') + Len(connection_pool_')
        <5>1. Len(added) = Len(taken) + Len(connection_pool_)
          OBVIOUS
        <5> HIDE DEF HistoryInv
        <5>2. Len(taken') + Len(connection_pool_')
                = Len(taken) + Len(connection_pool_)
          BY <4>2, <4>3, <4>4
        <5> QED BY <4>1, <5>1, <5>2
      <4>6. \A i \in 1..Len(taken') : taken'[i] = added'[i]
        <5>1. connection_pool_[1] = added[Len(taken) + 1]
          BY <4>2
        <5>2. \A i \in 1..Len(taken) : taken[i] = added[i]
          OBVIOUS
        <5> HIDE DEF HistoryInv
        <5> QED BY <4>1, <4>2, <4>4, <5>1, <5>2
      <4>7. \A i \in 1..Len(connection_pool_') :
              connection_pool_'[i] = added'[Len(taken') + i]
        BY <4>1, <4>2, <4>3, <4>4
      <4> QED BY <4>5, <4>6, <4>7
    <3> QED BY <3>1, <3>2
  <2>3. ASSUME NEW t \in Threads, Spurious(t) PROVE HistoryInv'
    BY <2>3 DEF Spurious, SpuriousWakeup
  <2>4. CASE UNCHANGED vars
    BY <2>4 DEF vars
  <2> QED BY <2>1, <2>2, <2>3, <2>4 DEF Next
<1> QED BY <1>1, <1>2, TypeCorrect, PTL DEF Spec

(* The pool implements a FIFO queue: threads receive the connections in    *)
(* the order they were added, each one once.                               *)
THEOREM PoolImplementsFifo == Spec => ImplementsFifo
<1>1. Init => Queue!Init
  BY DEF Init, Queue!Init
<1>2. TypeOK /\ HistoryInv /\ [Next]_vars => [Queue!Next]_<<added, taken>>
  <2> SUFFICES ASSUME TypeOK, HistoryInv, [Next]_vars
               PROVE  [Queue!Next]_<<added, taken>>
    OBVIOUS
  <2>1. ASSUME NEW c \in Connections, Add(c) PROVE Queue!Next
    BY <2>1 DEF Add, Queue!Next, Queue!Send
  <2>2. ASSUME NEW t \in Threads, Get(t), connection_pool_ # <<>>
        PROVE  Queue!Next
    <3>1. Len(connection_pool_) \in Nat \ {0} /\ Len(taken) \in Nat
      BY <2>2, EmptySeq DEF TypeOK
    <3>2. Len(taken) < Len(added)
      BY <3>1 DEF HistoryInv
    <3>3. Head(connection_pool_) = added[Len(taken) + 1]
      BY <3>1 DEF HistoryInv, TypeOK
    <3> QED BY <2>2, <3>2, <3>3 DEF Get, Queue!Next, Queue!Receive
  <2>3. ASSUME NEW t \in Threads, Get(t), connection_pool_ = <<>>
        PROVE  UNCHANGED <<added, taken>>
    BY <2>3 DEF Get
  <2>4. ASSUME NEW t \in Threads, Spurious(t)
        PROVE  UNCHANGED <<added, taken>>
    BY <2>4 DEF Spurious
  <2>5. CASE UNCHANGED vars
    BY <2>5 DEF vars
  <2> QED BY <2>1, <2>2, <2>3, <2>4, <2>5 DEF Next
<1> QED BY <1>1, <1>2, TypeCorrect, HistoryInvariant, PTL DEF Spec, ImplementsFifo,
  Queue!Spec

=============================================================================
