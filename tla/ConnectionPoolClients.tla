----------------------- MODULE ConnectionPoolClients -----------------------
(***************************************************************************)
(* ConnectionPool closed with the most general callers: any thread calls   *)
(* getConnection() at any time, and every connection is added once.  Two   *)
(* history variables record what went in and what came out.                *)
(***************************************************************************)
EXTENDS ConnectionPool

CONSTANTS
  Connections,  \* connections a caller may add
  Threads       \* threads that call getConnection()

ASSUME ThreadsAssumption == IsFiniteSet(Threads)

VARIABLES
  added,  \* connections passed to addConnection(), in lock order
  taken   \* connections returned by getConnection(), in lock order

vars == <<connection_pool_, waiting, notified, added, taken>>

Init ==
  /\ PoolInit
  /\ added = <<>>
  /\ taken = <<>>

Add(c) ==
  /\ \A i \in 1..Len(added) : added[i] # c
  /\ addConnection(c)
  /\ added' = Append(added, c)
  /\ UNCHANGED taken

Get(t) ==
  /\ getConnection(t)
  /\ taken' = IF connection_pool_ = <<>>
                THEN taken
                ELSE Append(taken, Head(connection_pool_))
  /\ UNCHANGED added

Spurious(t) ==
  /\ SpuriousWakeup(t)
  /\ UNCHANGED <<connection_pool_, added, taken>>

Next ==
  \/ \E c \in Connections : Add(c)
  \/ \E t \in Threads : Get(t) \/ Spurious(t)

(* A woken thread eventually gets the mutex: it is held only for the few   *)
(* instructions of one operation.  Nobody is obliged to call.              *)
Fairness == \A t \in Threads : WF_vars(t \in notified /\ Get(t))

Spec == Init /\ [][Next]_vars
FairSpec == Spec /\ Fairness

-----------------------------------------------------------------------------

TypeOK ==
  /\ connection_pool_ \in Seq(Connections)
  /\ waiting \subseteq Threads
  /\ notified \subseteq Threads
  /\ waiting \cap notified = {}
  /\ added \in Seq(Connections)
  /\ taken \in Seq(Connections)

(* The pool is a FIFO queue, whichever thread serves a connection.  This   *)
(* is what "every accepted connection is served, oldest first" rests on.   *)
Queue == INSTANCE FifoQueue WITH Messages <- Connections,
                                 sent <- added, received <- taken
ImplementsFifo == Queue!Spec

(* A connection does not stay in the pool beside a sleeping thread: either *)
(* the pool runs empty or nobody is left asleep.                           *)
SleepersAreServed ==
  (connection_pool_ # <<>> /\ waiting # {})
    ~> (connection_pool_ = <<>> \/ waiting = {})

=============================================================================
