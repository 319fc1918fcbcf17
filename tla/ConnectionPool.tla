--------------------------- MODULE ConnectionPool ---------------------------
(***************************************************************************)
(* The pool that hands accepted connections from the service thread to     *)
(* the tasks that serve them (Networking/ConnectionPool.cpp): a deque      *)
(* under one mutex and one condition variable.  Both operations hold       *)
(* mutex_ from their first line to their last, or until they wait.         *)
(*                                                                         *)
(* The module only declares state and operations.  ConnectionPoolClients   *)
(* closes it with arbitrary callers, HttpService with the real ones.       *)
(***************************************************************************)
EXTENDS ConditionVariable, Integers, Sequences, FiniteSets

VARIABLE connection_pool_  \* the deque, oldest connection first

poolVars == <<connection_pool_, waiting, notified>>

PoolInit ==
  /\ connection_pool_ = <<>>
  /\ CvInit

(* Slip: notify only when the deque was empty before. *)
AddNotifyingFirstOnly(c) ==
  /\ connection_pool_' = Append(connection_pool_, c)
  /\ IF connection_pool_ = <<>> THEN notify_one ELSE UNCHANGED cvVars

(* Slip: push_front for push_back. *)
AddToFront(c) ==
  /\ connection_pool_' = <<c>> \o connection_pool_
  /\ notify_one

(* Slip: the pointer has been moved from when it is pushed. *)
AddMovedFrom(c) ==
  /\ connection_pool_' = Append(connection_pool_, "null")
  /\ notify_one

addConnection(c) ==
  /\ connection_pool_' = Append(connection_pool_, c)
  /\ notify_one

WaitForConnection(t) ==
  /\ connection_pool_ = <<>>
  /\ Sleep(t)
  /\ UNCHANGED connection_pool_

(* Slip: front() without pop_front(). *)
PeekConnection(t) ==
  /\ connection_pool_ # <<>>
  /\ Proceed(t)
  /\ UNCHANGED connection_pool_

TakeConnection(t) ==
  /\ connection_pool_ # <<>>
  /\ connection_pool_' = Tail(connection_pool_)
  /\ Proceed(t)

(* One pass of thread t through getConnection() with the mutex held: its   *)
(* first pass, or the pass after it was woken.  On TakeConnection the call *)
(* returns Head(connection_pool_).                                         *)
getConnection(t) ==
  /\ t \notin waiting
  /\ WaitForConnection(t) \/ TakeConnection(t)

(* No lost wakeup: while somebody sleeps on the condition variable, every  *)
(* connection in the deque has a woken thread on its way to fetch it.  A   *)
(* notify that is skipped, or sent before the connection is in the deque,  *)
(* leaves a connection nobody comes for.                                   *)
NoLostWakeup ==
  waiting # {} => Len(connection_pool_) <= Cardinality(notified)

=============================================================================
