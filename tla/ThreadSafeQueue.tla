-------------------------- MODULE ThreadSafeQueue --------------------------
(***************************************************************************)
(* ThreadSafeQueue<T>: a queue under a mutex, every operation one critical *)
(* section. Nobody waits on its condition variable, so push()'s notify,    *)
(* which comes after the unlock, changes nothing.                          *)
(***************************************************************************)
EXTENDS Integers, Sequences

VARIABLE queue_

QueueInit == queue_ = <<>>

push(value) == queue_' = Append(queue_, value)

empty == queue_ = <<>>

(* Slip: the queue is popped without a test. front() of an empty one is    *)
(* undefined, and can be anything.                                         *)
PopUntested(value) ==
  /\ ~empty => value = Head(queue_)
  /\ queue_' = IF empty THEN queue_ ELSE Tail(queue_)

(* "none" stands for the result false.                                     *)
try_pop(value) ==
  /\ value = IF empty THEN "none" ELSE Head(queue_)
  /\ queue_' = IF empty THEN queue_ ELSE Tail(queue_)

=============================================================================
