--------------------------- MODULE MessageConsumer ---------------------------
(***************************************************************************)
(* Consumers and producers around one message queue                        *)
(* (Core/Common/MessageQueue).  A MessageQueue has a mutex and a condition *)
(* variable; each MessageConsumer has another mutex and another condition  *)
(* variable, and a thread that takes messages from the queue and calls a   *)
(* callback.  Messages come in two ways: a MessageProducer publishes them  *)
(* to the queue alone, or somebody pushes them through a consumer.         *)
(*                                                                         *)
(* The mutex of the queue is held for one step.  The mutex of a consumer   *)
(* is held by its thread from the test of the queue to the end of pop(),   *)
(* which may wait.  Any thread may pause, resume or stop a consumer.       *)
(***************************************************************************)
EXTENDS ConditionVariable, Integers, Sequences, FiniteSets

CONSTANTS
  Consumers,  \* the MessageConsumers, whose threads have the same names
  Messages,   \* the messages, each sent once
  Published   \* those of them that a MessageProducer publishes

ASSUME PublishedAssumption == Published \subseteq Messages

VARIABLES
  queue_,      \* MessageQueue: the messages, oldest first
  q_waiting,   \* MessageQueue: consumers blocked in pop()
  q_notified,  \* MessageQueue: consumers woken in pop()
  pc,          \* where each consumer's thread is in run(), or that there is none
  message,     \* run(): the message received, or <<>>
  pauseFlag_,
  stopFlag_,
  pushing,     \* <<c, m>>: a push() of m that has yet to notify c
  sent,        \* history: messages put in the queue, in order
  taken,       \* history: messages taken from it, in order
  late         \* history: messages c took since it was paused, or stopped

(* condition_ of consumer c has one waiter at most, the thread of c: one   *)
(* pair of sets serves all the consumers' condition variables.             *)
Queue == INSTANCE ConditionVariable WITH
           waiting <- q_waiting, notified <- q_notified

queueVars == <<queue_, q_waiting, q_notified>>
flagVars == <<pauseFlag_, stopFlag_>>
vars == <<waiting, notified, queue_, q_waiting, q_notified, pc, message,
          pauseFlag_, stopFlag_, pushing, sent, taken, late>>

NoMessage == <<>>

Init ==
  /\ CvInit
  /\ queue_ = <<>>
  /\ Queue!CvInit
  /\ pc = [c \in Consumers |-> "new"]
  /\ message = [c \in Consumers |-> NoMessage]
  /\ pauseFlag_ = [c \in Consumers |-> FALSE]
  /\ stopFlag_ = [c \in Consumers |-> FALSE]
  /\ pushing = {}
  /\ sent = <<>>
  /\ taken = <<>>
  /\ late = [c \in Consumers |-> [pause |-> 0, stop |-> 0]]

In(m, seq) == \E i \in 1..Len(seq) : seq[i] = m

(* MessageQueue::empty, without the mutex of the queue. *)
empty == queue_ = <<>>

Goto(c, label) == pc' = [pc EXCEPT ![c] = label]

Notify(c) == IF c \in waiting THEN Wake(c) ELSE UNCHANGED cvVars

(* The thread of c holds mutex_ between two steps. *)
Locked(c) == pc[c] \in {"recheck", "pop"}

-----------------------------------------------------------------------------
(* The senders. *)

(* Slip: the newest message goes first. *)
EnqueueFirst(m) ==
  /\ ~In(m, sent)
  /\ queue_' = <<m>> \o queue_
  /\ sent' = Append(sent, m)
  /\ Queue!notify_one

(* MessageQueue::push *)
Enqueue(m) ==
  /\ ~In(m, sent)
  /\ queue_' = Append(queue_, m)
  /\ sent' = Append(sent, m)
  /\ Queue!notify_one

(* MessageProducer::publish *)
Publish(m) ==
  /\ m \in Published
  /\ Enqueue(m)
  /\ UNCHANGED <<cvVars, pc, message, flagVars, pushing, taken, late>>

(* MessageConsumer::push, with mutex_ ... *)
Push(c, m) ==
  /\ m \notin Published
  /\ ~Locked(c)
  /\ Enqueue(m)
  /\ pushing' = pushing \cup {<<c, m>>}
  /\ UNCHANGED <<cvVars, pc, message, flagVars, taken, late>>

(* Slip: push() leaves it to the queue to notify. *)
PushWithoutNotify(c, m) ==
  /\ <<c, m>> \in pushing
  /\ pushing' = pushing \ {<<c, m>>}
  /\ UNCHANGED <<cvVars, queueVars, pc, message, flagVars, sent, taken, late>>

(* ... and without it. *)
NotifyPushed(c, m) ==
  /\ <<c, m>> \in pushing
  /\ pushing' = pushing \ {<<c, m>>}
  /\ Notify(c)
  /\ UNCHANGED <<queueVars, pc, message, flagVars, sent, taken, late>>

-----------------------------------------------------------------------------
(* The callers that control a consumer. *)

(* A thread that runs or has not been joined must not be started again:    *)
(* to assign to its std::thread ends the process. The flags stay as they   *)
(* are: started again after stop(), the thread ends at once.               *)
start(c) ==
  /\ pc[c] = "new"
  /\ Goto(c, "loop")
  /\ late' = [late EXCEPT ![c].pause = 0]
  /\ UNCHANGED <<cvVars, queueVars, message, flagVars, pushing, sent, taken>>

join(c) ==
  /\ pc[c] = "exited"
  /\ Goto(c, "new")
  /\ UNCHANGED <<cvVars, queueVars, message, flagVars, pushing, sent, taken,
                 late>>

pause(c) ==
  /\ ~Locked(c)
  /\ pauseFlag_' = [pauseFlag_ EXCEPT ![c] = TRUE]
  /\ Notify(c)
  /\ UNCHANGED <<queueVars, pc, message, stopFlag_, pushing, sent, taken,
                 late>>

resume(c) ==
  /\ ~Locked(c)
  /\ pauseFlag_' = [pauseFlag_ EXCEPT ![c] = FALSE]
  /\ late' = [late EXCEPT ![c].pause = 0]
  /\ Notify(c)
  /\ UNCHANGED <<queueVars, pc, message, stopFlag_, pushing, sent, taken>>

stop(c) ==
  /\ ~Locked(c)
  /\ stopFlag_' = [stopFlag_ EXCEPT ![c] = TRUE]
  /\ Notify(c)
  /\ UNCHANGED <<queueVars, pc, message, pauseFlag_, pushing, sent, taken,
                 late>>

-----------------------------------------------------------------------------
(* The thread of consumer c: run(). *)

(* Slip: the flag is read before the first turn only. *)
TestNothing(c) ==
  /\ pc[c] = "loop"
  /\ Goto(c, "wait")
  /\ message' = [message EXCEPT ![c] = NoMessage]
  /\ UNCHANGED <<cvVars, queueVars, flagVars, pushing, sent, taken, late>>

(* while (!stopFlag_), without the mutex. *)
TestStopFlag(c) ==
  /\ pc[c] = "loop"
  /\ Goto(c, IF stopFlag_[c] THEN "exited" ELSE "wait")
  /\ message' = [message EXCEPT ![c] = NoMessage]
  /\ UNCHANGED <<cvVars, queueVars, flagVars, pushing, sent, taken, late>>

(* condition_.wait for !queue_.empty(): stopFlag_ is not in the condition. *)
WaitForMessage(c) ==
  /\ pc[c] = "wait"
  /\ c \notin waiting
  /\ IF empty
       THEN Sleep(c) /\ UNCHANGED pc
       ELSE Proceed(c) /\ Goto(c, "recheck")
  /\ UNCHANGED <<queueVars, message, flagVars, pushing, sent, taken, late>>

(* empty() once more: another consumer may have been faster. *)
RecheckQueue(c) ==
  /\ pc[c] = "recheck"
  /\ Goto(c, IF empty THEN "pause" ELSE "pop")
  /\ UNCHANGED <<cvVars, queueVars, message, flagVars, pushing, sent, taken,
                 late>>

WaitInPop(c) ==
  /\ queue_ = <<>>
  /\ Queue!Sleep(c)
  /\ UNCHANGED <<queue_, pc, message, taken, late>>

TakeMessage(c) ==
  /\ queue_ # <<>>
  /\ Queue!Proceed(c)
  /\ queue_' = Tail(queue_)
  /\ message' = [message EXCEPT ![c] = Head(queue_)]
  /\ taken' = Append(taken, Head(queue_))
  /\ late' = [late EXCEPT
                ![c].pause = IF pauseFlag_[c] THEN @ + 1 ELSE @,
                ![c].stop = IF stopFlag_[c] THEN @ + 1 ELSE @]
  /\ Goto(c, "process")

(* MessageQueue::pop, with mutex_ held; then mutex_ is given up. *)
Pop(c) ==
  /\ pc[c] = "pop"
  /\ c \notin q_waiting
  /\ WaitInPop(c) \/ TakeMessage(c)
  /\ UNCHANGED <<cvVars, flagVars, pushing, sent>>

(* The callback; when it returns false the thread ends. *)
ProcessMessage(c) ==
  /\ pc[c] = "process"
  /\ Goto(c, "pause") \/ Goto(c, "exited")
  /\ UNCHANGED <<cvVars, queueVars, message, flagVars, pushing, sent, taken,
                 late>>

(* Slip: `if` for `while`, the flag is not read again after a wake-up. *)
PauseOnce(c) ==
  /\ pc[c] = "pause"
  /\ c \notin waiting
  /\ IF pauseFlag_[c] /\ c \notin notified
       THEN Sleep(c) /\ UNCHANGED pc
       ELSE Proceed(c) /\ Goto(c, "loop")
  /\ UNCHANGED <<queueVars, message, flagVars, pushing, sent, taken, late>>

(* while (pauseFlag_) condition_.wait *)
WaitWhilePaused(c) ==
  /\ pc[c] = "pause"
  /\ c \notin waiting
  /\ IF pauseFlag_[c]
       THEN Sleep(c) /\ UNCHANGED pc
       ELSE Proceed(c) /\ Goto(c, "loop")
  /\ UNCHANGED <<queueVars, message, flagVars, pushing, sent, taken, late>>

run(c) ==
  \/ TestStopFlag(c) \/ WaitForMessage(c) \/ RecheckQueue(c)
  \/ Pop(c) \/ ProcessMessage(c) \/ WaitWhilePaused(c)

(* A wait of c returns for no reason. *)
Spurious(c) ==
  \/ /\ SpuriousWakeup(c)
     /\ UNCHANGED <<queueVars, pc, message, flagVars, pushing, sent, taken,
                    late>>
  \/ /\ Queue!SpuriousWakeup(c)
     /\ UNCHANGED <<cvVars, queue_, pc, message, flagVars, pushing, sent,
                    taken, late>>

-----------------------------------------------------------------------------

Next ==
  \/ \E m \in Messages : Publish(m)
  \/ \E c \in Consumers, m \in Messages : Push(c, m) \/ NotifyPushed(c, m)
  \/ \E c \in Consumers : start(c) \/ join(c) \/ pause(c) \/ resume(c) \/ stop(c)
  \/ \E c \in Consumers : run(c) \/ Spurious(c)

(* Threads keep being scheduled; nobody is obliged to send or to control.  *)
Fairness ==
  /\ \A c \in Consumers : WF_vars(run(c))
  /\ \A c \in Consumers, m \in Messages : WF_vars(NotifyPushed(c, m))

Spec == Init /\ [][Next]_vars
FairSpec == Spec /\ Fairness

-----------------------------------------------------------------------------

(* However many consumers share the queue, and whichever way a message was *)
(* sent, messages are taken in the order they were queued, each once.      *)
Fifo == INSTANCE FifoQueue WITH received <- taken
ImplementsFifo == Fifo!Spec

(* pause() and stop() take effect, though not at once: a consumer that is  *)
(* past its test takes one message more, and no second one before resume() *)
(* or another start(); after stop() not even then.                         *)
ControlIsPrompt ==
  \A c \in Consumers : late[c].pause <= 1 /\ late[c].stop <= 1

(* A message pushed through a consumer that is not left paused is taken,   *)
(* unless that consumer's thread has ended: no wake-up is lost, although   *)
(* push() notifies after it has given the mutex up and the consumer sleeps *)
(* in two different loops.                                                 *)
PushedAreTaken ==
  \A c \in Consumers :
    <>[](~pauseFlag_[c]) =>
      \A m \in Messages :
        <<c, m>> \in pushing ~>
          (pc[c] \in {"exited", "new"} \/ In(m, taken))

(* A consumer asked to stop ends once a message is pushed through it, for  *)
(* the message wakes its thread wherever it sleeps, unless another one     *)
(* takes the message.  Without such a message the thread may sleep for     *)
(* good: stopFlag_ is not in the condition it waits for, and a message     *)
(* that a producer publishes does not wake it.                             *)
StoppedEnds ==
  \A c \in Consumers :
    <>[](~pauseFlag_[c]) =>
      \A m \in Messages :
        (stopFlag_[c] /\ <<c, m>> \in pushing /\ In(m, queue_))
          ~> (pc[c] \in {"exited", "new"} \/ \E d \in Consumers \ {c} : message[d] = m)

=============================================================================
