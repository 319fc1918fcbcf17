----------------------------- MODULE ThreadPool -----------------------------
(***************************************************************************)
(* The fixed-size pool of worker threads (Core/ThreadPool/ThreadPool.hpp): *)
(* a bounded queue of tasks under one mutex, and one condition variable    *)
(* for both kinds of waiters, workers that find the queue empty and        *)
(* callers that find it full.                                              *)
(*                                                                         *)
(* Every task is handed in by a thread of its own, named like the task;    *)
(* one more thread owns the pool and shuts it down, by stop() and then the *)
(* destructor, or by the destructor alone.  The body of a task is one step *)
(* and does not use the pool.                                              *)
(***************************************************************************)
EXTENDS ConditionVariable, Integers, Sequences, FiniteSets

CONSTANTS
  Workers,        \* the threads of m_threads
  Tasks,          \* the tasks, and the threads that call enqueue() with them
  ThrowingTasks,  \* the tasks whose body throws
  Capacity,       \* the code's 100
  NoTask          \* what a worker has before its first task

ASSUME WorkersAssumption == IsFiniteSet(Workers) /\ Workers # {}
ASSUME TasksAssumption == IsFiniteSet(Tasks) /\ Workers \cap Tasks = {}
ASSUME ThrowingAssumption == ThrowingTasks \subseteq Tasks
ASSUME CapacityAssumption == Capacity \in Nat \ {0}
ASSUME NoTaskAssumption == NoTask \notin Tasks

VARIABLES
  m_tasks,   \* the queue, oldest first
  m_stop,
  worker,    \* what each worker is at: "waits", "runs", "exited"
  task,      \* worker(): the task each worker took last
  caller,    \* what each calling thread is at
  closing,   \* the function the owner called last to end the pool, or "none"
  owner,     \* where the owner is in it: "outside", "flagged", "joining"
  joined,    \* m_threads have been joined
  process,   \* "running", or "aborted" by std::terminate
  enqueued,  \* history: tasks put in the queue, in order
  started,   \* history: tasks taken from it, in order
  finished   \* history: tasks whose body has run

ownerVars == <<closing, owner, joined>>
vars == <<waiting, notified, m_tasks, m_stop, worker, task, caller, closing,
          owner, joined, process, enqueued, started, finished>>

Init ==
  /\ CvInit
  /\ m_tasks = <<>>
  /\ m_stop = FALSE
  /\ worker = [w \in Workers |-> "waits"]
  /\ task = [w \in Workers |-> NoTask]
  /\ caller = [t \in Tasks |-> "idle"]
  /\ closing = "none"
  /\ owner = "outside"
  /\ joined = FALSE
  /\ process = "running"
  /\ enqueued = <<>>
  /\ started = <<>>
  /\ finished = {}

-----------------------------------------------------------------------------
(* worker(): with the mutex held, for the first time or after a wake-up.   *)

WaitForTask(w) ==
  /\ ~m_stop /\ m_tasks = <<>>
  /\ Sleep(w)
  /\ UNCHANGED <<m_tasks, worker, task, started>>

(* Slip: a stopped pool drops what is still queued. *)
ExitWithTasksLeft(w) ==
  /\ m_stop
  /\ Proceed(w)
  /\ worker' = [worker EXCEPT ![w] = "exited"]
  /\ UNCHANGED <<m_tasks, task, started>>

(* Slip: a worker woken by stop() does not test that there is a task. *)
RunNothing(w) ==
  /\ m_stop /\ m_tasks = <<>>
  /\ Proceed(w)
  /\ worker' = [worker EXCEPT ![w] = "runs"]
  /\ UNCHANGED <<m_tasks, task, started>>

Exit(w) ==
  /\ m_stop /\ m_tasks = <<>>
  /\ Proceed(w)
  /\ worker' = [worker EXCEPT ![w] = "exited"]
  /\ UNCHANGED <<m_tasks, task, started>>

(* front() and pop().  Nobody is notified that there is space now. *)
PopTask(w) ==
  /\ m_tasks # <<>>
  /\ Proceed(w)
  /\ m_tasks' = Tail(m_tasks)
  /\ task' = [task EXCEPT ![w] = Head(m_tasks)]
  /\ started' = Append(started, Head(m_tasks))
  /\ worker' = [worker EXCEPT ![w] = "runs"]

TakeTask(w) ==
  /\ worker[w] = "waits"
  /\ w \notin waiting
  /\ WaitForTask(w) \/ Exit(w) \/ PopTask(w)
  /\ UNCHANGED <<m_stop, caller, ownerVars, process, enqueued, finished>>

(* task(), without the mutex.  An exception leaves the thread function. *)
RunTask(w) ==
  /\ worker[w] = "runs"
  /\ IF task[w] \in ThrowingTasks
       THEN process' = "aborted" /\ UNCHANGED <<worker, finished>>
       ELSE /\ worker' = [worker EXCEPT ![w] = "waits"]
            /\ finished' = finished \cup {task[w]}
            /\ UNCHANGED process
  /\ UNCHANGED <<cvVars, m_tasks, m_stop, task, caller, ownerVars, enqueued,
                 started>>

-----------------------------------------------------------------------------
(* enqueue(), by the thread that has task t. *)

CallerGoto(t, label) == caller' = [caller EXCEPT ![t] = label]

Call(t) ==
  /\ caller[t] = "idle"
  /\ closing # "destructor"
  /\ CallerGoto(t, "enqueue")
  /\ UNCHANGED <<cvVars, m_tasks, m_stop, worker, task, ownerVars, process,
                 enqueued, started, finished>>

HasSpace == Len(m_tasks) < Capacity

WaitForSpace(t) ==
  /\ ~m_stop /\ ~HasSpace
  /\ Sleep(t)
  /\ UNCHANGED <<m_tasks, caller, enqueued>>

(* throw std::runtime_error("Thread pool has stopped") *)
Refuse(t) ==
  /\ m_stop
  /\ Proceed(t)
  /\ CallerGoto(t, "refused")
  /\ UNCHANGED <<m_tasks, enqueued>>

(* Slip: the condition is not read again after a wake-up. *)
PushUnchecked(t) ==
  /\ ~m_stop /\ (HasSpace \/ t \in notified)
  /\ Proceed(t)
  /\ m_tasks' = Append(m_tasks, t)
  /\ enqueued' = Append(enqueued, t)
  /\ CallerGoto(t, "notify")

(* Slip: the task goes to the front. *)
PushFront(t) ==
  /\ ~m_stop /\ HasSpace
  /\ Proceed(t)
  /\ m_tasks' = <<t>> \o m_tasks
  /\ enqueued' = Append(enqueued, t)
  /\ CallerGoto(t, "notify")

Push(t) ==
  /\ ~m_stop /\ HasSpace
  /\ Proceed(t)
  /\ m_tasks' = Append(m_tasks, t)
  /\ enqueued' = Append(enqueued, t)
  /\ CallerGoto(t, "notify")

Enqueue(t) ==
  /\ caller[t] = "enqueue"
  /\ t \notin waiting
  /\ WaitForSpace(t) \/ Refuse(t) \/ Push(t)
  /\ UNCHANGED <<m_stop, worker, task, ownerVars, process, started, finished>>

(* Slip: notify_one() only for the first task in the queue. *)
NotifyFirstOnly(t) ==
  /\ caller[t] = "notify"
  /\ IF Len(m_tasks) = 1 THEN notify_one ELSE UNCHANGED cvVars
  /\ CallerGoto(t, "accepted")
  /\ UNCHANGED <<m_tasks, m_stop, worker, task, ownerVars, process, enqueued,
                 started, finished>>

(* m_tasks_cv.notify_one(), after the mutex was given up. *)
Notify(t) ==
  /\ caller[t] = "notify"
  /\ notify_one
  /\ CallerGoto(t, "accepted")
  /\ UNCHANGED <<m_tasks, m_stop, worker, task, ownerVars, process, enqueued,
                 started, finished>>

-----------------------------------------------------------------------------
(* stop() and ~ThreadPool(), which have the same text.  The pool is not    *)
(* destroyed under a thread that is inside enqueue().                      *)

SetStop(function) ==
  /\ owner = "outside"
  /\ CASE function = "stop" -> closing = "none"
       [] function = "destructor" ->
            /\ closing # "destructor"
            /\ \A t \in Tasks : caller[t] \notin {"enqueue", "notify"}
  /\ closing' = function
  /\ m_stop' = TRUE
  /\ owner' = "flagged"
  /\ UNCHANGED <<cvVars, m_tasks, worker, task, caller, joined, process,
                 enqueued, started, finished>>

(* Slip: notify_one() for notify_all(). *)
NotifyStopToOne ==
  /\ owner = "flagged"
  /\ notify_one
  /\ owner' = "joining"
  /\ UNCHANGED <<m_tasks, m_stop, worker, task, caller, closing, joined,
                 process, enqueued, started, finished>>

NotifyStop ==
  /\ owner = "flagged"
  /\ notify_all
  /\ owner' = "joining"
  /\ UNCHANGED <<m_tasks, m_stop, worker, task, caller, closing, joined,
                 process, enqueued, started, finished>>

(* thread.join() for every worker.  A thread can be joined once: the       *)
(* second time join() throws, in a destructor, which is noexcept.          *)
JoinWorkers ==
  /\ owner = "joining"
  /\ \A w \in Workers : worker[w] = "exited"
  /\ IF joined
       THEN process' = "aborted" /\ UNCHANGED <<joined, owner>>
       ELSE joined' = TRUE /\ owner' = "outside" /\ UNCHANGED process
  /\ UNCHANGED <<cvVars, m_tasks, m_stop, worker, task, caller, closing,
                 enqueued, started, finished>>

-----------------------------------------------------------------------------

Worker(w) == TakeTask(w) \/ RunTask(w)
Caller(t) == Enqueue(t) \/ Notify(t)
ShutDown == NotifyStop \/ JoinWorkers

Spurious(t) ==
  /\ SpuriousWakeup(t)
  /\ UNCHANGED <<m_tasks, m_stop, worker, task, caller, ownerVars, process,
                 enqueued, started, finished>>

Terminated ==
  /\ process = "aborted" \/ (closing = "destructor" /\ owner = "outside")
  /\ UNCHANGED vars

Next ==
  \/ /\ process = "running"
     /\ \/ \E w \in Workers : Worker(w)
        \/ \E t \in Tasks : Call(t) \/ Caller(t)
        \/ \E f \in {"stop", "destructor"} : SetStop(f)
        \/ ShutDown
        \/ \E t \in Workers \cup Tasks : Spurious(t)
  \/ Terminated

(* Every thread keeps being scheduled while it is in the pool's code.      *)
(* Nobody is obliged to call enqueue(), or to shut the pool down.          *)
Alive(A) == process = "running" /\ A

Fairness ==
  /\ \A w \in Workers : WF_vars(Alive(Worker(w)))
  /\ \A t \in Tasks : WF_vars(Alive(Caller(t)))
  /\ WF_vars(Alive(ShutDown))

Spec == Init /\ [][Next]_vars
FairSpec == Spec /\ Fairness

-----------------------------------------------------------------------------

TypeOK ==
  /\ m_tasks \in Seq(Tasks)
  /\ m_stop \in BOOLEAN
  /\ waiting \subseteq Workers \cup Tasks
  /\ notified \subseteq Workers \cup Tasks
  /\ waiting \cap notified = {}
  /\ worker \in [Workers -> {"waits", "runs", "exited"}]
  /\ task \in [Workers -> Tasks \cup {NoTask}]
  /\ caller \in [Tasks -> {"idle", "enqueue", "notify", "accepted",
                           "refused"}]
  /\ closing \in {"none", "stop", "destructor"}
  /\ owner \in {"outside", "flagged", "joining"}
  /\ joined \in BOOLEAN
  /\ process \in {"running", "aborted"}
  /\ enqueued \in Seq(Tasks)
  /\ started \in Seq(Tasks)
  /\ finished \subseteq Tasks

(* However callers and workers interleave, and whoever a notification      *)
(* meant for somebody else wakes, the queue never outgrows its limit.      *)
QueueBounded == Len(m_tasks) <= Capacity

(* The pool starts tasks in the order in which enqueue() accepted them,    *)
(* each once.                                                              *)
Queue == INSTANCE FifoQueue WITH Messages <- Tasks,
                                 sent <- enqueued, received <- started
ImplementsFifo == Queue!Spec

(* When stop() or the destructor has joined the workers, every task that   *)
(* enqueue() accepted has run: what was queued when the flag was set is    *)
(* not dropped, and nothing gets in afterwards.                            *)
JoinedMeansDone ==
  joined => m_tasks = <<>> /\ {enqueued[i] : i \in 1..Len(enqueued)} = finished

(* stop() and the destructor come to an end: every worker, asleep or on    *)
(* its way to sleep when the flag is set, learns of it.                    *)
ShutdownCompletes ==
  owner # "outside" ~> (owner = "outside" \/ process = "aborted")

(* A task that enqueue() accepted is run, shut-down or not, although the   *)
(* worker is notified after the mutex was given up: unless callers have to *)
(* wait for space, for they share the condition variable and may get the   *)
(* notification.                                                           *)
AcceptedTasksRun ==
  [](waiting \cap Tasks = {}) =>
    \A t \in Tasks :
      caller[t] = "accepted" ~> (t \in finished \/ process = "aborted")

(* "Wait until there's space in the queue": a caller that waits gets its   *)
(* space, or is told that the pool has stopped.                            *)
CallersGetSpace ==
  \A t \in Tasks :
    caller[t] = "enqueue" ~>
      (caller[t] \in {"notify", "accepted", "refused"} \/ process = "aborted")

=============================================================================
