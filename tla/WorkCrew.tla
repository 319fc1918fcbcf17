------------------------------ MODULE WorkCrew ------------------------------
(***************************************************************************)
(* ThreadManager, ThreadSafeQueue and ThreadWrapper closed with a program  *)
(* that uses all three as they are meant to be: the main thread adds       *)
(* threads to the manager, lets a ThreadWrapper push jobs until the end of *)
(* its scope, starts the threads, may stop some, and calls join_all(). A   *)
(* thread that is_running() looks whether there is a job and then tries to *)
(* take one, again and again, until it is stopped or finds none. Afterwards*)
(* main, which has kept pointers to the threads, joins each and drops it:  *)
(* a thread that dropped itself would end the process.                     *)
(***************************************************************************)
EXTENDS ThreadManager, ThreadSafeQueue

CONSTANTS
  Jobs,      \* what is pushed, in any order
  MaxStarts  \* how often main may start one thread

ASSUME JobsAssumption == "none" \notin Jobs /\ IsFiniteSet(Jobs) /\ IsFiniteSet(Ids)

VARIABLES
  pc,       \* main: add | feed | start | join | done | over
  pushed,   \* jobs pushed, in order
  popped,   \* jobs taken, in order
  starts,   \* how often main called start_thread() for each id
  stopped,  \* ids main called stop_thread() for
  missed,   \* has a notify come between join_all()'s test and its sleep
  looked    \* ids of threads that found the queue not empty, and have not popped yet

vars == <<managerVars, queue_, pc, pushed, popped, starts, stopped, missed, looked>>

Init ==
  /\ ManagerInit /\ QueueInit
  /\ pc = "add" /\ pushed = <<>> /\ popped = <<>>
  /\ starts = [id \in Ids |-> 0] /\ stopped = {} /\ missed = FALSE /\ looked = {}

Add(id) ==
  /\ pc = "add" /\ id \notin threads_
  /\ add_thread(id)
  /\ pc' = IF threads_' = Ids THEN "feed" ELSE pc
  /\ UNCHANGED <<queue_, pushed, popped, starts, stopped, missed, looked>>

\* The function of the ThreadWrapper's thread.
Feed(job) ==
  /\ pc = "feed"
  /\ \A i \in DOMAIN pushed : pushed[i] # job
  /\ push(job)
  /\ pushed' = Append(pushed, job)
  /\ UNCHANGED <<managerVars, pc, popped, starts, stopped, missed, looked>>

Feeding == \E job \in Jobs : \A i \in DOMAIN pushed : pushed[i] # job

\* ~ThreadWrapper() joins the thread.
EndScope ==
  /\ pc = "feed" /\ ~Feeding
  /\ pc' = "start"
  /\ UNCHANGED <<managerVars, queue_, pushed, popped, starts, stopped, missed, looked>>

Start(id) ==
  /\ pc = "start" /\ starts[id] < MaxStarts /\ id \notin stopped
  /\ start_thread(id)
  /\ starts' = [starts EXCEPT ![id] = @ + 1]
  /\ UNCHANGED <<queue_, pc, pushed, popped, stopped, missed, looked>>

Stop(id) ==
  /\ pc = "start" /\ starts[id] > 0
  /\ stop_thread(id)
  /\ stopped' = stopped \cup {id}
  /\ UNCHANGED <<queue_, pc, pushed, popped, starts, missed, looked>>

Join ==
  /\ pc = "start" /\ \A id \in Ids : starts[id] > 0
  /\ pc' = "join"
  /\ UNCHANGED <<managerVars, queue_, pushed, popped, starts, stopped, missed, looked>>

Look(id) ==
  /\ at[id] = "run" /\ is_running(id) /\ id \notin looked /\ ~empty
  /\ looked' = looked \cup {id}
  /\ UNCHANGED <<managerVars, queue_, pc, pushed, popped, starts, stopped, missed>>

\* Another thread may have taken the last job since.
Take(id) ==
  /\ id \in looked
  /\ \E value \in Jobs \cup {"none"} :
       /\ try_pop(value)
       /\ popped' = IF value = "none" THEN popped ELSE Append(popped, value)
  /\ looked' = looked \ {id}
  /\ UNCHANGED <<managerVars, pc, pushed, starts, stopped, missed>>

Leave(id) ==
  /\ at[id] = "run" /\ id \notin looked /\ (~is_running(id) \/ empty)
  /\ Finish(id)
  /\ UNCHANGED <<queue_, pc, pushed, popped, starts, stopped, missed, looked>>

Remove(id) ==
  /\ Erase(id) \/ CountDown(id) \/ Notify(id)
  /\ missed' = (missed \/ (at[id] = "notify" /\ tested))
  /\ UNCHANGED <<queue_, pc, pushed, popped, starts, stopped, looked>>

JoinAll ==
  /\ pc = "join"
  /\ \/ (JoinTest \/ JoinSleep) /\ UNCHANGED pc
     \/ JoinReturn /\ pc' = "done"
  /\ UNCHANGED <<queue_, pushed, popped, starts, stopped, missed, looked>>

\* main joins the threads themselves, one by one; together that is a step.
JoinThreads ==
  /\ pc = "done"
  /\ \A id \in Ids : join(id)
  /\ pc' = "over"
  /\ UNCHANGED <<managerVars, queue_, pushed, popped, starts, stopped, missed, looked>>

Spurious ==
  /\ SpuriousWakeup(Joiner)
  /\ UNCHANGED <<threads_, num_running_, running_, at, tested, queue_, pc, pushed, popped,
                 starts, stopped, missed, looked>>

Next ==
  \/ \E id \in Ids : \/ Add(id) \/ Start(id) \/ Stop(id)
                     \/ Look(id) \/ Take(id) \/ Leave(id) \/ Remove(id)
  \/ \E job \in Jobs : Feed(job)
  \/ EndScope \/ Join \/ JoinAll \/ JoinThreads \/ Spurious

(* Threads run on, and the joiner gets the mutex nobody else takes.        *)
Fairness ==
  /\ WF_vars(JoinAll) /\ WF_vars(JoinThreads)
  /\ \A id \in Ids : WF_vars(Look(id) \/ Take(id) \/ Leave(id)) /\ WF_vars(Remove(id))

Spec == Init /\ [][Next]_vars
FairSpec == Spec /\ Fairness

-----------------------------------------------------------------------------

Counted == {id \in Ids : at[id] \in {"run", "erase", "count"}}
StartedOnce == \A id \in Ids : starts[id] <= 1

(* ThreadManager::start_thread, remove_thread: num_running_ is never less  *)
(* than the number of threads that have not been removed, and is exactly   *)
(* that as long as no thread is started twice: start_thread() counts a     *)
(* thread that runs already once more, and nobody ever takes that back.    *)
CountCoversThreads ==
  /\ num_running_ >= Cardinality(Counted)
  /\ StartedOnce => num_running_ = Cardinality(Counted)

(* ThreadManager::join_all, ThreadSafeQueue, ThreadWrapper: when join_all()*)
(* returns, every thread that was started has been removed, however often  *)
(* and for whatever reason it woke up; and every job has been taken, once  *)
(* and in the order of the pushes, unless every thread that ran had been   *)
(* told to stop or none was found.                                         *)
WorkIsDone ==
  pc \in {"done", "over"} =>
    /\ Counted = {}
    /\ (\E id \in Ids \ stopped : at[id] # "new")
         => Len(pushed) = Cardinality(Jobs) /\ popped = pushed

(* ThreadManager::join_all, BaseThread::join: with every thread started    *)
(* once main gets past both, except when a thread counts down and notifies *)
(* just between join_all()'s test and its sleep, which remove_thread() can,*)
(* because it does not take the mutex.                                     *)
JoinReturnsUnlessMissed == (pc = "join" /\ StartedOnce) ~> (pc = "over" \/ missed)

=============================================================================
