--------------------------- MODULE ThreadManager ---------------------------
(***************************************************************************)
(* ThreadManager and BaseThread: a map of threads, a count of those that   *)
(* run, and join_all(), which waits for the count to be zero. A thread     *)
(* that finishes calls remove_thread() through its delegate. Only          *)
(* join_all() takes the mutex: the map is used without it, and the count   *)
(* can change between join_all()'s test of it and its sleep.               *)
(***************************************************************************)
EXTENDS ConditionVariable, Integers, FiniteSets

CONSTANTS
  Ids,     \* threadId_ of the threads
  Joiner   \* the thread that calls join_all()

VARIABLES
  threads_,      \* the ids in the map
  num_running_,  \* the atomic counter
  running_,      \* BaseThread::running_ of each thread
  at,            \* where each thread is: new | run | erase | count | notify | ended
  tested         \* has the joiner found the count above zero, and not slept yet

managerVars == <<threads_, num_running_, running_, at, tested, waiting, notified>>

ManagerInit ==
  /\ threads_ = {} /\ num_running_ = 0 /\ tested = FALSE
  /\ running_ = [id \in Ids |-> FALSE]
  /\ at = [id \in Ids |-> "new"]
  /\ CvInit

add_thread(id) ==
  /\ threads_' = threads_ \cup {id}
  /\ UNCHANGED <<num_running_, running_, at, tested, waiting, notified>>

\* find() in the map, which is a data race with an erase() in another thread:
\* then it can miss the id.
Finds(id, found) ==
  \/ found = (id \in threads_)
  \/ found = FALSE /\ \E t \in Ids \ {id} : at[t] = "erase"

\* BaseThread::start(), stop() and is_running(). running_ stays true when the
\* thread ends by itself. To start a stopped thread again would end the process,
\* because its std::thread is still joinable.
start(id) ==
  /\ running_' = [running_ EXCEPT ![id] = TRUE]
  /\ at' = IF running_[id] THEN at ELSE [at EXCEPT ![id] = "run"]
stop(id) == running_' = [running_ EXCEPT ![id] = FALSE]
is_running(id) == running_[id]

\* BaseThread::join() returns when the thread has ended, at once when it was
\* never started.
join(id) ==
  /\ at[id] \in {"new", "ended"}
  /\ UNCHANGED managerVars

\* start_thread() counts before start() looks whether the thread runs already.
start_thread(id) ==
  /\ \E found \in BOOLEAN :
       /\ Finds(id, found)
       /\ IF found THEN num_running_' = num_running_ + 1 /\ start(id)
                   ELSE UNCHANGED <<num_running_, running_, at>>
  /\ UNCHANGED <<threads_, tested, waiting, notified>>

stop_thread(id) ==
  /\ \E found \in BOOLEAN :
       /\ Finds(id, found)
       /\ IF found THEN stop(id) ELSE UNCHANGED running_
  /\ UNCHANGED <<threads_, num_running_, at, tested, waiting, notified>>

(* The last thing a thread's run() does is to call its delegate, which is  *)
(* remove_thread(id): erase, count down and notify, each on its own. Two   *)
(* erasures that overlap can leave an entry in the map.                    *)
Finish(id) ==
  /\ at[id] = "run"
  /\ at' = [at EXCEPT ![id] = "erase"]
  /\ UNCHANGED <<threads_, num_running_, running_, tested, waiting, notified>>

(* Slip: the count goes down when run() returns, not when it is removed.   *)
EraseAndCount(id) ==
  /\ at[id] = "erase"
  /\ threads_' = threads_ \ {id}
  /\ num_running_' = num_running_ - 1
  /\ at' = [at EXCEPT ![id] = "count"]
  /\ UNCHANGED <<running_, tested, waiting, notified>>

Erase(id) ==
  /\ at[id] = "erase"
  /\ \/ threads_' = threads_ \ {id}
     \/ UNCHANGED threads_ /\ \E t \in Ids \ {id} : at[t] = "erase"
  /\ at' = [at EXCEPT ![id] = "count"]
  /\ UNCHANGED <<num_running_, running_, tested, waiting, notified>>

(* Slip: nobody is told of the new count.                                  *)
CountSilently(id) ==
  /\ at[id] = "count"
  /\ num_running_' = num_running_ - 1
  /\ at' = [at EXCEPT ![id] = "ended"]
  /\ UNCHANGED <<threads_, running_, tested, waiting, notified>>

CountDown(id) ==
  /\ at[id] = "count"
  /\ num_running_' = num_running_ - 1
  /\ at' = [at EXCEPT ![id] = "notify"]
  /\ UNCHANGED <<threads_, running_, tested, waiting, notified>>

Notify(id) ==
  /\ at[id] = "notify"
  /\ notify_one
  /\ at' = [at EXCEPT ![id] = "ended"]
  /\ UNCHANGED <<threads_, num_running_, running_, tested>>

(* join_all(): the wait tests the count with the mutex held and then       *)
(* sleeps; the mutex keeps nobody from counting down in between.           *)
JoinTest ==
  /\ Joiner \notin waiting /\ ~tested
  /\ num_running_ # 0
  /\ tested' = TRUE
  /\ UNCHANGED <<threads_, num_running_, running_, at, waiting, notified>>

JoinSleep ==
  /\ tested
  /\ Sleep(Joiner)
  /\ tested' = FALSE
  /\ UNCHANGED <<threads_, num_running_, running_, at>>

(* Slip: a wake-up is taken for the end of the last thread.                *)
ReturnWhenWoken ==
  /\ Joiner \notin waiting /\ ~tested
  /\ Joiner \in notified \/ num_running_ = 0
  /\ Proceed(Joiner)
  /\ UNCHANGED <<threads_, num_running_, running_, at, tested>>

JoinReturn ==
  /\ Joiner \notin waiting /\ ~tested
  /\ num_running_ = 0
  /\ Proceed(Joiner)
  /\ UNCHANGED <<threads_, num_running_, running_, at, tested>>

=============================================================================
