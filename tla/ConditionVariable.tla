------------------------- MODULE ConditionVariable -------------------------
(***************************************************************************)
(* std::condition_variable (external), as far as the code uses it: always  *)
(* with one mutex, whose critical sections are single steps.  A thread in  *)
(* wait() has given the mutex up; it is in `waiting` until somebody        *)
(* notifies it (or it wakes for no reason) and in `notified` from then     *)
(* until it has the mutex again and re-reads the condition it waits for.   *)
(***************************************************************************)

VARIABLES
  waiting,   \* threads blocked in wait()
  notified   \* threads woken that have not yet retaken the mutex

cvVars == <<waiting, notified>>

CvInit ==
  /\ waiting = {}
  /\ notified = {}

(* With the mutex held: the condition is false, block in wait() ...        *)
Sleep(t) ==
  /\ waiting' = waiting \cup {t}
  /\ notified' = notified \ {t}

(* ... or it is true, go on. *)
Proceed(t) ==
  /\ notified' = notified \ {t}
  /\ UNCHANGED waiting

Wake(t) ==
  /\ waiting' = waiting \ {t}
  /\ notified' = notified \cup {t}

(* Wakes one waiter, any of them, if there is one. *)
notify_one ==
  IF waiting = {} THEN UNCHANGED cvVars
                  ELSE \E t \in waiting : Wake(t)

notify_all ==
  /\ waiting' = {}
  /\ notified' = notified \cup waiting

(* wait() may return although nobody notified. *)
SpuriousWakeup(t) ==
  /\ t \in waiting
  /\ Wake(t)

=============================================================================
