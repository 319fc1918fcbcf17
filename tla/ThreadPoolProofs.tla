-------------------------- MODULE ThreadPoolProofs --------------------------
(***************************************************************************)
(* What ThreadPool guarantees for any finite, nonempty set of workers, any *)
(* set of tasks, throwing or not, and any capacity: its type invariant,    *)
(* the bound on its queue, and that nothing accepted is lost when it is    *)
(* shut down.                                                              *)
(***************************************************************************)
EXTENDS ThreadPool, SequenceTheorems, TLAPS

(* Moving the head of the second part to the end of the first part leaves  *)
(* the whole as it was, and it is the element of the whole that follows    *)
(* the first part.                                                         *)
LEMMA ConcatMove ==
  ASSUME NEW S, NEW a \in Seq(S), NEW b \in Seq(S), b # <<>>
  PROVE  /\ Append(a, Head(b)) \o Tail(b) = a \o b
         /\ Len(a) < Len(a \o b) /\ (a \o b)[Len(a) + 1] = Head(b)
<1>1. /\ Head(b) \in S /\ Tail(b) \in Seq(S) /\ <<Head(b)>> \in Seq(S)
      /\ Head(b) = b[1] /\ Len(a) \in Nat /\ Len(b) \in Nat \ {0}
  BY HeadTailProperties, EmptySeq
<1>2. b = <<Head(b)>> \o Tail(b)
  <2>1. /\ Len(<<Head(b)>> \o Tail(b)) = Len(b)
        /\ \A i \in 1..Len(b) : (<<Head(b)>> \o Tail(b))[i] = b[i]
    BY <1>1, HeadTailProperties, ConcatProperties
  <2> QED BY <1>1, <2>1, ConcatProperties, SeqEqual
<1>3. Append(a, Head(b)) \o Tail(b) = a \o b
  BY <1>1, <1>2, AppendIsConcat, ConcatAssociative
<1>4. Len(a) < Len(a \o b) /\ (a \o b)[Len(a) + 1] = b[1]
  BY <1>1, ConcatProperties
<1> QED BY <1>1, <1>3, <1>4

(* The sets of waiting and woken threads, as the condition variable's      *)
(* operations change them: one thread moves, or all waiters do.            *)
CvTypeOK ==
  /\ waiting \subseteq Workers \cup Tasks
  /\ notified \subseteq Workers \cup Tasks
  /\ waiting \cap notified = {}

LEMMA CvSteps ==
  ASSUME CvTypeOK,
         \/ \E t \in Workers \cup Tasks : Sleep(t)
         \/ \E t \in Workers \cup Tasks : Proceed(t)
         \/ notify_one
         \/ notify_all
         \/ \E t \in Workers \cup Tasks : SpuriousWakeup(t)
         \/ UNCHANGED cvVars
  PROVE  CvTypeOK'
<1> USE DEF CvTypeOK
<1>1. ASSUME NEW t \in Workers \cup Tasks, Wake(t) PROVE CvTypeOK'
  BY <1>1 DEF Wake
<1>2. ASSUME notify_one PROVE CvTypeOK'
  <2>1. UNCHANGED cvVars \/ \E t \in waiting : Wake(t)
    BY <1>2, Zenon DEF notify_one
  <2> QED BY <2>1, <1>1 DEF cvVars
<1>3. CASE \E t \in Workers \cup Tasks : Sleep(t)
  BY <1>3 DEF Sleep
<1>4. CASE \E t \in Workers \cup Tasks : Proceed(t)
  BY <1>4 DEF Proceed
<1>5. CASE notify_all
  BY <1>5 DEF notify_all
<1>6. CASE \E t \in Workers \cup Tasks : SpuriousWakeup(t)
  BY <1>6, <1>1 DEF SpuriousWakeup
<1>7. CASE UNCHANGED cvVars
  BY <1>7 DEF cvVars
<1> QED BY <1>2, <1>3, <1>4, <1>5, <1>6, <1>7

(* The steps of the pool, each with the part of its context it changes.    *)
(* Every invariance proof below splits [Next]_vars into these.             *)
LEMMA StepCases ==
  ASSUME [Next]_vars
  PROVE  \/ \E w \in Workers : TakeTask(w)
         \/ \E w \in Workers : RunTask(w)
         \/ \E t \in Tasks : Call(t)
         \/ \E t \in Tasks : Enqueue(t)
         \/ \E t \in Tasks : Notify(t)
         \/ \E f \in {"stop", "destructor"} : SetStop(f)
         \/ NotifyStop
         \/ JoinWorkers
         \/ \E t \in Workers \cup Tasks : Spurious(t)
         \/ UNCHANGED vars
BY Zenon DEF Next, Worker, Caller, ShutDown, Terminated

(* The type invariant holds: only known tasks pass through the queue, and  *)
(* a thread is never asleep and woken at once.                             *)
(* TypeOK is inductive together with the fact that a running worker has a  *)
(* task.                                                                   *)
RunsInv == \A w \in Workers : worker[w] = "runs" => task[w] \in Tasks

THEOREM TypeCorrect == Spec => []TypeOK
<1>1. Init => TypeOK /\ RunsInv
  <2> SUFFICES ASSUME Init PROVE TypeOK /\ RunsInv
    OBVIOUS
  <2>1. /\ m_tasks \in Seq(Tasks)
        /\ enqueued \in Seq(Tasks)
        /\ started \in Seq(Tasks)
    BY DEF Init
  <2> QED BY <2>1 DEF Init, CvInit, TypeOK, RunsInv
<1>2. TypeOK /\ RunsInv /\ [Next]_vars => TypeOK' /\ RunsInv'
  <2> SUFFICES ASSUME TypeOK, RunsInv, [Next]_vars PROVE TypeOK' /\ RunsInv'
    OBVIOUS
  <2>0. CvTypeOK
    BY DEF TypeOK, RunsInv, CvTypeOK
  <2>1. ASSUME NEW w \in Workers, TakeTask(w) PROVE TypeOK' /\ RunsInv'
    <3>1. CvTypeOK'
      BY <2>0, <2>1, CvSteps DEF TakeTask, WaitForTask, Exit, PopTask
    <3>2. ASSUME PopTask(w)
          PROVE  Head(m_tasks) \in Tasks /\ Tail(m_tasks) \in Seq(Tasks)
      BY <3>2, HeadTailProperties DEF PopTask, TypeOK
    <3>3. CASE PopTask(w)
      BY <2>1, <3>1, <3>2, <3>3 DEF TakeTask, PopTask, TypeOK, RunsInv, CvTypeOK,
        ownerVars
    <3>4. CASE WaitForTask(w) \/ Exit(w)
      BY <2>1, <3>1, <3>4 DEF TakeTask, WaitForTask, Exit, TypeOK, RunsInv, CvTypeOK,
        ownerVars
    <3> QED BY <2>1, <3>3, <3>4 DEF TakeTask
  <2>2. ASSUME NEW w \in Workers, RunTask(w) PROVE TypeOK' /\ RunsInv'
    <3>1. task[w] \in Tasks
      BY <2>2 DEF RunTask, RunsInv
    <3> QED BY <2>2, <3>1 DEF RunTask, TypeOK, RunsInv, ownerVars, cvVars
  <2>3. ASSUME NEW t \in Tasks, Call(t) PROVE TypeOK' /\ RunsInv'
    BY <2>3 DEF Call, CallerGoto, TypeOK, RunsInv, ownerVars, cvVars
  <2>4. ASSUME NEW t \in Tasks, Enqueue(t) PROVE TypeOK' /\ RunsInv'
    <3>1. CvTypeOK'
      BY <2>0, <2>4, CvSteps DEF Enqueue, WaitForSpace, Refuse, Push
    <3>2. /\ m_tasks' \in Seq(Tasks) /\ enqueued' \in Seq(Tasks)
          /\ caller' \in [Tasks -> {"idle", "enqueue", "notify", "accepted",
                                    "refused"}]
      <4>1. CASE Push(t)
        BY <4>1 DEF Push, CallerGoto, TypeOK
      <4>2. CASE WaitForSpace(t)
        BY <4>2 DEF WaitForSpace, TypeOK
      <4>3. CASE Refuse(t)
        BY <4>3 DEF Refuse, CallerGoto, TypeOK
      <4> QED BY <2>4, <4>1, <4>2, <4>3 DEF Enqueue
    <3>3. UNCHANGED <<m_stop, worker, task, ownerVars, process, started,
                      finished>>
      BY <2>4 DEF Enqueue
    <3> QED BY <3>1, <3>2, <3>3 DEF TypeOK, RunsInv, CvTypeOK, ownerVars
  <2>5. ASSUME NEW t \in Tasks, Notify(t) PROVE TypeOK' /\ RunsInv'
    <3>1. CvTypeOK'
      BY <2>0, <2>5, CvSteps DEF Notify
    <3> QED BY <2>5, <3>1 DEF Notify, CallerGoto, TypeOK, RunsInv, CvTypeOK, ownerVars
  <2>6. ASSUME NEW f \in {"stop", "destructor"}, SetStop(f) PROVE TypeOK' /\ RunsInv'
    BY <2>6 DEF SetStop, TypeOK, RunsInv, cvVars
  <2>7. ASSUME NotifyStop PROVE TypeOK' /\ RunsInv'
    <3>1. CvTypeOK'
      BY <2>0, <2>7, CvSteps DEF NotifyStop
    <3> QED BY <2>7, <3>1 DEF NotifyStop, TypeOK, RunsInv, CvTypeOK
  <2>8. ASSUME JoinWorkers PROVE TypeOK' /\ RunsInv'
    BY <2>8 DEF JoinWorkers, TypeOK, RunsInv, cvVars
  <2>9. ASSUME NEW t \in Workers \cup Tasks, Spurious(t) PROVE TypeOK' /\ RunsInv'
    <3>1. CvTypeOK'
      BY <2>0, <2>9, CvSteps DEF Spurious
    <3> QED BY <2>9, <3>1 DEF Spurious, TypeOK, RunsInv, CvTypeOK, ownerVars
  <2>10. CASE UNCHANGED vars
    BY <2>10 DEF vars, TypeOK, RunsInv
  <2> QED BY <2>1, <2>2, <2>3, <2>4, <2>5, <2>6, <2>7, <2>8, <2>9, <2>10,
        StepCases, Zenon
<1> QED BY <1>1, <1>2, PTL DEF Spec

(* The queue never outgrows Capacity, whoever is woken for the free slot.  *)
THEOREM QueueStaysBounded == Spec => []QueueBounded
<1>1. Init => QueueBounded
  BY CapacityAssumption DEF Init, QueueBounded
<1>2. TypeOK /\ QueueBounded /\ [Next]_vars => QueueBounded'
  <2> SUFFICES ASSUME TypeOK, QueueBounded, [Next]_vars PROVE QueueBounded'
    OBVIOUS
  <2>1. Len(m_tasks) \in Nat /\ Capacity \in Nat
    BY CapacityAssumption DEF TypeOK
  <2>2. ASSUME NEW w \in Workers, TakeTask(w) PROVE QueueBounded'
    <3>1. CASE PopTask(w)
      <4>1. Len(m_tasks') = Len(m_tasks) - 1
        BY <3>1, HeadTailProperties DEF PopTask, TypeOK
      <4> QED BY <2>1, <4>1 DEF QueueBounded
    <3>2. CASE WaitForTask(w) \/ Exit(w)
      BY <3>2 DEF WaitForTask, Exit, QueueBounded
    <3> QED BY <2>2, <3>1, <3>2 DEF TakeTask
  <2>3. ASSUME NEW t \in Tasks, Enqueue(t) PROVE QueueBounded'
    <3>1. CASE Push(t)
      <4>1. Len(m_tasks') = Len(m_tasks) + 1
        BY <3>1 DEF Push, TypeOK
      <4> QED BY <2>1, <3>1, <4>1 DEF Push, HasSpace, QueueBounded
    <3>2. CASE WaitForSpace(t) \/ Refuse(t)
      BY <3>2 DEF WaitForSpace, Refuse, QueueBounded
    <3> QED BY <2>3, <3>1, <3>2 DEF Enqueue
  <2>4. ASSUME m_tasks' = m_tasks PROVE QueueBounded'
    BY <2>4 DEF QueueBounded
  <2> QED BY <2>2, <2>3, <2>4, StepCases DEF RunTask, Call, Notify, SetStop,
        NotifyStop, JoinWorkers, Spurious, vars
<1> QED BY <1>1, <1>2, TypeCorrect, PTL DEF Spec

-----------------------------------------------------------------------------
(* Nothing accepted is lost.  Followed from the queue to the end of its    *)
(* run, a task is in m_tasks, then in the hands of a worker, then          *)
(* finished; and a worker exits only from a stopped pool with an empty     *)
(* queue, to which nothing is added any more.                              *)

Elements(s) == {s[i] : i \in 1..Len(s)}
InHand == {task[w] : w \in {v \in Workers : worker[v] = "runs"}}

AccountInv ==
  /\ Elements(enqueued) = Elements(started) \cup Elements(m_tasks)
  /\ Elements(started) = finished \cup InHand

ExitInv ==
  \A w \in Workers : worker[w] = "exited" => m_stop /\ m_tasks = <<>>

JoinInv == joined => \A w \in Workers : worker[w] = "exited"

(* Append adds its element, and a nonempty sequence is its head and tail.  *)
LEMMA ElementsOfAppend ==
  ASSUME NEW S, NEW s \in Seq(S), NEW e \in S
  PROVE  Elements(Append(s, e)) = Elements(s) \cup {e}
<1>1. Len(Append(s, e)) = Len(s) + 1 /\ Len(s) \in Nat
  OBVIOUS
<1>2. \A i \in 1..Len(s) : Append(s, e)[i] = s[i]
  OBVIOUS
<1>3. Append(s, e)[Len(s) + 1] = e
  OBVIOUS
<1>4. 1..(Len(s) + 1) = 1..Len(s) \cup {Len(s) + 1}
  BY <1>1
<1> QED BY <1>1, <1>2, <1>3, <1>4 DEF Elements

LEMMA ElementsOfTail ==
  ASSUME NEW S, NEW s \in Seq(S), s # <<>>
  PROVE  Elements(s) = {Head(s)} \cup Elements(Tail(s))
<1>1. /\ Len(s) \in Nat \ {0}
      /\ Len(Tail(s)) = Len(s) - 1
      /\ \A i \in 1..Len(Tail(s)) : Tail(s)[i] = s[i + 1]
      /\ Head(s) = s[1]
  BY EmptySeq, HeadTailProperties
<1>2. ASSUME NEW i \in 1..Len(s)
      PROVE  s[i] = Head(s) \/ s[i] \in Elements(Tail(s))
  <2>1. CASE i = 1
    BY <1>1, <2>1
  <2>2. CASE i # 1
    <3>1. i - 1 \in 1..Len(Tail(s)) /\ Tail(s)[i - 1] = s[i]
      BY <1>1, <2>2
    <3> QED BY <3>1 DEF Elements
  <2> QED BY <2>1, <2>2
<1>3. ASSUME NEW i \in 1..Len(Tail(s)) PROVE Tail(s)[i] \in Elements(s)
  <2>1. i + 1 \in 1..Len(s) /\ Tail(s)[i] = s[i + 1]
    BY <1>1
  <2> QED BY <2>1 DEF Elements
<1>4. Head(s) \in Elements(s)
  BY <1>1 DEF Elements
<1> QED BY <1>2, <1>3, <1>4 DEF Elements

(* A worker that has exited stays, and the pool it left stays empty.       *)
LEMMA ExitInvariant == Spec => [](ExitInv /\ JoinInv)
<1>1. Init => ExitInv /\ JoinInv
  BY DEF Init, ExitInv, JoinInv
<1>2. TypeOK /\ ExitInv /\ JoinInv /\ [Next]_vars => ExitInv' /\ JoinInv'
  <2> SUFFICES ASSUME TypeOK, ExitInv, JoinInv, [Next]_vars
               PROVE  ExitInv' /\ JoinInv'
    OBVIOUS
  <2> USE DEF ExitInv, JoinInv, TypeOK
  <2>1. ASSUME NEW w \in Workers, TakeTask(w) PROVE ExitInv' /\ JoinInv'
    BY <2>1 DEF TakeTask, WaitForTask, Exit, PopTask, ownerVars
  <2>2. ASSUME NEW w \in Workers, RunTask(w) PROVE ExitInv' /\ JoinInv'
    BY <2>2 DEF RunTask, ownerVars
  <2>3. ASSUME NEW t \in Tasks, Enqueue(t) PROVE ExitInv' /\ JoinInv'
    BY <2>3 DEF Enqueue, WaitForSpace, Refuse, Push, ownerVars
  <2>4. ASSUME NEW f \in {"stop", "destructor"}, SetStop(f)
        PROVE  ExitInv' /\ JoinInv'
    BY <2>4 DEF SetStop
  <2>5. ASSUME JoinWorkers PROVE ExitInv' /\ JoinInv'
    BY <2>5 DEF JoinWorkers
  <2>6. ASSUME UNCHANGED <<m_tasks, m_stop, worker, joined>>
        PROVE  ExitInv' /\ JoinInv'
    BY <2>6
  <2> HIDE DEF ExitInv, JoinInv, TypeOK
  <2> QED BY <2>1, <2>2, <2>3, <2>4, <2>5, <2>6, StepCases
        DEF Call, Notify, NotifyStop, Spurious, ownerVars, vars
<1> QED BY <1>1, <1>2, TypeCorrect, PTL DEF Spec

(* Every task that was accepted is queued, in hand or finished.            *)
LEMMA AccountInvariant == Spec => []AccountInv
<1>1. Init => AccountInv
  BY DEF Init, AccountInv, Elements, InHand
<1>2. TypeOK /\ AccountInv /\ [Next]_vars => AccountInv'
  <2> SUFFICES ASSUME TypeOK, AccountInv, [Next]_vars PROVE AccountInv'
    OBVIOUS
  <2>1. ASSUME NEW w \in Workers, TakeTask(w), PopTask(w) PROVE AccountInv'
    <3>1. Elements(m_tasks) = {Head(m_tasks)} \cup Elements(m_tasks')
      BY <2>1, ElementsOfTail DEF PopTask, TypeOK
    <3>2. Elements(started') = Elements(started) \cup {Head(m_tasks)}
      <4>1. Head(m_tasks) \in Tasks
        BY <2>1, HeadTailProperties DEF PopTask, TypeOK
      <4> QED BY <2>1, <4>1, ElementsOfAppend DEF PopTask, TypeOK
    <3>3. InHand' = InHand \cup {Head(m_tasks)}
      BY <2>1 DEF TakeTask, PopTask, InHand, TypeOK
    <3>4. UNCHANGED <<enqueued, finished>>
      BY <2>1 DEF TakeTask
    <3> QED BY <3>1, <3>2, <3>3, <3>4 DEF AccountInv
  <2>2. ASSUME NEW w \in Workers, TakeTask(w), WaitForTask(w) \/ Exit(w)
        PROVE  AccountInv'
    <3>1. InHand' = InHand
      BY <2>2 DEF TakeTask, WaitForTask, Exit, InHand, TypeOK
    <3> QED BY <2>2, <3>1 DEF TakeTask, WaitForTask, Exit, AccountInv
  <2>3. ASSUME NEW w \in Workers, RunTask(w) PROVE AccountInv'
    <3>1. finished' \cup InHand' = finished \cup InHand
      BY <2>3 DEF RunTask, InHand, TypeOK
    <3> QED BY <2>3, <3>1 DEF RunTask, AccountInv
  <2>4. ASSUME NEW t \in Tasks, Enqueue(t), Push(t) PROVE AccountInv'
    <3>1. /\ Elements(m_tasks') = Elements(m_tasks) \cup {t}
          /\ Elements(enqueued') = Elements(enqueued) \cup {t}
      BY <2>4, ElementsOfAppend DEF Push, TypeOK
    <3>2. InHand' = InHand /\ UNCHANGED <<started, finished>>
      BY <2>4 DEF Enqueue, InHand
    <3> QED BY <3>1, <3>2 DEF AccountInv
  <2>5. ASSUME UNCHANGED <<m_tasks, worker, task, enqueued, started,
                           finished>>
        PROVE  AccountInv'
    BY <2>5 DEF AccountInv, InHand
  <2>6. ASSUME NEW w \in Workers, TakeTask(w) PROVE AccountInv'
    BY <2>1, <2>2, <2>6 DEF TakeTask
  <2>7. ASSUME NEW t \in Tasks, Enqueue(t) PROVE AccountInv'
    BY <2>4, <2>5, <2>7 DEF Enqueue, WaitForSpace, Refuse
  <2> QED BY <2>3, <2>5, <2>6, <2>7, StepCases DEF Call, Notify, SetStop,
        NotifyStop, JoinWorkers, Spurious, vars
<1> QED BY <1>1, <1>2, TypeCorrect, PTL DEF Spec

(* When the workers have been joined, exactly the accepted tasks have run: *)
(* all workers have exited, so nothing is in hand and nothing is queued.   *)
THEOREM ShutdownLosesNothing == Spec => []JoinedMeansDone
<1>1. AccountInv /\ ExitInv /\ JoinInv => JoinedMeansDone
  <2> SUFFICES ASSUME AccountInv, ExitInv, JoinInv, joined
               PROVE  m_tasks = <<>> /\ Elements(enqueued) = finished
    BY DEF JoinedMeansDone, Elements
  <2>1. m_tasks = <<>>
    BY WorkersAssumption DEF ExitInv, JoinInv
  <2>2. Elements(m_tasks) = {}
    BY <2>1 DEF Elements
  <2>3. InHand = {}
    BY DEF JoinInv, InHand
  <2> QED BY <2>1, <2>2, <2>3 DEF AccountInv
<1> QED BY <1>1, ExitInvariant, AccountInvariant, PTL

-----------------------------------------------------------------------------
(* The order in which tasks are started. *)

(* What was accepted is what was started, then what is queued.             *)
HistoryInv == enqueued = started \o m_tasks

LEMMA HistoryInvariant == Spec => []HistoryInv
<1>1. Init => HistoryInv
  BY DEF Init, HistoryInv
<1>2. TypeOK /\ HistoryInv /\ [Next]_vars => HistoryInv'
  <2> SUFFICES ASSUME TypeOK, HistoryInv, [Next]_vars PROVE HistoryInv'
    OBVIOUS
  <2>1. m_tasks \in Seq(Tasks) /\ started \in Seq(Tasks)
    BY DEF TypeOK
  <2>2. ASSUME NEW w \in Workers, TakeTask(w) PROVE HistoryInv'
    <3>1. CASE PopTask(w)
      BY <2>1, <2>2, <3>1, ConcatMove DEF TakeTask, PopTask, HistoryInv
    <3>2. CASE WaitForTask(w) \/ Exit(w)
      BY <2>2, <3>2 DEF TakeTask, WaitForTask, Exit, HistoryInv
    <3> QED BY <2>2, <3>1, <3>2 DEF TakeTask
  <2>3. ASSUME NEW t \in Tasks, Enqueue(t) PROVE HistoryInv'
    <3>1. CASE Push(t)
      <4>1. /\ <<t>> \in Seq(Tasks) /\ Append(m_tasks, t) = m_tasks \o <<t>>
            /\ Append(started \o m_tasks, t) = (started \o m_tasks) \o <<t>>
        BY <2>1, ConcatProperties, AppendIsConcat
      <4>2. Append(started \o m_tasks, t) = started \o Append(m_tasks, t)
        BY <2>1, <4>1, ConcatAssociative
      <4> QED BY <2>3, <3>1, <4>2 DEF Enqueue, Push, HistoryInv
    <3>2. CASE WaitForSpace(t) \/ Refuse(t)
      BY <2>3, <3>2 DEF Enqueue, WaitForSpace, Refuse, HistoryInv
    <3> QED BY <2>3, <3>1, <3>2 DEF Enqueue
  <2>4. ASSUME UNCHANGED <<m_tasks, enqueued, started>> PROVE HistoryInv'
    BY <2>4 DEF HistoryInv
  <2> QED BY <2>2, <2>3, <2>4, StepCases DEF RunTask, Call, Notify, SetStop,
        NotifyStop, JoinWorkers, Spurious, vars
<1> QED BY <1>1, <1>2, TypeCorrect, PTL DEF Spec

(* The pool implements a FIFO queue: workers start the tasks in the order  *)
(* in which enqueue() accepted them, each once, shutting down or not.      *)
THEOREM TasksStartInOrder == Spec => ImplementsFifo
<1>1. Init => Queue!Init
  BY DEF Init, Queue!Init
<1>2. TypeOK /\ HistoryInv /\ [Next]_vars
        => [Queue!Next]_<<enqueued, started>>
  <2> SUFFICES ASSUME TypeOK, HistoryInv, [Next]_vars
               PROVE  [Queue!Next]_<<enqueued, started>>
    OBVIOUS
  <2>1. ASSUME NEW w \in Workers, TakeTask(w)
        PROVE  [Queue!Next]_<<enqueued, started>>
    <3>1. CASE PopTask(w)
      <4>1. /\ Len(started) < Len(enqueued)
            /\ enqueued[Len(started) + 1] = Head(m_tasks)
        BY <3>1, ConcatMove DEF PopTask, TypeOK, HistoryInv
      <4> QED BY <2>1, <3>1, <4>1
              DEF TakeTask, PopTask, Queue!Next, Queue!Receive
    <3>2. CASE WaitForTask(w) \/ Exit(w)
      BY <2>1, <3>2 DEF TakeTask, WaitForTask, Exit
    <3> QED BY <2>1, <3>1, <3>2 DEF TakeTask
  <2>2. ASSUME NEW t \in Tasks, Enqueue(t)
        PROVE  [Queue!Next]_<<enqueued, started>>
    BY <2>2 DEF Enqueue, WaitForSpace, Refuse, Push, Queue!Next, Queue!Send
  <2> QED BY <2>1, <2>2, StepCases DEF RunTask, Call, Notify, SetStop,
        NotifyStop, JoinWorkers, Spurious, vars
<1> QED BY <1>1, <1>2, TypeCorrect, HistoryInvariant, PTL
        DEF Spec, ImplementsFifo, Queue!Spec

=============================================================================
