--------------------------- MODULE WorkCrewProofs ---------------------------
(***************************************************************************)
(* What WorkCrew promises, for any number of threads and jobs and however  *)
(* often each thread is started: join_all() does not return before the     *)
(* threads it waits for have been removed, and by then the jobs have all   *)
(* been taken, in order.                                                   *)
(***************************************************************************)
EXTENDS WorkCrew, SequenceTheorems, FiniteSetTheorems, TLAPS

(* Moving the head of the second part to the end of the first part leaves  *)
(* the whole as it was, and it is the element of the whole that follows    *)
(* the first part.                                                         *)
LEMMA ConcatMove ==
  ASSUME NEW S, NEW a \in Seq(S), NEW b \in Seq(S), b # <<>>
  PROVE  /\ Append(a, Head(b)) \o Tail(b) = a \o b
         /\ Len(a) < Len(a \o b) /\ (a \o b)[Len(a) + 1] = Head(b)
<1>1. /\ Head(b) \in S /\ Tail(b) \in Seq(S) /\ <<Head(b)>> \in Seq(S)
      /\ Head(b) = b[1] /\ Len(a) \in Nat /\ Len(b) \in Nat \ {0}
  BY HeadTailProperties, EmptySeq
<1>2. b = <<Head(b)>> \o Tail(b)
  <2>1. /\ Len(<<Head(b)>> \o Tail(b)) = Len(b)
        /\ \A i \in 1..Len(b) : (<<Head(b)>> \o Tail(b))[i] = b[i]
    BY <1>1, HeadTailProperties, ConcatProperties
  <2> QED BY <1>1, <2>1, ConcatProperties, SeqEqual
<1>3. Append(a, Head(b)) \o Tail(b) = a \o b
  BY <1>1, <1>2, AppendIsConcat, ConcatAssociative
<1>4. Len(a) < Len(a \o b) /\ (a \o b)[Len(a) + 1] = b[1]
  BY <1>1, ConcatProperties
<1> QED BY <1>1, <1>3, <1>4

-----------------------------------------------------------------------------
(* The values of the variables. *)

TypeOK ==
  /\ num_running_ \in Int
  /\ running_ \in [Ids -> BOOLEAN]
  /\ at \in [Ids -> {"new", "run", "erase", "count", "notify", "ended"}]
  /\ starts \in [Ids -> Nat]
  /\ stopped \subseteq Ids
  /\ queue_ \in Seq(Jobs)
  /\ pushed \in Seq(Jobs)
  /\ popped \in Seq(Jobs)
  /\ pc \in {"add", "feed", "start", "join", "done", "over"}

(* A thread that takes a job takes the first one of the queue, *)
TakesOne ==
  queue_ # <<>> /\ queue_' = Tail(queue_) /\ popped' = Append(popped, Head(queue_))

(* and it takes none if another thread has taken the last one since it     *)
(* looked.                                                                 *)
LEMMA TakesOneOrNone ==
  ASSUME TypeOK, NEW id \in Ids, Look(id) \/ Take(id)
  PROVE  UNCHANGED <<queue_, popped>> \/ TakesOne
<1>1. CASE Look(id)
  BY <1>1 DEF Look
<1>2. CASE Take(id) /\ queue_ = <<>>
  BY <1>2 DEF Take, try_pop, empty
<1>3. CASE Take(id) /\ queue_ # <<>>
  <2>1. Head(queue_) \in Jobs
    BY <1>3, HeadTailProperties DEF TypeOK
  <2> QED BY <1>3, <2>1, JobsAssumption DEF Take, try_pop, empty, TakesOne
<1> QED BY <1>1, <1>2, <1>3

LEMMA TypeCorrect == Spec => []TypeOK
<1>1. Init => TypeOK
  BY DEF Init, ManagerInit, QueueInit, TypeOK
<1>2. TypeOK /\ [Next]_vars => TypeOK'
  <2> SUFFICES ASSUME TypeOK, [Next]_vars PROVE TypeOK'
    OBVIOUS
  <2> USE DEF TypeOK
  <2>1. ASSUME NEW id \in Ids, Add(id) PROVE TypeOK'
    BY <2>1 DEF Add, add_thread
  <2>2. ASSUME NEW id \in Ids, Start(id) PROVE TypeOK'
    <3>1. PICK found \in BOOLEAN :
            IF found THEN num_running_' = num_running_ + 1 /\ start(id)
                     ELSE UNCHANGED <<num_running_, running_, at>>
      BY <2>2 DEF Start, start_thread
    <3>2. CASE found
      <4>1. /\ num_running_' = num_running_ + 1
            /\ running_' = [running_ EXCEPT ![id] = TRUE]
            /\ at' = at \/ at' = [at EXCEPT ![id] = "run"]
        BY <3>1, <3>2 DEF start
      <4>2. /\ starts' = [starts EXCEPT ![id] = @ + 1]
            /\ UNCHANGED <<queue_, pc, pushed, popped, stopped>>
        BY <2>2 DEF Start
      <4>3. running_' \in [Ids -> BOOLEAN]
        BY <4>1
      <4>4. at' \in [Ids -> {"new", "run", "erase", "count", "notify", "ended"}]
        BY <4>1
      <4>5. num_running_' \in Int /\ starts' \in [Ids -> Nat]
        BY <4>1, <4>2
      <4> QED BY <4>2, <4>3, <4>4, <4>5
    <3>3. CASE ~found
      BY <2>2, <3>1, <3>3 DEF Start, start_thread
    <3> QED BY <3>2, <3>3
  <2>3. ASSUME NEW id \in Ids, Stop(id) PROVE TypeOK'
    BY <2>3 DEF Stop, stop_thread, stop
  <2>4. ASSUME NEW id \in Ids, Look(id) \/ Take(id) PROVE TypeOK'
    <3>1. CASE UNCHANGED <<queue_, popped>>
      BY <2>4, <3>1 DEF Look, Take, managerVars
    <3>2. CASE TakesOne
      <4>1. Head(queue_) \in Jobs /\ Tail(queue_) \in Seq(Jobs)
        BY <3>2, HeadTailProperties DEF TakesOne
      <4> QED BY <2>4, <3>2, <4>1, AppendProperties DEF TakesOne, Look, Take, managerVars
    <3> QED BY <2>4, <3>1, <3>2, TakesOneOrNone
  <2>5. ASSUME NEW id \in Ids, Leave(id) PROVE TypeOK'
    BY <2>5 DEF Leave, Finish
  <2>6. ASSUME NEW id \in Ids, Remove(id) PROVE TypeOK'
    <3>1. CASE Erase(id)
      BY <2>6, <3>1 DEF Remove, Erase
    <3>2. CASE CountDown(id)
      BY <2>6, <3>2 DEF Remove, CountDown
    <3>3. CASE Notify(id)
      BY <2>6, <3>3 DEF Remove, Notify
    <3> QED BY <2>6, <3>1, <3>2, <3>3 DEF Remove
  <2>7. ASSUME NEW job \in Jobs, Feed(job) PROVE TypeOK'
    BY <2>7, AppendProperties DEF Feed, push, managerVars
  <2>8. CASE EndScope \/ Join \/ JoinThreads \/ Spurious
    BY <2>8 DEF EndScope, Join, JoinThreads, Spurious, managerVars
  <2>9. CASE JoinAll
    BY <2>9 DEF JoinAll, JoinTest, JoinSleep, JoinReturn
  <2>10. CASE UNCHANGED vars
    BY <2>10 DEF vars, managerVars
  <2> QED BY <2>1, <2>2, <2>3, <2>4, <2>5, <2>6, <2>7, <2>8, <2>9, <2>10
          DEF Next
<1> QED BY <1>1, <1>2, PTL DEF Spec

-----------------------------------------------------------------------------
(* What is known of a thread from the calls main has made. *)

(* A thread that main has not started is as it was made, one that main has *)
(* not stopped runs since it was started, and no thread is started before  *)
(* the jobs have been pushed.                                              *)
FreshInv ==
  /\ \A id \in Ids : starts[id] = 0 => ~running_[id] /\ at[id] = "new"
  /\ \A id \in Ids \ stopped : at[id] # "new" => running_[id]
  /\ pc \in {"add", "feed"} => \A id \in Ids : starts[id] = 0

LEMMA FreshInvariant == Spec => []FreshInv
<1>1. Init => FreshInv
  BY DEF Init, ManagerInit, FreshInv
<1>2. TypeOK /\ FreshInv /\ [Next]_vars => FreshInv'
  <2> SUFFICES ASSUME TypeOK, FreshInv, [Next]_vars PROVE FreshInv'
    OBVIOUS
  <2> USE DEF TypeOK, FreshInv
  <2>1. ASSUME NEW id \in Ids, Add(id) PROVE FreshInv'
    BY <2>1 DEF Add, add_thread
  <2>2. ASSUME NEW id \in Ids, Start(id) PROVE FreshInv'
    <3>1. PICK found \in BOOLEAN :
            IF found THEN num_running_' = num_running_ + 1 /\ start(id)
                     ELSE UNCHANGED <<num_running_, running_, at>>
      BY <2>2 DEF Start, start_thread
    <3>2. CASE found
      <4>1. /\ num_running_' = num_running_ + 1
            /\ running_' = [running_ EXCEPT ![id] = TRUE]
            /\ at' = at \/ at' = [at EXCEPT ![id] = "run"]
        BY <3>1, <3>2 DEF start
      <4> QED BY <2>2, <4>1 DEF Start, start_thread
    <3>3. CASE ~found
      BY <2>2, <3>1, <3>3 DEF Start, start_thread
    <3> QED BY <3>2, <3>3
  <2>3. ASSUME NEW id \in Ids, Stop(id) PROVE FreshInv'
    BY <2>3 DEF Stop, stop_thread, stop
  <2>4. ASSUME NEW id \in Ids, Look(id) \/ Take(id) PROVE FreshInv'
    BY <2>4 DEF Look, Take, managerVars
  <2>5. ASSUME NEW id \in Ids, Leave(id) PROVE FreshInv'
    BY <2>5 DEF Leave, Finish
  <2>6. ASSUME NEW id \in Ids, Remove(id) PROVE FreshInv'
    BY <2>6 DEF Remove, Erase, CountDown, Notify
  <2>7. ASSUME NEW job \in Jobs, Feed(job) PROVE FreshInv'
    BY <2>7 DEF Feed, managerVars
  <2>8. CASE EndScope \/ Join \/ JoinThreads \/ Spurious
    BY <2>8 DEF EndScope, Join, JoinThreads, Spurious, managerVars
  <2>9. CASE JoinAll
    BY <2>9 DEF JoinAll, JoinTest, JoinSleep, JoinReturn
  <2>10. CASE UNCHANGED vars
    BY <2>10 DEF vars, managerVars
  <2> QED BY <2>1, <2>2, <2>3, <2>4, <2>5, <2>6, <2>7, <2>8, <2>9, <2>10
          DEF Next
<1> QED BY <1>1, <1>2, TypeCorrect, PTL DEF Spec

-----------------------------------------------------------------------------
(* The count. *)

LEMMA CountedIsFinite ==
  IsFiniteSet(Counted) /\ Cardinality(Counted) \in Nat
<1>1. Counted \subseteq Ids
  BY DEF Counted
<1> QED BY <1>1, JobsAssumption, FS_Subset, FS_CardinalityType

(* The number of running threads is never counted too low, and exactly     *)
(* right as long as no thread is started twice. A thread joins the count   *)
(* when it is started, whether or not it runs already, and leaves it when  *)
(* its own remove_thread() counts down.                                    *)
THEOREM CountIsCovered == Spec => []CountCoversThreads
<1>1. Init => CountCoversThreads
  <2> SUFFICES ASSUME Init PROVE CountCoversThreads
    OBVIOUS
  <2>1. Counted = {} /\ num_running_ = 0
    BY DEF Init, ManagerInit, Counted
  <2> QED BY <2>1, FS_EmptySet DEF CountCoversThreads
<1>2. TypeOK /\ FreshInv /\ CountCoversThreads /\ [Next]_vars
        => CountCoversThreads'
  <2> SUFFICES ASSUME TypeOK, FreshInv, CountCoversThreads, [Next]_vars
               PROVE  CountCoversThreads'
    OBVIOUS
  <2>1. num_running_ \in Int /\ Cardinality(Counted) \in Nat
        /\ IsFiniteSet(Counted)
    BY CountedIsFinite DEF TypeOK
  <2>2. ASSUME UNCHANGED <<num_running_, starts>>, Counted' = Counted
        PROVE  CountCoversThreads'
    BY <2>2 DEF CountCoversThreads, StartedOnce
  <2>3. ASSUME NEW id \in Ids, Start(id) PROVE CountCoversThreads'
    <3>1. PICK found \in BOOLEAN :
            IF found THEN num_running_' = num_running_ + 1 /\ start(id)
                     ELSE UNCHANGED <<num_running_, running_, at>>
      BY <2>3 DEF Start, start_thread
    <3>2. StartedOnce' => StartedOnce /\ starts[id] = 0
      BY <2>3 DEF Start, StartedOnce, TypeOK
    <3>3. CASE ~found
      <4>1. Counted' = Counted /\ num_running_' = num_running_
        BY <3>1, <3>3 DEF Counted
      <4> QED BY <3>2, <4>1 DEF CountCoversThreads
    <3>4. CASE found /\ running_[id]
      <4>1. Counted' = Counted /\ num_running_' = num_running_ + 1
        BY <3>1, <3>4 DEF Counted, start
      <4>2. ~StartedOnce'
        BY <3>2, <3>4 DEF FreshInv
      <4> QED BY <2>1, <4>1, <4>2 DEF CountCoversThreads
    <3>5. CASE found /\ ~running_[id]
      <4>1. at[id] = "new"
        BY <2>3, <3>5 DEF Start, FreshInv
      <4>2. id \notin Counted /\ Counted' = Counted \cup {id}
            /\ num_running_' = num_running_ + 1
        BY <3>1, <3>5, <4>1 DEF Counted, start, TypeOK
      <4>3. Cardinality(Counted') = Cardinality(Counted) + 1
        BY <2>1, <4>2, FS_AddElement
      <4> QED BY <2>1, <3>2, <4>2, <4>3 DEF CountCoversThreads
    <3> QED BY <3>1, <3>3, <3>4, <3>5
  <2>4. ASSUME NEW id \in Ids, Remove(id) PROVE CountCoversThreads'
    <3>1. CASE Erase(id) \/ Notify(id)
      <4>1. Counted' = Counted
        BY <3>1 DEF Erase, Notify, Counted, TypeOK
      <4> QED BY <2>2, <2>4, <3>1, <4>1 DEF Remove, Erase, Notify
    <3>2. CASE CountDown(id)
      <4>1. id \in Counted /\ Counted' = Counted \ {id}
            /\ num_running_' = num_running_ - 1
        BY <3>2 DEF CountDown, Counted, TypeOK
      <4>2. Cardinality(Counted') = Cardinality(Counted) - 1
        BY <2>1, <4>1, FS_RemoveElement
      <4>3. StartedOnce' = StartedOnce
        BY <2>4 DEF Remove, StartedOnce
      <4> QED BY <2>1, <4>1, <4>2, <4>3 DEF CountCoversThreads
    <3> QED BY <2>4, <3>1, <3>2 DEF Remove
  <2>5. ASSUME NEW id \in Ids, Leave(id) PROVE CountCoversThreads'
    <3>1. Counted' = Counted
      BY <2>5 DEF Leave, Finish, Counted, TypeOK
    <3> QED BY <2>2, <2>5, <3>1 DEF Leave, Finish
  <2>6. ASSUME UNCHANGED <<num_running_, starts, at>>
        PROVE  CountCoversThreads'
    BY <2>2, <2>6 DEF Counted
  <2>7. ASSUME NEW id \in Ids, Add(id) \/ Stop(id) \/ Look(id) \/ Take(id)
        PROVE  CountCoversThreads'
    BY <2>6, <2>7 DEF Add, add_thread, Stop, stop_thread, Look, Take, managerVars
  <2>8. ASSUME NEW job \in Jobs, Feed(job) PROVE CountCoversThreads'
    BY <2>6, <2>8 DEF Feed, managerVars
  <2>9. CASE EndScope \/ Join \/ JoinThreads \/ Spurious \/ UNCHANGED vars
    BY <2>6, <2>9
       DEF EndScope, Join, JoinThreads, Spurious, managerVars, vars
  <2>10. CASE JoinAll
    BY <2>6, <2>10 DEF JoinAll, JoinTest, JoinSleep, JoinReturn
  <2> QED BY <2>3, <2>4, <2>5, <2>7, <2>8, <2>9, <2>10 DEF Next
<1> QED BY <1>1, <1>2, TypeCorrect, FreshInvariant, PTL DEF Spec

-----------------------------------------------------------------------------
(* The jobs. *)

Taken(s) == {s[i] : i \in 1..Len(s)}

(* What has been pushed is what has been taken, then what is queued; no    *)
(* job is pushed twice, and from the end of the feeding on each has been;  *)
(* and a thread that left its work without being told to found no job.     *)
JobsInv ==
  /\ pushed = popped \o queue_
  /\ Len(pushed) = Cardinality(Taken(pushed))
  /\ pc \notin {"add", "feed"} => Taken(pushed) = Jobs
  /\ \A id \in Ids \ stopped : at[id] \notin {"new", "run"} => queue_ = <<>>

LEMMA TakenAppend ==
  ASSUME NEW s \in Seq(Jobs), NEW job \in Jobs,
         \A i \in DOMAIN s : s[i] # job, Len(s) = Cardinality(Taken(s))
  PROVE  Len(Append(s, job)) = Cardinality(Taken(Append(s, job)))
<1>1. /\ Len(s) \in Nat /\ DOMAIN s = 1..Len(s)
      /\ Len(Append(s, job)) = Len(s) + 1
      /\ \A i \in 1..Len(s) : Append(s, job)[i] = s[i]
      /\ Append(s, job)[Len(s) + 1] = job
  BY AppendProperties, LenProperties
<1>2. job \notin Taken(s)
  BY <1>1 DEF Taken
<1>3. Taken(Append(s, job)) = Taken(s) \cup {job}
  <2>1. 1..Len(Append(s, job)) = 1..Len(s) \cup {Len(s) + 1}
    BY <1>1
  <2>2. Taken(Append(s, job))
          = {Append(s, job)[i] : i \in 1..Len(s)} \cup {job}
    BY <1>1, <2>1 DEF Taken
  <2> QED BY <1>1, <2>2 DEF Taken
<1>4. IsFiniteSet(Taken(s))
  <2>1. Taken(s) \subseteq Jobs
    BY <1>1, ElementOfSeq DEF Taken
  <2> QED BY <2>1, JobsAssumption, FS_Subset
<1> QED BY <1>1, <1>2, <1>3, <1>4, FS_AddElement

LEMMA JobsInvariant == Spec => []JobsInv
<1>1. Init => JobsInv
  <2> SUFFICES ASSUME Init PROVE JobsInv
    OBVIOUS
  <2>1. pushed = <<>> /\ popped = <<>> /\ queue_ = <<>> /\ pc = "add"
    BY DEF Init, QueueInit
  <2>2. Taken(pushed) = {} /\ Len(pushed) = 0
    BY <2>1 DEF Taken
  <2>3. \A id \in Ids : at[id] = "new"
    BY DEF Init, ManagerInit
  <2> QED BY <2>1, <2>2, <2>3, FS_EmptySet DEF JobsInv
<1>2. TypeOK /\ FreshInv /\ JobsInv /\ [Next]_vars => JobsInv'
  <2> SUFFICES ASSUME TypeOK, FreshInv, JobsInv, [Next]_vars PROVE JobsInv'
    OBVIOUS
  <2>1. pushed \in Seq(Jobs) /\ popped \in Seq(Jobs) /\ queue_ \in Seq(Jobs)
        /\ at \in [Ids -> {"new", "run", "erase", "count", "notify", "ended"}]
    BY DEF TypeOK
  <2>2. ASSUME UNCHANGED <<pushed, popped, queue_>>,
               pc' = pc \/ pc \notin {"add", "feed"},
               \A id \in Ids \ stopped' :
                 at'[id] \notin {"new", "run"}
                   => id \notin stopped /\ at[id] \notin {"new", "run"}
        PROVE  JobsInv'
    BY <2>2 DEF JobsInv, Taken
  <2>3. ASSUME NEW id \in Ids, Add(id) PROVE JobsInv'
    <3>1. pc = "add" /\ pc' \in {"add", "feed"}
          /\ UNCHANGED <<pushed, popped, queue_, at, stopped>>
      BY <2>3 DEF Add, add_thread
    <3> QED BY <3>1 DEF JobsInv, Taken
  <2>4. ASSUME NEW job \in Jobs, Feed(job) PROVE JobsInv'
    <3>1. /\ pc = "feed" /\ pc' = pc /\ \A i \in DOMAIN pushed : pushed[i] # job
          /\ queue_' = Append(queue_, job) /\ pushed' = Append(pushed, job)
          /\ UNCHANGED <<popped, stopped, at>>
      BY <2>4 DEF Feed, push, managerVars
    <3>2. pushed' = popped' \o queue_'
      <4>1. /\ <<job>> \in Seq(Jobs) /\ Append(queue_, job) = queue_ \o <<job>>
            /\ Append(popped \o queue_, job) = (popped \o queue_) \o <<job>>
        BY <2>1, ConcatProperties, AppendIsConcat
      <4>2. Append(popped \o queue_, job) = popped \o Append(queue_, job)
        BY <2>1, <4>1, ConcatAssociative
      <4> QED BY <3>1, <4>2 DEF JobsInv
    <3>3. Len(pushed') = Cardinality(Taken(pushed)')
      <4>1. Len(Append(pushed, job)) = Cardinality(Taken(Append(pushed, job)))
        BY <2>1, <3>1, TakenAppend DEF JobsInv
      <4> QED BY <3>1, <4>1 DEF Taken
    <3>4. \A id \in Ids : at'[id] = "new"
      BY <3>1 DEF FreshInv
    <3> QED BY <3>1, <3>2, <3>3, <3>4 DEF JobsInv
  <2>5. CASE EndScope
    <3>1. Taken(pushed) = Jobs
      <4>1. \A job \in Jobs : \E i \in DOMAIN pushed : pushed[i] = job
        BY <2>5 DEF EndScope, Feeding
      <4>2. DOMAIN pushed = 1..Len(pushed)
            /\ \A i \in 1..Len(pushed) : pushed[i] \in Jobs
        BY <2>1, LenProperties, ElementOfSeq
      <4> QED BY <4>1, <4>2 DEF Taken
    <3>2. UNCHANGED <<pushed, popped, queue_, at, stopped>>
      BY <2>5 DEF EndScope, managerVars
    <3> QED BY <3>1, <3>2 DEF JobsInv, Taken
  <2>6. ASSUME NEW id \in Ids, Start(id) PROVE JobsInv'
    <3>1. at' = at \/ at' = [at EXCEPT ![id] = "run"]
      BY <2>6 DEF Start, start_thread, start
    <3>2. pc' = pc /\ UNCHANGED <<pushed, popped, queue_, stopped>>
      BY <2>6 DEF Start
    <3> QED BY <2>1, <2>2, <3>1, <3>2
  <2>7. ASSUME NEW id \in Ids, Stop(id) PROVE JobsInv'
    <3>1. /\ pc' = pc /\ UNCHANGED <<pushed, popped, queue_, at>>
          /\ stopped' = stopped \cup {id}
      BY <2>7 DEF Stop, stop_thread
    <3> QED BY <2>2, <3>1
  <2>8. ASSUME NEW id \in Ids, Look(id) \/ Take(id) PROVE JobsInv'
    <3>1. UNCHANGED <<pushed, pc, at, stopped>>
      BY <2>8 DEF Look, Take, managerVars
    <3>2. CASE UNCHANGED <<queue_, popped>>
      BY <2>2, <3>1, <3>2
    <3>3. CASE TakesOne
      <4>1. pushed' = popped' \o queue_'
        BY <2>1, <3>1, <3>3, ConcatMove DEF TakesOne, JobsInv
      <4> QED BY <3>1, <3>3, <4>1 DEF TakesOne, JobsInv, Taken
    <3> QED BY <2>8, <3>2, <3>3, TakesOneOrNone
  <2>9. ASSUME NEW id \in Ids, Leave(id) PROVE JobsInv'
    <3>1. /\ at[id] = "run" /\ (~running_[id] \/ queue_ = <<>>)
          /\ at' = [at EXCEPT ![id] = "erase"]
          /\ UNCHANGED <<pushed, popped, queue_, pc, stopped>>
      BY <2>9 DEF Leave, Finish, is_running, empty
    <3>2. id \notin stopped => queue_ = <<>>
      BY <3>1 DEF FreshInv
    <3> QED BY <2>1, <3>1, <3>2 DEF JobsInv, Taken
  <2>10. ASSUME NEW id \in Ids, Remove(id) PROVE JobsInv'
    <3>1. /\ at[id] \notin {"new", "run"}
          /\ at' = [at EXCEPT ![id] = at'[id]]
          /\ UNCHANGED <<pushed, popped, queue_, pc, stopped>>
      BY <2>1, <2>10 DEF Remove, Erase, CountDown, Notify
    <3> QED BY <2>1, <2>2, <3>1
  <2>11. CASE Join \/ JoinThreads \/ Spurious \/ UNCHANGED vars
    BY <2>2, <2>11 DEF Join, JoinThreads, Spurious, managerVars, vars
  <2>12. CASE JoinAll
    BY <2>2, <2>12 DEF JoinAll, JoinTest, JoinSleep, JoinReturn
  <2> QED BY <2>3, <2>4, <2>5, <2>6, <2>7, <2>8, <2>9, <2>10, <2>11, <2>12
          DEF Next
<1> QED BY <1>1, <1>2, TypeCorrect, FreshInvariant, PTL DEF Spec

-----------------------------------------------------------------------------
(* The end. *)

(* join_all() returns when the count is zero, which covers every thread    *)
(* that has not been removed; and none is started after that.              *)
DoneInv == pc \in {"done", "over"} => Counted = {}

LEMMA DoneInvariant == Spec => []DoneInv
<1>1. Init => DoneInv
  BY DEF Init, DoneInv
<1>2. TypeOK /\ CountCoversThreads /\ DoneInv /\ [Next]_vars => DoneInv'
  <2> SUFFICES ASSUME TypeOK, CountCoversThreads, DoneInv, [Next]_vars
               PROVE  DoneInv'
    OBVIOUS
  <2>1. at \in [Ids -> {"new", "run", "erase", "count", "notify", "ended"}]
    BY DEF TypeOK
  <2>2. ASSUME UNCHANGED <<pc, at>> PROVE DoneInv'
    BY <2>2 DEF DoneInv, Counted
  <2>3. ASSUME NEW id \in Ids, Leave(id) \/ Remove(id) PROVE DoneInv'
    <3>1. Counted' \subseteq Counted /\ pc' = pc
      BY <2>1, <2>3 DEF Leave, Finish, Remove, Erase, CountDown, Notify,
            Counted
    <3> QED BY <3>1 DEF DoneInv
  <2>4. ASSUME NEW id \in Ids, Start(id) PROVE DoneInv'
    BY <2>4 DEF Start, DoneInv
  <2>5. ASSUME NEW id \in Ids, Stop(id) \/ Look(id) \/ Take(id) PROVE DoneInv'
    BY <2>2, <2>5 DEF Stop, stop_thread, Look, Take, managerVars
  <2>6. ASSUME NEW id \in Ids, Add(id) PROVE DoneInv'
    BY <2>6 DEF Add, DoneInv
  <2>7. ASSUME NEW job \in Jobs, Feed(job) PROVE DoneInv'
    BY <2>7 DEF Feed, DoneInv
  <2>8. CASE EndScope \/ Join
    BY <2>8 DEF EndScope, Join, DoneInv
  <2>9. CASE JoinAll
    <3>1. CASE JoinReturn
      <4>1. num_running_ = 0 /\ at' = at
        BY <3>1 DEF JoinReturn
      <4>2. Cardinality(Counted) = 0
        BY <4>1, CountedIsFinite DEF CountCoversThreads
      <4>3. Counted = {}
        BY <4>2, CountedIsFinite, FS_EmptySet
      <4> QED BY <4>1, <4>3 DEF DoneInv, Counted
    <3>2. CASE (JoinTest \/ JoinSleep) /\ UNCHANGED pc
      BY <2>2, <3>2 DEF JoinTest, JoinSleep
    <3> QED BY <2>9, <3>1, <3>2 DEF JoinAll
  <2>10. CASE JoinThreads
    BY <2>10 DEF JoinThreads, DoneInv, Counted, managerVars
  <2>11. CASE Spurious \/ UNCHANGED vars
    BY <2>2, <2>11 DEF Spurious, vars, managerVars
  <2> QED BY <2>3, <2>4, <2>5, <2>6, <2>7, <2>8, <2>9, <2>10, <2>11 DEF Next
<1> QED BY <1>1, <1>2, TypeCorrect, CountIsCovered, PTL DEF Spec

(* When join_all() has returned every thread it waits for is gone, and     *)
(* unless each thread that ran was told to stop, each job has been taken   *)
(* once, in the order of the pushes.                                       *)
THEOREM CrewFinishesItsWork == Spec => []WorkIsDone
<1>1. TypeOK /\ JobsInv /\ DoneInv => WorkIsDone
  <2> SUFFICES ASSUME TypeOK, JobsInv, DoneInv, pc \in {"done", "over"},
                      NEW id \in Ids \ stopped, at[id] # "new"
               PROVE  Len(pushed) = Cardinality(Jobs) /\ popped = pushed
    BY DEF WorkIsDone, DoneInv
  <2>1. at[id] \notin {"new", "run"}
    BY DEF DoneInv, Counted
  <2>2. queue_ = <<>> /\ pushed = popped \o <<>>
    BY <2>1 DEF JobsInv
  <2>3. popped = pushed
    BY <2>2, ConcatEmptySeq DEF TypeOK
  <2>4. Taken(pushed) = Jobs /\ Len(pushed) = Cardinality(Taken(pushed))
    BY DEF JobsInv
  <2> QED BY <2>3, <2>4
<1> QED BY <1>1, TypeCorrect, JobsInvariant, DoneInvariant, PTL


=============================================================================
