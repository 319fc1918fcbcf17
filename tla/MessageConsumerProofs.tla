----------------------- MODULE MessageConsumerProofs -----------------------
(***************************************************************************)
(* What MessageConsumer promises, for any number of consumers and messages *)
(* and whichever of them are published: no message is lost, repeated or    *)
(* overtaken on its way through the queue, and a consumer that is told to  *)
(* pause or to stop takes one message more at most.                        *)
(***************************************************************************)
EXTENDS MessageConsumer, SequenceTheorems, TLAPS

(* Moving the head of the second part to the end of the first part leaves  *)
(* the whole as it was, and it is the element of the whole that follows    *)
(* the first part.                                                         *)
LEMMA ConcatMove ==
  ASSUME NEW S, NEW a \in Seq(S), NEW b \in Seq(S), b # <<>>
  PROVE  /\ Append(a, Head(b)) \o Tail(b) = a \o b
         /\ Len(a) < Len(a \o b) /\ (a \o b)[Len(a) + 1] = Head(b)
<1>1. /\ Head(b) \in S /\ Tail(b) \in Seq(S) /\ <<Head(b)>> \in Seq(S)
      /\ Head(b) = b[1] /\ Len(a) \in Nat /\ Len(b) \in Nat \ {0}
  BY HeadTailProperties, EmptySeq
<1>2. b = <<Head(b)>> \o Tail(b)
  <2>1. /\ Len(<<Head(b)>> \o Tail(b)) = Len(b)
        /\ \A i \in 1..Len(b) : (<<Head(b)>> \o Tail(b))[i] = b[i]
    BY <1>1, HeadTailProperties, ConcatProperties
  <2> QED BY <1>1, <2>1, ConcatProperties, SeqEqual
<1>3. Append(a, Head(b)) \o Tail(b) = a \o b
  BY <1>1, <1>2, AppendIsConcat, ConcatAssociative
<1>4. Len(a) < Len(a \o b) /\ (a \o b)[Len(a) + 1] = b[1]
  BY <1>1, ConcatProperties
<1> QED BY <1>1, <1>3, <1>4

-----------------------------------------------------------------------------
(* The values of the variables. *)

Labels == {"new", "loop", "wait", "recheck", "pop", "process", "pause", "exited"}

TypeOK ==
  /\ queue_ \in Seq(Messages)
  /\ sent \in Seq(Messages)
  /\ taken \in Seq(Messages)
  /\ pc \in [Consumers -> Labels]
  /\ pauseFlag_ \in [Consumers -> BOOLEAN]
  /\ stopFlag_ \in [Consumers -> BOOLEAN]
  /\ late \in [Consumers -> [pause : Nat, stop : Nat]]

(* The steps, sorted by what they do to the queue, the flags and the       *)
(* counts of messages taken late.                                          *)
LEMMA StepCases ==
  ASSUME [Next]_vars
  PROVE  \/ \E m \in Messages : Publish(m) \/ \E c \in Consumers : Push(c, m)
         \/ \E c \in Consumers : start(c) \/ pause(c) \/ resume(c) \/ stop(c)
         \/ \E c \in Consumers : pc[c] = "pop" /\ TakeMessage(c)
                                 /\ UNCHANGED <<flagVars, sent>>
         \/ \E c \in Consumers :
              /\ join(c) \/ TestStopFlag(c) \/ WaitForMessage(c)
                 \/ RecheckQueue(c) \/ ProcessMessage(c) \/ WaitWhilePaused(c)
              /\ UNCHANGED <<queue_, sent, taken>>
         \/ UNCHANGED <<queue_, pc, flagVars, sent, taken, late>>
<1>1. ASSUME NEW c \in Consumers, NEW m \in Messages, NotifyPushed(c, m)
      PROVE  UNCHANGED <<queue_, pc, flagVars, sent, taken, late>>
  BY <1>1 DEF NotifyPushed, queueVars
<1>2. ASSUME NEW c \in Consumers, Pop(c)
      PROVE  \/ pc[c] = "pop" /\ TakeMessage(c) /\ UNCHANGED <<flagVars, sent>>
             \/ UNCHANGED <<queue_, pc, flagVars, sent, taken, late>>
  BY <1>2 DEF Pop, WaitInPop
<1>3. ASSUME NEW c \in Consumers, Spurious(c)
      PROVE  UNCHANGED <<queue_, pc, flagVars, sent, taken, late>>
  BY <1>3 DEF Spurious, queueVars
<1>4. ASSUME NEW c \in Consumers,
             join(c) \/ TestStopFlag(c) \/ WaitForMessage(c)
               \/ RecheckQueue(c) \/ ProcessMessage(c) \/ WaitWhilePaused(c)
      PROVE  UNCHANGED <<queue_, sent, taken>>
  BY <1>4 DEF join, TestStopFlag, WaitForMessage, RecheckQueue,
              ProcessMessage, WaitWhilePaused, queueVars
<1>5. CASE UNCHANGED vars
  BY <1>5 DEF vars, flagVars
<1>6. CASE Next
  BY <1>1, <1>2, <1>3, <1>4, <1>6 DEF Next, run
<1> QED BY <1>5, <1>6

(* A message taken counts as late for each of the flags that is up.        *)
LEMMA TakenLate ==
  ASSUME TypeOK, NEW c \in Consumers, TakeMessage(c)
  PROVE  \E p, s \in Nat :
           /\ p = IF pauseFlag_[c] THEN late[c].pause + 1 ELSE late[c].pause
           /\ s = IF stopFlag_[c] THEN late[c].stop + 1 ELSE late[c].stop
           /\ late' = [late EXCEPT ![c] = [pause |-> p, stop |-> s]]
<1> DEFINE p == IF pauseFlag_[c] THEN late[c].pause + 1 ELSE late[c].pause
           s == IF stopFlag_[c] THEN late[c].stop + 1 ELSE late[c].stop
<1>1. late \in [Consumers -> [pause : Nat, stop : Nat]]
  BY DEF TypeOK
<1>2. late[c] \in [pause : Nat, stop : Nat]
  BY <1>1
<1>3. p \in Nat /\ s \in Nat
  BY <1>2
<1>4. late' = [late EXCEPT ![c].pause = p, ![c].stop = s]
  BY DEF TakeMessage
<1> HIDE DEF p, s
<1>5. [late[c] EXCEPT !.pause = p, !.stop = s] = [pause |-> p, stop |-> s]
  <2> DEFINE r == [late[c] EXCEPT !.pause = p, !.stop = s]
  <2>1. r \in [pause : Nat, stop : Nat] /\ r.pause = p /\ r.stop = s
    BY <1>2, <1>3
  <2> HIDE DEF r
  <2>2. r = [pause |-> p, stop |-> s]
    BY <1>3, <2>1
  <2> QED BY <2>2 DEF r
<1>6. late' = [late EXCEPT ![c] = [late[c] EXCEPT !.pause = p, !.stop = s]]
  BY <1>1, <1>4
<1>7. late' = [late EXCEPT ![c] = [pause |-> p, stop |-> s]]
  BY <1>5, <1>6
<1> QED BY <1>3, <1>7 DEF p, s

LEMMA TypeCorrect == Spec => []TypeOK
<1>1. Init => TypeOK
  BY DEF Init, TypeOK, Labels
<1>2. TypeOK /\ [Next]_vars => TypeOK'
  <2> SUFFICES ASSUME TypeOK, [Next]_vars PROVE TypeOK'
    OBVIOUS
  <2> USE DEF TypeOK
  <2>1. ASSUME NEW m \in Messages, Enqueue(m),
               UNCHANGED <<pc, flagVars, taken, late>>
        PROVE  TypeOK'
    BY <2>1, AppendProperties DEF Enqueue, flagVars
  <2>2. ASSUME NEW m \in Messages,
               Publish(m) \/ \E c \in Consumers : Push(c, m)
        PROVE  TypeOK'
    BY <2>1, <2>2 DEF Publish, Push
  <2>3. ASSUME NEW c \in Consumers, start(c) PROVE TypeOK'
    BY <2>3 DEF start, Goto, queueVars, flagVars, Labels
  <2>4. ASSUME NEW c \in Consumers, pause(c) \/ stop(c) PROVE TypeOK'
    BY <2>4 DEF pause, stop, queueVars
  <2>5. ASSUME NEW c \in Consumers, resume(c) PROVE TypeOK'
    BY <2>5 DEF resume, queueVars
  <2>6. ASSUME NEW c \in Consumers, TakeMessage(c),
               UNCHANGED <<flagVars, sent>>
        PROVE  TypeOK'
    <3>1. Head(queue_) \in Messages /\ Tail(queue_) \in Seq(Messages)
      BY <2>6, HeadTailProperties DEF TakeMessage
    <3>2. taken' \in Seq(Messages) /\ queue_' \in Seq(Messages)
      BY <2>6, <3>1, AppendProperties DEF TakeMessage
    <3>3. pc' \in [Consumers -> Labels]
      BY <2>6 DEF TakeMessage, Goto, Labels
    <3>4. late' \in [Consumers -> [pause : Nat, stop : Nat]]
      <4>1. PICK p, s \in Nat :
              late' = [late EXCEPT ![c] = [pause |-> p, stop |-> s]]
        BY <2>6, TakenLate
      <4> QED BY <4>1
    <3> QED BY <2>6, <3>2, <3>3, <3>4 DEF flagVars
  <2>7. ASSUME NEW c \in Consumers, UNCHANGED <<queue_, sent, taken>>,
               join(c) \/ TestStopFlag(c) \/ WaitForMessage(c)
                 \/ RecheckQueue(c) \/ ProcessMessage(c) \/ WaitWhilePaused(c)
        PROVE  TypeOK'
    BY <2>7 DEF join, TestStopFlag, WaitForMessage, RecheckQueue,
                ProcessMessage, WaitWhilePaused, Goto, flagVars, Labels
  <2>8. CASE UNCHANGED <<queue_, pc, flagVars, sent, taken, late>>
    BY <2>8 DEF flagVars
  <2> QED BY <2>2, <2>3, <2>4, <2>5, <2>6, <2>7, <2>8, StepCases
<1> QED BY <1>1, <1>2, PTL DEF Spec

-----------------------------------------------------------------------------
(* The order of the messages. *)

(* What was sent is what has been taken, then what is queued.              *)
HistoryInv == sent = taken \o queue_

LEMMA HistoryInvariant == Spec => []HistoryInv
<1>1. Init => HistoryInv
  BY DEF Init, HistoryInv
<1>2. TypeOK /\ HistoryInv /\ [Next]_vars => HistoryInv'
  <2> SUFFICES ASSUME TypeOK, HistoryInv, [Next]_vars PROVE HistoryInv'
    OBVIOUS
  <2>1. queue_ \in Seq(Messages) /\ taken \in Seq(Messages)
    BY DEF TypeOK
  <2>2. ASSUME NEW m \in Messages, Enqueue(m), taken' = taken
        PROVE  HistoryInv'
    <3>1. /\ <<m>> \in Seq(Messages) /\ Append(queue_, m) = queue_ \o <<m>>
          /\ Append(taken \o queue_, m) = (taken \o queue_) \o <<m>>
      BY <2>1, ConcatProperties, AppendIsConcat
    <3>2. Append(taken \o queue_, m) = taken \o Append(queue_, m)
      BY <2>1, <3>1, ConcatAssociative
    <3> QED BY <2>2, <3>2 DEF Enqueue, HistoryInv
  <2>3. ASSUME NEW c \in Consumers, TakeMessage(c), sent' = sent
        PROVE  HistoryInv'
    BY <2>1, <2>3, ConcatMove DEF TakeMessage, HistoryInv
  <2>4. ASSUME UNCHANGED <<queue_, sent, taken>> PROVE HistoryInv'
    BY <2>4 DEF HistoryInv
  <2> QED BY <2>2, <2>3, <2>4, StepCases
          DEF Publish, Push, start, pause, resume, stop, queueVars
<1> QED BY <1>1, <1>2, TypeCorrect, PTL DEF Spec

(* The consumers together are one FIFO queue: messages are taken in the    *)
(* order they were put in, each once, whoever sent and whoever takes them. *)
THEOREM MessagesAreTakenInOrder == Spec => ImplementsFifo
<1>1. Init => Fifo!Init
  BY DEF Init, Fifo!Init
<1>2. TypeOK /\ HistoryInv /\ [Next]_vars => [Fifo!Next]_<<sent, taken>>
  <2> SUFFICES ASSUME TypeOK, HistoryInv, [Next]_vars
               PROVE  [Fifo!Next]_<<sent, taken>>
    OBVIOUS
  <2>1. ASSUME NEW m \in Messages, Enqueue(m), taken' = taken
        PROVE  Fifo!Next
    BY <2>1 DEF Enqueue, Fifo!Next, Fifo!Send
  <2>2. ASSUME NEW c \in Consumers, TakeMessage(c), sent' = sent
        PROVE  Fifo!Next
    <3>1. /\ Len(taken) < Len(sent)
          /\ sent[Len(taken) + 1] = Head(queue_)
      BY <2>2, ConcatMove DEF TakeMessage, TypeOK, HistoryInv
    <3> QED BY <2>2, <3>1 DEF TakeMessage, Fifo!Next, Fifo!Receive
  <2> QED BY <2>1, <2>2, StepCases
          DEF Publish, Push, start, pause, resume, stop, queueVars
<1> QED BY <1>1, <1>2, TypeCorrect, HistoryInvariant, PTL
        DEF Spec, ImplementsFifo, Fifo!Spec

-----------------------------------------------------------------------------
(* How soon pause() and stop() take effect. *)

(* A message taken late leaves the thread past every place where it could  *)
(* take another one before it has read the flag: the pause loop lets it    *)
(* out only when it is resumed, and the test of stopFlag_ ends it.         *)
PromptInv ==
  \A c \in Consumers :
    /\ ~pauseFlag_[c] => late[c].pause = 0
    /\ late[c].pause > 0 => pc[c] \in {"process", "pause", "exited", "new"}
    /\ late[c].stop > 0
         => stopFlag_[c] /\ pc[c] \in {"process", "pause", "loop", "exited", "new"}

(* pause() and stop() are not obeyed at once, but after one message more   *)
(* at the latest.                                                          *)
THEOREM ControlTakesEffect == Spec => []ControlIsPrompt
<1>1. Init => PromptInv /\ ControlIsPrompt
  BY DEF Init, PromptInv, ControlIsPrompt
<1>2. TypeOK /\ PromptInv /\ ControlIsPrompt /\ [Next]_vars
        => PromptInv' /\ ControlIsPrompt'
  <2> SUFFICES ASSUME TypeOK, PromptInv, ControlIsPrompt, [Next]_vars
               PROVE  PromptInv' /\ ControlIsPrompt'
    OBVIOUS
  <2> USE DEF TypeOK, PromptInv, ControlIsPrompt
  <2>1. ASSUME UNCHANGED <<pc, flagVars, late>>
        PROVE  PromptInv' /\ ControlIsPrompt'
    BY <2>1 DEF flagVars
  <2>2. ASSUME NEW c \in Consumers, start(c)
        PROVE  PromptInv' /\ ControlIsPrompt'
    BY <2>2 DEF start, Goto, flagVars, Labels
  <2>3. ASSUME NEW c \in Consumers, pause(c) \/ stop(c)
        PROVE  PromptInv' /\ ControlIsPrompt'
    BY <2>3 DEF pause, stop
  <2>4. ASSUME NEW c \in Consumers, resume(c)
        PROVE  PromptInv' /\ ControlIsPrompt'
    BY <2>4 DEF resume
  <2>5. ASSUME NEW c \in Consumers, pc[c] = "pop", TakeMessage(c),
               UNCHANGED flagVars
        PROVE  PromptInv' /\ ControlIsPrompt'
    <3>1. PICK p, s \in Nat :
            /\ p = IF pauseFlag_[c] THEN late[c].pause + 1 ELSE late[c].pause
            /\ s = IF stopFlag_[c] THEN late[c].stop + 1 ELSE late[c].stop
            /\ late' = [late EXCEPT ![c] = [pause |-> p, stop |-> s]]
      BY <2>5, TakenLate
    <3>2. pc' = [pc EXCEPT ![c] = "process"]
      BY <2>5 DEF TakeMessage, Goto
    <3>3. late[c].pause = 0 /\ late[c].stop = 0
      <4>1. late[c] \in [pause : Nat, stop : Nat]
        OBVIOUS
      <4>2. ~(late[c].pause > 0) /\ ~(late[c].stop > 0)
        BY <2>5
      <4> QED BY <4>1, <4>2
    <3>4. /\ p <= 1 /\ (~pauseFlag_[c] => p = 0)
          /\ s <= 1 /\ (s > 0 => stopFlag_[c])
      BY <3>1, <3>3
    <3>5. /\ late'[c] = [pause |-> p, stop |-> s] /\ pc'[c] = "process"
          /\ \A d \in Consumers \ {c} : late'[d] = late[d] /\ pc'[d] = pc[d]
      BY <3>1, <3>2
    <3>6. UNCHANGED <<pauseFlag_, stopFlag_>>
      BY <2>5 DEF flagVars
    <3>7. PromptInv'
      BY <3>4, <3>5, <3>6
    <3>8. ControlIsPrompt'
      <4>1. late'[c].pause <= 1 /\ late'[c].stop <= 1
        BY <3>4, <3>5
      <4>2. \A d \in Consumers \ {c} :
              late'[d].pause <= 1 /\ late'[d].stop <= 1
        BY <3>5
      <4> QED BY <4>1, <4>2
    <3> QED BY <3>7, <3>8
  <2>6. ASSUME NEW c \in Consumers, join(c) \/ TestStopFlag(c)
        PROVE  PromptInv' /\ ControlIsPrompt'
    BY <2>6 DEF join, TestStopFlag, Goto, flagVars, Labels
  <2>7. ASSUME NEW c \in Consumers, WaitForMessage(c) \/ RecheckQueue(c)
        PROVE  PromptInv' /\ ControlIsPrompt'
    BY <2>7 DEF WaitForMessage, RecheckQueue, Goto, flagVars, Labels
  <2>8. ASSUME NEW c \in Consumers, ProcessMessage(c) \/ WaitWhilePaused(c)
        PROVE  PromptInv' /\ ControlIsPrompt'
    <3>1. CASE ProcessMessage(c)
      BY <3>1 DEF ProcessMessage, Goto, flagVars, Labels
    <3>2. CASE WaitWhilePaused(c)
      <4>1. pc[c] = "pause" /\ UNCHANGED <<pauseFlag_, stopFlag_, late>>
        BY <3>2 DEF WaitWhilePaused, flagVars
      <4>2. CASE pauseFlag_[c]
        <5>1. UNCHANGED <<pc, flagVars, late>>
          BY <3>2, <4>2 DEF WaitWhilePaused
        <5> QED BY <2>1, <5>1
      <4>3. CASE ~pauseFlag_[c]
        <5>1. pc' = [pc EXCEPT ![c] = "loop"]
          BY <3>2, <4>3 DEF WaitWhilePaused, Goto
        <5>2. ~(late[c].pause > 0)
          BY <4>3
        <5> QED BY <4>1, <5>1, <5>2
      <4> QED BY <4>2, <4>3
    <3> QED BY <2>8, <3>1, <3>2
  <2> QED BY <2>1, <2>2, <2>3, <2>4, <2>5, <2>6, <2>7, <2>8, StepCases
          DEF Publish, Push
<1> QED BY <1>1, <1>2, TypeCorrect, PTL DEF Spec

=============================================================================
