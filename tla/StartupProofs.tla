---------------------------- MODULE StartupProofs ----------------------------
(***************************************************************************)
(* What the log and the configuration guarantee for any threads, files,    *)
(* variables and arguments, and any number of messages and steps.          *)
(***************************************************************************)
EXTENDS Startup, SequenceTheorems, FiniteSetTheorems, WellFoundedInduction,
        NaturalsInduction, TLAPS

(***************************************************************************)
(* The log.                                                                *)
(***************************************************************************)
Messages == Writers \X Nat
Holding == {"branch", "deref", "file", "console"}
IsStream(s) ==
  /\ s \in [path : {s.path}, made : Nat, open : BOOLEAN, at : Nat]
  /\ s.open => s.path \in Openable

LogTypeOK ==
  /\ logMutex_ \in Writers \cup {"none"}
  /\ step \in [Writers -> {"idle", "lock"} \cup Holding]
  /\ number \in [Writers -> Nat]
  /\ DOMAIN stream = Writers
  /\ console \in Seq(Messages \X (1..5))
  /\ DOMAIN files = Paths
  /\ \A p \in Paths : DOMAIN files[p] \subseteq Nat
  /\ order \in Seq(Messages)
  /\ IsStream(logFile_) /\ IsStream(opened)
  /\ \A t \in Writers : IsStream(stream[t])

(* The mutex is held by exactly the thread that is between lock and unlock. *)
MutexInv == \A t \in Writers : step[t] \in Holding <=> logMutex_ = t

(* A message gets the mutex once. No message is newer than the one its     *)
(* thread logs now, one that waits for the mutex has not had it, and the   *)
(* holder's is the last that got it.                                       *)
Ordered(m) == \E k \in 1..Len(order) : order[k] = m
OrderInv ==
  /\ \A i, j \in 1..Len(order) : order[i] = order[j] => i = j
  /\ \A i \in 1..Len(order) : order[i][2] <= number[order[i][1]]
  /\ \A t \in Writers : step[t] = "lock" => ~Ordered(message(t))
  /\ \A t \in Writers : logMutex_ = t =>
       order # <<>> /\ order[Len(order)] = message(t)

(* What has come out has had the mutex; and what the holder is yet to write *)
(* has not come out elsewhere.                                             *)
Shown(m) == \E i \in 1..Len(console) : console[i][1] = m
OutputInv ==
  /\ \A i \in 1..Len(console) : Ordered(console[i][1])
  /\ \A p \in Paths : \A k \in DOMAIN files[p] : Ordered(files[p][k])
  /\ \A t \in Writers : step[t] \in Holding \ {"console"} => ~Shown(message(t))
  /\ \A t \in Writers : step[t] \in Holding => ~InFile(message(t))
  /\ \A i \in 1..Len(console) : ~InFile(console[i][1])

(* The console is a sequence of entries of five lines; while a thread       *)
(* writes one, what follows the last whole entry is the part it has written. *)
Rest == Len(console) % 5
ConsoleInv ==
  /\ (\A t \in Writers : step[t] # "console") => Rest = 0
  /\ \A t \in Writers : step[t] = "console" =>
       \A i \in 1..Len(console) :
         console[i][1] = message(t) <=> i > Len(console) - Rest
  /\ EntriesAreWhole

(* Each message that had the mutex is being written, has come out, or is   *)
(* excused, and so is the one whose stream has been replaced.              *)
FateInv ==
  /\ \A i \in 1..Len(order) :
       Writing(order[i]) \/ OnConsole(order[i]) \/ InFile(order[i]) \/ order[i] \in excused
  /\ \A t \in Writers : step[t] = "file" /\ stream[t] # logFile_ => message(t) \in excused

(* A stream is behind all that is in its file, except for what may be lost; *)
(* and what may be lost is all that is in the file of the stream that is    *)
(* opened and not assigned yet.                                            *)
Fits(s) == \A k \in DOMAIN files[s.path] : files[s.path][k] \in excused \/ k < s.at
StreamInv ==
  /\ logFile_.open => Fits(logFile_)
  /\ \A t \in Writers : step[t] = "file" /\ stream[t].open => Fits(stream[t])
  /\ opened.open => \A k \in DOMAIN files[opened.path] : files[opened.path][k] \in excused

(* The files, but for what may be lost, and the console follow the order of *)
(* the mutex.                                                              *)
FilesFollow ==
  \A p \in Paths : \A i, j \in DOMAIN files[p] :
    i < j /\ files[p][i] \notin excused /\ files[p][j] \notin excused =>
      \A k, l \in 1..Len(order) : order[k] = files[p][i] /\ order[l] = files[p][j] => k < l
Follows(s) ==
  \A i, j \in 1..Len(s) : i < j /\ s[i] # s[j] =>
    \A k, l \in 1..Len(order) : order[k] = s[i] /\ order[l] = s[j] => k < l
ConsoleMessages == [i \in 1..Len(console) |-> console[i][1]]
SequenceInv == FilesFollow /\ Follows(ConsoleMessages)

LogInv ==
  /\ LogTypeOK /\ MutexInv /\ OrderInv /\ OutputInv
  /\ ConsoleInv /\ FateInv /\ StreamInv /\ SequenceInv

-----------------------------------------------------------------------------
(* At first there is nothing to be out of order.                           *)
LEMMA LogInitially == Init => LogInv
<1> SUFFICES ASSUME Init PROVE LogInv
  OBVIOUS
<1> USE DEF Init, LoggerInit
<1>1. /\ Len(console) = 0 /\ Len(order) = 0
      /\ \A p \in Paths : DOMAIN files[p] = {}
  BY EmptySeq DEF Empty
<1>2. LogTypeOK
  <2>1. IsStream(NoStream)
    BY DEF IsStream, NoStream
  <2> QED BY <1>1, <2>1, EmptySeq DEF LogTypeOK, Holding
<1>3. MutexInv
  BY WritersAssumption DEF MutexInv, Holding
<1>4. OrderInv
  BY <1>1, WritersAssumption DEF OrderInv, Ordered
<1>5. OutputInv
  BY <1>1 DEF OutputInv, Holding
<1>6. ConsoleInv
  BY <1>1 DEF ConsoleInv, Rest, EntriesAreWhole
<1>7. FateInv /\ StreamInv
  BY <1>1 DEF FateInv, StreamInv, NoStream
<1>8. SequenceInv
  BY <1>1 DEF SequenceInv, FilesFollow, Follows, ConsoleMessages
<1> QED BY <1>2, <1>3, <1>4, <1>5, <1>6, <1>7, <1>8 DEF LogInv

(* What the configuration and setLogLevel() leave as it was.               *)
Untouched ==
  UNCHANGED <<logFile_, opened, logMutex_, step, number, stream, console, files, order, excused>>
LEMMA UntouchedKeeps == ASSUME LogInv, Untouched PROVE LogInv'
<1>1. LogTypeOK' /\ MutexInv'
  BY DEF LogInv, Untouched, LogTypeOK, MutexInv
<1>2. OrderInv' /\ OutputInv'
  BY DEF LogInv, Untouched, OrderInv, OutputInv, Ordered, Shown, InFile, message
<1>3. ConsoleInv'
  BY DEF LogInv, Untouched, ConsoleInv, Rest, EntriesAreWhole, message
<1>4. FateInv' /\ StreamInv'
  BY DEF LogInv, Untouched, FateInv, StreamInv, Fits, Writing, OnConsole, InFile, message
<1>5. SequenceInv'
  <2>1. ConsoleMessages' = ConsoleMessages /\ files' = files /\ order' = order /\ excused' = excused
    BY DEF Untouched, ConsoleMessages
  <2> QED BY <2>1 DEF LogInv, SequenceInv, FilesFollow, Follows
<1> QED BY <1>1, <1>2, <1>3, <1>4, <1>5 DEF LogInv

(* setLogFile() opens and empties a file, at any moment.                   *)
LEMMA OpenKeeps ==
  ASSUME NEW path, LogInv, Open(path), order' = order
  PROVE  LogInv'
<1>1. /\ UNCHANGED <<logLevel_, logFile_, logMutex_, step, number, stream, console>>
      /\ opened' = [path |-> path, made |-> logFile_.made + 1, open |-> path \in Openable, at |-> 0]
      /\ files' = IF path \in Openable THEN [files EXCEPT ![path] = Empty] ELSE files
  BY DEF Open, OpenFile
<1>2. /\ \A m : m \in excused => m \in excused'
      /\ path \in Openable => \A i \in DOMAIN files[path] : files[path][i] \in excused'
  BY DEF Open
<1>3. /\ DOMAIN files' = Paths /\ DOMAIN Empty = {}
      /\ \A p \in Paths : files'[p] = files[p] \/ (p = path /\ path \in Openable /\ files'[p] = Empty)
      /\ path \in Openable => path \in Paths /\ files'[path] = Empty
  BY <1>1, PathsAssumption DEF LogInv, LogTypeOK, Empty
<1>4. \A p \in Paths : \A k \in DOMAIN files'[p] : k \in DOMAIN files[p] /\ files'[p] = files[p]
  BY <1>3
<1>5. \A m : InFile(m)' => InFile(m)
  BY <1>4 DEF InFile
<1>6. LogTypeOK'
  <2>1. IsStream(opened')
    <3>1. logFile_.made + 1 \in Nat
      BY DEF LogInv, LogTypeOK, IsStream
    <3>2. (path \in Openable) \in BOOLEAN /\ 0 \in Nat
      OBVIOUS
    <3> QED BY <1>1, <3>1, <3>2 DEF IsStream
  <2>2. \A p \in Paths : DOMAIN files'[p] \subseteq Nat
    BY <1>4 DEF LogInv, LogTypeOK
  <2> QED BY <1>1, <1>3, <2>1, <2>2 DEF LogInv, LogTypeOK, IsStream
<1>7. MutexInv' /\ OrderInv' /\ ConsoleInv'
  BY <1>1 DEF LogInv, MutexInv, OrderInv, ConsoleInv, Ordered, Rest, EntriesAreWhole, message
<1>8. OutputInv'
  BY <1>1, <1>4, <1>5 DEF LogInv, OutputInv, Ordered, Shown, message
<1>9. FateInv'
  <2>1. ASSUME NEW i \in 1..Len(order), InFile(order[i])
        PROVE  InFile(order[i])' \/ order[i] \in excused'
    <3>1. PICK p \in Paths : \E j \in DOMAIN files[p] : files[p][j] = order[i]
      BY <2>1 DEF InFile
    <3>2. CASE files'[p] = files[p]
      BY <1>1, <3>1, <3>2 DEF InFile
    <3>3. CASE p = path /\ path \in Openable
      BY <1>2, <3>1, <3>3
    <3> QED BY <1>3, <3>2, <3>3
  <2>2. \A i \in 1..Len(order) :
          Writing(order[i])' \/ OnConsole(order[i])' \/ InFile(order[i])' \/ order[i] \in excused'
    BY <1>1, <1>2, <2>1 DEF LogInv, FateInv, Writing, OnConsole
  <2> QED BY <1>1, <1>2, <2>2 DEF LogInv, FateInv, message
<1>10. StreamInv'
  <2>1. ASSUME NEW s, IsStream(s), s.open, Fits(s)
        PROVE  \A k \in DOMAIN files'[s.path] : files'[s.path][k] \in excused' \/ k < s.at
    BY <1>2, <1>4, <2>1, PathsAssumption DEF IsStream, Fits
  <2>2. logFile_'.open => Fits(logFile_)'
    BY <1>1, <2>1 DEF LogInv, LogTypeOK, StreamInv, Fits
  <2>3. \A t \in Writers : step'[t] = "file" /\ stream'[t].open => Fits(stream[t])'
    BY <1>1, <2>1 DEF LogInv, LogTypeOK, StreamInv, Fits
  <2>4. opened'.open => DOMAIN files'[opened'.path] = {}
    BY <1>1, <1>3
  <2> QED BY <2>2, <2>3, <2>4 DEF StreamInv
<1>11. SequenceInv'
  <2>1. FilesFollow'
    BY <1>2, <1>4 DEF LogInv, SequenceInv, FilesFollow
  <2>2. ConsoleMessages' = ConsoleMessages
    BY <1>1 DEF ConsoleMessages
  <2> QED BY <2>1, <2>2 DEF LogInv, SequenceInv, Follows
<1> QED BY <1>6, <1>7, <1>8, <1>9, <1>10, <1>11 DEF LogInv

(* setLogFile() assigns the stream, and the threads that write to the old  *)
(* one go on with it.                                                      *)
LEMMA AssignedKeeps == ASSUME LogInv, Assigned PROVE LogInv'
<1>1. /\ UNCHANGED <<logLevel_, logMutex_, step, number, stream, console, files, order>>
      /\ logFile_' = opened /\ opened' = NoStream
  BY DEF Assigned, Replace
<1>2. /\ \A m : m \in excused => m \in excused'
      /\ \A t \in Writers : step[t] = "file" => message(t) \in excused'
  BY DEF Assigned
<1>3. LogTypeOK'
  <2>1. IsStream(NoStream)
    BY DEF IsStream, NoStream
  <2> QED BY <1>1, <2>1 DEF LogInv, LogTypeOK
<1>4. MutexInv' /\ OrderInv' /\ ConsoleInv'
  BY <1>1 DEF LogInv, MutexInv, OrderInv, ConsoleInv, Ordered, Rest, EntriesAreWhole, message
<1>5. OutputInv'
  BY <1>1 DEF LogInv, OutputInv, Ordered, Shown, InFile, message
<1>6. FateInv'
  BY <1>1, <1>2 DEF LogInv, FateInv, Writing, OnConsole, InFile, message
<1>7. StreamInv'
  <2>1. logFile_'.open => Fits(logFile_)'
    BY <1>1, <1>2 DEF LogInv, StreamInv, Fits
  <2>2. \A t \in Writers : step'[t] = "file" /\ stream'[t].open => Fits(stream[t])'
    BY <1>1, <1>2 DEF LogInv, StreamInv, Fits
  <2> QED BY <1>1, <2>1, <2>2 DEF StreamInv, NoStream
<1>8. SequenceInv'
  <2>1. FilesFollow'
    BY <1>1, <1>2 DEF LogInv, SequenceInv, FilesFollow
  <2>2. ConsoleMessages' = ConsoleMessages
    BY <1>1 DEF ConsoleMessages
  <2> QED BY <1>1, <2>1, <2>2 DEF LogInv, SequenceInv, Follows
<1> QED BY <1>3, <1>4, <1>5, <1>6, <1>7, <1>8 DEF LogInv

(* A message that is new is nowhere yet: what there is is older.           *)
LEMMA LogKeeps ==
  ASSUME NEW t \in Writers, NEW level, LogInv, log(t, level),
         order' = order, excused' = excused
  PROVE  LogInv'
<1>1. /\ step[t] = "idle" /\ number' = [number EXCEPT ![t] = @ + 1]
      /\ step' = step \/ step' = [step EXCEPT ![t] = "lock"]
      /\ UNCHANGED <<logLevel_, logFile_, opened, logMutex_, stream, console, files>>
  BY DEF log
<1>2. LogTypeOK /\ number[t] \in Nat
  BY DEF LogInv, LogTypeOK
<1>3. LogTypeOK'
  BY <1>1, <1>2 DEF LogTypeOK
<1>4. /\ step'[t] \in {"idle", "lock"} /\ number'[t] = number[t] + 1
      /\ \A u \in Writers \ {t} :
           step'[u] = step[u] /\ number'[u] = number[u] /\ message(u)' = message(u)
      /\ logMutex_ # t
  BY <1>1, <1>2 DEF LogTypeOK, message, LogInv, MutexInv, Holding
<1>5. MutexInv'
  BY <1>1, <1>4 DEF LogInv, MutexInv, Holding
<1>6. \A i \in 1..Len(order) :
        order[i] \in Messages /\ order[i][1] \in Writers /\ order[i][2] \in Nat
        /\ order[i][2] <= number[order[i][1]]
  BY <1>2 DEF LogInv, LogTypeOK, OrderInv, Messages
<1>7. ~Ordered(message(t)')
  BY <1>2, <1>4, <1>6 DEF Ordered, message
<1>8. OrderInv'
  <2>1. \A i \in 1..Len(order) : order[i][2] <= number'[order[i][1]]
    BY <1>2, <1>4, <1>6 DEF LogTypeOK
  <2>2. \A u \in Writers : step'[u] = "lock" => ~Ordered(message(u)')
    BY <1>4, <1>7 DEF LogInv, OrderInv
  <2>3. \A u \in Writers : logMutex_' = u => order # <<>> /\ order[Len(order)] = message(u)'
    BY <1>1, <1>4 DEF LogInv, OrderInv
  <2> QED BY <2>1, <2>2, <2>3 DEF LogInv, OrderInv, Ordered
<1>9. OutputInv'
  BY <1>1, <1>4 DEF LogInv, OutputInv, Ordered, Shown, InFile, Holding
<1>10. ConsoleInv'
  BY <1>1, <1>4 DEF LogInv, ConsoleInv, Rest, EntriesAreWhole
<1>11. FateInv'
  <2>1. \A i \in 1..Len(order) : Writing(order[i]) => Writing(order[i])'
    <3> SUFFICES ASSUME NEW i \in 1..Len(order), Writing(order[i])
                 PROVE  Writing(order[i])'
      OBVIOUS
    <3>1. order[i][1] # t
      BY <1>1 DEF Writing
    <3> QED BY <1>1, <1>4, <1>6, <3>1 DEF Writing
  <2> QED BY <1>1, <1>4, <2>1 DEF LogInv, FateInv, OnConsole, InFile
<1>12. StreamInv'
  BY <1>1, <1>4 DEF LogInv, StreamInv, Fits
<1>13. SequenceInv'
  <2>1. ConsoleMessages' = ConsoleMessages
    BY <1>1 DEF ConsoleMessages
  <2> QED BY <1>1, <2>1 DEF LogInv, SequenceInv, FilesFollow, Follows
<1> QED BY <1>3, <1>5, <1>8, <1>9, <1>10, <1>11, <1>12, <1>13 DEF LogInv

(* Whoever gets the mutex gets the next place in the order.                *)
LEMMA LockKeeps ==
  ASSUME NEW t \in Writers, LogInv, Lock(t),
         order' = Append(order, message(t)), excused' = excused
  PROVE  LogInv'
<1>1. /\ step[t] = "lock" /\ logMutex_ = "none" /\ logMutex_' = t
      /\ step' = [step EXCEPT ![t] = "branch"]
      /\ UNCHANGED <<logLevel_, logFile_, opened, number, stream, console, files>>
  BY DEF Lock
<1>2. LogTypeOK /\ message(t) \in Messages
  BY DEF LogInv, LogTypeOK, message, Messages
<1>3. LogTypeOK'
  BY <1>1, <1>2, AppendProperties DEF LogTypeOK, Holding
<1>4. /\ step'[t] = "branch"
      /\ \A u \in Writers \ {t} : step'[u] = step[u] /\ step[u] \notin Holding
      /\ \A u \in Writers : message(u)' = message(u)
  BY <1>1, <1>2, WritersAssumption DEF LogTypeOK, message, LogInv, MutexInv
<1>5. MutexInv'
  BY <1>1, <1>4 DEF LogInv, MutexInv, Holding
<1>6. /\ Len(order) \in Nat /\ Len(order') = Len(order) + 1
      /\ order'[Len(order) + 1] = message(t)
      /\ \A i \in 1..Len(order) : order'[i] = order[i]
      /\ order' # <<>>
  <2>1. Len(order) \in Nat /\ order \in Seq(Messages)
    BY <1>2 DEF LogTypeOK
  <2>2. /\ Len(order') = Len(order) + 1 /\ order'[Len(order) + 1] = message(t)
        /\ \A i \in 1..Len(order) : order'[i] = order[i]
    BY <1>2, <2>1, AppendProperties
  <2> QED BY <2>1, <2>2, EmptySeq
<1>7. \A i \in 1..Len(order) : order[i] # message(t)
  BY <1>1 DEF LogInv, OrderInv, Ordered
<1>8. \A m : Ordered(m) => Ordered(m)'
  BY <1>6 DEF Ordered
<1>9. \A m : Ordered(m)' => Ordered(m) \/ m = message(t)
  BY <1>6 DEF Ordered
<1>10. OrderInv'
  <2>1. \A i, j \in 1..Len(order') : order'[i] = order'[j] => i = j
    BY <1>6, <1>7 DEF LogInv, OrderInv
  <2>2. \A i \in 1..Len(order') : order'[i][2] <= number[order'[i][1]]
    BY <1>2, <1>6 DEF LogInv, OrderInv, message, LogTypeOK
  <2>3. \A u \in Writers : step'[u] = "lock" => ~Ordered(message(u))'
    <3> SUFFICES ASSUME NEW u \in Writers, step'[u] = "lock" PROVE ~Ordered(message(u))'
      OBVIOUS
    <3>1. u # t /\ message(u) # message(t) /\ ~Ordered(message(u))
      BY <1>4 DEF LogInv, OrderInv, message
    <3> QED BY <1>4, <1>9, <3>1
  <2>4. \A u \in Writers : logMutex_' = u =>
          order' # <<>> /\ order'[Len(order')] = message(u)
    BY <1>1, <1>6
  <2> QED BY <1>1, <1>4, <2>1, <2>2, <2>3, <2>4 DEF OrderInv
<1>11. OutputInv'
  <2>1. ~Shown(message(t)) /\ ~InFile(message(t))
    BY <1>1 DEF LogInv, OutputInv, OrderInv, Shown, InFile
  <2>2. /\ \A i \in 1..Len(console) : Ordered(console[i][1])'
        /\ \A p \in Paths : \A k \in DOMAIN files[p] : Ordered(files[p][k])'
    BY <1>1, <1>8 DEF LogInv, OutputInv
  <2> QED BY <1>1, <1>4, <2>1, <2>2 DEF LogInv, OutputInv, Shown, InFile, Holding
<1>12. ConsoleInv'
  BY <1>1, <1>4 DEF LogInv, ConsoleInv, Rest, EntriesAreWhole
<1>13. FateInv'
  <2>1. Writing(message(t))'
    BY <1>1, <1>4 DEF Writing, message
  <2>2. \A i \in 1..Len(order) : Writing(order[i]) => Writing(order[i])'
    <3> SUFFICES ASSUME NEW i \in 1..Len(order), Writing(order[i])
                 PROVE  Writing(order[i])'
      OBVIOUS
    <3>1. order[i][1] \in Writers
      BY <1>2 DEF LogTypeOK, Messages
    <3> QED BY <1>1, <1>4, <1>6, <3>1 DEF Writing
  <2>3. \A i \in 1..Len(order') :
          \/ Writing(order[i])' \/ OnConsole(order[i])'
          \/ InFile(order[i])' \/ order[i]' \in excused'
    <3>1. ASSUME NEW i \in 1..Len(order)
          PROVE  \/ Writing(order[i])' \/ OnConsole(order[i])'
                 \/ InFile(order[i])' \/ order[i]' \in excused'
      <4>1. OnConsole(order[i]) => OnConsole(order[i])'
        BY <1>1, <1>6 DEF OnConsole
      <4>2. InFile(order[i]) => InFile(order[i])'
        BY <1>1, <1>6 DEF InFile
      <4> QED BY <1>6, <2>2, <4>1, <4>2 DEF LogInv, FateInv
    <3>2. ASSUME NEW i \in 1..Len(order'), i = Len(order) + 1
          PROVE  Writing(order[i])'
      BY <2>1, <1>4, <1>6, <3>2 DEF Writing
    <3> QED BY <1>6, <3>1, <3>2
  <2> QED BY <1>1, <1>4, <2>3 DEF LogInv, FateInv
<1>14. StreamInv'
  BY <1>1, <1>4 DEF LogInv, StreamInv, Fits
<1>15. SequenceInv'
  <2>1. ConsoleMessages' = ConsoleMessages
    BY <1>1 DEF ConsoleMessages
  <2>2. ASSUME NEW s, Follows(s), \A i \in 1..Len(s) : Ordered(s[i])
        PROVE  \A i, j \in 1..Len(s) : i < j /\ s[i] # s[j] =>
                 \A k, l \in 1..Len(order') : order'[k] = s[i] /\ order'[l] = s[j] => k < l
    <3>1. \A i \in 1..Len(s) : s[i] # message(t)
      BY <2>2, <1>7 DEF Ordered
    <3> QED BY SMTT(30), <2>2, <3>1, <1>6 DEF Follows
  <2>3. /\ Len(ConsoleMessages) = Len(console)
        /\ \A i \in 1..Len(console) : ConsoleMessages[i] = console[i][1]
    BY <1>2 DEF ConsoleMessages, LogTypeOK
  <2>4. Follows(ConsoleMessages) /\ \A i \in 1..Len(ConsoleMessages) : Ordered(ConsoleMessages[i])
    BY <2>3 DEF LogInv, SequenceInv, OutputInv
  <2>5. Follows(ConsoleMessages)'
    BY SMTT(30), <2>1, <2>2, <2>4 DEF Follows
  <2>6. FilesFollow'
    <3>1. \A p \in Paths : \A i \in DOMAIN files[p] : files[p][i] # message(t)
      BY <1>7 DEF LogInv, OutputInv, Ordered
    <3> QED BY <1>1, <1>6, <3>1 DEF LogInv, SequenceInv, FilesFollow
  <2> QED BY <1>1, <2>5, <2>6 DEF SequenceInv
<1> QED BY <1>3, <1>5, <1>10, <1>11, <1>12, <1>13, <1>14, <1>15 DEF LogInv


(* The holder of the mutex tests the stream, and looks at it again: nothing *)
(* of its message has come out yet.                                        *)
LEMMA BranchKeeps ==
  ASSUME NEW t \in Writers, LogInv, Branch(t) \/ Deref(t), order' = order, excused' = excused
  PROVE  LogInv'
<1>1. /\ step[t] \in {"branch", "deref"}
      /\ \/ step' = [step EXCEPT ![t] = "console"] /\ stream' = stream
         \/ step' = [step EXCEPT ![t] = "deref"] /\ stream' = stream
         \/ step' = [step EXCEPT ![t] = "file"] /\ stream' = [stream EXCEPT ![t] = logFile_]
      /\ UNCHANGED <<logLevel_, logFile_, opened, logMutex_, number, console, files>>
  BY DEF Branch, Deref
<1>2. LogTypeOK
  BY DEF LogInv
<1>3. LogTypeOK'
  BY <1>1, <1>2 DEF LogTypeOK, Holding
<1>4. /\ step'[t] \in {"deref", "file", "console"} /\ logMutex_ = t
      /\ step'[t] = "file" => stream'[t] = logFile_
      /\ \A u \in Writers \ {t} :
           step'[u] = step[u] /\ stream'[u] = stream[u] /\ step[u] \notin Holding
      /\ \A u \in Writers : message(u)' = message(u)
  BY <1>1, <1>2 DEF LogTypeOK, message, LogInv, MutexInv, Holding
<1>5. MutexInv'
  BY <1>1, <1>4 DEF LogInv, MutexInv, Holding
<1>6. OrderInv'
  BY <1>1, <1>4 DEF LogInv, OrderInv, Ordered
<1>7. ~Shown(message(t)) /\ ~InFile(message(t))
  BY <1>1 DEF LogInv, OutputInv, Holding
<1>8. OutputInv'
  <2>1. \A u \in Writers : step'[u] \in Holding \ {"console"} => ~Shown(message(u))'
    BY <1>1, <1>4, <1>7 DEF Shown, Holding
  <2>2. \A u \in Writers : step'[u] \in Holding => ~InFile(message(u))'
    BY <1>1, <1>4, <1>7 DEF InFile
  <2> QED BY <1>1, <2>1, <2>2 DEF LogInv, OutputInv, Ordered, InFile
<1>9. ConsoleInv'
  <2>1. Len(console) \in Nat
    BY <1>2 DEF LogTypeOK
  <2>2. \A u \in Writers : step[u] # "console"
    BY <1>1, <1>4 DEF Holding
  <2>3. Rest = 0
    BY <2>2 DEF LogInv, ConsoleInv
  <2>4. \A i \in 1..Len(console) : console[i][1] # message(t)
    BY <1>7 DEF Shown
  <2>5. \A u \in Writers : step'[u] = "console" => u = t
    BY <1>4 DEF Holding
  <2> QED BY <1>1, <1>4, <2>1, <2>3, <2>4, <2>5 DEF LogInv, ConsoleInv, Rest, EntriesAreWhole
<1>10. FateInv'
  <2>1. \A i \in 1..Len(order) : Writing(order[i]) => Writing(order[i])'
    <3> SUFFICES ASSUME NEW i \in 1..Len(order), Writing(order[i])
                 PROVE  Writing(order[i])'
      OBVIOUS
    <3>1. order[i][1] \in Writers
      BY <1>2 DEF LogTypeOK, Messages
    <3> QED BY <1>1, <1>4, <3>1 DEF Writing
  <2>2. \A i \in 1..Len(order) :
          \/ Writing(order[i])' \/ OnConsole(order[i])'
          \/ InFile(order[i])' \/ order[i] \in excused'
    BY <1>1, <2>1 DEF LogInv, FateInv, OnConsole, InFile
  <2>3. \A u \in Writers : step'[u] = "file" /\ stream'[u] # logFile_' => message(u) \in excused'
    BY <1>1, <1>4 DEF LogInv, FateInv
  <2> QED BY <1>4, <2>2, <2>3 DEF FateInv
<1>11. StreamInv'
  <2>1. \A u \in Writers : step'[u] = "file" => u = t
    BY <1>4 DEF Holding
  <2> QED BY <1>1, <1>4, <2>1 DEF LogInv, StreamInv, Fits
<1>12. SequenceInv'
  <2>1. ConsoleMessages' = ConsoleMessages
    BY <1>1 DEF ConsoleMessages
  <2> QED BY <1>1, <2>1 DEF LogInv, SequenceInv, FilesFollow, Follows
<1> QED BY <1>3, <1>5, <1>6, <1>8, <1>9, <1>10, <1>11, <1>12 DEF LogInv

(* A sequence that follows the order still does with the last message of   *)
(* the order at its end.                                                   *)
LEMMA FollowsLast ==
  ASSUME NEW s \in Seq(Messages), LogTypeOK, OrderInv, Follows(s), order # <<>>
  PROVE  Follows(Append(s, order[Len(order)]))
<1> DEFINE m == order[Len(order)]
           r == Append(s, m)
<1>1. Len(order) \in Nat \ {0} /\ m \in Messages
  BY EmptySeq DEF LogTypeOK
<1>2. /\ Len(s) \in Nat /\ Len(r) = Len(s) + 1 /\ r[Len(s) + 1] = m
      /\ \A i \in 1..Len(s) : r[i] = s[i]
  BY <1>1, AppendProperties
<1> HIDE DEF r
<1>3. ASSUME NEW i \in 1..Len(r), NEW j \in 1..Len(r), i < j, r[i] # r[j],
             NEW k \in 1..Len(order), NEW l \in 1..Len(order), order[k] = r[i], order[l] = r[j]
      PROVE  k < l
  <2>1. CASE j = Len(s) + 1
    <3>1. l = Len(order)
      BY <1>1, <1>2, <1>3, <2>1 DEF OrderInv
    <3>2. k # Len(order)
      BY <1>2, <1>3, <2>1
    <3> QED BY <1>1, <3>1, <3>2
  <2>2. CASE j \in 1..Len(s)
    <3>1. i \in 1..Len(s) /\ r[i] = s[i] /\ r[j] = s[j]
      BY <1>2, <1>3, <2>2
    <3> QED BY <1>3, <2>2, <3>1 DEF Follows
  <2> QED BY <1>2, <2>1, <2>2
<1>4. Follows(r)
  BY <1>3 DEF Follows
<1> QED BY <1>4 DEF r


(* The message is written to its file, or it is excused: its stream was    *)
(* not open, or is not the logger's any more. What it overwrites is excused. *)
LEMMA ToFileKeeps ==
  ASSUME NEW t \in Writers, LogInv, ToFile(t), order' = order,
         excused' = IF Risky(t) THEN excused \cup {message(t)} ELSE excused
  PROVE  LogInv'
<1> DEFINE s == stream[t]
           m == message(t)
           written == [files EXCEPT ![s.path] = Put(@, s.at, m)]
<1>1. /\ step[t] = "file" /\ step' = [step EXCEPT ![t] = "idle"] /\ logMutex_' = "none"
      /\ UNCHANGED <<logLevel_, opened, number, stream, console>>
  BY DEF ToFile
<1>2. \/ /\ s.open /\ files' = written
         /\ logFile_' = IF s = logFile_ THEN [s EXCEPT !.at = @ + 1] ELSE logFile_
      \/ (~s.open \/ s # logFile_) /\ files' = files /\ logFile_' = logFile_
  BY DEF ToFile
<1>3. LogTypeOK /\ m \in Messages /\ IsStream(s) /\ s.at \in Nat /\ (s.open => s.path \in Paths)
  BY PathsAssumption DEF LogInv, LogTypeOK, message, Messages, IsStream
<1>4. /\ step'[t] = "idle" /\ logMutex_ = t
      /\ \A u \in Writers \ {t} : step'[u] = step[u] /\ step[u] \notin Holding
      /\ \A u \in Writers : message(u)' = message(u) /\ step'[u] \notin Holding
  BY <1>1, <1>3 DEF LogTypeOK, message, LogInv, MutexInv, Holding
<1>5. order # <<>> /\ order[Len(order)] = m /\ Len(order) \in Nat \ {0}
  BY <1>3, <1>4, EmptySeq DEF LogInv, OrderInv, LogTypeOK
<1>6. Ordered(m) /\ ~Shown(m) /\ ~InFile(m)
  BY <1>1, <1>5 DEF Ordered, LogInv, OutputInv, Holding
<1>7. s.open => Fits(s)
  BY <1>1 DEF LogInv, StreamInv
<1>8. /\ \A x : x \in excused => x \in excused'
      /\ s # logFile_ => m \in excused
      /\ ~s.open => m \in excused'
      /\ opened.open /\ opened.path = s.path => m \in excused'
  BY <1>1 DEF LogInv, FateInv, Risky
<1>9. s.open =>
        /\ DOMAIN written = Paths
        /\ \A p \in Paths \ {s.path} : written[p] = files[p]
        /\ DOMAIN written[s.path] = {s.at} \cup DOMAIN files[s.path]
        /\ written[s.path][s.at] = m
        /\ \A k \in DOMAIN files[s.path] : k # s.at => written[s.path][k] = files[s.path][k]
  <2> SUFFICES ASSUME s.open
        PROVE
        /\ DOMAIN written = Paths
        /\ \A p \in Paths \ {s.path} : written[p] = files[p]
        /\ DOMAIN written[s.path] = {s.at} \cup DOMAIN files[s.path]
        /\ written[s.path][s.at] = m
        /\ \A k \in DOMAIN files[s.path] : k # s.at => written[s.path][k] = files[s.path][k]
    OBVIOUS
  <2>1. /\ DOMAIN written = Paths /\ written[s.path] = Put(files[s.path], s.at, m)
        /\ \A p \in Paths \ {s.path} : written[p] = files[p]
    BY <1>3 DEF LogTypeOK
  <2>2. /\ DOMAIN Put(files[s.path], s.at, m) = {s.at} \cup DOMAIN files[s.path]
        /\ Put(files[s.path], s.at, m)[s.at] = m
        /\ \A k \in DOMAIN files[s.path] :
             k # s.at => Put(files[s.path], s.at, m)[k] = files[s.path][k]
    BY DEF Put
  <2> QED BY <2>1, <2>2
<1> HIDE DEF written
(* What is in a file now was there, or is the message; what was there still *)
(* is, or may be lost.                                                      *)
<1>10. /\ \A p \in Paths : \A k \in DOMAIN files'[p] :
            \/ k \in DOMAIN files[p] /\ files'[p][k] = files[p][k]
            \/ s.open /\ p = s.path /\ k = s.at /\ files'[p][k] = m
       /\ \A p \in Paths : \A k \in DOMAIN files[p] :
            \/ k \in DOMAIN files'[p] /\ files'[p][k] = files[p][k]
            \/ files[p][k] \in excused
       /\ DOMAIN files' = Paths
       /\ s.open /\ s = logFile_ => s.at \in DOMAIN files'[s.path] /\ files'[s.path][s.at] = m
  <2>1. CASE s.open /\ files' = written
    <3>1. s.at \in DOMAIN files[s.path] => files[s.path][s.at] \in excused
      BY <1>3, <1>7, <2>1 DEF Fits
    <3> QED BY <1>3, <1>9, <2>1, <3>1
  <2>2. CASE (~s.open \/ s # logFile_) /\ files' = files
    BY <1>3, <2>2 DEF LogTypeOK
  <2> QED BY <1>2, <2>1, <2>2
<1>11. LogTypeOK'
  <2>1. IsStream(logFile_')
    <3>1. IsStream([s EXCEPT !.at = @ + 1])
      BY <1>3 DEF IsStream
    <3> QED BY <1>2, <1>3, <3>1 DEF LogTypeOK
  <2>2. \A p \in Paths : DOMAIN files'[p] \subseteq Nat
    BY <1>3, <1>10 DEF LogTypeOK
  <2> QED BY <1>1, <1>3, <1>10, <2>1, <2>2 DEF LogTypeOK, Holding
<1>12. MutexInv'
  BY <1>1, <1>4, WritersAssumption DEF MutexInv
<1>13. OrderInv'
  BY <1>1, <1>4, WritersAssumption DEF LogInv, OrderInv, Ordered
<1>14. OutputInv'
  <2>1. \A p \in Paths : \A k \in DOMAIN files'[p] : Ordered(files'[p][k])
    BY <1>6, <1>10 DEF LogInv, OutputInv
  <2>2. \A x : InFile(x)' => InFile(x) \/ x = m
    BY <1>10 DEF InFile
  <2>3. \A i \in 1..Len(console) : ~InFile(console[i][1])'
    BY <1>1, <1>6, <2>2 DEF LogInv, OutputInv, Shown
  <2> QED BY <1>1, <1>4, <2>1, <2>3 DEF LogInv, OutputInv, Ordered
<1>15. ConsoleInv'
  <2>1. \A u \in Writers : step[u] # "console" /\ step'[u] # "console"
    BY <1>1, <1>4 DEF Holding
  <2> QED BY <1>1, <2>1 DEF LogInv, ConsoleInv, Rest, EntriesAreWhole
<1>16. FateInv'
  <2>1. InFile(m)' \/ m \in excused'
    <3>1. s.open /\ s = logFile_ => InFile(m)'
      BY <1>3, <1>4, <1>10 DEF InFile
    <3> QED BY <1>8, <3>1
  <2>2. \A x : InFile(x) => InFile(x)' \/ x \in excused'
    BY <1>8, <1>10 DEF InFile
  <2>3. ASSUME NEW i \in 1..Len(order), Writing(order[i]), order[i] # m
        PROVE  Writing(order[i])'
    <3>1. order[i] \in Messages /\ order[i][1] \in Writers
      BY <1>3 DEF LogTypeOK, Messages
    <3>2. order[i][1] # t
      BY <2>3, <3>1 DEF Writing, message, Messages
    <3> QED BY <1>1, <1>4, <2>3, <3>1, <3>2 DEF Writing
  <2>4. \A i \in 1..Len(order) :
          \/ Writing(order[i])' \/ OnConsole(order[i])'
          \/ InFile(order[i])' \/ order[i] \in excused'
    BY <1>1, <1>4, <1>8, <2>1, <2>2, <2>3 DEF LogInv, FateInv, OnConsole
  <2> QED BY <1>1, <1>4, <2>4 DEF FateInv, Holding
<1>17. StreamInv'
  <2>1. logFile_'.open => Fits(logFile_)'
    <3>1. CASE s = logFile_
      <4>1. CASE s.open
        <5>1. logFile_' = [s EXCEPT !.at = @ + 1]
          BY <1>2, <3>1, <4>1
        <5>2. logFile_'.path = s.path /\ logFile_'.at = s.at + 1
          BY <1>3, <5>1 DEF IsStream
        <5>3. ASSUME NEW k \in DOMAIN files'[s.path]
              PROVE  files'[s.path][k] \in excused' \/ k < s.at + 1
          <6>1. CASE k = s.at
            BY <1>3, <6>1
          <6>2. CASE k \in DOMAIN files[s.path] /\ files'[s.path][k] = files[s.path][k]
            <7>1. k \in Nat
              BY <1>3, <4>1, <6>2 DEF LogTypeOK
            <7> QED BY <1>3, <1>7, <1>8, <4>1, <6>2, <7>1 DEF Fits
          <6> QED BY <1>3, <1>10, <4>1, <6>1, <6>2
        <5> QED BY <5>2, <5>3 DEF Fits
      <4>2. CASE ~s.open
        BY <1>2, <3>1, <4>2
      <4> QED BY <4>1, <4>2
    <3>2. CASE s # logFile_
      <4>1. logFile_' = logFile_ /\ m \in excused'
        BY <1>2, <1>8, <3>2
      <4>2. logFile_.open => logFile_.path \in Paths /\ Fits(logFile_)
        BY <1>3, PathsAssumption DEF LogInv, StreamInv, LogTypeOK, IsStream
      <4> QED BY <1>8, <1>10, <4>1, <4>2 DEF Fits
    <3> QED BY <3>1, <3>2
  <2>2. \A u \in Writers : step'[u] # "file"
    BY <1>4 DEF Holding
  <2>3. ASSUME opened.open, NEW k \in DOMAIN files'[opened.path]
        PROVE  files'[opened.path][k] \in excused'
    <3>1. opened.path \in Paths
      BY <1>3, <2>3, PathsAssumption DEF LogTypeOK, IsStream
    <3> QED BY <1>8, <1>10, <2>3, <3>1 DEF LogInv, StreamInv
  <2> QED BY <1>1, <2>1, <2>2, <2>3 DEF StreamInv
<1>18. SequenceInv'
  <2>1. ASSUME NEW p \in Paths, NEW i \in DOMAIN files'[p], NEW j \in DOMAIN files'[p],
               i < j, files'[p][i] \notin excused', files'[p][j] \notin excused',
               NEW k \in 1..Len(order), NEW l \in 1..Len(order),
               order[k] = files'[p][i], order[l] = files'[p][j]
        PROVE  k < l
    <3>1. i \in Nat /\ j \in Nat
      BY <1>11 DEF LogTypeOK
    <3>2. CASE /\ i \in DOMAIN files[p] /\ files'[p][i] = files[p][i]
               /\ j \in DOMAIN files[p] /\ files'[p][j] = files[p][j]
      BY <1>8, <2>1, <3>2 DEF LogInv, SequenceInv, FilesFollow
    <3>3. CASE /\ i \in DOMAIN files[p] /\ files'[p][i] = files[p][i] /\ files'[p][j] = m
      <4>1. l = Len(order)
        BY <1>5, <2>1, <3>3 DEF LogInv, OrderInv
      <4>2. k # Len(order)
        BY <1>5, <1>6, <2>1, <3>3 DEF InFile
      <4> QED BY <1>5, <4>1, <4>2
    <3>4. CASE /\ s.open /\ p = s.path /\ i = s.at
               /\ j \in DOMAIN files[p] /\ files'[p][j] = files[p][j]
      <4>1. files[p][j] \in excused \/ j < s.at
        BY <1>7, <3>4 DEF Fits
      <4> QED BY <1>3, <1>8, <2>1, <3>1, <3>4, <4>1
    <3>5. CASE i = s.at /\ j = s.at
      BY <1>3, <2>1, <3>5
    <3> QED BY <1>10, <2>1, <3>2, <3>3, <3>4, <3>5
  <2>2. FilesFollow'
    BY <1>1, <2>1 DEF FilesFollow
  <2>3. ConsoleMessages' = ConsoleMessages
    BY <1>1 DEF ConsoleMessages
  <2> QED BY <2>2, <2>3 DEF LogInv, SequenceInv, Follows
<1> QED BY <1>11, <1>12, <1>13, <1>14, <1>15, <1>16, <1>17, <1>18 DEF LogInv


LEMMA ModFive ==
  ASSUME NEW n \in Nat
  PROVE  /\ n % 5 \in 0..4 /\ n % 5 <= n
         /\ (n + 1) % 5 = IF n % 5 = 4 THEN 0 ELSE (n % 5) + 1
OBVIOUS

(* The next line of an entry: its number is one more than the lines after  *)
(* the last whole entry, and the fifth makes the entry whole.              *)
LEMMA ToConsoleKeeps ==
  ASSUME NEW t \in Writers, LogInv, ToConsole(t), order' = order, excused' = excused
  PROVE  LogInv'
<1> DEFINE n == Len(console)
           mine == {i \in DOMAIN console : console[i][1] = message(t)}
           line == Cardinality(mine) + 1
<1>1. /\ step[t] = "console" /\ console' = Append(console, <<message(t), line>>)
      /\ step' = [step EXCEPT ![t] = IF line = 5 THEN "idle" ELSE @]
      /\ logMutex_' = IF line = 5 THEN "none" ELSE logMutex_
      /\ UNCHANGED <<logLevel_, logFile_, opened, number, stream, files>>
  BY DEF ToConsole
<1>2. /\ LogTypeOK /\ message(t) \in Messages /\ n \in Nat /\ DOMAIN console = 1..n
      /\ console \in Seq(Messages \X (1..5))
  BY DEF LogInv, LogTypeOK, message, Messages
<1>3. Rest \in 0..4 /\ Rest <= n
  BY <1>2, ModFive DEF Rest
<1>4. line = Rest + 1
  <2>1. mine = (n - Rest + 1)..n
    BY <1>1, <1>2, <1>3 DEF LogInv, ConsoleInv
  <2>2. Cardinality((n - Rest + 1)..n) = Rest
    <3>1. n - Rest + 1 \in Int /\ n \in Int
      BY <1>2, <1>3
    <3> HIDE DEF n
    <3>2. Cardinality((n - Rest + 1)..n)
            = IF n - Rest + 1 > n THEN 0 ELSE n - (n - Rest + 1) + 1
      BY <3>1, FS_Interval
    <3> QED BY <1>2, <1>3, <3>2
  <2> QED BY <1>3, <2>1, <2>2
<1> HIDE DEF line
<1>5. /\ Len(console') = n + 1 /\ console'[n + 1] = <<message(t), line>>
      /\ \A i \in 1..n : console'[i] = console[i]
      /\ console' \in Seq(Messages \X (1..5))
  <2>1. <<message(t), line>> \in Messages \X (1..5)
    BY <1>2, <1>3, <1>4
  <2> QED BY <1>1, <1>2, <2>1, AppendProperties
<1> HIDE DEF n, mine
<1>6. LogTypeOK'
  <2>1. step' \in [Writers -> {"idle", "lock"} \cup Holding]
    BY <1>1, <1>2 DEF LogTypeOK
  <2>2. logMutex_' \in Writers \cup {"none"}
    BY <1>1, <1>2 DEF LogTypeOK
  <2> QED BY <1>1, <1>2, <1>5, <2>1, <2>2 DEF LogTypeOK
<1>7. /\ step'[t] = IF line = 5 THEN "idle" ELSE "console"
      /\ logMutex_ = t
      /\ \A u \in Writers \ {t} : step'[u] = step[u] /\ step[u] \notin Holding
      /\ \A u \in Writers : message(u)' = message(u)
      /\ \A u \in Writers : step'[u] \notin Holding \ {"console"}
  BY <1>1, <1>2 DEF LogTypeOK, message, LogInv, MutexInv, Holding
<1>8. MutexInv'
  BY <1>1, <1>7, WritersAssumption DEF LogInv, MutexInv, Holding
<1>9. OrderInv'
  BY <1>1, <1>7, WritersAssumption DEF LogInv, OrderInv, Ordered
<1>10. order # <<>> /\ order[Len(order)] = message(t) /\ Len(order) \in Nat \ {0}
  BY <1>2, <1>7, EmptySeq DEF LogInv, OrderInv, LogTypeOK
<1>11. Ordered(message(t)) /\ ~InFile(message(t))
  BY <1>1, <1>10 DEF Ordered, LogInv, OutputInv, Holding
<1>12. \A i \in 1..Len(console') :
         \/ i \in 1..n /\ console'[i] = console[i]
         \/ i = n + 1 /\ console'[i][1] = message(t)
  BY <1>2, <1>5
<1>13. OutputInv'
  <2>1. \A i \in 1..Len(console') : Ordered(console'[i][1]) /\ ~InFile(console'[i][1])
    BY <1>11, <1>12 DEF LogInv, OutputInv, n
  <2>2. \A u \in Writers : step'[u] \in Holding => ~InFile(message(u))
    BY <1>7, <1>11
  <2> QED BY <1>1, <1>7, <2>1, <2>2 DEF LogInv, OutputInv, Ordered, InFile
<1>14. ConsoleInv'
  <2>1. Rest' = IF line = 5 THEN 0 ELSE Rest + 1
    <3>1. Rest = n % 5 /\ Rest' = (n + 1) % 5
      BY <1>5 DEF Rest, n
    <3> QED BY <1>2, <1>3, <1>4, <3>1, ModFive
  <2>2. (\A u \in Writers : step'[u] # "console") => Rest' = 0
    BY <1>7, <2>1
  <2>3. ASSUME NEW u \in Writers, step'[u] = "console", NEW i \in 1..Len(console')
        PROVE  console'[i][1] = message(u)' <=> i > Len(console') - Rest'
    <3>1. u = t /\ line # 5
      BY <1>7, <2>3 DEF Holding
    <3>2. Len(console') - Rest' = n - Rest /\ n - Rest < n + 1
      BY <1>2, <1>3, <1>5, <2>1, <3>1
    <3>3. \A k \in 1..n : console[k][1] = message(t) <=> k > n - Rest
      BY <1>1 DEF LogInv, ConsoleInv, n
    <3> QED BY <1>7, <1>12, <3>1, <3>2, <3>3
  <2>4. EntriesAreWhole'
    <3>1. DOMAIN console' = 1..(n + 1)
      BY <1>5
    <3>2. \A i \in 1..n :
            /\ console[i][2] = ((i - 1) % 5) + 1
            /\ console[i][2] > 1 => console[i][1] = console[i - 1][1]
      BY <1>2 DEF LogInv, ConsoleInv, EntriesAreWhole, n
    <3>3. ASSUME NEW i \in 1..(n + 1)
          PROVE  /\ console'[i][2] = ((i - 1) % 5) + 1
                 /\ console'[i][2] > 1 => console'[i][1] = console'[i - 1][1]
      <4>1. CASE i \in 1..n
        <5>1. console[i][2] > 1 => i - 1 \in 1..n
          BY <1>2, <3>2, <4>1
        <5>2. console'[i] = console[i]
          BY <1>5, <4>1
        <5>3. console[i][2] > 1 => console'[i - 1] = console[i - 1]
          BY <1>5, <5>1
        <5> QED BY <3>2, <4>1, <5>2, <5>3
      <4>2. CASE i = n + 1
        <5>1. console'[i][2] = Rest + 1 /\ Rest = n % 5
          BY <1>4, <1>5, <4>2 DEF Rest, n
        <5>2. Rest > 0 => n \in 1..n /\ console[n][1] = message(t)
          <6>1. \A k \in 1..n : console[k][1] = message(t) <=> k > n - Rest
            BY <1>1 DEF LogInv, ConsoleInv, n
          <6> QED BY <1>2, <1>3, <6>1
        <5> QED BY <1>2, <1>3, <1>5, <4>2, <5>1, <5>2
      <4> QED BY <1>2, <4>1, <4>2
    <3> QED BY <3>1, <3>3 DEF EntriesAreWhole
  <2> QED BY <2>2, <2>3, <2>4 DEF ConsoleInv
<1>15. FateInv'
  <2>1. \A m : OnConsole(m) => OnConsole(m)'
    <3>1. DOMAIN console = 1..n /\ DOMAIN console' = 1..(n + 1) /\ n \in Nat
      BY <1>2, <1>5
    <3> QED BY <3>1, <1>5 DEF OnConsole
  <2>2. line = 5 => OnConsole(message(t))'
    <3>1. n + 1 \in DOMAIN console'
      BY <1>2, <1>5
    <3> QED BY <3>1, <1>5, <1>7 DEF OnConsole
  <2>3. ASSUME NEW i \in 1..Len(order), Writing(order[i])
        PROVE  Writing(order[i])' \/ OnConsole(order[i])'
    <3>1. order[i] \in Messages /\ order[i][1] \in Writers
      BY <1>2 DEF LogTypeOK, Messages
    <3>2. CASE order[i][1] = t
      <4>1. order[i] = message(t)
        BY <2>3, <3>1, <3>2 DEF Writing, message, Messages
      <4>2. CASE line = 5
        BY <2>2, <4>1, <4>2, <1>7
      <4>3. CASE line # 5
        BY <1>1, <1>7, <2>3, <3>2, <4>3 DEF Writing
      <4> QED BY <4>2, <4>3
    <3>3. CASE order[i][1] # t
      BY <1>1, <1>7, <2>3, <3>1, <3>3 DEF Writing
    <3> QED BY <3>2, <3>3
  <2>4. \A i \in 1..Len(order) :
          \/ Writing(order[i])' \/ OnConsole(order[i])'
          \/ InFile(order[i])' \/ order[i] \in excused'
    BY <1>1, <2>1, <2>3 DEF LogInv, FateInv, InFile
  <2> QED BY <1>1, <1>7, <2>4 DEF FateInv, Holding
<1>16. StreamInv'
  BY <1>1, <1>7 DEF LogInv, StreamInv, Fits, Holding
<1>17. SequenceInv'
  <2>1. ConsoleMessages \in Seq(Messages) /\ Len(ConsoleMessages) = n
    <3>1. \A i \in 1..n : console[i][1] \in Messages
      BY <1>2 DEF n
    <3> QED BY <1>2, <3>1 DEF ConsoleMessages, n
  <2>2. ConsoleMessages' = Append(ConsoleMessages, message(t))
    <3> DEFINE r == Append(ConsoleMessages, message(t))
    <3>1. /\ Len(r) = n + 1 /\ r \in Seq(Messages) /\ r[n + 1] = message(t)
          /\ \A i \in 1..n : r[i] = ConsoleMessages[i]
      BY <1>2, <2>1, AppendProperties
    <3> HIDE DEF r
    <3>2. \A i \in 1..n : ConsoleMessages[i] = console[i][1]
      BY DEF ConsoleMessages, n
    <3>3. \A i \in 1..(n + 1) : r[i] = console'[i][1]
      BY SMTT(30), <1>2, <1>5, <3>1, <3>2
    <3>4. r = [i \in 1..(n + 1) |-> console'[i][1]]
      BY <3>1, <3>3
    <3>5. ConsoleMessages' = [i \in 1..(n + 1) |-> console'[i][1]]
      BY <1>5 DEF ConsoleMessages
    <3> QED BY <3>4, <3>5 DEF r
  <2>3. Follows(Append(ConsoleMessages, message(t)))
    BY <1>2, <1>10, <2>1, FollowsLast DEF LogInv, SequenceInv
  <2>4. Follows(ConsoleMessages')
    BY <2>2, <2>3
  <2>5. Follows(ConsoleMessages)'
    BY <2>4 DEF Follows
  <2> QED BY <1>1, <2>5 DEF LogInv, SequenceInv, FilesFollow
<1> QED BY <1>6, <1>8, <1>9, <1>13, <1>14, <1>15, <1>16, <1>17 DEF LogInv


THEOREM LogInvariant == Spec => []LogInv
<1>1. ASSUME LogInv, [Next]_vars PROVE LogInv'
  <2>1. ASSUME Untouched PROVE LogInv'
    BY <1>1, <2>1, UntouchedKeeps
  <2>2. CASE UNCHANGED vars
    BY <2>1, <2>2 DEF vars, loggerVars, Untouched
  <2>3. ASSUME NEW file \in ConfigFiles, LoadFile(file) PROVE LogInv'
    BY <2>1, <2>3 DEF LoadFile, Step, loggerVars, Untouched
  <2>4. ASSUME NEW pair \in Assignments, Assign(pair[1], pair[2]) PROVE LogInv'
    BY <2>1, <2>4 DEF Assign, Step, loggerVars, Untouched
  <2>5. CASE LoadEnvironment
    BY <2>1, <2>5 DEF LoadEnvironment, Step, loggerVars, Untouched
  <2>6. CASE LoadCommandLine
    BY <2>1, <2>6 DEF LoadCommandLine, Step, loggerVars, Untouched
  <2>7. CASE ReadPort
    BY <2>1, <2>7 DEF ReadPort, loggerVars, Untouched
  <2>8. CASE OpenLog
    <3>1. CASE Throws("string", "log")
      BY <2>1, <2>8, <3>1 DEF OpenLog, loggerVars, Untouched
    <3>2. CASE ~Throws("string", "log")
      BY <1>1, <2>8, <3>2, OpenKeeps DEF OpenLog
    <3> QED BY <3>1, <3>2
  <2>9. CASE Reopen
    BY <1>1, <2>9, OpenKeeps DEF Reopen, MainIsFree
  <2>10. CASE Quieten
    BY <2>1, <2>10 DEF Quieten, setLogLevel, Untouched
  <2>11. ASSUME NEW t \in Writers, Log(t) PROVE LogInv'
    BY <1>1, <2>11, LogKeeps DEF Log
  <2>12. CASE Assigned
    BY <1>1, <2>12, AssignedKeeps
  <2>13. ASSUME NEW t \in Writers, Write(t) PROVE LogInv'
    <3>1. CASE Lock(t)
      <4>1. step[t] = "lock"
        BY <3>1 DEF Lock
      <4> QED BY <1>1, <2>13, <3>1, <4>1, LockKeeps DEF Write, Risky
    <3>2. CASE Branch(t) \/ Deref(t)
      <4>1. step[t] \in {"branch", "deref"}
        BY <3>2 DEF Branch, Deref
      <4> QED BY <1>1, <2>13, <3>2, <4>1, BranchKeeps DEF Write, Risky
    <3>3. CASE ToFile(t)
      <4>1. step[t] = "file"
        BY <3>3 DEF ToFile
      <4> QED BY <1>1, <2>13, <3>3, <4>1, ToFileKeeps DEF Write
    <3>4. CASE ToConsole(t)
      <4>1. step[t] = "console"
        BY <3>4 DEF ToConsole
      <4> QED BY <1>1, <2>13, <3>4, <4>1, ToConsoleKeeps DEF Write, Risky
    <3> QED BY <2>13, <3>1, <3>2, <3>3, <3>4 DEF Write, Writes
  <2> QED BY <1>1, <2>2, <2>3, <2>4, <2>5, <2>6, <2>7, <2>8, <2>9, <2>10, <2>11, <2>12, <2>13 DEF Next
<1> QED BY LogInitially, <1>1, PTL DEF Spec

(* Logger::log: whatever threads log, and whenever the file is changed, no *)
(* line comes between the five of an entry on the console, none is missing *)
(* and none comes twice.                                                   *)
THEOREM EntriesStayWhole == Spec => []EntriesAreWhole
<1>1. LogInv => EntriesAreWhole
  BY DEF LogInv, ConsoleInv
<1> QED BY <1>1, LogInvariant, PTL

(* Logger::log, setLogFile: a message is lost only where setLogFile()      *)
(* explains it, comes out in one place, and in the order of the mutex.     *)
THEOREM LossesAreExplained == Spec => []LossIsExplained
<1>1. ASSUME LogInv PROVE LossIsExplained
  <2>1. /\ DOMAIN order = 1..Len(order) /\ DOMAIN console = 1..Len(console)
    BY <1>1 DEF LogInv, LogTypeOK
  <2>2. \A i \in DOMAIN order :
          Writing(order[i]) \/ OnConsole(order[i]) \/ InFile(order[i]) \/ order[i] \in excused
    BY <1>1, <2>1 DEF LogInv, FateInv
  <2>3. \A i \in DOMAIN order : ~(OnConsole(order[i]) /\ InFile(order[i]))
    BY <1>1, <2>1 DEF LogInv, OutputInv, OnConsole
  <2>4. \A m : Ordered(m) => Position(m) \in 1..Len(order) /\ order[Position(m)] = m
    BY <2>1 DEF Ordered, Position
  <2>5. ASSUME NEW s, Follows(s), DOMAIN s = 1..Len(s), \A i \in 1..Len(s) : Ordered(s[i])
        PROVE  InOrder(s)
    BY <2>4, <2>5 DEF InOrder, Follows
  <2>6. \A p \in Paths : InOrderBarring(excused, files[p])
    BY <1>1, <2>4 DEF LogInv, SequenceInv, FilesFollow, OutputInv, InOrderBarring
  <2>7. InOrder(ConsoleMessages)
    <3>1. /\ DOMAIN ConsoleMessages = 1..Len(console) /\ Len(ConsoleMessages) = Len(console)
          /\ \A i \in 1..Len(console) : ConsoleMessages[i] = console[i][1]
      BY <1>1 DEF ConsoleMessages, LogInv, LogTypeOK
    <3> QED BY <1>1, <2>5, <3>1 DEF LogInv, SequenceInv, OutputInv
  <2>8. ConsoleMessages = [i \in DOMAIN console |-> console[i][1]]
    BY <2>1 DEF ConsoleMessages
  <2> QED BY <2>2, <2>3, <2>6, <2>7, <2>8 DEF LossIsExplained
<1> QED BY <1>1, LogInvariant, PTL


(***************************************************************************)
(* The configuration.                                                      *)
(***************************************************************************)
(* A set of positions in a sequence that is not empty has a last one.      *)
LEMMA LastPosition ==
  ASSUME NEW n \in Nat, NEW S \in SUBSET (1..n), S # {}
  PROVE  \E i \in S : \A j \in S : j <= i
<1> DEFINE T == {n - i : i \in S}
<1>1. T \subseteq Nat /\ T # {}
  <2>1. \A i \in S : n - i \in Nat
    OBVIOUS
  <2>2. PICK i \in S : TRUE
    OBVIOUS
  <2>3. n - i \in T
    OBVIOUS
  <2> QED BY <2>1, <2>3
<1>2. PICK m \in T : \A k \in T : <<k, m>> \notin OpToRel(<, Nat)
  BY <1>1, NatLessThanWellFounded, WFMin
<1>3. PICK i \in S : m = n - i
  BY <1>2
<1>4. \A j \in S : ~(n - j < n - i)
  BY <1>1, <1>2, <1>3 DEF OpToRel
<1>5. \A j \in S : j \in Int
  OBVIOUS
<1> QED BY <1>4, <1>5

(* Each kind of step, with what it says of which keys.                     *)
FileSteps ==
  {[kind |-> kind, pairs |-> Object(file.pairs)] : kind \in {"file", "nothing"}, file \in ConfigFiles}
OverrideSteps ==
  {[kind |-> "override", pairs |-> AsText(texts)] : texts \in {Environment, Named(Arguments)}}
SetSteps ==
  {[kind |-> "set", pairs |-> [k \in {pair[1]} |-> pair[2]]] : pair \in Assignments}
TakenSteps == FileSteps \cup OverrideSteps \cup SetSteps

(* A key is there while a file or set() that names it counts, and its      *)
(* value is that of the last step that counts.                             *)
Latest(key, i) == i \in Counting(key) /\ \A j \in Counting(key) : j <= i
ConfigInv ==
  /\ steps \in Seq(TakenSteps)
  /\ \A key : key \in DOMAIN config_ <=> Known(key) # {}
  /\ \A key \in DOMAIN config_ : \A i : Latest(key, i) => config_[key] = steps[i].pairs[key]

(* The port main() has read is checked against steps that do not change    *)
(* any more.                                                               *)
PortInv == (port # -1 => pc # "configure") /\ OverriddenPortIsNotRead

IsLastFile(n) ==
  /\ n \in 0..Len(steps)
  /\ n = 0 \/ steps[n].kind = "file"
  /\ \A i \in (n + 1)..Len(steps) : steps[i].kind # "file"
LEMMA LastFileIsLast ==
  steps \in Seq(TakenSteps) => IsLastFile(LastFile) /\ \A n : IsLastFile(n) => n = LastFile
<1> SUFFICES ASSUME steps \in Seq(TakenSteps)
             PROVE  IsLastFile(LastFile) /\ \A n : IsLastFile(n) => n = LastFile
  OBVIOUS
<1> DEFINE F == {i \in 1..Len(steps) : steps[i].kind = "file"}
<1>1. Len(steps) \in Nat
  OBVIOUS
<1>2. \E n : IsLastFile(n)
  <2>1. CASE F = {}
    BY <1>1, <2>1 DEF IsLastFile
  <2>2. CASE F # {}
    <3>1. PICK n \in F : \A i \in F : i <= n
      BY <1>1, <2>2, LastPosition
    <3>2. IsLastFile(n)
      BY <1>1, <3>1 DEF IsLastFile
    <3> QED BY <3>2
  <2> QED BY <2>1, <2>2
<1>3. \A m, n : IsLastFile(m) /\ IsLastFile(n) => m = n
  BY <1>1 DEF IsLastFile
<1>4. LastFile = CHOOSE n \in 0..Len(steps) : IsLastFile(n)
  BY DEF LastFile, IsLastFile
<1>5. IsLastFile(LastFile)
  BY <1>2, <1>4 DEF IsLastFile
<1> QED BY <1>3, <1>5


(* One step more: a file that is read starts afresh, other steps add to    *)
(* what counts.                                                            *)
LEMMA OneStepMore ==
  ASSUME NEW s \in TakenSteps, steps \in Seq(TakenSteps), steps' = Append(steps, s)
  PROVE  /\ steps' \in Seq(TakenSteps) /\ Len(steps) \in Nat
         /\ Len(steps') = Len(steps) + 1 /\ steps'[Len(steps) + 1] = s
         /\ \A i \in 1..Len(steps) : steps'[i] = steps[i]
         /\ LastFile' = IF s.kind = "file" THEN Len(steps) + 1 ELSE LastFile
         /\ LastFile \in 0..Len(steps)
<1>1. /\ steps' \in Seq(TakenSteps) /\ Len(steps) \in Nat
      /\ Len(steps') = Len(steps) + 1 /\ steps'[Len(steps) + 1] = s
      /\ \A i \in 1..Len(steps) : steps'[i] = steps[i]
  BY AppendProperties
<1>2. IsLastFile(LastFile)
  BY LastFileIsLast
<1>3. (steps \in Seq(TakenSteps) => IsLastFile(LastFile) /\ \A n : IsLastFile(n) => n = LastFile)'
  BY LastFileIsLast, PTL
<1>4. \A n : IsLastFile(n)' => n = LastFile'
  BY <1>1, <1>3
<1>5. CASE s.kind = "file"
  <2>1. ASSUME NEW n, n = Len(steps) + 1 PROVE IsLastFile(n)'
    BY <1>1, <1>5, <2>1 DEF IsLastFile
  <2> QED BY <1>1, <1>2, <1>4, <1>5, <2>1 DEF IsLastFile
<1>6. CASE s.kind # "file"
  <2>1. ASSUME NEW n, n = LastFile PROVE IsLastFile(n)'
    BY <1>1, <1>2, <1>6, <2>1 DEF IsLastFile
  <2> QED BY <1>1, <1>2, <1>4, <1>6, <2>1 DEF IsLastFile
<1> QED BY <1>5, <1>6

LEMMA WhatCounts ==
  ASSUME NEW s \in TakenSteps, steps \in Seq(TakenSteps), steps' = Append(steps, s), NEW key
  PROVE  /\ s.kind = "file" => (Known(key)' # {} <=> key \in DOMAIN s.pairs)
         /\ s.kind # "file" =>
              (Known(key)' # {} <=> Known(key) # {} \/ (s.kind = "set" /\ key \in DOMAIN s.pairs))
         /\ IF s.kind = "file" \/ (s.kind # "nothing" /\ key \in DOMAIN s.pairs)
            THEN Known(key)' # {} => \A i : Latest(key, i)' => i = Len(steps) + 1
            ELSE \A i : Latest(key, i)' => Latest(key, i) /\ i \in 1..Len(steps)
<1> DEFINE N == Len(steps)
<1>1. /\ N \in Nat /\ Len(steps') = N + 1 /\ steps'[N + 1] = s
      /\ \A i \in 1..N : steps'[i] = steps[i]
      /\ LastFile' = IF s.kind = "file" THEN N + 1 ELSE LastFile
      /\ LastFile \in 0..N
  BY OneStepMore
<1> HIDE DEF N
<1>2. Naming(key)' =
        {i \in 1..(N + 1) : i >= LastFile' /\ key \in DOMAIN steps'[i].pairs
                            /\ steps'[i].kind # "nothing"}
  BY <1>1 DEF Naming
<1>3. Naming(key) =
        {i \in 1..N : i >= LastFile /\ key \in DOMAIN steps[i].pairs
                      /\ steps[i].kind # "nothing"}
  BY DEF Naming, N
<1>4. Known(key)' = {i \in Naming(key)' : steps'[i].kind \in {"file", "set"}}
  BY DEF Known
<1>5. Counting(key)' = {i \in Naming(key)' : \E k \in Known(key)' : k <= i}
  BY DEF Counting
<1>6. CASE s.kind = "file"
  <2>1. Naming(key)' = IF key \in DOMAIN s.pairs THEN {N + 1} ELSE {}
    BY <1>1, <1>2, <1>6
  <2>2. Known(key)' = Naming(key)'
    BY <1>1, <1>4, <1>6, <2>1
  <2>3. \A i : Latest(key, i)' => i = N + 1
    BY <1>5, <2>1 DEF Latest
  <2> QED BY <1>6, <2>1, <2>2, <2>3 DEF N
<1>7. CASE s.kind # "file"
  <2>1. Naming(key)' = Naming(key) \cup
          (IF s.kind # "nothing" /\ key \in DOMAIN s.pairs THEN {N + 1} ELSE {})
    BY <1>1, <1>2, <1>3, <1>7
  <2>2. Naming(key) \subseteq 1..N
    BY <1>3
  <2>3. Known(key)' = Known(key) \cup
          (IF s.kind = "set" /\ key \in DOMAIN s.pairs THEN {N + 1} ELSE {})
    BY <1>1, <1>4, <1>7, <2>1, <2>2 DEF Known
  <2>4. Known(key)' # {} <=> Known(key) # {} \/ (s.kind = "set" /\ key \in DOMAIN s.pairs)
    BY <2>3
  <2>5. CASE s.kind # "nothing" /\ key \in DOMAIN s.pairs
    <3>1. Known(key)' \subseteq 1..(N + 1)
      <4>1. Known(key) \subseteq 1..N
        BY <2>2 DEF Known
      <4>2. 1..N \subseteq 1..(N + 1) /\ N + 1 \in 1..(N + 1)
        BY <1>1
      <4> QED BY <2>3, <4>1, <4>2
    <3>2. Known(key)' # {} => N + 1 \in Counting(key)'
      BY <1>1, <1>5, <2>1, <2>5, <3>1
    <3>3. Counting(key)' \subseteq 1..(N + 1)
      BY <1>2, <1>5
    <3>4. Known(key)' # {} => \A i : Latest(key, i)' => i = N + 1
      BY <1>1, <3>2, <3>3 DEF Latest
    <3> QED BY <1>7, <2>4, <2>5, <3>4 DEF N
  <2>6. CASE ~(s.kind # "nothing" /\ key \in DOMAIN s.pairs)
    <3>1. Naming(key)' = Naming(key)
      BY <2>1, <2>6
    <3>2. Known(key)' = Known(key)
      BY <2>3, <2>6
    <3>3. Counting(key)' = Counting(key) /\ Counting(key) \subseteq 1..N
      BY <1>5, <2>2, <3>1, <3>2 DEF Counting
    <3>4. \A i : Latest(key, i)' => Latest(key, i) /\ i \in 1..N
      BY <3>3 DEF Latest
    <3> QED BY <1>7, <2>4, <2>6, <3>4 DEF N
  <2> QED BY <2>5, <2>6
<1> QED BY <1>6, <1>7


(* What a step does to the object is what the steps then say.              *)
LEMMA ObjectFollowsSteps ==
  ASSUME NEW s \in TakenSteps, ConfigInv, steps' = Append(steps, s),
         \/ s.kind = "file" /\ config_' = s.pairs
         \/ s.kind = "nothing" /\ config_' = config_
         \/ s.kind = "override" /\ config_' =
              [key \in DOMAIN config_ |-> IF key \in DOMAIN s.pairs THEN s.pairs[key]
                                                                   ELSE config_[key]]
         \/ s.kind = "set" /\ config_' =
              [key \in DOMAIN s.pairs \cup DOMAIN config_ |->
                 IF key \in DOMAIN s.pairs THEN s.pairs[key] ELSE config_[key]]
  PROVE  ConfigInv'
<1>1. steps \in Seq(TakenSteps)
  BY DEF ConfigInv
<1>2. /\ steps' \in Seq(TakenSteps) /\ Len(steps) \in Nat
      /\ steps'[Len(steps) + 1] = s /\ \A i \in 1..Len(steps) : steps'[i] = steps[i]
  BY <1>1, OneStepMore
<1>3. ASSUME NEW key
      PROVE  /\ key \in DOMAIN config_' <=> Known(key)' # {}
             /\ key \in DOMAIN config_' =>
                  \A i : Latest(key, i)' => config_'[key] = steps'[i].pairs[key]
  <2>1. /\ s.kind = "file" => (Known(key)' # {} <=> key \in DOMAIN s.pairs)
        /\ s.kind # "file" =>
             (Known(key)' # {} <=> Known(key) # {} \/ (s.kind = "set" /\ key \in DOMAIN s.pairs))
        /\ IF s.kind = "file" \/ (s.kind # "nothing" /\ key \in DOMAIN s.pairs)
           THEN Known(key)' # {} => \A i : Latest(key, i)' => i = Len(steps) + 1
           ELSE \A i : Latest(key, i)' => Latest(key, i) /\ i \in 1..Len(steps)
    BY <1>1, WhatCounts
  <2>2. /\ key \in DOMAIN config_ <=> Known(key) # {}
        /\ key \in DOMAIN config_ =>
             \A i : Latest(key, i) => config_[key] = steps[i].pairs[key]
    BY DEF ConfigInv
  <2>3. CASE s.kind = "file" /\ config_' = s.pairs
    BY <1>2, <2>1, <2>3
  <2>4. CASE s.kind = "nothing" /\ config_' = config_
    BY <1>2, <2>1, <2>2, <2>4
  <2>5. CASE s.kind = "override" /\ config_' =
              [k \in DOMAIN config_ |-> IF k \in DOMAIN s.pairs THEN s.pairs[k] ELSE config_[k]]
    BY <1>2, <2>1, <2>2, <2>5
  <2>6. CASE s.kind = "set" /\ config_' =
              [k \in DOMAIN s.pairs \cup DOMAIN config_ |->
                 IF k \in DOMAIN s.pairs THEN s.pairs[k] ELSE config_[k]]
    BY <1>2, <2>1, <2>2, <2>6
  <2> QED BY <2>3, <2>4, <2>5, <2>6
<1> QED BY <1>2, <1>3 DEF ConfigInv

(* What counts depends on the steps alone.                                 *)
LEMMA StepsDecide ==
  ASSUME steps' = steps, NEW key
  PROVE  Known(key)' = Known(key) /\ Counting(key)' = Counting(key)
<1>1. LastFile' = LastFile
  BY DEF LastFile
<1>2. Naming(key)' = Naming(key)
  BY <1>1 DEF Naming
<1>3. Known(key)' = Known(key)
  BY <1>2 DEF Known
<1> QED BY <1>2, <1>3 DEF Counting

THEOREM ConfigInvariant == Spec => []ConfigInv
<1>1. ASSUME Init PROVE ConfigInv
  <2>1. steps = <<>> /\ Len(steps) = 0 /\ config_ = Object(<<>>)
    BY <1>1, EmptySeq DEF Init, ConfigInit
  <2>2. DOMAIN config_ = {}
    BY <2>1, EmptySeq DEF Object
  <2>3. \A key : Known(key) = {}
    BY <2>1 DEF Known, Naming
  <2> QED BY <2>1, <2>2, <2>3, EmptySeq DEF ConfigInv
<1>2. ASSUME ConfigInv, [Next]_vars PROVE ConfigInv'
  <2>1. ASSUME UNCHANGED <<config_, steps>> PROVE ConfigInv'
    <3>1. ASSUME NEW key
          PROVE  Known(key)' = Known(key) /\ \A i : Latest(key, i)' <=> Latest(key, i)
      BY <2>1, StepsDecide DEF Latest
    <3> QED BY <1>2, <2>1, <3>1 DEF ConfigInv
  <2>2. CASE UNCHANGED vars
    BY <2>1, <2>2 DEF vars, startupVars
  <2>3. ASSUME NEW file \in ConfigFiles, LoadFile(file) PROVE ConfigInv'
    <3> DEFINE kind == IF file.opens /\ file.begins THEN "file" ELSE "nothing"
               s == [kind |-> kind, pairs |-> Object(file.pairs)]
    <3>1. s \in TakenSteps
      <4>1. kind \in {"file", "nothing"}
        OBVIOUS
      <4> HIDE DEF kind
      <4>2. s \in FileSteps
        BY <4>1 DEF FileSteps
      <4> QED BY <4>2 DEF TakenSteps
    <3>2. s.kind = kind /\ s.pairs = Object(file.pairs) /\ steps' = Append(steps, s)
      BY <2>3 DEF LoadFile, Step
    <3>3. config_' = IF file.opens /\ file.begins THEN Object(file.pairs) ELSE config_
      BY <2>3 DEF LoadFile, loadFromFile
    <3> HIDE DEF s
    <3> QED BY <1>2, <3>1, <3>2, <3>3, ObjectFollowsSteps
  <2>4. ASSUME NEW texts \in {Environment, Named(Arguments)},
               Override(texts), Step("override", AsText(texts))
        PROVE  ConfigInv'
    <3> DEFINE s == [kind |-> "override", pairs |-> AsText(texts)]
    <3>1. s \in TakenSteps
      <4>1. s \in OverrideSteps
        BY DEF OverrideSteps
      <4> QED BY <4>1 DEF TakenSteps
    <3>2. s.kind = "override" /\ s.pairs = AsText(texts) /\ steps' = Append(steps, s)
      BY <2>4 DEF Step
    <3>3. DOMAIN s.pairs = DOMAIN texts /\ \A key \in DOMAIN texts : s.pairs[key] = String(texts[key])
      BY <3>2 DEF AsText
    <3> HIDE DEF s
    <3>4. config_' = [key \in DOMAIN config_ |-> IF key \in DOMAIN s.pairs THEN s.pairs[key]
                                                                          ELSE config_[key]]
      BY <2>4, <3>3 DEF Override
    <3> QED BY <1>2, <3>1, <3>2, <3>4, ObjectFollowsSteps
  <2>5. CASE LoadEnvironment
    BY <2>4, <2>5 DEF LoadEnvironment, loadFromEnvironment
  <2>6. CASE LoadCommandLine
    BY <2>4, <2>6 DEF LoadCommandLine, loadFromCommandLine
  <2>7. ASSUME NEW pair \in Assignments, Assign(pair[1], pair[2]) PROVE ConfigInv'
    <3> DEFINE object == [k \in {pair[1]} |-> pair[2]]
               s == [kind |-> "set", pairs |-> object]
    <3>1. s \in TakenSteps
      <4>1. s \in SetSteps
        BY DEF SetSteps
      <4> QED BY <4>1 DEF TakenSteps
    <3>2. s.kind = "set" /\ s.pairs = object /\ steps' = Append(steps, s)
      BY <2>7 DEF Assign, Step
    <3>3. DOMAIN object = {pair[1]} /\ object[pair[1]] = pair[2]
      OBVIOUS
    <3>4. config_' = [k \in {pair[1]} \cup DOMAIN config_ |->
                        IF k = pair[1] THEN pair[2] ELSE config_[k]]
      BY <2>7 DEF Assign, set
    <3> HIDE DEF s, object
    <3>5. config_' = [k \in DOMAIN s.pairs \cup DOMAIN config_ |->
                        IF k \in DOMAIN s.pairs THEN s.pairs[k] ELSE config_[k]]
      BY <3>2, <3>3, <3>4
    <3> QED BY <1>2, <3>1, <3>2, <3>5, ObjectFollowsSteps
  <2>8. CASE ReadPort
    BY <2>1, <2>8 DEF ReadPort
  <2>9. CASE OpenLog
    BY <2>1, <2>9 DEF OpenLog
  <2>10. CASE Reopen
    BY <2>1, <2>10 DEF Reopen, startupVars
  <2>11. CASE Quieten
    BY <2>1, <2>11 DEF Quieten, startupVars
  <2>12. CASE Assigned
    BY <2>1, <2>12 DEF Assigned, startupVars
  <2>13. ASSUME NEW t \in Writers, Log(t) PROVE ConfigInv'
    BY <2>1, <2>13 DEF Log, startupVars
  <2>14. ASSUME NEW t \in Writers, Write(t) PROVE ConfigInv'
    BY <2>1, <2>14 DEF Write, startupVars
  <2> QED BY <1>2, <2>2, <2>3, <2>5, <2>6, <2>7, <2>8, <2>9, <2>10, <2>11, <2>12, <2>13, <2>14 DEF Next
<1> QED BY <1>1, <1>2, PTL DEF Spec


(* Whatever counts has a last step that counts.                            *)
LEMMA LatestExists ==
  ASSUME steps \in Seq(TakenSteps), NEW key, Known(key) # {}
  PROVE  LET i == CHOOSE i \in Counting(key) : \A j \in Counting(key) : j <= i
         IN  Latest(key, i) /\ i \in 1..Len(steps) /\ key \in DOMAIN steps[i].pairs
<1>1. Counting(key) \subseteq 1..Len(steps) /\ Len(steps) \in Nat
  BY DEF Counting, Naming
<1>2. Counting(key) # {}
  <2>1. PICK k \in Known(key) : TRUE
    OBVIOUS
  <2>2. k \in Naming(key) /\ k <= k
    BY <2>1 DEF Known, Naming
  <2> QED BY <2>1, <2>2 DEF Counting
<1>3. \E i \in Counting(key) : \A j \in Counting(key) : j <= i
  BY <1>1, <1>2, LastPosition
<1> DEFINE i == CHOOSE i \in Counting(key) : \A j \in Counting(key) : j <= i
<1>4. i \in Counting(key) /\ \A j \in Counting(key) : j <= i
  BY <1>3
<1> HIDE DEF i
<1>5. Latest(key, i) /\ i \in 1..Len(steps) /\ key \in DOMAIN steps[i].pairs
  BY <1>1, <1>4 DEF Latest, Counting, Naming
<1> QED BY <1>5 DEF i

(* Configuration: whatever the order of files, environment, command line   *)
(* and set(), and wherever a file breaks off, the object is what the last  *)
(* source that counts for a key makes of it.                               *)
THEOREM ConfigurationIsLastSource == Spec => []LastSourceHolds
<1>1. ASSUME ConfigInv PROVE LastSourceHolds
  <2>1. steps \in Seq(TakenSteps) /\ DOMAIN steps = 1..Len(steps)
    BY <1>1 DEF ConfigInv
  <2>2. \A key : Known(key) # {} => \E i \in DOMAIN steps : key \in DOMAIN steps[i].pairs
    BY <2>1 DEF Known, Naming
  <2>3. DOMAIN config_ = UNION {{key \in DOMAIN steps[i].pairs : Known(key) # {}} :
                                  i \in DOMAIN steps}
    <3>1. \A key : key \in DOMAIN config_ <=> Known(key) # {}
      BY <1>1 DEF ConfigInv
    <3>2. DOMAIN config_ \subseteq UNION {{key \in DOMAIN steps[i].pairs : Known(key) # {}} :
                                            i \in DOMAIN steps}
      BY <2>2, <3>1
    <3> QED BY <3>1, <3>2
  <2>4. ASSUME NEW key \in DOMAIN config_ PROVE config_[key] = Given(key)
    <3> DEFINE i == CHOOSE i \in Counting(key) : \A j \in Counting(key) : j <= i
    <3>1. Latest(key, i)
      BY <1>1, <2>1, LatestExists DEF ConfigInv
    <3>2. Given(key) = steps[i].pairs[key]
      BY DEF Given
    <3> HIDE DEF i
    <3> QED BY <1>1, <3>1, <3>2 DEF ConfigInv
  <2> QED BY <2>3, <2>4 DEF LastSourceHolds
<1> QED BY <1>1, ConfigInvariant, PTL

(* An override makes text of what it replaces, and what is not text has a  *)
(* number.                                                                 *)
LEMMA StepValues ==
  ASSUME NEW s \in TakenSteps, NEW key \in DOMAIN s.pairs
  PROVE  s.pairs[key].number \in Int /\ (s.kind = "override" => s.pairs[key].type = "string")
<1>1. CASE s \in FileSteps
  <2>1. PICK kind \in {"file", "nothing"}, file \in ConfigFiles :
          s = [kind |-> kind, pairs |-> Object(file.pairs)]
    BY <1>1 DEF FileSteps
  <2> DEFINE list == file.pairs
             P == {i \in 1..Len(list) : list[i][1] = key}
             last == CHOOSE i \in DOMAIN list :
                       /\ list[i][1] = key
                       /\ \A j \in DOMAIN list : list[j][1] = key => j <= i
  <2>2. list \in Seq(STRING \X [type : STRING, text : STRING, number : Int])
    BY PairsAssumption
  <2>3. DOMAIN list = 1..Len(list) /\ Len(list) \in Nat
    BY <2>2
  <2> HIDE DEF list
  <2>4. key \in {list[i][1] : i \in DOMAIN list} /\ s.pairs[key] = list[last][2]
    BY <2>1 DEF Object, list
  <2>5. \E i \in P : \A j \in P : j <= i
    <3>1. P # {} /\ P \in SUBSET (1..Len(list))
      BY <2>3, <2>4
    <3> QED BY <2>3, <3>1, LastPosition
  <2>6. last \in DOMAIN list
    BY <2>3, <2>5
  <2> HIDE DEF last
  <2>7. list[last][2].number \in Int
    BY <2>2, <2>3, <2>6
  <2> QED BY <2>1, <2>4, <2>7
<1>2. CASE s \in OverrideSteps
  <2>1. PICK texts : s = [kind |-> "override", pairs |-> AsText(texts)]
    BY <1>2 DEF OverrideSteps
  <2>2. s.pairs[key] = String(texts[key])
    BY <2>1 DEF AsText
  <2> QED BY <2>2 DEF String
<1>3. CASE s \in SetSteps
  <2>1. PICK pair \in Assignments : s = [kind |-> "set", pairs |-> [k \in {pair[1]} |-> pair[2]]]
    BY <1>3 DEF SetSteps
  <2>2. pair[2].number \in Int
    BY PairsAssumption
  <2>3. s.kind = "set" /\ s.pairs[key] = pair[2]
    BY <2>1
  <2> QED BY <2>2, <2>3
<1> QED BY <1>1, <1>2, <1>3 DEF TakenSteps

(* What OverriddenPortIsNotRead says of a port that has been read.         *)
LastOf(counting) == CHOOSE i \in counting : \A j \in counting : j <= i
PortFits(taken, i, read) ==
  /\ taken[i].kind # "override"
  /\ (read - taken[i].pairs["port"].number) % 65536 = 0
LEMMA PortIsOfLastStep ==
  OverriddenPortIsNotRead <=> (port # -1 => PortFits(steps, LastOf(Counting("port")), port))
BY DEF OverriddenPortIsNotRead, PortFits, LastOf

(* Configuration::get, loadFromEnvironment, loadFromCommandLine: a port    *)
(* overridden from outside is never read, one that is read is cut to       *)
(* sixteen bits, whatever the sources say and in whatever order.           *)
THEOREM OverriddenPortIsNeverRead == Spec => []OverriddenPortIsNotRead
<1>1. Init => PortInv
  BY DEF Init, PortInv, OverriddenPortIsNotRead
<1>2. ASSUME PortInv, ConfigInv, [Next]_vars PROVE PortInv'
  <2>1. ASSUME UNCHANGED <<steps, port>>, pc' = pc \/ pc' # "configure" PROVE PortInv'
    <3>1. (port # -1 => PortFits(steps, LastOf(Counting("port")), port))
      BY <1>2, PortIsOfLastStep DEF PortInv
    <3>2. Counting("port")' = Counting("port")
      BY <2>1, StepsDecide
    <3>3. port' # -1 => PortFits(steps', LastOf(Counting("port")'), port')
      BY <2>1, <3>1, <3>2
    <3>4. OverriddenPortIsNotRead'
      BY <3>3 DEF OverriddenPortIsNotRead, PortFits, LastOf
    <3> QED BY <1>2, <2>1, <3>4 DEF PortInv
  <2>2. ASSUME pc = "configure", port' = port PROVE PortInv'
    BY <1>2, <2>2 DEF PortInv, OverriddenPortIsNotRead
  <2>3. CASE ReadPort
    <3> DEFINE i == CHOOSE i \in Counting("port") : \A j \in Counting("port") : j <= i
    <3>1. UNCHANGED steps /\ pc' = "read"
          /\ port' = IF Throws("uint16_t", "port") THEN -1 ELSE config_["port"].number % 65536
      BY <2>3 DEF ReadPort, get_uint16_t
    <3>2. CASE Throws("uint16_t", "port")
      BY <3>1, <3>2 DEF PortInv, OverriddenPortIsNotRead
    <3>3. CASE ~Throws("uint16_t", "port")
      <4>1. "port" \in DOMAIN config_ /\ config_["port"].type # "string"
        BY <3>3 DEF Throws, Accepts
      <4>2. /\ Latest("port", i) /\ i \in 1..Len(steps) /\ "port" \in DOMAIN steps[i].pairs
            /\ steps[i] \in TakenSteps
        BY <1>2, <4>1, LatestExists DEF ConfigInv
      <4>3. config_["port"] = steps[i].pairs["port"]
        BY <1>2, <4>1, <4>2 DEF ConfigInv
      <4>4. /\ steps[i].pairs["port"].number \in Int
            /\ steps[i].kind # "override"
        BY <4>1, <4>2, <4>3, StepValues
      <4>5. (port' - steps[i].pairs["port"].number) % 65536 = 0
        BY <3>1, <3>3, <4>3, <4>4
      <4>6. PortFits(steps, LastOf(Counting("port")), port')
        BY <4>4, <4>5 DEF PortFits, LastOf
      <4>7. PortFits(steps', LastOf(Counting("port")'), port')
        <5>1. Counting("port")' = Counting("port")
          BY <3>1, StepsDecide
        <5> QED BY <3>1, <4>6, <5>1
      <4>8. OverriddenPortIsNotRead'
        BY <4>7 DEF OverriddenPortIsNotRead, PortFits, LastOf
      <4> QED BY <3>1, <4>8 DEF PortInv
    <3> QED BY <3>2, <3>3
  <2>4. CASE UNCHANGED vars
    BY <2>1, <2>4 DEF vars, startupVars
  <2>5. ASSUME NEW file \in ConfigFiles, LoadFile(file) PROVE PortInv'
    BY <2>2, <2>5 DEF LoadFile, Step
  <2>6. ASSUME NEW pair \in Assignments, Assign(pair[1], pair[2]) PROVE PortInv'
    BY <2>2, <2>6 DEF Assign, Step
  <2>7. CASE LoadEnvironment
    BY <2>2, <2>7 DEF LoadEnvironment, Step
  <2>8. CASE LoadCommandLine
    BY <2>2, <2>8 DEF LoadCommandLine, Step
  <2>9. CASE OpenLog
    BY <2>1, <2>9 DEF OpenLog
  <2>10. CASE Reopen
    BY <2>1, <2>10 DEF Reopen, startupVars
  <2>11. CASE Quieten
    BY <2>1, <2>11 DEF Quieten, startupVars
  <2>12. CASE Assigned
    BY <2>1, <2>12 DEF Assigned, startupVars
  <2>13. ASSUME NEW t \in Writers, Log(t) PROVE PortInv'
    BY <2>1, <2>13 DEF Log, startupVars
  <2>14. ASSUME NEW t \in Writers, Write(t) PROVE PortInv'
    BY <2>1, <2>14 DEF Write, startupVars
  <2> QED BY <1>2, <2>3, <2>4, <2>5, <2>6, <2>7, <2>8, <2>9, <2>10, <2>11, <2>12, <2>13, <2>14 DEF Next
<1>3. PortInv => OverriddenPortIsNotRead
  BY DEF PortInv
<1> QED BY <1>1, <1>2, <1>3, ConfigInvariant, PTL DEF Spec


=============================================================================
