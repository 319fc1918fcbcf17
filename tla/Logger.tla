------------------------------- MODULE Logger -------------------------------
(* Logger: one line per message in the log file, or five lines on the        *)
(* console while there is none. Only log() takes the mutex, and only after   *)
(* it has tested the level; setLogFile() opens a stream and replaces the old *)
(* one without it. One thread calls setLogFile() at a time, any number call  *)
(* log(). A message is <<thread, number>> and takes one place in a file; a   *)
(* stream writes where it is, whatever other streams do to the same file.    *)
EXTENDS Integers, Sequences, FiniteSets

CONSTANTS
  Writers,  \* the threads that log
  Paths,    \* where a log file can be
  Openable  \* the paths of these that can be opened

ASSUME WritersAssumption == "none" \notin Writers
ASSUME PathsAssumption == Openable \subseteq Paths

Info == 1
Warning == 2
Error == 3

VARIABLES
  logLevel_,  \* the level below which nothing is logged
  logFile_,   \* the stream: its path, the number of the call that made it (0: none),
              \* whether it is open, and where it writes next
  opened,     \* the stream setLogFile() has made and not assigned yet
  logMutex_,  \* the thread that holds the mutex, or none
  step,       \* of each thread: idle, lock, branch, deref, file or console
  number,     \* of each thread: the message it logs, or logged last
  stream,     \* of each thread in log(): the stream it writes to
  console,    \* lines <<message, 1 to 5>> on the console
  files       \* the messages in each file, by their place; there may be gaps

loggerVars == <<logLevel_, logFile_, opened, logMutex_, step, number, stream, console, files>>

NoStream == [path |-> "none", made |-> 0, open |-> FALSE, at |-> 0]
Empty == [k \in {} |-> k]
Put(f, at, m) == [k \in {at} \cup DOMAIN f |-> IF k = at THEN m ELSE f[k]]
message(t) == <<t, number[t]>>

LoggerInit ==
  /\ logLevel_ = Info /\ logFile_ = NoStream /\ opened = NoStream /\ logMutex_ = "none"
  /\ step = [t \in Writers |-> "idle"] /\ number = [t \in Writers |-> 0]
  /\ stream = [t \in Writers |-> NoStream]
  /\ console = <<>> /\ files = [p \in Paths |-> Empty]

setLogLevel(level) ==
  /\ logLevel_' = level
  /\ UNCHANGED <<logFile_, opened, logMutex_, step, number, stream, console, files>>

\* setLogFile(), first half: making the stream opens, and so empties, its file.
OpenFile(path) ==
  /\ opened = NoStream
  /\ opened' = [path |-> path, made |-> logFile_.made + 1, open |-> path \in Openable, at |-> 0]
  /\ files' = IF path \in Openable THEN [files EXCEPT ![path] = Empty] ELSE files
  /\ UNCHANGED <<logLevel_, logFile_, logMutex_, step, number, stream, console>>

\* Second half: the assignment, which destroys the old stream. The new one is
\* kept when it is not open; to throw then changes nothing.
Replace ==
  /\ opened # NoStream
  /\ logFile_' = opened /\ opened' = NoStream
  /\ UNCHANGED <<logLevel_, logMutex_, step, number, stream, console, files>>

log(t, level) ==
  /\ step[t] = "idle"
  /\ number' = [number EXCEPT ![t] = @ + 1]
  /\ step' = IF level < logLevel_ THEN step ELSE [step EXCEPT ![t] = "lock"]
  /\ UNCHANGED <<logLevel_, logFile_, opened, logMutex_, stream, console, files>>

(* Slip: log() does not wait for the mutex.                                  *)
BargeIn(t) ==
  /\ step[t] = "lock"
  /\ logMutex_' = t
  /\ step' = [step EXCEPT ![t] = "branch"]
  /\ UNCHANGED <<logLevel_, logFile_, opened, number, stream, console, files>>

Lock(t) ==
  /\ step[t] = "lock" /\ logMutex_ = "none"
  /\ logMutex_' = t
  /\ step' = [step EXCEPT ![t] = "branch"]
  /\ UNCHANGED <<logLevel_, logFile_, opened, number, stream, console, files>>

\* Is there a stream at all?
Branch(t) ==
  /\ step[t] = "branch"
  /\ step' = [step EXCEPT ![t] = IF logFile_.made = 0 THEN "console" ELSE "deref"]
  /\ UNCHANGED <<logLevel_, logFile_, opened, logMutex_, number, stream, console, files>>

(* Slip: a thread goes on with the stream it had the first time.             *)
DerefFirstFile(t) ==
  /\ step[t] = "deref"
  /\ stream' = [stream EXCEPT ![t] = IF stream[t].made = 0 THEN logFile_ ELSE stream[t]]
  /\ step' = [step EXCEPT ![t] = "file"]
  /\ UNCHANGED <<logLevel_, logFile_, opened, logMutex_, number, console, files>>

\* The stream of this moment, which need not be the one that was tested.
Deref(t) ==
  /\ step[t] = "deref"
  /\ stream' = [stream EXCEPT ![t] = logFile_]
  /\ step' = [step EXCEPT ![t] = "file"]
  /\ UNCHANGED <<logLevel_, logFile_, opened, logMutex_, number, console, files>>

\* A stream that is not open takes nothing. One that setLogFile() has destroyed
\* since may do anything; here it writes to its file or loses the message.
ToFile(t) ==
  /\ step[t] = "file"
  /\ LET s == stream[t]
     IN \/ /\ s.open
           /\ files' = [files EXCEPT ![s.path] = Put(@, s.at, message(t))]
           /\ logFile_' = IF s = logFile_ THEN [s EXCEPT !.at = @ + 1] ELSE logFile_
        \/ /\ ~s.open \/ s # logFile_
           /\ UNCHANGED <<files, logFile_>>
  /\ step' = [step EXCEPT ![t] = "idle"]
  /\ logMutex_' = "none"
  /\ UNCHANGED <<logLevel_, opened, number, stream, console>>

\* One of five lines, and after the last one the end of the scope.
ToConsole(t) ==
  LET line == Cardinality({i \in DOMAIN console : console[i][1] = message(t)}) + 1
  IN /\ step[t] = "console"
     /\ console' = Append(console, <<message(t), line>>)
     /\ step' = [step EXCEPT ![t] = IF line = 5 THEN "idle" ELSE @]
     /\ logMutex_' = IF line = 5 THEN "none" ELSE logMutex_
     /\ UNCHANGED <<logLevel_, logFile_, opened, number, stream, files>>

Writes(t) == Lock(t) \/ Branch(t) \/ Deref(t) \/ ToFile(t) \/ ToConsole(t)
=============================================================================
