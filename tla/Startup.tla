------------------------------- MODULE Startup ------------------------------
(* Configuration and Logger closed with a program that uses all they offer:  *)
(* main configures in any order, reads the port, sends the log to the file   *)
(* the configuration names, and then main and the threads of the service     *)
(* log, while main may change the level and the log file again.              *)
EXTENDS Configuration, Logger

CONSTANTS
  ConfigFiles,  \* what loadFromFile() may find
  Environment,  \* the variables that are set
  Arguments,    \* the command line: <<name, value>>, or <<argument>> without "="
  Assignments,  \* <<key, value>> main may set()
  MaxSteps,     \* how many configuration steps main takes; what is left of them
                \* it may use to open log files
  MaxMessages   \* how many messages a thread logs

ASSUME PairsAssumption ==
  LET Pairs == STRING \X [type : STRING, text : STRING, number : Int]
  IN /\ \A file \in ConfigFiles : file.pairs \in Seq(Pairs)
     /\ Assignments \subseteq Pairs

VARIABLES
  pc,      \* main: configure, read or serve
  steps,   \* the configuration steps taken: what, and which key gets which value
  port,    \* what main read, -1 if get() threw
  order,   \* the messages, as their threads got the mutex
  excused  \* the messages setLogFile() may cost: those of a file that is opened
           \* again and those written to it until the assignment, those being
           \* written at the assignment, and those to a stream that is not open

startupVars == <<pc, steps, port>>
vars == <<config_, loggerVars, startupVars, order, excused>>

Init ==
  /\ ConfigInit /\ LoggerInit
  /\ pc = "configure" /\ steps = <<>> /\ port = -1
  /\ order = <<>> /\ excused = {}

\* A step of the configuration and its entry in steps.
Step(kind, pairs) ==
  /\ pc = "configure" /\ Len(steps) < MaxSteps
  /\ steps' = Append(steps, [kind |-> kind, pairs |-> pairs])
  /\ UNCHANGED <<loggerVars, pc, port, order, excused>>

AsText(texts) == [key \in DOMAIN texts |-> String(texts[key])]

LoadFile(file) ==
  /\ \E thrown \in BOOLEAN : loadFromFile(file, thrown)
  /\ Step(IF file.opens /\ file.begins THEN "file" ELSE "nothing", Object(file.pairs))
LoadEnvironment ==
  /\ loadFromEnvironment(Environment)
  /\ Step("override", AsText(Environment))
LoadCommandLine ==
  /\ loadFromCommandLine(Arguments)
  /\ Step("override", AsText(Named(Arguments)))
Assign(key, value) ==
  /\ set(key, value)
  /\ Step("set", [k \in {key} |-> value])

ReadPort ==
  /\ pc = "configure"
  /\ port' = IF Throws("uint16_t", "port") THEN -1 ELSE get_uint16_t("port")
  /\ pc' = "read"
  /\ UNCHANGED <<config_, loggerVars, steps, order, excused>>

\* setLogFile() of one path, and whom each half may cost a message.
Open(path) ==
  /\ OpenFile(path)
  /\ excused' = excused \cup
       (IF path \in Openable THEN {files[path][k] : k \in DOMAIN files[path]} ELSE {})
Assigned ==
  /\ Replace
  /\ excused' = excused \cup {message(t) : t \in {w \in Writers : step[w] = "file"}}
  /\ UNCHANGED <<config_, startupVars, order>>

OpenLog ==
  /\ pc = "read"
  /\ IF Throws("string", "log")
     THEN UNCHANGED <<loggerVars, excused>>
     ELSE Open(get_string("log"))
  /\ pc' = "serve"
  /\ UNCHANGED <<config_, steps, port, order>>

\* main again, when it is neither logging itself nor in setLogFile().
MainIsFree == pc = "serve" /\ step["main"] = "idle" /\ opened = NoStream
Reopen ==
  /\ MainIsFree /\ Len(steps) + logFile_.made < MaxSteps
  /\ \E path \in Paths : Open(path)
  /\ UNCHANGED <<config_, startupVars, order>>
Quieten ==
  /\ MainIsFree /\ logLevel_ = Info
  /\ setLogLevel(Warning)
  /\ UNCHANGED <<config_, startupVars, order, excused>>

Log(t) ==
  /\ pc = "serve" /\ number[t] < MaxMessages
  /\ t = "main" => MainIsFree
  /\ \E level \in {Info, Error} : log(t, level)
  /\ UNCHANGED <<config_, startupVars, order, excused>>

\* Written to a stream that is not open, or behind the back of the one that
\* has just emptied the same file.
Risky(t) ==
  /\ step[t] = "file"
  /\ ~stream[t].open \/ (opened.open /\ opened.path = stream[t].path)
Write(t) ==
  /\ Writes(t)
  /\ order' = IF step[t] = "lock" THEN Append(order, message(t)) ELSE order
  /\ excused' = IF Risky(t) THEN excused \cup {message(t)} ELSE excused
  /\ UNCHANGED <<config_, startupVars>>

Next ==
  \/ \E file \in ConfigFiles : LoadFile(file)
  \/ \E pair \in Assignments : Assign(pair[1], pair[2])
  \/ LoadEnvironment \/ LoadCommandLine \/ ReadPort
  \/ OpenLog \/ Reopen \/ Assigned \/ Quieten
  \/ \E t \in Writers : Log(t) \/ Write(t)

Spec == Init /\ [][Next]_vars

-----------------------------------------------------------------------------
\* What the steps say, as one would read it off them: a key is known from the
\* last file that was read at all, or set() since; its value is what the last
\* step that names it from there on gives it.
LastFile == CHOOSE n \in 0..Len(steps) :
  /\ n = 0 \/ steps[n].kind = "file"
  /\ \A i \in (n + 1)..Len(steps) : steps[i].kind # "file"
Naming(key) ==
  {i \in 1..Len(steps) : /\ i >= LastFile /\ key \in DOMAIN steps[i].pairs
                         /\ steps[i].kind # "nothing"}
Known(key) == {i \in Naming(key) : steps[i].kind \in {"file", "set"}}
Counting(key) == {i \in Naming(key) : \E k \in Known(key) : k <= i}
Given(key) ==
  steps[CHOOSE i \in Counting(key) : \A j \in Counting(key) : j <= i].pairs[key]

\* Configuration: whatever the order in which files, environment, command line
\* and set() are used, and wherever a file breaks off, nothing of an object
\* outlives the next file that is read, overrides count for known keys only,
\* and of several sources the last one holds.
LastSourceHolds ==
  /\ DOMAIN config_ = UNION {{key \in DOMAIN steps[i].pairs : Known(key) # {}} :
                               i \in DOMAIN steps}
  /\ \A key \in DOMAIN config_ : config_[key] = Given(key)

\* Configuration::get, loadFromEnvironment, loadFromCommandLine: a port that was
\* overridden from outside is never read, because it has become text; one that
\* is read is what the last file or set() gave, cut to sixteen bits.
OverriddenPortIsNotRead ==
  port # -1 =>
    LET last == steps[CHOOSE i \in Counting("port") : \A j \in Counting("port") : j <= i]
    IN last.kind # "override" /\ (port - last.pairs["port"].number) % 65536 = 0

\* Logger::log: entries on the console are whole: five lines in order, nothing
\* between them, the last one perhaps not complete yet, whoever logs at once.
EntriesAreWhole ==
  \A i \in DOMAIN console :
    /\ console[i][2] = ((i - 1) % 5) + 1
    /\ console[i][2] > 1 => console[i][1] = console[i - 1][1]

Position(m) == CHOOSE i \in DOMAIN order : order[i] = m
InOrder(s) ==
  \A i, j \in DOMAIN s : i < j /\ s[i] # s[j] => Position(s[i]) < Position(s[j])
InOrderBarring(lost, f) ==
  \A i, j \in DOMAIN f : i < j /\ {f[i], f[j]} \cap lost = {} => Position(f[i]) < Position(f[j])
OnConsole(m) == \E i \in DOMAIN console : console[i] = <<m, 5>>
InFile(m) == \E p \in Paths : \E i \in DOMAIN files[p] : files[p][i] = m
Writing(m) == m[2] = number[m[1]] /\ step[m[1]] # "idle"

\* Logger::log, setLogFile: a message that got past the level test ends up on
\* the console or in a file and stays there, whenever the file is changed; lost
\* are at most those of a file setLogFile() opens again, also the ones written
\* between its opening and its assignment, those it catches being written, and
\* those to a stream that is not open. None comes out in both places, and what
\* is not to be lost is in each file once, in the order of the mutex.
LossIsExplained ==
  /\ \A i \in DOMAIN order :
       LET m == order[i] IN Writing(m) \/ OnConsole(m) \/ InFile(m) \/ m \in excused
  /\ \A i \in DOMAIN order : ~(OnConsole(order[i]) /\ InFile(order[i]))
  /\ \A p \in Paths : InOrderBarring(excused, files[p])
  /\ InOrder([i \in DOMAIN console |-> console[i][1]])
=============================================================================
