# A verification of udemos

udemos is a small HTTP server in C++: one thread accepts connections, one
`std::async` task per connection reads a request and writes a response, and a
handful of `Core` utilities (thread pool, message queue, memory pool, logger,
configuration) stand beside it. This directory holds TLA+ modules translated
from that source, TLC configurations that model-check them on small instances,
and theorems about them that TLAPS checks for every value of the constants.

`PROJECT.json` is the index: components, runs, the map from definitions to
source lines, hazards, findings, theorems, and for every property a plausible
mistake in the code ("mutant") that the property catches.

## 1. The system

Paths are relative to the repository. "State" is what the part keeps between
calls.

| Component | State | Operations | Correct when |
|---|---|---|---|
| `main.cpp`, `Services/HttpService` | `stop_flag_`, `server_socket_`, `protocol_handlers_`; in `run()`: the pool, `connection_futures` | `run`, `prepareServerSocket`, `processNewConnection`, `cleanUpConnectionFutures`, `stop`, `registerProtocolHandler` | every accepted connection is served and closed; it serves until stopped; `stop()` ends it; nothing runs after `run()` returns |
| `Networking/ConnectionPool` | a deque, a mutex, a condition variable | `addConnection`, `getConnection` | FIFO, no connection and no wake-up lost |
| `Networking/Socket`, `Connection` | one descriptor number, `keep_alive_` | `bind` (retries), `listen`, `connect`, `close`, destructor | a number held is a file owned |
| `Protocol/HttpProtocolHandler` | none; locals `kq`/`epoll_fd`, `bytesSent` | `handleRequest`: wait, read, dispatch, write, close | the answer reaches its client in order; no exit leaks a descriptor |
| `Core/ThreadPool` | a bounded queue, a stop flag, worker threads | `enqueue`, `worker`, `stop`, destructor | FIFO, bounded, accepted tasks run, shut-down completes |
| `Core/Common/MessageQueue` | a queue; the consumer's pause and stop flags; two condition variables | `publish`, `push`, `start`, `run`, `pause`, `resume`, `stop`, `join` | published messages are consumed; stop and pause take effect |
| `Core/Common/ThreadManager` | a map of threads, an atomic counter; `running_` of each thread | `add_thread`, `start_thread`, `stop_thread`, `remove_thread`, `join_all` | `join_all` returns when all started threads have been removed, and not before |
| `Core/CoreMemory/MemoryPool` | chunks, blocks, a free list | `allocate`, `deallocate` | no block has two owners |
| `Core/CoreThread` | a queue under a mutex; a thread joined by its wrapper | `push`, `try_pop`, `empty`; constructor, destructor | FIFO, each value once; nothing outlives the scope |
| `Core/Logger` | level, file stream, a mutex that `setLogFile` does not take | `log`, `setLogFile`, `setLogLevel` | entries are whole; a message is lost only where `setLogFile` explains it |
| `Core/Config` | a JSON object | three loaders, `get`, `set` | the last source that names a key holds |
| `Protocol/HttpModels` | the fields of one request or response | `parseHttpRequest`, accessors, setters, `toString` | what arrives whole is understood; what is cut off is not taken for something else |
| `Route`, `demo` handlers | a map filled by `main`; a key file | `registerHandler`, `getHandler`, three `handleRequest` | exactly the registered routes are answered |
| `Crypto` | a key | key files, `encrypt`, `decrypt`, base 64 | decrypting inverts encrypting |
| `Networking/AddressResolver`, client side of `Connection` | a descriptor | `resolve`, the connecting constructor | a connection, or an exception and no descriptor |
| `Core/Utils`, `VIPER`, `tests` | none | string helpers, clocks, templates | |

### How the parts interact

    main ----stop()/join----> service thread ---accept---> Connection
                                  |  addConnection             |
                                  v                            |
                            ConnectionPool                     |
                                  |  getConnection             v
                              async task ---handleRequest--> Socket (fd)
                                                               ^
    clients ---connect, send, close, reset---------------------+

    handleRequest: HttpRequest.parse -> RouteHandlerFactory.getHandler
                     -> a demo handler (AESCipher) -> HttpResponse.toString

* `main` and the service thread share `stop_flag_` (a plain `bool`).
* The service thread and the tasks share the pool, by reference to a local of
  `run()`, and the futures. A task is **not** told which connection it was
  launched for; it takes the oldest in the pool.
* Tasks share nothing else, except what is easy to forget: the descriptor
  table of the process. All I/O goes through a number.
* What passes between parser, route handler and response is text. The server
  reads once and writes until its client is too slow, so either text can be
  cut off anywhere.
* The `Core` utilities are used by nothing in the server except `Logger` and
  `Configuration`; each is composed with a small program that uses it as its
  interface invites (`WorkCrew`, `Startup`, the callers in `ThreadPool`,
  `MessageConsumer` and `MemoryPool`).

### What is hard

Interleavings of tasks, accept and clients over that table; failures in the
middle (`accept`, `kqueue`, `std::async`, read, parser, route handler, write);
resets; running out of descriptors; timeouts that exist on one platform only;
the end of the service while all this is going on; in the `Core`
utilities, condition variables shared by unlike waiters, flags and counters
that change without the mutex, and a log file replaced under its writers; and
in the text handling, positions that `find()` did not find, a delimiter that
takes a carriage return with it, cut input and cut output. The "hazards" of
`PROJECT.json` list each at the line where it bites, with the properties that
cover it.

## 2. Modules

| Module | Models | Role |
|---|---|---|
| `ConditionVariable` | `std::condition_variable` (external) | operations for the modules below |
| `ConnectionPool` | `ConnectionPool.cpp` | the pool's state and two operations, no callers |
| `ConnectionPoolClients` | any callers of the pool | closes `ConnectionPool`; FIFO refinement |
| `FifoQueue` | nothing: abstract | what a hand-over queue promises |
| `Socket` | `Socket.cpp`, kernel descriptor table (external) | constants and helpers for descriptors |
| `HttpProtocolHandler` | `HttpProtocolHandler.cpp` | one task's steps through `handleRequest` |
| `HttpService` | `HttpService.cpp`, `main.cpp`, `Socket::bind/listen`, clients (external) | composes `ConnectionPool` and `HttpProtocolHandler`; the system |
| `ServiceContract` | nothing: abstract | what the server promises its clients |
| `MCHttpService` | | instances of `HttpService` for TLC |
| `ThreadPool` | `ThreadPool.hpp` | the thread pool with callers and an owner |
| `MessageConsumer` | `Core/Common/MessageQueue` | a message queue, its producers and consumers, callers that control them |
| `MemoryPool` | `MemoryPool.cpp` | chunks, blocks, the free list, callers that give back what they were given |
| `BlockAllocator` | nothing: abstract | what a pool of blocks promises |
| `ThreadManager` | `ThreadManager.hpp`, `BaseThread.hpp` | the manager's state and operations, a thread's life |
| `ThreadSafeQueue` | `ThreadSafeQueue.hpp` | a queue's three operations |
| `WorkCrew` | `ThreadWrapper.hpp`, a program | composes the two: threads that empty a queue |
| `Text` | `StringUtils.cpp`, `std::string::find`, `substr`, `getline` (external) | text as sequences of lexemes |
| `HttpRequest` | `HttpRequest.cpp`, `HttpMethod.cpp` | the parser, as operators |
| `HttpResponse` | `HttpResponse.cpp`, `HttpResponseUtil` | the response and its text, as operators |
| `AESCipher` | `AESCipher.cpp`, `AESUtil.h`, OpenSSL (external) | keys, cipher and base 64, as operators |
| `RouteHandlers` | `Route/`, `demo/Routes/` | the factory and the three handlers, as operators |
| `ClientConnection` | the client side of `Connection`, `Socket`, `AddressResolver` | a connection being made, address by address |
| `HttpExchange` | one request and its answer, end to end | composes the six above |
| `MCHttpExchange` | | the requests TLC tries |
| `Configuration`, `Logger` | `Configuration.cpp`, `Logger.cpp` | state and operations |
| `Startup` | a program that configures itself and logs | composes the two |
| `MCStartup` | | the files, variables and arguments TLC tries |
| `ConnectionPoolProofs`, `HttpServiceProofs`, `ThreadPoolProofs`, `WorkCrewProofs`, `MessageConsumerProofs`, `MemoryPoolProofs`, `StartupProofs`, `HttpExchangeProofs` | | theorems about the module in the name |

A definition keeps the name of the function or variable it stands for
(`addConnection`, `socket_fd_`, `Bind`). A definition whose comment begins with
"Slip" is no part of the model: it is a mistake somebody could make in the
definition below it, kept to show which property notices.

### Granularity

A critical section of a mutex is one step; `wait()` ends a step. In
`HttpService` a step contains at most one system call that another thread or a
client could observe. Three places where this needs a word:

* `kqueue()`/`epoll_create1()` fail and succeed like `accept()`: both take the
  lowest free number of `Fds`, which is how "out of descriptors" arises.
* Waiting for a request and closing the poll instance are one step
  (`WaitForSocketRead`): the instance is a local of the task, and closing it
  a moment later can only delay others that are short of descriptors.
* `Return` waits for all futures and destroys the pool in one step. Nothing can
  use the pool in between: the service thread itself is the only one that adds.

### State of `HttpService` and the code

`open_files` is the kernel's table; `socket_fd_[c]` the `Socket::socket_fd_` of
the connection made for the `c`-th client; `connection[t]`, `poll_fd[t]`,
`response[t]`, `bytesSent[t]` are locals of task `t`; `pc[t]` is its program
counter, `"ready"` once its future is. `inbound[c]` is what a `read()` would
find (nothing, data, end of stream, a reset) and `delivered[c]` the pieces
written to `c`. `arrived`, `accepted`, `launched` count clients, connections
and tasks: clients are numbered in the order of arrival, tasks in the order of
launch. `connection_futures` is the vector of futures, as the set of their
tasks.

In `HttpService` requests are abstract: a request is the client it came from, a
response the client whose request it answers and a number of pieces. The parser
and the route handler appear as "may throw" (`"route"` in `Faults`), which is
all of them that the threads and descriptors depend on. `HttpExchange` is the
complement: one connection, without threads, and everything that happens to the
text.

### Text in `HttpExchange`

A text is a sequence of lexemes: a carriage return, a line feed, a space, a
colon, a header's name, a boundary are one element each, never a string of
characters. The lexemes are as small as the parser's `find()`s tell apart
(`"--"` and the boundary are two, the form's `"; "` is one), so a cut at
every lexeme is a cut at every place where the outcome can change. Lengths are
counted in lexemes on both sides. `npos + k` wraps around as `size_t` does:
`HttpRequest` treats a position not found as the code's arithmetic does: where
`substr` then starts behind the end the parser throws (both places are in
`PartThrows`), elsewhere it goes on with what it cut out. `std::stoi` accepts
the words of the constant `Numerals`, however long the body is and whether or not
its length is the one stated, since the parser never uses the number.
`istringstream`, `getline` and `>>` are operators of `Text`; their
treatment of an empty rest of a line is the one the parser meets.

zlib is external: a compressed text is a marker, the text, an end marker, and
`inflate` returns what there is of it; `inflateInit2` with `MAX_WBITS + 16`
accepts the gzip marker only. OpenSSL is external: the cipher is a shift of the
bytes of padded blocks by the key and the digest of a key is a number; what the
code around it does (reading the key file, its line breaks, padding that does not
check, base 64 bit by bit) is modelled by what it does.

### State of `Configuration`, `Logger`, `ThreadManager`

`config_` is a function from keys to JSON values with their kind, so that an
environment variable becomes text and `get<uint16_t>` throws on it or cuts a
number to sixteen bits. `Logger::log` is the level test, the lock, the test of
`logFile_` (`Branch`), its dereference (`Deref`), and one step per line, the last
with the unlock; `step[t]` says where thread `t` is, `stream[t]` which stream
object it dereferenced, `console` and `files` what has come out. `setLogFile()`
takes no mutex and is two steps: making the new stream, which opens and empties
the file (`OpenFile`, the stream is in `opened`), and the assignment, which
destroys the old one (`Replace`). Writers may act between the two, on either
side of every step of theirs. A stream has a position of its own, a message takes
one place in a file: so a message written behind the back of a new stream on the
same file is there until the new stream's next one overwrites it. (A compiler
that tests and dereferences one copy of the pointer gives the executions
in which `Deref` follows `Branch` at once.) In `ThreadManager`,
`threads_`, `num_running_` and `running_` are the members and `at[id]` is the
thread's place: running, then the three steps of `remove_thread()` (erase,
count, notify), none of which holds the mutex `join_all()` waits with.

### Platform

The two `#ifdef` branches differ in one way that matters: the Linux wait for
a request ends after a second, the Apple one has no timeout. `Platform`
chooses. At this commit the Linux branch does not compile as it stands
(`HttpService.cpp` includes `<sys/event.h>`, and the header declares only the
Apple signature of `readSocketData`), so `"apple"` is the program that runs and
`"linux"` the one its authors describe in the README's Ubuntu instructions.

## 3. What is checked

All runs use TLC without symmetry. Deadlock is checked (`Terminated` is the
stuttering step of a program that has ended), except in `exchange`, `crew` and
`startup`: those programs end, and the model stops with them. In `crew` it also
stops when the one lost notification leaves `main` in `join_all()`, which
`JoinReturnsUnlessMissed` states.

| Run | Question | Properties | Bounds |
|---|---|---|---|
| `safety` | Can anything be confused, leaked or left behind, and does every connection get exactly one task? | `TypeOK`, `DescriptorOwnership`, `AnswersReachTheirClient`, `DrainedAtReturn`, `OneTaskPerConnection`, `NoTaskSleeps`, `ImplementsContract` | 2 clients, 3 descriptors, 2 pieces, all runtime faults |
| `linux` | Does the server make progress against any clients? | `StopCompletes`, `AcceptedAreClosed`, `BacklogIsAccepted` | 2 clients, 2 descriptors |
| `apple` | And without a timeout, if the clients talk, whatever fails at the start? | `StopCompletes` | 2 clients, 2 descriptors, all start-up faults |
| `pool` | Is the pool a FIFO queue under arbitrary callers? | `TypeOK`, `NoLostWakeup`, `ImplementsFifo`, `SleepersAreServed` | 3 connections, 3 threads |
| `threadpool` | Does a full thread pool keep its promises? | `TypeOK`, `QueueBounded`, `JoinedMeansDone`, `ImplementsFifo`, `ShutdownCompletes`, `AcceptedTasksRun` | 2 workers, 3 tasks, one of which throws, capacity 2 |
| `consumers` | Do consumers that share a queue respect its order and their flags, and what is a caller of theirs sure of? | `ControlIsPrompt`, `ImplementsFifo`, `PushedAreTaken`, `StoppedEnds` | 2 consumers, 2 messages, one of them published |
| `memorypool` | Does a free list through a vector that moves stay sound? | `FreeListIsExact`, `ImplementsAllocator` | 4 callers, initial size 1, 3 chunks before allocation stops failing |
| `exchange` | Is a request understood, routed, decrypted and answered as it was meant, and a cut one never misunderstood? | `RequestIsUnderstood`, `CutBodyIsAPrefix`, `AnswerIsUnderstood`, `SecretsAreShared`, `RoutingIsExact`, `ConstructionIsAllOrNothing` | 73 requests of every kind, up to 110 lexemes of body, cut after every lexeme, both ways |
| `crew` | Does `join_all` wait for every thread, and no longer? | `CountCoversThreads`, `WorkIsDone`, `JoinReturnsUnlessMissed` | 2 threads, each started up to twice, 3 jobs |
| `startup` | Which source of the configuration holds, and what can the log lose? | `LastSourceHolds`, `OverriddenPortIsNotRead`, `EntriesAreWhole`, `LossIsExplained` | 3 steps of configuration or of changing the log file, 2 threads with 2 messages each, 2 log files and one that does not open |

Two more runs show a disagreement between the code and what the repository
says of it; TLC finds the counterexample.

| Run | The repository says | The code does |
|---|---|---|
| `silent_client` | `main.cpp:57` "Stop the service and wait for the service thread to finish" | `kevent` without timeout (`HttpProtocolHandler.cpp:109`): one silent client and the wait never ends |
| `threadpool_no_space` | `ThreadPool.hpp:66` "Wait until there's space in the queue" | `worker()` makes space and notifies nobody |

Three facts about the code limit what the passing runs claim:

* When `std::async` fails, the connection just accepted stays in the pool
  and every later task serves an earlier client's connection. `safety` has that
  fault: each connection still has one task at most, and what is left over is
  closed when `run()` returns (`DrainedAtReturn`). `AcceptedAreClosed` would be
  false with it and is checked without it.
* When `bind()` fails for good, the exception is logged and the loop goes on
  with a socket that does not listen. `apple` has that fault: `q` still ends the
  program.
* `remove_thread()` can notify `join_all()` between its test and its sleep
  (`crew`); `AcceptedTasksRun` holds only of executions after which nobody waits
  for space (`threadpool_no_space`).

### Why these bounds

Two clients are enough for every confusion between two connections: a number
that is closed, reused and closed again needs one victim. Three descriptors
hold two connections and one poll instance, so that a second `kqueue()` fails;
two (in the progress runs) make `accept()` fail as well. With two connections
each task can take the one its neighbour was launched for. Two pieces are
the least that can be cut. The thread pool is full with two tasks queued while
a third caller waits, and two workers give a notification somebody to wake
wrongly. With two consumers the queue can be emptied between one consumer's
test and its `pop()`; two messages then let the other consumer sleep in `pop()`
as well. The bounds, all constants: `MaxConnections`, `Fds`, `ResponseLength`,
`Connections`, `Threads`, `Workers`, `Tasks`, `Capacity` (100 in the code),
`Consumers`, `Messages`, `Callers`, `InitialPoolSize`, `MaxChunks`, `Requests`,
`ServerFiles`, `Secrets`, `Ids`, `Jobs`, `MaxStarts`, `Writers`, `MaxSteps`,
`MaxMessages`. Four callers make a memory pool of one block grow to
three and to nine, so that it moves under blocks in use and under blocks that
come back. `maxRetries` is the code's 8.

The requests of `exchange` (`MCHttpExchange`) are the union of five families,
each varying what one part of the parser branches on: routes and queries; body,
encoding and length; `Connection` and `Cookie` headers, twice the same cookie;
forms with one to three parts, a field twice, a file, contents of two lines;
secrets of every length modulo three, before and after encryption, and with the
bytes at which base 64 and padding turn. A form of seven parts and a long secret
have lengths of three digits; `Numerals` holds the numbers of up to three.
Addresses: none, one, two, and one of the other family. In `crew`
two threads give one notification somebody to miss while the other still runs,
and the second start of a thread shows what `num_running_` then counts; three
jobs let one thread take jobs on either side of the other's. A thread's test of
`empty()` and its `try_pop()` are two steps, so that with one job left both
threads find the queue not empty and one of them then pops nothing. In `startup`
three configuration steps are a file, an override and whatever undoes it; a file may
open, not open, not begin to be JSON, or break off. Steps that are not needed to
configure may open log files: one file that names a log, and one more call of
`setLogFile`, whose halves come at each step of the other writer's entries and which
may be of the file that is being written; or no configuration and three calls.

### Fairness

Weak fairness of each thread of the process, and nothing more: the service
thread, every task, `main` once it joins, a thread inside the thread pool's or
the message queue's code. All of them are enabled until they act, so weak
fairness is what any preemptive scheduler provides; mutexes are held for a few
instructions only.
Nobody makes the user type `q`, a client connect or speak, or a caller call.
A failing `accept()` is not assumed to succeed one day; `BacklogIsAccepted`
holds because tasks give descriptors back. `TalkativeSpec`, used by `apple`,
adds that a connected client eventually sends or closes; without
it Apple's wait need not end, which is what `silent_client` shows. The thread
that fails `bind()` for ever is not assumed away: the retries are counted.
`crew` assumes the same of `main` inside `join_all()` and `join()` and of every
thread; nobody makes `main` start, stop or join. `exchange` and `startup` check
safety only.

Progress of `consumers` is as strong as the code allows. `PushedAreTaken` and
`StoppedEnds` speak of a message pushed through the consumer and of a consumer
that is not left paused, because neither a published message nor `stop()` on an
empty queue wakes a thread for good, and a paused thread does not look at
`stopFlag_` (hazards `MessageConsumer.hpp:78` and `:46`). A consumer that sleeps
in `pop()` keeps its `mutex_`, and whoever calls its `push()` or `stop()` waits
for it (hazard `:79`): nothing is claimed of such a call before it has begun.

### Refinement

`ImplementsContract` maps `HttpService` to `ServiceContract`: connections are
queued, served and closed in arrival order, each once, answers only grow while
a connection is served, and when the service has stopped none is open. The
mapping reads a connection's stage of life from `accepted`, the pool and
`socket_fd_`. `ImplementsFifo` maps the connection pool, the thread pool's
queue and the message queue to `FifoQueue`. `ImplementsAllocator` maps the
memory pool to `BlockAllocator`.

## 4. What is proved

Every theorem is for all values of the constants. What a proof needs of them is
assumed by name beside their declaration, and TLC evaluates it in the runs:

| Assumption | In | Says |
|---|---|---|
| `FdsAssumption`, `MaxConnectionsAssumption`, ... | beside the constants | descriptors are naturals and finitely many, sets of threads are finite, bounds are positive |
| `NoBlockAssumption` | `MemoryPool` | no block is the null pointer |
| `WritersAssumption`, `PathsAssumption` | `Logger` | no thread is "no owner of the mutex"; a path that opens is one of `Paths` |
| `PairsAssumption` | `Startup` | a configuration is made of keys and JSON values, and a JSON number is a number |
| `RequestsAssumption` | `HttpExchange` | what a client writes is a request: its method and path are words, its query begins with `?`, cookies hold nothing that separates cookies, an encrypted message is one of bytes and is not sent together with a form |
| `FormsAssumption` | `HttpExchange` | names, file names and lines of a form are words, none of them one that frames a form; no word of a body is the mark that ends a gzip stream, which stands for bytes no text holds |
| `NumbersAssumption` | `HttpExchange` | the digits of a length are a word that `std::stoi` reads (no client sends more than an `int` can count), and up to the status codes different numbers have different digits (`ToString` is a TLC operator without a definition the prover could use) |
| `FilesAssumption` | `HttpExchange` | a key file holds armour and keys only, and the clients can open theirs |
| `SecretsAssumption` | `HttpExchange` | a message of the server, its time and its id are a byte each |

| Theorem | Establishes |
|---|---|
| `ConnectionPoolProofs!TypeCorrect` | `[]TypeOK` of the pool |
| `ConnectionPoolProofs!WakeupsAreNotLost` | `[]NoLostWakeup`, inductive beside `TypeOK` |
| `ConnectionPoolProofs!PoolImplementsFifo` | the refinement of `FifoQueue` |
| `HttpServiceProofs!TypeCorrect` | `[]TypeOK` of the server |
| `HttpServiceProofs!DescriptorsAreOwned` | `[]DescriptorOwnership` |
| `HttpServiceProofs!NoTaskEverSleeps` | `[]NoTaskSleeps` |
| `HttpServiceProofs!ReturnIsClean` | `[]DrainedAtReturn` |
| `HttpServiceProofs!ConnectionsHaveOneTask` | `[]OneTaskPerConnection` |
| `HttpServiceProofs!AnswersAreDelivered` | `[]AnswersReachTheirClient` |
| `HttpServiceProofs!ServerKeepsContract` | the refinement of `ServiceContract` |
| `ThreadPoolProofs!TypeCorrect` | `[]TypeOK` of the thread pool |
| `ThreadPoolProofs!QueueStaysBounded` | `[]QueueBounded` |
| `ThreadPoolProofs!ShutdownLosesNothing` | `[]JoinedMeansDone` |
| `ThreadPoolProofs!TasksStartInOrder` | the refinement of `FifoQueue` |
| `WorkCrewProofs!CountIsCovered` | `[]CountCoversThreads` |
| `WorkCrewProofs!CrewFinishesItsWork` | `[]WorkIsDone` |
| `MessageConsumerProofs!MessagesAreTakenInOrder` | the refinement of `FifoQueue` |
| `MessageConsumerProofs!ControlTakesEffect` | `[]ControlIsPrompt` |
| `MemoryPoolProofs!NoBlockHasTwoOwners` | the refinement of `BlockAllocator` |
| `MemoryPoolProofs!FreeListIsWhatIsFree` | `[]FreeListIsExact` |
| `StartupProofs!EntriesStayWhole` | `[]EntriesAreWhole` |
| `StartupProofs!LossesAreExplained` | `[]LossIsExplained` |
| `StartupProofs!ConfigurationIsLastSource` | `[]LastSourceHolds` |
| `StartupProofs!OverriddenPortIsNeverRead` | `[]OverriddenPortIsNotRead` |
| `HttpExchangeProofs!ConstructionSucceedsOrCleansUp` | `[]ConstructionIsAllOrNothing` |
| `HttpExchangeProofs!RequestsAreRoutedExactly` | `[]RoutingIsExact` |
| `HttpExchangeProofs!Base64RoundTrip` | `base64Decode(base64Encode(data)) = data` for all sequences of bytes |
| `HttpExchangeProofs!RequestsAreUnderstood` | `[]RequestIsUnderstood` |
| `HttpExchangeProofs!CutBodiesArePrefixes` | `[]CutBodyIsAPrefix` |
| `HttpExchangeProofs!AnswersAreUnderstood` | `[]AnswerIsUnderstood` |
| `HttpExchangeProofs!SharedSecretsAreRead` | `[]SecretsAreShared` |
| `HttpExchangeProofs!AnsweredSecretsAreReadable` | of `[]SecretsAreShared` the answer: `AnswerIsReadable` whenever a secret is answered |

With these, every safety property that a run checks, invariant, action property
or refinement, is proved for all values of the constants.

The arguments. (`LogInv`, `ConnectInv`, `RouteInv`, `SecretInv` and `AnswerInv`,
the largest of the strengthenings, are invariants of the runs' instances by TLC
as well.)

* **The pool.** A connection is added together with a woken thread, and a
  woken thread leaves `notified` only with a connection or because there is
  none. FIFO needs `HistoryInv`: what was added is what was taken followed by
  what is in the deque.
* **The server's types** are not inductive alone. A task that dereferences
  `connection[t]` must have one, a launch must be owed a connection, a `read()`
  must not find the file of a stranger: `ControlInv` ties program counters to
  locals, and `DescriptorInv` (with `PollInv` and `AcceptedInv`) adds that the
  table, the sockets and the poll instances agree.
* **`DescriptorOwnership`** is part of `DescriptorInv`. The step that matters is
  `Close`: it frees the file and forgets the number together, so the close in
  `~Socket` finds nothing to close.
* **`NoTaskSleeps`** is a counting argument, `SupplyInv`: the connections in
  the pool are at least the tasks on their way to it plus the task owed by a
  connection just added. A failed `std::async` only adds to the surplus.
* **`DrainedAtReturn`** needs `FuturesInv` (a task is ready or its future is
  kept), `HeldInv` (an accepted connection that is open is in the pool, about
  to be added, or in the hands of a task that is not ready) and `ClosedInv` (a
  ready task has closed what it opened).
* **The server's contract.** `OrderInv`: the pool is sorted (`PoolSorted`),
  whatever is in it is newer than anything a task has taken (`TakenInOrder`), and
  no two tasks took the same connection (`TakenOnce`). `OpenInv`: a socket is
  open until its own task closes it, so with `DescriptorOwnership` what a task
  writes goes to its own client. `SentInv`: a task answers the client of its
  connection and counts just the pieces that client has got, and nobody else
  sends it any. The refinement then goes step by step: an accept queues, a take
  serves, a close closes, a write extends one answer, and every other step of
  the server is a stutter of the contract.
* **The queues.** The thread pool and the message queue have the same
  `HistoryInv` as the connection pool; in the thread pool the task a worker
  holds between the two critical sections of its loop has already left.
* **The thread pool.** A task is queued, in a worker's hands or finished
  (`AccountInv`); a worker exits only from a stopped, empty pool, to which
  nothing is added any more (`ExitInv`).
* **`WorkCrew`.** `CountCoversThreads` is inductive with `FreshInv` (a thread
  not started is as it was made, one not stopped runs since it was started):
  each start and each `remove_thread()` moves the count by one and adds at most,
  or removes exactly, one thread from those still to be counted out.
  `JobsInv` keeps what was pushed equal to what was popped followed by the queue,
  each job once, and the queue empty once a thread that was not stopped has left
  its loop; `DoneInv` says that after `join_all()` no thread is left to count.
* **`MessageConsumer`.** `ControlIsPrompt` counts the messages taken after a
  flag was set. `PromptInv`: a consumer that has taken one is past every place
  where it could take another before it reads the flag.
* **`MemoryPool`.** The free list is a chain of indices into a vector that
  moves. `FreeInv` exhibits the chain as an injective sequence of places in
  `blocks_`, each pointing to the next, with exactly the other places' data in
  the callers' hands; an allocation takes its head, a deallocation puts one
  before it, and growth makes a chain of the new chunk when the old one has run
  out. That following `next` from the head reaches exactly the chain is shown
  by least counterexample. The refinement needs that no two places have the same
  data (`Distinct`) and that no data is held twice (`HeldOnce`).
* **`Logger`.** `LogInv` has eight parts. `LogTypeOK`: the types. `MutexInv`:
  the mutex is held by exactly the thread between its lock and its unlock. `OrderInv`: a message gets
  the mutex once, and the holder's is the last that did. `OutputInv`: what has
  come out has had the mutex, and not in two places. `ConsoleInv`: the console
  is whole entries but for the holder's lines so far. `FateInv`: a message that
  had the mutex is being written, has come out or is excused, also one whose
  stream was replaced. `StreamInv`: a stream, the one in `logFile_` and the one a
  writer holds, is behind all that is in its file but for what may be lost, and
  all that is in the file of a stream opened and not yet assigned may be lost; so
  an overwritten message is an excused one. `SequenceInv`: console and files, but
  for what may be lost, follow the order of the mutex. Neither half of
  `setLogFile()` takes the mutex, so each part is shown to survive each half
  between any two steps of a writer.
* **`Configuration`.** `ConfigInv`: a key is there while a source that names it
  counts, and has the value of the last of these; each new source moves that
  last position for exactly the keys it counts for. `PortInv` follows: what `get`
  read was the last source's value, text never fits, and a number is cut to
  sixteen bits.
* **The constructor of `Connection`** (`ConnectInv`): there are addresses to try
  only once there is a socket, and a socket that is connecting knows its peer.
* **Routing.** `RegisterInv`: the map is what the registrations so far put into
  it, under keys that differ. `TextInv`: what the parser was given is a start of
  the request's text, and in the end the parser has read nothing, refused that
  text, or made the request of it. The rest is about texts: the first four lexemes are the
  method, a blank, the path, and the query's `?` or a blank, however the text
  goes on and wherever it ends after them, and from any such text the parser
  reads this method and this path. Concatenations of concatenations, the joined
  parts of a form among them, are shown to be texts first; a recursive function
  exists and returns texts because there is no least index at which it fails to.
* **The head of a message** (`HeadOf`, `Lined`): in the text of a head a carriage
  return and a line feed only ever stand together at the end of a line, and the
  line starts are the header lines of a map. This is shown once for any head,
  line by line as `RequestText` and `toString()` add them, and so serves the
  request as well as the answer. `Cut` says what is left of head, blank line and
  body when the text ends after `n` lexemes. From these two alone follow the
  place of the blank line (found exactly if both line ends have arrived), and
  `Reads`: the map `Headers` makes of a head that arrived whole has the client's
  names, and the client's values with the blank in front and the carriage return
  behind that the parser keeps.
* **Cut bodies.** Before the blank line there is no body. After it the head is
  whole, so the parser and the client agree on whether there is a length and an
  encoding, and the raw body is a start of what the client encoded. Inflating a
  start of a gzip stream gives a start of the text (`Payload` need not be free of
  the end mark for that: the first one stops the stream, wherever it is).
* **Whole requests.** `RequestIsUnderstood` follows from `TextInv` and lemmas
  about one text. `Laid` says where the parts of a flattened sequence are, for any
  number of parts: a cookie is five lexemes, so pair `i` starts at `5 * i - 4`; a
  part of a form begins with `--`, which occurs nowhere else in it (`Frame`), so
  the delimiter, which has taken the header's carriage return along, occurs
  exactly where a part starts and never at the closing mark, and what is cut out
  up to the next one, or to the end, still has the head and the first line of the
  part (`PartText`). `AssignedMoves` then says that assigning names to values
  at the positions in the text, in order, is assigning them in the order the
  client wrote them: the last of a name wins in both. And the parser does not
  refuse such a request, however long: the length it states is a numeral
  (`LengthIsRead`); each part of its form has a blank line and a name, so neither
  `substr` of `handleMultipartFormData` starts behind the end (`FormIsKept`); and
  without a body there is no part that could be broken (`NoBody`).
* **Answers.** `AnswerInv`: what was received is a start of the answer's text, and
  the answer is one a handler can return (`WellMade`), with `Connection` among
  its headers only if the client asked, and always if it asked and its request
  arrived. `toString()` goes through its map in an order the code does not
  fix; whatever the order, each header is in the text once. A start of that
  text that holds the blank line has a whole head, so the client reads the status
  and the stated length, and the body it has is as long as stated just when
  nothing is missing.
* **Secrets.** `SecretInv`: until a handler is called no key file has been read,
  and then the answer is the server's message under the key it read and what is
  logged is what the client sent, decrypted; or it is a refusal, nothing is logged
  and what was sent does not decrypt. Key files with the same one key make the
  same cipher, however their lines break, and the payload of a whole request is
  the body the handler gets. The rest is about bytes. Base 64: of the four values
  that three bytes give, two neighbours give back each byte; `n` bytes give as
  many characters as decode to `n` bytes, and both values that share a byte have
  characters, also in a short last group; the characters differ, and the fill is
  none of them. None of this is an induction, since both directions are
  functions of an index. Padding and the shift that stands for OpenSSL's cipher
  are undone likewise, for any key.

Only model-checked:

* everything about progress (`StopCompletes`, `AcceptedAreClosed`,
  `BacklogIsAccepted`, `SleepersAreServed`, `ShutdownCompletes`,
  `AcceptedTasksRun`, `PushedAreTaken`, `StoppedEnds`,
  `JoinReturnsUnlessMissed`): liveness under fairness is out of reach of the
  prover used here. What is proved of the same modules is their safety part: the
  queues lose nothing, nobody sleeps on the pool, `join_all()` returns only when
  it may;
* the two disagreements of section 3, which are counterexamples.

## 5. What is not modelled

* Allocation failure. `std::make_shared<Connection>` throwing would leak the
  descriptor just accepted; so would `push_back` of the future.
* Memory ordering. `stop_flag_` is a data race by the letter of the standard.
  Every turn of the loop makes calls the compiler cannot see through, so the
  flag is read again, and the model reads it again.
* The listening socket and stdio in the descriptor table: open for the whole
  run.
* Spurious wake-ups inside `HttpService`: no task ever waits
  (`NoTaskEverSleeps`), so there is nobody to wake. `pool` and `threadpool`
  have them.
* Pipelined requests, which are never read: the connection is closed after one
  response even with `keep-alive`. (What is longer than the one `read()` of 4096
  bytes, or arrives later, is a cut in `exchange`.)
* The `else` branch of `handleRequest` (502): a read that returns no bytes
  throws, so the branch is not reached.
* For the thread pool: tasks that call the pool themselves, `stop()` called
  twice, and a destructor that runs under a caller. `stop()` followed by the
  destructor is modelled and terminates the process: `join()` of a thread
  already joined throws in a `noexcept` destructor (hazard `ThreadPool.hpp:56`).
* For the message consumer: `start()` on a thread that has not been joined
  (`std::terminate`) and a callback that throws. `stopFlag_` and `empty()` are
  read without the mutex that guards them; the model takes each such read as
  atomic, the mutex operations around it being compiler barriers.
* For the thread manager: `remove_thread()` called by anybody but the thread's
  own finish delegate (it counts down whatever the map says); a stopped thread
  started again, which assigns to a joinable `std::thread`, and a thread that
  holds the last pointer to itself and so joins itself: both end the process.
* For the memory pool: a block given back twice or by somebody who does not hold
  it, an initial size or a block size of zero, and calls that throw before they
  change anything (a size too large, a pointer the pool does not know).
* For the request parser: `isValidJson`, which keeps nothing and has no caller;
  the pairs of the query, which are put into a local map and dropped.
  `AuthToken` is modelled, and is always empty: the parser keeps the blank after
  a header's colon, so that the word before the first blank is never `Bearer`.
  Nothing in the code reads the token.
* For the logger: two threads in `setLogFile()` at once, and what a message that
  overwrites another one leaves of it: in the model it takes the whole place. A destroyed stream that is
  written to is undefined; in the model it writes to its file or loses the
  message.
* For the configuration: what the JSON library does inside a value. The service
  keeps a reference to the configuration and reads nothing from it.
* `MutexLock`, `ConditionVariableWrapper` (single library calls, no user),
  `FileUtils`, `TimeUtils`, `ErrorUtils`, `CFunctional` (stateless helpers
  without a caller), the VIPER templates (no instance), the tests (one
  placeholder).
* `CMakeFiles/*/CompilerIdCXX/CMakeCXXCompilerId.cpp`: generated by CMake to
  identify the compiler; some 1600 of the repository's 5300 lines of C++, and
  no part of the program.

## 6. What is left

Every component with behaviour of its own is modelled and every safety property
is proved, so what could follow is more model, not more proof:

1. The calls section 5 lists that end the process (a second `stop()` of a thread
   pool, a stopped thread started again), if the code is to grow guards against
   them.
2. A client that sends in several pieces, if the server is to read more than once:
   `exchange` then needs a buffer between `Send` and `Parse`, and `Cut` is the
   lemma that says what is in it.
3. Liveness by hand: the progress properties are leads-to chains whose
   steps are enabled by invariants that are proved, so a prover with `ENABLED`
   could check them without a change to the modules.

## 7. Running

    tlc -workers 2 -config MCHttpService_safety.cfg MCHttpService.tla
    tlapm HttpServiceProofs.tla
