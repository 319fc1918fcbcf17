---------------------------- MODULE HttpService ----------------------------
(***************************************************************************)
(* The running server: main.cpp, HttpService (Services/HttpService.cpp)    *)
(* and everything they drive.  Four kinds of actors interleave:            *)
(*                                                                         *)
(*   main      waits for 'q', calls stop(), joins the service thread;      *)
(*   service   HttpService::run(): bind, listen, then select / accept /    *)
(*             launch / clean up until stop_flag_, then wait for the tasks;*)
(*   tasks     one std::async thread per accepted connection: take a       *)
(*             connection from the pool and run HandleRequest on it;       *)
(*   clients   connect, send a request, close or reset (external).         *)
(*                                                                         *)
(* A task is not bound to the connection it was launched for: it takes the *)
(* oldest one in the pool.                                                 *)
(***************************************************************************)
EXTENDS ConnectionPool, HttpProtocolHandler

(* Faults is a subset of                                                   *)
(*   "socket"   the constructor cannot create the server socket            *)
(*   "handler"  no protocol handler was registered                         *)
(*   "bind"     bind() may fail                                            *)
(*   "listen"   listen() may fail                                          *)
(*   "select"   select() may fail                                          *)
(*   "accept"   accept() may fail, the client stays in the backlog         *)
(*   "async"    std::async may be unable to start a thread                 *)
(*   "route"    the request parser or the route handler may throw          *)
(*   "reset"    a client may reset its connection                          *)
(*   "sigpipe"  writing to a reset connection may raise SIGPIPE            *)
FaultKinds == {"socket", "handler", "bind", "listen", "select", "accept",
               "async", "route", "reset", "sigpipe"}

ASSUME FaultsAssumption == Faults \subseteq FaultKinds

maxRetries == 8  \* Socket::bind

VARIABLES
  main_pc,             \* main(): "input", "joining", "exit"
  service_pc,          \* where the service thread is in run()
  stop_flag_,
  server_socket_,      \* "null", "created", "bound", "listening"
  protocol_handlers_,  \* the registered protocols
  attempts,            \* failed bind() calls
  arrived,             \* clients that have connected
  accepted,            \* clients that accept() has returned
  launched,            \* tasks std::async has started
  connection_futures   \* the tasks whose futures run() still keeps

serviceVars ==
  <<main_pc, service_pc, stop_flag_, server_socket_, protocol_handlers_,
    attempts, arrived, accepted, launched, connection_futures>>

vars == <<poolVars, socketVars, handlerVars, serviceVars>>

ServicePcs == {"bind", "listen", "lookup", "loop", "select", "accept", "add",
               "launch", "cleanup", "drain", "returned"}

ServiceType == [HTTP |-> "http", HTTPS |-> "https", RPC |-> "rpc", RPCS |-> "rpcs"]

registerProtocolHandler(handlers, protocol) == handlers \cup {protocol}

(* The state in which main() starts the service thread. *)
Init ==
  /\ PoolInit
  /\ SocketInit
  /\ HandlerInit
  /\ main_pc = "input"
  /\ service_pc = "bind"
  /\ stop_flag_ = FALSE
  /\ server_socket_ \in {"created"} \cup {s \in {"null"} : "socket" \in Faults}
  /\ protocol_handlers_ \in {registerProtocolHandler({}, ServiceType.HTTP)}
                              \cup {h \in {{}} : "handler" \in Faults}
  /\ attempts = 0
  /\ arrived = 0
  /\ accepted = 0
  /\ launched = 0
  /\ connection_futures = {}

-----------------------------------------------------------------------------
(* main() *)

(* The user types 'q': HttpService::stop(). *)
Stop ==
  /\ main_pc = "input"
  /\ main_pc' = "joining"
  /\ stop_flag_' = TRUE
  /\ UNCHANGED <<service_pc, server_socket_, protocol_handlers_, attempts,
                 arrived, accepted, launched, connection_futures>>
  /\ UNCHANGED <<poolVars, socketVars, handlerVars>>

(* service_thread.join() returns once run() has. *)
Join ==
  /\ main_pc = "joining"
  /\ service_pc = "returned"
  /\ main_pc' = "exit"
  /\ UNCHANGED <<service_pc, stop_flag_, server_socket_, protocol_handlers_,
                 attempts, arrived, accepted, launched, connection_futures>>
  /\ UNCHANGED <<poolVars, socketVars, handlerVars>>

-----------------------------------------------------------------------------
(* HttpService::run(), one disjunct per step of the service thread. *)

ServiceGoto(label) == service_pc' = label

(* Slip: the count of failures starts again before it reaches the limit. *)
BindFailsWrapping ==
  /\ "bind" \in Faults
  /\ attempts' = (attempts + 1) % maxRetries
  /\ UNCHANGED <<service_pc, server_socket_>>

(* bind() fails: sleep a second and try again. *)
BindFails ==
  /\ "bind" \in Faults
  /\ attempts' = attempts + 1
  /\ UNCHANGED <<service_pc, server_socket_>>

BindSucceeds ==
  /\ server_socket_' = "bound"
  /\ ServiceGoto("listen")
  /\ UNCHANGED attempts

(* After maxRetries failures Socket::bind() throws; prepareServerSocket     *)
(* logs the exception and run() goes on with a socket that does not listen. *)
BindGivesUp ==
  /\ ServiceGoto("lookup")
  /\ UNCHANGED <<server_socket_, attempts>>

(* prepareServerSocket, up to listen(): one ::bind() call per step.  The   *)
(* null server_socket_ of a failed constructor is dereferenced here.       *)
Bind ==
  /\ service_pc = "bind"
  /\ IF server_socket_ = "null"
       THEN /\ process' = "killed"
            /\ UNCHANGED <<service_pc, server_socket_, attempts>>
       ELSE /\ IF attempts < maxRetries THEN BindSucceeds \/ BindFails
                                        ELSE BindGivesUp
            /\ UNCHANGED process
  /\ UNCHANGED <<main_pc, stop_flag_, protocol_handlers_, arrived, accepted,
                 launched, connection_futures>>
  /\ UNCHANGED <<poolVars, socketVars, pc, connection, poll_fd, response,
                 bytesSent, keep_alive_, inbound, delivered>>

Listen ==
  /\ service_pc = "listen"
  /\ \/ server_socket_' = "listening"
     \/ "listen" \in Faults /\ UNCHANGED server_socket_
  /\ ServiceGoto("lookup")
  /\ UNCHANGED <<main_pc, stop_flag_, protocol_handlers_, attempts, arrived,
                 accepted, launched, connection_futures>>
  /\ UNCHANGED <<poolVars, socketVars, handlerVars>>

(* Without an HTTP handler run() returns at once. *)
LookupHandler ==
  /\ service_pc = "lookup"
  /\ ServiceGoto(IF ServiceType.HTTP \in protocol_handlers_ THEN "loop" ELSE "returned")
  /\ UNCHANGED <<main_pc, stop_flag_, server_socket_, protocol_handlers_,
                 attempts, arrived, accepted, launched, connection_futures>>
  /\ UNCHANGED <<poolVars, socketVars, handlerVars>>

(* Slip: the test is hoisted out of the loop, where the flag was FALSE. *)
TestHoistedFlag ==
  /\ service_pc = "loop"
  /\ ServiceGoto("select")
  /\ UNCHANGED <<main_pc, stop_flag_, server_socket_, protocol_handlers_,
                 attempts, arrived, accepted, launched, connection_futures>>
  /\ UNCHANGED <<poolVars, socketVars, handlerVars>>

(* while (!stop_flag_): the flag is not atomic, but the calls in the loop  *)
(* are opaque to the compiler, so it is read again on every turn.          *)
TestStopFlag ==
  /\ service_pc = "loop"
  /\ ServiceGoto(IF stop_flag_ THEN "drain" ELSE "select")
  /\ UNCHANGED <<main_pc, stop_flag_, server_socket_, protocol_handlers_,
                 attempts, arrived, accepted, launched, connection_futures>>
  /\ UNCHANGED <<poolVars, socketVars, handlerVars>>

Backlog == arrived > accepted

(* select() on the server socket: an error ends the loop, a timeout goes   *)
(* straight back to the loop condition.  What it says of a socket that     *)
(* does not listen differs between systems: either answer is possible.     *)
Select ==
  /\ service_pc = "select"
  /\ \/ "select" \in Faults /\ ServiceGoto("drain")
     \/ (server_socket_ = "listening" => ~Backlog) /\ ServiceGoto("loop")
     \/ (server_socket_ = "listening" => Backlog) /\ ServiceGoto("accept")
  /\ UNCHANGED <<main_pc, stop_flag_, server_socket_, protocol_handlers_,
                 attempts, arrived, accepted, launched, connection_futures>>
  /\ UNCHANGED <<poolVars, socketVars, handlerVars>>

-----------------------------------------------------------------------------
(* processNewConnection *)

CanAccept == server_socket_ = "listening" /\ Backlog /\ FreeFds # {}

(* accept() returned a descriptor; a Connection is made around it. *)
AcceptClient ==
  /\ CanAccept
  /\ accepted' = accepted + 1
  /\ Install(NewFd, SocketFile(accepted + 1))
  /\ socket_fd_' = [socket_fd_ EXCEPT ![accepted + 1] = NewFd]
  /\ ServiceGoto("add")

(* Slip: an accept() error ends the service loop. *)
AcceptErrorEndsLoop ==
  /\ ~CanAccept \/ "accept" \in Faults
  /\ ServiceGoto("drain")
  /\ UNCHANGED <<accepted, socketVars>>

(* Slip: the result of accept() is not tested before a task is launched. *)
AcceptErrorLaunches ==
  /\ ~CanAccept \/ "accept" \in Faults
  /\ ServiceGoto("launch")
  /\ UNCHANGED <<accepted, socketVars>>

(* accept() returned -1: no descriptor is left, the socket does not listen, *)
(* or the network failed.  The error is logged.                             *)
AcceptError ==
  /\ ~CanAccept \/ "accept" \in Faults
  /\ ServiceGoto("cleanup")
  /\ UNCHANGED <<accepted, socketVars>>

Accept ==
  /\ service_pc = "accept"
  /\ AcceptClient \/ AcceptError
  /\ UNCHANGED <<main_pc, stop_flag_, server_socket_, protocol_handlers_,
                 attempts, arrived, launched, connection_futures>>
  /\ UNCHANGED <<poolVars, handlerVars>>

AddConnection ==
  /\ service_pc = "add"
  /\ addConnection(accepted)
  /\ ServiceGoto("launch")
  /\ UNCHANGED <<main_pc, stop_flag_, server_socket_, protocol_handlers_,
                 attempts, arrived, accepted, launched, connection_futures>>
  /\ UNCHANGED <<socketVars, handlerVars>>

(* connection_futures.push_back(std::async(std::launch::async, ...)) *)
StartTask ==
  /\ launched' = launched + 1
  /\ Goto(launched', "getConnection")
  /\ connection_futures' = connection_futures \cup {launched'}

(* When no thread can be started, std::async throws: the exception is      *)
(* logged and the connection stays in the pool.                            *)
Launch ==
  /\ service_pc = "launch"
  /\ \/ StartTask
     \/ "async" \in Faults /\ UNCHANGED <<launched, pc, connection_futures>>
  /\ ServiceGoto("cleanup")
  /\ UNCHANGED <<main_pc, stop_flag_, server_socket_, protocol_handlers_,
                 attempts, arrived, accepted>>
  /\ UNCHANGED <<poolVars, socketVars, connection, poll_fd, response,
                 bytesSent, keep_alive_, inbound, delivered, process>>

-----------------------------------------------------------------------------

CleanUpConnectionFutures ==
  /\ service_pc = "cleanup"
  /\ connection_futures' = {t \in connection_futures : pc[t] # "ready"}
  /\ ServiceGoto("loop")
  /\ UNCHANGED <<main_pc, stop_flag_, server_socket_, protocol_handlers_,
                 attempts, arrived, accepted, launched>>
  /\ UNCHANGED <<poolVars, socketVars, handlerVars>>

Pooled == {connection_pool_[i] : i \in 1..Len(connection_pool_)}

(* Every future has been waited for; leaving run() destroys the pool, and  *)
(* with it the connections still inside, whose sockets close.              *)
Return ==
  /\ service_pc = "drain"
  /\ \A t \in connection_futures : pc[t] = "ready"
  /\ connection_futures' = {}
  /\ connection_pool_' = <<>>
  /\ open_files' = [f \in Fds |->
       IF \E c \in Pooled : f = socket_fd_[c] THEN Free ELSE open_files[f]]
  /\ socket_fd_' = [c \in Connections |->
       IF c \in Pooled THEN NoFd ELSE socket_fd_[c]]
  /\ ServiceGoto("returned")
  /\ UNCHANGED <<main_pc, stop_flag_, server_socket_, protocol_handlers_,
                 attempts, arrived, accepted, launched>>
  /\ UNCHANGED <<waiting, notified, handlerVars>>

Service ==
  \/ Bind \/ Listen \/ LookupHandler
  \/ TestStopFlag \/ Select
  \/ Accept \/ AddConnection \/ Launch
  \/ CleanUpConnectionFutures \/ Return

-----------------------------------------------------------------------------
(* The task: the lambda given to std::async. *)

(* getConnection(), until it returns a connection. *)
GetConnection(t) ==
  /\ pc[t] = "getConnection"
  /\ getConnection(t)
  /\ IF connection_pool_ = <<>>
       THEN UNCHANGED <<pc, connection>>
       ELSE /\ connection' = [connection EXCEPT ![t] = Head(connection_pool_)]
            /\ Goto(t, "openRead")
  /\ UNCHANGED <<socketVars, serviceVars, poll_fd, response, bytesSent,
                 keep_alive_, inbound, delivered, process>>

(* The lambda ends: the last reference to the Connection goes, ~Socket     *)
(* closes once more, and then the future becomes ready.                    *)
Release(t) ==
  /\ pc[t] = "release"
  /\ Close(connection[t])
  /\ Goto(t, "ready")
  /\ UNCHANGED <<poolVars, serviceVars, connection, poll_fd, response,
                 bytesSent, keep_alive_, inbound, delivered, process>>

Task(t) ==
  \/ GetConnection(t)
  \/ HandleRequest(t) /\ UNCHANGED <<poolVars, serviceVars>>
  \/ Release(t)

-----------------------------------------------------------------------------
(* The clients (external).  Connecting to a socket that does not listen is *)
(* refused and leaves no trace.                                            *)

Connect ==
  /\ server_socket_ = "listening"
  /\ arrived < MaxConnections
  /\ arrived' = arrived + 1
  /\ UNCHANGED <<main_pc, service_pc, stop_flag_, server_socket_,
                 protocol_handlers_, attempts, accepted, launched,
                 connection_futures>>
  /\ UNCHANGED <<poolVars, socketVars, handlerVars>>

(* The server has not closed client c's connection; what a client does     *)
(* after that reaches nobody.                                              *)
Connected(c) ==
  /\ c <= arrived
  /\ c <= accepted => socket_fd_[c] # NoFd

(* Client c sends its request, or closes without one ... *)
Speak(c) ==
  /\ Connected(c)
  /\ inbound[c] = "silent"
  /\ \E what \in {"data", "eof"} : inbound' = [inbound EXCEPT ![c] = what]
  /\ UNCHANGED <<poolVars, socketVars, serviceVars, pc, connection, poll_fd,
                 response, bytesSent, keep_alive_, delivered, process>>

(* ... or resets the connection, at any moment. *)
Reset(c) ==
  /\ "reset" \in Faults
  /\ Connected(c)
  /\ inbound[c] # "reset"
  /\ inbound' = [inbound EXCEPT ![c] = "reset"]
  /\ UNCHANGED <<poolVars, socketVars, serviceVars, pc, connection, poll_fd,
                 response, bytesSent, keep_alive_, delivered, process>>

-----------------------------------------------------------------------------

(* Nothing is left to happen: not a deadlock. *)
Terminated ==
  /\ main_pc = "exit" \/ process = "killed"
  /\ UNCHANGED vars

Next ==
  \/ /\ process = "running"
     /\ \/ Stop \/ Join
        \/ Service
        \/ \E t \in Tasks : Task(t)
        \/ Connect
        \/ \E c \in Connections : Speak(c) \/ Reset(c)
  \/ Terminated

(* Every thread of the process keeps being scheduled.  Nobody makes the    *)
(* user type 'q', nor a client connect, send or leave.                     *)
Running(A) == process = "running" /\ A

Fairness ==
  /\ WF_vars(Running(Join))
  /\ WF_vars(Running(Service))
  /\ \A t \in Tasks : WF_vars(Running(Task(t)))

Spec == Init /\ [][Next]_vars
FairSpec == Spec /\ Fairness

(* Clients that always say something once they are connected. *)
TalkativeSpec ==
  FairSpec /\ \A c \in Connections : WF_vars(Running(Speak(c)))

-----------------------------------------------------------------------------
(* Properties *)

PoolTypeOK ==
  /\ connection_pool_ \in Seq(Connections)
  /\ waiting \subseteq Tasks
  /\ notified \subseteq Tasks

SocketTypeOK ==
  /\ open_files \in [Fds -> Files]
  /\ socket_fd_ \in [Connections -> Fds \cup {NoFd}]

TaskTypeOK ==
  /\ pc \in [Tasks -> TaskPcs]
  /\ connection \in [Tasks -> Connections \cup {None}]
  /\ poll_fd \in [Tasks -> Fds \cup {NoFd}]
  /\ response \in [Tasks -> Connections \cup {None}]
  /\ bytesSent \in [Tasks -> 0..ResponseLength]

NetworkTypeOK ==
  /\ keep_alive_ \in [Connections -> BOOLEAN]
  /\ inbound \in [Connections ->
                   {"silent", "data", "eof", "reset", "consumed"}]
  /\ delivered \in [Connections -> Seq(Connections \X (1..ResponseLength))]
  /\ process \in {"running", "killed"}

ServiceTypeOK ==
  /\ main_pc \in {"input", "joining", "exit"}
  /\ service_pc \in ServicePcs
  /\ stop_flag_ \in BOOLEAN
  /\ server_socket_ \in {"null", "created", "bound", "listening"}
  /\ protocol_handlers_ \subseteq {ServiceType.HTTP}
  /\ attempts \in 0..maxRetries
  /\ arrived \in 0..MaxConnections
  /\ accepted \in 0..arrived
  /\ launched \in 0..accepted
  /\ connection_futures \subseteq 1..launched

TypeOK ==
  PoolTypeOK /\ SocketTypeOK /\ TaskTypeOK /\ NetworkTypeOK /\ ServiceTypeOK

(* Descriptor numbers and open files correspond one to one: a Socket that  *)
(* still has a number owns the file behind it (nobody closed it and let    *)
(* accept() or kqueue() reuse the number), and no file is open without an  *)
(* owner that will close it.  Every exit of handleRequest, and the second  *)
(* close() in ~Socket, could break it.                                     *)
DescriptorOwnership ==
  \A f \in Fds :
    /\ \A c \in Connections :
         open_files[f] = SocketFile(c) <=> socket_fd_[c] = f
    /\ \A t \in Tasks : open_files[f] = PollFile(t) <=> poll_fd[t] = f

(* What a client is sent is the answer to its own request, each piece once *)
(* and in order, however the writes were cut and whatever descriptors the  *)
(* other tasks opened and closed in between.                               *)
AnswersReachTheirClient ==
  \A c \in Connections : \A i \in 1..Len(delivered[c]) :
    delivered[c][i] = <<c, i>>

(* A connection is never served by two tasks, nor still in the pool while  *)
(* a task serves it: tasks do not coordinate but through getConnection().  *)
OneTaskPerConnection ==
  \A t \in Tasks : connection[t] # None =>
    /\ connection[t] \notin Pooled
    /\ \A u \in Tasks : connection[u] = connection[t] => u = t

(* The tasks still on their way to getConnection(), and the one about to   *)
(* be launched. *)
Takers == {t \in Tasks : pc[t] = "getConnection"}
Owed == IF service_pc = "launch" THEN 1 ELSE 0

(* Every task finds a connection in the pool: none ever sleeps on the      *)
(* pool's condition variable.  Nothing but addConnection() could wake it,  *)
(* and run() would wait for it forever.                                    *)
NoTaskSleeps == waiting = {}

(* When run() has returned, the pool on its stack is gone and main is about *)
(* to exit: no task may still be running, and nothing may be left open.     *)
DrainedAtReturn ==
  service_pc = "returned" =>
    /\ \A t \in Tasks : pc[t] \in {"unlaunched", "ready"}
    /\ \A f \in Fds : open_files[f] = Free

(* The server keeps its promise to the clients. *)
Contract == INSTANCE ServiceContract WITH
  Clients <- Connections,
  AnswerLength <- ResponseLength,
  life <- [c \in Connections |->
             CASE c > accepted -> "absent"
               [] c \in Pooled \/ (service_pc = "add" /\ c = accepted) ->
                    "queued"
               [] OTHER ->
                    IF socket_fd_[c] # NoFd THEN "serving" ELSE "closed"],
  answered <- [c \in Connections |-> Len(delivered[c])],
  stopped <- service_pc = "returned"

ImplementsContract == Contract!Spec

(* After 'q' the program ends: the service thread notices the flag, waits  *)
(* for the tasks it started, and main joins it.                            *)
StopCompletes ==
  stop_flag_ ~> (main_pc = "exit" \/ process = "killed")

(* Every connection that was accepted is taken by a task and closed, the   *)
(* service running or not.                                                 *)
AcceptedAreClosed ==
  \A c \in Connections :
    accepted >= c ~> ((c \notin Pooled /\ socket_fd_[c] = NoFd)
                       \/ process = "killed")

(* A client in the backlog is accepted unless the service is stopped, even *)
(* if the process has run out of descriptors meanwhile.                    *)
BacklogIsAccepted ==
  \A c \in Connections :
    arrived >= c ~> (accepted >= c \/ stop_flag_ \/ process = "killed")

=============================================================================
