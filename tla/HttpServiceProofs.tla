------------------------- MODULE HttpServiceProofs -------------------------
(***************************************************************************)
(* What the server guarantees for any number of clients, descriptors and   *)
(* response pieces, and any combination of faults.                         *)
(***************************************************************************)
EXTENDS HttpService, FiniteSetTheorems, SequenceTheorems,
        WellFoundedInduction, NaturalsInduction, TLAPS

(* A task that has left getConnection() holds a connection, and one that   *)
(* has read a request knows whose it is.                                   *)
TaskInv ==
  \A t \in Tasks :
    /\ pc[t] \notin {"unlaunched", "getConnection"} => connection[t] # None
    /\ pc[t] \in {"dispatch", "openSend", "send"} => response[t] # None
    /\ t > launched => pc[t] = "unlaunched"

(* A connection that was accepted and not yet launched for has no task.    *)
LaunchInv == service_pc \in {"add", "launch"} => launched < accepted

ControlInv == TypeOK /\ TaskInv /\ LaunchInv

(* A poll instance is open only while its task waits on it, and clients    *)
(* that were not accepted have no socket here.                             *)
PollInv ==
  \A t \in Tasks : pc[t] \notin {"waitRead", "send", "closeSend"} =>
                     poll_fd[t] = NoFd
AcceptedInv == \A c \in Connections : c > accepted => socket_fd_[c] = NoFd

DescriptorInv == PollInv /\ AcceptedInv /\ DescriptorOwnership

(* As long as run() has not returned, it keeps the future of every task    *)
(* that is not finished; nothing is accepted before its loop.              *)
FuturesInv ==
  /\ service_pc # "returned" =>
       \A t \in Tasks : pc[t] \notin {"unlaunched", "ready"} =>
                          t \in connection_futures
  /\ service_pc \in {"bind", "listen", "lookup"} => accepted = 0
  /\ service_pc = "returned" =>
       \A t \in Tasks : pc[t] \in {"unlaunched", "ready"}

(* The pool holds a connection for every task that is going to take one.   *)
SupplyInv ==
  /\ waiting = {} /\ notified = {}
  /\ Cardinality(Takers) + Owed <= Len(connection_pool_)

(* An open connection is in the hands of the service thread, in the pool,  *)
(* or in the hands of a task that has yet to close it.                     *)
Holds(t, c) ==
  connection[t] = c /\ pc[t] \notin {"unlaunched", "getConnection", "release",
    "ready"}
HeldInv ==
  \A c \in Connections : socket_fd_[c] # NoFd =>
    \/ c \in Pooled
    \/ service_pc = "add" /\ c = accepted
    \/ \E t \in Tasks : Holds(t, c)

-----------------------------------------------------------------------------
(* The descriptor table. *)

(* A non-empty set of naturals has a least element. *)
LEMMA LeastNatural ==
  ASSUME NEW S, S \subseteq Nat, S # {}
  PROVE  \E m \in S : \A n \in S : m <= n
<1>1. IsWellFoundedOn(OpToRel(<, Nat), Nat)
  BY NatLessThanWellFounded
<1>2. PICK m \in S : \A n \in S : ~(<<n, m>> \in OpToRel(<, Nat))
  BY <1>1, WFMin
<1>3. \A n \in S : ~(n < m)
  BY <1>2 DEF OpToRel
<1> QED BY <1>3

(* The kernel hands out a number that is free, or none. *)
LEMMA NewFdIsFree ==
  ASSUME SocketTypeOK
  PROVE  \/ NewFd = NoFd
         \/ NewFd \in Fds /\ NewFd # NoFd /\ open_files[NewFd] = Free
<1>1. CASE FreeFds = {}
  BY <1>1 DEF NewFd
<1>2. CASE FreeFds # {}
  <2>1. FreeFds \subseteq Nat
    BY FdsAssumption DEF FreeFds
  <2>2. \E m \in FreeFds : \A n \in FreeFds : m <= n
    BY <1>2, <2>1, LeastNatural
  <2>3. NewFd \in FreeFds
    BY <1>2, <2>2, Zenon DEF NewFd
  <2> QED BY <2>1, <2>3 DEF FreeFds, NoFd
<1> QED BY <1>1, <1>2

LEMMA InstallType ==
  ASSUME SocketTypeOK, NEW file \in Files, Install(NewFd, file)
  PROVE  open_files' \in [Fds -> Files]
  BY NewFdIsFree DEF Install, SocketTypeOK

LEMMA CloseFdType ==
  ASSUME SocketTypeOK, NEW fd \in Fds \cup {NoFd}, CloseFd(fd)
  PROVE  open_files' \in [Fds -> Files]
  BY DEF CloseFd, SocketTypeOK, Files

LEMMA FilesTyped ==
  /\ Free \in Files
  /\ \A c \in Connections : SocketFile(c) \in Files
  /\ \A t \in Tasks : PollFile(t) \in Files
  BY DEF Files

LEMMA FilesDistinct ==
  /\ \A c : SocketFile(c) # Free
  /\ \A t : PollFile(t) # Free
  /\ \A c, t : SocketFile(c) # PollFile(t)
  /\ \A c, d : SocketFile(c) = SocketFile(d) => c = d
  /\ \A t, u : PollFile(t) = PollFile(u) => t = u
  BY DEF SocketFile, PollFile, Free

(* The client behind a descriptor is a client, or there is none. *)
LEMMA ClientAtType ==
  ASSUME SocketTypeOK, NEW fd \in Fds \cup {NoFd}
  PROVE  ClientAt(fd) \in Connections \cup {None}
<1>1. FileAt(fd) \in Files
  BY FilesTyped DEF FileAt, SocketTypeOK
<1> QED BY <1>1 DEF ClientAt, Files, Free, SocketFile, PollFile

-----------------------------------------------------------------------------
(* Type correctness. *)

LEMMA ControlInit == Init => ControlInv
<1> SUFFICES ASSUME Init PROVE ControlInv
  OBVIOUS
<1>1. PoolTypeOK
  BY DEF Init, PoolInit, CvInit, PoolTypeOK
<1>2. SocketTypeOK
  BY FilesTyped DEF Init, SocketInit, SocketTypeOK
<1>3. TaskTypeOK
  BY ResponseLengthAssumption DEF Init, HandlerInit, TaskTypeOK, TaskPcs
<1>4. NetworkTypeOK
  BY DEF Init, HandlerInit, NetworkTypeOK
<1>5. ServiceTypeOK
  <2>1. server_socket_ \in {"null", "created", "bound", "listening"}
    BY DEF Init
  <2>2. protocol_handlers_ \subseteq {ServiceType.HTTP}
    BY DEF Init, registerProtocolHandler
  <2>3. /\ attempts \in 0..maxRetries
        /\ arrived \in 0..MaxConnections
        /\ accepted \in 0..arrived
        /\ launched \in 0..accepted
        /\ connection_futures \subseteq 1..launched
    BY MaxConnectionsAssumption DEF Init, maxRetries
  <2>4. /\ main_pc \in {"input", "joining", "exit"}
        /\ service_pc \in ServicePcs
        /\ stop_flag_ \in BOOLEAN
    BY DEF Init, ServicePcs
  <2> QED BY <2>1, <2>2, <2>3, <2>4 DEF ServiceTypeOK
<1>6. TaskInv /\ LaunchInv
  BY DEF Init, HandlerInit, TaskInv, LaunchInv, Tasks
<1> QED BY <1>1, <1>2, <1>3, <1>4, <1>5, <1>6 DEF ControlInv, TypeOK

(* The counters, as plain inequalities. *)
LEMMA Counters ==
  ASSUME ServiceTypeOK
  PROVE  /\ MaxConnections \in Nat /\ arrived \in Nat
         /\ accepted \in Nat /\ launched \in Nat
         /\ launched <= accepted /\ accepted <= arrived
         /\ arrived <= MaxConnections
<1>1. MaxConnections \in Nat
  BY MaxConnectionsAssumption
<1>2. arrived \in Nat /\ arrived <= MaxConnections
  BY <1>1 DEF ServiceTypeOK
<1>3. accepted \in Nat /\ accepted <= arrived
  BY <1>2 DEF ServiceTypeOK
<1>4. launched \in Nat /\ launched <= accepted
  BY <1>3 DEF ServiceTypeOK
<1> QED BY <1>1, <1>2, <1>3, <1>4

(* One step of handleRequest. *)
LEMMA HandlerControl ==
  ASSUME ControlInv, NEW t \in Tasks,
         HandleRequest(t), UNCHANGED <<poolVars, serviceVars>>
  PROVE  ControlInv'
<1> USE DEF ControlInv, TypeOK
<1>1. PoolTypeOK' /\ ServiceTypeOK' /\ LaunchInv'
  BY DEF poolVars, serviceVars, PoolTypeOK, ServiceTypeOK, LaunchInv
<1>2. launched' = launched
  BY DEF serviceVars
<1>3. pc[t] \notin {"unlaunched", "getConnection"}
  BY DEF HandleRequest, OpenReadPoll, WaitForSocketRead, ReadSocketData,
         Dispatch, OpenSendPoll, SendSome, CloseSendPoll, CloseConnection
<1>4. connection[t] \in Connections /\ SocketOf(t) \in Fds \cup {NoFd}
  BY <1>3 DEF TaskInv, TaskTypeOK, SocketTypeOK, SocketOf
<1>5. ClientAt(SocketOf(t)) \in Connections \cup {None}
  BY <1>4, ClientAtType
<1>6. ASSUME OpenPoll(t) PROVE open_files' \in [Fds -> Files]
  BY <1>6, InstallType, FilesTyped DEF OpenPoll
<1>7. ASSUME OpenPoll(t) PROVE poll_fd' \in [Tasks -> Fds \cup {NoFd}]
  BY <1>7, NewFdIsFree DEF OpenPoll, TaskTypeOK
<1>8. ASSUME ClosePoll(t)
      PROVE  /\ open_files' \in [Fds -> Files]
             /\ poll_fd' \in [Tasks -> Fds \cup {NoFd}]
  <2>1. poll_fd[t] \in Fds \cup {NoFd}
    BY DEF TaskTypeOK
  <2> QED BY <1>8, <2>1, CloseFdType DEF ClosePoll, TaskTypeOK
<1>9. ASSUME OpenReadPoll(t) PROVE ControlInv'
  <2>1. SocketTypeOK' /\ NetworkTypeOK'
    BY <1>6, <1>9 DEF OpenReadPoll, SocketTypeOK, NetworkTypeOK
  <2>2. TaskTypeOK'
    BY <1>7, <1>9 DEF OpenReadPoll, TaskTypeOK, TaskPcs, Goto
  <2>3. TaskInv'
    BY <1>2, <1>3, <1>9 DEF OpenReadPoll, TaskTypeOK, TaskInv, Goto
  <2> QED BY <1>1, <2>1, <2>2, <2>3
<1>10. ASSUME WaitForSocketRead(t) PROVE ControlInv'
  <2>1. SocketTypeOK' /\ NetworkTypeOK'
    BY <1>8, <1>10 DEF WaitForSocketRead, SocketTypeOK, NetworkTypeOK
  <2>2. \/ pc' = [pc EXCEPT ![t] = "read"]
        \/ pc' = [pc EXCEPT ![t] = "close"]
    BY <1>10 DEF WaitForSocketRead, Goto
  <2>3. TaskTypeOK'
    BY <1>8, <1>10, <2>2 DEF WaitForSocketRead, TaskTypeOK, TaskPcs
  <2>4. TaskInv'
    BY <1>2, <1>3, <1>10, <2>2 DEF WaitForSocketRead, TaskTypeOK, TaskInv
  <2> QED BY <1>1, <2>1, <2>3, <2>4
<1>11. ASSUME ReadSocketData(t) PROVE ControlInv'
  <2>1. CASE Peer(t) = "data"
    <3> DEFINE c == ClientAt(SocketOf(t))
    <3>1. c \in Connections
      BY <1>5, <2>1 DEF Peer
    <3> HIDE DEF c
    <3>2. /\ response' = [response EXCEPT ![t] = c]
          /\ inbound' = [inbound EXCEPT ![c] = "consumed"]
          /\ pc' = [pc EXCEPT ![t] = "dispatch"]
          /\ UNCHANGED <<open_files, socket_fd_, connection, poll_fd,
            bytesSent,
                         keep_alive_, delivered, process>>
      BY <1>11, <2>1 DEF ReadSocketData, Goto, socketVars, c
    <3>3. SocketTypeOK' /\ NetworkTypeOK'
      BY <3>2 DEF SocketTypeOK, NetworkTypeOK
    <3>4. TaskTypeOK'
      BY <3>1, <3>2 DEF TaskTypeOK, TaskPcs
    <3>5. TaskInv'
      BY <1>2, <1>3, <3>1, <3>2
      DEF TaskTypeOK, TaskInv, Connections, None
    <3> QED BY <1>1, <3>3, <3>4, <3>5
  <2>2. CASE Peer(t) # "data"
    <3>1. /\ pc' = [pc EXCEPT ![t] = "close"]
          /\ UNCHANGED <<open_files, socket_fd_, response, inbound, connection,
                         poll_fd, bytesSent, keep_alive_, delivered, process>>
      BY <1>11, <2>2 DEF ReadSocketData, Goto, socketVars
    <3>2. SocketTypeOK' /\ NetworkTypeOK' /\ TaskTypeOK'
      BY <3>1 DEF SocketTypeOK, NetworkTypeOK, TaskTypeOK, TaskPcs
    <3>3. TaskInv'
      BY <1>2, <1>3, <3>1 DEF TaskTypeOK, TaskInv
    <3> QED BY <1>1, <3>2, <3>3
  <2> QED BY <2>1, <2>2
<1>12. ASSUME Dispatch(t) PROVE ControlInv'
  <2>1. /\ pc[t] = "dispatch"
        /\ \/ pc' = [pc EXCEPT ![t] = "openSend"]
           \/ pc' = [pc EXCEPT ![t] = "close"]
        /\ UNCHANGED <<open_files, socket_fd_, connection, poll_fd, response,
                       bytesSent, inbound, delivered, process>>
    BY <1>12 DEF Dispatch, Goto, socketVars
  <2>2. keep_alive_' \in [Connections -> BOOLEAN]
    <3>1. \/ keep_alive_' = keep_alive_
          \/ keep_alive_' = [keep_alive_ EXCEPT ![connection[t]] =
                                response[t] \in KeepAliveClients]
      BY <1>12, Zenon DEF Dispatch, setKeepAlive
    <3>2. (response[t] \in KeepAliveClients) \in BOOLEAN
      OBVIOUS
    <3> QED BY <3>1, <3>2, Zenon DEF NetworkTypeOK
  <2>3. SocketTypeOK' /\ NetworkTypeOK' /\ TaskTypeOK'
    BY <2>1, <2>2 DEF SocketTypeOK, NetworkTypeOK, TaskTypeOK, TaskPcs
  <2>4. TaskInv'
    BY <1>2, <1>3, <2>1 DEF TaskTypeOK, TaskInv
  <2> QED BY <1>1, <2>3, <2>4
<1>13. ASSUME OpenSendPoll(t) PROVE ControlInv'
  <2>1. SocketTypeOK' /\ NetworkTypeOK'
    BY <1>6, <1>13 DEF OpenSendPoll, SocketTypeOK, NetworkTypeOK
  <2>2. TaskTypeOK'
    BY <1>7, <1>13 DEF OpenSendPoll, TaskTypeOK, TaskPcs, Goto
  <2>3. TaskInv'
    BY <1>2, <1>3, <1>13 DEF OpenSendPoll, TaskTypeOK, TaskInv, Goto
  <2> QED BY <1>1, <2>1, <2>2, <2>3
<1>14. ASSUME SendSome(t) PROVE ControlInv'
  <2>1. /\ pc[t] = "send"
        /\ UNCHANGED <<open_files, socket_fd_, connection, poll_fd, response,
                       keep_alive_, inbound>>
        /\ WritePieces(t) \/ WriteFails(t) \/ StopSending(t)
    BY <1>14 DEF SendSome, socketVars
  <2>2. SocketTypeOK'
    BY <2>1 DEF SocketTypeOK
  <2>3. ASSUME WritePieces(t) PROVE ControlInv'
    <3> DEFINE c == ClientAt(SocketOf(t))
    <3>1. PICK n \in 1..(ResponseLength - bytesSent[t]) :
            /\ Deliver(t, n)
            /\ bytesSent' = [bytesSent EXCEPT ![t] = @ + n]
      BY <2>3 DEF WritePieces
    <3> DEFINE pieces == [i \in 1..n |-> <<response[t], bytesSent[t] + i>>]
    <3>2. bytesSent[t] \in 0..ResponseLength /\ n \in Nat
          /\ bytesSent[t] + n <= ResponseLength
      BY ResponseLengthAssumption DEF TaskTypeOK
    <3>3. response[t] \in Connections
      BY <2>1 DEF TaskTypeOK, TaskInv
    <3>4. pieces \in Seq(Connections \X (1..ResponseLength))
      BY <3>2, <3>3, ResponseLengthAssumption
    <3>5. c \in Connections
      BY <1>5, <2>3 DEF WritePieces, Peer
    <3>6. delivered[c] \in Seq(Connections \X (1..ResponseLength))
      BY <3>5 DEF NetworkTypeOK
    <3>7. delivered[c] \o pieces \in Seq(Connections \X (1..ResponseLength))
      BY <3>4, <3>6, ConcatProperties
    <3>8. delivered' = [delivered EXCEPT ![c] = delivered[c] \o pieces]
      BY <3>1 DEF Deliver
    <3> HIDE DEF pieces, c
    <3>9. delivered' \in [Connections -> Seq(Connections \X
          (1..ResponseLength))]
      BY <3>7, <3>8 DEF NetworkTypeOK
    <3>10. UNCHANGED <<pc, process>>
      BY <2>3 DEF WritePieces
    <3>11. NetworkTypeOK'
      BY <2>1, <3>9, <3>10 DEF NetworkTypeOK
    <3>12. bytesSent' \in [Tasks -> 0..ResponseLength]
      BY <3>1, <3>2, ResponseLengthAssumption DEF TaskTypeOK
    <3>13. TaskTypeOK' /\ TaskInv'
      BY <1>2, <2>1, <3>10, <3>12 DEF TaskTypeOK, TaskInv
    <3> QED BY <1>1, <2>2, <3>11, <3>13
  <2>4. ASSUME WriteFails(t) \/ StopSending(t) PROVE ControlInv'
    <3>1. /\ pc' = pc \/ pc' = [pc EXCEPT ![t] = "closeSend"]
          /\ process' \in {process, "killed"}
          /\ UNCHANGED <<bytesSent, delivered>>
      BY <2>4 DEF WriteFails, StopSending, Goto
    <3>2. NetworkTypeOK' /\ TaskTypeOK'
      BY <2>1, <3>1 DEF NetworkTypeOK, TaskTypeOK, TaskPcs
    <3>3. TaskInv'
      BY <1>2, <1>3, <2>1, <3>1 DEF TaskTypeOK, TaskInv
    <3> QED BY <1>1, <2>2, <3>2, <3>3
  <2> QED BY <2>1, <2>3, <2>4
<1>15. ASSUME CloseSendPoll(t) PROVE ControlInv'
  <2>1. SocketTypeOK' /\ NetworkTypeOK'
    BY <1>8, <1>15 DEF CloseSendPoll, SocketTypeOK, NetworkTypeOK
  <2>2. TaskTypeOK'
    BY <1>8, <1>15 DEF CloseSendPoll, TaskTypeOK, TaskPcs, Goto
  <2>3. TaskInv'
    BY <1>2, <1>3, <1>15 DEF CloseSendPoll, TaskTypeOK, TaskInv, Goto
  <2> QED BY <1>1, <2>1, <2>2, <2>3
<1>16. ASSUME CloseConnection(t) PROVE ControlInv'
  <2>1. open_files' \in [Fds -> Files]
    BY <1>4, <1>16, CloseFdType DEF CloseConnection, Close, SocketOf
  <2>2. SocketTypeOK' /\ NetworkTypeOK' /\ TaskTypeOK'
    BY <1>4, <1>16, <2>1
    DEF CloseConnection, Close, Goto, SocketTypeOK, NetworkTypeOK, TaskTypeOK,
        TaskPcs
  <2>3. TaskInv'
    BY <1>2, <1>3, <1>16 DEF CloseConnection, TaskTypeOK, TaskInv, Goto
  <2> QED BY <1>1, <2>2, <2>3
<1> QED
  BY <1>9, <1>10, <1>11, <1>12, <1>13, <1>14, <1>15, <1>16 DEF HandleRequest

(* One step of the lambda around handleRequest. *)
LEMMA TaskControl ==
  ASSUME ControlInv, NEW t \in Tasks, Task(t)
  PROVE  ControlInv'
<1> USE DEF ControlInv, TypeOK
<1>1. ASSUME GetConnection(t) PROVE ControlInv'
  <2>1. /\ getConnection(t)
        /\ UNCHANGED <<socketVars, serviceVars, poll_fd, response, bytesSent,
                       keep_alive_, inbound, delivered, process>>
    BY <1>1 DEF GetConnection
  <2>2. SocketTypeOK' /\ NetworkTypeOK' /\ ServiceTypeOK' /\ LaunchInv'
    BY <2>1 DEF socketVars, serviceVars, SocketTypeOK, NetworkTypeOK,
                ServiceTypeOK, LaunchInv
  <2>3. CASE connection_pool_ = <<>>
    <3>1. UNCHANGED <<pc, connection>>
      BY <1>1, <2>3 DEF GetConnection
    <3>2. PoolTypeOK'
      BY <2>1, <2>3
      DEF getConnection, WaitForConnection, TakeConnection, Sleep, Proceed,
        PoolTypeOK
    <3>3. TaskTypeOK' /\ TaskInv'
      BY <2>1, <3>1 DEF TaskTypeOK, TaskInv, serviceVars
    <3> QED BY <2>2, <3>2, <3>3
  <2>4. CASE connection_pool_ # <<>>
    <3>1. /\ Head(connection_pool_) \in Connections
          /\ Tail(connection_pool_) \in Seq(Connections)
      BY <2>4, HeadTailProperties DEF PoolTypeOK
    <3>2. /\ connection_pool_' = Tail(connection_pool_)
          /\ notified' = notified \ {t}
          /\ UNCHANGED waiting
      BY <2>1, <2>4 DEF getConnection, WaitForConnection, TakeConnection,
        Sleep, Proceed
    <3>3. /\ connection' = [connection EXCEPT ![t] = Head(connection_pool_)]
          /\ pc' = [pc EXCEPT ![t] = "openRead"]
          /\ pc[t] = "getConnection"
      BY <1>1, <2>4 DEF GetConnection, Goto
    <3>4. PoolTypeOK'
      BY <3>1, <3>2 DEF PoolTypeOK
    <3>5. TaskTypeOK'
      BY <2>1, <3>1, <3>3 DEF TaskTypeOK, TaskPcs
    <3>6. TaskInv'
      BY <2>1, <3>1, <3>3
      DEF TaskTypeOK, TaskInv, serviceVars, Connections, None
    <3> QED BY <2>2, <3>4, <3>5, <3>6
  <2> QED BY <2>3, <2>4
<1>2. ASSUME HandleRequest(t), UNCHANGED <<poolVars, serviceVars>>
      PROVE  ControlInv'
  BY <1>2, HandlerControl
<1>3. ASSUME Release(t) PROVE ControlInv'
  <2>1. pc[t] = "release" /\ connection[t] \in Connections
    BY <1>3 DEF Release, TaskInv, TaskTypeOK
  <2>2. open_files' \in [Fds -> Files]
    BY <1>3, <2>1, CloseFdType DEF Release, Close, SocketTypeOK
  <2>3. SocketTypeOK' /\ NetworkTypeOK' /\ TaskTypeOK'
    BY <1>3, <2>1, <2>2
    DEF Release, Close, Goto, SocketTypeOK, NetworkTypeOK, TaskTypeOK, TaskPcs
  <2>4. PoolTypeOK' /\ ServiceTypeOK' /\ LaunchInv'
    BY <1>3
    DEF Release, poolVars, serviceVars, PoolTypeOK, ServiceTypeOK, LaunchInv
  <2>5. TaskInv'
    BY <1>3, <2>1 DEF Release, Goto, TaskTypeOK, TaskInv, serviceVars
  <2> QED BY <2>3, <2>4, <2>5
<1> QED BY <1>1, <1>2, <1>3 DEF Task

(* One step of the service thread. *)
LEMMA ServiceControl ==
  ASSUME ControlInv, Service
  PROVE  ControlInv'
<1> USE DEF ControlInv, TypeOK
<1>1. ASSUME UNCHANGED <<poolVars, socketVars, handlerVars, accepted,
      launched>>,
             ServiceTypeOK', LaunchInv'
      PROVE  ControlInv'
  <2>1. PoolTypeOK' /\ SocketTypeOK'
    BY <1>1 DEF poolVars, socketVars, PoolTypeOK, SocketTypeOK
  <2>2. TaskTypeOK' /\ NetworkTypeOK' /\ TaskInv'
    BY <1>1 DEF handlerVars, TaskTypeOK, NetworkTypeOK, TaskInv
  <2> QED BY <1>1, <2>1, <2>2
<1>2. ASSUME Bind PROVE ControlInv'
  <2>1. /\ UNCHANGED <<main_pc, stop_flag_, protocol_handlers_, arrived,
                       accepted, launched, connection_futures>>
        /\ UNCHANGED <<poolVars, socketVars, pc, connection, poll_fd, response,
                       bytesSent, keep_alive_, inbound, delivered>>
        /\ process' \in {process, "killed"}
        /\ service_pc' \in {"bind", "listen", "lookup"}
        /\ server_socket_' \in {server_socket_, "bound"}
    BY <1>2 DEF Bind, BindSucceeds, BindFails, BindGivesUp, ServiceGoto
  <2>2. attempts' \in 0..maxRetries
    BY <1>2
    DEF Bind, BindSucceeds, BindFails, BindGivesUp, ServiceTypeOK, maxRetries
  <2>3. ServiceTypeOK' /\ LaunchInv'
    BY <2>1, <2>2 DEF ServiceTypeOK, LaunchInv, ServicePcs
  <2>4. PoolTypeOK' /\ SocketTypeOK'
    BY <2>1 DEF poolVars, socketVars, PoolTypeOK, SocketTypeOK
  <2>5. TaskTypeOK' /\ NetworkTypeOK' /\ TaskInv'
    BY <2>1 DEF TaskTypeOK, NetworkTypeOK, TaskInv
  <2> QED BY <2>3, <2>4, <2>5
<1>3. ASSUME Listen PROVE ControlInv'
  BY <1>1, <1>3 DEF Listen, ServiceGoto, ServiceTypeOK, LaunchInv, ServicePcs
<1>4. ASSUME LookupHandler PROVE ControlInv'
  BY <1>1, <1>4
  DEF LookupHandler, ServiceGoto, ServiceTypeOK, LaunchInv, ServicePcs
<1>5. ASSUME TestStopFlag PROVE ControlInv'
  BY <1>1, <1>5
  DEF TestStopFlag, ServiceGoto, ServiceTypeOK, LaunchInv, ServicePcs
<1>6. ASSUME Select PROVE ControlInv'
  BY <1>1, <1>6 DEF Select, ServiceGoto, ServiceTypeOK, LaunchInv, ServicePcs
<1>7. ASSUME Accept PROVE ControlInv'
  <2>1. CASE AcceptClient
    <3>1. accepted + 1 \in Connections
      BY <2>1, Counters DEF AcceptClient, CanAccept, Backlog, Connections
    <3>2. open_files' \in [Fds -> Files]
      BY <2>1, <3>1, InstallType, FilesTyped DEF AcceptClient
    <3>3. SocketTypeOK'
      BY <2>1, <3>1, <3>2, NewFdIsFree DEF AcceptClient, SocketTypeOK
    <3>4. ServiceTypeOK' /\ LaunchInv'
      BY <1>7, <2>1
      DEF Accept, AcceptClient, CanAccept, Backlog, ServiceGoto,
          ServiceTypeOK, LaunchInv, ServicePcs
    <3>5. PoolTypeOK' /\ TaskTypeOK' /\ NetworkTypeOK' /\ TaskInv'
      BY <1>7
      DEF Accept, poolVars, handlerVars, PoolTypeOK, TaskTypeOK, NetworkTypeOK,
          TaskInv
    <3> QED BY <3>3, <3>4, <3>5
  <2>2. CASE AcceptError
    BY <1>1, <1>7, <2>2
    DEF Accept, AcceptError, ServiceGoto, ServiceTypeOK, LaunchInv, ServicePcs
  <2> QED BY <1>7, <2>1, <2>2 DEF Accept
<1>8. ASSUME AddConnection PROVE ControlInv'
  <2>1. accepted \in Connections
    BY <1>8, Counters DEF AddConnection, LaunchInv, Connections
  <2>2. connection_pool_' \in Seq(Connections)
    BY <1>8, <2>1 DEF AddConnection, addConnection, PoolTypeOK
  <2>3. \/ UNCHANGED <<waiting, notified>>
        \/ \E t \in waiting : Wake(t)
    BY <1>8, Zenon DEF AddConnection, addConnection, notify_one, cvVars
  <2>4. PoolTypeOK'
    BY <2>2, <2>3 DEF PoolTypeOK, Wake
  <2>5. SocketTypeOK' /\ TaskTypeOK' /\ NetworkTypeOK' /\ TaskInv'
    BY <1>8
    DEF AddConnection, socketVars, handlerVars, SocketTypeOK, TaskTypeOK,
        NetworkTypeOK, TaskInv
  <2>6. ServiceTypeOK' /\ LaunchInv'
    BY <1>8 DEF AddConnection, ServiceGoto, ServiceTypeOK, LaunchInv,
      ServicePcs
  <2> QED BY <2>4, <2>5, <2>6
<1>9. ASSUME Launch PROVE ControlInv'
  <2>1. launched < accepted /\ launched \in Nat /\ launched + 1 \in Tasks
    BY <1>9, Counters DEF Launch, LaunchInv, Tasks
  <2>2. PoolTypeOK' /\ SocketTypeOK' /\ NetworkTypeOK'
    BY <1>9
    DEF Launch, poolVars, socketVars, PoolTypeOK, SocketTypeOK, NetworkTypeOK
  <2>3. CASE StartTask
    <3>1. TaskTypeOK'
      BY <1>9, <2>1, <2>3 DEF Launch, StartTask, Goto, TaskTypeOK, TaskPcs
    <3>2. TaskInv'
      BY <1>9, <2>1, <2>3
      DEF Launch, StartTask, Goto, TaskTypeOK, TaskInv, Tasks
    <3>3. ServiceTypeOK' /\ LaunchInv'
      BY <1>9, <2>1, <2>3
      DEF Launch, StartTask, ServiceGoto, ServiceTypeOK, LaunchInv, ServicePcs
    <3> QED BY <2>2, <3>1, <3>2, <3>3
  <2>4. CASE UNCHANGED <<launched, pc, connection_futures>>
    <3>1. TaskTypeOK' /\ TaskInv'
      BY <1>9, <2>4 DEF Launch, TaskTypeOK, TaskInv
    <3>2. ServiceTypeOK' /\ LaunchInv'
      BY <1>9, <2>4 DEF Launch, ServiceGoto, ServiceTypeOK, LaunchInv,
        ServicePcs
    <3> QED BY <2>2, <3>1, <3>2
  <2> QED BY <1>9, <2>3, <2>4 DEF Launch
<1>10. ASSUME CleanUpConnectionFutures PROVE ControlInv'
  BY <1>1, <1>10
  DEF CleanUpConnectionFutures, ServiceGoto, ServiceTypeOK, LaunchInv,
    ServicePcs
<1>11. ASSUME Return PROVE ControlInv'
  <2>1. PoolTypeOK'
    BY <1>11 DEF Return, PoolTypeOK
  <2>2. SocketTypeOK'
    BY <1>11, FilesTyped DEF Return, SocketTypeOK
  <2>3. TaskTypeOK' /\ NetworkTypeOK' /\ TaskInv'
    BY <1>11 DEF Return, handlerVars, TaskTypeOK, NetworkTypeOK, TaskInv
  <2>4. ServiceTypeOK' /\ LaunchInv'
    BY <1>11 DEF Return, ServiceGoto, ServiceTypeOK, LaunchInv, ServicePcs
  <2> QED BY <2>1, <2>2, <2>3, <2>4
<1> QED
  BY <1>2, <1>3, <1>4, <1>5, <1>6, <1>7, <1>8, <1>9, <1>10, <1>11 DEF Service

(* One step of main, of a client, or none. *)
LEMMA OutsideControl ==
  ASSUME ControlInv,
         \/ Stop \/ Join \/ Connect
         \/ \E c \in Connections : Speak(c) \/ Reset(c)
         \/ UNCHANGED vars
  PROVE  ControlInv'
<1> USE DEF ControlInv, TypeOK
<1>1. ASSUME UNCHANGED <<poolVars, socketVars, handlerVars, accepted, launched,
                         service_pc>>,
             ServiceTypeOK'
      PROVE  ControlInv'
  <2>1. PoolTypeOK' /\ SocketTypeOK'
    BY <1>1 DEF poolVars, socketVars, PoolTypeOK, SocketTypeOK
  <2>2. TaskTypeOK' /\ NetworkTypeOK' /\ TaskInv' /\ LaunchInv'
    BY <1>1 DEF handlerVars, TaskTypeOK, NetworkTypeOK, TaskInv, LaunchInv
  <2> QED BY <1>1, <2>1, <2>2
<1>2. CASE Stop
  BY <1>1, <1>2 DEF Stop, ServiceTypeOK
<1>3. CASE Join
  BY <1>1, <1>3 DEF Join, ServiceTypeOK
<1>4. CASE Connect
  BY <1>1, <1>4, MaxConnectionsAssumption DEF Connect, ServiceTypeOK
<1>5. ASSUME NEW c \in Connections, Speak(c) \/ Reset(c) PROVE ControlInv'
  <2>1. /\ \E what \in {"data", "eof", "reset"} :
             inbound' = [inbound EXCEPT ![c] = what]
        /\ UNCHANGED <<poolVars, socketVars, serviceVars, pc, connection,
                       poll_fd, response, bytesSent, keep_alive_, delivered,
                       process>>
    BY <1>5 DEF Speak, Reset
  <2>2. PoolTypeOK' /\ SocketTypeOK' /\ ServiceTypeOK'
    BY <2>1
    DEF poolVars, socketVars, serviceVars, PoolTypeOK, SocketTypeOK,
      ServiceTypeOK
  <2>3. NetworkTypeOK'
    BY <2>1 DEF NetworkTypeOK
  <2>4. TaskTypeOK' /\ TaskInv' /\ LaunchInv'
    BY <2>1 DEF serviceVars, TaskTypeOK, TaskInv, LaunchInv
  <2> QED BY <2>2, <2>3, <2>4
<1>6. CASE UNCHANGED vars
  BY <1>1, <1>6 DEF vars, serviceVars, ServiceTypeOK
<1> QED BY <1>2, <1>3, <1>4, <1>5, <1>6

(* The three groups of actors make up the next-state relation. *)
LEMMA StepCases ==
  ASSUME [Next]_vars
  PROVE  \/ Service
         \/ \E t \in Tasks : Task(t)
         \/ \/ Stop \/ Join \/ Connect
            \/ \E c \in Connections : Speak(c) \/ Reset(c)
            \/ UNCHANGED vars
  BY Zenon DEF Next, Terminated

LEMMA ControlInvariant == Spec => []ControlInv
<1>1. ControlInv /\ [Next]_vars => ControlInv'
  BY StepCases, ServiceControl, TaskControl, OutsideControl
<1> QED BY <1>1, ControlInit, PTL DEF Spec

(* Every variable keeps its type. *)
THEOREM TypeCorrect == Spec => []TypeOK
<1>1. ControlInv => TypeOK
  BY DEF ControlInv
<1> QED BY <1>1, ControlInvariant, PTL

-----------------------------------------------------------------------------
(* Descriptors: the operations on the table keep ownership one to one. *)

LEMMA NoFdIsNoFd == NoFd \notin Fds
  BY FdsAssumption DEF NoFd

LEMMA OpenPollOwns ==
  ASSUME SocketTypeOK, TaskTypeOK, DescriptorOwnership,
         NEW t \in Tasks, poll_fd[t] = NoFd, OpenPoll(t), UNCHANGED socket_fd_
  PROVE  DescriptorOwnership'
<1>1. poll_fd' = [poll_fd EXCEPT ![t] = NewFd]
  BY DEF OpenPoll
<1>2. CASE NewFd = NoFd
  <2>1. open_files' = open_files /\ poll_fd' = poll_fd
    BY <1>1, <1>2 DEF OpenPoll, Install, TaskTypeOK
  <2> QED BY <2>1 DEF DescriptorOwnership
<1>3. CASE NewFd # NoFd
  <2>1. NewFd \in Fds /\ open_files[NewFd] = Free
    BY <1>3, NewFdIsFree
  <2>2. open_files' = [open_files EXCEPT ![NewFd] = PollFile(t)]
    BY <1>3 DEF OpenPoll, Install
  <2> HIDE DEF NewFd
  <2>3. ASSUME NEW f \in Fds, NEW c \in Connections
        PROVE  open_files'[f] = SocketFile(c) <=> socket_fd_'[c] = f
    BY <2>1, <2>2, FilesDistinct DEF DescriptorOwnership, SocketTypeOK
  <2>4. ASSUME NEW f \in Fds, NEW u \in Tasks
        PROVE  open_files'[f] = PollFile(u) <=> poll_fd'[u] = f
    BY <1>1, <2>1, <2>2, FilesDistinct, NoFdIsNoFd
    DEF DescriptorOwnership, SocketTypeOK, TaskTypeOK
  <2> QED BY <2>3, <2>4 DEF DescriptorOwnership
<1> QED BY <1>2, <1>3

LEMMA ClosePollOwns ==
  ASSUME SocketTypeOK, TaskTypeOK, DescriptorOwnership,
         NEW t \in Tasks, ClosePoll(t), UNCHANGED socket_fd_
  PROVE  DescriptorOwnership'
<1>1. poll_fd' = [poll_fd EXCEPT ![t] = NoFd]
  BY DEF ClosePoll
<1>2. CASE poll_fd[t] = NoFd
  <2>1. open_files' = open_files /\ poll_fd' = poll_fd
    BY <1>1, <1>2 DEF ClosePoll, CloseFd, TaskTypeOK
  <2> QED BY <2>1 DEF DescriptorOwnership
<1>3. CASE poll_fd[t] # NoFd
  <2>1. poll_fd[t] \in Fds /\ open_files[poll_fd[t]] = PollFile(t)
    BY <1>3 DEF TaskTypeOK, DescriptorOwnership
  <2>2. open_files' = [open_files EXCEPT ![poll_fd[t]] = Free]
    BY <1>3 DEF ClosePoll, CloseFd
  <2>3. ASSUME NEW f \in Fds, NEW c \in Connections
        PROVE  open_files'[f] = SocketFile(c) <=> socket_fd_'[c] = f
    BY <2>1, <2>2, FilesDistinct DEF DescriptorOwnership, SocketTypeOK
  <2>4. ASSUME NEW f \in Fds, NEW u \in Tasks
        PROVE  open_files'[f] = PollFile(u) <=> poll_fd'[u] = f
    BY <1>1, <2>1, <2>2, FilesDistinct, NoFdIsNoFd
    DEF DescriptorOwnership, SocketTypeOK, TaskTypeOK
  <2> QED BY <2>3, <2>4 DEF DescriptorOwnership
<1> QED BY <1>2, <1>3

LEMMA CloseOwns ==
  ASSUME SocketTypeOK, DescriptorOwnership,
         NEW c \in Connections, Close(c), UNCHANGED poll_fd
  PROVE  DescriptorOwnership'
<1>1. socket_fd_' = [socket_fd_ EXCEPT ![c] = NoFd]
  BY DEF Close
<1>2. CASE socket_fd_[c] = NoFd
  <2>1. open_files' = open_files /\ socket_fd_' = socket_fd_
    BY <1>1, <1>2 DEF Close, CloseFd, SocketTypeOK
  <2> QED BY <2>1 DEF DescriptorOwnership
<1>3. CASE socket_fd_[c] # NoFd
  <2>1. socket_fd_[c] \in Fds /\ open_files[socket_fd_[c]] = SocketFile(c)
    BY <1>3 DEF SocketTypeOK, DescriptorOwnership
  <2>2. open_files' = [open_files EXCEPT ![socket_fd_[c]] = Free]
    BY <1>3 DEF Close, CloseFd
  <2>3. ASSUME NEW f \in Fds, NEW d \in Connections
        PROVE  open_files'[f] = SocketFile(d) <=> socket_fd_'[d] = f
    BY <1>1, <2>1, <2>2, FilesDistinct, NoFdIsNoFd
    DEF DescriptorOwnership, SocketTypeOK
  <2>4. ASSUME NEW f \in Fds, NEW u \in Tasks
        PROVE  open_files'[f] = PollFile(u) <=> poll_fd'[u] = f
    BY <2>1, <2>2, FilesDistinct DEF DescriptorOwnership, SocketTypeOK
  <2> QED BY <2>3, <2>4 DEF DescriptorOwnership
<1> QED BY <1>2, <1>3

LEMMA AcceptOwns ==
  ASSUME ControlInv, DescriptorInv, AcceptClient, UNCHANGED poll_fd
  PROVE  DescriptorOwnership'
<1> DEFINE new == accepted + 1
<1>1. new \in Connections /\ socket_fd_[new] = NoFd
  BY Counters
  DEF ControlInv, TypeOK, AcceptClient, CanAccept, Backlog, Connections,
      DescriptorInv, AcceptedInv
<1>2. NewFd # NoFd /\ NewFd \in Fds /\ open_files[NewFd] = Free
  <2>1. FreeFds # {} /\ FreeFds \subseteq Nat
    BY FdsAssumption DEF AcceptClient, CanAccept, FreeFds
  <2>2. \E m \in FreeFds : \A n \in FreeFds : m <= n
    BY <2>1, LeastNatural
  <2>3. NewFd \in FreeFds
    BY <2>1, <2>2, Zenon DEF NewFd
  <2> QED BY <2>3, NoFdIsNoFd DEF FreeFds
<1>3. /\ open_files' = [open_files EXCEPT ![NewFd] = SocketFile(new)]
      /\ socket_fd_' = [socket_fd_ EXCEPT ![new] = NewFd]
  BY <1>2 DEF AcceptClient, Install
<1> HIDE DEF NewFd, new
<1>4. ASSUME NEW f \in Fds, NEW c \in Connections
      PROVE  open_files'[f] = SocketFile(c) <=> socket_fd_'[c] = f
  BY <1>1, <1>2, <1>3, FilesDistinct, NoFdIsNoFd
  DEF DescriptorInv, DescriptorOwnership, ControlInv, TypeOK, SocketTypeOK
<1>5. ASSUME NEW f \in Fds, NEW u \in Tasks
      PROVE  open_files'[f] = PollFile(u) <=> poll_fd'[u] = f
  BY <1>1, <1>2, <1>3, FilesDistinct, NoFdIsNoFd
  DEF DescriptorInv, DescriptorOwnership, ControlInv, TypeOK, SocketTypeOK
<1> QED BY <1>4, <1>5 DEF DescriptorOwnership

LEMMA ReturnOwns ==
  ASSUME PoolTypeOK, SocketTypeOK, DescriptorOwnership, Return
  PROVE  DescriptorOwnership'
<1>0. Pooled \subseteq Connections
  BY ElementOfSeq DEF Pooled, PoolTypeOK
<1>1. /\ open_files' = [f \in Fds |->
           IF \E c \in Pooled : f = socket_fd_[c] THEN Free ELSE open_files[f]]
      /\ socket_fd_' = [c \in Connections |->
           IF c \in Pooled THEN NoFd ELSE socket_fd_[c]]
      /\ poll_fd' = poll_fd
  BY DEF Return, handlerVars
<1> HIDE DEF Pooled
<1>2. ASSUME NEW f \in Fds, NEW d \in Pooled, f = socket_fd_[d]
      PROVE  /\ open_files[f] = SocketFile(d)
             /\ open_files'[f] = Free
  BY <1>0, <1>1, <1>2 DEF DescriptorOwnership
<1>3. ASSUME NEW f \in Fds, ~ \E d \in Pooled : f = socket_fd_[d]
      PROVE  open_files'[f] = open_files[f]
  BY <1>1, <1>3
<1>4. ASSUME NEW f \in Fds, NEW c \in Connections
      PROVE  open_files'[f] = SocketFile(c) <=> socket_fd_'[c] = f
  <2>1. CASE \E d \in Pooled : f = socket_fd_[d]
    <3>1. PICK d \in Pooled : f = socket_fd_[d]
      BY <2>1
    <3>2. socket_fd_[c] = f => c \in Pooled
      BY <1>0, <1>2, <3>1, FilesDistinct DEF DescriptorOwnership
    <3> QED BY <1>1, <1>2, <3>1, <3>2, FilesDistinct, NoFdIsNoFd
  <2>2. CASE ~ \E d \in Pooled : f = socket_fd_[d]
    BY <1>1, <1>3, <2>2, NoFdIsNoFd DEF DescriptorOwnership
  <2> QED BY <2>1, <2>2
<1>5. ASSUME NEW f \in Fds, NEW u \in Tasks
      PROVE  open_files'[f] = PollFile(u) <=> poll_fd'[u] = f
  <2>1. CASE \E d \in Pooled : f = socket_fd_[d]
    <3>1. PICK d \in Pooled : f = socket_fd_[d]
      BY <2>1
    <3> QED BY <1>1, <1>2, <3>1, FilesDistinct DEF DescriptorOwnership
  <2>2. CASE ~ \E d \in Pooled : f = socket_fd_[d]
    BY <1>1, <1>3, <2>2 DEF DescriptorOwnership
  <2> QED BY <2>1, <2>2
<1> QED BY <1>4, <1>5 DEF DescriptorOwnership

-----------------------------------------------------------------------------
(* DescriptorInv is inductive beside ControlInv. *)

LEMMA DescriptorInit == Init => DescriptorInv
  BY FilesDistinct, NoFdIsNoFd
  DEF Init, SocketInit, HandlerInit, DescriptorInv, PollInv, AcceptedInv,
      DescriptorOwnership

LEMMA TaskDescriptors ==
  ASSUME ControlInv, DescriptorInv, NEW t \in Tasks, Task(t)
  PROVE  DescriptorInv'
<1>1. SocketTypeOK /\ TaskTypeOK /\ PollInv /\ AcceptedInv /\
      DescriptorOwnership
  BY DEF ControlInv, TypeOK, DescriptorInv
<1>2. accepted' = accepted
  BY DEF Task, GetConnection, Release, serviceVars
<1>3. ASSUME UNCHANGED <<open_files, socket_fd_, poll_fd>>,
             pc[t] \notin {"waitRead", "send", "closeSend"}
                \/ pc'[t] \in {"waitRead", "send", "closeSend"},
             \A u \in Tasks : u # t => pc'[u] = pc[u]
      PROVE  DescriptorInv'
  BY <1>1, <1>2, <1>3 DEF DescriptorInv, PollInv, AcceptedInv,
    DescriptorOwnership
<1>4. ASSUME OpenPoll(t), UNCHANGED socket_fd_, poll_fd[t] = NoFd,
             Goto(t, "waitRead") \/ Goto(t, "send")
      PROVE  DescriptorInv'
  <2>1. DescriptorOwnership'
    BY <1>1, <1>4, OpenPollOwns
  <2>2. PollInv' /\ AcceptedInv'
    BY <1>1, <1>2, <1>4
    DEF OpenPoll, Goto, PollInv, AcceptedInv, TaskTypeOK
  <2> QED BY <2>1, <2>2 DEF DescriptorInv
<1>5. ASSUME ClosePoll(t), UNCHANGED socket_fd_,
             \A u \in Tasks : u # t => pc'[u] = pc[u]
      PROVE  DescriptorInv'
  <2>1. DescriptorOwnership'
    BY <1>1, <1>5, ClosePollOwns
  <2>2. PollInv' /\ AcceptedInv'
    BY <1>1, <1>2, <1>5 DEF ClosePoll, PollInv, AcceptedInv, TaskTypeOK
  <2> QED BY <2>1, <2>2 DEF DescriptorInv
<1>6. ASSUME Close(connection[t]), UNCHANGED poll_fd,
             pc[t] \in {"close", "release"},
             \A u \in Tasks : u # t => pc'[u] = pc[u]
      PROVE  DescriptorInv'
  <2>1. connection[t] \in Connections
    BY <1>1, <1>6 DEF ControlInv, TaskInv, TaskTypeOK
  <2>2. DescriptorOwnership'
    BY <1>1, <1>6, <2>1, CloseOwns
  <2>3. PollInv' /\ AcceptedInv'
    BY <1>1, <1>2, <1>6, <2>1
    DEF Close, PollInv, AcceptedInv, SocketTypeOK
  <2> QED BY <2>2, <2>3 DEF DescriptorInv
<1>7. CASE GetConnection(t)
  BY <1>1, <1>3, <1>7 DEF GetConnection, Goto, socketVars, TaskTypeOK
<1>8. CASE Release(t)
  BY <1>1, <1>6, <1>8 DEF Release, Goto, TaskTypeOK
<1>9. CASE HandleRequest(t)
  <2>1. CASE OpenReadPoll(t)
    BY <1>1, <1>4, <2>1 DEF OpenReadPoll, PollInv
  <2>2. CASE WaitForSocketRead(t)
    BY <1>1, <1>5, <2>2 DEF WaitForSocketRead, Goto, TaskTypeOK
  <2>3. CASE ReadSocketData(t)
    BY <1>1, <1>3, <2>3 DEF ReadSocketData, Goto, socketVars, TaskTypeOK
  <2>4. CASE Dispatch(t)
    BY <1>1, <1>3, <2>4 DEF Dispatch, Goto, socketVars, TaskTypeOK
  <2>5. CASE OpenSendPoll(t)
    BY <1>1, <1>4, <2>5 DEF OpenSendPoll, PollInv
  <2>6. CASE SendSome(t)
    BY <1>1, <1>3, <2>6
    DEF SendSome, WritePieces, WriteFails, StopSending, Goto, socketVars,
        TaskTypeOK
  <2>7. CASE CloseSendPoll(t)
    BY <1>1, <1>5, <2>7 DEF CloseSendPoll, Goto, TaskTypeOK
  <2>8. CASE CloseConnection(t)
    BY <1>1, <1>6, <2>8 DEF CloseConnection, Goto, TaskTypeOK
  <2> QED
    BY <1>9, <2>1, <2>2, <2>3, <2>4, <2>5, <2>6, <2>7, <2>8 DEF HandleRequest
<1> QED BY <1>7, <1>8, <1>9 DEF Task

LEMMA ServiceDescriptors ==
  ASSUME ControlInv, DescriptorInv, Service
  PROVE  DescriptorInv'
<1>1. /\ PoolTypeOK /\ SocketTypeOK /\ TaskTypeOK /\ ServiceTypeOK
      /\ PollInv /\ AcceptedInv /\ DescriptorOwnership
  BY DEF ControlInv, TypeOK, DescriptorInv
<1>2. ASSUME UNCHANGED <<open_files, socket_fd_, poll_fd, pc, accepted>>
      PROVE  DescriptorInv'
  BY <1>1, <1>2 DEF DescriptorInv, PollInv, AcceptedInv, DescriptorOwnership
<1>3. CASE Bind \/ Listen \/ LookupHandler \/ TestStopFlag \/ Select
           \/ AddConnection \/ CleanUpConnectionFutures
  BY <1>2, <1>3
  DEF Bind, Listen, LookupHandler, TestStopFlag, Select, AddConnection,
      CleanUpConnectionFutures, socketVars, handlerVars
<1>4. CASE Accept
  <2>1. CASE AcceptClient
    <3>1. UNCHANGED <<poll_fd, pc>>
      BY <1>4 DEF Accept, handlerVars
    <3>2. DescriptorOwnership'
      BY <2>1, <3>1, AcceptOwns
    <3>3. PollInv'
      BY <1>1, <3>1 DEF PollInv
    <3>4. AcceptedInv'
      BY <1>1, <2>1, Counters
      DEF AcceptClient, AcceptedInv, SocketTypeOK, Connections
    <3> QED BY <3>2, <3>3, <3>4 DEF DescriptorInv
  <2>2. CASE AcceptError
    BY <1>2, <1>4, <2>2 DEF Accept, AcceptError, socketVars, handlerVars
  <2> QED BY <1>4, <2>1, <2>2 DEF Accept
<1>5. CASE Launch
  <2>1. CASE StartTask
    <3>1. UNCHANGED <<open_files, socket_fd_, poll_fd, accepted>>
      BY <1>5 DEF Launch, socketVars
    <3>2. launched + 1 \in Tasks /\ pc[launched + 1] = "unlaunched"
      BY <1>1, <1>5, Counters DEF Launch, ControlInv, LaunchInv, TaskInv, Tasks
    <3>3. pc' = [pc EXCEPT ![launched + 1] = "getConnection"]
      BY <2>1 DEF StartTask, Goto
    <3>4. PollInv' /\ AcceptedInv'
      BY <1>1, <3>1, <3>2, <3>3 DEF PollInv, AcceptedInv, TaskTypeOK
    <3> QED BY <1>1, <3>1, <3>4 DEF DescriptorInv, DescriptorOwnership
  <2>2. CASE UNCHANGED <<launched, pc, connection_futures>>
    BY <1>2, <1>5, <2>2 DEF Launch, socketVars
  <2> QED BY <1>5, <2>1, <2>2 DEF Launch
<1>6. CASE Return
  <2>1. DescriptorOwnership'
    BY <1>1, <1>6, ReturnOwns
  <2>2. UNCHANGED <<poll_fd, pc, accepted>>
    BY <1>6 DEF Return, handlerVars
  <2>3. PollInv'
    BY <1>1, <2>2 DEF PollInv
  <2>4. AcceptedInv'
    BY <1>1, <1>6, <2>2 DEF Return, AcceptedInv
  <2> QED BY <2>1, <2>3, <2>4 DEF DescriptorInv
<1> QED BY <1>3, <1>4, <1>5, <1>6 DEF Service

LEMMA OutsideDescriptors ==
  ASSUME DescriptorInv,
         \/ Stop \/ Join \/ Connect
         \/ \E c \in Connections : Speak(c) \/ Reset(c)
         \/ UNCHANGED vars
  PROVE  DescriptorInv'
<1>1. UNCHANGED <<open_files, socket_fd_, poll_fd, pc, accepted>>
  BY DEF Stop, Join, Connect, Speak, Reset, vars, socketVars, handlerVars,
         serviceVars
<1> QED
  BY <1>1 DEF DescriptorInv, PollInv, AcceptedInv, DescriptorOwnership

LEMMA DescriptorInvariant == Spec => []DescriptorInv
<1>1. ControlInv /\ DescriptorInv /\ [Next]_vars => DescriptorInv'
  BY StepCases, TaskDescriptors, ServiceDescriptors, OutsideDescriptors
<1> QED BY <1>1, DescriptorInit, ControlInvariant, PTL DEF Spec

(* Descriptor numbers and open files always correspond one to one.  The    *)
(* invariant adds when a poll instance can be open: opening a second one   *)
(* over the first would leave a file without an owner.                     *)
THEOREM DescriptorsAreOwned == Spec => []DescriptorOwnership
<1>1. DescriptorInv => DescriptorOwnership
  BY DEF DescriptorInv
<1> QED BY <1>1, DescriptorInvariant, PTL

-----------------------------------------------------------------------------
(* Futures: run() waits for every task it started. *)

(* What a step of a task does to its place: it was somewhere in between,   *)
(* and no other task moves.                                                *)
LEMMA TaskMoves ==
  ASSUME ControlInv, NEW t \in Tasks, Task(t)
  PROVE  /\ pc[t] \notin {"unlaunched", "ready"}
         /\ pc'[t] # "unlaunched"
         /\ \A u \in Tasks : u # t => pc'[u] = pc[u]
         /\ UNCHANGED serviceVars
         /\ ~GetConnection(t) =>
              /\ pc[t] # "getConnection" /\ pc'[t] # "getConnection"
              /\ UNCHANGED poolVars
<1>1. TaskTypeOK
  BY DEF ControlInv, TypeOK
<1>2. CASE GetConnection(t)
  BY <1>1, <1>2 DEF GetConnection, Goto, TaskTypeOK, serviceVars
<1>3. CASE Release(t)
  BY <1>1, <1>3 DEF Release, Goto, TaskTypeOK
<1>4. CASE HandleRequest(t) /\ UNCHANGED <<poolVars, serviceVars>>
  BY <1>1, <1>4
  DEF HandleRequest, OpenReadPoll, WaitForSocketRead, ReadSocketData, Dispatch,
      OpenSendPoll, SendSome, WritePieces, WriteFails, StopSending,
      CloseSendPoll, CloseConnection, Goto, TaskTypeOK
<1> QED BY <1>2, <1>3, <1>4 DEF Task

LEMMA FuturesInit == Init => FuturesInv
  BY DEF Init, HandlerInit, FuturesInv

LEMMA FuturesStep ==
  ASSUME ControlInv, FuturesInv, [Next]_vars
  PROVE  FuturesInv'
<1>1. TaskTypeOK /\ ServiceTypeOK /\ TaskInv /\ LaunchInv
  BY DEF ControlInv, TypeOK
<1>2. ASSUME NEW t \in Tasks, Task(t) PROVE FuturesInv'
  BY <1>2, TaskMoves DEF FuturesInv, serviceVars
<1>3. ASSUME UNCHANGED <<pc, accepted, connection_futures>>,
             \/ UNCHANGED service_pc
             \/ service_pc' \notin {"bind", "listen", "lookup", "returned"}
                  /\ service_pc # "returned"
             \/ service_pc' \in {"bind", "listen", "lookup"}
                  /\ service_pc \in {"bind", "listen", "lookup"}
      PROVE  FuturesInv'
  BY <1>3 DEF FuturesInv
<1>4. CASE Service
  <2>1. CASE Bind
    BY <1>3, <2>1
    DEF Bind, BindSucceeds, BindFails, BindGivesUp, ServiceGoto
  <2>2. CASE Listen
    BY <1>3, <2>2 DEF Listen, ServiceGoto, handlerVars
  <2>3. CASE LookupHandler
    <3>1. CASE ServiceType.HTTP \in protocol_handlers_
      BY <1>3, <2>3, <3>1 DEF LookupHandler, ServiceGoto, handlerVars
    <3>2. CASE ServiceType.HTTP \notin protocol_handlers_
      <4>1. service_pc' = "returned" /\ UNCHANGED <<pc, accepted>>
        BY <2>3, <3>2 DEF LookupHandler, ServiceGoto, handlerVars
      <4>2. launched = 0
        BY <1>1, <2>3, Counters DEF LookupHandler, FuturesInv
      <4>3. \A t \in Tasks : pc[t] = "unlaunched"
        BY <1>1, <4>2, MaxConnectionsAssumption DEF TaskInv, Tasks
      <4> QED BY <4>1, <4>3 DEF FuturesInv
    <3> QED BY <3>1, <3>2
  <2>4. CASE TestStopFlag
    BY <1>3, <2>4 DEF TestStopFlag, ServiceGoto, handlerVars
  <2>5. CASE Select
    BY <1>3, <2>5 DEF Select, ServiceGoto, handlerVars
  <2>6. CASE Accept
    BY <2>6
    DEF Accept, AcceptClient, AcceptError, ServiceGoto, handlerVars, FuturesInv
  <2>7. CASE AddConnection
    BY <1>3, <2>7 DEF AddConnection, ServiceGoto, handlerVars
  <2>8. CASE Launch
    <3>1. launched + 1 \in Tasks
      BY <1>1, <2>8, Counters DEF Launch, LaunchInv, Tasks
    <3> QED
      BY <1>1, <2>8, <3>1
      DEF Launch, StartTask, Goto, ServiceGoto, FuturesInv, TaskTypeOK
  <2>9. CASE CleanUpConnectionFutures
    BY <2>9
    DEF CleanUpConnectionFutures, ServiceGoto, handlerVars, FuturesInv
  <2>10. CASE Return
    BY <2>10 DEF Return, ServiceGoto, handlerVars, FuturesInv
  <2> QED
    BY <1>4, <2>1, <2>2, <2>3, <2>4, <2>5, <2>6, <2>7, <2>8, <2>9, <2>10
    DEF Service
<1>5. CASE \/ Stop \/ Join \/ Connect
           \/ \E c \in Connections : Speak(c) \/ Reset(c)
           \/ UNCHANGED vars
  <2>1. UNCHANGED <<pc, accepted, connection_futures, service_pc>>
    BY <1>5
    DEF Stop, Join, Connect, Speak, Reset, vars, handlerVars, serviceVars
  <2> QED BY <1>3, <2>1
<1> QED BY <1>2, <1>4, <1>5, StepCases

LEMMA FuturesInvariant == Spec => []FuturesInv
<1>1. ControlInv /\ FuturesInv /\ [Next]_vars => FuturesInv'
  BY FuturesStep
<1> QED BY <1>1, FuturesInit, ControlInvariant, PTL DEF Spec

-----------------------------------------------------------------------------
(* Supply: no task comes to an empty pool. *)

LEMMA TakersFinite == IsFiniteSet(Takers) /\ Cardinality(Takers) \in Nat
<1>1. IsFiniteSet(Tasks)
  BY MaxConnectionsAssumption, FS_Interval DEF Tasks
<1> QED BY <1>1, FS_Subset, FS_CardinalityType DEF Takers

LEMMA SupplyInit == Init => SupplyInv
<1> SUFFICES ASSUME Init PROVE SupplyInv
  OBVIOUS
<1>1. Takers = {}
  BY DEF Init, HandlerInit, Takers
<1>2. Cardinality(Takers) = 0
  BY <1>1, FS_EmptySet
<1> QED BY <1>2 DEF Init, PoolInit, CvInit, SupplyInv, Owed

LEMMA SupplyStep ==
  ASSUME ControlInv, FuturesInv, SupplyInv, [Next]_vars
  PROVE  SupplyInv'
<1>1. /\ PoolTypeOK /\ TaskTypeOK /\ ServiceTypeOK /\ TaskInv /\ LaunchInv
      /\ Len(connection_pool_) \in Nat
      /\ Owed \in {0, 1}
  BY DEF ControlInv, TypeOK, PoolTypeOK, Owed
<1>2. /\ IsFiniteSet(Takers) /\ Cardinality(Takers) \in Nat
      /\ Cardinality(Takers) + Owed <= Len(connection_pool_)
      /\ waiting = {} /\ notified = {}
  BY TakersFinite DEF SupplyInv
<1>3. ASSUME UNCHANGED <<poolVars, pc>>, Owed' = Owed
      PROVE  SupplyInv'
  BY <1>2, <1>3 DEF SupplyInv, Takers, poolVars
<1>4. ASSUME NEW t \in Tasks, Task(t) PROVE SupplyInv'
  <2>1. Owed' = Owed
    BY <1>4, TaskMoves DEF Owed, serviceVars
  <2>2. CASE GetConnection(t)
    <3>1. t \in Takers
      BY <2>2 DEF GetConnection, Takers
    <3>2. Cardinality(Takers \ {t}) = Cardinality(Takers) - 1
      BY <1>2, <3>1, FS_RemoveElement
    <3>3. Cardinality(Takers) # 0
      BY <1>2, <3>1, FS_EmptySet
    <3>4. connection_pool_ # <<>>
      BY <1>1, <1>2, <3>3
    <3>5. /\ connection_pool_' = Tail(connection_pool_)
          /\ notified' = notified \ {t}
          /\ waiting' = waiting
          /\ pc' = [pc EXCEPT ![t] = "openRead"]
      BY <2>2, <3>4
      DEF GetConnection, getConnection, WaitForConnection, TakeConnection,
        Sleep, Proceed, Goto
    <3>6. Takers' = Takers \ {t}
      BY <1>1, <3>5 DEF Takers, TaskTypeOK
    <3>7. Len(connection_pool_') = Len(connection_pool_) - 1
      BY <1>1, <3>4, <3>5, HeadTailProperties DEF PoolTypeOK
    <3>8. Cardinality(Takers') + Owed' <= Len(connection_pool_')
      BY <1>1, <1>2, <2>1, <3>2, <3>6, <3>7
    <3> QED BY <1>2, <3>5, <3>8 DEF SupplyInv
  <2>3. CASE ~GetConnection(t)
    <3>1. Takers' = Takers /\ UNCHANGED poolVars
      BY <1>4, <2>3, TaskMoves DEF Takers
    <3> QED BY <1>2, <2>1, <3>1 DEF SupplyInv, poolVars
  <2> QED BY <2>2, <2>3
<1>5. CASE Service
  <2>1. CASE \/ Bind \/ Listen \/ LookupHandler \/ TestStopFlag \/ Select
             \/ Accept \/ CleanUpConnectionFutures
    BY <1>3, <2>1
    DEF Bind, BindSucceeds, BindFails, BindGivesUp, Listen, LookupHandler,
        TestStopFlag, Select, Accept, AcceptClient, AcceptError,
        CleanUpConnectionFutures, ServiceGoto, Owed, handlerVars
  <2>2. CASE AddConnection
    <3>1. /\ connection_pool_' = Append(connection_pool_, accepted)
          /\ UNCHANGED <<waiting, notified, pc>>
      BY <1>2, <2>2 DEF AddConnection, addConnection, notify_one, cvVars,
        handlerVars
    <3>2. Len(connection_pool_') = Len(connection_pool_) + 1
      BY <1>1, <3>1 DEF PoolTypeOK
    <3>3. Owed = 0 /\ Owed' = 1
      BY <2>2 DEF AddConnection, ServiceGoto, Owed
    <3>4. Takers' = Takers
      BY <3>1 DEF Takers
    <3>5. Cardinality(Takers') + Owed' <= Len(connection_pool_')
      BY <1>1, <1>2, <3>2, <3>3, <3>4
    <3> QED BY <1>2, <3>1, <3>5 DEF SupplyInv
  <2>3. CASE Launch
    <3>1. Owed = 1 /\ Owed' = 0 /\ UNCHANGED poolVars
      BY <2>3 DEF Launch, ServiceGoto, Owed
    <3>2. CASE StartTask
      <4>1. launched + 1 \in Tasks
        BY <1>1, <2>3, Counters DEF Launch, LaunchInv, Tasks
      <4>2. Takers' = Takers \cup {launched + 1}
        BY <1>1, <3>2, <4>1 DEF StartTask, Goto, Takers, TaskTypeOK
      <4>3. Cardinality(Takers') <= Cardinality(Takers) + 1
            /\ Cardinality(Takers') \in Nat
        <5> DEFINE new == launched + 1
        <5> HIDE DEF new
        <5>1. /\ IsFiniteSet(Takers \cup {new})
              /\ Cardinality(Takers \cup {new}) =
                   IF new \in Takers THEN Cardinality(Takers)
                                     ELSE Cardinality(Takers) + 1
          BY <1>2, FS_AddElement
        <5>2. Takers' = Takers \cup {new}
          BY <4>2 DEF new
        <5> QED BY <1>2, <5>1, <5>2
      <4>4. Cardinality(Takers') + Owed' <= Len(connection_pool_)
        BY <1>1, <1>2, <3>1, <4>3
      <4> QED BY <1>2, <3>1, <4>4 DEF SupplyInv, poolVars
    <3>3. CASE UNCHANGED <<launched, pc, connection_futures>>
      <4>1. Takers' = Takers
        BY <3>3 DEF Takers
      <4>2. Cardinality(Takers') + Owed' <= Len(connection_pool_)
        BY <1>1, <1>2, <3>1, <4>1
      <4> QED BY <1>2, <3>1, <4>2 DEF SupplyInv, poolVars
    <3> QED BY <2>3, <3>2, <3>3 DEF Launch
  <2>4. CASE Return
    <3>1. \A t \in Tasks : pc[t] \in {"unlaunched", "ready"}
      BY <2>4 DEF Return, FuturesInv
    <3>2. /\ connection_pool_' = <<>>
          /\ UNCHANGED <<pc, waiting, notified>>
          /\ Owed' = 0
      BY <2>4 DEF Return, ServiceGoto, Owed, handlerVars
    <3>3. Takers' = {}
      BY <3>1, <3>2 DEF Takers
    <3>4. Cardinality(Takers') = 0
      BY <3>3, FS_EmptySet
    <3>5. Cardinality(Takers') + Owed' <= Len(connection_pool_')
      BY <3>2, <3>4
    <3> QED BY <1>2, <3>2, <3>5 DEF SupplyInv
  <2> QED BY <1>5, <2>1, <2>2, <2>3, <2>4 DEF Service
<1>6. CASE \/ Stop \/ Join \/ Connect
           \/ \E c \in Connections : Speak(c) \/ Reset(c)
           \/ UNCHANGED vars
  <2>1. UNCHANGED <<poolVars, pc, service_pc>>
    BY <1>6
    DEF Stop, Join, Connect, Speak, Reset, vars, handlerVars, serviceVars
  <2> QED BY <1>3, <2>1 DEF Owed
<1> QED BY <1>4, <1>5, <1>6, StepCases

(* No task ever sleeps on the pool's condition variable.  The pool holds a *)
(* connection for every task that is going to take one, counted before the *)
(* task is launched; a thread that cannot be started only leaves one over. *)
THEOREM NoTaskEverSleeps == Spec => []NoTaskSleeps
<1>1. ControlInv /\ FuturesInv /\ SupplyInv /\ [Next]_vars => SupplyInv'
  BY SupplyStep
<1>2. SupplyInv => NoTaskSleeps
  BY DEF SupplyInv, NoTaskSleeps
<1> QED
  BY <1>1, <1>2, SupplyInit, ControlInvariant, FuturesInvariant, PTL DEF Spec

-----------------------------------------------------------------------------
(* Draining: when run() returns, nothing is left running or open. *)

(* A task that takes no connection and closes none keeps what it holds.    *)
LEMMA TaskKeeps ==
  ASSUME ControlInv, NEW t \in Tasks, Task(t),
         ~GetConnection(t), ~CloseConnection(t), ~Release(t)
  PROVE  /\ UNCHANGED <<socket_fd_, connection>>
         /\ pc'[t] \notin {"unlaunched", "getConnection", "release", "ready"}
<1>1. TaskTypeOK
  BY DEF ControlInv, TypeOK
<1>2. HandleRequest(t)
  BY DEF Task
<1> QED
  BY <1>1, <1>2
  DEF HandleRequest, OpenReadPoll, WaitForSocketRead, ReadSocketData, Dispatch,
      OpenSendPoll, SendSome, WritePieces, WriteFails, StopSending,
      CloseSendPoll, CloseConnection, Goto, TaskTypeOK, socketVars

LEMMA HeldInit == Init => HeldInv
  BY DEF Init, SocketInit, HeldInv

LEMMA HeldStep ==
  ASSUME ControlInv, FuturesInv, HeldInv, [Next]_vars
  PROVE  HeldInv'
<1>1. /\ PoolTypeOK /\ SocketTypeOK /\ TaskTypeOK /\ ServiceTypeOK
      /\ TaskInv /\ LaunchInv
  BY DEF ControlInv, TypeOK
<1>2. ASSUME NEW t \in Tasks, Task(t) PROVE HeldInv'
  <2>1. /\ UNCHANGED <<service_pc, accepted>>
        /\ \A u \in Tasks : u # t => pc'[u] = pc[u]
    BY <1>2, TaskMoves DEF serviceVars
  <2>2. CASE GetConnection(t)
    <3>1. CASE connection_pool_ = <<>>
      <4>1. UNCHANGED <<connection_pool_, socket_fd_, pc, connection>>
        BY <2>2, <3>1
        DEF GetConnection, getConnection, WaitForConnection, TakeConnection,
          Sleep, Proceed,
            socketVars
      <4> QED BY <2>1, <4>1 DEF HeldInv, Holds, Pooled
    <3>2. CASE connection_pool_ # <<>>
      <4>1. /\ connection_pool_' = Tail(connection_pool_)
            /\ socket_fd_' = socket_fd_
            /\ connection' = [connection EXCEPT ![t] = Head(connection_pool_)]
            /\ pc' = [pc EXCEPT ![t] = "openRead"]
            /\ pc[t] = "getConnection"
        BY <2>2, <3>2
        DEF GetConnection, getConnection, WaitForConnection, TakeConnection,
          Sleep, Proceed,
            Goto, socketVars
      <4>2. \A c \in Pooled : c = Head(connection_pool_) \/ c \in Pooled'
        <5> SUFFICES ASSUME NEW i \in 1..Len(connection_pool_), i # 1
                     PROVE  connection_pool_[i] \in Pooled'
          BY <1>1, <3>2 DEF Pooled, PoolTypeOK
        <5>1. /\ i - 1 \in 1..Len(connection_pool_')
              /\ connection_pool_'[i - 1] = connection_pool_[i]
          BY <1>1, <3>2, <4>1, HeadTailProperties DEF PoolTypeOK
        <5> QED BY <5>1 DEF Pooled
      <4>3. ASSUME NEW c \in Connections, c = Head(connection_pool_)
            PROVE  Holds(t, c)'
        BY <1>1, <4>1, <4>3 DEF Holds, TaskTypeOK
      <4>4. ASSUME NEW u \in Tasks, NEW c \in Connections, Holds(u, c)
            PROVE  Holds(u, c)'
        BY <1>1, <4>1, <4>4 DEF Holds, TaskTypeOK
      <4> QED BY <2>1, <4>1, <4>2, <4>3, <4>4 DEF HeldInv
    <3> QED BY <3>1, <3>2
  <2>3. CASE CloseConnection(t) \/ Release(t)
    <3>1. /\ UNCHANGED <<connection_pool_, connection>>
          /\ socket_fd_' = [socket_fd_ EXCEPT ![connection[t]] = NoFd]
          /\ connection[t] \in Connections
      BY <1>1, <1>2, <2>3, TaskMoves
      DEF CloseConnection, Release, Close, TaskTypeOK, TaskInv, poolVars,
          GetConnection
    <3>2. ASSUME NEW c \in Connections, socket_fd_'[c] # NoFd
          PROVE  c # connection[t] /\ socket_fd_[c] # NoFd
      BY <1>1, <3>1, <3>2 DEF SocketTypeOK
    <3>3. ASSUME NEW u \in Tasks, NEW c \in Connections, Holds(u, c),
                 c # connection[t]
          PROVE  Holds(u, c)'
      BY <2>1, <3>1, <3>3 DEF Holds
    <3>4. Pooled' = Pooled
      BY <3>1 DEF Pooled
    <3> QED BY <2>1, <3>2, <3>3, <3>4 DEF HeldInv
  <2>4. CASE ~GetConnection(t) /\ ~CloseConnection(t) /\ ~Release(t)
    <3>1. /\ UNCHANGED <<socket_fd_, connection, connection_pool_>>
          /\ pc'[t] \notin {"unlaunched", "getConnection", "release", "ready"}
      BY <1>2, <2>4, TaskKeeps, TaskMoves DEF poolVars
    <3>2. ASSUME NEW u \in Tasks, NEW c \in Connections, Holds(u, c)
          PROVE  Holds(u, c)'
      BY <2>1, <3>1, <3>2 DEF Holds
    <3>3. Pooled' = Pooled
      BY <3>1 DEF Pooled
    <3> QED BY <2>1, <3>1, <3>2, <3>3 DEF HeldInv
  <2> QED BY <2>2, <2>3, <2>4
<1>3. ASSUME UNCHANGED <<connection_pool_, socket_fd_, pc, connection,
      accepted>>,
             service_pc = "add" => service_pc' = "add"
      PROVE  HeldInv'
  BY <1>3 DEF HeldInv, Holds, Pooled
<1>4. CASE Service
  <2>1. CASE \/ Bind \/ Listen \/ LookupHandler \/ TestStopFlag \/ Select
             \/ CleanUpConnectionFutures
    BY <1>3, <2>1
    DEF Bind, Listen, LookupHandler, TestStopFlag, Select,
        CleanUpConnectionFutures, poolVars, socketVars, handlerVars
  <2>2. CASE Accept
    <3>1. CASE AcceptClient
      <4>1. /\ UNCHANGED <<connection_pool_, pc, connection>>
            /\ service_pc = "accept" /\ service_pc' = "add"
            /\ accepted' = accepted + 1
            /\ socket_fd_' = [socket_fd_ EXCEPT ![accepted + 1] = NewFd]
        BY <2>2, <3>1 DEF Accept, AcceptClient, ServiceGoto, poolVars,
          handlerVars
      <4>2. ASSUME NEW c \in Connections, c # accepted', socket_fd_'[c] # NoFd
            PROVE  socket_fd_[c] # NoFd
        BY <1>1, <4>1, <4>2 DEF SocketTypeOK
      <4> QED BY <4>1, <4>2 DEF HeldInv, Holds, Pooled
    <3>2. CASE AcceptError
      BY <1>3, <2>2, <3>2
      DEF Accept, AcceptError, poolVars, socketVars, handlerVars
    <3> QED BY <2>2, <3>1, <3>2 DEF Accept
  <2>3. CASE AddConnection
    <3>1. /\ connection_pool_' = Append(connection_pool_, accepted)
          /\ UNCHANGED <<socket_fd_, pc, connection, accepted>>
      BY <2>3 DEF AddConnection, addConnection, socketVars, handlerVars
    <3>2. accepted \in Pooled' /\ Pooled \subseteq Pooled'
      <4>1. /\ Len(connection_pool_) \in Nat
            /\ Len(connection_pool_') = Len(connection_pool_) + 1
            /\ connection_pool_'[Len(connection_pool_) + 1] = accepted
            /\ \A i \in 1..Len(connection_pool_) :
                  connection_pool_'[i] = connection_pool_[i]
        BY <1>1, <3>1 DEF PoolTypeOK
      <4> QED BY <4>1 DEF Pooled
    <3> QED BY <3>1, <3>2 DEF HeldInv, Holds
  <2>4. CASE Launch
    <3>1. UNCHANGED <<connection_pool_, socket_fd_, connection, accepted>>
          /\ service_pc = "launch"
      BY <2>4 DEF Launch, poolVars, socketVars
    <3>2. ASSUME NEW u \in Tasks, NEW c \in Connections, Holds(u, c)
          PROVE  Holds(u, c)'
      <4>1. launched + 1 \in Tasks /\ pc[launched + 1] = "unlaunched"
        BY <1>1, <2>4, Counters DEF Launch, LaunchInv, TaskInv, Tasks
      <4> QED
        BY <1>1, <2>4, <3>1, <3>2, <4>1
        DEF Launch, StartTask, Goto, Holds, TaskTypeOK
    <3>3. Pooled' = Pooled
      BY <3>1 DEF Pooled
    <3> QED BY <3>1, <3>2, <3>3 DEF HeldInv
  <2>5. CASE Return
    <3>1. /\ UNCHANGED <<pc, connection>> /\ service_pc = "drain"
          /\ socket_fd_' = [c \in Connections |->
               IF c \in Pooled THEN NoFd ELSE socket_fd_[c]]
      BY <2>5 DEF Return, handlerVars
    <3> QED BY <3>1 DEF HeldInv, Holds
  <2> QED BY <1>4, <2>1, <2>2, <2>3, <2>4, <2>5 DEF Service
<1>5. CASE \/ Stop \/ Join \/ Connect
           \/ \E c \in Connections : Speak(c) \/ Reset(c)
           \/ UNCHANGED vars
  BY <1>3, <1>5
  DEF Stop, Join, Connect, Speak, Reset, vars, poolVars, socketVars,
      handlerVars, serviceVars
<1> QED BY <1>2, <1>4, <1>5, StepCases

LEMMA HeldInvariant == Spec => []HeldInv
<1>1. ControlInv /\ FuturesInv /\ HeldInv /\ [Next]_vars => HeldInv'
  BY HeldStep
<1> QED
  BY <1>1, HeldInit, ControlInvariant, FuturesInvariant, PTL DEF Spec

(* After run() has returned every socket is closed. *)
ClosedInv == service_pc = "returned" => \A c \in Connections : socket_fd_[c] =
  NoFd

LEMMA ClosedStep ==
  ASSUME ControlInv, AcceptedInv, FuturesInv, HeldInv, ClosedInv, [Next]_vars
  PROVE  ClosedInv'
<1>1. SocketTypeOK /\ TaskTypeOK /\ ServiceTypeOK
  BY DEF ControlInv, TypeOK
<1>2. ASSUME NEW t \in Tasks, Task(t) PROVE ClosedInv'
  <2>1. service_pc # "returned"
    BY <1>2, TaskMoves DEF FuturesInv
  <2> QED BY <1>2, <2>1, TaskMoves DEF serviceVars, ClosedInv
<1>3. ASSUME LookupHandler PROVE ClosedInv'
  <2>1. accepted = 0 /\ socket_fd_' = socket_fd_
    BY <1>3 DEF LookupHandler, FuturesInv, socketVars
  <2> QED BY <2>1 DEF ClosedInv, AcceptedInv, Connections
<1>4. ASSUME Return PROVE ClosedInv'
  <2>1. \A c \in Connections : socket_fd_[c] # NoFd => c \in Pooled
    BY <1>4 DEF Return, FuturesInv, HeldInv, Holds
  <2> QED BY <1>4, <2>1 DEF Return, ClosedInv
<1>5. ASSUME \/ Bind \/ Listen \/ TestStopFlag \/ Select \/ Accept
             \/ AddConnection \/ Launch \/ CleanUpConnectionFutures
      PROVE  ClosedInv'
  BY <1>5
  DEF Bind, BindSucceeds, BindFails, BindGivesUp, Listen, TestStopFlag, Select,
      Accept, AcceptClient, AcceptError, AddConnection, Launch,
      CleanUpConnectionFutures, ServiceGoto, ClosedInv
<1>6. CASE \/ Stop \/ Join \/ Connect
           \/ \E c \in Connections : Speak(c) \/ Reset(c)
           \/ UNCHANGED vars
  BY <1>6
  DEF Stop, Join, Connect, Speak, Reset, vars, socketVars, serviceVars,
    ClosedInv
<1> QED BY <1>2, <1>3, <1>4, <1>5, <1>6, StepCases DEF Service

(* When run() has returned no task is running, so nobody uses the pool     *)
(* that went with its stack frame, and no descriptor is open.              *)
THEOREM ReturnIsClean == Spec => []DrainedAtReturn
<1>1. Init => ClosedInv
  BY DEF Init, ClosedInv
<1>2. ControlInv /\ DescriptorInv /\ FuturesInv /\ HeldInv /\ ClosedInv
        /\ [Next]_vars => ClosedInv'
  BY ClosedStep DEF DescriptorInv
<1>3. ControlInv /\ DescriptorInv /\ FuturesInv /\ ClosedInv => DrainedAtReturn
  <2> SUFFICES ASSUME ControlInv, DescriptorInv, FuturesInv, ClosedInv,
                      service_pc = "returned"
               PROVE  /\ \A t \in Tasks : pc[t] \in {"unlaunched", "ready"}
                      /\ \A f \in Fds : open_files[f] = Free
    BY DEF DrainedAtReturn
  <2>1. \A t \in Tasks : pc[t] \in {"unlaunched", "ready"} /\ poll_fd[t] = NoFd
    BY DEF FuturesInv, DescriptorInv, PollInv
  <2>2. \A c \in Connections : socket_fd_[c] = NoFd
    BY DEF ClosedInv
  <2>3. ASSUME NEW f \in Fds PROVE open_files[f] = Free
    <3>1. open_files[f] \in Files
      BY DEF ControlInv, TypeOK, SocketTypeOK
    <3>2. \A c \in Connections : open_files[f] # SocketFile(c)
      BY <2>2, NoFdIsNoFd DEF DescriptorInv, DescriptorOwnership
    <3>3. \A t \in Tasks : open_files[f] # PollFile(t)
      BY <2>1, NoFdIsNoFd DEF DescriptorInv, DescriptorOwnership
    <3> QED BY <3>1, <3>2, <3>3 DEF Files
  <2> QED BY <2>1, <2>3
<1> QED
  BY <1>1, <1>2, <1>3, ControlInvariant, DescriptorInvariant, FuturesInvariant,
     HeldInvariant, PTL DEF Spec

-----------------------------------------------------------------------------
(***************************************************************************)
(* What the server promises its clients: connections are handed out in     *)
(* order and once, an answer reaches the client that asked, and both       *)
(* together implement ServiceContract.                                     *)
(***************************************************************************)
(* The connections 1..Handed have been through addConnection().            *)
Handed == IF service_pc = "add" THEN accepted - 1 ELSE accepted

(* The pool is sorted, and everything in it is newer than whatever a task  *)
(* has taken: tasks take the oldest, the service thread adds the newest.   *)
PoolSorted ==
  /\ \A i, j \in 1..Len(connection_pool_) :
       i < j => connection_pool_[i] < connection_pool_[j]
  /\ \A i \in 1..Len(connection_pool_) : connection_pool_[i] <= Handed
TakenInOrder ==
  \A t \in Tasks :
    /\ connection[t] <= Handed
    /\ \A i \in 1..Len(connection_pool_) : connection[t] < connection_pool_[i]
    /\ pc[t] \in {"unlaunched", "getConnection"} => connection[t] = None
TakenOnce ==
  \A t, u \in Tasks :
    connection[t] # None /\ connection[t] = connection[u] => t = u

OrderInv == PoolSorted /\ TakenInOrder /\ TakenOnce

(* A task answers the client of its own connection, has sent that client   *)
(* as many pieces as it counts, and no other task has sent it any.         *)
SentInv ==
  /\ \A t \in Tasks :
       /\ response[t] \in {None, connection[t]}
       /\ connection[t] = None => bytesSent[t] = 0
       /\ connection[t] # None => bytesSent[t] = Len(delivered[connection[t]])
  /\ \A c \in Connections :
       (\A t \in Tasks : connection[t] # c) => delivered[c] = <<>>

(* A socket stays open until its task closes it. *)
OpenInv ==
  /\ \A i \in 1..Len(connection_pool_) : socket_fd_[connection_pool_[i]] # NoFd
  /\ service_pc = "add" => socket_fd_[accepted] # NoFd
  /\ \A t \in Tasks : connection[t] # None =>
       (pc[t] \in {"release", "ready"} <=> socket_fd_[connection[t]] = NoFd)

-----------------------------------------------------------------------------
(* What the steps do to the pool and to what tasks hold. *)

(* A pass through getConnection() finds nothing, or takes the oldest       *)
(* connection.                                                             *)
LEMMA GetCases ==
  ASSUME NEW t \in Tasks, GetConnection(t)
  PROVE  /\ pc[t] = "getConnection"
         /\ UNCHANGED <<open_files, socket_fd_, service_pc, accepted, response,
                        bytesSent, delivered>>
         /\ \/ UNCHANGED <<connection_pool_, pc, connection>>
            \/ /\ connection_pool_ # <<>>
               /\ connection_pool_' = Tail(connection_pool_)
               /\ connection' = [connection EXCEPT ![t] = Head(connection_pool_)]
               /\ pc' = [pc EXCEPT ![t] = "openRead"]
<1>1. CASE connection_pool_ = <<>>
  BY <1>1
  DEF GetConnection, getConnection, WaitForConnection, TakeConnection,
      socketVars, serviceVars
<1>2. CASE connection_pool_ # <<>>
  BY <1>2
  DEF GetConnection, getConnection, WaitForConnection, TakeConnection, Goto,
      socketVars, serviceVars
<1> QED BY <1>1, <1>2

(* Any other step of a task leaves the pool and every task's connection.   *)
LEMMA OtherTaskSteps ==
  ASSUME ControlInv, NEW t \in Tasks, Task(t), ~GetConnection(t)
  PROVE  /\ UNCHANGED <<connection_pool_, connection, service_pc, accepted>>
         /\ pc[t] \notin {"unlaunched", "getConnection"}
         /\ pc'[t] \notin {"unlaunched", "getConnection"}
         /\ \A u \in Tasks : u # t => pc'[u] = pc[u]
<1>1. TaskTypeOK
  BY DEF ControlInv, TypeOK
<1>2. HandleRequest(t) \/ Release(t)
  BY DEF Task
<1>3. pc[t] \notin {"unlaunched", "getConnection"}
  BY <1>2
  DEF HandleRequest, OpenReadPoll, WaitForSocketRead, ReadSocketData, Dispatch,
      OpenSendPoll, SendSome, CloseSendPoll, CloseConnection, Release
<1>4. connection' = connection
  BY <1>2
  DEF HandleRequest, OpenReadPoll, WaitForSocketRead, ReadSocketData, Dispatch,
      OpenSendPoll, SendSome, CloseSendPoll, CloseConnection, Release
<1>5. /\ UNCHANGED <<connection_pool_, service_pc, accepted>>
      /\ \A u \in Tasks : u # t => pc'[u] = pc[u]
  BY TaskMoves DEF serviceVars, poolVars
<1>6. pc'[t] \notin {"unlaunched", "getConnection"}
  BY <1>1, <1>2, TaskKeeps, <1>3
  DEF CloseConnection, Release, Goto, TaskTypeOK, GetConnection
<1> QED BY <1>3, <1>4, <1>5, <1>6

(* The service thread: only addConnection() and Return change the pool,    *)
(* only StartTask moves a task, only AcceptClient accepts.                 *)
LEMMA QuietService ==
  ASSUME Service, ~Accept, ~AddConnection, ~Launch, ~Return
  PROVE  /\ UNCHANGED <<connection_pool_, connection, pc, accepted, response,
                        bytesSent, delivered, open_files, socket_fd_>>
         /\ service_pc # "add" /\ service_pc' # "add"
<1>1. \/ Bind \/ Listen \/ LookupHandler \/ TestStopFlag \/ Select
      \/ CleanUpConnectionFutures
  BY DEF Service
<1> QED
  BY <1>1
  DEF Bind, BindSucceeds, BindFails, BindGivesUp, Listen, LookupHandler,
      TestStopFlag, Select, CleanUpConnectionFutures, ServiceGoto, poolVars,
      socketVars, handlerVars

LEMMA QuietOutside ==
  ASSUME \/ Stop \/ Join \/ Connect
         \/ \E c \in Connections : Speak(c) \/ Reset(c)
         \/ UNCHANGED vars
  PROVE  UNCHANGED <<connection_pool_, connection, pc, service_pc, accepted,
                     response, bytesSent, delivered, open_files, socket_fd_>>
  BY DEF Stop, Join, Connect, Speak, Reset, vars, poolVars, socketVars,
         handlerVars, serviceVars

(* A thread is started only for a task that was not launched yet.          *)
LEMMA LaunchEffect ==
  ASSUME ControlInv, Launch
  PROVE  /\ UNCHANGED <<connection_pool_, connection, accepted, response,
                        bytesSent, delivered, open_files, socket_fd_>>
         /\ service_pc # "add" /\ service_pc' # "add"
         /\ \A t \in Tasks :
              pc'[t] = pc[t] \/ (pc[t] = "unlaunched" /\ pc'[t] = "getConnection")
<1>1. TaskTypeOK /\ ServiceTypeOK /\ TaskInv /\ LaunchInv
  BY DEF ControlInv, TypeOK
<1>2. launched + 1 \in Tasks /\ pc[launched + 1] = "unlaunched"
  BY <1>1, Counters DEF Launch, LaunchInv, TaskInv, Tasks
<1>3. /\ UNCHANGED <<connection_pool_, connection, accepted, response,
                     bytesSent, delivered, open_files, socket_fd_>>
      /\ service_pc # "add" /\ service_pc' # "add"
  BY DEF Launch, ServiceGoto, poolVars, socketVars
<1>4. ASSUME NEW t \in Tasks
      PROVE  pc'[t] = pc[t] \/ (pc[t] = "unlaunched" /\ pc'[t] = "getConnection")
  <2> DEFINE new == launched + 1
  <2>1. \/ pc' = [pc EXCEPT ![new] = "getConnection"]
        \/ pc' = pc
    BY DEF Launch, StartTask, Goto
  <2>2. new \in Tasks /\ pc[new] = "unlaunched"
    BY <1>2
  <2> HIDE DEF new
  <2>3. pc \in [Tasks -> TaskPcs]
    BY <1>1 DEF TaskTypeOK
  <2>4. CASE pc' = [pc EXCEPT ![new] = "getConnection"] /\ t = new
    BY <2>2, <2>3, <2>4
  <2>5. CASE pc' = [pc EXCEPT ![new] = "getConnection"] /\ t # new
    BY <1>4, <2>2, <2>3, <2>5
  <2> QED BY <2>1, <2>4, <2>5
<1> QED BY <1>3, <1>4

(* The elements of a sequence after its head, and before its new end.      *)
LEMMA TailElements ==
  ASSUME NEW S, NEW s \in Seq(S), s # <<>>
  PROVE  /\ Len(s) \in Nat \ {0}
         /\ Head(s) = s[1] /\ s[1] \in S
         /\ Len(Tail(s)) = Len(s) - 1
         /\ \A i \in 1..Len(Tail(s)) : Tail(s)[i] = s[i + 1]
  BY EmptySeq, HeadTailProperties

LEMMA AppendElements ==
  ASSUME NEW S, NEW s \in Seq(S), NEW e \in S
  PROVE  /\ Len(s) \in Nat
         /\ Len(Append(s, e)) = Len(s) + 1
         /\ \A i \in 1..Len(s) : Append(s, e)[i] = s[i]
         /\ Append(s, e)[Len(s) + 1] = e
  OBVIOUS

-----------------------------------------------------------------------------
(* Order: the pool hands connections out oldest first, each to one task.   *)

LEMMA OrderInit == Init => OrderInv
<1> SUFFICES ASSUME Init PROVE OrderInv
  OBVIOUS
<1>1. /\ connection_pool_ = <<>> /\ accepted = 0 /\ service_pc = "bind"
      /\ \A t \in Tasks : connection[t] = None
  BY DEF Init, PoolInit, HandlerInit
<1> QED
  BY <1>1 DEF OrderInv, PoolSorted, TakenInOrder, TakenOnce, Handed, None

(* The values OrderInv compares are numbers. *)
LEMMA OrderTypes ==
  ASSUME ControlInv
  PROVE  /\ connection_pool_ \in Seq(Connections)
         /\ Len(connection_pool_) \in Nat
         /\ connection \in [Tasks -> Connections \cup {None}]
         /\ \A t \in Tasks : connection[t] \in Nat
         /\ \A i \in 1..Len(connection_pool_) :
              connection_pool_[i] \in Connections /\ connection_pool_[i] \in Nat
         /\ accepted \in Nat /\ Handed \in Nat /\ Handed <= accepted
<1>1. /\ connection_pool_ \in Seq(Connections)
      /\ connection \in [Tasks -> Connections \cup {None}]
      /\ Connections \subseteq Nat /\ None = 0
  BY DEF ControlInv, TypeOK, PoolTypeOK, TaskTypeOK, Connections, None
<1>2. accepted \in Nat /\ launched \in Nat /\ launched <= accepted
  BY Counters DEF ControlInv, TypeOK
<1>3. service_pc = "add" => accepted >= 1
  BY <1>2 DEF ControlInv, LaunchInv
<1>4. \A t \in Tasks : connection[t] \in Nat
  BY <1>1 DEF Connections, None
<1>5. /\ Len(connection_pool_) \in Nat
      /\ \A i \in 1..Len(connection_pool_) :
           connection_pool_[i] \in Connections /\ connection_pool_[i] \in Nat
  <2>1. \A i \in 1..Len(connection_pool_) : connection_pool_[i] \in Connections
    BY <1>1, ElementOfSeq
  <2>2. Len(connection_pool_) \in Nat
    BY <1>1
  <2> QED BY <2>1, <2>2 DEF Connections
<1>6. Handed \in Nat /\ Handed <= accepted
  BY <1>2, <1>3 DEF Handed
<1> QED BY <1>1, <1>2, <1>4, <1>5, <1>6

LEMMA TakeOrder ==
  ASSUME ControlInv, OrderInv, NEW t \in Tasks, GetConnection(t)
  PROVE  OrderInv'
<1>1. CASE UNCHANGED <<connection_pool_, pc, connection>>
  <2>1. UNCHANGED <<connection_pool_, pc, connection, service_pc, accepted>>
    BY <1>1, GetCases
  <2> QED
    BY <2>1 DEF OrderInv, PoolSorted, TakenInOrder, TakenOnce, Handed
<1>2. CASE ~UNCHANGED <<connection_pool_, pc, connection>>
  <2> DEFINE q == connection_pool_
  <2>1. /\ q # <<>> /\ q' = Tail(q) /\ UNCHANGED <<service_pc, accepted>>
        /\ connection' = [connection EXCEPT ![t] = Head(q)]
        /\ pc' = [pc EXCEPT ![t] = "openRead"]
        /\ pc[t] = "getConnection"
    BY <1>2, GetCases
  <2>2. /\ Len(q) \in Nat \ {0} /\ Len(q') = Len(q) - 1
        /\ Head(q) = q[1] /\ q[1] \in Connections /\ q[1] \in Nat
        /\ \A i \in 1..Len(q') :
              /\ q'[i] = q[i + 1] /\ i + 1 \in 1..Len(q) /\ 1 < i + 1
    BY <2>1, OrderTypes, TailElements
  <2>3. Handed' = Handed
    BY <2>1 DEF Handed
  <2>4. pc \in [Tasks -> TaskPcs]
    BY DEF ControlInv, TypeOK, TaskTypeOK
  <2>5. PoolSorted'
    BY <2>2, <2>3 DEF OrderInv, PoolSorted
  <2>6. ASSUME NEW u \in Tasks
        PROVE  /\ connection'[u] <= Handed'
               /\ \A i \in 1..Len(q') : connection'[u] < q'[i]
               /\ pc'[u] \in {"unlaunched", "getConnection"} =>
                    connection'[u] = None
    <3>1. CASE u = t
      <4>1. connection'[u] = q[1] /\ pc'[u] = "openRead"
        BY <2>1, <2>2, <2>4, <3>1, OrderTypes
      <4> QED BY <2>2, <2>3, <4>1 DEF OrderInv, PoolSorted
    <3>2. CASE u # t
      <4>1. connection'[u] = connection[u] /\ pc'[u] = pc[u]
        BY <2>1, <2>4, <3>2, OrderTypes
      <4> QED BY <2>2, <2>3, <4>1 DEF OrderInv, TakenInOrder
    <3> QED BY <3>1, <3>2
  <2>7. TakenInOrder'
    BY <2>6 DEF TakenInOrder
  <2>8. \A u \in Tasks : connection[u] # q[1]
    BY <2>2, OrderTypes DEF OrderInv, TakenInOrder
  <2>9. TakenOnce'
    BY <2>1, <2>2, <2>8, OrderTypes DEF OrderInv, TakenOnce
  <2> QED BY <2>5, <2>7, <2>9 DEF OrderInv
<1> QED BY <1>1, <1>2

LEMMA AddOrder ==
  ASSUME ControlInv, OrderInv, AddConnection
  PROVE  OrderInv'
<1> DEFINE q == connection_pool_
<1>1. /\ q' = Append(q, accepted)
      /\ service_pc = "add" /\ service_pc' = "launch"
      /\ UNCHANGED <<pc, connection, accepted>>
  BY DEF AddConnection, addConnection, ServiceGoto, handlerVars
<1>2. accepted \in Connections
  BY <1>1, Counters
  DEF ControlInv, TypeOK, LaunchInv, Connections
<1>3. /\ Len(q) \in Nat /\ Len(q') = Len(q) + 1
      /\ \A i \in 1..Len(q) : q'[i] = q[i]
      /\ q'[Len(q) + 1] = accepted
  BY <1>1, <1>2, OrderTypes, AppendElements
<1>4. Handed' = accepted /\ Handed = accepted - 1
  BY <1>1 DEF Handed
<1>5. \A i \in 1..Len(q') : i \in 1..Len(q) \/ i = Len(q) + 1
  BY <1>3
<1>6. \A i \in 1..Len(q) : q[i] < accepted /\ q[i] \in Nat
  BY <1>4, OrderTypes DEF OrderInv, PoolSorted
<1>7. PoolSorted'
  <2>1. \A i \in 1..Len(q') : q'[i] <= Handed'
    BY <1>3, <1>4, <1>5, <1>6, OrderTypes
  <2>2. \A i, j \in 1..Len(q') : i < j => q'[i] < q'[j]
    BY <1>3, <1>5, <1>6, OrderTypes DEF OrderInv, PoolSorted
  <2> QED BY <2>1, <2>2 DEF PoolSorted
<1>8. ASSUME NEW t \in Tasks
      PROVE  /\ connection'[t] <= Handed'
             /\ \A i \in 1..Len(q') : connection'[t] < q'[i]
             /\ pc'[t] \in {"unlaunched", "getConnection"} =>
                  connection'[t] = None
  <2>1. connection[t] < accepted /\ connection[t] \in Nat
    BY <1>4, OrderTypes DEF OrderInv, TakenInOrder
  <2> QED
    BY <1>1, <1>3, <1>4, <1>5, <2>1, OrderTypes DEF OrderInv, TakenInOrder
<1>9. TakenInOrder' /\ TakenOnce'
  BY <1>1, <1>8 DEF OrderInv, TakenInOrder, TakenOnce
<1> QED BY <1>7, <1>9 DEF OrderInv

(* A step that neither adds nor takes.                                     *)
LEMMA KeepOrder ==
  ASSUME OrderInv, UNCHANGED <<connection_pool_, connection>>,
         Handed' = Handed,
         \A t \in Tasks : pc'[t] \in {"unlaunched", "getConnection"} =>
                            pc[t] \in {"unlaunched", "getConnection"}
  PROVE  OrderInv'
  BY DEF OrderInv, PoolSorted, TakenInOrder, TakenOnce

LEMMA OrderStep ==
  ASSUME ControlInv, OrderInv, [Next]_vars
  PROVE  OrderInv'
<1>1. ASSUME NEW t \in Tasks, Task(t) PROVE OrderInv'
  <2>1. CASE GetConnection(t)
    BY <2>1, TakeOrder
  <2>2. CASE ~GetConnection(t)
    BY <1>1, <2>2, OtherTaskSteps, KeepOrder DEF Handed
  <2> QED BY <2>1, <2>2
<1>2. CASE Service
  <2>1. CASE Accept
    <3>1. /\ UNCHANGED <<connection_pool_, connection, pc>>
          /\ service_pc = "accept"
          /\ \/ accepted' = accepted + 1 /\ service_pc' = "add"
             \/ accepted' = accepted /\ service_pc' = "cleanup"
      BY <2>1
      DEF Accept, AcceptClient, AcceptError, ServiceGoto, poolVars, handlerVars
    <3>2. Handed' = Handed
      BY <3>1, OrderTypes DEF Handed
    <3> QED BY <3>1, <3>2, KeepOrder
  <2>2. CASE AddConnection
    BY <2>2, AddOrder
  <2>3. CASE Launch
    <3>1. Handed' = Handed
      BY <2>3, LaunchEffect DEF Handed
    <3> QED BY <2>3, <3>1, LaunchEffect, KeepOrder
  <2>4. CASE Return
    <3>1. /\ connection_pool_' = <<>>
          /\ UNCHANGED <<pc, connection, accepted>>
          /\ service_pc # "add" /\ service_pc' # "add"
      BY <2>4 DEF Return, ServiceGoto, handlerVars
    <3>2. 1..Len(connection_pool_') = {} /\ Handed' = Handed
      BY <3>1 DEF Handed
    <3> QED
      BY <3>1, <3>2 DEF OrderInv, PoolSorted, TakenInOrder, TakenOnce
  <2>5. CASE ~Accept /\ ~AddConnection /\ ~Launch /\ ~Return
    BY <1>2, <2>5, QuietService, KeepOrder DEF Handed
  <2> QED BY <2>1, <2>2, <2>3, <2>4, <2>5
<1>3. CASE \/ Stop \/ Join \/ Connect
           \/ \E c \in Connections : Speak(c) \/ Reset(c)
           \/ UNCHANGED vars
  BY <1>3, QuietOutside, KeepOrder DEF Handed
<1> QED BY <1>1, <1>2, <1>3, StepCases

LEMMA OrderInvariant == Spec => []OrderInv
<1>1. ControlInv /\ OrderInv /\ [Next]_vars => OrderInv'
  BY OrderStep
<1> QED BY <1>1, OrderInit, ControlInvariant, PTL DEF Spec

(* A connection is served by one task only, and is out of the pool when a  *)
(* task has it, although tasks are not launched for a given connection but *)
(* take whichever is oldest.                                               *)
THEOREM ConnectionsHaveOneTask == Spec => []OneTaskPerConnection
<1>1. ControlInv /\ OrderInv => OneTaskPerConnection
  <2> SUFFICES ASSUME ControlInv, OrderInv,
                      NEW t \in Tasks, connection[t] # None
               PROVE  /\ connection[t] \notin Pooled
                      /\ \A u \in Tasks : connection[u] = connection[t] => u = t
    BY DEF OneTaskPerConnection
  <2>1. connection[t] \notin Pooled
    BY OrderTypes DEF OrderInv, TakenInOrder, Pooled
  <2> QED BY <2>1 DEF OrderInv, TakenOnce
<1> QED BY <1>1, ControlInvariant, OrderInvariant, PTL

-----------------------------------------------------------------------------
(* Answers: what a task writes goes to the client it read from.            *)

(* Through the descriptor of its connection a task reaches the client of   *)
(* that connection, or nobody.                                             *)
LEMMA PeerIsOwn ==
  ASSUME ControlInv, DescriptorOwnership,
         NEW t \in Tasks, connection[t] # None
  PROVE  /\ connection[t] \in Connections
         /\ ClientAt(SocketOf(t)) \in {None, connection[t]}
<1>1. SocketTypeOK /\ TaskTypeOK
  BY DEF ControlInv, TypeOK
<1>2. /\ connection[t] \in Connections
      /\ SocketOf(t) \in Fds \cup {NoFd}
  BY <1>1 DEF TaskTypeOK, SocketTypeOK, SocketOf
<1>3. CASE SocketOf(t) = NoFd
  BY <1>2, <1>3 DEF ClientAt, FileAt, Free
<1>4. CASE SocketOf(t) # NoFd
  <2>1. open_files[SocketOf(t)] = SocketFile(connection[t])
    BY <1>2, <1>4 DEF DescriptorOwnership, SocketOf
  <2> QED BY <1>2, <1>4, <2>1 DEF ClientAt, FileAt, SocketFile
<1> QED BY <1>3, <1>4

(* A write adds the next pieces of the task's own answer. *)
LEMMA WriteEffect ==
  ASSUME ControlInv, DescriptorOwnership, OrderInv, SentInv, NEW t \in Tasks,
         pc[t] = "send", WritePieces(t), bytesSent[t] < ResponseLength
  PROVE  LET c == connection[t]
         IN  /\ c \in Connections
             /\ \E n \in 1..(ResponseLength - Len(delivered[c])) :
                  /\ bytesSent' = [bytesSent EXCEPT ![t] = Len(delivered[c]) + n]
                  /\ Len(delivered'[c]) = Len(delivered[c]) + n
                  /\ \A i \in 1..Len(delivered[c]) :
                       delivered'[c][i] = delivered[c][i]
                  /\ \A i \in 1..Len(delivered'[c]) :
                       i > Len(delivered[c]) => delivered'[c][i] = <<c, i>>
                  /\ delivered' = [delivered EXCEPT ![c] = delivered'[c]]
<1> DEFINE c == connection[t]
           old == delivered[c]
<1>1. /\ TaskTypeOK /\ NetworkTypeOK
      /\ response[t] # None /\ connection[t] # None
  BY DEF ControlInv, TypeOK, TaskInv
<1>2. c \in Connections /\ response[t] = c /\ c # None
  BY <1>1, PeerIsOwn DEF SentInv
<1>3. ClientAt(SocketOf(t)) = c
  BY <1>1, PeerIsOwn DEF WritePieces, Peer
<1>4. /\ old \in Seq(Connections \X (1..ResponseLength))
      /\ Len(old) \in Nat /\ bytesSent[t] = Len(old)
      /\ ResponseLength \in Nat
  BY <1>1, <1>2, ResponseLengthAssumption DEF NetworkTypeOK, SentInv
<1>5. PICK n \in 1..(ResponseLength - Len(old)) :
        /\ Deliver(t, n)
        /\ bytesSent' = [bytesSent EXCEPT ![t] = bytesSent[t] + n]
  BY <1>4 DEF WritePieces
<1> DEFINE pieces == [i \in 1..n |-> <<c, Len(old) + i>>]
<1>6. delivered' = [delivered EXCEPT ![c] = old \o pieces]
  BY <1>2, <1>3, <1>4, <1>5 DEF Deliver
<1>7. delivered'[c] = old \o pieces
  BY <1>1, <1>2, <1>6 DEF NetworkTypeOK
<1>8. n \in Nat /\ Len(old) + n <= ResponseLength
  BY <1>4
<1>9. pieces \in Seq(Connections \X (1..ResponseLength)) /\ Len(pieces) = n
  BY <1>2, <1>4, <1>8
<1>10. /\ Len(old \o pieces) = Len(old) + n
       /\ \A i \in 1..Len(old) : (old \o pieces)[i] = old[i]
       /\ \A i \in 1..Len(old \o pieces) :
            i > Len(old) => (old \o pieces)[i] = <<c, i>>
  <2> HIDE DEF old, c
  <2>1. Len(old \o pieces) = Len(old) + n
    BY <1>4, <1>9, ConcatProperties
  <2>2. \A i \in 1..(Len(old) + n) :
          (old \o pieces)[i] = IF i <= Len(old) THEN old[i]
                                              ELSE pieces[i - Len(old)]
    BY <1>4, <1>9, ConcatProperties
  <2>3. \A i \in 1..(Len(old) + n) :
          i > Len(old) => pieces[i - Len(old)] = <<c, i>>
    BY <1>4, <1>8
  <2> QED BY <1>4, <1>8, <2>1, <2>2, <2>3
<1> QED BY <1>2, <1>4, <1>5, <1>6, <1>7, <1>10

LEMMA SentInit == Init => SentInv /\ AnswersReachTheirClient
  BY DEF Init, HandlerInit, SentInv, AnswersReachTheirClient, None

LEMMA KeepSent ==
  ASSUME SentInv, UNCHANGED <<connection, response, bytesSent, delivered>>
  PROVE  SentInv'
  BY DEF SentInv

LEMMA TakeSent ==
  ASSUME ControlInv, OrderInv, SentInv, NEW t \in Tasks, GetConnection(t)
  PROVE  SentInv'
<1>1. UNCHANGED <<response, bytesSent, delivered>>
  BY GetCases
<1>2. CASE UNCHANGED <<connection_pool_, pc, connection>>
  BY <1>1, <1>2, KeepSent
<1>3. CASE ~UNCHANGED <<connection_pool_, pc, connection>>
  <2> DEFINE c == Head(connection_pool_)
  <2>1. /\ connection' = [connection EXCEPT ![t] = c]
        /\ pc[t] = "getConnection" /\ connection_pool_ # <<>>
    BY <1>3, GetCases
  <2>2. c \in Connections /\ \A u \in Tasks : connection[u] # c
    <3>1. /\ c = connection_pool_[1] /\ 1 \in 1..Len(connection_pool_)
          /\ connection_pool_[1] \in Connections
      BY <2>1, OrderTypes, TailElements
    <3> QED BY <3>1, OrderTypes DEF OrderInv, TakenInOrder
  <2>3. delivered[c] = <<>> /\ c # None
    BY <2>2 DEF SentInv, Connections, None
  <2>4. connection[t] = None /\ bytesSent[t] = 0 /\ response[t] = None
    BY <2>1 DEF OrderInv, TakenInOrder, SentInv
  <2> HIDE DEF c
  <2>5. ASSUME NEW u \in Tasks
        PROVE  /\ response'[u] \in {None, connection'[u]}
               /\ connection'[u] = None => bytesSent'[u] = 0
               /\ connection'[u] # None =>
                    bytesSent'[u] = Len(delivered'[connection'[u]])
    BY <1>1, <2>1, <2>3, <2>4, OrderTypes DEF SentInv
  <2>6. ASSUME NEW d \in Connections, \A u \in Tasks : connection'[u] # d
        PROVE  delivered'[d] = <<>>
    <3>1. \A u \in Tasks : connection[u] # d
      BY <2>1, <2>4, <2>6, OrderTypes DEF Connections, None
    <3> QED BY <1>1, <3>1 DEF SentInv
  <2> QED BY <2>5, <2>6 DEF SentInv
<1> QED BY <1>2, <1>3

LEMMA ReadSent ==
  ASSUME ControlInv, DescriptorOwnership, OrderInv, SentInv,
         NEW t \in Tasks, ReadSocketData(t)
  PROVE  SentInv'
<1>1. TaskTypeOK /\ connection[t] # None
  BY DEF ControlInv, TypeOK, TaskInv, ReadSocketData
<1>2. UNCHANGED <<connection, bytesSent, delivered>>
  BY DEF ReadSocketData
<1>3. \/ response' = response
      \/ response' = [response EXCEPT ![t] = ClientAt(SocketOf(t))]
  BY DEF ReadSocketData
<1>4. \A u \in Tasks : response'[u] \in {None, connection[u]}
  BY <1>1, <1>3, PeerIsOwn DEF SentInv, TaskTypeOK
<1> QED BY <1>2, <1>4 DEF SentInv

(* The pieces of one answer are written by one task: the others' counts    *)
(* and the other clients' answers stay.                                    *)
LEMMA WriteSent ==
  ASSUME ControlInv, DescriptorOwnership, OrderInv, SentInv,
         AnswersReachTheirClient, NEW t \in Tasks, SendSome(t)
  PROVE  SentInv' /\ AnswersReachTheirClient'
<1>1. /\ pc[t] = "send" /\ UNCHANGED <<connection, response>>
      /\ TaskTypeOK /\ NetworkTypeOK /\ connection[t] # None
  BY DEF SendSome, ControlInv, TypeOK, TaskInv
<1>2. CASE UNCHANGED <<bytesSent, delivered>>
  BY <1>1, <1>2, KeepSent DEF AnswersReachTheirClient
<1>3. CASE ~UNCHANGED <<bytesSent, delivered>>
  <2> DEFINE c == connection[t]
  <2>1. WritePieces(t) /\ bytesSent[t] < ResponseLength
    BY <1>3 DEF SendSome, WriteFails, StopSending
  <2>2. c \in Connections
    BY <1>1, PeerIsOwn
  <2>3. PICK n \in 1..(ResponseLength - Len(delivered[c])) :
           /\ bytesSent' = [bytesSent EXCEPT ![t] = Len(delivered[c]) + n]
           /\ Len(delivered'[c]) = Len(delivered[c]) + n
           /\ \A i \in 1..Len(delivered[c]) :
                delivered'[c][i] = delivered[c][i]
           /\ \A i \in 1..Len(delivered'[c]) :
                i > Len(delivered[c]) => delivered'[c][i] = <<c, i>>
           /\ delivered' = [delivered EXCEPT ![c] = delivered'[c]]
    BY <1>1, <2>1, WriteEffect
  <2>4. \A d \in Connections : d # c => delivered'[d] = delivered[d]
    BY <1>1, <2>3 DEF NetworkTypeOK
  <2>5. \A u \in Tasks : connection[u] = c => u = t
    BY <1>1 DEF OrderInv, TakenOnce
  <2>6. ASSUME NEW u \in Tasks
        PROVE  /\ connection'[u] = None => bytesSent'[u] = 0
               /\ connection'[u] # None =>
                    bytesSent'[u] = Len(delivered'[connection'[u]])
    <3>1. CASE u = t
      BY <1>1, <2>3, <3>1 DEF TaskTypeOK
    <3>2. CASE u # t
      <4>1. bytesSent'[u] = bytesSent[u] /\ connection'[u] = connection[u]
        BY <1>1, <2>3, <3>2 DEF TaskTypeOK
      <4>2. connection[u] # None => connection[u] \in Connections
        BY <1>1 DEF TaskTypeOK
      <4> QED BY <2>4, <2>5, <3>2, <4>1, <4>2 DEF SentInv
    <3> QED BY <3>1, <3>2
  <2>7. ASSUME NEW d \in Connections, \A u \in Tasks : connection'[u] # d
        PROVE  delivered'[d] = <<>>
    BY <1>1, <2>4, <2>7 DEF SentInv
  <2>8. SentInv'
    BY <1>1, <2>6, <2>7 DEF SentInv
  <2>9. ASSUME NEW d \in Connections, NEW i \in 1..Len(delivered'[d])
        PROVE  delivered'[d][i] = <<d, i>>
    <3>1. CASE d # c
      BY <2>4, <2>9, <3>1 DEF AnswersReachTheirClient
    <3>2. CASE d = c /\ i > Len(delivered[c])
      BY <2>3, <2>9, <3>2
    <3>3. CASE d = c /\ ~(i > Len(delivered[c]))
      <4>1. Len(delivered[c]) \in Nat
        BY <1>1, <2>2 DEF NetworkTypeOK
      <4>2. i \in 1..Len(delivered[c])
        BY <2>3, <3>3, <4>1
      <4> QED BY <2>2, <2>3, <3>3, <4>2 DEF AnswersReachTheirClient
    <3> QED BY <3>1, <3>2, <3>3
  <2> QED BY <2>8, <2>9 DEF AnswersReachTheirClient
<1> QED BY <1>2, <1>3

LEMMA SentStep ==
  ASSUME ControlInv, DescriptorOwnership, OrderInv, SentInv,
         AnswersReachTheirClient, [Next]_vars
  PROVE  SentInv' /\ AnswersReachTheirClient'
<1>1. ASSUME UNCHANGED <<connection, response, bytesSent, delivered>>
      PROVE  SentInv' /\ AnswersReachTheirClient'
  BY <1>1, KeepSent DEF AnswersReachTheirClient
<1>2. ASSUME NEW t \in Tasks, Task(t)
      PROVE  SentInv' /\ AnswersReachTheirClient'
  <2>1. CASE GetConnection(t)
    <3>1. delivered' = delivered
      BY <2>1, GetCases
    <3> QED BY <2>1, <3>1, TakeSent DEF AnswersReachTheirClient
  <2>2. CASE ReadSocketData(t)
    <3>1. delivered' = delivered
      BY <2>2 DEF ReadSocketData
    <3> QED BY <2>2, <3>1, ReadSent DEF AnswersReachTheirClient
  <2>3. CASE SendSome(t)
    BY <2>3, WriteSent
  <2>4. CASE ~GetConnection(t) /\ ~ReadSocketData(t) /\ ~SendSome(t)
    BY <1>1, <1>2, <2>4
    DEF Task, HandleRequest, OpenReadPoll, WaitForSocketRead, Dispatch,
        OpenSendPoll, CloseSendPoll, CloseConnection, Release
  <2> QED BY <2>1, <2>2, <2>3, <2>4
<1>3. CASE Service
  <2>1. CASE Accept \/ AddConnection \/ Return
    BY <1>1, <2>1 DEF Accept, AddConnection, Return, handlerVars
  <2>2. CASE Launch
    BY <1>1, <2>2, LaunchEffect
  <2>3. CASE ~Accept /\ ~AddConnection /\ ~Launch /\ ~Return
    BY <1>1, <1>3, <2>3, QuietService
  <2> QED BY <2>1, <2>2, <2>3
<1>4. CASE \/ Stop \/ Join \/ Connect
           \/ \E c \in Connections : Speak(c) \/ Reset(c)
           \/ UNCHANGED vars
  BY <1>1, <1>4, QuietOutside
<1> QED BY <1>2, <1>3, <1>4, StepCases

LEMMA SentInvariant == Spec => [](SentInv /\ AnswersReachTheirClient)
<1>1. ControlInv /\ DescriptorInv /\ OrderInv /\ SentInv
        /\ AnswersReachTheirClient /\ [Next]_vars
        => SentInv' /\ AnswersReachTheirClient'
  BY SentStep DEF DescriptorInv
<1> QED
  BY <1>1, SentInit, ControlInvariant, DescriptorInvariant, OrderInvariant, PTL
  DEF Spec

(* Every client is sent the answer to its own request, each piece once and *)
(* in order, for any number of clients, descriptors and pieces: a task     *)
(* writes through a number that nobody else can have closed meanwhile.     *)
THEOREM AnswersAreDelivered == Spec => []AnswersReachTheirClient
  BY SentInvariant, PTL

-----------------------------------------------------------------------------
(* Sockets: open from accept() to the first close().                       *)

LEMMA OpenInit == Init => OpenInv
  BY DEF Init, PoolInit, HandlerInit, OpenInv, None

LEMMA KeepOpen ==
  ASSUME OpenInv, UNCHANGED <<connection_pool_, connection, socket_fd_>>,
         service_pc' = "add" => service_pc = "add" /\ accepted' = accepted,
         \A t \in Tasks : connection[t] # None =>
           (pc'[t] \in {"release", "ready"} <=> pc[t] \in {"release", "ready"})
  PROVE  OpenInv'
  BY DEF OpenInv

LEMMA TakeOpen ==
  ASSUME ControlInv, OrderInv, OpenInv, NEW t \in Tasks, GetConnection(t)
  PROVE  OpenInv'
<1>1. UNCHANGED <<socket_fd_, service_pc, accepted>>
  BY GetCases
<1>2. CASE UNCHANGED <<connection_pool_, pc, connection>>
  BY <1>1, <1>2, KeepOpen
<1>3. CASE ~UNCHANGED <<connection_pool_, pc, connection>>
  <2> DEFINE q == connection_pool_
  <2>1. /\ q # <<>> /\ q' = Tail(q)
        /\ connection' = [connection EXCEPT ![t] = Head(q)]
        /\ pc' = [pc EXCEPT ![t] = "openRead"]
    BY <1>3, GetCases
  <2>2. /\ Len(q) \in Nat \ {0} /\ Head(q) = q[1]
        /\ \A i \in 1..Len(q') : q'[i] = q[i + 1] /\ i + 1 \in 1..Len(q)
    BY <2>1, OrderTypes, TailElements
  <2>3. pc \in [Tasks -> TaskPcs]
    BY DEF ControlInv, TypeOK, TaskTypeOK
  <2>4. \A i \in 1..Len(q') : socket_fd_[q'[i]] # NoFd
    BY <2>2 DEF OpenInv
  <2>5. ASSUME NEW u \in Tasks, connection'[u] # None
        PROVE  pc'[u] \in {"release", "ready"} <=>
                 socket_fd_[connection'[u]] = NoFd
    <3>1. CASE u = t
      BY <2>1, <2>2, <2>3, <3>1, OrderTypes DEF OpenInv
    <3>2. CASE u # t
      BY <2>1, <2>3, <2>5, <3>2, OrderTypes DEF OpenInv
    <3> QED BY <3>1, <3>2
  <2> QED BY <1>1, <2>4, <2>5 DEF OpenInv
<1> QED BY <1>2, <1>3

(* Closing affects the connection of one task only: nobody else has it. *)
LEMMA CloseOpen ==
  ASSUME ControlInv, OrderInv, OpenInv, NEW t \in Tasks, CloseConnection(t),
         UNCHANGED <<poolVars, serviceVars>>
  PROVE  OpenInv'
<1> DEFINE c == connection[t]
<1>1. /\ pc[t] = "close" /\ pc' = [pc EXCEPT ![t] = "release"]
      /\ socket_fd_' = [socket_fd_ EXCEPT ![c] = NoFd]
      /\ UNCHANGED <<connection, connection_pool_, service_pc, accepted>>
  BY DEF CloseConnection, Close, Goto, poolVars, serviceVars
<1>2. /\ pc \in [Tasks -> TaskPcs]
      /\ socket_fd_ \in [Connections -> Fds \cup {NoFd}]
      /\ c # None /\ c \in Connections
  BY <1>1 DEF ControlInv, TypeOK, TaskTypeOK, SocketTypeOK, TaskInv
<1>3. \A i \in 1..Len(connection_pool_) : connection_pool_[i] # c
  BY OrderTypes DEF OrderInv, TakenInOrder
<1>4. service_pc = "add" => accepted # c
  BY OrderTypes DEF OrderInv, TakenInOrder, Handed
<1>5. \A i \in 1..Len(connection_pool_') :
        socket_fd_'[connection_pool_'[i]] # NoFd
  BY <1>1, <1>3, <1>2, OrderTypes DEF OpenInv
<1>6. service_pc' = "add" => socket_fd_'[accepted'] # NoFd
  <2>1. service_pc = "add" => accepted \in Connections
    BY Counters, OrderTypes DEF ControlInv, TypeOK, LaunchInv, Connections
  <2> QED BY <1>1, <1>2, <1>4, <2>1 DEF OpenInv
<1>7. ASSUME NEW u \in Tasks, connection'[u] # None
      PROVE  pc'[u] \in {"release", "ready"} <=>
               socket_fd_'[connection'[u]] = NoFd
  <2>1. CASE u = t
    BY <1>1, <1>2, <2>1
  <2>2. CASE u # t
    <3>1. connection[u] # c /\ connection[u] \in Connections
      BY <1>1, <1>2, <1>7, <2>2, OrderTypes DEF OrderInv, TakenOnce
    <3> QED BY <1>1, <1>2, <1>7, <2>2, <3>1 DEF OpenInv
  <2> QED BY <2>1, <2>2
<1> QED BY <1>5, <1>6, <1>7 DEF OpenInv

(* The second close(), in ~Socket, finds nothing to close. *)
LEMMA ReleaseIsIdle ==
  ASSUME ControlInv, OpenInv, NEW t \in Tasks, Release(t)
  PROVE  /\ UNCHANGED <<socket_fd_, connection_pool_, connection, service_pc,
                        accepted, delivered>>
         /\ pc[t] = "release" /\ pc' = [pc EXCEPT ![t] = "ready"]
<1>1. /\ socket_fd_' = [socket_fd_ EXCEPT ![connection[t]] = NoFd]
      /\ UNCHANGED <<connection_pool_, connection, service_pc, accepted,
                     delivered>>
      /\ pc[t] = "release" /\ pc' = [pc EXCEPT ![t] = "ready"]
  BY DEF Release, Close, Goto, poolVars, serviceVars
<1>2. connection[t] # None /\ socket_fd_ \in [Connections -> Fds \cup {NoFd}]
  BY <1>1 DEF ControlInv, TypeOK, SocketTypeOK, TaskInv
<1>3. socket_fd_[connection[t]] = NoFd
  BY <1>1, <1>2 DEF OpenInv
<1> QED BY <1>1, <1>2, <1>3

LEMMA OpenStep ==
  ASSUME ControlInv, OrderInv, OpenInv, [Next]_vars
  PROVE  OpenInv'
<1>1. /\ pc \in [Tasks -> TaskPcs]
      /\ socket_fd_ \in [Connections -> Fds \cup {NoFd}]
  BY DEF ControlInv, TypeOK, TaskTypeOK, SocketTypeOK
<1>2. ASSUME NEW t \in Tasks, Task(t) PROVE OpenInv'
  <2>1. CASE GetConnection(t)
    BY <2>1, TakeOpen
  <2>2. CASE CloseConnection(t) /\ UNCHANGED <<poolVars, serviceVars>>
    BY <2>2, CloseOpen
  <2>3. CASE Release(t)
    <3>1. \A u \in Tasks : pc'[u] \in {"release", "ready"} <=>
                             pc[u] \in {"release", "ready"}
      BY <1>1, <2>3, ReleaseIsIdle
    <3> QED BY <2>3, <3>1, ReleaseIsIdle, KeepOpen
  <2>4. CASE ~GetConnection(t) /\ ~CloseConnection(t) /\ ~Release(t)
    <3>1. /\ UNCHANGED <<connection_pool_, connection, socket_fd_, service_pc,
                         accepted>>
          /\ pc'[t] \notin {"release", "ready"}
          /\ \A u \in Tasks : u # t => pc'[u] = pc[u]
      BY <1>2, <2>4, TaskKeeps, OtherTaskSteps
    <3>2. pc[t] \notin {"release", "ready"}
      BY <1>2, <2>4
      DEF Task, HandleRequest, OpenReadPoll, WaitForSocketRead, ReadSocketData,
          Dispatch, OpenSendPoll, SendSome, CloseSendPoll
    <3> QED BY <3>1, <3>2, KeepOpen
  <2> QED BY <1>2, <2>1, <2>2, <2>3, <2>4 DEF Task, HandleRequest, GetConnection
<1>3. CASE Service
  <2>1. CASE Accept
    <3>1. /\ UNCHANGED <<connection_pool_, connection, pc>>
          /\ service_pc = "accept"
      BY <2>1 DEF Accept, poolVars, handlerVars
    <3>2. CASE AcceptError
      BY <3>1, <3>2, KeepOpen DEF AcceptError, ServiceGoto, socketVars
    <3>3. CASE AcceptClient
      <4>1. /\ accepted' = accepted + 1
            /\ socket_fd_' = [socket_fd_ EXCEPT ![accepted + 1] = NewFd]
            /\ FreeFds # {} /\ arrived > accepted
        BY <3>3 DEF AcceptClient, CanAccept, Backlog
      <4>2. NewFd # NoFd
        <5>1. \E m \in FreeFds : \A n \in FreeFds : m <= n
          BY <4>1, LeastNatural, FdsAssumption DEF FreeFds
        <5>2. NewFd \in FreeFds
          BY <4>1, <5>1, Zenon DEF NewFd
        <5> QED BY <5>2, NoFdIsNoFd DEF FreeFds
      <4>3. accepted + 1 \in Connections
        BY <4>1, Counters DEF ControlInv, TypeOK, Connections
      <4>4. Handed = accepted
        BY <3>1 DEF Handed
      <4>5. \A i \in 1..Len(connection_pool_) :
              connection_pool_[i] # accepted + 1
        BY <4>4, OrderTypes DEF OrderInv, PoolSorted
      <4>6. \A u \in Tasks : connection[u] # accepted + 1
        BY <4>4, OrderTypes DEF OrderInv, TakenInOrder
      <4> HIDE DEF NewFd
      <4>7. socket_fd_'[accepted'] # NoFd
        BY <1>1, <4>1, <4>2, <4>3
      <4>8. \A d \in Connections : d # accepted + 1 =>
              socket_fd_'[d] = socket_fd_[d]
        BY <1>1, <4>1
      <4>9. \A i \in 1..Len(connection_pool_') :
              socket_fd_'[connection_pool_'[i]] # NoFd
        BY <3>1, <4>5, <4>8, OrderTypes DEF OpenInv
      <4>10. \A u \in Tasks : connection'[u] # None =>
               (pc'[u] \in {"release", "ready"} <=>
                  socket_fd_'[connection'[u]] = NoFd)
        BY <3>1, <4>6, <4>8, OrderTypes DEF OpenInv
      <4> QED BY <4>7, <4>9, <4>10 DEF OpenInv
    <3> QED BY <2>1, <3>2, <3>3 DEF Accept
  <2>2. CASE AddConnection
    <3> DEFINE q == connection_pool_
    <3>1. /\ q' = Append(q, accepted)
          /\ service_pc = "add" /\ service_pc' = "launch"
          /\ UNCHANGED <<pc, connection, socket_fd_>>
      BY <2>2 DEF AddConnection, addConnection, ServiceGoto, handlerVars,
        socketVars
    <3>2. accepted \in Connections
      BY <3>1, Counters DEF ControlInv, TypeOK, LaunchInv, Connections
    <3>3. /\ Len(q) \in Nat /\ Len(q') = Len(q) + 1
          /\ \A i \in 1..Len(q) : q'[i] = q[i]
          /\ q'[Len(q) + 1] = accepted
      BY <3>1, <3>2, OrderTypes, AppendElements
    <3>4. \A i \in 1..Len(q') : socket_fd_[q'[i]] # NoFd
      BY <3>1, <3>3 DEF OpenInv
    <3> QED BY <3>1, <3>4 DEF OpenInv
  <2>3. CASE Launch
    BY <2>3, LaunchEffect, KeepOpen
  <2>4. CASE Return
    <3>1. /\ connection_pool_' = <<>> /\ service_pc' = "returned"
          /\ UNCHANGED <<pc, connection>>
          /\ socket_fd_' = [c \in Connections |->
               IF c \in Pooled THEN NoFd ELSE socket_fd_[c]]
      BY <2>4 DEF Return, ServiceGoto, handlerVars
    <3>2. \A u \in Tasks : connection[u] # None =>
            connection[u] \notin Pooled /\ connection[u] \in Connections
      BY OrderTypes DEF OrderInv, TakenInOrder, Pooled
    <3>3. \A u \in Tasks : connection[u] # None =>
            socket_fd_'[connection[u]] = socket_fd_[connection[u]]
      BY <3>1, <3>2
    <3> QED BY <3>1, <3>3 DEF OpenInv
  <2>5. CASE ~Accept /\ ~AddConnection /\ ~Launch /\ ~Return
    BY <1>3, <2>5, QuietService, KeepOpen
  <2> QED BY <2>1, <2>2, <2>3, <2>4, <2>5
<1>4. CASE \/ Stop \/ Join \/ Connect
           \/ \E c \in Connections : Speak(c) \/ Reset(c)
           \/ UNCHANGED vars
  BY <1>4, QuietOutside, KeepOpen
<1> QED BY <1>2, <1>3, <1>4, StepCases

LEMMA OpenInvariant == Spec => []OpenInv
<1>1. ControlInv /\ OrderInv /\ OpenInv /\ [Next]_vars => OpenInv'
  BY OpenStep
<1> QED
  BY <1>1, OpenInit, ControlInvariant, OrderInvariant, PTL DEF Spec

-----------------------------------------------------------------------------
(* The contract: the states and steps of ServiceContract the server maps   *)
(* to.                                                                     *)

Queued(c) == c \in Pooled \/ (service_pc = "add" /\ c = accepted)

Life == [c \in Connections |->
           CASE c > accepted -> "absent"
             [] c \in Pooled \/ (service_pc = "add" /\ c = accepted) ->
                  "queued"
             [] OTHER -> IF socket_fd_[c] # NoFd THEN "serving" ELSE "closed"]
Answered == [c \in Connections |-> Len(delivered[c])]
Stopped == service_pc = "returned"

(* A connection's life, by cases. (CASE chooses among the guards that      *)
(* hold: that no connection is queued before it is accepted is OrderInv.)  *)
LEMMA LifeIs ==
  ASSUME NEW c \in Connections
  PROVE  /\ c > accepted /\ ~Queued(c) => Life[c] = "absent"
         /\ ~(c > accepted) /\ Queued(c) => Life[c] = "queued"
         /\ ~(c > accepted) /\ ~Queued(c) /\ socket_fd_[c] # NoFd =>
              Life[c] = "serving"
         /\ ~(c > accepted) /\ ~Queued(c) /\ socket_fd_[c] = NoFd =>
              Life[c] = "closed"
<1>1. ASSUME c > accepted, ~Queued(c) PROVE Life[c] = "absent"
  BY <1>1 DEF Life, Queued
<1>2. ASSUME ~(c > accepted), Queued(c) PROVE Life[c] = "queued"
  BY <1>2 DEF Life, Queued
<1>3. ASSUME ~(c > accepted), ~Queued(c)
      PROVE  Life[c] = IF socket_fd_[c] # NoFd THEN "serving" ELSE "closed"
  BY <1>3 DEF Life, Queued
<1> QED BY <1>1, <1>2, <1>3

LEMMA LifeIsNext ==
  ASSUME NEW c \in Connections
  PROVE  /\ c > accepted' /\ ~Queued(c)' => Life'[c] = "absent"
         /\ ~(c > accepted') /\ Queued(c)' => Life'[c] = "queued"
         /\ ~(c > accepted') /\ ~Queued(c)' /\ socket_fd_'[c] # NoFd =>
              Life'[c] = "serving"
         /\ ~(c > accepted') /\ ~Queued(c)' /\ socket_fd_'[c] = NoFd =>
              Life'[c] = "closed"
<1>1. ASSUME c > accepted', ~Queued(c)' PROVE Life'[c] = "absent"
  BY <1>1 DEF Life, Queued
<1>2. ASSUME ~(c > accepted'), Queued(c)' PROVE Life'[c] = "queued"
  BY <1>2 DEF Life, Queued
<1>3. ASSUME ~(c > accepted'), ~Queued(c)'
      PROVE  Life'[c] = IF socket_fd_'[c] # NoFd THEN "serving" ELSE "closed"
  BY <1>3 DEF Life, Queued
<1> QED BY <1>1, <1>2, <1>3

LEMMA LifeType ==
  /\ Life \in [Connections -> {"absent", "queued", "serving", "closed"}]
  /\ Life' \in [Connections -> {"absent", "queued", "serving", "closed"}]
  BY DEF Life

(* The steps of the contract, said of Life, Answered and Stopped. *)
LEMMA ContractQueue ==
  ASSUME NEW c \in Connections, ~Stopped, Life[c] = "absent",
         \A d \in Connections : d < c => Life[d] # "absent",
         Life' = [Life EXCEPT ![c] = "queued"],
         UNCHANGED <<Answered, Stopped>>
  PROVE  Contract!Next
<1>1. Contract!Queue(c)
  BY DEF Contract!Queue, Contract!Become, Life, Answered, Stopped
<1> QED BY <1>1 DEF Contract!Next

LEMMA ContractServe ==
  ASSUME NEW c \in Connections, Life[c] = "queued",
         \A d \in Connections : d < c => Life[d] # "queued",
         Life' = [Life EXCEPT ![c] = "serving"],
         UNCHANGED <<Answered, Stopped>>
  PROVE  Contract!Next
<1>1. Contract!Serve(c)
  BY DEF Contract!Serve, Contract!Become, Life, Answered, Stopped
<1> QED BY <1>1 DEF Contract!Next

LEMMA ContractAnswer ==
  ASSUME NEW c \in Connections, Life[c] = "serving",
         NEW n \in (Answered[c] + 1)..ResponseLength,
         Answered' = [Answered EXCEPT ![c] = n],
         UNCHANGED <<Life, Stopped>>
  PROVE  Contract!Next
<1>1. Contract!Answer(c)
  BY DEF Contract!Answer, Life, Answered, Stopped
<1> QED BY <1>1 DEF Contract!Next

LEMMA ContractClose ==
  ASSUME NEW c \in Connections, Life[c] = "serving",
         Life' = [Life EXCEPT ![c] = "closed"],
         UNCHANGED <<Answered, Stopped>>
  PROVE  Contract!Next
<1>1. Contract!Close(c)
  BY DEF Contract!Close, Contract!Become, Life, Answered, Stopped
<1> QED BY <1>1 DEF Contract!Next

LEMMA ContractShutdown ==
  ASSUME ~Stopped, \A c \in Connections : Life[c] # "serving", Stopped',
         Life' = [c \in Connections |->
                    IF Life[c] = "queued" THEN "closed" ELSE Life[c]],
         UNCHANGED Answered
  PROVE  Contract!Next
<1>1. Contract!Shutdown
  BY DEF Contract!Shutdown, Life, Answered, Stopped
<1> QED BY <1>1 DEF Contract!Next

LEMMA ContractInit == Init => Contract!Init
<1> SUFFICES ASSUME Init PROVE Contract!Init
  OBVIOUS
<1>1. /\ accepted = 0 /\ service_pc = "bind" /\ connection_pool_ = <<>>
      /\ \A c \in Connections : delivered[c] = <<>>
  BY DEF Init, PoolInit, HandlerInit
<1>2. Life = [c \in Connections |-> "absent"]
  <2>1. \A c \in Connections : c > accepted /\ ~Queued(c)
    BY <1>1 DEF Connections, Queued, Pooled
  <2> QED BY <2>1, LifeIs, LifeType
<1>3. Answered = [c \in Connections |-> 0] /\ Stopped = FALSE
  BY <1>1 DEF Answered, Stopped
<1> QED BY <1>2, <1>3 DEF Contract!Init, Life, Answered, Stopped

LEMMA ContractStutter ==
  ASSUME UNCHANGED <<Life, Answered, Stopped>>
  PROVE  UNCHANGED Contract!vars
  BY DEF Contract!vars, Life, Answered, Stopped

LEMMA QueuedAreAccepted ==
  ASSUME ControlInv, OrderInv, NEW c \in Connections, Queued(c)
  PROVE  ~(c > accepted)
  BY OrderTypes DEF Queued, Pooled, OrderInv, PoolSorted, Connections

(* Everything the life of a connection depends on. *)
LEMMA LifeSame ==
  ASSUME ControlInv, OrderInv, ControlInv', OrderInv', NEW c \in Connections,
         c > accepted' <=> c > accepted,
         Queued(c)' <=> Queued(c),
         socket_fd_'[c] = NoFd <=> socket_fd_[c] = NoFd
  PROVE  Life'[c] = Life[c]
<1>1. Queued(c) => ~(c > accepted)
  BY QueuedAreAccepted
<1> QED BY <1>1, LifeIs, LifeIsNext

LEMMA LifeChange ==
  ASSUME NEW c \in Connections,
         \A d \in Connections : d # c => Life'[d] = Life[d]
  PROVE  Life' = [Life EXCEPT ![c] = Life'[c]]
  BY LifeType

LEMMA KeepContract ==
  ASSUME ControlInv, OrderInv, ControlInv', OrderInv',
         UNCHANGED <<connection_pool_, accepted, delivered>>,
         service_pc' = "add" <=> service_pc = "add",
         service_pc' = "returned" <=> service_pc = "returned",
         \A c \in Connections :
           socket_fd_'[c] = NoFd <=> socket_fd_[c] = NoFd
  PROVE  UNCHANGED Contract!vars
<1>1. \A c \in Connections : Queued(c)' <=> Queued(c)
  BY DEF Queued, Pooled
<1>2. \A c \in Connections : Life'[c] = Life[c]
  BY <1>1, LifeSame
<1>3. Life' = Life
  BY <1>2, LifeType
<1>4. Answered' = Answered /\ Stopped' = Stopped
  BY DEF Answered, Stopped
<1> QED BY <1>3, <1>4, ContractStutter

(* Taking a connection from the pool starts its service. *)
LEMMA TakeServes ==
  ASSUME ControlInv, OrderInv, OpenInv, ControlInv', OrderInv',
         NEW t \in Tasks, GetConnection(t)
  PROVE  [Contract!Next]_(Contract!vars)
<1>1. /\ UNCHANGED <<socket_fd_, service_pc, accepted, delivered>>
      /\ UNCHANGED <<Answered, Stopped>>
  BY GetCases DEF Answered, Stopped
<1>2. CASE UNCHANGED <<connection_pool_, pc, connection>>
  BY <1>1, <1>2, KeepContract
<1>3. CASE ~UNCHANGED <<connection_pool_, pc, connection>>
  <2> DEFINE q == connection_pool_
  <2>1. q # <<>> /\ q' = Tail(q)
    BY <1>3, GetCases
  <2>2. PICK c \in Connections : c = Head(q)
    BY <2>1, OrderTypes, TailElements
  <2>3. /\ Len(q) \in Nat \ {0} /\ c = q[1] /\ c \in Connections
        /\ Len(q') = Len(q) - 1
        /\ \A i \in 1..Len(q') : q'[i] = q[i + 1]
    BY <2>1, <2>2, OrderTypes, TailElements
  <2>4. c \in Pooled /\ socket_fd_[c] # NoFd
    BY <2>3 DEF Pooled, OpenInv
  <2>5. \A i \in 2..Len(q) : q[i] > c
    BY <2>3, OrderTypes DEF OrderInv, PoolSorted
  <2>6. service_pc = "add" => accepted > c
    BY <2>3, OrderTypes DEF OrderInv, PoolSorted, Handed
  <2>7. \A d \in Connections : d \in Pooled' <=> d \in Pooled /\ d # c
    <3>1. ASSUME NEW i \in 1..Len(q') PROVE q'[i] \in Pooled /\ q'[i] # c
      <4>1. i + 1 \in 2..Len(q) /\ q'[i] = q[i + 1]
        BY <2>3
      <4>2. q[i + 1] > c /\ c \in Nat
        BY <2>3, <2>5, <4>1, OrderTypes
      <4> QED BY <2>3, <4>1, <4>2, OrderTypes DEF Pooled
    <3>2. ASSUME NEW i \in 1..Len(q), q[i] # c PROVE q[i] \in Pooled'
      <4>1. i - 1 \in 1..Len(q') /\ q'[i - 1] = q[i]
        BY <2>3, <3>2
      <4> QED BY <4>1 DEF Pooled
    <3>3. \A d \in Pooled' : d \in Pooled /\ d # c
      BY <3>1 DEF Pooled
    <3>4. \A d \in Pooled : d # c => d \in Pooled'
      BY <3>2 DEF Pooled
    <3> QED BY <3>3, <3>4
  <2>8. Life[c] = "queued"
    BY <2>3, <2>4, LifeIs, QueuedAreAccepted DEF Queued
  <2>9. ASSUME NEW d \in Connections, d < c PROVE Life[d] # "queued"
    <3>1. ~Queued(d)
      <4>1. \A i \in 1..Len(q) : q[i] # d
        BY <2>3, <2>5, <2>9, OrderTypes DEF Connections
      <4> QED BY <2>6, <2>9, <2>3, <4>1, OrderTypes
              DEF Queued, Pooled, Connections
    <3> QED BY <3>1, LifeIs
  <2>10. Life'[c] = "serving"
    <3>1. ~Queued(c)'
      BY <1>1, <2>3, <2>6, <2>7, OrderTypes DEF Queued
    <3>2. ~(c > accepted)
      BY <2>3, <2>4, QueuedAreAccepted DEF Queued
    <3> QED BY <1>1, <2>3, <2>4, <3>1, <3>2, LifeIsNext
  <2>11. \A d \in Connections : d # c => Life'[d] = Life[d]
    BY <1>1, <2>7, LifeSame DEF Queued
  <2> QED BY <1>1, <2>3, <2>8, <2>9, <2>10, <2>11, LifeChange, ContractServe
<1> QED BY <1>2, <1>3

(* A write answers a client that is being served. *)
LEMMA WriteAnswers ==
  ASSUME ControlInv, DescriptorOwnership, OrderInv, SentInv, OpenInv,
         ControlInv', OrderInv', NEW t \in Tasks, SendSome(t),
         UNCHANGED <<poolVars, serviceVars>>
  PROVE  [Contract!Next]_(Contract!vars)
<1> DEFINE c == connection[t]
<1>1. /\ pc[t] = "send"
      /\ UNCHANGED <<connection_pool_, service_pc, accepted, socket_fd_>>
      /\ NetworkTypeOK /\ c # None
  BY DEF SendSome, ControlInv, TypeOK, TaskInv, poolVars, serviceVars,
    socketVars
<1>2. CASE UNCHANGED delivered
  BY <1>1, <1>2, KeepContract
<1>3. CASE ~UNCHANGED delivered
  <2>1. WritePieces(t) /\ bytesSent[t] < ResponseLength
    BY <1>3 DEF SendSome, WriteFails, StopSending
  <2>2. c \in Connections
    BY <1>1, PeerIsOwn
  <2>3. PICK n \in 1..(ResponseLength - Len(delivered[c])) :
           /\ Len(delivered'[c]) = Len(delivered[c]) + n
           /\ delivered' = [delivered EXCEPT ![c] = delivered'[c]]
    BY <1>1, <2>1, WriteEffect
  <2>4. ~Queued(c) /\ ~(c > accepted) /\ socket_fd_[c] # NoFd
    <3>1. c \notin Pooled
      BY OrderTypes DEF OrderInv, TakenInOrder, Pooled
    <3>2. c <= Handed /\ c \in Nat
      BY OrderTypes DEF OrderInv, TakenInOrder
    <3>3. c <= accepted /\ (service_pc = "add" => c < accepted)
      BY <3>2, OrderTypes DEF Handed
    <3>4. socket_fd_[c] # NoFd
      BY <1>1 DEF OpenInv
    <3> QED BY <3>1, <3>2, <3>3, <3>4, OrderTypes DEF Queued
  <2>5. Life[c] = "serving"
    BY <2>2, <2>4, LifeIs
  <2>6. UNCHANGED <<Life, Stopped>>
    BY <1>1 DEF Life, Stopped, Pooled
  <2> HIDE DEF c
  <2>7. Len(delivered[c]) \in Nat /\ ResponseLength \in Nat
    BY <1>1, <2>2, ResponseLengthAssumption DEF NetworkTypeOK
  <2>8. /\ Len(delivered[c]) + n \in (Answered[c] + 1)..ResponseLength
    BY <2>2, <2>7 DEF Answered
  <2>9. Answered' = [Answered EXCEPT ![c] = Len(delivered[c]) + n]
    <3>1. \A d \in Connections : d # c => delivered'[d] = delivered[d]
      BY <1>1, <2>3 DEF NetworkTypeOK
    <3> QED BY <2>2, <2>3, <3>1 DEF Answered
  <2> QED BY <2>2, <2>5, <2>6, <2>8, <2>9, ContractAnswer
<1> QED BY <1>2, <1>3

(* The first close() ends a connection's service. *)
LEMMA CloseEnds ==
  ASSUME ControlInv, OrderInv, OpenInv, ControlInv', OrderInv',
         NEW t \in Tasks, CloseConnection(t), UNCHANGED <<poolVars, serviceVars>>
  PROVE  Contract!Next
<1> DEFINE c == connection[t]
<1>1. /\ pc[t] = "close" /\ socket_fd_' = [socket_fd_ EXCEPT ![c] = NoFd]
      /\ UNCHANGED <<connection_pool_, service_pc, accepted, delivered>>
  BY DEF CloseConnection, Close, poolVars, serviceVars
<1>2. /\ socket_fd_ \in [Connections -> Fds \cup {NoFd}]
      /\ c # None /\ c \in Connections
  BY <1>1, OrderTypes DEF ControlInv, TypeOK, SocketTypeOK, TaskInv
<1>3. ~Queued(c) /\ ~(c > accepted) /\ socket_fd_[c] # NoFd
  <2>1. c \notin Pooled
    BY OrderTypes DEF OrderInv, TakenInOrder, Pooled
  <2>2. c <= Handed /\ c \in Nat
    BY OrderTypes DEF OrderInv, TakenInOrder
  <2>3. c <= accepted /\ (service_pc = "add" => c < accepted)
    BY <2>2, OrderTypes DEF Handed
  <2>4. socket_fd_[c] # NoFd
    BY <1>1, <1>2 DEF OpenInv
  <2> QED BY <2>1, <2>2, <2>3, <2>4, OrderTypes DEF Queued
<1> HIDE DEF c
<1>4. \A d \in Connections : Queued(d)' <=> Queued(d)
  BY <1>1 DEF Queued, Pooled
<1>5. Life[c] = "serving"
  BY <1>2, <1>3, LifeIs
<1>6. Life'[c] = "closed"
  BY <1>1, <1>2, <1>3, <1>4, LifeIsNext
<1>7. \A d \in Connections : d # c => Life'[d] = Life[d]
  BY <1>1, <1>2, <1>4, LifeSame
<1>8. UNCHANGED <<Answered, Stopped>>
  BY <1>1 DEF Answered, Stopped
<1> QED BY <1>2, <1>5, <1>6, <1>7, <1>8, LifeChange, ContractClose

(* accept() queues the next client, in the order they connected. *)
LEMMA AcceptQueues ==
  ASSUME ControlInv, OrderInv, ControlInv', OrderInv', Accept
  PROVE  [Contract!Next]_(Contract!vars)
<1>1. /\ service_pc = "accept"
      /\ UNCHANGED <<connection_pool_, connection, delivered>>
  BY DEF Accept, poolVars, handlerVars
<1>2. CASE AcceptError
  BY <1>1, <1>2, KeepContract DEF AcceptError, ServiceGoto, socketVars
<1>3. CASE AcceptClient
  <2>1. /\ accepted' = accepted + 1 /\ service_pc' = "add"
        /\ socket_fd_' = [socket_fd_ EXCEPT ![accepted + 1] = NewFd]
        /\ arrived > accepted
    BY <1>3 DEF AcceptClient, CanAccept, Backlog, ServiceGoto
  <2>2. accepted \in Nat /\ accepted + 1 \in Connections
    BY <2>1, Counters DEF ControlInv, TypeOK, Connections
  <2>3. PICK c \in Connections : c = accepted + 1
    BY <2>2
  <2>4. ~Queued(c) /\ Queued(c)' /\ c > accepted /\ ~(c > accepted')
    <3>1. c > accepted /\ ~(c > accepted') /\ Queued(c)'
      BY <2>1, <2>2, <2>3 DEF Queued
    <3> QED BY <3>1, QueuedAreAccepted
  <2>5. Life[c] = "absent" /\ Life'[c] = "queued"
    BY <2>4, LifeIs, LifeIsNext
  <2>6. ASSUME NEW d \in Connections, d # c
        PROVE  /\ d > accepted' <=> d > accepted
               /\ Queued(d)' <=> Queued(d)
               /\ socket_fd_'[d] = socket_fd_[d]
    <3>1. d > accepted' <=> d > accepted
      BY <2>1, <2>2, <2>3, <2>6 DEF Connections
    <3>2. Queued(d)' <=> Queued(d)
      BY <1>1, <2>1, <2>3, <2>6 DEF Queued, Pooled
    <3>3. socket_fd_'[d] = socket_fd_[d]
      BY <2>1, <2>3, <2>6 DEF ControlInv, TypeOK, SocketTypeOK
    <3> QED BY <3>1, <3>2, <3>3
  <2>7. \A d \in Connections : d # c => Life'[d] = Life[d]
    BY <2>6, LifeSame
  <2>8. ASSUME NEW d \in Connections, d < c PROVE Life[d] # "absent"
    <3>1. ~(d > accepted)
      BY <2>2, <2>3, <2>8 DEF Connections
    <3> QED BY <3>1, LifeIs
  <2>9. ~Stopped /\ UNCHANGED <<Answered, Stopped>>
    BY <1>1, <2>1 DEF Stopped, Answered
  <2> QED BY <2>5, <2>7, <2>8, <2>9, LifeChange, ContractQueue
<1> QED BY <1>1, <1>2, <1>3 DEF Accept

(* When run() returns nobody is being served: every task is done, and what *)
(* is left in the pool is closed with it.                                  *)
LEMMA ReturnShutsDown ==
  ASSUME ControlInv, AcceptedInv, FuturesInv, HeldInv, OrderInv, ControlInv',
         OrderInv', Return
  PROVE  Contract!Next
<1>1. /\ service_pc = "drain" /\ service_pc' = "returned"
      /\ connection_pool_' = <<>> /\ UNCHANGED <<accepted, delivered>>
      /\ socket_fd_' = [c \in Connections |->
           IF c \in Pooled THEN NoFd ELSE socket_fd_[c]]
  BY DEF Return, ServiceGoto, handlerVars
<1>2. \A c \in Connections : socket_fd_[c] # NoFd => c \in Pooled
  BY DEF Return, FuturesInv, HeldInv, Holds
<1>3. ASSUME NEW c \in Connections
      PROVE  /\ Queued(c) <=> c \in Pooled
             /\ ~Queued(c)'
             /\ socket_fd_'[c] = NoFd
             /\ c > accepted => ~Queued(c)
  BY <1>1, <1>2, QueuedAreAccepted DEF Queued, Pooled
<1>4. ASSUME NEW c \in Connections
      PROVE  /\ Life[c] # "serving"
             /\ Life'[c] = IF Life[c] = "queued" THEN "closed" ELSE Life[c]
  BY <1>1, <1>2, <1>3, LifeIs, LifeIsNext
<1>5. Life' = [c \in Connections |->
                 IF Life[c] = "queued" THEN "closed" ELSE Life[c]]
  BY <1>4, LifeType
<1>6. ~Stopped /\ Stopped' /\ UNCHANGED Answered
  BY <1>1 DEF Stopped, Answered
<1> QED BY <1>4, <1>5, <1>6, ContractShutdown

(* run() may also return before it accepts anybody. *)
LEMMA LookupContract ==
  ASSUME ControlInv, FuturesInv, OrderInv, ControlInv', OrderInv',
         LookupHandler
  PROVE  [Contract!Next]_(Contract!vars)
<1>1. /\ service_pc = "lookup" /\ service_pc' \in {"loop", "returned"}
      /\ UNCHANGED <<connection_pool_, accepted, delivered, socket_fd_>>
  BY DEF LookupHandler, ServiceGoto, poolVars, socketVars, handlerVars
<1>2. CASE service_pc' = "loop"
  BY <1>1, <1>2, KeepContract
<1>3. CASE service_pc' = "returned"
  <2>1. ASSUME NEW c \in Connections
        PROVE  Life[c] = "absent" /\ Life'[c] = "absent"
    <3>1. c > accepted /\ c > accepted'
      BY <1>1 DEF FuturesInv, Connections
    <3>2. ~Queued(c)
      BY <3>1, QueuedAreAccepted
    <3>3. ~Queued(c)'
      BY <1>1, <1>3, <3>2 DEF Queued, Pooled
    <3> QED BY <3>1, <3>2, <3>3, LifeIs, LifeIsNext
  <2>2. Life' = [c \in Connections |->
                   IF Life[c] = "queued" THEN "closed" ELSE Life[c]]
    BY <2>1, LifeType
  <2>3. ~Stopped /\ Stopped' /\ UNCHANGED Answered
    BY <1>1, <1>3 DEF Stopped, Answered
  <2> QED BY <2>1, <2>2, <2>3, ContractShutdown
<1> QED BY <1>1, <1>2, <1>3

LEMMA ContractStep ==
  ASSUME ControlInv, DescriptorInv, FuturesInv, HeldInv, OrderInv, SentInv,
         OpenInv, ControlInv', OrderInv', [Next]_vars
  PROVE  [Contract!Next]_(Contract!vars)
<1>1. ASSUME NEW t \in Tasks, Task(t)
      PROVE  [Contract!Next]_(Contract!vars)
  <2>1. CASE GetConnection(t)
    BY <2>1, TakeServes
  <2>2. CASE Release(t)
    BY <2>2, ReleaseIsIdle, KeepContract
  <2>3. CASE HandleRequest(t) /\ UNCHANGED <<poolVars, serviceVars>>
    <3>1. CASE SendSome(t)
      BY <2>3, <3>1, WriteAnswers DEF DescriptorInv
    <3>2. CASE CloseConnection(t)
      BY <2>3, <3>2, CloseEnds
    <3>3. CASE ~SendSome(t) /\ ~CloseConnection(t)
      <4>1. UNCHANGED <<socket_fd_, delivered>>
        BY <2>3, <3>3
        DEF HandleRequest, OpenReadPoll, WaitForSocketRead, ReadSocketData,
            Dispatch, OpenSendPoll, CloseSendPoll, socketVars
      <4> QED BY <2>3, <4>1, KeepContract DEF poolVars, serviceVars
    <3> QED BY <3>1, <3>2, <3>3
  <2> QED BY <1>1, <2>1, <2>2, <2>3 DEF Task
<1>2. CASE Service
  <2>1. CASE Accept
    BY <2>1, AcceptQueues
  <2>2. CASE AddConnection
    <3>1. /\ connection_pool_' = Append(connection_pool_, accepted)
          /\ service_pc = "add" /\ service_pc' = "launch"
          /\ UNCHANGED <<accepted, delivered, socket_fd_>>
      BY <2>2 DEF AddConnection, addConnection, ServiceGoto, handlerVars,
        socketVars
    <3>2. accepted \in Connections
      BY <3>1, Counters DEF ControlInv, TypeOK, LaunchInv, Connections
    <3>3. Pooled' = Pooled \cup {accepted}
      <4> DEFINE q == connection_pool_
      <4>1. /\ Len(q) \in Nat /\ Len(q') = Len(q) + 1
            /\ \A i \in 1..Len(q) : q'[i] = q[i]
            /\ q'[Len(q) + 1] = accepted
        BY <3>1, <3>2, OrderTypes, AppendElements
      <4>2. \A i \in 1..Len(q') : i \in 1..Len(q) \/ i = Len(q) + 1
        BY <4>1
      <4> QED BY <4>1, <4>2 DEF Pooled
    <3>4. \A c \in Connections : Queued(c)' <=> Queued(c)
      BY <3>1, <3>3 DEF Queued
    <3>5. \A c \in Connections : Life'[c] = Life[c]
      BY <3>1, <3>4, LifeSame
    <3>6. UNCHANGED <<Life, Answered, Stopped>>
      BY <3>1, <3>5, LifeType DEF Answered, Stopped
    <3> QED BY <3>6, ContractStutter
  <2>3. CASE Launch
    <3>1. service_pc # "returned" /\ service_pc' # "returned"
      BY <2>3 DEF Launch, ServiceGoto
    <3> QED BY <2>3, <3>1, LaunchEffect, KeepContract
  <2>4. CASE Return
    BY <2>4, ReturnShutsDown DEF DescriptorInv
  <2>5. CASE LookupHandler
    BY <2>5, LookupContract
  <2>6. CASE \/ Bind \/ Listen \/ TestStopFlag \/ Select
             \/ CleanUpConnectionFutures
    <3>1. /\ UNCHANGED <<connection_pool_, accepted, delivered, socket_fd_>>
          /\ service_pc \notin {"add", "returned"}
          /\ service_pc' \notin {"add", "returned"}
      BY <2>6
      DEF Bind, BindSucceeds, BindFails, BindGivesUp, Listen, TestStopFlag,
          Select, CleanUpConnectionFutures, ServiceGoto, poolVars, socketVars,
          handlerVars
    <3> QED BY <3>1, KeepContract
  <2> QED BY <1>2, <2>1, <2>2, <2>3, <2>4, <2>5, <2>6 DEF Service
<1>3. CASE \/ Stop \/ Join \/ Connect
           \/ \E c \in Connections : Speak(c) \/ Reset(c)
           \/ UNCHANGED vars
  BY <1>3, QuietOutside, KeepContract
<1> QED BY <1>1, <1>2, <1>3, StepCases

(* The server keeps ServiceContract: connections are queued in the order   *)
(* the clients connect, served in that order, each by one task, answered   *)
(* only while they are served and never beyond the answer, closed once;    *)
(* and no connection is open when run() has returned.                      *)
THEOREM ServerKeepsContract == Spec => ImplementsContract
<1>1. ControlInv /\ DescriptorInv /\ FuturesInv /\ HeldInv /\ OrderInv
        /\ SentInv /\ OpenInv /\ ControlInv' /\ OrderInv' /\ [Next]_vars
        => [Contract!Next]_(Contract!vars)
  BY ContractStep
<1> QED
  BY <1>1, ContractInit, ControlInvariant, DescriptorInvariant,
     FuturesInvariant, HeldInvariant, OrderInvariant, SentInvariant,
     OpenInvariant, PTL
  DEF Spec, ImplementsContract, Contract!Spec

=============================================================================
