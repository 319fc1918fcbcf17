------------------------ MODULE HttpProtocolHandler ------------------------
(***************************************************************************)
(* HttpProtocolHandler::handleRequest (Protocol/HttpProtocolHandler.cpp)   *)
(* as one task of the server runs it: wait for the request, read it once,  *)
(* build the response, write it piece by piece, close the connection.  Any *)
(* number of tasks run it at the same time, sharing only the descriptor    *)
(* table.                                                                  *)
(*                                                                         *)
(* Requests and responses are abstract: a request is known by the client   *)
(* that sent it, a response by the request it answers and by the number    *)
(* ResponseLength of pieces write() may cut it into.                       *)
(***************************************************************************)
EXTENDS Socket

CONSTANTS
  Platform,          \* the #ifdef branch that was compiled
  ResponseLength,    \* bound: write() splits a response into at most this many
  KeepAliveClients,  \* clients whose request asks for keep-alive
  Faults             \* what may go wrong in the environment (see HttpService)

ASSUME PlatformAssumption == Platform \in {"apple", "linux"}
ASSUME ResponseLengthAssumption == ResponseLength \in Nat \ {0}
ASSUME KeepAliveAssumption == KeepAliveClients \subseteq Connections

VARIABLES
  pc,           \* where each task is
  connection,   \* the connection each task took from the pool, or None
  poll_fd,      \* the task's local kq / epoll_fd, NoFd when it has none
  response,     \* the client whose request the task's response answers
  bytesSent,    \* pieces of the response written so far
  keep_alive_,  \* Connection::keep_alive_
  inbound,      \* kernel: what read() on each client's socket would find
  delivered,    \* kernel: the pieces each client was sent, in order
  process       \* "running", or "killed" by a signal

handlerVars ==
  <<pc, connection, poll_fd, response, bytesSent, keep_alive_,
    inbound, delivered, process>>

None == 0

TaskPcs == {"unlaunched", "getConnection", "openRead", "waitRead", "read",
            "dispatch", "openSend", "send", "closeSend", "close", "release",
            "ready"}

HandlerInit ==
  /\ pc = [t \in Tasks |-> "unlaunched"]
  /\ connection = [t \in Tasks |-> None]
  /\ poll_fd = [t \in Tasks |-> NoFd]
  /\ response = [t \in Tasks |-> None]
  /\ bytesSent = [t \in Tasks |-> 0]
  /\ keep_alive_ = [c \in Connections |-> FALSE]
  /\ inbound = [c \in Connections |-> "silent"]
  /\ delivered = [c \in Connections |-> <<>>]
  /\ process = "running"

Goto(t, label) == pc' = [pc EXCEPT ![t] = label]

SocketOf(t) == socket_fd_[connection[t]]

(* fd |-> the client at the other end, None if the file is not a socket. *)
ClientAt(fd) == IF FileAt(fd)[1] = "socket" THEN FileAt(fd)[2] ELSE None

(* The state of the connection task t would read from or write to. *)
Peer(t) ==
  LET c == ClientAt(SocketOf(t))
  IN  IF c = None THEN "none" ELSE inbound[c]

-----------------------------------------------------------------------------
(* kqueue() / epoll_create1(): the number goes to a local variable. *)
OpenPoll(t) ==
  /\ Install(NewFd, PollFile(t))
  /\ poll_fd' = [poll_fd EXCEPT ![t] = NewFd]

ClosePoll(t) ==
  /\ CloseFd(poll_fd[t])
  /\ poll_fd' = [poll_fd EXCEPT ![t] = NoFd]

-----------------------------------------------------------------------------
(* readRequest: open a poll instance, wait, close it, read() once. *)

OpenReadPoll(t) ==
  /\ pc[t] = "openRead"
  /\ OpenPoll(t)
  /\ Goto(t, "waitRead")
  /\ UNCHANGED <<socket_fd_, connection, response, bytesSent, keep_alive_,
                 inbound, delivered, process>>

(* Slip: wait without a timeout on Linux too. *)
ReadEventsUntimed(t) ==
  IF poll_fd[t] = NoFd THEN {-1} ELSE {n \in {1} : Peer(t) # "silent"}

(* What kevent() / epoll_wait() may return: -1 without a poll instance, 1  *)
(* when the socket is readable (data, end of stream or error), 0 after a   *)
(* second, on Linux only: the kevent() call passes no timeout.             *)
ReadEvents(t) ==
  IF poll_fd[t] = NoFd THEN {-1}
  ELSE {n \in {0, 1} : \/ n = 1 /\ Peer(t) # "silent"
                       \/ n = 0 /\ Platform = "linux"}

(* waitForSocketRead() and the close() after it.  -1 and 0 throw; the      *)
(* exception passes through handleRequest to the task's catch block.       *)
WaitForSocketRead(t) ==
  /\ pc[t] = "waitRead"
  /\ \E n \in ReadEvents(t) : Goto(t, IF n = 1 THEN "read" ELSE "close")
  /\ ClosePoll(t)
  /\ UNCHANGED <<socket_fd_, connection, response, bytesSent, keep_alive_,
                 inbound, delivered, process>>

(* read() into a buffer of 4096 bytes, once.  0 (end of stream) and -1     *)
(* (reset) throw, so the text returned is never empty and handleRequest's  *)
(* else branch, which answers 502, is not taken.                           *)
ReadSocketData(t) ==
  LET c == ClientAt(SocketOf(t)) IN
  /\ pc[t] = "read"
  /\ IF Peer(t) = "data"
       THEN /\ response' = [response EXCEPT ![t] = c]
            /\ inbound' = [inbound EXCEPT ![c] = "consumed"]
            /\ Goto(t, "dispatch")
       ELSE /\ Goto(t, "close")
            /\ UNCHANGED <<response, inbound>>
  /\ UNCHANGED <<socketVars, connection, poll_fd, bytesSent, keep_alive_,
                 delivered, process>>

-----------------------------------------------------------------------------
setKeepAlive(c, keep_alive) ==
  keep_alive_' = [keep_alive_ EXCEPT ![c] = keep_alive]

(* Parse, look the route up, run the route handler (or build a 404).  Both *)
(* the parser (std::stoi) and the route handler may throw: the former      *)
(* before setKeepAlive, the latter after it.                               *)
Dispatch(t) ==
  LET c == connection[t]
      asks == response[t] \in KeepAliveClients
  IN
  /\ pc[t] = "dispatch"
  /\ \/ /\ "route" \in Faults     \* parseHttpRequest throws
        /\ Goto(t, "close")
        /\ UNCHANGED keep_alive_
     \/ /\ setKeepAlive(c, asks)
        /\ \/ Goto(t, "openSend")
           \/ "route" \in Faults /\ Goto(t, "close")  \* the handler throws
  /\ UNCHANGED <<socketVars, connection, poll_fd, response, bytesSent,
                 inbound, delivered, process>>

-----------------------------------------------------------------------------
(* sendResponse: open a poll instance, write until done, close it, close   *)
(* the connection.                                                         *)

OpenSendPoll(t) ==
  /\ pc[t] = "openSend"
  /\ OpenPoll(t)
  /\ Goto(t, "send")
  /\ UNCHANGED <<socket_fd_, connection, response, bytesSent, keep_alive_,
                 inbound, delivered, process>>

(* A write() of pieces bytesSent+1 .. bytesSent+n to whatever the socket's *)
(* number refers to.                                                       *)
Deliver(t, n) ==
  LET c == ClientAt(SocketOf(t))
      pieces == [i \in 1..n |-> <<response[t], bytesSent[t] + i>>]
  IN  delivered' = [delivered EXCEPT ![c] = @ \o pieces]

(* Slip: bytesSent is set to the last count instead of summed up. *)
WriteForgettingOffset(t) ==
  /\ Peer(t) \notin {"reset", "none"}
  /\ \E n \in 1..(ResponseLength - bytesSent[t]) :
       /\ Deliver(t, n)
       /\ bytesSent' = [bytesSent EXCEPT ![t] = n]
  /\ UNCHANGED <<pc, process>>

(* Slip: one piece too many. *)
WritePastEnd(t) ==
  /\ Peer(t) \notin {"reset", "none"}
  /\ \E n \in 1..(ResponseLength - bytesSent[t] + 1) :
       /\ Deliver(t, n)
       /\ bytesSent' = [bytesSent EXCEPT ![t] = @ + n]
  /\ UNCHANGED <<pc, process>>

(* write() takes one or more of the remaining bytes. *)
WritePieces(t) ==
  /\ Peer(t) \notin {"reset", "none"}
  /\ \E n \in 1..(ResponseLength - bytesSent[t]) :
       /\ Deliver(t, n)
       /\ bytesSent' = [bytesSent EXCEPT ![t] = @ + n]
  /\ UNCHANGED <<pc, process>>

(* Slip: a failed write() returns at once, past close(kq). *)
WriteFailsReturning(t) ==
  /\ Peer(t) \in {"reset", "none"}
  /\ Goto(t, "close")
  /\ UNCHANGED <<bytesSent, delivered, process>>

(* write() on a connection the peer has reset: an error, or SIGPIPE, which *)
(* the program neither handles nor ignores.                                *)
WriteFails(t) ==
  /\ Peer(t) \in {"reset", "none"}
  /\ \/ Goto(t, "closeSend") /\ UNCHANGED process
     \/ /\ Peer(t) = "reset" /\ "sigpipe" \in Faults
        /\ process' = "killed"
        /\ UNCHANGED pc
  /\ UNCHANGED <<bytesSent, delivered>>

(* The loop condition is false, or the wait returned 0 or -1. *)
StopSending(t) ==
  /\ Goto(t, "closeSend")
  /\ UNCHANGED <<bytesSent, delivered, process>>

(* One turn of the write loop: wait until writable, five seconds at most   *)
(* (one on Linux), then write.                                             *)
SendSome(t) ==
  /\ pc[t] = "send"
  /\ IF bytesSent[t] < ResponseLength /\ poll_fd[t] # NoFd
       THEN WritePieces(t) \/ WriteFails(t) \/ StopSending(t)
       ELSE StopSending(t)
  /\ UNCHANGED <<socketVars, connection, poll_fd, response, keep_alive_,
                 inbound>>

CloseSendPoll(t) ==
  /\ pc[t] = "closeSend"
  /\ ClosePoll(t)
  /\ Goto(t, "close")
  /\ UNCHANGED <<socket_fd_, connection, response, bytesSent, keep_alive_,
                 inbound, delivered, process>>

(* socket().close(): at the end of sendResponse, keep-alive or not, and in *)
(* the task's catch block.                                                 *)
CloseConnection(t) ==
  /\ pc[t] = "close"
  /\ Close(connection[t])
  /\ Goto(t, "release")
  /\ UNCHANGED <<connection, poll_fd, response, bytesSent, keep_alive_,
                 inbound, delivered, process>>

(* handleRequest, one step of task t. *)
HandleRequest(t) ==
  \/ OpenReadPoll(t)
  \/ WaitForSocketRead(t)
  \/ ReadSocketData(t)
  \/ Dispatch(t)
  \/ OpenSendPoll(t)
  \/ SendSome(t)
  \/ CloseSendPoll(t)
  \/ CloseConnection(t)

=============================================================================
