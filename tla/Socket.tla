------------------------------- MODULE Socket -------------------------------
(***************************************************************************)
(* Socket objects (Networking/Socket.cpp) over the descriptor table of the *)
(* process.  A Socket owns the integer socket_fd_, not the open file: all  *)
(* I/O goes through the number, so a number that outlives its file reaches *)
(* whatever file got that number next.  That is why the table is explicit. *)
(*                                                                         *)
(* The table holds the files the running server opens and closes: accepted *)
(* connections and the kqueue/epoll instances of the tasks.  Descriptors   *)
(* held for the whole run (stdio, the listening socket) are left out.      *)
(***************************************************************************)
EXTENDS Integers, Sequences, FiniteSets

CONSTANTS
  Fds,             \* descriptor numbers the process may still use
  MaxConnections   \* bound: number of clients that ever connect

ASSUME FdsAssumption == IsFiniteSet(Fds) /\ Fds \subseteq Nat
ASSUME MaxConnectionsAssumption == MaxConnections \in Nat \ {0}

Connections == 1..MaxConnections  \* numbered in the order the clients connect
Tasks == 1..MaxConnections        \* std::async tasks, in launch order

NoFd == -1

VARIABLES
  open_files,  \* kernel: what each descriptor number refers to
  socket_fd_   \* Socket::socket_fd_ of the Connection made for each client

socketVars == <<open_files, socket_fd_>>

Free == <<"free", 0>>
SocketFile(c) == <<"socket", c>>
PollFile(t) == <<"poll", t>>
Files == {Free} \cup {SocketFile(c) : c \in Connections}
                \cup {PollFile(t) : t \in Tasks}

SocketInit ==
  /\ open_files = [f \in Fds |-> Free]
  /\ socket_fd_ = [c \in Connections |-> NoFd]

-----------------------------------------------------------------------------
(* The kernel's side. *)

FreeFds == {f \in Fds : open_files[f] = Free}

(* open(), accept() and kqueue() return the lowest free number, or -1      *)
(* (EMFILE).                                                               *)
NewFd ==
  IF FreeFds = {} THEN NoFd
                  ELSE CHOOSE f \in FreeFds : \A g \in FreeFds : f <= g

Install(fd, file) ==
  open_files' = IF fd = NoFd THEN open_files
                             ELSE [open_files EXCEPT ![fd] = file]

(* ::close(fd); closing a number that is not open is EBADF. *)
CloseFd(fd) ==
  open_files' = IF fd = NoFd THEN open_files
                             ELSE [open_files EXCEPT ![fd] = Free]

(* The file a read() or write() on fd reaches. *)
FileAt(fd) == IF fd = NoFd THEN Free ELSE open_files[fd]

-----------------------------------------------------------------------------
(* The methods of Socket. *)

(* Slip: close() forgets socket_fd_ = -1, so a second close() (sendResponse, *)
(* then ~Socket) closes the number again.                                    *)
CloseKeepingNumber(c) ==
  /\ CloseFd(socket_fd_[c])
  /\ UNCHANGED socket_fd_

(* close(): idempotent, because the number is forgotten with the file.  The *)
(* destructor is a call of close() too.                                     *)
Close(c) ==
  /\ CloseFd(socket_fd_[c])
  /\ socket_fd_' = [socket_fd_ EXCEPT ![c] = NoFd]

=============================================================================
