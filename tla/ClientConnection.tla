-------------------------- MODULE ClientConnection --------------------------
(* Connection(host, port): the constructor a client of the library uses. It  *)
(* resolves the host and tries its addresses in turn on one socket, which    *)
(* does not block.                                                           *)
EXTENDS Naturals, Sequences

CONSTANT Resolutions   \* lists of addresses a host can have

VARIABLES
  socket,     \* the descriptor: none, open, connecting, connected or closed
  addresses,  \* the addresses not tried yet
  peer,       \* the address the socket is connecting or connected to
  built       \* no | yes | threw: the outcome of the constructor

connectionVars == <<socket, addresses, peer, built>>

IPv4 == {"127.0.0.1", "10.0.0.1"}

ConnectionInit ==
  socket = "none" /\ addresses = <<>> /\ peer = "none" /\ built = "no"

(* Slip: the descriptor of a failed construction is not closed.              *)
ThrowAndForget ==
  /\ built' = "threw"
  /\ addresses' = <<>>
  /\ peer' = "none"
  /\ UNCHANGED socket

\* The constructor throws: the members built so far are destroyed, and
\* ~Socket closes the descriptor.
Throw ==
  /\ built' = "threw"
  /\ socket' = IF socket = "none" THEN "none" ELSE "closed"
  /\ addresses' = <<>>
  /\ peer' = "none"

\* Socket(): socket(2) may find no descriptor.
CreateSocket ==
  /\ built = "no" /\ socket = "none"
  /\ \/ socket' = "open" /\ UNCHANGED <<addresses, peer, built>>
     \/ Throw

\* AddressResolver::resolve: getaddrinfo() fails, or lists addresses of both
\* families.
Resolve ==
  /\ built = "no" /\ socket = "open" /\ addresses = <<>>
  /\ \/ \E found \in Resolutions :
          /\ found # <<>>
          /\ addresses' = found
          /\ UNCHANGED <<socket, peer, built>>
     \/ Throw

\* Where the bytes inet_pton() leaves in the address lead: an IPv6 text leaves
\* them unset.
Target(address) == IF address \in IPv4 THEN address ELSE "unset"

\* Socket::connect: connected at once or, where the socket is connecting, by
\* now; in progress, which only leads on to the next address; or an error.
ConnectDone ==
  /\ socket' = "connected"
  /\ peer' = IF socket = "connecting" THEN peer ELSE Target(Head(addresses))
  /\ built' = "yes"
  /\ addresses' = <<>>
ConnectInProgress ==
  /\ socket = "open" /\ Len(addresses) > 1
  /\ socket' = "connecting"
  /\ peer' = Target(Head(addresses))
  /\ addresses' = Tail(addresses)
  /\ UNCHANGED built
TryAddress ==
  /\ built = "no" /\ addresses # <<>>
  /\ ConnectDone \/ ConnectInProgress \/ Throw
==============================================================================
