--------------------------- MODULE MCHttpService ---------------------------
(* The instances of HttpService that TLC checks; the .cfg files choose.    *)
EXTENDS HttpService

(* Two connections and one poll instance fit; two of each do not. *)
ThreeFds == {3, 4, 5}
(* One connection and its poll instance fit: accept() and kqueue() both    *)
(* meet the limit with two clients.                                        *)
TwoFds == {3, 4}

(* Everything that can go wrong once the server listens. *)
RuntimeFaults == {"select", "accept", "async", "route", "reset", "sigpipe"}
(* Everything that can go wrong before it does, and select(). *)
StartupFaults == {"socket", "handler", "bind", "listen", "select"}
(* What clients and request handlers do; the process itself is healthy. *)
ClientFaults == {"route", "reset"}
StartAndClientFaults == StartupFaults \cup ClientFaults

=============================================================================
