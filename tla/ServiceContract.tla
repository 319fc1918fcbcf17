-------------------------- MODULE ServiceContract --------------------------
(***************************************************************************)
(* What the server promises about its connections, with no mention of      *)
(* threads, descriptors or condition variables.  Connections are numbered  *)
(* in the order the clients connect.  Each is queued, served and closed    *)
(* once, in that order; service starts in arrival order; a client is       *)
(* answered only while it is served, its answer only grows, and when the   *)
(* service has stopped no connection is left open.                         *)
(***************************************************************************)
EXTENDS Integers

CONSTANTS Clients, AnswerLength

VARIABLES
  life,      \* per connection: "absent", "queued", "serving", "closed"
  answered,  \* per connection: how much of the answer was sent
  stopped    \* the service has returned

vars == <<life, answered, stopped>>

Init ==
  /\ life = [c \in Clients |-> "absent"]
  /\ answered = [c \in Clients |-> 0]
  /\ stopped = FALSE

Become(c, stage) == life' = [life EXCEPT ![c] = stage]

Queue(c) ==
  /\ ~stopped
  /\ life[c] = "absent"
  /\ \A d \in Clients : d < c => life[d] # "absent"
  /\ Become(c, "queued")
  /\ UNCHANGED <<answered, stopped>>

Serve(c) ==
  /\ life[c] = "queued"
  /\ \A d \in Clients : d < c => life[d] # "queued"
  /\ Become(c, "serving")
  /\ UNCHANGED <<answered, stopped>>

Answer(c) ==
  /\ life[c] = "serving"
  /\ \E n \in (answered[c] + 1)..AnswerLength :
       answered' = [answered EXCEPT ![c] = n]
  /\ UNCHANGED <<life, stopped>>

Close(c) ==
  /\ life[c] = "serving"
  /\ Become(c, "closed")
  /\ UNCHANGED <<answered, stopped>>

(* Connections nobody came to serve are closed unanswered. *)
Shutdown ==
  /\ ~stopped
  /\ \A c \in Clients : life[c] # "serving"
  /\ stopped' = TRUE
  /\ life' = [c \in Clients |->
       IF life[c] = "queued" THEN "closed" ELSE life[c]]
  /\ UNCHANGED answered

Next ==
  \/ \E c \in Clients : Queue(c) \/ Serve(c) \/ Answer(c) \/ Close(c)
  \/ Shutdown

Spec == Init /\ [][Next]_vars

=============================================================================
