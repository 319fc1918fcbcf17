----------------------------- MODULE FifoQueue -----------------------------
(***************************************************************************)
(* What a hand-over queue promises its users, with no mention of locks,    *)
(* waiters or storage: what is received is what was sent, in that order,   *)
(* each message once.                                                      *)
(***************************************************************************)
EXTENDS Integers, Sequences

CONSTANT Messages

VARIABLES
  sent,      \* every message ever put in
  received   \* every message ever taken out, by anyone

Init ==
  /\ sent = <<>>
  /\ received = <<>>

Send(m) ==
  /\ sent' = Append(sent, m)
  /\ UNCHANGED received

Receive ==
  /\ Len(received) < Len(sent)
  /\ received' = Append(received, sent[Len(received) + 1])
  /\ UNCHANGED sent

Next == (\E m \in Messages : Send(m)) \/ Receive

Spec == Init /\ [][Next]_<<sent, received>>

=============================================================================
