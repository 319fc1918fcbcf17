--------------------------- MODULE BlockAllocator ---------------------------
(***************************************************************************)
(* What a pool of blocks promises its callers: whoever asks is given a     *)
(* block that nobody else has, until it gives it back.                     *)
(***************************************************************************)
CONSTANTS Callers, NoBlock

VARIABLE held  \* the block each caller has, or NoBlock

Init == held = [c \in Callers |-> NoBlock]

Others(c) == Callers \ {c}

Allocate(c) ==
  /\ held[c] = NoBlock
  /\ held'[c] # NoBlock
  /\ \A d \in Others(c) : held'[d] = held[d] /\ held'[c] # held[d]

Deallocate(c) ==
  /\ held[c] # NoBlock
  /\ held' = [held EXCEPT ![c] = NoBlock]

Next == \E c \in Callers : Allocate(c) \/ Deallocate(c)

Spec == Init /\ [][Next]_held

=============================================================================
