-------------------------------- MODULE Heap --------------------------------
(***************************************************************************)
(* What malloc, calloc, realloc and free promise: a client is given bytes  *)
(* of memory that nobody else has, or nothing, and has them until it frees *)
(* them.  A block that is resized may move; its contents are copied while  *)
(* the client still has the old one, so the two do not overlap.            *)
(***************************************************************************)
EXTENDS Integers

CONSTANT Byte   \* addresses of the memory to hand out

VARIABLE granted   \* address and size of the blocks clients have

Block == [addr : Byte, size : Nat]

Bytes(b) == b.addr .. b.addr + b.size - 1

Unused(b) == Bytes(b) \subseteq Byte /\ \A g \in granted : Bytes(b) \cap Bytes(g) = {}

Init == granted = {}

Grant(b) == Unused(b) /\ granted' = granted \cup {b}

Resize(g, b) == Unused(b) /\ granted' = (granted \ {g}) \cup {b}

Release(g) == granted' = granted \ {g}

Next ==
  \/ \E b \in granted' : Grant(b)
  \/ \E g \in granted, b \in granted' : Resize(g, b)
  \/ \E g \in granted : Release(g)

Spec == Init /\ [][Next]_granted
============================================================================
