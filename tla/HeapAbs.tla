------------------------------ MODULE HeapAbs -------------------------------
(***************************************************************************)
(* What the kernel's malloc() and free() promise: the blocks callers hold  *)
(* never overlap, each lies in memory the heap was given, and a block      *)
(* stays where it is until its holder frees it.                            *)
(***************************************************************************)
EXTENDS Integers

VARIABLES
  live,    \* the blocks callers hold, [ptr, size]
  arena    \* the memory the heap owns, [base, size]

Apart(p, m, q, n) == p + m <= q \/ q + n <= p
Inside(b, r) == b.ptr >= r.base /\ b.ptr + b.size <= r.base + r.size

Init == live = {} /\ arena = {}

\* The heap takes more memory, apart from what it has.
Grow ==
  /\ arena \subseteq arena'
  /\ \A r \in arena' \ arena : \A q \in arena' :
       q # r => Apart(r.base, r.size, q.base, q.size)

Malloc ==
  /\ \E b \in live' \ live :
       /\ live' = live \cup {b}
       /\ \A c \in live : Apart(b.ptr, b.size, c.ptr, c.size)
       /\ \E r \in arena' : Inside(b, r)
  /\ Grow

\* Memory given back holds no block.
Free ==
  /\ \E b \in live : live' = live \ {b}
  /\ arena' = arena

\* realloc(): the new block is apart from the old one, which goes.
Realloc ==
  /\ \E b \in live' \ live : \E old \in live :
       /\ live' = (live \cup {b}) \ {old}
       /\ \A c \in live : Apart(b.ptr, b.size, c.ptr, c.size)
       /\ \E r \in arena' : Inside(b, r)
  /\ Grow

GiveBack ==
  /\ live' = live
  /\ arena' \subseteq arena
  /\ \A b \in live : \E r \in arena' : Inside(b, r)

Next == Malloc \/ Free \/ Realloc \/ GiveBack

Spec == Init /\ [][Next]_<<live, arena>>
=============================================================================
