---------------------------- MODULE FrameSearch ----------------------------
(***************************************************************************)
(* How pmm.c looks for frames in its bitmap: the lowest that is free, or   *)
(* several that lie together.  Both answer with the set of what they may   *)
(* return, -1 for nothing found.                                           *)
(***************************************************************************)
EXTENDS Integers, FiniteSets

CONSTANT WordBits   \* bits in a word of the map: 32

ASSUME WordAssumption == WordBits \in Nat \ {0}

\* The lowest clear bit.
mmap_first_free(clear) ==
  IF clear = {} THEN {-1} ELSE {f \in clear : \A g \in clear : f <= g}

\* For each clear bit f, bit j of word i, the search for several tests the
\* size + 1 bits from i * 32 + (1 << j) on, in front of the map when 1 << j is
\* negative, and takes f when size of them are clear.
Window(f, size) ==
  LET start == (f \div WordBits) * WordBits + 2 ^ (f % WordBits)
  IN  IF f % WordBits = WordBits - 1 THEN {-1} ELSE start..(start + size)

\* Bits outside of the map, neither clear nor set here, can read as anything.
MustPass(clear, f, size) == Cardinality(Window(f, size) \cap clear) >= size
MayPass(set, f, size)    == Cardinality(Window(f, size) \cap set) <= 1

\* The bits the search comes to.
Tested(clear, size) == {f \in clear : \A g \in clear : g < f => ~MustPass(clear, g, size)}

mmap_first_free_s(clear, set, size) ==
  IF size = 0 THEN {-1}
  ELSE IF size = 1 THEN mmap_first_free(clear)
  ELSE {f \in Tested(clear, size) : MayPass(set, f, size)}
       \cup {none \in {-1} : \A f \in clear : ~MustPass(clear, f, size)}

=============================================================================
