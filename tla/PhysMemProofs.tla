---------------------------- MODULE PhysMemProofs ---------------------------
(***************************************************************************)
(* Proofs about PhysMem when callers ask for one block at a time, for      *)
(* every memory map, every kernel and every size of machine: no frame has  *)
(* two owners, and what the boot sets aside is never handed out.           *)
(*                                                                         *)
(* The inductive invariant relates the three records of who has a frame:   *)
(* a frame that is held has its bit set, so that mmap_first_free() never   *)
(* finds it, and owners counts the one allocation that names it; from the  *)
(* end of the boot on the reserved bits are set and nobody holds them, so  *)
(* that no free clears them.                                               *)
(*                                                                         *)
(* On a machine as the boot expects it, CountInv adds the fourth record,   *)
(* the number of used blocks: what it leaves is the frames the map has     *)
(* offered less those that are held.  So an offered frame, clear and       *)
(* before the bits beyond the memory, is found as long as any is left.     *)
(*                                                                         *)
(* The last part is about PageTables, the paging that works on frames:     *)
(* what is mapped is what was asked for, and clearing a new table reaches  *)
(* a frame in use only behind one that the search had passed over.         *)
(***************************************************************************)
EXTENDS PhysMem, PageTables, FiniteSetTheorems, NaturalsInduction, WellFoundedInduction, TLAPS

Single == Sizes = {1}

HeldMarked ==
  /\ allocs \subseteq [frame : 0..(Span - 1), size : {1}]
  /\ \A a \in allocs : a.frame \in _mmngr_memory_map
HeldOnce ==
  \A f \in Frames :
    owners[f] = IF [frame |-> f, size |-> 1] \in allocs THEN 1 ELSE 0
ReservedMarked ==
  /\ phase # "run" => allocs = {}
  /\ phase \in {"low", "run"} => Blocks(Kernel) \subseteq _mmngr_memory_map
  /\ phase = "run" => /\ Blocks(Low) \cup {0} \subseteq _mmngr_memory_map
                      /\ \A a \in allocs : a.frame \notin Reserved \cup {0}

IInv == TypeOK /\ HeldMarked /\ HeldOnce /\ ReservedMarked

-----------------------------------------------------------------------------

LEMMA SpanNat == Span \in Nat
  BY SizeAssumption, WordAssumption DEF Span, _mmngr_max_blocks

LEMMA SpanFrames == 0..(Span - 1) \subseteq Frames
  BY SpanNat DEF Frames

LEMMA BlocksFinite ==
  ASSUME NEW r \in Nat \X Nat
  PROVE  Cardinality(Blocks(r)) \in Nat
<1>1. Align(r) \in Int /\ Align(r) + (r[2] \div BlockSize) - 1 \in Int
  BY SizeAssumption DEF Align
<1>2. IsFiniteSet(Blocks(r))
  BY <1>1, FS_Interval DEF Blocks
<1> QED
  BY <1>2, FS_CardinalityType

\* A single block is given at a frame whose bit is clear.
LEMMA FirstFreeIsClear ==
  ASSUME NEW f \in mmap_first_free(Clear), f # -1
  PROVE  f \in 0..(Span - 1) /\ f \notin _mmngr_memory_map
  BY DEF mmap_first_free, Clear, map

LEMMA FramesOfOne ==
  ASSUME NEW f \in Int
  PROVE  FramesOf([frame |-> f, size |-> 1]) = {f}
  BY DEF FramesOf

LEMMA InitInv == Init => IInv
<1> SUFFICES ASSUME Init PROVE IInv
  OBVIOUS
<1>1. TypeOK
  <2>1. _mmngr_memory_map \subseteq 0..(Span - 1)
    BY DEF Init
  <2>2. region \in 0..Len(Regions)
    BY RegionAssumption DEF Init
  <2>3. owners \in [Frames -> Nat]
    BY DEF Init
  <2>4. phase \in Phases /\ refused \in BOOLEAN
    BY DEF Init, Phases
  <2>5. _mmngr_used_blocks \in Int
    BY DEF Init
  <2>6. allocs \subseteq [frame : Nat, size : Nat]
    BY DEF Init
  <2> QED
    BY <2>1, <2>2, <2>3, <2>4, <2>5, <2>6 DEF TypeOK
<1> QED
  BY <1>1 DEF Init, IInv, HeldMarked, HeldOnce, ReservedMarked

\* The boot changes the map and the count only.
LEMMA BootTypeOK ==
  ASSUME TypeOK, phase' \in Phases, region' \in 0..Len(Regions),
         UNCHANGED <<allocs, owners, refused>>,
         _mmngr_memory_map' \subseteq 0..(Span - 1), _mmngr_used_blocks' \in Int
  PROVE  TypeOK'
  BY DEF TypeOK

LEMMA DeinitTypes ==
  ASSUME TypeOK, NEW r \in Nat \X Nat, Blocks(r) \subseteq Reserved, Deinit(r)
  PROVE  /\ _mmngr_memory_map' = _mmngr_memory_map \cup Blocks(r) \cup {0}
         /\ _mmngr_memory_map' \subseteq 0..(Span - 1)
         /\ _mmngr_used_blocks' \in Int
<1> DEFINE Bits == 0..(Span - 1)
<1>1. Cardinality(Blocks(r)) \in Nat
  BY BlocksFinite
<1>2. _mmngr_used_blocks' = _mmngr_used_blocks + Cardinality(Blocks(r))
  BY DEF Deinit, count
<1>3. _mmngr_used_blocks' \in Int
  BY <1>1, <1>2 DEF TypeOK
<1>4. _mmngr_memory_map' = _mmngr_memory_map \cup Blocks(r) \cup {0}
  BY DEF Deinit, map
<1>5. _mmngr_memory_map \subseteq Bits /\ Blocks(r) \subseteq Bits /\ 0 \in Bits
  BY RegionAssumption DEF TypeOK, Reserved
<1> HIDE DEF Bits
<1>6. _mmngr_memory_map' \subseteq Bits
  BY <1>4, <1>5
<1> QED
  BY <1>3, <1>4, <1>6 DEF Bits

LEMMA InitRegionTypes ==
  ASSUME TypeOK, pmmngr_init_region
  PROVE  /\ region' \in 0..Len(Regions)
         /\ _mmngr_memory_map' \subseteq 0..(Span - 1)
         /\ _mmngr_used_blocks' \in Int
<1> DEFINE Bits == 0..(Span - 1)
           r == Regions[region + 1]
<1>1. region + 1 \in 1..Len(Regions) /\ region' = region + 1
  BY RegionAssumption DEF TypeOK, pmmngr_init_region
<1>2. Cardinality(Blocks(r)) \in Nat
  BY <1>1, RegionAssumption, BlocksFinite
<1>3. _mmngr_used_blocks' = _mmngr_used_blocks - Cardinality(Blocks(r))
  BY DEF pmmngr_init_region, count
<1>4. _mmngr_memory_map' = (_mmngr_memory_map \ Blocks(r)) \cup {0}
  BY DEF pmmngr_init_region, map
<1>5. _mmngr_memory_map \subseteq Bits /\ 0 \in Bits
  BY RegionAssumption DEF TypeOK, Reserved
<1> HIDE DEF Bits, r
<1>6. _mmngr_memory_map' \subseteq Bits
  BY <1>4, <1>5
<1>7. _mmngr_used_blocks' \in Int
  BY <1>2, <1>3 DEF TypeOK
<1> QED
  BY <1>1, <1>6, <1>7 DEF Bits

LEMMA BootInv ==
  ASSUME IInv, Boot
  PROVE  IInv'
<1>1. /\ UNCHANGED <<allocs, owners, refused>>
      /\ phase # "run" /\ allocs = {} /\ allocs' = {}
  BY DEF IInv, ReservedMarked, Boot, pmmngr_init, pmmngr_init_region,
     RegionsDone, pmmngr_deinit_region, Deinit
<1>2. HeldMarked' /\ HeldOnce'
  BY <1>1 DEF IInv, HeldMarked, HeldOnce
<1>3. TypeOK
  BY DEF IInv
<1>4. TypeOK' /\ ReservedMarked'
  <2>1. CASE pmmngr_init
    <3>1. _mmngr_max_blocks \in Int
      BY SizeAssumption DEF _mmngr_max_blocks
    <3>2. _mmngr_memory_map' \subseteq 0..(Span - 1)
      BY <1>3, <2>1 DEF TypeOK, pmmngr_init, Filled, map
    <3>3. /\ phase' = "regions" /\ phase' \in Phases
          /\ region' \in 0..Len(Regions) /\ _mmngr_used_blocks' \in Int
      BY <1>3, <2>1, <3>1 DEF TypeOK, pmmngr_init, Phases
    <3> QED
      BY <1>1, <1>3, <3>2, <3>3, BootTypeOK DEF ReservedMarked
  <2>2. CASE pmmngr_init_region
    <3>1. phase' = "regions" /\ phase' \in Phases
      BY <2>2 DEF pmmngr_init_region, Phases
    <3> QED
      BY <1>1, <1>3, <2>2, <3>1, InitRegionTypes, BootTypeOK DEF ReservedMarked
  <2>3. CASE RegionsDone
    BY <1>1, <1>3, <2>3 DEF TypeOK, ReservedMarked, RegionsDone, Phases
  <2>4. CASE phase = "kernel" /\ phase' = "low" /\ Deinit(Kernel)
    <3>1. Blocks(Kernel) \subseteq Reserved /\ Kernel \in Nat \X Nat
      BY RegionAssumption DEF Reserved
    <3>2. phase' \in Phases /\ region' \in 0..Len(Regions)
      BY <1>3, <2>4 DEF TypeOK, Deinit, Phases
    <3> QED
      BY <1>1, <1>3, <2>4, <3>1, <3>2, DeinitTypes, BootTypeOK DEF ReservedMarked
  <2>5. CASE phase = "low" /\ phase' = "run" /\ Deinit(Low)
    <3>1. Blocks(Low) \subseteq Reserved /\ Low \in Nat \X Nat
      BY RegionAssumption DEF Reserved
    <3>2. phase' \in Phases /\ region' \in 0..Len(Regions)
      BY <1>3, <2>5 DEF TypeOK, Deinit, Phases
    <3>3. _mmngr_memory_map' = _mmngr_memory_map \cup Blocks(Low) \cup {0}
      BY <1>3, <2>5, <3>1, DeinitTypes
    <3>4. Blocks(Kernel) \subseteq _mmngr_memory_map
      BY <2>5 DEF IInv, ReservedMarked
    <3>5. ReservedMarked'
      BY <1>1, <2>5, <3>3, <3>4 DEF ReservedMarked
    <3> QED
      BY <1>1, <1>3, <2>5, <3>1, <3>2, <3>5, DeinitTypes, BootTypeOK
  <2> QED
    BY <2>1, <2>2, <2>3, <2>4, <2>5 DEF Boot, pmmngr_deinit_region
<1> QED
  BY <1>2, <1>4 DEF IInv

LEMMA RefuseInv ==
  ASSUME IInv, Refuse, UNCHANGED <<phase, region>>
  PROVE  IInv'
  BY DEF IInv, TypeOK, HeldMarked, HeldOnce, ReservedMarked, Refuse

LEMMA GiveInv ==
  ASSUME IInv, phase = "run", UNCHANGED <<phase, region>>,
         NEW frame \in mmap_first_free(Clear), frame # -1, Give(frame, 1)
  PROVE  IInv'
<1> DEFINE a == [frame |-> frame, size |-> 1]
<1>1. frame \in 0..(Span - 1) /\ frame \notin _mmngr_memory_map
  BY FirstFreeIsClear
<1>2. frame \in Nat /\ frame \in Frames /\ FramesOf(a) = {frame}
  BY <1>1, SpanNat, SpanFrames, FramesOfOne
<1>3. a \notin allocs
  BY <1>1 DEF IInv, HeldMarked
<1>4. /\ refused' = FALSE
      /\ _mmngr_memory_map' = _mmngr_memory_map \cup {frame}
      /\ _mmngr_used_blocks' = _mmngr_used_blocks + 1
      /\ allocs' = allocs \cup {a}
      /\ owners' = [f \in Frames |-> IF f = frame THEN owners[f] + 1 ELSE owners[f]]
  BY <1>2 DEF Give, map, count
<1>5. HeldOnce'
  <2> SUFFICES ASSUME NEW f \in Frames
               PROVE  owners'[f] = IF [frame |-> f, size |-> 1] \in allocs' THEN 1 ELSE 0
    BY DEF HeldOnce
  <2>1. CASE f = frame
    BY <1>2, <1>3, <1>4, <2>1 DEF IInv, HeldOnce
  <2>2. CASE f # frame
    BY <1>4, <2>2 DEF IInv, HeldOnce
  <2> QED
    BY <2>1, <2>2
<1>6. TypeOK'
  <2>1. owners' \in [Frames -> Nat]
    BY <1>4 DEF IInv, TypeOK
  <2>2. UNCHANGED <<phase, region>> /\ refused' \in BOOLEAN
    BY <1>4
  <2>3. _mmngr_memory_map' \subseteq 0..(Span - 1) /\ _mmngr_used_blocks' \in Int
    BY <1>1, <1>4 DEF IInv, TypeOK
  <2>4. allocs' \subseteq [frame : Nat, size : Nat]
    BY <1>2, <1>4 DEF IInv, TypeOK
  <2> QED
    BY <2>1, <2>2, <2>3, <2>4 DEF IInv, TypeOK
<1>7. HeldMarked'
  BY <1>1, <1>4 DEF IInv, HeldMarked
<1>8. ReservedMarked'
  BY <1>1, <1>4 DEF IInv, ReservedMarked, Reserved
<1> QED
  BY <1>5, <1>6, <1>7, <1>8 DEF IInv

LEMMA FreeInv ==
  ASSUME IInv, phase = "run", UNCHANGED <<phase, region>>,
         NEW a \in allocs, pmmngr_free_blocks(a)
  PROVE  IInv'
<1>1. /\ a.frame \in 0..(Span - 1) /\ a = [frame |-> a.frame, size |-> 1]
      /\ a.frame \in _mmngr_memory_map
  BY DEF IInv, HeldMarked
<1>2. a.frame \in Frames /\ a.size = 1 /\ FramesOf(a) = {a.frame}
  BY <1>1, SpanFrames, FramesOfOne
<1>3. /\ refused' = FALSE
      /\ _mmngr_memory_map' = _mmngr_memory_map \ {a.frame}
      /\ _mmngr_used_blocks' = _mmngr_used_blocks - 1
      /\ allocs' = allocs \ {a}
      /\ owners' = [f \in Frames |-> IF f = a.frame THEN owners[f] - 1 ELSE owners[f]]
  BY <1>2 DEF pmmngr_free_blocks, map, count
<1>4. HeldOnce'
  <2> SUFFICES ASSUME NEW f \in Frames
               PROVE  owners'[f] = IF [frame |-> f, size |-> 1] \in allocs' THEN 1 ELSE 0
    BY DEF HeldOnce
  <2>1. CASE f = a.frame
    BY <1>1, <1>3, <2>1 DEF IInv, HeldOnce
  <2>2. CASE f # a.frame
    BY <1>1, <1>3, <2>2 DEF IInv, HeldOnce
  <2> QED
    BY <2>1, <2>2
<1>5. TypeOK'
  <2>1. \A f \in Frames : owners'[f] = 0 \/ owners'[f] = 1
    BY <1>4 DEF HeldOnce
  <2>2. owners' = [f \in Frames |-> owners'[f]]
    BY <1>3
  <2>3. owners' \in [Frames -> Nat]
    BY <2>1, <2>2
  <2>4. UNCHANGED <<phase, region>> /\ refused' \in BOOLEAN
    BY <1>3
  <2>5. _mmngr_memory_map' \subseteq 0..(Span - 1)
    BY <1>3 DEF IInv, TypeOK
  <2>7. _mmngr_used_blocks' \in Int
    BY <1>3 DEF IInv, TypeOK
  <2>6. allocs' \subseteq [frame : Nat, size : Nat]
    BY <1>3 DEF IInv, TypeOK
  <2> QED
    BY <2>3, <2>4, <2>5, <2>6, <2>7 DEF IInv, TypeOK
<1>6. HeldMarked'
  <2> SUFFICES ASSUME NEW b \in allocs, b # a
               PROVE  b.frame \in _mmngr_memory_map /\ b.frame # a.frame
    BY <1>3 DEF IInv, HeldMarked
  <2>1. b = [frame |-> b.frame, size |-> 1] /\ b.frame \in _mmngr_memory_map
    BY DEF IInv, HeldMarked
  <2> QED
    BY <1>1, <2>1
<1>7. ReservedMarked'
  BY <1>1, <1>3 DEF IInv, ReservedMarked, Reserved
<1> QED
  BY <1>4, <1>5, <1>6, <1>7 DEF IInv

LEMMA StepInv ==
  ASSUME Single, IInv, [Next]_vars
  PROVE  IInv'
<1>1. CASE UNCHANGED vars
  BY <1>1 DEF IInv, TypeOK, HeldMarked, HeldOnce, ReservedMarked, vars
<1>2. CASE Boot
  BY <1>2, BootInv
<1>3. CASE phase = "run" /\ Alloc /\ UNCHANGED <<phase, region>>
  <2>1. pmmngr_alloc_block
    BY <1>3 DEF Alloc, Single
  <2>2. Refuse \/ \E frame \in mmap_first_free(Clear) : frame # -1 /\ Give(frame, 1)
    BY <2>1 DEF pmmngr_alloc_block
  <2> QED
    BY <1>3, <2>2, RefuseInv, GiveInv
<1>4. CASE phase = "run" /\ Free /\ UNCHANGED <<phase, region>>
  BY <1>4, FreeInv DEF Free
<1> QED
  BY <1>1, <1>2, <1>3, <1>4 DEF Next, Run

LEMMA Inductive == Single /\ Spec => []IInv
<1>1. Init => IInv
  BY InitInv
<1>2. Single /\ IInv /\ [Next]_vars => IInv'
  BY StepInv
<1>3. Single => []Single
  BY DEF Single
<1> QED
  BY <1>1, <1>2, <1>3, PTL DEF Spec

\* Every variable has its type, and so no region or frame leaves the map.
THEOREM TypeCorrect == Single /\ Spec => []TypeOK
<1>1. IInv => TypeOK
  BY DEF IInv
<1> QED
  BY <1>1, Inductive, PTL

\* Two callers never hold the same frame, whatever they allocate and free one
\* block at a time, on every memory map.
THEOREM NoFrameShared == Single /\ Spec => []SingleOwner
<1>1. IInv => SingleOwner
  <2> SUFFICES ASSUME IInv, NEW f \in Frames
               PROVE  owners[f] <= 1
    BY DEF SingleOwner
  <2>1. owners[f] = 0 \/ owners[f] = 1
    BY DEF IInv, HeldOnce
  <2> QED
    BY <2>1
<1> QED
  BY <1>1, Inductive, PTL

\* The whole blocks of the kernel and of low memory, and frame 0, are never
\* handed out and never freed.
THEOREM BootKept == Single /\ Spec => []ReservedKept
<1>1. IInv => ReservedKept
  <2> SUFFICES ASSUME IInv, NEW a \in allocs
               PROVE  FramesOf(a) \cap (Reserved \cup {0}) = {}
    BY DEF ReservedKept
  <2>1. a.frame \in Int /\ a = [frame |-> a.frame, size |-> 1]
    BY SpanNat DEF IInv, HeldMarked
  <2>2. FramesOf(a) = {a.frame}
    BY <2>1, FramesOfOne
  <2>3. a.frame \notin Reserved \cup {0}
    BY DEF IInv, ReservedMarked
  <2> QED
    BY <2>2, <2>3
<1> QED
  BY <1>1, Inductive, PTL

-----------------------------------------------------------------------------
(* The count of the frames in use *)

\* When the machine is what the boot expects, the count and the map agree from
\* pmmngr_init() on: what the count says is free is what has been made available
\* and is not held; and the bits of these frames are clear, but for frame 0.
\* Other bits may be clear too, of holes and beyond the memory; the count is
\* what keeps the search from them.
Enabled(k) == UNION {Blocks(Regions[n]) : n \in 1..k}
SetAside   == IF phase = "run" THEN Reserved ELSE IF phase = "low" THEN Blocks(Kernel) ELSE {}
Offered    == Enabled(region) \ SetAside
Held       == {f \in Frames : owners[f] > 0}

Counted ==
  phase # "off" => _mmngr_max_blocks - count = Cardinality(Offered) - Cardinality(Held)
OfferedClear == phase # "off" => \A f \in Offered \ Held : f = 0 \/ f \notin map
RegionsFirst ==
  /\ phase = "off" => region = 0
  /\ phase \in {"kernel", "low", "run"} => region = Len(Regions)
NeverOver == Cardinality(Held) <= Cardinality(Offered)
AllExist  == \A a \in allocs : a.frame \in 0..(Top - 1)

CountInv ==
  /\ IInv /\ Counted /\ OfferedClear /\ RegionsFirst
  /\ phase = "run" => NeverOver
  /\ AllExist
  /\ refused => phase = "run" /\ Cardinality(Held) >= Cardinality(Offered)

LEMMA EnabledFinite ==
  ASSUME NEW k \in 0..Len(Regions)
  PROVE  /\ Enabled(k) \subseteq Available /\ Enabled(k) \subseteq 0..(Span - 1)
         /\ IsFiniteSet(Enabled(k)) /\ Cardinality(Enabled(k)) \in Nat
<1>1. Enabled(k) \subseteq Available
  <2>1. 1..k \subseteq 1..Len(Regions)
    BY RegionAssumption
  <2> QED
    BY <2>1 DEF Enabled, Available
<1>2. Enabled(k) \subseteq 0..(Span - 1)
  BY <1>1, RegionAssumption
<1>3. IsFiniteSet(0..(Span - 1))
  BY SpanNat, FS_Interval
<1>4. IsFiniteSet(Enabled(k))
  BY <1>2, <1>3, FS_Subset
<1> QED
  BY <1>1, <1>2, <1>4, FS_CardinalityType

LEMMA EnabledAll ==
  Enabled(0) = {} /\ Enabled(Len(Regions)) = Available
<1>1. 1..0 = {}
  OBVIOUS
<1> QED
  BY <1>1 DEF Enabled, Available

\* One region more: its blocks are new.
LEMMA EnabledNext ==
  ASSUME BootedAsMapped, NEW k \in 0..Len(Regions), k < Len(Regions)
  PROVE  /\ Enabled(k + 1) = Enabled(k) \cup Blocks(Regions[k + 1])
         /\ Cardinality(Enabled(k + 1)) = Cardinality(Enabled(k)) + Cardinality(Blocks(Regions[k + 1]))
<1>1. Len(Regions) \in Nat /\ k \in Nat /\ k + 1 \in 1..Len(Regions)
  BY RegionAssumption
<1>2. 1..(k + 1) = 1..k \cup {k + 1} /\ k + 1 \notin 1..k /\ 1..k \subseteq 1..Len(Regions)
  BY <1>1
<1>3. Enabled(k + 1) = Enabled(k) \cup Blocks(Regions[k + 1])
  BY <1>2 DEF Enabled
<1>4. Enabled(k) \cap Blocks(Regions[k + 1]) = {}
  <2> SUFFICES ASSUME NEW f \in Enabled(k), f \in Blocks(Regions[k + 1])
               PROVE  FALSE
    OBVIOUS
  <2>1. PICK n \in 1..k : f \in Blocks(Regions[n])
    BY DEF Enabled
  <2>2. n \in 1..Len(Regions) /\ n # k + 1
    BY <1>2, <2>1
  <2>3. Blocks(Regions[n]) \cap Blocks(Regions[k + 1]) = {}
    BY <1>1, <2>2 DEF BootedAsMapped
  <2> QED
    BY <2>1, <2>3
<1>5. IsFiniteSet(Enabled(k)) /\ Cardinality(Enabled(k)) \in Nat
  BY EnabledFinite
<1>6. IsFiniteSet(Blocks(Regions[k + 1])) /\ Cardinality(Blocks(Regions[k + 1])) \in Nat
  <2>1. k + 1 \in 0..Len(Regions)
    BY <1>1
  <2>2. Blocks(Regions[k + 1]) \subseteq Enabled(k + 1)
    BY <1>3
  <2> QED
    BY <2>1, <2>2, EnabledFinite, FS_Subset, FS_CardinalityType
<1>7. Cardinality(Enabled(k) \cup Blocks(Regions[k + 1]))
        = Cardinality(Enabled(k)) + Cardinality(Blocks(Regions[k + 1]))
            - Cardinality(Enabled(k) \cap Blocks(Regions[k + 1]))
  BY <1>5, <1>6, FS_Union
<1>8. Cardinality(Enabled(k) \cap Blocks(Regions[k + 1])) = 0
  BY <1>4, FS_EmptySet
<1>9. \A a, b \in Nat : \A s, z : s = a + b - z /\ z = 0 => s = a + b
  OBVIOUS
<1>10. Cardinality(Enabled(k) \cup Blocks(Regions[k + 1]))
         = Cardinality(Enabled(k)) + Cardinality(Blocks(Regions[k + 1]))
  BY <1>5, <1>6, <1>7, <1>8, <1>9
<1> QED
  BY <1>3, <1>10

\* A part of a finite set taken away.
LEMMA PartAway ==
  ASSUME NEW S, NEW T, IsFiniteSet(S), T \subseteq S
  PROVE  /\ IsFiniteSet(S \ T) /\ IsFiniteSet(T)
         /\ Cardinality(S) \in Nat /\ Cardinality(T) \in Nat
         /\ Cardinality(S \ T) = Cardinality(S) - Cardinality(T)
<1>1. IsFiniteSet(T) /\ Cardinality(S) \in Nat /\ Cardinality(T) \in Nat
  BY FS_Subset, FS_CardinalityType
<1>2. S \cap T = T
  OBVIOUS
<1> QED
  BY <1>1, <1>2, FS_Difference

LEMMA HeldFinite ==
  ASSUME IInv
  PROVE  /\ IsFiniteSet(Held) /\ Cardinality(Held) \in Nat /\ Held \subseteq Frames
         /\ \A f \in Frames : f \in Held <=> [frame |-> f, size |-> 1] \in allocs
         /\ allocs = {} => Held = {} /\ Cardinality(Held) = 0
<1>1. Held \subseteq Frames
  BY DEF Held
<1>2. IsFiniteSet(Frames)
  <2>1. 2 * Span \in Int
    BY SpanNat
  <2> QED
    BY <2>1, FS_Interval DEF Frames
<1>3. IsFiniteSet(Held) /\ Cardinality(Held) \in Nat
  BY <1>1, <1>2, FS_Subset, FS_CardinalityType
<1>4. ASSUME NEW f \in Frames
      PROVE  f \in Held <=> [frame |-> f, size |-> 1] \in allocs
  <2>1. owners[f] = IF [frame |-> f, size |-> 1] \in allocs THEN 1 ELSE 0
    BY DEF IInv, HeldOnce
  <2>2. f \in Held <=> owners[f] > 0
    BY DEF Held
  <2> QED
    BY <2>1, <2>2
<1>5. allocs = {} => Held = {}
  BY <1>1, <1>4
<1> QED
  BY <1>1, <1>3, <1>4, <1>5, FS_EmptySet

LEMMA OfferedFinite ==
  ASSUME IInv
  PROVE  /\ IsFiniteSet(Offered) /\ Cardinality(Offered) \in Nat
         /\ Offered \subseteq Available /\ Offered \subseteq 0..(Span - 1)
<1>1. region \in 0..Len(Regions)
  BY DEF IInv, TypeOK
<1>2. Offered \subseteq Enabled(region)
  BY DEF Offered
<1> QED
  BY <1>1, <1>2, EnabledFinite, FS_Subset, FS_CardinalityType

\* What is offered once the boot is over: nothing of it is frame 0.
LEMMA OfferedAtRun ==
  ASSUME CountInv, phase = "run"
  PROVE  Offered = Available \ Reserved /\ 0 \notin Offered
<1>1. Offered = Available \ Reserved
  BY EnabledAll DEF CountInv, RegionsFirst, Offered, SetAside
<1>2. 0 \in Reserved
  BY RegionAssumption DEF Reserved
<1> QED
  BY <1>1, <1>2

\* As long as the count says something is free, some frame that exists is free.
LEMMA FreeFrameExists ==
  ASSUME BootedAsMapped, CountInv, phase = "run", MoreFreeThan(0)
  PROVE  /\ Cardinality(Held) + 1 <= Cardinality(Offered)
         /\ \E f \in Clear : f \in 0..(Top - 1)
<1>1. /\ IInv /\ Cardinality(Held) \in Nat /\ Cardinality(Offered) \in Nat
      /\ IsFiniteSet(Held) /\ IsFiniteSet(Offered)
      /\ Cardinality(Held) <= Cardinality(Offered)
  BY HeldFinite, OfferedFinite DEF CountInv, NeverOver
<1>2. _mmngr_max_blocks \in Int /\ count \in Int
  BY <1>1, SizeAssumption DEF IInv, TypeOK, count, _mmngr_max_blocks
<1>3. _mmngr_max_blocks - count = Cardinality(Offered) - Cardinality(Held)
  BY DEF CountInv, Counted
<1>4. count > _mmngr_max_blocks \/ _mmngr_max_blocks - count > 0
  BY DEF MoreFreeThan
<1>5. Cardinality(Held) + 1 <= Cardinality(Offered)
  <2>1. \A a, b \in Nat : \A m, n \in Int :
          m - n = b - a /\ a <= b /\ (n > m \/ m - n > 0) => a + 1 <= b
    OBVIOUS
  <2> QED
    BY <1>1, <1>2, <1>3, <1>4, <2>1
<1>6. ~ (Offered \subseteq Held)
  <2> SUFFICES ASSUME Offered \subseteq Held
               PROVE  FALSE
    OBVIOUS
  <2>1. Cardinality(Offered) <= Cardinality(Held)
    BY <1>1, FS_Subset
  <2> QED
    BY <1>1, <1>5, <2>1
<1>7. PICK f \in Offered : f \notin Held
  BY <1>6
<1>8. f # 0 /\ f \in Available /\ f \in 0..(Span - 1)
  BY <1>1, <1>7, OfferedAtRun, OfferedFinite
<1>9. f \notin map
  BY <1>7, <1>8 DEF CountInv, OfferedClear
<1>10. f \in Clear /\ f \in 0..(Top - 1)
  BY <1>8, <1>9 DEF Clear, BootedAsMapped
<1> QED
  BY <1>5, <1>10

LEMMA CountInit ==
  Init => CountInv
<1> SUFFICES ASSUME Init
             PROVE  CountInv
  OBVIOUS
<1>1. IInv
  BY InitInv
<1>2. phase = "off" /\ region = 0 /\ allocs = {} /\ refused = FALSE
  BY DEF Init
<1> QED
  BY <1>1, <1>2 DEF CountInv, Counted, OfferedClear, RegionsFirst, AllExist

\* What the boot changes of the count: nobody holds a frame yet.
LEMMA CountBoot ==
  ASSUME BootedAsMapped, CountInv, Boot
  PROVE  CountInv'
<1>1. /\ IInv /\ IInv' /\ UNCHANGED <<allocs, owners, refused>>
      /\ phase # "run" /\ allocs = {}
  <2>1. IInv /\ IInv'
    BY BootInv DEF CountInv
  <2> QED
    BY <2>1 DEF IInv, ReservedMarked, Boot, pmmngr_init, pmmngr_init_region,
       RegionsDone, pmmngr_deinit_region, Deinit
<1>2. Held = {} /\ Held' = {} /\ Cardinality(Held) = 0 /\ Cardinality(Held') = 0
  <2>1. Held = {}
    BY <1>1, HeldFinite
  <2>2. Held' = Held
    BY <1>1 DEF Held
  <2> QED
    BY <2>1, <2>2, FS_EmptySet
<1>3. refused' = FALSE /\ AllExist'
  BY <1>1 DEF CountInv, AllExist
<1>4. _mmngr_max_blocks \in Int /\ _mmngr_used_blocks \in Int /\ region \in 0..Len(Regions)
  BY <1>1, SizeAssumption DEF IInv, TypeOK, _mmngr_max_blocks
<1>5. /\ IsFiniteSet(Offered) /\ Cardinality(Offered) \in Nat
      /\ phase # "off" => /\ _mmngr_max_blocks - _mmngr_used_blocks = Cardinality(Offered)
                          /\ \A f \in Offered : f = 0 \/ f \notin _mmngr_memory_map
  <2>1. IsFiniteSet(Offered) /\ Cardinality(Offered) \in Nat
    BY <1>1, OfferedFinite
  <2>2. ASSUME phase # "off"
        PROVE  _mmngr_max_blocks - _mmngr_used_blocks = Cardinality(Offered)
    <3>1. _mmngr_max_blocks - _mmngr_used_blocks = Cardinality(Offered) - 0
      BY <1>2, <2>2 DEF CountInv, Counted, count
    <3>2. \A n \in Nat : n - 0 = n
      OBVIOUS
    <3> QED
      BY <2>1, <3>1, <3>2
  <2>3. ASSUME phase # "off"
        PROVE  \A f \in Offered : f = 0 \/ f \notin _mmngr_memory_map
    BY <1>2, <2>3 DEF CountInv, OfferedClear, map
  <2> QED
    BY <2>1, <2>2, <2>3
<1>6. SUFFICES /\ RegionsFirst' /\ phase' # "off"
               /\ Cardinality(Offered') \in Nat
               /\ _mmngr_max_blocks - _mmngr_used_blocks' = Cardinality(Offered')
               /\ \A f \in Offered' : f = 0 \/ f \notin _mmngr_memory_map'
  <2>1. ASSUME Cardinality(Offered') \in Nat
        PROVE  Cardinality(Offered') - 0 = Cardinality(Offered') /\ 0 <= Cardinality(Offered')
    <3>1. \A n \in Nat : n - 0 = n /\ 0 <= n
      OBVIOUS
    <3> QED
      BY <2>1, <3>1
  <2> QED
    BY <1>1, <1>2, <1>3, <2>1 DEF CountInv, Counted, OfferedClear, NeverOver, count, map
<1>7. CASE pmmngr_init
  <2>1. /\ phase = "off" /\ phase' = "regions" /\ region' = region
        /\ _mmngr_used_blocks' = _mmngr_max_blocks
    BY <1>7 DEF pmmngr_init
  <2>2. region' = 0
    BY <2>1 DEF CountInv, RegionsFirst
  <2>3. Offered' = {}
    BY <2>1, <2>2, EnabledAll DEF Offered, Enabled
  <2>4. RegionsFirst'
    BY <2>1 DEF RegionsFirst
  <2>5. Cardinality(Offered') = 0
    BY <2>3, FS_EmptySet
  <2>6. _mmngr_max_blocks - _mmngr_used_blocks' = 0
    BY <1>4, <2>1
  <2> QED
    BY <2>1, <2>3, <2>4, <2>5, <2>6
<1>8. CASE pmmngr_init_region
  <2> DEFINE r == Regions[region + 1]
  <2>1. /\ phase = "regions" /\ phase' = "regions" /\ region' = region + 1
        /\ region < Len(Regions)
        /\ _mmngr_memory_map' = (_mmngr_memory_map \ Blocks(r)) \cup {0}
        /\ _mmngr_used_blocks' = _mmngr_used_blocks - Cardinality(Blocks(r))
    BY <1>8 DEF pmmngr_init_region, map, count
  <2>2. Offered = Enabled(region) /\ Offered' = Enabled(region')
    BY <2>1 DEF Offered, SetAside, Enabled
  <2>3. /\ Offered' = Offered \cup Blocks(r)
        /\ Cardinality(Offered') = Cardinality(Offered) + Cardinality(Blocks(r))
    BY <1>4, <2>1, <2>2, EnabledNext
  <2>4. Cardinality(Blocks(r)) \in Nat
    <3>1. region + 1 \in 1..Len(Regions)
      BY <1>4, <2>1, RegionAssumption
    <3> QED
      BY <3>1, BlocksFinite, RegionAssumption
  <2>5. /\ _mmngr_max_blocks - _mmngr_used_blocks' = Cardinality(Offered')
        /\ Cardinality(Offered') \in Nat
    <3>1. \A m, u, o, b : m \in Int /\ u \in Int /\ o \in Nat /\ b \in Nat /\ m - u = o
            => m - (u - b) = o + b /\ o + b \in Nat
      OBVIOUS
    <3>2. _mmngr_max_blocks - _mmngr_used_blocks = Cardinality(Offered)
      BY <1>5, <2>1
    <3> HIDE DEF r
    <3> QED
      BY <1>4, <1>5, <2>1, <2>3, <2>4, <3>1, <3>2
  <2>6. RegionsFirst'
    BY <2>1 DEF RegionsFirst
  <2>7. \A f \in Offered' : f = 0 \/ f \notin _mmngr_memory_map'
    BY <1>5, <2>1, <2>3
  <2> QED
    BY <2>1, <2>5, <2>6, <2>7
<1>9. CASE RegionsDone
  <2>1. /\ phase = "regions" /\ phase' = "kernel" /\ region = Len(Regions) /\ region' = region
        /\ UNCHANGED <<_mmngr_memory_map, _mmngr_used_blocks>>
    BY <1>9 DEF RegionsDone
  <2>2. Offered' = Offered
    BY <2>1 DEF Offered, SetAside, Enabled
  <2> QED
    BY <1>5, <2>1, <2>2 DEF RegionsFirst
<1>10. ASSUME NEW r \in {Kernel, Low}, Deinit(r), phase' \in {"low", "run"},
              region = Len(Regions),
              Blocks(r) \subseteq Offered, Offered' = Offered \ Blocks(r), phase # "off"
       PROVE  /\ RegionsFirst' /\ phase' # "off"
              /\ Cardinality(Offered') \in Nat
              /\ _mmngr_max_blocks - _mmngr_used_blocks' = Cardinality(Offered')
              /\ \A f \in Offered' : f = 0 \/ f \notin _mmngr_memory_map'
  <2>1. /\ region' = region
        /\ _mmngr_memory_map' = _mmngr_memory_map \cup Blocks(r) \cup {0}
        /\ _mmngr_used_blocks' = _mmngr_used_blocks + Cardinality(Blocks(r))
    BY <1>10 DEF Deinit, map, count
  <2>2. /\ Cardinality(Blocks(r)) \in Nat
        /\ Cardinality(Offered') = Cardinality(Offered) - Cardinality(Blocks(r))
        /\ Cardinality(Offered') \in Nat
    <3>1. IsFiniteSet(Offered')
      BY <1>5, <1>10, PartAway
    <3> QED
      BY <1>5, <1>10, <3>1, PartAway, FS_CardinalityType
  <2>3. _mmngr_max_blocks - _mmngr_used_blocks' = Cardinality(Offered')
    <3>1. \A m, u, o, b : m \in Int /\ u \in Int /\ o \in Nat /\ b \in Nat /\ m - u = o
            => m - (u + b) = o - b
      OBVIOUS
    <3>2. _mmngr_max_blocks - _mmngr_used_blocks = Cardinality(Offered)
      BY <1>5, <1>10
    <3> QED
      BY <1>4, <1>5, <2>1, <2>2, <3>1, <3>2
  <2>4. RegionsFirst'
    BY <1>10, <2>1 DEF RegionsFirst
  <2>5. \A f \in Offered' : f = 0 \/ f \notin _mmngr_memory_map'
    BY <1>5, <1>10, <2>1
  <2> QED
    BY <1>10, <2>2, <2>3, <2>4, <2>5
<1>11. CASE phase = "kernel" /\ phase' = "low" /\ Deinit(Kernel)
  <2>1. region = Len(Regions) /\ region' = region
    BY <1>11 DEF CountInv, RegionsFirst, Deinit
  <2>2. Offered = Available /\ Offered' = Available \ Blocks(Kernel)
    BY <1>11, <2>1, EnabledAll DEF Offered, SetAside, Enabled
  <2>3. Blocks(Kernel) \subseteq Offered
    BY <2>2 DEF BootedAsMapped, Reserved
  <2> QED
    BY <1>10, <1>11, <2>1, <2>2, <2>3
<1>12. CASE phase = "low" /\ phase' = "run" /\ Deinit(Low)
  <2>1. region = Len(Regions) /\ region' = region
    BY <1>12 DEF CountInv, RegionsFirst, Deinit
  <2>2. Offered = Available \ Blocks(Kernel) /\ Offered' = Available \ Reserved
    BY <1>12, <2>1, EnabledAll DEF Offered, SetAside, Enabled
  <2>3. Blocks(Low) \subseteq Offered /\ Offered' = Offered \ Blocks(Low)
    BY <2>2 DEF BootedAsMapped, Reserved
  <2> QED
    BY <1>10, <1>12, <2>1, <2>3
<1> QED
  BY <1>7, <1>8, <1>9, <1>11, <1>12 DEF Boot, pmmngr_deinit_region

\* Nothing is given: the count says that nothing is free, or no bit is clear;
\* either way callers hold all that is offered.
LEMMA CountRefuse ==
  ASSUME CountInv, phase = "run", UNCHANGED <<phase, region>>, Refuse,
         ~MoreFreeThan(0) \/ Clear = {}
  PROVE  CountInv'
<1>1. /\ UNCHANGED <<_mmngr_memory_map, _mmngr_used_blocks, allocs, owners>> /\ IInv /\ IInv'
  BY RefuseInv DEF CountInv, Refuse
<1>2. Offered' = Offered /\ Held' = Held
  BY <1>1 DEF Offered, SetAside, Enabled, Held
<1>3. /\ Cardinality(Held) \in Nat /\ Cardinality(Offered) \in Nat
      /\ IsFiniteSet(Held) /\ Offered \subseteq 0..(Span - 1)
  BY <1>1, HeldFinite, OfferedFinite
<1>4. Cardinality(Held) >= Cardinality(Offered)
  <2>1. CASE ~MoreFreeThan(0)
    <3>1. _mmngr_max_blocks \in Int /\ count \in Int
      BY <1>1, SizeAssumption DEF IInv, TypeOK, count, _mmngr_max_blocks
    <3>2. _mmngr_max_blocks - count = Cardinality(Offered) - Cardinality(Held)
      BY DEF CountInv, Counted
    <3>3. ~(_mmngr_max_blocks - count > 0)
      BY <2>1 DEF MoreFreeThan
    <3>4. \A a, b \in Nat : \A m, n \in Int : m - n = b - a /\ ~(m - n > 0) => a >= b
      OBVIOUS
    <3> QED
      BY <1>3, <3>1, <3>2, <3>3, <3>4
  <2>2. CASE Clear = {}
    <3>1. Offered \subseteq Held
      <4> SUFFICES ASSUME NEW f \in Offered, f \notin Held
                   PROVE  FALSE
        OBVIOUS
      <4>1. f # 0 /\ f \in 0..(Span - 1)
        BY <1>3, OfferedAtRun
      <4>2. f \notin map
        BY <4>1 DEF CountInv, OfferedClear
      <4> QED
        BY <2>2, <4>1, <4>2 DEF Clear
    <3>2. Cardinality(Offered) <= Cardinality(Held)
      BY <1>3, <3>1, FS_Subset
    <3> QED
      BY <1>3, <3>2
  <2> QED
    BY <2>1, <2>2
<1>5. Counted' /\ OfferedClear' /\ RegionsFirst' /\ NeverOver'
  BY <1>1, <1>2 DEF CountInv, Counted, OfferedClear, RegionsFirst, NeverOver, count, map
<1>6. AllExist'
  BY <1>1 DEF CountInv, AllExist
<1> QED
  BY <1>1, <1>2, <1>4, <1>5, <1>6 DEF CountInv

\* One frame is held and counted more: it lies at or below one that exists.
LEMMA CountGive ==
  ASSUME BootedAsMapped, CountInv, phase = "run", UNCHANGED <<phase, region>>,
         MoreFreeThan(0), NEW frame \in mmap_first_free(Clear), frame # -1, Give(frame, 1)
  PROVE  CountInv'
<1> DEFINE a == [frame |-> frame, size |-> 1]
<1>1. /\ IInv /\ IInv' /\ frame \in 0..(Span - 1) /\ frame \notin _mmngr_memory_map
      /\ frame \in Nat /\ frame \in Frames
  BY GiveInv, FirstFreeIsClear, SpanNat, SpanFrames DEF CountInv
<1>2. /\ refused' = FALSE
      /\ _mmngr_memory_map' = _mmngr_memory_map \cup {frame}
      /\ _mmngr_used_blocks' = _mmngr_used_blocks + 1
      /\ allocs' = allocs \cup {a}
  <2>1. FramesOf(a) = {frame}
    BY <1>1, FramesOfOne
  <2> QED
    BY <2>1 DEF Give, map, count
<1>3. a \notin allocs
  BY <1>1 DEF IInv, HeldMarked
<1>4. frame \notin Held /\ Held' = Held \cup {frame}
  <2>1. \A f \in Frames : f \in Held <=> [frame |-> f, size |-> 1] \in allocs
    BY <1>1, HeldFinite
  <2>2. \A f \in Frames : f \in Held' <=> [frame |-> f, size |-> 1] \in allocs'
    <3> SUFFICES ASSUME NEW f \in Frames
                 PROVE  f \in Held' <=> [frame |-> f, size |-> 1] \in allocs'
      OBVIOUS
    <3>1. owners'[f] = IF [frame |-> f, size |-> 1] \in allocs' THEN 1 ELSE 0
      BY <1>1 DEF IInv, HeldOnce
    <3>2. f \in Held' <=> owners'[f] > 0
      BY DEF Held
    <3> QED
      BY <3>1, <3>2
  <2>3. \A f : [frame |-> f, size |-> 1] = a <=> f = frame
    OBVIOUS
  <2>4. Held \subseteq Frames /\ Held' \subseteq Frames
    BY DEF Held
  <2> QED
    BY <1>1, <1>2, <1>3, <2>1, <2>2, <2>3, <2>4
<1>5. /\ Cardinality(Held) \in Nat /\ Cardinality(Offered) \in Nat
      /\ Cardinality(Held') = Cardinality(Held) + 1
  BY <1>1, <1>4, HeldFinite, OfferedFinite, FS_AddElement
<1>6. Offered' = Offered
  BY DEF Offered, SetAside, Enabled
<1>7. /\ Cardinality(Held) + 1 <= Cardinality(Offered)
      /\ \E f \in Clear : f \in 0..(Top - 1)
  BY FreeFrameExists
<1>8. Counted'
  <2>1. _mmngr_max_blocks \in Int /\ _mmngr_used_blocks \in Int
    BY <1>1, SizeAssumption DEF IInv, TypeOK, _mmngr_max_blocks
  <2>2. _mmngr_max_blocks - _mmngr_used_blocks = Cardinality(Offered) - Cardinality(Held)
    BY DEF CountInv, Counted, count
  <2>3. \A m, u, o, h : m \in Int /\ u \in Int /\ o \in Nat /\ h \in Nat /\ m - u = o - h
          => m - (u + 1) = o - (h + 1)
    OBVIOUS
  <2>4. _mmngr_max_blocks - _mmngr_used_blocks' = Cardinality(Offered') - Cardinality(Held')
    BY <1>2, <1>5, <1>6, <2>1, <2>2, <2>3
  <2> QED
    BY <2>4 DEF Counted, count
<1>9. OfferedClear'
  <2>1. \A f \in Offered \ Held : f = 0 \/ f \notin _mmngr_memory_map
    BY DEF CountInv, OfferedClear, map
  <2>2. \A f \in Offered' \ Held' : f = 0 \/ f \notin _mmngr_memory_map'
    BY <1>2, <1>4, <1>6, <2>1
  <2> QED
    BY <2>2 DEF OfferedClear, map
<1>10. RegionsFirst' /\ NeverOver'
  BY <1>5, <1>6, <1>7 DEF CountInv, RegionsFirst, NeverOver
<1>11. AllExist'
  <2>1. frame \in 0..(Top - 1)
    <3>1. PICK f \in Clear : f \in 0..(Top - 1)
      BY <1>7
    <3>2. frame \in Clear /\ frame <= f
      BY <3>1 DEF mmap_first_free
    <3>3. Top \in Nat
      BY SizeAssumption
    <3> QED
      BY <1>1, <3>1, <3>2, <3>3
  <2> QED
    BY <1>2, <2>1 DEF CountInv, AllExist
<1> QED
  BY <1>1, <1>2, <1>8, <1>9, <1>10, <1>11 DEF CountInv

\* One frame is held and counted less, and its bit is clear again.
LEMMA CountFree ==
  ASSUME CountInv, phase = "run", UNCHANGED <<phase, region>>,
         NEW a \in allocs, pmmngr_free_blocks(a)
  PROVE  CountInv'
<1>1. /\ IInv /\ IInv' /\ a.frame \in 0..(Span - 1) /\ a = [frame |-> a.frame, size |-> 1]
      /\ a.frame \in Frames
  <2>1. IInv /\ IInv'
    BY FreeInv DEF CountInv
  <2> QED
    BY <2>1, SpanFrames DEF IInv, HeldMarked
<1>2. /\ refused' = FALSE
      /\ _mmngr_memory_map' = _mmngr_memory_map \ {a.frame}
      /\ _mmngr_used_blocks' = _mmngr_used_blocks - 1
      /\ allocs' = allocs \ {a}
  <2>1. FramesOf(a) = {a.frame} /\ a.size = 1
    BY <1>1, FramesOfOne
  <2> QED
    BY <2>1 DEF pmmngr_free_blocks, map, count
<1>3. a.frame \in Held /\ Held' = Held \ {a.frame}
  <2>1. \A f \in Frames : f \in Held <=> [frame |-> f, size |-> 1] \in allocs
    BY <1>1, HeldFinite
  <2>2. \A f \in Frames : f \in Held' <=> [frame |-> f, size |-> 1] \in allocs'
    <3> SUFFICES ASSUME NEW f \in Frames
                 PROVE  f \in Held' <=> [frame |-> f, size |-> 1] \in allocs'
      OBVIOUS
    <3>1. owners'[f] = IF [frame |-> f, size |-> 1] \in allocs' THEN 1 ELSE 0
      BY <1>1 DEF IInv, HeldOnce
    <3>2. f \in Held' <=> owners'[f] > 0
      BY DEF Held
    <3> QED
      BY <3>1, <3>2
  <2>3. \A f : [frame |-> f, size |-> 1] = a <=> f = a.frame
    BY <1>1
  <2>4. Held \subseteq Frames /\ Held' \subseteq Frames
    BY DEF Held
  <2>5. a.frame \in Held
    BY <1>1, <2>1, <2>3
  <2>6. \A f \in Frames : f \in Held' <=> f \in Held /\ f # a.frame
    BY <1>2, <2>1, <2>2, <2>3
  <2> QED
    BY <2>4, <2>5, <2>6
<1>4. /\ Cardinality(Held) \in Nat /\ Cardinality(Offered) \in Nat
      /\ Cardinality(Held') = Cardinality(Held) - 1
  BY <1>1, <1>3, HeldFinite, OfferedFinite, FS_RemoveElement
<1>5. Offered' = Offered
  BY DEF Offered, SetAside, Enabled
<1>6. Counted'
  <2>1. _mmngr_max_blocks \in Int /\ _mmngr_used_blocks \in Int
    BY <1>1, SizeAssumption DEF IInv, TypeOK, _mmngr_max_blocks
  <2>2. _mmngr_max_blocks - _mmngr_used_blocks = Cardinality(Offered) - Cardinality(Held)
    BY DEF CountInv, Counted, count
  <2>3. \A m, u, o, h : m \in Int /\ u \in Int /\ o \in Nat /\ h \in Nat /\ m - u = o - h
          => m - (u - 1) = o - (h - 1)
    OBVIOUS
  <2>4. _mmngr_max_blocks - (_mmngr_used_blocks - 1) = Cardinality(Offered) - (Cardinality(Held) - 1)
    BY <1>4, <2>1, <2>2, <2>3
  <2>5. _mmngr_max_blocks - _mmngr_used_blocks' = Cardinality(Offered') - Cardinality(Held')
    BY <1>2, <1>4, <1>5, <2>4
  <2> QED
    BY <2>5 DEF Counted, count
<1>7. OfferedClear'
  <2>1. \A f \in Offered \ Held : f = 0 \/ f \notin _mmngr_memory_map
    BY DEF CountInv, OfferedClear, map
  <2>2. \A f \in Offered' \ Held' : f = 0 \/ f \notin _mmngr_memory_map'
    BY <1>2, <1>3, <1>5, <2>1
  <2> QED
    BY <2>2 DEF OfferedClear, map
<1>8. RegionsFirst' /\ NeverOver'
  <2>1. Cardinality(Held) <= Cardinality(Offered)
    BY DEF CountInv, NeverOver
  <2>2. \A h, o \in Nat : h <= o => h - 1 <= o
    OBVIOUS
  <2> QED
    BY <1>4, <1>5, <2>1, <2>2 DEF CountInv, RegionsFirst, NeverOver
<1>9. AllExist'
  BY <1>2 DEF CountInv, AllExist
<1> QED
  BY <1>1, <1>2, <1>6, <1>7, <1>8, <1>9 DEF CountInv

LEMMA CountStep ==
  ASSUME Single, BootedAsMapped, CountInv, [Next]_vars
  PROVE  CountInv'
<1>1. CASE UNCHANGED vars
  <2>1. UNCHANGED <<phase, region, _mmngr_memory_map, _mmngr_used_blocks, allocs, owners, refused>>
    BY <1>1 DEF vars
  <2>2. IInv'
    BY StepInv DEF CountInv
  <2>3. Offered' = Offered /\ Held' = Held
    BY <2>1 DEF Offered, SetAside, Enabled, Held
  <2> QED
    BY <2>1, <2>2, <2>3
    DEF CountInv, Counted, OfferedClear, RegionsFirst, NeverOver, AllExist, count, map
<1>2. CASE Boot
  BY <1>2, CountBoot
<1>3. CASE phase = "run" /\ Alloc /\ UNCHANGED <<phase, region>>
  <2>1. pmmngr_alloc_block
    BY <1>3 DEF Alloc, Single
  <2>2. CASE ~MoreFreeThan(0) /\ Refuse
    BY <1>3, <2>2, CountRefuse
  <2>3. ASSUME MoreFreeThan(0), NEW frame \in mmap_first_free(Clear),
               IF frame = -1 THEN Refuse ELSE Give(frame, 1)
        PROVE  CountInv'
    <3>1. CASE frame = -1
      <4>1. \A f \in Clear : f # -1
        BY SpanNat DEF Clear
      <4>2. Clear = {}
        BY <2>3, <3>1, <4>1 DEF mmap_first_free
      <4> QED
        BY <1>3, <2>3, <3>1, <4>2, CountRefuse
    <3>2. CASE frame # -1
      BY <1>3, <2>3, <3>2, CountGive
    <3> QED
      BY <3>1, <3>2
  <2> QED
    BY <2>1, <2>2, <2>3 DEF pmmngr_alloc_block
<1>4. CASE phase = "run" /\ Free /\ UNCHANGED <<phase, region>>
  BY <1>4, CountFree DEF Free
<1> QED
  BY <1>1, <1>2, <1>3, <1>4 DEF Next, Run

LEMMA CountInductive == Single /\ BootedAsMapped /\ Spec => []CountInv
<1>1. Init => CountInv
  BY CountInit
<1>2. Single /\ BootedAsMapped /\ CountInv /\ [Next]_vars => CountInv'
  BY CountStep
<1>3. Single /\ BootedAsMapped => [](Single /\ BootedAsMapped)
  <2>1. Single /\ BootedAsMapped => Single' /\ BootedAsMapped'
    BY DEF Single, BootedAsMapped
  <2> QED
    BY <2>1, PTL
<1> QED
  BY <1>1, <1>2, <1>3, PTL DEF Spec

\* On a machine as the boot expects it, whatever callers allocate and free one
\* block at a time, no frame is handed out that the machine does not have: the
\* count reaches 0 free before the search gets to the bits beyond the memory.
THEOREM OnlyExistingFrames == Single /\ BootedAsMapped /\ Spec => []FramesExist
<1>1. CountInv => FramesExist
  <2> SUFFICES ASSUME CountInv, NEW a \in allocs
               PROVE  FramesOf(a) \subseteq 0..(Top - 1)
    BY DEF FramesExist
  <2>1. a.frame \in Int /\ a = [frame |-> a.frame, size |-> 1]
    BY SpanNat DEF CountInv, IInv, HeldMarked
  <2>2. FramesOf(a) = {a.frame}
    BY <2>1, FramesOfOne
  <2> QED
    BY <2>2 DEF CountInv, AllExist
<1> QED
  BY <1>1, CountInductive, PTL

\* On such a machine the count and the map do not drift apart: an allocation is
\* refused only when callers hold as many frames as there are to hold.
THEOREM RefusesOnlyWhenFull == Single /\ BootedAsMapped /\ Spec => []RefusedOnlyWhenFull
<1>1. CountInv => RefusedOnlyWhenFull
  <2> SUFFICES ASSUME CountInv, refused
               PROVE  Cardinality(Held) >= Cardinality(Available \ Reserved)
    BY DEF RefusedOnlyWhenFull, Held
  <2>1. phase = "run" /\ Cardinality(Held) >= Cardinality(Offered)
    BY DEF CountInv
  <2> QED
    BY <2>1, OfferedAtRun
<1> QED
  BY <1>1, CountInductive, PTL

-----------------------------------------------------------------------------
(* Paging: what vmm.c has mapped, in module PageTables. *)

\* A set of numbers has a least one.
LEMMA LeastIs ==
  ASSUME NEW S, S \subseteq Nat, S # {}
  PROVE  Least(S) \in S /\ \A k \in S : Least(S) <= k
<1> DEFINE R == {ss \in Nat \X Nat : ss[1] < ss[2]}
<1>1. IsWellFoundedOn(R, Nat)
  BY NatLessThanWellFounded DEF OpToRel
<1> HIDE DEF R
<1>2. PICK x \in S : \A y \in S : ~ (<<y, x>> \in R)
  BY <1>1, WFMin
<1>3. ASSUME NEW y \in S
      PROVE  x <= y
  <2>1. ~ (y < x)
    BY <1>2 DEF R
  <2> QED
    BY <2>1
<1> QED
  BY <1>3 DEF Least

\* A set of numbers that has 0 and with each number the next has them all.
LEMMA InductNat ==
  ASSUME NEW S, 0 \in S, \A n \in Nat : n \in S => n + 1 \in S
  PROVE  Nat \subseteq S
<1> DEFINE Out == Nat \ S
<1> SUFFICES ASSUME Out # {}
             PROVE  FALSE
  OBVIOUS
<1>1. Least(Out) \in Out /\ \A k \in Out : Least(Out) <= k
  BY LeastIs
<1>2. Least(Out) - 1 \in Nat /\ Least(Out) - 1 \notin Out
  BY <1>1
<1> QED
  BY <1>1, <1>2

\* Division by the size of a table.
LEMMA DivMod ==
  ASSUME NEW k \in Nat \ {0}, NEW a \in Nat
  PROVE  /\ a \div k \in Nat /\ a % k \in 0..(k - 1)
         /\ a = k * (a \div k) + (a % k)
  OBVIOUS

\* A table further on begins at least one table further on.
LEMMA TimesMore ==
  ASSUME NEW k \in Nat \ {0}, NEW s \in Int, NEW t \in Int, s < t
  PROVE  k * s + k <= k * t
<1>1. k * (s + 1) = k * s + k
  OBVIOUS
<1>2. k * (s + 1) <= k * t
  OBVIOUS
<1> QED
  BY <1>1, <1>2

\* Quotient and remainder are what they are known to be.
LEMMA DivIs ==
  ASSUME NEW k \in Nat \ {0}, NEW a \in Nat, NEW t \in Nat, NEW i \in 0..(k - 1), a = k * t + i
  PROVE  a \div k = t /\ a % k = i
<1> DEFINE s == a \div k
           j == a % k
<1>1. s \in Nat /\ j \in 0..(k - 1) /\ a = k * s + j
  BY DivMod
<1> HIDE DEF s, j
<1>2. ~(s < t)
  BY <1>1, TimesMore
<1>3. ~(t < s)
  BY <1>1, TimesMore
<1>4. s = t
  BY <1>1, <1>2, <1>3
<1>5. j = i
  BY <1>1, <1>4
<1> QED
  BY <1>4, <1>5 DEF s, j

TableOf(q) == q \div PerTable

\* What the layout says of the sizes.
LEMMA PagingSizes ==
  ASSUME Layout
  PROVE  /\ PerTable \in Nat \ {0} /\ Tables \in Nat \ {0} /\ FrameCount \in Nat
         /\ KernelAt \in Index /\ KernelTable \in 1..(Tables - 1) /\ KernelTable \in Nat
         /\ MemFrames = 0..(FrameCount - 1) /\ Index = 0..(PerTable - 1) /\ FrameCount <= KernelTable * PerTable
         /\ Pages = 0..(Tables * PerTable - 1) /\ Pages \subseteq Nat
         /\ MemFrames \subseteq Nat /\ 0 \in Index /\ Above \in Nat
  BY DEF Layout, MemFrames, Index, Pages, Above

\* How a page compares with the first page of a table.
LEMMA Tabled ==
  ASSUME NEW k \in Nat \ {0}, NEW q \in Nat, NEW t \in Nat, NEW i \in 0..(k - 1), q = k * t + i,
         NEW u \in Nat
  PROVE  q < u * k <=> t < u
<1>1. u * k = k * u /\ k * u \in Nat /\ k * t \in Nat
  OBVIOUS
<1>2. t < u => k * t + k <= k * u
  BY TimesMore
<1>3. u < t => k * u + k <= k * t
  BY TimesMore
<1>4. u = t => k * u = k * t
  OBVIOUS
<1>5. t < u \/ u < t \/ u = t
  OBVIOUS
<1> DEFINE a == k * u
           b == k * t
<1> HIDE DEF a, b
<1>6. a \in Nat /\ b \in Nat /\ u * k = a /\ q = b + i
      /\ (t < u => b + k <= a) /\ (u < t => a + k <= b) /\ (u = t => a = b)
  BY <1>1, <1>2, <1>3, <1>4 DEF a, b
<1> QED
  BY <1>5, <1>6

\* A page by its table and its word: the first 4 MB are in table 0, what is behind
\* the kernel is in later tables, and frames beyond the first 4 MB in none.
LEMMA PageIs ==
  ASSUME Layout, NEW q \in Nat
  PROVE  /\ TableOf(q) \in Nat /\ q % PerTable \in Index /\ q = PerTable * TableOf(q) + (q % PerTable)
         /\ q \in Pages => TableOf(q) \in 0..(Tables - 1)
         /\ q \in Index => TableOf(q) = 0 /\ q % PerTable = q /\ q \in Pages
         /\ q >= Above => TableOf(q) > KernelTable
         /\ q \in MemFrames /\ q \notin Index =>
              TableOf(q) # 0 /\ TableOf(q) < KernelTable
<1>0. /\ PerTable \in Nat \ {0} /\ Tables \in Nat \ {0} /\ FrameCount \in Nat
      /\ KernelTable \in 1..(Tables - 1) /\ KernelTable \in Nat /\ 1 \in Nat /\ KernelTable + 1 \in Nat
  BY PagingSizes
<1>1. /\ TableOf(q) \in Nat /\ q % PerTable \in 0..(PerTable - 1)
      /\ q = PerTable * TableOf(q) + (q % PerTable)
  BY <1>0, DivMod DEF TableOf
<1>2. ASSUME NEW u \in Nat
      PROVE  q < u * PerTable <=> TableOf(q) < u
  BY <1>0, <1>1, Tabled
<1>3. q \in Pages => q < Tables * PerTable
  <2>1. Tables * PerTable \in Nat
    BY <1>0
  <2> QED
    BY <2>1 DEF Pages
<1>4. q \in Index => q < 1 * PerTable
  BY <1>0 DEF Index
<1>5. q < (KernelTable + 1) * PerTable <=> ~(q >= Above)
  <2>1. Above \in Nat /\ Above = (KernelTable + 1) * PerTable
    BY <1>0 DEF Above
  <2> QED
    BY <2>1
<1>6. q \in MemFrames => q < KernelTable * PerTable
  <2>1. FrameCount <= KernelTable * PerTable /\ KernelTable * PerTable \in Nat
    BY <1>0 DEF Layout
  <2> QED
    BY <1>0, <2>1 DEF MemFrames
<1>7. q < 1 * PerTable => q \in Index
  BY <1>0 DEF Index
<1>8. TableOf(q) < 1 <=> TableOf(q) = 0
  BY <1>1
<1>9. ASSUME TableOf(q) = 0
      PROVE  q % PerTable = q
  <2>1. PerTable * 0 = 0
    BY <1>0
  <2> QED
    BY <1>1, <1>9, <2>1
<1>10. q \in Index => q \in Pages
  <2>1. q < 1 * PerTable => q < Tables * PerTable
    BY <1>0, <1>1, <1>2
  <2>2. Tables * PerTable \in Nat
    BY <1>0
  <2> QED
    BY <1>4, <2>1, <2>2 DEF Pages
<1>11. q \in Pages => TableOf(q) \in 0..(Tables - 1)
  BY <1>0, <1>1, <1>2, <1>3
<1>12. q \in Index => TableOf(q) = 0
  BY <1>2, <1>4, <1>8
<1>13. q >= Above => TableOf(q) > KernelTable
  <2>1. TableOf(q) < KernelTable + 1 <=> ~(q >= Above)
    BY <1>0, <1>2, <1>5
  <2> QED
    BY <1>0, <1>1, <2>1
<1>14. q \in MemFrames /\ q \notin Index => TableOf(q) # 0 /\ TableOf(q) < KernelTable
  BY <1>0, <1>2, <1>6, <1>7, <1>8
<1> QED
  BY <1>1, <1>9, <1>10, <1>11, <1>12, <1>13, <1>14 DEF Index

\* The pages of the kernel are the words of its table.
LEMMA KernelPage ==
  ASSUME Layout, NEW i \in Index
  PROVE  /\ TableOf(KernelTable * PerTable + i) = KernelTable
         /\ (KernelTable * PerTable + i) % PerTable = i
         /\ KernelTable * PerTable + i \in Pages
<1>0. /\ PerTable \in Nat \ {0} /\ Tables \in Nat \ {0}
      /\ KernelTable \in 1..(Tables - 1) /\ KernelTable \in Nat /\ i \in 0..(PerTable - 1)
  BY PagingSizes DEF Index
<1>1. /\ KernelTable * PerTable = PerTable * KernelTable
      /\ KernelTable * PerTable \in Nat /\ Tables * PerTable \in Nat
  BY <1>0
<1>2. TableOf(KernelTable * PerTable + i) = KernelTable /\ (KernelTable * PerTable + i) % PerTable = i
  BY <1>0, <1>1, DivIs DEF TableOf
<1>3. KernelTable * PerTable + i < Tables * PerTable
  <2>1. KernelTable < Tables /\ KernelTable * PerTable + i \in Nat
    BY <1>0, <1>1
  <2> QED
    BY <1>0, <1>1, <2>1, Tabled
<1> QED
  BY <1>0, <1>1, <1>2, <1>3 DEF Pages

Spaces == 0..(Tables - 1)
Machines ==
  [at : {"off", "on", "halted", "failed", "astray"}, dir : [Spaces -> 0..FrameCount],
   mem : [MemFrames -> [Index -> Nat]], pd : Nat,
   free : SUBSET MemFrames, held : SUBSET MemFrames, passed : SUBSET Nat, hit : SUBSET Nat,
   short : BOOLEAN]

\* What was hit behind a table was passed over or nobody's, and lies in front of all
\* that is free.
HitOk(x) ==
  /\ x.hit \cap x.held \subseteq x.passed
  /\ \A f \in x.hit, g \in x.free : f < g

\* A machine that is in order: what is held is not free, and behind a free frame,
\* where clearing a table would reach it, only if that was passed over; the tables
\* are frames of their own, in front of all that is free, and those below the
\* kernel and of the kernel map what they are to map.
Sound(x) ==
  /\ x \in Machines /\ x.at = "on" /\ HitOk(x)
  /\ 0 \notin x.free \cup x.held /\ x.free \cap x.held = {}
  /\ \A f \in x.free : f + 1 \in x.held => f + 1 \in x.passed
  /\ \A t \in Spaces : x.dir[t] # 0 => \A f \in x.free : x.dir[t] - 1 < f
  /\ \A t \in Spaces : x.dir[t] # 0 => x.dir[t] - 1 \in x.held /\ (t = 0 \/ t >= KernelTable)
  /\ \A t, u \in Spaces : x.dir[t] # 0 /\ x.dir[t] = x.dir[u] => t = u
  /\ x.dir[0] # 0 /\ x.dir[KernelTable] # 0
  /\ \A i \in Index : x.mem[x.dir[0] - 1][i] = i + 1
  /\ \A i \in KernelAt..(PerTable - 1) : x.mem[x.dir[KernelTable] - 1][i] = i + 1

\* A machine that is not followed further, and if it halted, where it is claimed to.
Dead(x) ==
  /\ x.at \in {"halted", "failed", "astray"} /\ HitOk(x)
  /\ x.at = "halted" => \E t \in DOMAIN x.dir : x.dir[t] >= PerTable

\* The two tables of the boot.
LEMMA Kernels ==
  ASSUME Layout
  PROVE  /\ 0 \in Spaces /\ KernelTable \in Spaces /\ KernelTable \in Nat /\ KernelTable # 0
<1>1. Tables \in Nat /\ KernelTable \in 1..(Tables - 1)
  BY DEF Layout
<1> QED
  BY <1>1 DEF Spaces

\* No frame is the table of two entries.
LEMMA OwnTables ==
  ASSUME NEW x, Sound(x), NEW t \in Spaces, NEW u \in Spaces, x.dir[t] # 0, x.dir[t] = x.dir[u]
  PROVE  t = u
  BY DEF Sound

\* The word a page is translated by.
LEMMA EntryIs ==
  ASSUME NEW x, NEW q
  PROVE  Entry(x, q) =
           IF x.dir[TableOf(q)] = 0 THEN 0 ELSE x.mem[x.dir[TableOf(q)] - 1][q % PerTable]
  BY DEF Entry, TableOf

\* In a machine in order the first 4 MB are mapped to themselves, frames beyond
\* them cannot be reached, and the kernel is mapped to the kernel.
LEMMA SoundTables ==
  ASSUME Layout, NEW x, Sound(x)
  PROVE  /\ 0 \in Spaces /\ KernelTable \in Spaces /\ 0 \in MemFrames /\ DOMAIN x.dir = Spaces
         /\ \A t \in Spaces : x.dir[t] # 0 =>
              /\ x.dir[t] - 1 \in x.held /\ x.dir[t] - 1 \in MemFrames /\ x.dir[t] \in Nat
              /\ x.dir[t] - 1 # 0 /\ x.dir[t] - 1 \notin x.free
         /\ \A f \in Index : Entry(x, f) = f + 1
         /\ \A f \in MemFrames : f \notin Index => Entry(x, f) = 0
         /\ \A i \in KernelAt..(PerTable - 1) : Entry(x, KernelTable * PerTable + i) = i + 1
<1>1. /\ x.dir \in [Spaces -> 0..FrameCount] /\ x.held \subseteq MemFrames /\ x.free \cap x.held = {}
      /\ 0 \notin x.held
  BY DEF Sound, Machines
<1>2. 0 \in Spaces /\ KernelTable \in Spaces
  BY PagingSizes DEF Spaces
<1>3. ASSUME NEW t \in Spaces, x.dir[t] # 0
      PROVE  /\ x.dir[t] - 1 \in x.held /\ x.dir[t] - 1 \in MemFrames /\ x.dir[t] \in Nat
             /\ x.dir[t] - 1 # 0 /\ x.dir[t] - 1 \notin x.free
  <2>1. x.dir[t] - 1 \in x.held
    BY <1>3 DEF Sound
  <2>2. x.dir[t] \in Nat
    BY <1>1 DEF Layout
  <2> QED
    BY <1>1, <2>1, <2>2
<1>4. 0 \in MemFrames
  <2>1. x.dir[0] - 1 \in 0..(FrameCount - 1)
    BY <1>2, <1>3 DEF Sound, MemFrames
  <2> QED
    BY <2>1 DEF MemFrames, Layout
<1>5. ASSUME NEW f \in Index
      PROVE  Entry(x, f) = f + 1
  <2>1. TableOf(f) = 0 /\ f % PerTable = f
    BY PageIs, PagingSizes
  <2> QED
    BY <2>1, EntryIs DEF Sound
<1>6. ASSUME NEW f \in MemFrames, f \notin Index
      PROVE  Entry(x, f) = 0
  <2>1. TableOf(f) \in Nat /\ TableOf(f) # 0 /\ TableOf(f) < KernelTable /\ TableOf(f) \in Spaces
    <3>1. f \in Nat /\ KernelTable \in 1..(Tables - 1) /\ Tables \in Nat
      BY PagingSizes
    <3>2. TableOf(f) \in Nat /\ TableOf(f) # 0 /\ TableOf(f) < KernelTable
      BY <1>6, <3>1, PageIs
    <3> QED
      BY <3>1, <3>2 DEF Spaces
  <2>2. ~(TableOf(f) >= KernelTable)
    BY <2>1, PagingSizes
  <2>3. x.dir[TableOf(f)] = 0
    BY <2>1, <2>2 DEF Sound
  <2> QED
    BY <2>3, EntryIs
<1>7. ASSUME NEW i \in KernelAt..(PerTable - 1)
      PROVE  Entry(x, KernelTable * PerTable + i) = i + 1
  <2>1. i \in Index
    BY PagingSizes
  <2>2. /\ TableOf(KernelTable * PerTable + i) = KernelTable
        /\ (KernelTable * PerTable + i) % PerTable = i
    BY <2>1, KernelPage
  <2> QED
    BY <2>2, EntryIs DEF Sound
<1> QED
  BY <1>1, <1>2, <1>3, <1>4, <1>5, <1>6, <1>7

\* A word that is written, in a table behind the kernel's or in no table.
Stored(x, f, i, w) == [x EXCEPT !.mem[f][i] = w]

\* A word stored in a table changes the entry of one page and nothing else.
LEMMA StoreKeeps ==
  ASSUME Layout, NEW x, Sound(x), NEW f \in MemFrames, NEW i \in Index, NEW w \in Nat,
         f # x.dir[KernelTable] - 1, f = x.dir[0] - 1 => w = i + 1
  PROVE  LET y == Stored(x, f, i, w) IN
         /\ Sound(y) /\ y.dir = x.dir /\ y.free = x.free /\ y.held = x.held /\ y.short = x.short
         /\ \A q \in Pages :
              Entry(y, q) = IF x.dir[TableOf(q)] = f + 1 /\ q % PerTable = i
                               THEN w ELSE Entry(x, q)
<1>0. PICK y : y = Stored(x, f, i, w)
  OBVIOUS
<1>1. x \in Machines
  BY DEF Sound
<1>2. /\ y \in Machines /\ y.at = x.at /\ y.dir = x.dir /\ y.free = x.free /\ y.held = x.held
      /\ y.hit = x.hit /\ y.passed = x.passed /\ y.short = x.short
      /\ \A g \in MemFrames : \A j \in Index :
           y.mem[g][j] = IF g = f /\ j = i THEN w ELSE x.mem[g][j]
  BY <1>0, <1>1 DEF Stored, Machines
<1>3. /\ x.dir[0] - 1 \in MemFrames /\ x.dir[KernelTable] - 1 \in MemFrames
      /\ KernelAt..(PerTable - 1) \subseteq Index
  <2>1. x.dir[0] # 0 /\ x.dir[KernelTable] # 0
    BY DEF Sound
  <2>2. x.dir[0] - 1 \in MemFrames /\ x.dir[KernelTable] - 1 \in MemFrames
    BY <2>1, SoundTables
  <2>3. KernelAt \in Nat
    BY DEF Layout, Index
  <2> QED
    BY <2>2, <2>3 DEF Index
<1>4. \A j \in Index : y.mem[x.dir[0] - 1][j] = j + 1
  BY <1>2, <1>3 DEF Sound
<1>5. \A j \in KernelAt..(PerTable - 1) : y.mem[x.dir[KernelTable] - 1][j] = j + 1
  BY <1>2, <1>3 DEF Sound
<1>6. Sound(y)
  BY <1>2, <1>4, <1>5 DEF Sound, HitOk
<1>7. ASSUME NEW q \in Pages
      PROVE  Entry(y, q) = IF x.dir[TableOf(q)] = f + 1 /\ q % PerTable = i
                              THEN w ELSE Entry(x, q)
  <2>1. TableOf(q) \in Spaces /\ q % PerTable \in Index
    BY PageIs, PagingSizes DEF Spaces
  <2>2. x.dir[TableOf(q)] # 0 =>
          x.dir[TableOf(q)] - 1 \in MemFrames /\ x.dir[TableOf(q)] \in Nat
    BY <2>1, SoundTables
  <2>3. f \in Nat
    BY PagingSizes
  <2> QED
    BY <1>2, <2>1, <2>2, <2>3, EntryIs
<1> QED
  BY <1>0, <1>2, <1>6, <1>7

\* A write to a table through its address: it is reached, or the table lies where
\* pages are not mapped to themselves.
LEMMA WriteIs ==
  ASSUME Layout, NEW x, Sound(x), NEW f \in MemFrames, NEW i \in Index, NEW w \in Nat
  PROVE  LET y == Write(x, f, i, w) IN
         IF f \in Index THEN y = Stored(x, f, i, w)
         ELSE y.at = "halted" /\ HitOk(y) /\ y.dir = x.dir
<1>0. PICK y : y = Write(x, f, i, w)
  OBVIOUS
<1>1. x.at = "on" /\ HitOk(x) /\ x \in Machines
  BY DEF Sound
<1>2. CASE f \in Index
  <2>1. Entry(x, f) = f + 1 /\ f \in Nat
    BY <1>2, SoundTables, PagingSizes
  <2>2. f + 1 # 0 /\ (f + 1) - 1 = f
    BY <2>1
  <2>3. y = [x EXCEPT !.mem[Entry(x, f) - 1][i] = w]
    BY <1>0, <1>1, <2>1, <2>2 DEF Write
  <2>4. y = Stored(x, f, i, w)
    BY <2>1, <2>2, <2>3 DEF Stored
  <2> QED
    BY <1>0, <1>2, <2>4
<1>3. CASE f \notin Index
  <2>1. Entry(x, f) = 0
    BY <1>3, SoundTables
  <2>2. y = [x EXCEPT !.at = "halted"]
    BY <1>0, <1>1, <2>1 DEF Write, Halted
  <2>3. /\ y.at = "halted" /\ y.hit = x.hit /\ y.dir = x.dir
        /\ y.held = x.held /\ y.free = x.free /\ y.passed = x.passed
    BY <1>1, <2>2 DEF Machines
  <2> QED
    BY <1>0, <1>1, <1>3, <2>3 DEF HitOk
<1> QED
  BY <1>2, <1>3

\* What making a table t of x, or using it, leaves of the rest.
Follows(x, z, t) ==
  /\ Sound(z)
  /\ \A u \in Spaces : x.dir[u] # 0 \/ u # t => z.dir[u] = x.dir[u]
  /\ x.dir[t] # 0 => z.free = x.free
  /\ x.free # {} => z.dir[t] # 0
  /\ z.free \subseteq x.free /\ x.held \subseteq z.held
  /\ z.short <=> x.short \/ z.dir[t] = 0

\* Pages are mapped as they were; in a new table all but the first are not mapped.
SameEntry(x, z, q) ==
  IF x.dir[TableOf(q)] # 0 THEN Entry(z, q) = Entry(x, q)
  ELSE q % PerTable = 0 \/ Entry(z, q) = 0

\* The lowest free frame is taken for table t and cleared.
TakenFor(x, t, block) == [Take(x, {block}) EXCEPT !.dir[t] = block + 1]

\* A cleared table maps nothing but perhaps its first page, and what is hit behind
\* it was passed over or nobody's; or the code halts because the table lies too
\* high, or the directory is hit.
LEMMA ClearedIs ==
  ASSUME Layout, NEW x, Sound(x), NEW t \in Spaces, t > KernelTable, x.dir[t] = 0,
         NEW block \in x.free, \A f \in x.free : block <= f,
         NEW w, w = TakenFor(x, t, block),
         NEW c, c = ClearTable(w, block)
  PROVE  \/ Dead(c)
         \/ /\ block \in Index /\ Follows(x, c, t) /\ c.dir[t] # 0
            /\ \A q \in Pages : SameEntry(x, c, q)
<1>1. /\ x \in Machines /\ x.at = "on" /\ HitOk(x) /\ block \in MemFrames /\ block \notin x.held
      /\ block # 0 /\ block + 1 \in x.held => block + 1 \in x.passed
      /\ block \in Nat /\ FrameCount \in Nat /\ block + 1 \in 0..FrameCount
      /\ KernelTable \in Nat
  <2>1. /\ x \in Machines /\ x.at = "on" /\ HitOk(x) /\ block \notin x.held
        /\ block # 0 /\ block + 1 \in x.held => block + 1 \in x.passed
    BY DEF Sound
  <2>2. block \in MemFrames /\ MemFrames = 0..(FrameCount - 1) /\ FrameCount \in Nat /\ KernelTable \in Nat
    BY <2>1, PagingSizes DEF Machines
  <2>3. block \in Nat /\ block + 1 \in 0..FrameCount
    BY <2>2
  <2> QED
    BY <2>1, <2>2, <2>3
<1>2. /\ w \in Machines /\ w.at = "on" /\ w.hit = x.hit /\ w.mem = x.mem /\ w.short = x.short
      /\ w.passed = x.passed
      /\ w.free = x.free \ {block} /\ w.held = x.held \cup {block}
      /\ w.dir[t] = block + 1 /\ \A u \in Spaces : u # t => w.dir[u] = x.dir[u]
  BY <1>1 DEF TakenFor, Take, Machines
<1>3. 0 \in Spaces /\ KernelTable \in Spaces /\ t # 0 /\ t # KernelTable
  BY <1>1, SoundTables
<1>4. \A f \in Index : Entry(w, f) = f + 1
  <2>1. ASSUME NEW f \in Index
        PROVE  Entry(w, f) = f + 1
    <3>1. TableOf(f) = 0 /\ f % PerTable = f /\ f \in Nat
      BY PageIs, PagingSizes
    <3> QED
      BY <1>2, <1>3, <3>1, EntryIs DEF Sound
  <2> QED
    BY <2>1
<1>5. block \notin Index => Entry(w, block) = 0
  <2>1. block \notin Index => Entry(x, block) = 0 /\ TableOf(block) # t /\ TableOf(block) \in Spaces
    <3>1. block \notin Index => TableOf(block) \in Nat /\ TableOf(block) < KernelTable
      BY <1>1, PageIs
    <3>2. KernelTable \in 1..(Tables - 1) /\ Tables \in Nat
      BY PagingSizes
    <3> QED
      BY <1>1, <3>1, <3>2, SoundTables DEF Spaces
  <2> QED
    BY <1>2, <2>1, EntryIs
<1>6. block + 1 \in Index => Entry(w, block + 1) # 0
  BY <1>1, <1>4
<1>9. x.free \subseteq Nat /\ x.hit \subseteq Nat
  BY <1>1, PagingSizes DEF Machines
<1>10. HitOk(w)
  <2>1. block \notin x.hit
    BY <1>1, <1>9 DEF HitOk
  <2> QED
    BY <1>1, <1>2, <2>1 DEF HitOk
<1>7. CASE Entry(w, block) = 0 \/ Entry(w, block + 1) = 0
  <2>1. c = Halted(w)
    BY <1>7 DEF ClearTable
  <2>2. block \notin Index \/ block + 1 \notin Index
    BY <1>1, <1>4, <1>6, <1>7
  <2>3. block + 1 >= PerTable
    <3>1. Index = 0..(PerTable - 1) /\ PerTable \in Nat
      BY PagingSizes
    <3> QED
      BY <1>1, <2>2, <3>1
  <2>4. /\ c.at = "halted" /\ c.hit = w.hit /\ c.dir = w.dir /\ DOMAIN w.dir = Spaces
        /\ c.held = w.held /\ c.free = w.free /\ c.passed = w.passed
    BY <1>2, <2>1 DEF Halted, Machines
  <2>5. HitOk(c)
    BY <1>10, <2>4 DEF HitOk
  <2> QED
    BY <1>2, <2>3, <2>4, <2>5 DEF Dead
<1>8. CASE Entry(w, block) # 0 /\ Entry(w, block + 1) # 0
  <2>1. block \in Index
    BY <1>5, <1>8
  <2> DEFINE word(f, i) == IF (f = block /\ i # 0) \/ (f = block + 1 /\ i = 0) THEN 0 ELSE w.mem[f][i]
  <2>0. PICK n : n = [f \in MemFrames |-> [i \in Index |-> word(f, i)]]
    OBVIOUS
  <2>2. PICK k : k = [w EXCEPT !.mem = n, !.hit = @ \cup ({block + 1} \ w.free)]
    OBVIOUS
  <2>3. c = IF block + 1 = w.pd THEN Astray(k) ELSE k
    BY <1>8, <2>0, <2>2 DEF ClearTable
  <2>4. \A f \in MemFrames : \A i \in Index : word(f, i) \in Nat
    BY <1>2 DEF Machines
  <2>13. /\ n \in [MemFrames -> [Index -> Nat]]
         /\ \A f \in MemFrames : \A i \in Index : n[f][i] = word(f, i)
    BY <2>0, <2>4
  <2>14. /\ k \in Machines /\ k.at = "on" /\ k.hit = w.hit \cup ({block + 1} \ w.free)
         /\ k.short = x.short /\ k.passed = x.passed /\ k.mem = n
         /\ k.free = w.free /\ k.held = w.held /\ k.dir = w.dir
    <3>1. w.hit \cup ({block + 1} \ w.free) \in SUBSET Nat
      BY <1>1, <1>2, <1>9
    <3> HIDE DEF word
    <3> QED
      BY <1>2, <2>2, <2>13, <3>1 DEF Machines
  <2>15. HitOk(k)
    <3>1. k.hit \cap k.held \subseteq k.passed
      <4>1. ASSUME NEW f \in k.hit, f \in k.held, f \notin k.passed
            PROVE  FALSE
        <5>1. f = block + 1 /\ f \notin w.free
          BY <1>2, <1>10, <2>14, <4>1 DEF HitOk
        <5>2. f \in x.held
          <6>1. f # block
            BY <1>1, <5>1
          <6> QED
            BY <1>2, <2>14, <4>1, <6>1
        <5>3. block + 1 \in x.passed
          BY <1>1, <5>1, <5>2 DEF Sound
        <5> QED
          BY <2>14, <4>1, <5>1, <5>3
      <4> QED
        BY <4>1
    <3>2. ASSUME NEW f \in k.hit, NEW g \in k.free
          PROVE  f < g
      <4>1. CASE f \in w.hit
        BY <1>10, <2>14, <4>1 DEF HitOk
      <4>2. CASE f = block + 1 /\ f \notin w.free
        <5>1. g \in Nat /\ block <= g /\ g # block /\ g # block + 1
          BY <1>2, <1>9, <2>14, <4>2
        <5> QED
          BY <1>1, <4>2, <5>1
      <4> QED
        BY <2>14, <4>1, <4>2
    <3> QED
      BY <3>1, <3>2 DEF HitOk
  <2>16. CASE block + 1 = w.pd
    <3>1. /\ c.at = "astray" /\ c.hit = k.hit /\ c.held = k.held /\ c.free = k.free
          /\ c.passed = k.passed
      BY <2>3, <2>14, <2>16 DEF Astray, Machines
    <3> QED
      BY <2>15, <3>1 DEF Dead, HitOk
  <2> SUFFICES ASSUME block + 1 # w.pd
               PROVE  /\ block \in Index /\ Follows(x, c, t) /\ c.dir[t] # 0
                      /\ \A q \in Pages : SameEntry(x, c, q)
    BY <2>16
  <2>5. /\ c \in Machines /\ c.at = "on" /\ HitOk(c) /\ c.short = x.short
        /\ c.free = w.free /\ c.held = w.held /\ c.dir = w.dir /\ c.passed = x.passed
        /\ \A f \in MemFrames : \A i \in Index : c.mem[f][i] = word(f, i)
    <3> HIDE DEF word
    <3> QED
      BY <2>3, <2>13, <2>14, <2>15
  <2>6. \A u \in Spaces : x.dir[u] # 0 =>
          /\ x.dir[u] - 1 \in x.held /\ x.dir[u] - 1 \in MemFrames
          /\ x.dir[u] - 1 # block /\ x.dir[u] - 1 # block + 1
    <3>1. ASSUME NEW u \in Spaces, x.dir[u] # 0
          PROVE  /\ x.dir[u] - 1 \in x.held /\ x.dir[u] - 1 \in MemFrames
                 /\ x.dir[u] - 1 # block /\ x.dir[u] - 1 # block + 1
      <4>1. x.dir[u] - 1 \in x.held /\ x.dir[u] - 1 < block
        BY <3>1 DEF Sound
      <4>2. x.dir[u] - 1 \in MemFrames /\ x.dir[u] - 1 \in Nat
        BY <1>1, <4>1, PagingSizes DEF Machines
      <4> QED
        BY <1>1, <4>1, <4>2
    <3> QED
      BY <3>1
  <2>7. \A u \in Spaces : x.dir[u] # 0 =>
          \A i \in Index : c.mem[x.dir[u] - 1][i] = x.mem[x.dir[u] - 1][i]
    BY <1>2, <2>5, <2>6
  <2>8. /\ \A u \in Spaces : x.dir[u] # 0 => u # t /\ c.dir[u] = x.dir[u] /\ x.dir[u] - 1 \in x.held
        /\ c.dir[t] = block + 1
        /\ \A u \in Spaces : u # t => c.dir[u] = x.dir[u]
    BY <1>2, <2>5 DEF Sound
  <2>9. Sound(c)
    <3>1. 0 \notin c.free \cup c.held /\ c.free \cap c.held = {}
      BY <1>1, <1>2, <2>5 DEF Sound
    <3>2. \A f \in c.free : f + 1 \in c.held => f + 1 \in c.passed
      <4>1. ASSUME NEW f \in x.free, f # block
            PROVE  f + 1 # block
        <5>1. f \in Nat /\ block <= f
          BY <1>1, PagingSizes DEF Machines
        <5> QED
          BY <1>1, <5>1
      <4> QED
        BY <1>2, <2>5, <4>1 DEF Sound
    <3>8. \A u \in Spaces : c.dir[u] # 0 => \A f \in c.free : c.dir[u] - 1 < f
      <4>1. ASSUME NEW u \in Spaces, c.dir[u] # 0, NEW f \in c.free
            PROVE  c.dir[u] - 1 < f
        <5>1. f \in x.free /\ f \in Nat /\ block <= f /\ f # block
          BY <1>2, <1>9, <2>5
        <5>2. CASE u = t
          <6>1. c.dir[u] = block + 1 /\ (block + 1) - 1 = block
            BY <1>1, <2>8, <5>2
          <6> QED
            BY <1>1, <5>1, <6>1
        <5>3. CASE u # t
          BY <2>8, <4>1, <5>1, <5>3 DEF Sound
        <5> QED
          BY <5>2, <5>3
      <4> QED
        BY <4>1
    <3>3. \A u \in Spaces : c.dir[u] # 0 => c.dir[u] - 1 \in c.held /\ (u = 0 \/ u >= KernelTable)
      <4>1. ASSUME NEW u \in Spaces, c.dir[u] # 0
            PROVE  c.dir[u] - 1 \in c.held /\ (u = 0 \/ u >= KernelTable)
        <5>1. CASE u = t
          <6>1. t \in Int
            BY DEF Spaces
          <6>2. (block + 1) - 1 = block /\ t >= KernelTable
            BY <1>1, <6>1
          <6>3. c.dir[u] = block + 1 /\ block \in c.held
            BY <1>2, <2>5, <2>8, <5>1
          <6>4. c.dir[u] - 1 = block
            BY <6>2, <6>3
          <6> QED
            BY <5>1, <6>2, <6>3, <6>4
        <5>2. CASE u # t
          BY <1>2, <2>5, <2>8, <4>1, <5>2 DEF Sound
        <5> QED
          BY <5>1, <5>2
      <4> QED
        BY <4>1
    <3>4. \A u, v \in Spaces : c.dir[u] # 0 /\ c.dir[u] = c.dir[v] => u = v
      <4>1. ASSUME NEW u \in Spaces, x.dir[u] # 0
            PROVE  x.dir[u] # block + 1
        <5>1. x.dir[u] - 1 \in x.held
          BY <2>8, <4>1
        <5>2. (block + 1) - 1 = block
          BY <1>1
        <5> QED
          BY <1>1, <5>1, <5>2
      <4> QED
        BY <1>1, <2>8, <4>1 DEF Sound
    <3>5. /\ c.dir[0] = x.dir[0] /\ c.dir[KernelTable] = x.dir[KernelTable]
          /\ x.dir[0] # 0 /\ x.dir[KernelTable] # 0
          /\ x.dir[0] - 1 \in x.held /\ x.dir[KernelTable] - 1 \in x.held
      BY <1>3, <2>8 DEF Sound
    <3>6. \A i \in Index : c.mem[c.dir[0] - 1][i] = i + 1
      <4>1. 0 \in Spaces
        BY Kernels
      <4> QED
        BY <2>7, <3>5, <4>1 DEF Sound
    <3>7. \A i \in KernelAt..(PerTable - 1) : c.mem[c.dir[KernelTable] - 1][i] = i + 1
      <4>1. KernelAt..(PerTable - 1) \subseteq Index
        BY DEF Layout, Index
      <4>2. KernelTable \in Spaces
        BY Kernels
      <4> QED
        BY <2>7, <3>5, <4>1, <4>2 DEF Sound
    <3> QED
      BY <2>5, <3>1, <3>2, <3>3, <3>4, <3>5, <3>6, <3>7, <3>8 DEF Sound
  <2>10. Follows(x, c, t)
    <3>1. c.dir[t] # 0
      BY <1>1, <2>8
    <3>2. c.free \subseteq x.free /\ x.held \subseteq c.held /\ c.short = x.short
      BY <1>2, <2>5
    <3> QED
      BY <2>8, <2>9, <3>1, <3>2 DEF Follows
  <2>11. ASSUME NEW q \in Pages
         PROVE  SameEntry(x, c, q)
    <3>1. TableOf(q) \in Spaces /\ q % PerTable \in Index
      BY PageIs, PagingSizes DEF Spaces
    <3>2. CASE x.dir[TableOf(q)] # 0
      BY <2>7, <2>8, <3>1, <3>2, EntryIs DEF SameEntry
    <3>3. CASE x.dir[TableOf(q)] = 0 /\ TableOf(q) # t
      BY <2>8, <3>1, <3>3, EntryIs DEF SameEntry
    <3>4. CASE x.dir[TableOf(q)] = 0 /\ TableOf(q) = t
      <4>1. block + 1 # 0 /\ (block + 1) - 1 = block
        BY <1>1
      <4>2. Entry(c, q) = c.mem[block][q % PerTable]
        <5>1. c.dir[TableOf(q)] = block + 1
          BY <2>8, <3>4
        <5>2. c.dir[TableOf(q)] # 0 /\ c.dir[TableOf(q)] - 1 = block
          BY <4>1, <5>1
        <5> QED
          BY <5>2, EntryIs
      <4>3. q % PerTable # 0 => c.mem[block][q % PerTable] = 0
        BY <1>1, <2>5, <3>1
      <4> QED
        BY <3>4, <4>2, <4>3 DEF SameEntry
    <3> QED
      BY <3>2, <3>3, <3>4
  <2>12. c.dir[t] # 0
    BY <1>1, <2>8
  <2> QED
    BY <2>1, <2>10, <2>11, <2>12
<1> QED
  BY <1>7, <1>8

\* A table that is made on demand changes no mapping that was there.
LEMMA CreateIs ==
  ASSUME Layout, NEW x, Sound(x), NEW q \in Pages, q >= Above,
         NEW z, z = vmmngr_createPageTable(x, q)
  PROVE  \/ Dead(z)
         \/ Follows(x, z, TableOf(q)) /\ \A p \in Pages : SameEntry(x, z, p)
<1>0. PICK t : t = TableOf(q)
  OBVIOUS
<1>1. t \in Spaces /\ t > KernelTable /\ t \in Nat
  BY <1>0, PageIs, PagingSizes DEF Spaces
<1>2. x \in Machines /\ 0 \in Spaces /\ KernelTable \in Spaces /\ KernelTable # 0
  BY Kernels DEF Sound
<1>3. CASE x.dir[t] # 0
  <2>1. z = x
    BY <1>0, <1>3 DEF vmmngr_createPageTable, TableOf
  <2>2. Follows(x, x, t)
    BY <1>3 DEF Follows
  <2>3. \A p \in Pages : SameEntry(x, x, p)
    BY EntryIs DEF SameEntry
  <2> QED
    BY <1>0, <2>1, <2>2, <2>3
<1>4. CASE x.dir[t] = 0 /\ x.free = {}
  <2>1. z = [x EXCEPT !.short = TRUE]
    BY <1>0, <1>4 DEF vmmngr_createPageTable, TableOf
  <2>2. /\ z \in Machines /\ z.at = x.at /\ z.dir = x.dir /\ z.mem = x.mem /\ z.free = x.free
        /\ z.held = x.held /\ z.hit = x.hit /\ z.passed = x.passed /\ z.short
    BY <1>2, <2>1 DEF Machines
  <2>3. Sound(z)
    BY <2>2 DEF Sound, HitOk
  <2>4. \A p : Entry(z, p) = Entry(x, p)
    BY <2>2 DEF Entry
  <2>5. \A p \in Pages : SameEntry(x, z, p)
    BY <2>4, EntryIs DEF SameEntry
  <2> QED
    BY <1>0, <1>4, <2>2, <2>3, <2>5 DEF Follows
<1>5. CASE x.dir[t] = 0 /\ x.free # {}
  <2>0. PICK block : block = First(x.free)
    OBVIOUS
  <2>1. block \in x.free /\ \A f \in x.free : block <= f
    <3>1. x.free \subseteq Nat
      BY <1>2, PagingSizes DEF Machines
    <3> QED
      BY <1>5, <2>0, <3>1, LeastIs DEF First
  <2>2. PICK w : w = TakenFor(x, t, block)
    OBVIOUS
  <2>3. PICK c : c = ClearTable(w, block)
    OBVIOUS
  <2>4. z = Write(c, c.dir[TableOf(block)] - 1, block % PerTable, block + 1)
    BY <1>0, <1>5, <2>0, <2>2, <2>3 DEF vmmngr_createPageTable, TableOf, TakenFor
  <2>5. \/ Dead(c)
        \/ /\ block \in Index /\ Follows(x, c, t) /\ c.dir[t] # 0
           /\ \A p \in Pages : SameEntry(x, c, p)
    BY <1>1, <1>5, <2>1, <2>2, <2>3, ClearedIs
  <2>6. CASE Dead(c)
    <3>1. z = c
      BY <2>4, <2>6 DEF Write, Dead
    <3> QED
      BY <2>6, <3>1
  <2>7. CASE /\ block \in Index /\ Follows(x, c, t) /\ c.dir[t] # 0
             /\ \A p \in Pages : SameEntry(x, c, p)
    <3>1. TableOf(block) = 0 /\ block % PerTable = block /\ block \in Nat
      BY <2>7, PageIs, PagingSizes
    <3>2. Sound(c)
      BY <2>7 DEF Follows
    <3>3. PICK f : f = c.dir[0] - 1
      OBVIOUS
    <3>4. /\ f \in MemFrames /\ c.dir[0] \in Nat /\ c.dir[0] # 0 /\ DOMAIN c.dir = Spaces
          /\ c.dir[KernelTable] # 0 /\ c.dir[KernelTable] \in Nat
      BY <1>2, <3>2, <3>3, SoundTables DEF Sound
    <3>5. z = Write(c, f, block, block + 1) /\ block + 1 \in Nat
      BY <2>4, <3>1, <3>3
    <3>6. CASE f \in Index
      <4>1. z = Stored(c, f, block, block + 1)
        BY <2>7, <3>2, <3>4, <3>5, <3>6, WriteIs
      <4>2. f # c.dir[KernelTable] - 1
        <5>1. c.dir[0] # c.dir[KernelTable]
          BY <1>2, <3>2, <3>4 DEF Sound
        <5> QED
          BY <3>3, <3>4, <5>1
      <4>3. /\ Sound(z) /\ z.dir = c.dir /\ z.free = c.free /\ z.held = c.held /\ z.short = c.short
            /\ \A p \in Pages :
                 Entry(z, p) = IF c.dir[TableOf(p)] = f + 1 /\ p % PerTable = block
                                  THEN block + 1 ELSE Entry(c, p)
        BY <2>7, <3>2, <3>4, <3>5, <4>1, <4>2, StoreKeeps
      <4>4. ASSUME NEW p \in Pages
            PROVE  Entry(z, p) = Entry(c, p)
        <5>1. CASE c.dir[TableOf(p)] = f + 1 /\ p % PerTable = block
          <6>1. TableOf(p) \in Spaces
            BY PageIs, PagingSizes DEF Spaces
          <6>2. f + 1 = c.dir[0]
            BY <3>3, <3>4
          <6>3. TableOf(p) = 0
            BY <1>2, <3>2, <3>4, <5>1, <6>1, <6>2 DEF Sound
          <6>4. Entry(c, p) = c.mem[c.dir[0] - 1][block]
            BY <3>4, <5>1, <6>3, EntryIs
          <6>5. Entry(c, p) = block + 1
            BY <2>7, <3>2, <6>4 DEF Sound
          <6> QED
            BY <4>3, <5>1, <6>5
        <5>2. CASE ~(c.dir[TableOf(p)] = f + 1 /\ p % PerTable = block)
          BY <4>3, <5>2
        <5> QED
          BY <5>1, <5>2
      <4>5. Follows(x, z, t)
        BY <2>7, <4>3 DEF Follows
      <4>6. \A p \in Pages : SameEntry(x, z, p)
        BY <2>7, <4>4 DEF SameEntry
      <4> QED
        BY <1>0, <4>5, <4>6
    <3>7. CASE f \notin Index
      <4>1. z.at = "halted" /\ HitOk(z) /\ z.dir = c.dir
        BY <2>7, <3>2, <3>4, <3>5, <3>7, WriteIs
      <4>2. c.dir[0] >= PerTable
        <5>1. Index = 0..(PerTable - 1) /\ PerTable \in Nat /\ f \in Nat
          BY <3>4, PagingSizes
        <5> QED
          BY <3>3, <3>4, <3>7, <5>1
      <4> QED
        BY <1>2, <3>4, <4>1, <4>2 DEF Dead
    <3> QED
      BY <3>6, <3>7
  <2> QED
    BY <2>5, <2>6, <2>7
<1> QED
  BY <1>3, <1>4, <1>5

\* One page is mapped: it is where it was asked to be if there is a table for it.
LEMMA MapIs ==
  ASSUME Layout, NEW x, Sound(x), NEW q \in Pages, q >= Above, NEW f \in Nat,
         NEW y, y = vmmngr_mapPhysicalAddress(x, q, f)
  PROVE  \/ Dead(y)
         \/ /\ Follows(x, y, TableOf(q))
            /\ y.dir[TableOf(q)] # 0 => Entry(y, q) = f + 1
            /\ \A p \in Pages : p # q => SameEntry(x, y, p)
<1>0. PICK t : t = TableOf(q)
  OBVIOUS
<1>1. t \in Spaces /\ t > KernelTable /\ t \in Nat /\ q % PerTable \in Index
  BY <1>0, PageIs, PagingSizes DEF Spaces
<1>2. PICK z : z = vmmngr_createPageTable(x, q)
  OBVIOUS
<1>3. PICK g : g = IF z.dir[t] = 0 THEN 0 ELSE z.dir[t] - 1
  OBVIOUS
<1>4. y = Write(z, g, q % PerTable, f + 1)
  <2>1. x.at = "on"
    BY DEF Sound
  <2> QED
    BY <1>0, <1>2, <1>3, <2>1 DEF vmmngr_mapPhysicalAddress, IndexOf, TableOf
<1>5. CASE Dead(z)
  <2>1. y = z
    BY <1>4, <1>5 DEF Write, Dead
  <2> QED
    BY <1>5, <2>1
<1>6. CASE Follows(x, z, t) /\ \A p \in Pages : SameEntry(x, z, p)
  <2>1. Sound(z) /\ f + 1 \in Nat
    BY <1>6 DEF Follows
  <2>2. /\ 0 \in Spaces /\ KernelTable \in Spaces /\ t # 0 /\ t # KernelTable
        /\ 0 \in MemFrames /\ DOMAIN z.dir = Spaces
        /\ z.dir[0] # 0 /\ z.dir[0] \in Nat /\ z.dir[KernelTable] # 0 /\ z.dir[KernelTable] \in Nat
    <3>1. z.dir[0] # 0 /\ z.dir[KernelTable] # 0
      BY <2>1 DEF Sound
    <3>2. /\ 0 \in MemFrames /\ DOMAIN z.dir = Spaces
          /\ z.dir[0] \in Nat /\ z.dir[KernelTable] \in Nat
      BY <2>1, <3>1, Kernels, SoundTables
    <3> QED
      BY <1>1, <3>1, <3>2, Kernels
  <2>3. /\ g \in MemFrames /\ g # z.dir[0] - 1 /\ g # z.dir[KernelTable] - 1
        /\ z.dir[t] # 0 => g + 1 = z.dir[t] /\ z.dir[t] \in Nat
        /\ z.dir[t] = 0 => g = 0
    <3>1. z.dir[0] - 1 # 0 /\ z.dir[KernelTable] - 1 # 0
      BY <2>1, <2>2, SoundTables
    <3>2. z.dir[t] # 0 => z.dir[t] - 1 \in MemFrames /\ z.dir[t] \in Nat
      BY <1>1, <2>1, SoundTables
    <3>3. z.dir[t] # 0 => z.dir[t] # z.dir[0] /\ z.dir[t] # z.dir[KernelTable]
      BY <1>1, <2>1, <2>2 DEF Sound
    <3> QED
      BY <1>3, <2>2, <3>1, <3>2, <3>3
  <2>4. CASE g \in Index
    <3>1. y = Stored(z, g, q % PerTable, f + 1)
      BY <1>1, <1>4, <2>1, <2>3, <2>4, WriteIs
    <3>2. /\ Sound(y) /\ y.dir = z.dir /\ y.free = z.free /\ y.held = z.held /\ y.short = z.short
          /\ \A p \in Pages :
               Entry(y, p) = IF z.dir[TableOf(p)] = g + 1 /\ p % PerTable = q % PerTable
                                THEN f + 1 ELSE Entry(z, p)
      BY <1>1, <2>1, <2>3, <3>1, StoreKeeps
    <3>3. y.dir[t] # 0 => Entry(y, q) = f + 1
      BY <1>0, <2>3, <3>2
    <3>4. ASSUME NEW p \in Pages, p # q
          PROVE  Entry(y, p) = Entry(z, p)
      <4>1. TableOf(p) \in Spaces
        BY PageIs, PagingSizes DEF Spaces
      <4>2. CASE z.dir[TableOf(p)] = g + 1 /\ p % PerTable = q % PerTable
        <5>1. z.dir[TableOf(p)] # 0
          BY <2>3, <4>2, PagingSizes
        <5>2. z.dir[t] # 0
          <6>1. z.dir[TableOf(p)] - 1 # 0 /\ z.dir[TableOf(p)] \in Nat
            BY <2>1, <4>1, <5>1, SoundTables
          <6> QED
            BY <2>3, <4>2, <6>1
        <5>3. TableOf(p) = t
          BY <1>1, <2>1, <2>3, <4>1, <4>2, <5>1, <5>2, OwnTables
        <5>4. p \in Nat /\ q \in Nat
          BY PagingSizes
        <5>5. /\ p = PerTable * TableOf(p) + (p % PerTable)
              /\ q = PerTable * TableOf(q) + (q % PerTable)
          BY <5>4, PageIs
        <5> QED
          BY <1>0, <3>4, <4>2, <5>3, <5>5
      <4>3. CASE ~(z.dir[TableOf(p)] = g + 1 /\ p % PerTable = q % PerTable)
        BY <3>2, <4>3
      <4> QED
        BY <4>2, <4>3
    <3>5. Follows(x, y, t)
      BY <1>6, <3>2 DEF Follows
    <3>6. \A p \in Pages : p # q => SameEntry(x, y, p)
      BY <1>6, <3>4 DEF SameEntry
    <3> QED
      BY <1>0, <3>3, <3>5, <3>6
  <2>5. CASE g \notin Index
    <3>1. y.at = "halted" /\ HitOk(y) /\ y.dir = z.dir
      BY <1>1, <1>4, <2>1, <2>3, <2>5, WriteIs
    <3>2. z.dir[t] >= PerTable
      <4>1. Index = 0..(PerTable - 1) /\ PerTable \in Nat /\ g \in Nat /\ 0 \in Index
        BY <2>3, PagingSizes
      <4> QED
        BY <2>3, <2>5, <4>1
    <3> QED
      BY <1>1, <2>2, <3>1, <3>2 DEF Dead
  <2> QED
    BY <2>4, <2>5
<1> QED
  BY <1>0, <1>2, <1>5, <1>6, CreateIs

\* Mapping pages one after the other goes through the machines in between.
LEMMA MapAllIs ==
  ASSUME NEW x, NEW q, NEW f, NEW n \in Nat
  PROVE  \E g : /\ g[0] = x /\ g[n] = MapAll(x, q, f, n)
                /\ \A i \in 1..n :
                     g[i] = vmmngr_mapPhysicalAddress(g[i - 1], q + i - 1, f + i - 1)
<1> DEFINE Body(g, i) ==
      IF i = 0 THEN x ELSE vmmngr_mapPhysicalAddress(g[i - 1], q + i - 1, f + i - 1)
    S == {k \in Nat : \E g : g = [i \in 0..k |-> Body(g, i)]}
<1>1. 0 \in S
  <2> DEFINE g == [i \in 0..0 |-> x]
  <2>1. \A i \in 0..0 : Body(g, i) = x
    OBVIOUS
  <2>2. g = [i \in 0..0 |-> Body(g, i)]
    BY <2>1
  <2> HIDE DEF Body
  <2> QED
    BY <2>2
<1>2. ASSUME NEW k \in Nat, k \in S
      PROVE  k + 1 \in S
  <2>1. PICK g : g = [i \in 0..k |-> Body(g, i)]
    BY <1>2
  <2> DEFINE h == [i \in 0..(k + 1) |-> IF i <= k THEN g[i] ELSE Body(g, k + 1)]
  <2>2. ASSUME NEW i \in 0..(k + 1)
        PROVE  h[i] = Body(h, i)
    <3>1. CASE i = 0
      <4>1. h[i] = g[i] /\ g[i] = Body(g, i)
        BY <2>1, <3>1
      <4> QED
        BY <3>1, <4>1
    <3>2. CASE i # 0 /\ i <= k
      <4>1. h[i] = g[i] /\ g[i] = Body(g, i) /\ i - 1 \in 0..k /\ i - 1 \in 0..(k + 1) /\ i - 1 <= k
        BY <2>1, <3>2
      <4>2. h[i - 1] = g[i - 1]
        BY <4>1
      <4>3. Body(h, i) = Body(g, i)
        BY <4>2
      <4> QED
        BY <4>1, <4>3
    <3>3. CASE i = k + 1
      <4>1. h[i] = Body(g, i) /\ i - 1 \in 0..(k + 1) /\ i - 1 <= k
        BY <3>3
      <4>2. h[i - 1] = g[i - 1]
        BY <4>1
      <4>3. Body(h, i) = Body(g, i)
        BY <4>2
      <4> QED
        BY <4>1, <4>3
    <3> QED
      BY <3>1, <3>2, <3>3
  <2>3. h = [i \in 0..(k + 1) |-> h[i]]
    OBVIOUS
  <2> HIDE DEF h
  <2>4. h = [i \in 0..(k + 1) |-> Body(h, i)]
    <3> HIDE DEF Body
    <3> QED
      BY <2>2, <2>3
  <2> HIDE DEF Body
  <2> QED
    BY <2>4
<1>3. n \in S
  <2> HIDE DEF S
  <2> QED
    BY <1>1, <1>2, InductNat
<1> DEFINE G == CHOOSE g : g = [i \in 0..n |-> Body(g, i)]
<1>4. G = [i \in 0..n |-> Body(G, i)]
  <2> HIDE DEF Body
  <2> QED
    BY <1>3
<1>5. MapAll(x, q, f, n) = G[n]
  BY DEF MapAll
<1> HIDE DEF G
<1>6. \A i \in 0..n : G[i] = Body(G, i)
  <2> HIDE DEF Body
  <2> QED
    BY <1>4
<1>7. G[0] = x
  BY <1>6
<1>8. \A i \in 1..n : G[i] = vmmngr_mapPhysicalAddress(G[i - 1], q + i - 1, f + i - 1)
  BY <1>6
<1> QED
  BY <1>5, <1>7, <1>8

\* What mapping i pages, from q to f on, leaves; and what it leaves when there is
\* a table for all of them, or a frame for the one that is missing.
Placed(y, q, f) == y.dir[TableOf(q)] # 0 /\ Entry(y, q) = f + 1
Ran(x, y, q, f, i) ==
  /\ Sound(y) /\ y.free \subseteq x.free /\ x.held \subseteq y.held /\ (x.short => y.short)
  /\ \A u \in Spaces : x.dir[u] # 0 => y.dir[u] = x.dir[u]
  /\ \A k \in 0..(i - 1) : Placed(y, q + k, f + k) \/ y.short
  /\ \A p \in Pages : p \notin q..(q + (i - 1)) => SameEntry(x, y, p)
Supplied(x, q, n, t) ==
  /\ x.dir[t] # 0 \/ x.free # {}
  /\ \A k \in 0..(n - 1) : TableOf(q + k) = t \/ x.dir[TableOf(q + k)] # 0
RanFully(x, y, q, f, i, t) ==
  /\ y.dir[t] # 0 \/ y.free # {}
  /\ y.short => x.short
  /\ \A k \in 0..(i - 1) : Placed(y, q + k, f + k)

\* One more page of a run.
LEMMA RunStep ==
  ASSUME Layout, NEW x, NEW z, NEW y, NEW q \in Nat, NEW f \in Nat, NEW i \in Nat,
         NEW n \in Nat, i < n,
         q + i \in Pages, q + i >= Above, Ran(x, z, q, f, i),
         y = vmmngr_mapPhysicalAddress(z, q + i, f + i)
  PROVE  Dead(y) \/ (/\ Ran(x, y, q, f, i + 1)
                     /\ \A t \in Spaces : Supplied(x, q, n, t) /\ RanFully(x, z, q, f, i, t) =>
                          RanFully(x, y, q, f, i + 1, t))
<1>0. PICK r : r = q + i
  OBVIOUS
<1>1. Sound(z) /\ r \in Pages /\ r >= Above /\ f + i \in Nat /\ r \in Nat
  BY <1>0 DEF Ran
<1> SUFFICES ASSUME /\ Follows(z, y, TableOf(r))
                    /\ y.dir[TableOf(r)] # 0 => Entry(y, r) = f + i + 1
                    /\ \A p \in Pages : p # r => SameEntry(z, y, p)
             PROVE  /\ Ran(x, y, q, f, i + 1)
                    /\ \A t \in Spaces : Supplied(x, q, n, t) /\ RanFully(x, z, q, f, i, t) =>
                         RanFully(x, y, q, f, i + 1, t)
  BY <1>0, <1>1, MapIs
<1>2. /\ TableOf(r) \in Spaces
      /\ \A p \in Pages : TableOf(p) \in Spaces /\ p \in Nat
  BY <1>1, PageIs, PagingSizes DEF Spaces
<1>3. \A k \in 0..i : k = i \/ k \in 0..(i - 1)
  OBVIOUS
<1>4. ASSUME NEW k \in 0..(i - 1), Placed(z, q + k, f + k), q + k \in Pages
      PROVE  Placed(y, q + k, f + k)
  <2>1. q + k # r
    BY <1>0
  <2>2. SameEntry(z, y, q + k) /\ TableOf(q + k) \in Spaces
    BY <1>2, <1>4, <2>1
  <2>3. y.dir[TableOf(q + k)] = z.dir[TableOf(q + k)]
    BY <1>4, <2>2 DEF Follows, Placed
  <2> QED
    BY <1>4, <2>2, <2>3 DEF Placed, SameEntry
<1>5. \A k \in 0..(i - 1) : q + k \in Pages
  <2>1. Pages = 0..(Tables * PerTable - 1) /\ Tables * PerTable \in Nat
    BY PagingSizes
  <2>2. PICK l \in Nat : l = Tables * PerTable
    BY <2>1
  <2>3. q + i \in 0..(l - 1)
    BY <2>1, <2>2
  <2> QED
    BY <2>1, <2>2, <2>3
<1>6. y.dir[TableOf(r)] # 0 => Placed(y, q + i, f + i)
  BY <1>0 DEF Placed
<1>7. y.short <=> z.short \/ y.dir[TableOf(r)] = 0
  BY DEF Follows
<1>8. Ran(x, y, q, f, i + 1)
  <2>1. \A u \in Spaces : x.dir[u] # 0 => y.dir[u] = x.dir[u]
    BY DEF Ran, Follows
  <2>2. \A k \in 0..i : Placed(y, q + k, f + k) \/ y.short
    BY <1>3, <1>4, <1>5, <1>6, <1>7 DEF Ran
  <2>3. ASSUME NEW p \in Pages, p \notin q..(q + i)
        PROVE  SameEntry(x, y, p)
    <3>1. p # r /\ p \notin q..(q + (i - 1))
      BY <1>0, <2>3
    <3>2. SameEntry(z, y, p) /\ SameEntry(x, z, p)
      BY <3>1 DEF Ran
    <3>3. x.dir[TableOf(p)] # 0 => z.dir[TableOf(p)] # 0
      BY <1>2 DEF Ran
    <3> QED
      BY <3>2, <3>3 DEF SameEntry
  <2>4. (i + 1) - 1 = i
    OBVIOUS
  <2>5. Sound(y) /\ y.free \subseteq x.free /\ x.held \subseteq y.held
    BY DEF Ran, Follows
  <2>6. x.short => y.short
    BY <1>7 DEF Ran
  <2> QED
    BY <2>1, <2>2, <2>3, <2>4, <2>5, <2>6 DEF Ran
<1>9. ASSUME NEW t \in Spaces, Supplied(x, q, n, t), RanFully(x, z, q, f, i, t)
      PROVE  RanFully(x, y, q, f, i + 1, t)
  <2>1. i \in 0..(n - 1)
    OBVIOUS
  <2>2. TableOf(r) = t \/ x.dir[TableOf(r)] # 0
    BY <1>0, <1>9, <2>1 DEF Supplied
  <2>3. y.dir[TableOf(r)] # 0
    BY <1>2, <1>9, <2>2 DEF Follows, Ran, RanFully
  <2>4. y.dir[t] # 0 \/ y.free # {}
    <3>1. CASE TableOf(r) = t
      BY <2>3, <3>1
    <3>2. CASE x.dir[TableOf(r)] # 0 /\ TableOf(r) # t
      <4>1. z.dir[TableOf(r)] # 0
        BY <1>2, <3>2 DEF Ran
      <4> QED
        BY <1>9, <3>2, <4>1 DEF Follows, RanFully
    <3> QED
      BY <2>2, <3>1, <3>2
  <2>5. \A k \in 0..i : Placed(y, q + k, f + k)
    BY <1>3, <1>4, <1>5, <1>6, <1>9, <2>3 DEF RanFully
  <2>6. y.short => x.short
    BY <1>7, <1>9, <2>3 DEF RanFully
  <2>7. (i + 1) - 1 = i
    OBVIOUS
  <2> QED
    BY <2>4, <2>5, <2>6, <2>7 DEF RanFully
<1> QED
  BY <1>8, <1>9

\* A run of pages: all are mapped where they are to be, or a table was short, and
\* every other page is as it was; when one table at most is needed, none is short.
LEMMA RunIs ==
  ASSUME Layout, NEW x, Sound(x), NEW q \in Nat, NEW f \in Nat, NEW n \in Nat,
         q >= Above, \A k \in 0..(n - 1) : q + k \in Pages,
         NEW y, y = MapAll(x, q, f, n)
  PROVE  Dead(y) \/ (/\ Ran(x, y, q, f, n)
                     /\ \A t \in Spaces : Supplied(x, q, n, t) => RanFully(x, y, q, f, n, t))
<1>1. PICK g : /\ g[0] = x /\ g[n] = y
               /\ \A i \in 1..n :
                    g[i] = vmmngr_mapPhysicalAddress(g[i - 1], q + i - 1, f + i - 1)
  BY MapAllIs
<1> DEFINE Good(i) == \/ Dead(g[i])
                       \/ /\ Ran(x, g[i], q, f, i)
                          /\ \A t \in Spaces : Supplied(x, q, n, t) => RanFully(x, g[i], q, f, i, t)
           S == {i \in Nat : i <= n => Good(i)}
<1>2. 0 \in S
  <2>1. \A k \in 0..(0 - 1) : FALSE
    OBVIOUS
  <2>2. \A p \in Pages : SameEntry(x, x, p)
    BY EntryIs DEF SameEntry
  <2>3. Ran(x, x, q, f, 0)
    BY <2>1, <2>2 DEF Ran
  <2>4. \A t \in Spaces : Supplied(x, q, n, t) => RanFully(x, x, q, f, 0, t)
    BY <2>1 DEF Supplied, RanFully
  <2> QED
    BY <1>1, <2>3, <2>4
<1>3. ASSUME NEW i \in Nat, i \in S
      PROVE  i + 1 \in S
  <2> SUFFICES ASSUME i + 1 <= n
               PROVE  Good(i + 1)
    OBVIOUS
  <2>1. i < n /\ i + 1 \in 1..n /\ (i + 1) - 1 = i /\ i \in 0..(n - 1)
    OBVIOUS
  <2>2. Good(i)
    BY <1>3, <2>1
  <2>3. g[i + 1] = vmmngr_mapPhysicalAddress(g[i], q + i, f + i)
    BY <1>1, <2>1
  <2>4. CASE Dead(g[i])
    <3>1. g[i + 1] = g[i]
      BY <2>3, <2>4 DEF vmmngr_mapPhysicalAddress, Dead
    <3> QED
      BY <2>4, <3>1
  <2>5. CASE /\ Ran(x, g[i], q, f, i)
             /\ \A t \in Spaces : Supplied(x, q, n, t) => RanFully(x, g[i], q, f, i, t)
    <3>0. Above \in Nat
      BY PagingSizes
    <3>1. q + i \in Pages /\ q + i >= Above
      BY <2>1, <3>0
    <3>2. Dead(g[i + 1]) \/ (/\ Ran(x, g[i + 1], q, f, i + 1)
                             /\ \A t \in Spaces : Supplied(x, q, n, t) /\ RanFully(x, g[i], q, f, i, t) =>
                                  RanFully(x, g[i + 1], q, f, i + 1, t))
      BY <2>1, <2>3, <2>5, <3>1, RunStep
    <3> QED
      BY <2>5, <3>2
  <2> QED
    BY <2>2, <2>4, <2>5
<1>4. n \in S
  <2> HIDE DEF S
  <2> QED
    BY <1>2, <1>3, InductNat
<1> QED
  BY <1>1, <1>4


\* The heap lies together from KHEAP on, its pages on frames of their own, and
\* everything it holds begins in it.
GivenIn(x, top, list, regs) ==
  /\ top \in Nat /\ list \in Seq(MemFrames) /\ top = KHEAP + Len(list) /\ top <= Tables * PerTable
  /\ \A n \in 1..Len(list) : Entry(x, KHEAP + (n - 1)) = list[n] + 1 /\ list[n] \in x.held
  /\ \A j, k \in 1..Len(list) : list[j] = list[k] => j = k
  /\ \A r \in regs : r[1] \in KHEAP..(top - 1)

\* Devices lie out of the way of the kernel and of all the heap could become.
AskedIn(x, top, asked) ==
  /\ \A q \in asked : q \in Pages /\ q >= Above /\ (q < KHEAP \/ KHEAP + FrameCount <= q)
  /\ x.short \/ \A q \in asked : Entry(x, q) = q + 1
  /\ \A q \in Pages : Entry(x, q) # 0 =>
       \/ TableOf(q) = 0 \/ TableOf(q) = KernelTable
       \/ q \in KHEAP..(top - 1) \/ q \in asked \/ q % PerTable = 0

Begun(x) ==
  /\ x \in Machines /\ x.at = "off" /\ x.dir = [t \in Spaces |-> 0]
  /\ x.free \in FreeSets /\ x.held = {} /\ x.passed = {} /\ x.hit = {} /\ x.short = FALSE

PagingInv ==
  \/ Begun(paging) /\ heaptop = KHEAP /\ meant = <<>> /\ regions = {} /\ mapped = {}
  \/ Dead(paging)
  \/ /\ Sound(paging) /\ GivenIn(paging, heaptop, meant, regions)
     /\ AskedIn(paging, heaptop, mapped)

\* The invariant holds before paging is on.
LEMMA PagingBegins ==
  ASSUME Layout, PagingInit
  PROVE  PagingInv
<1>1. PICK free \in FreeSets, word \in {0, 1} :
        paging = [at |-> "off", dir |-> [t \in Spaces |-> 0],
                  mem |-> [f \in MemFrames |-> [i \in Index |-> word]], pd |-> 0,
                  free |-> free, held |-> {}, passed |-> {}, hit |-> {}, short |-> FALSE]
  BY DEF PagingInit, Spaces
<1>2. free \in SUBSET MemFrames /\ word \in Nat /\ [t \in Spaces |-> 0] \in [Spaces -> 0..FrameCount]
  BY DEF Layout
<1>3. paging \in Machines
  BY <1>1, <1>2 DEF Machines
<1>4. Begun(paging)
  BY <1>1, <1>3 DEF Begun
<1> QED
  BY <1>4 DEF PagingInv, PagingInit

\* What pmmngr_alloc_blocks() may return, if it is not -1, is a frame.
LEMMA BlockFound ==
  ASSUME Layout, NEW free, free \subseteq Nat, NEW n, NEW block \in BlocksFor(free, n), block # -1
  PROVE  block \in Nat
<1>1. FrameCount \in Nat
  BY DEF Layout
<1>2. block \in mmap_first_free_s(free, MemFrames \ free, n) \/ block = FrameCount
  BY DEF BlocksFor
<1>3. ASSUME NEW out \in mmap_first_free_s(free, MemFrames \ free, n)
      PROVE  out = -1 \/ out \in free
  BY DEF mmap_first_free_s, mmap_first_free, Tested
<1> QED
  BY <1>1, <1>2, <1>3

\* Behind a free frame a run begins, or does not lie.
NoneInFront(free, taken, passed) == \A f \in free \ taken : f + 1 \in taken => f + 1 \in passed

\* The first frame of a run, if it was passed over.
PassedOver(free, block) == {f \in {block} : f - 1 \in free}

LEMMA RunTaken ==
  ASSUME NEW free, free \subseteq Nat, NEW n \in Nat \ {0}, NEW block \in Nat,
         RunOf(block, n) \subseteq free
  PROVE  NoneInFront(free, RunOf(block, n), PassedOver(free, block))
<1>1. ASSUME NEW f \in free \ RunOf(block, n), f + 1 \in RunOf(block, n)
      PROVE  f + 1 \in PassedOver(free, block)
  <2>1. f \in Nat /\ f + 1 \in block..(block + (n - 1)) /\ f \notin block..(block + (n - 1))
    BY <1>1 DEF RunOf
  <2>2. f + 1 = block /\ (f + 1) - 1 = f
    BY <2>1
  <2> QED
    BY <1>1, <2>2 DEF PassedOver
<1> QED
  BY <1>1 DEF NoneInFront

\* The frames that vmmngr_initialize() takes: the lowest three, and a run.
Chosen(free, a, b, c, rest, d) ==
  /\ a = Least(free) /\ b = Least(free \ {a}) /\ c = Least(free \ {a, b})
  /\ rest = free \ {a, b, c} /\ RunOf(d, 3) \subseteq rest /\ d \in Nat

LEMMA LowestTaken ==
  ASSUME NEW free, free \subseteq Nat, NEW a, NEW b, NEW c, NEW rest, NEW d,
         Chosen(free, a, b, c, rest, d), NEW taken, taken = {a, b, c} \cup RunOf(d, 3)
  PROVE  /\ a \in taken /\ b \in taken /\ a # b /\ taken \subseteq free
         /\ NoneInFront(free, taken, PassedOver(rest, d))
         /\ \A f \in free \ taken : a < f /\ b < f
<1>0. /\ a = Least(free) /\ b = Least(free \ {a}) /\ c = Least(free \ {a, b})
      /\ rest = free \ {a, b, c} /\ rest \subseteq Nat /\ RunOf(d, 3) \subseteq rest /\ d \in Nat
  BY DEF Chosen
<1>1. d \in RunOf(d, 3) /\ d \in rest
  <2>1. d \in d..(d + 3 - 1)
    BY <1>0
  <2> QED
    BY <1>0, <2>1 DEF RunOf
<1>4. a \in free /\ \A k \in free : a <= k
  BY <1>0, <1>1, LeastIs
<1>5. b \in free \ {a} /\ \A k \in free \ {a} : b <= k
  <2>1. d \in free \ {a} /\ free \ {a} \subseteq Nat
    BY <1>0, <1>1
  <2> DEFINE left == free \ {a}
  <2>2. left \subseteq Nat /\ left # {} /\ b = Least(left)
    BY <1>0, <2>1
  <2> HIDE DEF left
  <2>3. b \in left /\ \A k \in left : b <= k
    BY <2>2, LeastIs
  <2> QED
    BY <2>3 DEF left
<1>6. c \in free \ {a, b} /\ \A k \in free \ {a, b} : c <= k
  <2>1. d \in free \ {a, b} /\ free \ {a, b} \subseteq Nat
    BY <1>0, <1>1
  <2> DEFINE left == free \ {a, b}
  <2>2. left \subseteq Nat /\ left # {} /\ c = Least(left)
    BY <1>0, <2>1
  <2> HIDE DEF left
  <2>3. c \in left /\ \A k \in left : c <= k
    BY <2>2, LeastIs
  <2> QED
    BY <2>3 DEF left
<1>7. ASSUME NEW f \in free \ taken
      PROVE  /\ a < f /\ b < f /\ f + 1 \notin {a, b, c}
             /\ f \in rest \ RunOf(d, 3)
  <2>1. f \in Nat /\ a <= f /\ b <= f /\ c <= f /\ a \in Nat /\ b \in Nat /\ c \in Nat
        /\ a # f /\ b # f
    BY <1>4, <1>5, <1>6
  <2>2. f + 1 # a /\ f + 1 # b /\ f + 1 # c /\ a < f /\ b < f
    BY <2>1
  <2> QED
    BY <1>0, <2>2
<1>8. NoneInFront(rest, RunOf(d, 3), PassedOver(rest, d))
  <2>1. 3 \in Nat \ {0}
    OBVIOUS
  <2> QED
    BY <1>0, <2>1, RunTaken
<1>9. taken \subseteq free /\ a \in taken /\ b \in taken /\ a # b
  BY <1>0, <1>4, <1>5, <1>6
<1>10. ASSUME NEW f \in free \ taken, f + 1 \in taken
       PROVE  f + 1 \in PassedOver(rest, d)
  <2>1. f + 1 \in RunOf(d, 3) /\ f \in rest \ RunOf(d, 3)
    BY <1>7, <1>10
  <2> QED
    BY <1>8, <2>1 DEF NoneInFront
<1>11. NoneInFront(free, taken, PassedOver(rest, d))
  BY <1>10 DEF NoneInFront
<1> QED
  BY <1>7, <1>9, <1>11

\* A record that has the fields of a machine and no others.
Whole(y) ==
  y = [at |-> y.at, dir |-> y.dir, mem |-> y.mem, pd |-> y.pd, free |-> y.free,
       held |-> y.held, passed |-> y.passed, hit |-> y.hit, short |-> y.short]

TwoTables(mem, b, one, a, two) == [[mem EXCEPT ![b] = one] EXCEPT ![a] = two]

\* What vmmngr_initialize() leaves: tables of frames a and b, a directory in d.
BegunWith(x, y, a, b, taken, d, passed) ==
  /\ y.at = "on" /\ y.hit = x.hit /\ y.short = x.short /\ y.pd = d
  /\ y.passed = x.passed \cup passed
  /\ y.free = x.free \ taken /\ y.held = x.held \cup taken
  /\ y.dir = [t \in DOMAIN x.dir |-> IF t = 0 THEN b + 1 ELSE IF t = KernelTable THEN a + 1 ELSE 0]
  /\ y.mem = TwoTables(x.mem, b, [i \in Index |-> i + 1],
                       a, [i \in Index |-> KernelAt + ((i - KernelAt) % PerTable) + 1])

\* The words of the kernel's table from the kernel on map it to itself.
LEMMA KernelWords ==
  ASSUME Layout, NEW i \in Index
  PROVE  /\ KernelAt + ((i - KernelAt) % PerTable) + 1 \in Nat
         /\ i >= KernelAt => KernelAt + ((i - KernelAt) % PerTable) + 1 = i + 1
<1>1. PerTable \in Nat \ {0} /\ KernelAt \in 0..(PerTable - 1) /\ i \in 0..(PerTable - 1)
  BY DEF Layout, Index
<1>2. (i - KernelAt) % PerTable \in 0..(PerTable - 1)
  BY <1>1
<1>3. ASSUME i >= KernelAt
      PROVE  (i - KernelAt) % PerTable = i - KernelAt
  <2>1. i - KernelAt \in 0..(PerTable - 1)
    BY <1>1, <1>3
  <2>2. PerTable * 0 + (i - KernelAt) = i - KernelAt
    BY <1>1
  <2> DEFINE j == i - KernelAt
  <2> HIDE DEF j
  <2>3. j \in 0..(PerTable - 1) /\ j = PerTable * 0 + j /\ j \in Nat
    BY <1>1, <2>1, <2>2 DEF j
  <2>4. j % PerTable = j
    BY <1>1, <2>3, DivIs
  <2> QED
    BY <2>4 DEF j
<1> QED
  BY <1>1, <1>2, <1>3

\* What vmmngr_initialize() leaves is in order, and maps nothing else.
LEMMA BegunSound ==
  ASSUME Layout, Room, NEW x, Begun(x), NEW y, NEW a, NEW b, NEW taken,
         NEW d \in Nat, NEW passed, BegunWith(x, y, a, b, taken, d, passed), Whole(y),
         a \in taken, b \in taken, a # b, taken \subseteq x.free, passed \in SUBSET Nat,
         NoneInFront(x.free, taken, passed), \A f \in x.free \ taken : a < f /\ b < f
  PROVE  Sound(y) /\ AskedIn(y, KHEAP, {}) /\ GivenIn(y, KHEAP, <<>>, {})
<1>1. /\ x \in Machines /\ x.free \subseteq MemFrames /\ 0 \notin x.free /\ x.held = {} /\ x.hit = {}
      /\ x.passed = {} /\ x.short = FALSE /\ DOMAIN x.dir = Spaces /\ x.mem \in [MemFrames -> [Index -> Nat]]
  BY DEF Begun, Machines, Room
<1>2. /\ a \in MemFrames /\ b \in MemFrames /\ a \in Nat /\ b \in Nat /\ a + 1 \in 0..FrameCount /\ b + 1 \in 0..FrameCount
      /\ a + 1 # 0 /\ b + 1 # 0
  <2>1. a \in MemFrames /\ b \in MemFrames
    BY <1>1
  <2>2. FrameCount \in Nat
    BY DEF Layout
  <2> QED
    BY <2>1, <2>2 DEF MemFrames
<1>3. 0 \in Spaces /\ KernelTable \in Spaces /\ KernelTable # 0 /\ KernelTable \in Nat
  BY Kernels
<1>4. /\ DOMAIN y.dir = Spaces /\ y.dir[0] = b + 1 /\ y.dir[KernelTable] = a + 1
      /\ \A t \in Spaces : t # 0 /\ t # KernelTable => y.dir[t] = 0
      /\ y.dir \in [Spaces -> 0..FrameCount]
  <2>1. y.dir = [t \in Spaces |-> IF t = 0 THEN b + 1 ELSE IF t = KernelTable THEN a + 1 ELSE 0]
    BY <1>1 DEF BegunWith
  <2>2. 0 \in 0..FrameCount
    BY DEF Layout
  <2> QED
    BY <1>2, <1>3, <2>1, <2>2
<1>5. /\ y.mem \in [MemFrames -> [Index -> Nat]]
      /\ \A i \in Index : y.mem[b][i] = i + 1
      /\ \A i \in Index : y.mem[a][i] = KernelAt + ((i - KernelAt) % PerTable) + 1
  <2> DEFINE one == [i \in Index |-> i + 1]
             two == [i \in Index |-> KernelAt + ((i - KernelAt) % PerTable) + 1]
  <2>1. one \in [Index -> Nat] /\ two \in [Index -> Nat]
    <3>1. \A i \in Index : i + 1 \in Nat
      BY PagingSizes
    <3>2. \A i \in Index : KernelAt + ((i - KernelAt) % PerTable) + 1 \in Nat
      BY KernelWords
    <3> QED
      BY <3>1, <3>2
  <2>2. (\A i \in Index : one[i] = i + 1)
        /\ \A i \in Index : two[i] = KernelAt + ((i - KernelAt) % PerTable) + 1
    OBVIOUS
  <2>3. y.mem = [[x.mem EXCEPT ![b] = one] EXCEPT ![a] = two]
    BY DEF BegunWith, TwoTables
  <2> HIDE DEF one, two
  <2>4. y.mem[a] = two /\ y.mem[b] = one /\ y.mem \in [MemFrames -> [Index -> Nat]]
    BY <1>1, <1>2, <2>1, <2>3
  <2> QED
    BY <2>2, <2>4
<1>6. /\ y.at = "on" /\ y.hit = {} /\ y.short = FALSE /\ y.free = x.free \ taken /\ y.held = taken
      /\ y.passed = passed /\ y.pd = d
  BY <1>1 DEF BegunWith
<1>7. y \in Machines
  <2>1. /\ y.at \in {"off", "on", "halted", "failed", "astray"}
        /\ y.free \in SUBSET MemFrames /\ y.held \in SUBSET MemFrames
        /\ y.hit \in SUBSET Nat /\ y.passed \in SUBSET Nat /\ y.pd \in Nat /\ y.short \in BOOLEAN
    BY <1>1, <1>6
  <2>2. y.dir \in [Spaces -> 0..FrameCount]
    BY <1>4
  <2>3. y.mem \in [MemFrames -> [Index -> Nat]]
    BY <1>5
  <2> QED
    BY <2>1, <2>2, <2>3 DEF Machines, Whole
<1>8. \A t \in Spaces : y.dir[t] # 0 => y.dir[t] - 1 \in y.held /\ (t = 0 \/ t >= KernelTable)
  <2>1. (b + 1) - 1 = b /\ (a + 1) - 1 = a /\ KernelTable >= KernelTable
    BY <1>2, <1>3
  <2> QED
    BY <1>4, <1>6, <2>1
<1>9. \A t, u \in Spaces : y.dir[t] # 0 /\ y.dir[t] = y.dir[u] => t = u
  <2>1. a + 1 # b + 1
    BY <1>2
  <2> QED
    BY <1>4, <2>1
<1>10. /\ y.dir[0] # 0 /\ y.dir[KernelTable] # 0
       /\ \A i \in Index : y.mem[y.dir[0] - 1][i] = i + 1
       /\ \A i \in KernelAt..(PerTable - 1) : y.mem[y.dir[KernelTable] - 1][i] = i + 1
  <2>1. (b + 1) - 1 = b /\ (a + 1) - 1 = a
    BY <1>2
  <2>2. ASSUME NEW i \in KernelAt..(PerTable - 1)
        PROVE  y.mem[a][i] = i + 1
    <3>1. i \in Index /\ i >= KernelAt
      BY DEF Layout, Index
    <3> QED
      BY <1>5, <3>1, KernelWords
  <2> QED
    BY <1>2, <1>4, <1>5, <2>1, <2>2
<1>11. Sound(y)
  <2>1. \A t \in Spaces : y.dir[t] # 0 => \A f \in y.free : y.dir[t] - 1 < f
    <3>1. (b + 1) - 1 = b /\ (a + 1) - 1 = a
      BY <1>2
    <3> QED
      BY <1>4, <1>6, <3>1
  <2>2. \A f \in y.free : f + 1 \in y.held => f + 1 \in y.passed
    BY <1>6 DEF NoneInFront
  <2>3. HitOk(y)
    BY <1>6 DEF HitOk
  <2>4. 0 \notin y.free \cup y.held /\ y.free \cap y.held = {}
    BY <1>1, <1>6
  <2> QED
    BY <1>6, <1>7, <1>8, <1>9, <1>10, <2>1, <2>2, <2>3, <2>4 DEF Sound
<1>12. AskedIn(y, KHEAP, {})
  <2>1. ASSUME NEW q \in Pages, Entry(y, q) # 0
        PROVE  TableOf(q) = 0 \/ TableOf(q) = KernelTable
    <3>1. q \in Nat
      BY PagingSizes
    <3>2. TableOf(q) \in Spaces
      BY <3>1, PageIs DEF Spaces
    <3> QED
      BY <1>4, <2>1, <3>2, EntryIs
  <2> QED
    BY <2>1 DEF AskedIn
<1>13. GivenIn(y, KHEAP, <<>>, {})
  <2>1. KHEAP \in Nat /\ KHEAP <= Tables * PerTable
    <3>1. KHEAP \in Pages /\ Tables \in Nat /\ PerTable \in Nat
      BY DEF Layout
    <3>2. Tables * PerTable \in Nat
      BY <3>1
    <3> QED
      BY <3>1, <3>2 DEF Pages
  <2>2. <<>> \in Seq(MemFrames) /\ Len(<<>>) = 0 /\ KHEAP = KHEAP + 0
    BY <2>1
  <2>3. 1..0 = {}
    OBVIOUS
  <2> QED
    BY <2>1, <2>2, <2>3 DEF GivenIn
<1> QED
  BY <1>11, <1>12, <1>13

\* The assignments of vmmngr_initialize(), one field after the other.
Prepared(x, a, b, three, d, one, two, dir) ==
  [TakeRun(Take(x, three), d, 3) EXCEPT
     !.at = "on", !.pd = d, !.dir = dir, !.mem[b] = one, !.mem[a] = two]

\* What a run that is taken leaves, as a record.
LEMMA TakeRunIs ==
  ASSUME NEW x, Whole(x), NEW block, NEW n
  PROVE  TakeRun(x, block, n) =
           [at |-> x.at, dir |-> x.dir, mem |-> x.mem, pd |-> x.pd, free |-> x.free \ RunOf(block, n),
            held |-> x.held \cup RunOf(block, n), passed |-> x.passed \cup PassedOver(x.free, block),
            hit |-> x.hit, short |-> x.short]
<1>1. PICK run, more, free, held, passed :
        /\ run = RunOf(block, n) /\ more = PassedOver(x.free, block)
        /\ free = x.free /\ held = x.held /\ passed = x.passed
  OBVIOUS
<1>2. PICK at, dir, mem, pd, hit, short :
        at = x.at /\ dir = x.dir /\ mem = x.mem /\ pd = x.pd /\ hit = x.hit /\ short = x.short
  OBVIOUS
<1>3. x = [at |-> at, dir |-> dir, mem |-> mem, pd |-> pd, free |-> free,
           held |-> held, passed |-> passed, hit |-> hit, short |-> short]
  BY <1>1, <1>2 DEF Whole
<1>4. TakeRun(x, block, n) = [[x EXCEPT !.free = @ \ run, !.held = @ \cup run] EXCEPT !.passed = @ \cup more]
  BY <1>1 DEF TakeRun, Take, PassedOver
<1> QED
  BY <1>1, <1>2, <1>3, <1>4

\* And what they leave, field by field.
PreparedWith(x, y, a, b, three, d, one, two, dir) ==
  /\ Whole(y)
  /\ y.at = "on" /\ y.hit = x.hit /\ y.short = x.short /\ y.pd = d
  /\ y.free = x.free \ (three \cup RunOf(d, 3)) /\ y.held = x.held \cup (three \cup RunOf(d, 3))
  /\ y.passed = x.passed \cup PassedOver(x.free \ three, d)
  /\ y.dir = dir
  /\ y.mem = TwoTables(x.mem, b, one, a, two)

LEMMA PreparedIs ==
  ASSUME NEW x, x \in Machines, NEW a, NEW b, NEW three, NEW d, NEW one, NEW two, NEW dir
  PROVE  PreparedWith(x, Prepared(x, a, b, three, d, one, two, dir), a, b, three, d, one, two, dir)
<1>0. PICK y : y = Prepared(x, a, b, three, d, one, two, dir)
  OBVIOUS
<1>1. PICK z : z = Take(x, three)
  OBVIOUS
<1>2. /\ Whole(z) /\ z.free = x.free \ three /\ z.held = x.held \cup three
      /\ z.passed = x.passed /\ z.hit = x.hit /\ z.short = x.short /\ z.mem = x.mem
  <2>1. PICK free, held : free = x.free \ three /\ held = x.held \cup three
    OBVIOUS
  <2>2. x = [at |-> x.at, dir |-> x.dir, mem |-> x.mem, pd |-> x.pd, free |-> x.free,
             held |-> x.held, passed |-> x.passed, hit |-> x.hit, short |-> x.short]
    BY DEF Machines
  <2>3. z = [at |-> x.at, dir |-> x.dir, mem |-> x.mem, pd |-> x.pd, free |-> free,
             held |-> held, passed |-> x.passed, hit |-> x.hit, short |-> x.short]
    BY <1>1, <2>1, <2>2 DEF Take
  <2> QED
    BY <2>1, <2>3 DEF Whole
<1>3. PICK free, held, passed :
        /\ free = z.free \ RunOf(d, 3) /\ held = z.held \cup RunOf(d, 3)
        /\ passed = z.passed \cup PassedOver(z.free, d)
  OBVIOUS
<1>4. PICK w : w = TakeRun(z, d, 3)
  OBVIOUS
<1>5. PICK mem, at0, dir0, pd0 : mem = z.mem /\ at0 = z.at /\ dir0 = z.dir /\ pd0 = z.pd
  OBVIOUS
<1>6. w = [at |-> at0, dir |-> dir0, mem |-> mem, pd |-> pd0, free |-> free,
           held |-> held, passed |-> passed, hit |-> z.hit, short |-> z.short]
  BY <1>2, <1>3, <1>4, <1>5, TakeRunIs
<1>7. y = [w EXCEPT !.at = "on", !.pd = d, !.dir = dir, !.mem[b] = one, !.mem[a] = two]
  BY <1>0, <1>1, <1>4 DEF Prepared
<1>8. y = [at |-> "on", dir |-> dir, mem |-> [[mem EXCEPT ![b] = one] EXCEPT ![a] = two], pd |-> d,
           free |-> free, held |-> held, passed |-> passed, hit |-> z.hit, short |-> z.short]
  BY <1>6, <1>7
<1>9. /\ Whole(y)
      /\ y.at = "on" /\ y.hit = z.hit /\ y.short = z.short /\ y.pd = d
      /\ y.free = free /\ y.held = held /\ y.passed = passed /\ y.dir = dir
      /\ y.mem = [[mem EXCEPT ![b] = one] EXCEPT ![a] = two]
  BY <1>8 DEF Whole
<1> QED
  BY <1>0, <1>2, <1>3, <1>5, <1>9 DEF PreparedWith, TwoTables

\* vmmngr_initialize() establishes the invariant.
LEMMA InitializeKeeps ==
  ASSUME Layout, Room, PagingInv, vmmngr_initialize
  PROVE  PagingInv'
<1>1. PICK x : x = paging
  OBVIOUS
<1>2. x.at = "off" /\ Begun(x) /\ heaptop = KHEAP /\ meant = <<>> /\ regions = {} /\ mapped = {}
  BY <1>1 DEF vmmngr_initialize, PagingInv, Dead, Sound
<1>3. PICK a : a = Least(x.free)
  OBVIOUS
<1>4. PICK b : b = Least(x.free \ {a})
  OBVIOUS
<1>5. PICK c : c = Least(x.free \ {a, b})
  OBVIOUS
<1>6. PICK rest : rest = x.free \ {a, b, c}
  OBVIOUS
<1>7. PICK three : three = {a, b, c}
  OBVIOUS
<1> DEFINE one == [i \in Index |-> i + 1]
           two == [i \in Index |-> KernelAt + ((i - KernelAt) % PerTable) + 1]
           dir == [t \in DOMAIN x.dir |-> IF t = 0 THEN b + 1 ELSE IF t = KernelTable THEN a + 1 ELSE 0]
<1>8. \/ \E frames : paging' = Failed(x, frames)
      \/ paging' = Astray(x)
      \/ \E d \in BlocksFor(rest, 3) :
           /\ d # -1 /\ RunOf(d, 3) \subseteq rest
           /\ paging' = Prepared(x, a, b, three, d, one, two, dir)
  <2> DEFINE A == Least(paging.free)
             B == Least(paging.free \ {A})
             C == Least(paging.free \ {A, B})
             T == {A, B, C}
             R == paging.free \ T
             E(d) == [TakeRun(Take(paging, T), d, 3) EXCEPT
                        !.at = "on", !.pd = d,
                        !.dir = [t \in DOMAIN @ |-> IF t = 0 THEN B + 1
                                                     ELSE IF t = KernelTable THEN A + 1 ELSE 0],
                        !.mem[B] = [i \in Index |-> Identity(i)],
                        !.mem[A] = [i \in Index |-> KernelAt + ((i - KernelAt) % PerTable) + 1]]
  <2>1. \/ paging' = Failed(paging, paging.free)
        \/ \E d \in BlocksFor(R, 3) :
             paging' = IF d = -1 THEN Failed(paging, T)
                       ELSE IF ~(RunOf(d, 3) \subseteq R) THEN Astray(paging) ELSE E(d)
    BY DEF vmmngr_initialize
  <2>2. paging = x /\ A = a /\ B = b /\ C = c /\ T = three /\ R = rest
    BY <1>1, <1>3, <1>4, <1>5, <1>6, <1>7
  <2> HIDE DEF A, B, C, T, R
  <2>3. [i \in Index |-> Identity(i)] = one
    BY DEF Identity
  <2>4. ASSUME NEW d
        PROVE  E(d) = Prepared(x, a, b, three, d, one, two, dir)
    <3>1. PICK z : z = TakeRun(Take(x, three), d, 3)
      OBVIOUS
    <3>2. z.dir = x.dir
      <4>1. Whole(x)
        BY <1>2 DEF Begun, Machines, Whole
      <4> QED
        BY <3>1, <4>1 DEF Whole, TakeRun, Take
    <3>3. E(d) = [z EXCEPT !.at = "on", !.pd = d, !.dir = dir, !.mem[b] = one, !.mem[a] = two]
      <4>1. TakeRun(Take(paging, T), d, 3) = z
        BY <2>2, <3>1
      <4>2. dir = [t \in DOMAIN z.dir |-> IF t = 0 THEN b + 1 ELSE IF t = KernelTable THEN a + 1 ELSE 0]
        BY <3>2
      <4> HIDE DEF one, two, dir
      <4>3. E(d) = [z EXCEPT
                      !.at = "on", !.pd = d,
                      !.dir = [t \in DOMAIN @ |-> IF t = 0 THEN b + 1
                                                   ELSE IF t = KernelTable THEN a + 1 ELSE 0],
                      !.mem[b] = one, !.mem[a] = two]
        BY <2>2, <2>3, <4>1 DEF two
      <4> QED
        BY <4>2, <4>3
    <3> HIDE DEF E, one, two, dir
    <3> QED
      BY <3>1, <3>3 DEF Prepared
  <2> HIDE DEF E, one, two, dir
  <2> QED
    BY <2>1, <2>2, <2>4
<1>9. x \in Machines /\ x.free \subseteq Nat /\ x.held = {} /\ x.passed = {} /\ x.hit = {}
  BY <1>2, PagingSizes DEF Begun, Machines
<1>10. heaptop' = KHEAP /\ meant' = <<>> /\ regions' = {} /\ mapped' = {}
  BY <1>2 DEF vmmngr_initialize
<1>11. PICK y : y = paging'
  OBVIOUS
<1>12. CASE \/ \E frames : paging' = Failed(x, frames)
            \/ paging' = Astray(x)
  <2>1. y.at \in {"failed", "astray"} /\ y.hit = {}
    <3>1. CASE \E frames : paging' = Failed(x, frames)
      <4>1. PICK frames : y = Failed(x, frames)
        BY <1>11, <3>1
      <4>2. y = [[x EXCEPT !.free = @ \ frames, !.held = @ \cup frames] EXCEPT !.at = "failed"]
        BY <4>1 DEF Failed, Take
      <4> QED
        BY <1>9, <4>2 DEF Machines
    <3>2. CASE paging' = Astray(x)
      BY <1>9, <1>11, <3>2 DEF Astray, Machines
    <3> QED
      BY <1>12, <3>1, <3>2
  <2>2. Dead(y)
    BY <2>1 DEF Dead, HitOk
  <2> QED
    BY <1>11, <2>2 DEF PagingInv
<1>13. CASE \E d \in BlocksFor(rest, 3) :
              /\ d # -1 /\ RunOf(d, 3) \subseteq rest
              /\ paging' = Prepared(x, a, b, three, d, one, two, dir)
  <2> HIDE DEF one, two, dir
  <2>1. PICK d \in BlocksFor(rest, 3) :
          /\ d # -1 /\ RunOf(d, 3) \subseteq rest
          /\ y = Prepared(x, a, b, three, d, one, two, dir)
    BY <1>11, <1>13
  <2>2. d \in Nat
    BY <1>6, <1>9, <2>1, BlockFound
  <2>3. PICK taken, passed : taken = three \cup RunOf(d, 3) /\ passed = PassedOver(rest, d)
    OBVIOUS
  <2>4. /\ BegunWith(x, y, a, b, taken, d, passed)
        /\ Whole(y)
    <3>1. PICK p, q, r : p = one /\ q = two /\ r = dir
      OBVIOUS
    <3>2. y = Prepared(x, a, b, three, d, p, q, r)
      BY <2>1, <3>1
    <3>4. x.free \ three = rest /\ x \in Machines
      BY <1>6, <1>7, <1>9
    <3>3. /\ Whole(y)
          /\ y.at = "on" /\ y.hit = x.hit /\ y.short = x.short /\ y.pd = d
          /\ y.free = x.free \ taken /\ y.held = x.held \cup taken
          /\ y.passed = x.passed \cup passed
          /\ y.dir = r
          /\ y.mem = TwoTables(x.mem, b, p, a, q)
      <4>1. /\ Whole(y)
            /\ y.at = "on" /\ y.hit = x.hit /\ y.short = x.short /\ y.pd = d
            /\ y.free = x.free \ (three \cup RunOf(d, 3))
            /\ y.held = x.held \cup (three \cup RunOf(d, 3))
            /\ y.passed = x.passed \cup PassedOver(x.free \ three, d)
            /\ y.dir = r
            /\ y.mem = TwoTables(x.mem, b, p, a, q)
        <5>1. PreparedWith(x, Prepared(x, a, b, three, d, p, q, r), a, b, three, d, p, q, r)
          BY <3>4, PreparedIs
        <5> QED
          BY <3>2, <5>1 DEF PreparedWith
      <4>2. three \cup RunOf(d, 3) = taken /\ PassedOver(x.free \ three, d) = passed
        BY <2>3, <3>4
      <4> QED
        BY <4>1, <4>2, Zenon
    <3> QED
      BY <3>1, <3>3 DEF BegunWith, one, two, dir
  <2>5. Chosen(x.free, a, b, c, rest, d)
    BY <1>3, <1>4, <1>5, <1>6, <2>1, <2>2 DEF Chosen
  <2>6. /\ a \in taken /\ b \in taken /\ a # b /\ taken \subseteq x.free
        /\ NoneInFront(x.free, taken, passed)
        /\ \A f \in x.free \ taken : a < f /\ b < f
    <3>1. taken = {a, b, c} \cup RunOf(d, 3) /\ passed = PassedOver(rest, d) /\ x.free \subseteq Nat
      BY <1>7, <1>9, <2>3
    <3>2. /\ a \in taken /\ b \in taken /\ a # b /\ taken \subseteq x.free
          /\ NoneInFront(x.free, taken, PassedOver(rest, d))
          /\ \A f \in x.free \ taken : a < f /\ b < f
      BY <2>5, <3>1, LowestTaken
    <3> QED
      BY <3>1, <3>2
  <2>7. passed \in SUBSET Nat
    BY <2>2, <2>3 DEF PassedOver
  <2>8. Sound(y) /\ AskedIn(y, KHEAP, {}) /\ GivenIn(y, KHEAP, <<>>, {})
    BY <1>2, <2>2, <2>4, <2>6, <2>7, BegunSound
  <2> QED
    BY <1>10, <1>11, <2>8 DEF PagingInv
<1> QED
  BY <1>8, <1>12, <1>13

\* The heap has no more pages than the machine has frames.
LEMMA HeapFits ==
  ASSUME Layout, NEW list \in Seq(MemFrames),
         \A j, k \in 1..Len(list) : list[j] = list[k] => j = k
  PROVE  Len(list) <= FrameCount
<1>1. FrameCount \in Nat /\ Len(list) \in Nat /\ MemFrames = 0..(FrameCount - 1)
  BY PagingSizes
<1>2. IsFiniteSet(0..(FrameCount - 1)) /\ Cardinality(0..(FrameCount - 1)) = FrameCount
  BY <1>1, FS_Interval
<1>3. IsFiniteSet(1..Len(list)) /\ Cardinality(1..Len(list)) = Len(list)
  <2>1. PICK l \in Nat : l = Len(list)
    BY <1>1
  <2>2. 1 \in Int /\ l \in Int
    OBVIOUS
  <2>3. IsFiniteSet(1..l) /\ Cardinality(1..l) = l
    BY <2>2, FS_Interval
  <2> QED
    BY <2>1, <2>3
<1>4. list \in [1..Len(list) -> MemFrames]
  OBVIOUS
<1>5. ASSUME FrameCount < Len(list)
      PROVE  FALSE
  <2>1. \E j, k \in 1..Len(list) : j # k /\ list[j] = list[k]
    BY <1>1, <1>2, <1>3, <1>4, <1>5, FS_PigeonHole
  <2> QED
    BY <2>1
<1> QED
  BY <1>1, <1>5

\* A page of the heap is mapped, behind the kernel, and out of the way of devices.
LEMMA HeapPage ==
  ASSUME Layout, Room, NEW x, NEW top, NEW list, NEW regs, GivenIn(x, top, list, regs),
         NEW p \in KHEAP..(top - 1)
  PROVE  /\ p \in Pages /\ p \in Nat /\ p >= Above
         /\ Entry(x, p) # 0 /\ x.dir[TableOf(p)] # 0 /\ p < KHEAP + FrameCount
         /\ (p - KHEAP) + 1 \in 1..Len(list)
<1>0. /\ KHEAP \in Nat /\ Above \in Nat /\ Above <= KHEAP /\ top \in Nat /\ Len(list) \in Nat
      /\ top = KHEAP + Len(list) /\ top <= Tables * PerTable /\ Tables * PerTable \in Nat
      /\ Pages = 0..(Tables * PerTable - 1) /\ list \in Seq(MemFrames)
  <2>1. Above \in Nat /\ Tables \in Nat /\ PerTable \in Nat /\ KHEAP \in Pages /\ Pages \subseteq Nat
        /\ Pages = 0..(Tables * PerTable - 1)
    BY PagingSizes DEF Layout
  <2>2. Tables * PerTable \in Nat
    BY <2>1
  <2> QED
    BY <2>1, <2>2 DEF GivenIn, Room
<1>1. PICK n : n = (p - KHEAP) + 1
  OBVIOUS
<1>2. n \in 1..Len(list) /\ p = KHEAP + (n - 1) /\ p \in Pages /\ p \in Nat /\ p >= Above
  BY <1>0, <1>1
<1>3. Entry(x, p) = list[n] + 1 /\ list[n] \in Nat
  <2>1. Entry(x, p) = list[n] + 1
    BY <1>2 DEF GivenIn
  <2>2. MemFrames \subseteq Nat
    BY PagingSizes
  <2>3. list[n] \in MemFrames
    BY <1>0, <1>2
  <2> QED
    BY <2>1, <2>2, <2>3
<1>4. Entry(x, p) # 0
  BY <1>3
<1>5. Len(list) <= FrameCount
  BY <1>0, HeapFits DEF GivenIn
<1>6. FrameCount \in Nat
  BY PagingSizes
<1>7. p < KHEAP + FrameCount
  BY <1>0, <1>5, <1>6
<1> QED
  BY <1>1, <1>2, <1>4, <1>7, EntryIs

\* Taking a run keeps the machine in order.
LEMMA TakeKeeps ==
  ASSUME Layout, NEW x, Sound(x), NEW n \in Nat \ {0}, NEW block \in Nat,
         RunOf(block, n) \subseteq x.free,
         NEW run, run = RunOf(block, n), NEW z, z = TakeRun(x, block, n)
  PROVE  /\ Sound(z) /\ z.dir = x.dir /\ z.mem = x.mem /\ z.short = x.short
         /\ z.free = x.free \ run /\ z.held = x.held \cup run
<1>1. x \in Machines /\ x.free \subseteq Nat /\ Whole(x)
  <2>1. x \in Machines
    BY DEF Sound
  <2> QED
    BY <2>1, PagingSizes DEF Machines, Whole
<1>2. PICK more : more = PassedOver(x.free, block)
  OBVIOUS
<1>3. more \in SUBSET Nat /\ NoneInFront(x.free, run, more)
  BY <1>1, <1>2, RunTaken DEF PassedOver
<1>4. PICK free, held, passed : free = x.free \ run /\ held = x.held \cup run /\ passed = x.passed \cup more
  OBVIOUS
<1>5. z = [at |-> x.at, dir |-> x.dir, mem |-> x.mem, pd |-> x.pd, free |-> free,
           held |-> held, passed |-> passed, hit |-> x.hit, short |-> x.short]
  BY <1>1, <1>2, <1>4, TakeRunIs
<1>6. free \in SUBSET MemFrames /\ held \in SUBSET MemFrames /\ passed \in SUBSET Nat
  BY <1>1, <1>3, <1>4 DEF Machines
<1>7. z \in Machines
  BY <1>1, <1>5, <1>6 DEF Machines
<1>8. /\ z.at = x.at /\ z.dir = x.dir /\ z.mem = x.mem /\ z.short = x.short /\ z.hit = x.hit
      /\ z.free = x.free \ run /\ z.held = x.held \cup run /\ z.passed = x.passed \cup more
  BY <1>4, <1>5
<1>9. HitOk(z)
  <2>1. ASSUME NEW f \in x.hit, f \in run
        PROVE  FALSE
    <3>1. f \in x.free /\ f \in Nat
      BY <1>1, <2>1
    <3>2. f < f
      BY <3>1 DEF Sound, HitOk
    <3> QED
      BY <3>1, <3>2
  <2> QED
    BY <1>8, <2>1 DEF HitOk, Sound
<1>10. 0 \notin z.free \cup z.held /\ z.free \cap z.held = {}
  BY <1>8 DEF Sound
<1>11. ASSUME NEW f \in z.free, f + 1 \in z.held
       PROVE  f + 1 \in z.passed
  <2>1. CASE f + 1 \in x.held
    BY <1>8, <1>11, <2>1 DEF Sound
  <2>2. CASE f + 1 \in run
    BY <1>3, <1>8, <1>11, <2>2 DEF NoneInFront
  <2> QED
    BY <1>8, <1>11, <2>1, <2>2
<1>12. /\ \A t \in Spaces : z.dir[t] # 0 => \A f \in z.free : z.dir[t] - 1 < f
       /\ \A t \in Spaces : z.dir[t] # 0 => z.dir[t] - 1 \in z.held /\ (t = 0 \/ t >= KernelTable)
  BY <1>8 DEF Sound
<1>13. Sound(z)
  BY <1>7, <1>8, <1>9, <1>10, <1>11, <1>12 DEF Sound
<1> QED
  BY <1>8, <1>13

\* Numbers behind a page are in its table or in the next.
LEMMA DivNear ==
  ASSUME NEW k \in Nat \ {0}, NEW t \in Nat, NEW r \in Nat, NEW a, a = k * t + r, NEW j \in Nat
  PROVE  /\ a \in Nat
         /\ r + j < k => (a + j) \div k = t
         /\ r + j >= k /\ r + j < k + k => (a + j) \div k = t + 1
<1>1. k * t \in Nat /\ k * (t + 1) = k * t + k /\ t + 1 \in Nat
  OBVIOUS
<1>2. PICK b \in Nat : b = k * t
  BY <1>1
<1>3. a = b + r /\ a \in Nat /\ a + j \in Nat
  BY <1>2
<1>4. ASSUME r + j < k
      PROVE  (a + j) \div k = t
  <2>1. r + j \in 0..(k - 1) /\ a + j = b + (r + j)
    BY <1>3, <1>4
  <2>2. a + j = k * t + (r + j)
    BY <1>2, <2>1
  <2> QED
    BY <1>3, <2>1, <2>2, DivIs
<1>5. ASSUME r + j >= k, r + j < k + k
      PROVE  (a + j) \div k = t + 1
  <2>1. PICK i \in 0..(k - 1) : i = (r + j) - k
    BY <1>5
  <2>2. a + j = (b + k) + i
    BY <1>3, <2>1
  <2>3. a + j = k * (t + 1) + i
    BY <1>1, <1>2, <2>2
  <2> QED
    BY <1>1, <1>3, <2>1, <2>3, DivIs
<1> QED
  BY <1>3, <1>4, <1>5

\* A request never needs more than one new table, that of its last page: the
\* table the heap ends in is there, and a request is no longer than a table.
LEMMA OneNewTable ==
  ASSUME Layout, Room, NEW x, NEW top, NEW list, NEW regs, GivenIn(x, top, list, regs),
         NEW n \in Requests, NEW z, z.dir = x.dir, z.free # {}
  PROVE  Supplied(z, top, n, TableOf(top + (n - 1)))
<1>1. /\ PerTable \in Nat \ {0} /\ KHEAP \in Nat /\ n \in Nat \ {0} /\ n <= PerTable
      /\ KHEAP % PerTable = 0 /\ top \in Nat /\ top >= KHEAP
  <2>1. PerTable \in Nat \ {0} /\ KHEAP \in Pages /\ Pages \subseteq Nat
    BY PagingSizes DEF Layout
  <2>2. n \in Nat \ {0} /\ n <= PerTable /\ KHEAP % PerTable = 0
    BY DEF Layout, Room
  <2>3. top \in Nat /\ Len(list) \in Nat /\ top = KHEAP + Len(list)
    BY DEF GivenIn
  <2> QED
    BY <2>1, <2>2, <2>3
<1>2. PICK t, r : t = top \div PerTable /\ r = top % PerTable
  OBVIOUS
<1>3. t \in Nat /\ r \in Nat /\ r < PerTable /\ top = PerTable * t + r
  <2>1. PerTable \in Nat \ {0} /\ top \in Nat
    BY <1>1
  <2>2. /\ top \div PerTable \in Nat /\ top % PerTable \in 0..(PerTable - 1)
        /\ top = PerTable * (top \div PerTable) + (top % PerTable)
    BY <2>1, DivMod
  <2>3. t \in Nat /\ r \in 0..(PerTable - 1) /\ top = PerTable * t + r
    BY <1>2, <2>2
  <2> QED
    BY <2>1, <2>3
<1>4. ASSUME NEW j \in 0..(n - 1)
      PROVE  /\ r + j < PerTable => TableOf(top + j) = t
             /\ r + j >= PerTable => TableOf(top + j) = t + 1
  <2>1. j \in Nat /\ r + j < PerTable + PerTable
    BY <1>1, <1>3, <1>4
  <2> QED
    BY <1>1, <1>3, <2>1, DivNear DEF TableOf
<1>5. ASSUME r # 0
      PROVE  x.dir[t] # 0
  <2>1. top # KHEAP
    BY <1>1, <1>2, <1>5
  <2>2. top - 1 \in KHEAP..(top - 1)
    BY <1>1, <2>1
  <2>3. x.dir[TableOf(top - 1)] # 0
    BY <2>2, HeapPage
  <2>4. TableOf(top - 1) = t
    <3>1. PICK b \in Nat : b = PerTable * t
      BY <1>1, <1>3
    <3>2. r - 1 \in 0..(PerTable - 1) /\ top - 1 = b + (r - 1) /\ top - 1 \in Nat
      BY <1>1, <1>3, <1>5, <3>1
    <3> QED
      BY <1>1, <1>3, <3>1, <3>2, DivIs DEF TableOf
  <2> QED
    BY <2>3, <2>4
<1>6. ASSUME NEW k \in 0..(n - 1)
      PROVE  TableOf(top + k) = TableOf(top + (n - 1)) \/ z.dir[TableOf(top + k)] # 0
  <2>1. n - 1 \in 0..(n - 1) /\ k <= n - 1 /\ k \in Nat
    BY <1>1
  <2>2. CASE r = 0
    <3>1. r + k < PerTable /\ r + (n - 1) < PerTable
      BY <1>1, <2>1, <2>2
    <3> QED
      BY <1>4, <2>1, <3>1
  <2>3. CASE r # 0 /\ r + k < PerTable
    BY <1>4, <1>5, <2>3
  <2>4. CASE r # 0 /\ r + k >= PerTable
    <3>1. r + (n - 1) >= PerTable
      BY <1>1, <1>3, <2>1, <2>4
    <3> QED
      BY <1>4, <2>1, <2>4, <3>1
  <2>5. r + k < PerTable \/ r + k >= PerTable
    BY <1>1, <1>3, <2>1
  <2> QED
    BY <2>2, <2>3, <2>4, <2>5
<1> QED
  BY <1>6 DEF Supplied

Longer(list, block, n) == list \o [i \in 1..n |-> block + i - 1]

\* What the frames of a run are to be.
Within(block, n, S) == block..(block + n - 1) \subseteq S

\* How a list is continued by the frames of a run.
Continues(long, list, block, n) ==
  /\ Len(long) = Len(list) + n
  /\ \A j \in 1..Len(list) : long[j] = list[j]
  /\ \A k \in 0..(n - 1) : long[Len(list) + (k + 1)] = block + k
  /\ \A j \in 1..(Len(list) + n) : \/ j \in 1..Len(list)
                                   \/ \E k \in 0..(n - 1) : j = Len(list) + (k + 1)

\* The list of the heap after it grew.
LEMMA LongerIs ==
  ASSUME NEW S, NEW list \in Seq(S), NEW n \in Nat, NEW block \in Nat, Within(block, n, S)
  PROVE  /\ Longer(list, block, n) \in Seq(S)
         /\ Continues(Longer(list, block, n), list, block, n)
<1>1. PICK new : new = [i \in 1..n |-> block + i - 1]
  OBVIOUS
<1>2. \A i \in 1..n : new[i] = block + (i - 1) /\ new[i] \in S
  <2>1. ASSUME NEW i \in 1..n
        PROVE  block + (i - 1) \in block..(block + n - 1)
    OBVIOUS
  <2> QED
    BY <1>1, <2>1 DEF Within
<1>3. new \in [1..n -> S]
  BY <1>1, <1>2
<1>4. new \in Seq(S) /\ Len(new) = n
  BY <1>3
<1>5. Longer(list, block, n) = list \o new
  BY <1>1 DEF Longer
<1>6. Len(list \o new) = Len(list) + n /\ list \o new \in Seq(S) /\ Len(list) \in Nat
  BY <1>4
<1>7. \A j \in 1..Len(list) : (list \o new)[j] = list[j]
  BY <1>4, <1>6
<1>8. ASSUME NEW k \in 0..(n - 1)
      PROVE  (list \o new)[Len(list) + (k + 1)] = block + k
  <2>1. k + 1 \in 1..n /\ (k + 1) - 1 = k
    OBVIOUS
  <2>2. (list \o new)[Len(list) + (k + 1)] = new[k + 1]
    BY <1>4, <1>6, <2>1
  <2> QED
    BY <1>2, <2>1, <2>2
<1>9. ASSUME NEW j \in 1..(Len(list) + n), j \notin 1..Len(list)
      PROVE  \E k \in 0..(n - 1) : j = Len(list) + (k + 1)
  <2>1. (j - Len(list)) - 1 \in 0..(n - 1) /\ j = Len(list) + (((j - Len(list)) - 1) + 1)
    BY <1>6, <1>9
  <2> QED
    BY <2>1
<1> QED
  BY <1>5, <1>6, <1>7, <1>8, <1>9 DEF Continues

\* A heap that grows: its new pages are on the frames of the run, its old ones
\* and the devices stay where they are.
LEMMA GrowKeeps ==
  ASSUME Layout, Room, NEW x, Sound(x), NEW top, NEW list, NEW regs, GivenIn(x, top, list, regs),
         NEW asked, AskedIn(x, top, asked), NEW n \in Requests, top + (n - 1) \in Pages,
         NEW block \in Nat, NEW run, run = RunOf(block, n), run \subseteq x.free,
         x.free \ run # {},
         NEW y, y = MapAll(TakeRun(x, block, n), top, block, n)
  PROVE  Dead(y) \/ (/\ Sound(y) /\ Entry(y, top) # 0
                     /\ GivenIn(y, top + n, Longer(list, block, n), regs \cup {<<top, n>>})
                     /\ AskedIn(y, top + n, asked))
<1>1. PICK z : z = TakeRun(x, block, n)
  OBVIOUS
<1>2. /\ Sound(z) /\ z.dir = x.dir /\ z.mem = x.mem /\ z.short = x.short
      /\ z.free = x.free \ run /\ z.held = x.held \cup run
  <2>1. n \in Nat \ {0}
    BY DEF Layout
  <2> QED
    BY <1>1, <2>1, TakeKeeps
<1>3. /\ n \in Nat \ {0} /\ KHEAP \in Nat /\ top \in Nat /\ Len(list) \in Nat /\ top = KHEAP + Len(list)
      /\ list \in Seq(MemFrames) /\ Above \in Nat /\ Above <= top /\ Pages \subseteq Nat
  <2>1. Above \in Nat /\ KHEAP \in Pages /\ Pages \subseteq Nat
    BY PagingSizes DEF Layout
  <2> QED
    BY <2>1 DEF Layout, Room, GivenIn
<1>4. PICK size : size = Tables * PerTable
  OBVIOUS
<1>5. size \in Nat /\ Pages = 0..(size - 1)
  <2>1. Tables \in Nat /\ PerTable \in Nat
    BY PagingSizes
  <2> QED
    BY <1>4, <2>1 DEF Pages
<1>6. top + n <= size
  BY <1>3, <1>5
<1>7. \A k \in 0..(n - 1) : top + k \in Pages
  BY <1>3, <1>5, <1>6
<1>8. PICK t : t = TableOf(top + (n - 1))
  OBVIOUS
<1>9. t \in Spaces /\ Supplied(z, top, n, t)
  <2>1. t \in Spaces
    BY <1>3, <1>8, PageIs DEF Spaces
  <2> QED
    BY <1>2, <1>8, <2>1, OneNewTable
<1>10. Dead(y) \/ (Ran(z, y, top, block, n) /\ RanFully(z, y, top, block, n, t))
  BY <1>1, <1>2, <1>3, <1>7, <1>9, RunIs
<1> SUFFICES ASSUME Ran(z, y, top, block, n), RanFully(z, y, top, block, n, t)
             PROVE  /\ Sound(y) /\ Entry(y, top) # 0
                    /\ GivenIn(y, top + n, Longer(list, block, n), regs \cup {<<top, n>>})
                    /\ AskedIn(y, top + n, asked)
  BY <1>10
<1>11. /\ Sound(y) /\ z.held \subseteq y.held /\ (y.short <=> x.short)
       /\ \A k \in 0..(n - 1) : Entry(y, top + k) = block + k + 1
       /\ \A p \in Pages : p \notin top..(top + (n - 1)) => SameEntry(z, y, p)
  <2>1. y.short \in BOOLEAN /\ z.short \in BOOLEAN
    BY <1>2 DEF Ran, Sound, Machines
  <2>2. (z.short => y.short) /\ (y.short => z.short)
    BY DEF Ran, RanFully
  <2>3. \A k \in 0..(n - 1) : Entry(y, top + k) = (block + k) + 1
    BY DEF RanFully, Placed
  <2> QED
    BY <1>2, <2>1, <2>2, <2>3 DEF Ran
<1>12. ASSUME NEW p \in Pages, p \notin top..(top + (n - 1)), Entry(x, p) # 0
       PROVE  Entry(y, p) = Entry(x, p)
  <2>1. x.dir[TableOf(p)] # 0 /\ Entry(z, p) = Entry(x, p)
    BY <1>2, <1>12, EntryIs
  <2> QED
    BY <1>2, <1>11, <1>12, <2>1 DEF SameEntry
<1>13. ASSUME NEW p \in Pages, p \notin top..(top + (n - 1)), Entry(y, p) # 0
       PROVE  Entry(x, p) # 0 \/ p % PerTable = 0
  <2>1. Entry(z, p) = Entry(x, p)
    BY <1>2, EntryIs
  <2> QED
    BY <1>11, <1>13, <2>1 DEF SameEntry
<1>14. PICK more : more = Longer(list, block, n)
  OBVIOUS
<1>15. run \subseteq MemFrames /\ x.held \cap run = {} /\ run \subseteq y.held /\ x.held \subseteq y.held
  BY <1>2, <1>11 DEF Sound, Machines
<1>16. /\ more \in Seq(MemFrames) /\ Len(more) = Len(list) + n
       /\ \A j \in 1..Len(list) : more[j] = list[j]
       /\ \A k \in 0..(n - 1) : more[Len(list) + (k + 1)] = block + k
       /\ \A j \in 1..(Len(list) + n) : \/ j \in 1..Len(list)
                                        \/ \E k \in 0..(n - 1) : j = Len(list) + (k + 1)
  <2>1. Within(block, n, MemFrames) /\ list \in Seq(MemFrames) /\ n \in Nat
    BY <1>3, <1>15 DEF Within, RunOf
  <2>2. more \in Seq(MemFrames) /\ Continues(more, list, block, n)
    BY <1>14, <2>1, LongerIs
  <2> QED
    BY <2>2 DEF Continues
<1>17. \A j \in 1..Len(more) : \/ j \in 1..Len(list) /\ more[j] = list[j]
                              \/ \E k \in 0..(n - 1) : j = Len(list) + (k + 1) /\ more[j] = block + k
  <2>1. 1..Len(more) = 1..(Len(list) + n)
    BY <1>16
  <2>2. ASSUME NEW j \in 1..(Len(list) + n), j \notin 1..Len(list)
        PROVE  \E k \in 0..(n - 1) : j = Len(list) + (k + 1) /\ more[j] = block + k
    <3>1. PICK k \in 0..(n - 1) : j = Len(list) + (k + 1)
      BY <1>16, <2>2
    <3>2. more[j] = block + k
      BY <1>16, <3>1
    <3> QED
      BY <3>1, <3>2
  <2>3. \A j \in 1..Len(list) : more[j] = list[j]
    BY <1>16
  <2> QED
    BY <2>1, <2>2, <2>3
<1>18. \A k \in 0..(n - 1) : block + k \in run /\ block + k \in y.held /\ block + k \notin x.held
  <2>1. \A k \in 0..(n - 1) : block + k \in run
    BY <1>3 DEF RunOf
  <2> QED
    BY <1>15, <2>1
<1>19. ASSUME NEW j \in 1..Len(list)
       PROVE  /\ KHEAP + (j - 1) \in Pages /\ KHEAP + (j - 1) < top
              /\ Entry(y, KHEAP + (j - 1)) = list[j] + 1 /\ list[j] \in x.held
  <2>1. Entry(x, KHEAP + (j - 1)) = list[j] + 1 /\ list[j] \in x.held
    BY DEF GivenIn
  <2>2. KHEAP + (j - 1) \in KHEAP..(top - 1)
    BY <1>3
  <2>3. Entry(x, KHEAP + (j - 1)) # 0 /\ KHEAP + (j - 1) \in Pages
    BY <2>2, HeapPage
  <2>4. KHEAP + (j - 1) \notin top..(top + (n - 1)) /\ KHEAP + (j - 1) < top
    BY <1>3, <2>2
  <2> QED
    BY <1>12, <2>1, <2>3, <2>4
<1>20. GivenIn(y, top + n, more, regs \cup {<<top, n>>})
  <2>1. /\ top + n \in Nat /\ more \in Seq(MemFrames) /\ top + n = KHEAP + Len(more)
        /\ top + n <= Tables * PerTable
    BY <1>3, <1>4, <1>6, <1>16
  <2>2. ASSUME NEW j \in 1..Len(more)
        PROVE  Entry(y, KHEAP + (j - 1)) = more[j] + 1 /\ more[j] \in y.held
    <3>1. CASE j \in 1..Len(list) /\ more[j] = list[j]
      BY <1>15, <1>19, <3>1
    <3>2. CASE \E k \in 0..(n - 1) : j = Len(list) + (k + 1) /\ more[j] = block + k
      <4>1. PICK k \in 0..(n - 1) : j = Len(list) + (k + 1) /\ more[j] = block + k
        BY <3>2
      <4>2. KHEAP + (j - 1) = top + k
        BY <1>3, <4>1
      <4> QED
        BY <1>11, <1>18, <4>1, <4>2
    <3> QED
      BY <1>17, <3>1, <3>2
  <2>3. ASSUME NEW j \in 1..Len(more), NEW k \in 1..Len(more), more[j] = more[k]
        PROVE  j = k
    <3>1. ASSUME NEW i \in 1..Len(list), NEW h \in 0..(n - 1)
          PROVE  list[i] # block + h
      BY <1>18, <1>19
    <3>2. \A i, h \in 1..Len(list) : list[i] = list[h] => i = h
      BY DEF GivenIn
    <3>3. \A i, h \in 0..(n - 1) : block + i = block + h => i = h
      OBVIOUS
    <3>4. CASE j \in 1..Len(list) /\ more[j] = list[j]
      BY <1>17, <2>3, <3>1, <3>2, <3>4
    <3>5. CASE \E i \in 0..(n - 1) : j = Len(list) + (i + 1) /\ more[j] = block + i
      <4>1. PICK i \in 0..(n - 1) : j = Len(list) + (i + 1) /\ more[j] = block + i
        BY <3>5
      <4>2. PICK h \in 0..(n - 1) : k = Len(list) + (h + 1) /\ more[k] = block + h
        BY <1>17, <2>3, <3>1, <4>1
      <4>3. i = h
        BY <2>3, <3>3, <4>1, <4>2
      <4> QED
        BY <4>1, <4>2, <4>3
    <3> QED
      BY <1>17, <3>4, <3>5
  <2>4. \A r \in regs \cup {<<top, n>>} : r[1] \in KHEAP..((top + n) - 1)
    <3>1. top \in KHEAP..((top + n) - 1)
      BY <1>3
    <3>2. \A r \in regs : r[1] \in KHEAP..(top - 1)
      BY DEF GivenIn
    <3>3. KHEAP..(top - 1) \subseteq KHEAP..((top + n) - 1)
      BY <1>3
    <3> QED
      BY <3>1, <3>2, <3>3
  <2> QED
    BY <2>1, <2>2, <2>3, <2>4 DEF GivenIn
<1>21. top + n <= KHEAP + FrameCount
  <2>1. Len(more) <= FrameCount
    BY <1>16, <1>20, HeapFits DEF GivenIn
  <2> QED
    BY <1>3, <1>16, <2>1, PagingSizes
<1>22. AskedIn(y, top + n, asked)
  <2>1. ASSUME NEW q \in asked
        PROVE  /\ q \in Pages /\ q >= Above /\ (q < KHEAP \/ KHEAP + FrameCount <= q)
               /\ q \notin top..(top + (n - 1)) /\ q \in Nat
    <3>1. q \in Pages /\ q >= Above /\ (q < KHEAP \/ KHEAP + FrameCount <= q) /\ q \in Nat
      BY <1>3 DEF AskedIn
    <3>2. FrameCount \in Nat
      BY PagingSizes
    <3> QED
      BY <1>3, <1>21, <3>1, <3>2
  <2>2. y.short \/ \A q \in asked : Entry(y, q) = q + 1
    <3> SUFFICES ASSUME ~y.short, NEW q \in asked
                 PROVE  Entry(y, q) = q + 1
      OBVIOUS
    <3>1. Entry(x, q) = q + 1
      BY <1>11 DEF AskedIn
    <3>2. Entry(x, q) # 0
      BY <2>1, <3>1
    <3> QED
      BY <1>12, <2>1, <3>1, <3>2
  <2>3. ASSUME NEW q \in Pages, Entry(y, q) # 0
        PROVE  \/ TableOf(q) = 0 \/ TableOf(q) = KernelTable
               \/ q \in KHEAP..((top + n) - 1) \/ q \in asked \/ q % PerTable = 0
    <3>1. CASE q \in top..(top + (n - 1))
      BY <1>3, <3>1
    <3>2. CASE q \notin top..(top + (n - 1))
      <4>1. Entry(x, q) # 0 \/ q % PerTable = 0
        BY <1>13, <2>3, <3>2
      <4>2. Entry(x, q) # 0 => \/ TableOf(q) = 0 \/ TableOf(q) = KernelTable
                                  \/ q \in KHEAP..(top - 1) \/ q \in asked \/ q % PerTable = 0
        BY DEF AskedIn
      <4>3. KHEAP..(top - 1) \subseteq KHEAP..((top + n) - 1)
        BY <1>3
      <4> QED
        BY <4>1, <4>2, <4>3
    <3> QED
      BY <3>1, <3>2
  <2> QED
    BY <2>1, <2>2, <2>3 DEF AskedIn
<1>23. Entry(y, top) # 0
  <2>1. 0 \in 0..(n - 1) /\ top + 0 = top
    BY <1>3
  <2>2. Entry(y, top) = block + 0 + 1
    BY <1>11, <2>1
  <2> QED
    BY <2>2
<1> QED
  BY <1>11, <1>14, <1>20, <1>22, <1>23

\* As pmmngr_alloc_blocks() has it, a frame is left when a run was taken.
LEMMA OneIsLeft ==
  ASSUME NEW free, NEW n \in Nat \ {0}, NEW block \in Nat, NEW run, run = RunOf(block, n),
         run \subseteq free, Enough(free, n)
  PROVE  free \ run # {}
<1>1. PICK last \in Int : last = block + n - 1
  OBVIOUS
<1>2. block \in Int /\ ~(block > last) /\ (last - block) + 1 = n /\ run = block..last
  BY <1>1 DEF RunOf
<1>3. IsFiniteSet(run) /\ Cardinality(run) = n
  BY <1>2, FS_Interval
<1>4. Cardinality(free) > n
  BY DEF Enough
<1>5. ASSUME free \ run = {}
      PROVE  FALSE
  <2>1. free = run
    BY <1>5
  <2> QED
    BY <1>3, <1>4, <2>1
<1> QED
  BY <1>5

\* liballoc_alloc() keeps the invariant.
LEMMA AllocKeeps ==
  ASSUME Layout, Room, PagingInv, liballoc_alloc
  PROVE  PagingInv'
<1>1. paging.at = "on"
  BY DEF liballoc_alloc
<1>2. /\ Sound(paging) /\ GivenIn(paging, heaptop, meant, regions)
      /\ AskedIn(paging, heaptop, mapped)
  BY <1>1 DEF PagingInv, Begun, Dead
<1>3. PICK n \in Requests :
        /\ heaptop + (n - 1) \in Pages
        /\ vmmngr_alloc_pages_at_virtual_address(n)
        /\ heaptop' = heaptop + n /\ regions' = regions \cup {<<heaptop, n>>}
        /\ mapped' = mapped
  <2>1. PICK n \in Requests :
          /\ heaptop + n - 1 \in Pages
          /\ vmmngr_alloc_pages_at_virtual_address(n)
          /\ heaptop' = heaptop + n /\ regions' = regions \cup {<<heaptop, n>>}
    BY DEF liballoc_alloc
  <2>2. heaptop + n - 1 = heaptop + (n - 1)
    BY <1>2 DEF GivenIn, Layout
  <2>3. mapped' = mapped
    BY DEF liballoc_alloc
  <2> QED
    BY <2>1, <2>2, <2>3
<1>4. n \in Nat \ {0} /\ paging.free \subseteq Nat
  BY <1>2, PagingSizes DEF Layout, Sound, Machines
<1>5. PICK block \in BlocksFor(paging.free, n) \ {-1} :
        \/ /\ RunOf(block, n) \subseteq paging.free
           /\ LET z == MapAll(TakeRun(paging, block, n), heaptop, block, n)
              IN paging' = IF z.at = "on" /\ Entry(z, heaptop) = 0 THEN Halted(z) ELSE z
           /\ meant' = meant \o [i \in 1..n |-> block + i - 1]
        \/ /\ ~(RunOf(block, n) \subseteq paging.free)
           /\ paging' = Astray(paging) /\ meant' = meant
  BY <1>3 DEF vmmngr_alloc_pages_at_virtual_address
<1>6. block \in Nat
  BY <1>4, <1>5, BlockFound
<1>7. Enough(paging.free, n)
  BY <1>5 DEF BlocksFor
<1>8. CASE paging' = Astray(paging)
  <2>1. PICK z : z = paging'
    OBVIOUS
  <2>2. z.at = "astray" /\ z.hit = paging.hit /\ z.held = paging.held
        /\ z.passed = paging.passed /\ z.free = paging.free
    BY <1>2, <1>8, <2>1 DEF Astray, Sound, Machines
  <2>3. Dead(z)
    BY <1>2, <2>2 DEF Dead, HitOk, Sound
  <2> QED
    BY <2>1, <2>3 DEF PagingInv
<1>9. PICK y : y = MapAll(TakeRun(paging, block, n), heaptop, block, n)
  OBVIOUS
<1>10. CASE /\ RunOf(block, n) \subseteq paging.free
            /\ paging' = IF y.at = "on" /\ Entry(y, heaptop) = 0 THEN Halted(y) ELSE y
            /\ meant' = meant \o [i \in 1..n |-> block + i - 1]
  <2>1. PICK run : run = RunOf(block, n)
    OBVIOUS
  <2>2. meant' = Longer(meant, block, n)
    BY <1>10 DEF Longer
  <2>3. paging.free \ run # {}
    BY <1>4, <1>6, <1>7, <1>10, <2>1, OneIsLeft
  <2>4. Dead(y) \/ (/\ Sound(y) /\ Entry(y, heaptop) # 0
                    /\ GivenIn(y, heaptop + n, Longer(meant, block, n), regions \cup {<<heaptop, n>>})
                    /\ AskedIn(y, heaptop + n, mapped))
    BY <1>2, <1>3, <1>6, <1>9, <1>10, <2>1, <2>3, GrowKeeps
  <2>5. CASE Dead(y)
    <3>1. paging' = y
      BY <1>10, <2>5 DEF Dead
    <3> QED
      BY <2>5, <3>1 DEF PagingInv
  <2>6. CASE /\ Sound(y) /\ Entry(y, heaptop) # 0
             /\ GivenIn(y, heaptop + n, Longer(meant, block, n), regions \cup {<<heaptop, n>>})
             /\ AskedIn(y, heaptop + n, mapped)
    <3>1. paging' = y
      BY <1>10, <2>6
    <3> QED
      BY <1>3, <2>2, <2>6, <3>1 DEF PagingInv
  <2> QED
    BY <2>4, <2>5, <2>6
<1> QED
  BY <1>5, <1>8, <1>9, <1>10

\* Nothing is given back: the first page of a region is always mapped.
LEMMA FreeKeeps ==
  ASSUME Layout, Room, PagingInv, liballoc_free
  PROVE  PagingInv'
<1>1. paging.at = "on"
  BY DEF liballoc_free
<1>2. /\ Sound(paging) /\ GivenIn(paging, heaptop, meant, regions)
      /\ AskedIn(paging, heaptop, mapped)
  BY <1>1 DEF PagingInv, Begun, Dead
<1>3. PICK r \in regions :
        /\ regions' = regions \ {r}
        /\ Refuses(r[1]) => paging' = paging
        /\ heaptop' = heaptop /\ meant' = meant /\ mapped' = mapped
  BY DEF liballoc_free
<1>4. r[1] \in KHEAP..(heaptop - 1)
  BY <1>2 DEF GivenIn
<1>5. Entry(paging, r[1]) # 0
  BY <1>2, <1>4, HeapPage
<1>6. paging' = paging
  BY <1>3, <1>5 DEF Refuses
<1>7. PICK fewer : fewer = regions \ {r}
  OBVIOUS
<1>8. GivenIn(paging, heaptop, meant, fewer)
  BY <1>2, <1>7 DEF GivenIn
<1> QED
  BY <1>2, <1>3, <1>6, <1>7, <1>8 DEF PagingInv

\* A device that is mapped: what was mapped stays where it is.
LEMMA DeviceKeeps ==
  ASSUME Layout, Room, NEW x, Sound(x), NEW top, NEW list, NEW regs, GivenIn(x, top, list, regs),
         NEW asked, AskedIn(x, top, asked), NEW d \in Devices,
         NEW y, y = MapAll(x, d[1], d[1], d[2])
  PROVE  Dead(y) \/ (/\ Sound(y) /\ GivenIn(y, top, list, regs)
                     /\ AskedIn(y, top, asked \cup (d[1]..(d[1] + (d[2] - 1)))))
<1>1. PICK q, n : q = d[1] /\ n = d[2]
  OBVIOUS
<1>2. PICK size : size = Tables * PerTable
  OBVIOUS
<1>3. size \in Nat /\ Pages = 0..(size - 1)
  <2>1. Tables \in Nat /\ PerTable \in Nat
    BY PagingSizes
  <2> QED
    BY <1>2, <2>1 DEF Pages
<1>4. /\ q \in Nat /\ n \in Nat /\ Above \in Nat /\ q >= Above /\ q + n <= size
      /\ KHEAP \in Nat /\ FrameCount \in Nat /\ (q + n <= KHEAP \/ KHEAP + FrameCount <= q)
  <2>1. q \in Pages /\ n \in Nat /\ KHEAP \in Pages
    BY <1>1 DEF Layout
  <2>2. Above \in Nat /\ FrameCount \in Nat
    BY PagingSizes
  <2>3. q >= Above /\ q + n <= size /\ (q + n <= KHEAP \/ KHEAP + FrameCount <= q)
    BY <1>1, <1>2 DEF Room
  <2> QED
    BY <1>3, <2>1, <2>2, <2>3
<1>5. \A k \in 0..(n - 1) : q + k \in Pages
  BY <1>3, <1>4
<1>6. Dead(y) \/ Ran(x, y, q, q, n)
  BY <1>1, <1>4, <1>5, RunIs
<1> SUFFICES ASSUME Ran(x, y, q, q, n)
             PROVE  /\ Sound(y) /\ GivenIn(y, top, list, regs)
                    /\ AskedIn(y, top, asked \cup (q..(q + (n - 1))))
  BY <1>1, <1>6
<1>7. ASSUME NEW p \in Pages, p \notin q..(q + (n - 1)), Entry(x, p) # 0
      PROVE  Entry(y, p) = Entry(x, p)
  <2>1. x.dir[TableOf(p)] # 0
    BY <1>7, EntryIs
  <2> QED
    BY <1>7, <2>1 DEF Ran, SameEntry
<1>8. ASSUME NEW p \in Pages, p \notin q..(q + (n - 1)), Entry(y, p) # 0
      PROVE  Entry(x, p) # 0 \/ p % PerTable = 0
  BY <1>8 DEF Ran, SameEntry
<1>9. GivenIn(y, top, list, regs)
  <2>1. ASSUME NEW j \in 1..Len(list)
        PROVE  Entry(y, KHEAP + (j - 1)) = list[j] + 1 /\ list[j] \in y.held
    <3>1. Entry(x, KHEAP + (j - 1)) = list[j] + 1 /\ list[j] \in x.held
      BY DEF GivenIn
    <3>2. PICK p : p = KHEAP + (j - 1)
      OBVIOUS
    <3>3. p \in KHEAP..(top - 1)
      BY <1>4, <3>2 DEF GivenIn
    <3>4. p \in Pages /\ p \in Nat /\ Entry(x, p) # 0 /\ p < KHEAP + FrameCount
      BY <3>3, HeapPage
    <3>5. KHEAP <= p /\ p \in Nat
      BY <1>4, <3>2
    <3>6. p \notin q..(q + (n - 1))
      BY <1>4, <3>4, <3>5
    <3>7. Entry(y, p) = Entry(x, p)
      BY <1>7, <3>4, <3>6
    <3> QED
      BY <3>1, <3>2, <3>7 DEF Ran
  <2> QED
    BY <2>1 DEF GivenIn
<1>10. \A p \in q..(q + (n - 1)) : y.short \/ Entry(y, p) = p + 1
  <2>1. ASSUME NEW p \in q..(q + (n - 1)), ~y.short
        PROVE  Entry(y, p) = p + 1
    <3>1. PICK k : k = p - q
      OBVIOUS
    <3>2. k \in 0..(n - 1) /\ p = q + k
      BY <1>4, <3>1
    <3>3. Placed(y, q + k, q + k)
      BY <2>1, <3>2 DEF Ran
    <3> QED
      BY <3>2, <3>3 DEF Placed
  <2> QED
    BY <2>1
<1>11. AskedIn(y, top, asked \cup (q..(q + (n - 1))))
  <2>1. ASSUME NEW p \in asked \cup (q..(q + (n - 1)))
        PROVE  p \in Pages /\ p >= Above /\ (p < KHEAP \/ KHEAP + FrameCount <= p)
    <3>1. CASE p \in q..(q + (n - 1))
      BY <1>3, <1>4, <3>1
    <3>2. CASE p \in asked
      BY <3>2 DEF AskedIn
    <3> QED
      BY <3>1, <3>2
  <2>2. ASSUME ~y.short, NEW p \in asked, p \notin q..(q + (n - 1))
        PROVE  Entry(y, p) = p + 1
    <3>1. Entry(x, p) = p + 1 /\ p \in Pages
      BY <2>2 DEF AskedIn, Ran
    <3>2. p \in Nat
      BY <3>1, PagingSizes
    <3>3. Entry(x, p) # 0
      BY <3>1, <3>2
    <3> QED
      BY <1>7, <2>2, <3>1, <3>3
  <2>3. y.short \/ \A p \in asked \cup (q..(q + (n - 1))) : Entry(y, p) = p + 1
    BY <1>10, <2>2
  <2>4. ASSUME NEW p \in Pages, Entry(y, p) # 0
        PROVE  \/ TableOf(p) = 0 \/ TableOf(p) = KernelTable
               \/ p \in KHEAP..(top - 1) \/ p \in asked \cup (q..(q + (n - 1))) \/ p % PerTable = 0
    <3>1. p \notin q..(q + (n - 1)) => Entry(x, p) # 0 \/ p % PerTable = 0
      BY <1>8, <2>4
    <3>2. Entry(x, p) # 0 => \/ TableOf(p) = 0 \/ TableOf(p) = KernelTable
                                \/ p \in KHEAP..(top - 1) \/ p \in asked \/ p % PerTable = 0
      BY DEF AskedIn
    <3> QED
      BY <3>1, <3>2
  <2> QED
    BY <2>1, <2>3, <2>4 DEF AskedIn
<1> QED
  BY <1>9, <1>11 DEF Ran

\* vmmngr_identMap() keeps the invariant.
LEMMA IdentMapKeeps ==
  ASSUME Layout, Room, PagingInv, vmmngr_identMap
  PROVE  PagingInv'
<1>1. paging.at = "on"
  BY DEF vmmngr_identMap
<1>2. /\ Sound(paging) /\ GivenIn(paging, heaptop, meant, regions)
      /\ AskedIn(paging, heaptop, mapped)
  BY <1>1 DEF PagingInv, Begun, Dead
<1>3. PICK d \in Devices :
        /\ paging' = MapAll(paging, d[1], d[1], d[2])
        /\ mapped' = mapped \cup (d[1]..(d[1] + d[2] - 1))
        /\ heaptop' = heaptop /\ meant' = meant /\ regions' = regions
  BY DEF vmmngr_identMap
<1>4. d[1] + d[2] - 1 = d[1] + (d[2] - 1)
  <2>1. d[1] \in Nat /\ d[2] \in Nat
    BY PagingSizes DEF Layout
  <2> QED
    BY <2>1
<1>5. PICK y, more : y = MapAll(paging, d[1], d[1], d[2]) /\ more = mapped \cup (d[1]..(d[1] + (d[2] - 1)))
  OBVIOUS
<1>6. Dead(y) \/ (Sound(y) /\ GivenIn(y, heaptop, meant, regions) /\ AskedIn(y, heaptop, more))
  BY <1>2, <1>5, DeviceKeeps
<1>7. paging' = y /\ mapped' = more
  BY <1>3, <1>4, <1>5
<1> QED
  BY <1>3, <1>6, <1>7 DEF PagingInv

\* Every step keeps the invariant.
LEMMA PagingKept ==
  ASSUME Layout, Room, PagingInv, [PagingNext]_(pagingVars)
  PROVE  PagingInv'
<1>1. CASE vmmngr_initialize
  BY <1>1, InitializeKeeps
<1>2. CASE liballoc_alloc
  BY <1>2, AllocKeeps
<1>3. CASE liballoc_free
  BY <1>3, FreeKeeps
<1>4. CASE vmmngr_identMap
  BY <1>4, IdentMapKeeps
<1>5. CASE UNCHANGED pagingVars
  BY <1>5 DEF pagingVars, PagingInv
<1> QED
  BY <1>1, <1>2, <1>3, <1>4, <1>5 DEF PagingNext

\* The invariant gives the exactness of the mappings.
LEMMA PagingMapsExact ==
  ASSUME Layout, Room, PagingInv
  PROVE  MapsExact
<1> SUFFICES ASSUME paging.at = "on"
             PROVE  MapsExact
  BY DEF MapsExact, KernelMapsKept, MapsKept, NothingElse
<1>1. /\ Sound(paging) /\ GivenIn(paging, heaptop, meant, regions)
      /\ AskedIn(paging, heaptop, mapped)
  BY DEF PagingInv, Begun, Dead
<1>2. KernelMapsKept
  BY <1>1, SoundTables DEF KernelMapsKept
<1>3. MapsKept
  <2>1. DOMAIN meant = 1..Len(meant) /\ KHEAP \in Nat
    BY <1>1, PagingSizes DEF GivenIn, Layout
  <2>2. ASSUME NEW n \in DOMAIN meant
        PROVE  Entry(paging, KHEAP + n - 1) = meant[n] + 1
    <3>1. n \in 1..Len(meant) /\ KHEAP + n - 1 = KHEAP + (n - 1)
      BY <2>1
    <3> QED
      BY <1>1, <3>1 DEF GivenIn
  <2> QED
    BY <1>1, <2>2 DEF AskedIn, MapsKept
<1>4. NothingElse
  <2>1. ASSUME NEW q \in Pages, Entry(paging, q) # 0
        PROVE  \/ q \in Index \/ q \div PerTable = KernelTable
               \/ q \in Heap \cup mapped \/ q % PerTable = 0
    <3>1. q \in Nat
      BY PagingSizes
    <3>2. TableOf(q) = 0 => q \in Index
      <4>1. q % PerTable \in Index /\ q = PerTable * TableOf(q) + (q % PerTable)
        BY <3>1, PageIs
      <4>2. PerTable * 0 = 0 /\ Index \subseteq Nat
        BY PagingSizes
      <4>3. PICK r : r = q % PerTable
        OBVIOUS
      <4>4. r \in Index /\ r \in Nat /\ (TableOf(q) = 0 => q = 0 + r)
        BY <4>1, <4>2, <4>3
      <4> QED
        BY <4>4
    <3>3. \/ TableOf(q) = 0 \/ TableOf(q) = KernelTable
          \/ q \in KHEAP..(heaptop - 1) \/ q \in mapped \/ q % PerTable = 0
      BY <1>1, <2>1 DEF AskedIn
    <3> QED
      BY <3>2, <3>3 DEF TableOf, Heap
  <2> QED
    BY <2>1 DEF NothingElse
<1> QED
  BY <1>2, <1>3, <1>4 DEF MapsExact

\* The invariant says what clearing reaches.
LEMMA PagingClears ==
  ASSUME PagingInv
  PROVE  ClearsItsOwn
<1>1. CASE Begun(paging)
  BY <1>1 DEF Begun, ClearsItsOwn, HitsOnlyPassed, HitsLast, HaltsOnlyOutside
<1>2. CASE Dead(paging) \/ Sound(paging)
  BY <1>2 DEF Dead, Sound, HitOk, ClearsItsOwn, HitsOnlyPassed, HitsLast, HaltsOnlyOutside
<1> QED
  BY <1>1, <1>2 DEF PagingInv

\* In a machine laid out as Room says, whatever the search for frames that lie
\* together finds, and as long as it does not go astray: what vmm.c has mapped,
\* and where, is at every moment what the kernel, the heap and pci.c asked for.
\* The first 4 MB lie on themselves, the kernel on the kernel, each page of the heap
\* on the frame it was given, each device where it is, and nothing else is mapped.
THEOREM PagesMappedAsAsked == Layout /\ Room /\ PagingSpec => []MapsExact
<1> SUFFICES ASSUME Layout, Room
             PROVE  PagingSpec => []MapsExact
  OBVIOUS
<1>1. PagingInit => PagingInv
  BY PagingBegins
<1>2. PagingInv /\ [PagingNext]_(pagingVars) => PagingInv'
  BY PagingKept
<1>3. PagingInv => MapsExact
  BY PagingMapsExact
<1> QED
  BY <1>1, <1>2, <1>3, PTL DEF PagingSpec

\* In such a machine memset(), which begins and ends 3 bytes too late when it
\* clears a new table, reaches a frame that was handed out only if the search for
\* several frames had passed over the free frame in front of it; it reaches a frame
\* that nobody handed out, such as the kernel's, only when no frame below that is
\* left; and when the code halts a table would have lain outside the first 4 MB.
THEOREM ClearsOnlyItsOwn == Layout /\ Room /\ PagingSpec => []ClearsItsOwn
<1> SUFFICES ASSUME Layout, Room
             PROVE  PagingSpec => []ClearsItsOwn
  OBVIOUS
<1>1. PagingInit => PagingInv
  BY PagingBegins
<1>2. PagingInv /\ [PagingNext]_(pagingVars) => PagingInv'
  BY PagingKept
<1>3. PagingInv => ClearsItsOwn
  BY PagingClears
<1> QED
  BY <1>1, <1>2, <1>3, PTL DEF PagingSpec

=============================================================================
