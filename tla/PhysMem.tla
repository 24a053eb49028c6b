------------------------------ MODULE PhysMem -------------------------------
(***************************************************************************)
(* The physical memory manager of ScorchOS, src/pmm.c, and the boot        *)
(* sequence of src/kernel.c that sets it up: a bitmap of page frames and a *)
(* count of the frames in use, kept apart from each other.                 *)
(*                                                                         *)
(* The bitmap is the set of the bits that are 1.  pmmngr_init() puts it in *)
(* the memory behind the kernel, where nothing has cleared it: the bits    *)
(* beyond those it fills have the value that memory happens to have, the   *)
(* same for all of them in this model.  Addresses and sizes are in bytes   *)
(* of a block of BlockSize bytes.                                          *)
(*                                                                         *)
(* The callers of the manager (vmm.c, and heap.c through it) are modelled  *)
(* by what they may do: ask for frames, and give back what they were given.*)
(***************************************************************************)
EXTENDS FrameSearch, Sequences

CONSTANTS
  BlockSize,   \* bytes in a block: 4096
  ByteBits,    \* bits in a byte of the map: 8
  FillBits,    \* the low bits that the fill value 0x0f sets in a byte: 4
  MemBytes,    \* what the boot loader reports, mem_lower + mem_upper
  Regions,     \* the available regions of its memory map: <<base, size>>
  Top,         \* number of frames the machine has, holes included
  Kernel,      \* <<base, size>> of the kernel image
  Low,         \* <<base, size>> of the low memory kernel.c sets aside
  Sizes        \* how many frames callers ask for

_mmngr_max_blocks == MemBytes \div BlockSize
\* mmap_first_free() and mmap_first_free_s() look at one word for each block.
Span == _mmngr_max_blocks * WordBits

\* The frames a region stands for, as init_region and deinit_region count them:
\* both its base and its size are rounded down.
Align(r)  == r[1] \div BlockSize
Blocks(r) == Align(r)..(Align(r) + (r[2] \div BlockSize) - 1)
Reserved  == Blocks(Kernel) \cup Blocks(Low)
Available == UNION {Blocks(Regions[n]) : n \in 1..Len(Regions)}

ASSUME SizeAssumption ==
  /\ BlockSize \in Nat \ {0} /\ ByteBits \in Nat \ {0}
  /\ FillBits \in Nat /\ MemBytes \in Nat /\ Top \in Nat
  /\ Sizes \subseteq Nat
ASSUME RegionAssumption ==
  /\ Regions \in Seq(Nat \X Nat) /\ Kernel \in Nat \X Nat /\ Low \in Nat \X Nat
  /\ 0 \in Blocks(Low)
  /\ Available \cup Reserved \subseteq 0..(Span - 1)

\* The machine the boot expects: the regions of the memory map lie apart, in
\* memory that exists, and the kernel and the low memory in the map, apart.
BootedAsMapped ==
  /\ \A m, n \in 1..Len(Regions) : m # n => Blocks(Regions[m]) \cap Blocks(Regions[n]) = {}
  /\ Available \subseteq 0..(Top - 1) /\ Reserved \subseteq Available
  /\ Blocks(Kernel) \cap Blocks(Low) = {}

VARIABLES
  phase,                \* how far the boot has come
  region,               \* the regions of the memory map enabled so far
  _mmngr_memory_map,    \* the bits that are set: frames not to be handed out
  _mmngr_used_blocks,   \* the frames in use, as counted
  allocs,               \* history: what callers hold, [frame, size]
  owners,               \* history: how many callers hold each frame
  refused               \* history: the last call, an allocation, returned 0

count == _mmngr_used_blocks
map   == _mmngr_memory_map
vars  == <<phase, region, _mmngr_memory_map, _mmngr_used_blocks, allocs, owners, refused>>

Phases == {"off", "regions", "kernel", "low", "run"}
\* Every frame an allocation can name: it starts on a bit of the map.
Frames == 0..(2 * Span)
FramesOf(a) == a.frame..(a.frame + a.size - 1)

Init ==
  /\ phase = "off" /\ region = 0
  /\ _mmngr_memory_map = {} \/ _mmngr_memory_map = 0..(Span - 1)
  /\ _mmngr_used_blocks = 0
  /\ allocs = {} /\ owners = [f \in Frames |-> 0] /\ refused = FALSE

-----------------------------------------------------------------------------
(* Boot *)

\* memset writes 0x0f in every byte of the map; all blocks count as used.
Filled == {b \in 0..(Span - 1) :
             b \div ByteBits < _mmngr_max_blocks \div ByteBits}
\* Mutant: the count of used blocks starts from 0.
pmmngr_init_none_used ==
  /\ phase = "off" /\ phase' = "regions"
  /\ _mmngr_used_blocks' = 0
  /\ _mmngr_memory_map' = (map \ Filled) \cup {b \in Filled : b % ByteBits < FillBits}
  /\ UNCHANGED <<region, allocs, owners, refused>>

pmmngr_init ==
  /\ phase = "off" /\ phase' = "regions"
  /\ _mmngr_used_blocks' = _mmngr_max_blocks
  /\ _mmngr_memory_map' = (map \ Filled) \cup {b \in Filled : b % ByteBits < FillBits}
  /\ UNCHANGED <<region, allocs, owners, refused>>

\* Frame 0 is set again at the end, without being counted.
pmmngr_init_region ==
  /\ phase = "regions" /\ region < Len(Regions)
  /\ region' = region + 1
  /\ _mmngr_memory_map' = (map \ Blocks(Regions[region + 1])) \cup {0}
  /\ _mmngr_used_blocks' = count - Cardinality(Blocks(Regions[region + 1]))
  /\ UNCHANGED <<phase, allocs, owners, refused>>

RegionsDone ==
  /\ phase = "regions" /\ region = Len(Regions)
  /\ phase' = "kernel"
  /\ UNCHANGED <<region, _mmngr_memory_map, _mmngr_used_blocks, allocs, owners, refused>>

\* Mutant: the first block of the region is skipped.
DeinitShort(r) ==
  /\ _mmngr_memory_map' = map \cup (Blocks(r) \ {Align(r)}) \cup {0}
  /\ _mmngr_used_blocks' = count + Cardinality(Blocks(r))
  /\ UNCHANGED <<region, allocs, owners, refused>>

Deinit(r) ==
  /\ _mmngr_memory_map' = map \cup Blocks(r) \cup {0}
  /\ _mmngr_used_blocks' = count + Cardinality(Blocks(r))
  /\ UNCHANGED <<region, allocs, owners, refused>>

pmmngr_deinit_region ==
  \/ phase = "kernel" /\ phase' = "low" /\ Deinit(Kernel)
  \/ phase = "low" /\ phase' = "run" /\ Deinit(Low)

-----------------------------------------------------------------------------
(* Allocation *)

\* pmmngr_get_free_block_count() > n, a comparison of unsigned numbers: the
\* count wraps to a huge number when more blocks are used than there are.
MoreFreeThan(n) ==
  \/ count > _mmngr_max_blocks
  \/ _mmngr_max_blocks - count > n

Clear == 0..(Span - 1) \ map

Refuse ==
  /\ refused' = TRUE
  /\ UNCHANGED <<_mmngr_memory_map, _mmngr_used_blocks, allocs, owners>>

\* Mutant: the frames are counted as used, but their bits are not set.
GiveUnmarked(frame, size) ==
  LET a == [frame |-> frame, size |-> size] IN
  /\ refused' = FALSE
  /\ _mmngr_memory_map' = map
  /\ _mmngr_used_blocks' = count + size
  /\ allocs' = allocs \cup {a}
  /\ owners' = [f \in Frames |-> IF f \in FramesOf(a) THEN owners[f] + 1 ELSE owners[f]]

Give(frame, size) ==
  LET a == [frame |-> frame, size |-> size] IN
  /\ refused' = FALSE
  /\ _mmngr_memory_map' = map \cup FramesOf(a)
  /\ _mmngr_used_blocks' = count + size
  /\ allocs' = allocs \cup {a}
  /\ owners' = [f \in Frames |-> IF f \in FramesOf(a) THEN owners[f] + 1 ELSE owners[f]]

\* Mutant: the last free block is never given.
pmmngr_alloc_block_keep_one ==
  \/ ~MoreFreeThan(1) /\ Refuse
  \/ /\ MoreFreeThan(1)
     /\ \E frame \in mmap_first_free(Clear) :
          IF frame = -1 THEN Refuse ELSE Give(frame, 1)

pmmngr_alloc_block ==
  \/ ~MoreFreeThan(0) /\ Refuse
  \/ /\ MoreFreeThan(0)
     /\ \E frame \in mmap_first_free(Clear) :
          IF frame = -1 THEN Refuse ELSE Give(frame, 1)

pmmngr_alloc_blocks(size) ==
  \/ ~MoreFreeThan(size) /\ Refuse
  \/ /\ MoreFreeThan(size)
     /\ \E frame \in mmap_first_free_s(Clear, map, size) :
          IF frame = -1 THEN Refuse ELSE Give(frame, size)

\* pmmngr_free_block and pmmngr_free_blocks, of a block the caller was given.
pmmngr_free_blocks(a) ==
  /\ _mmngr_memory_map' = map \ FramesOf(a)
  /\ _mmngr_used_blocks' = count - a.size
  /\ allocs' = allocs \ {a}
  /\ owners' = [f \in Frames |-> IF f \in FramesOf(a) THEN owners[f] - 1 ELSE owners[f]]
  /\ refused' = FALSE

Boot == pmmngr_init \/ pmmngr_init_region \/ RegionsDone \/ pmmngr_deinit_region

Alloc == \E size \in Sizes :
  IF size = 1 THEN pmmngr_alloc_block ELSE pmmngr_alloc_blocks(size)

Free == \E a \in allocs : pmmngr_free_blocks(a)

Run == phase = "run" /\ (Alloc \/ Free) /\ UNCHANGED <<phase, region>>

Next == Boot \/ Run

Spec == Init /\ [][Next]_vars

-----------------------------------------------------------------------------
(* Properties *)

\* Every variable has its type: no region reaches out of the map.
TypeOK ==
  /\ phase \in Phases /\ region \in 0..Len(Regions)
  /\ _mmngr_memory_map \subseteq 0..(Span - 1)
  /\ _mmngr_used_blocks \in Int
  /\ allocs \subseteq [frame : Nat, size : Nat]
  /\ owners \in [Frames -> Nat]
  /\ refused \in BOOLEAN

\* No frame is handed to two callers, through any order of single-block
\* allocations and frees.
SingleOwner == \A f \in Frames : owners[f] <= 1

\* The whole blocks that kernel.c sets aside, of the kernel image and of low
\* memory, are never handed out; neither is frame 0, whose address 0 is what
\* the allocator returns for failure.
ReservedKept == \A a \in allocs : FramesOf(a) \cap (Reserved \cup {0}) = {}

\* The count of used blocks keeps the search inside the machine's memory: it
\* stops at 0 free before mmap_first_free() gets to the bits that follow.
FramesExist == \A a \in allocs : FramesOf(a) \subseteq 0..(Top - 1)

\* An allocation of one block is refused only when callers hold as many as the
\* memory map made available beyond what kernel.c set aside: the count and the
\* map have not drifted apart.
RefusedOnlyWhenFull ==
  refused => Cardinality({f \in Frames : owners[f] > 0})
               >= Cardinality(Available \ Reserved)

=============================================================================
