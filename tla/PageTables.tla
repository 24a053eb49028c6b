----------------------------- MODULE PageTables -----------------------------
(***************************************************************************)
(* Paging in ScorchOS, src/vmm.c, with its two users: the page hooks of    *)
(* the kernel heap (src/heap.c) and the mapping of a device's registers    *)
(* (src/pci.c).                                                            *)
(*                                                                         *)
(* The page directory and the tables lie in memory, and once paging is on  *)
(* the code reaches them as it reaches everything, through them: at the    *)
(* physical address, which works where the first table maps pages to       *)
(* themselves.  An access to a page that is not mapped ends in             *)
(* fault_handler(), which halts.                                           *)
(*                                                                         *)
(* Addresses are counted in pages.  A word of a table is 0 or one more     *)
(* than the frame it maps to; flags are not modelled.  A frame comes from  *)
(* pmm.c as the lowest that is free; frames that lie together from a       *)
(* search that looks at the wrong bits, as in module PhysMem: it may pass  *)
(* over free frames, or hand out frames that are not free.                 *)
(***************************************************************************)
EXTENDS FrameSearch, Sequences, SequencesExt

CONSTANTS
  PerTable,    \* entries of a table, and pages that the first one maps: 1024
  Tables,      \* entries of the directory
  FrameCount,  \* frames of the machine, and bits of their map
  KernelAt,    \* the page of the kernel within its table, and its frame: 256
  KernelTable, \* the directory entry of 0xC0000000
  KHEAP,       \* the first page of the heap
  Devices,     \* pairs <<page, number of pages>> that pci.c maps
  FreeSets,    \* what the memory map may leave free at the start
  Requests     \* numbers of pages that the heap asks for

MemFrames == 0..(FrameCount - 1)
Pages  == 0..(Tables * PerTable - 1)
Index  == 0..(PerTable - 1)

Layout ==
  /\ PerTable \in Nat \ {0} /\ Tables \in Nat \ {0} /\ FrameCount \in Nat
  /\ KernelAt \in Index /\ KernelTable \in 1..(Tables - 1) /\ KHEAP \in Pages
  /\ FrameCount <= KernelTable * PerTable /\ Devices \subseteq (Pages \X Nat)
  /\ FreeSets \subseteq SUBSET MemFrames /\ Requests \subseteq Nat \ {0}

\* The first page behind those of the kernel's table.
Above == (KernelTable + 1) * PerTable

\* The machine the heap and pci.c expect: frame 0 is not handed out; the heap
\* begins with a table of its own above the kernel, asks for no more than a table
\* maps, and has room for all memory before it comes to a device.
Room ==
  /\ \A free \in FreeSets : 0 \notin free
  /\ Above <= KHEAP /\ KHEAP % PerTable = 0
  /\ \A n \in Requests : n <= PerTable
  /\ \A d \in Devices : /\ Above <= d[1] /\ d[1] + d[2] <= Tables * PerTable
                        /\ d[1] + d[2] <= KHEAP \/ KHEAP + FrameCount <= d[1]

ASSUME LayoutAssumption == Layout

VARIABLES
  paging,      \* the machine: memory, page directory, free frames
  heaptop,     \* the page behind the heap
  meant,       \* history: the frame each page of the heap was given
  regions,     \* history: what the heap holds, <<first page, number of pages>>
  mapped       \* history: the pages of devices that were mapped

pagingVars == <<paging, heaptop, meant, regions, mapped>>

\* The fields of paging.  dir: the directory, and pd the frame it is in; mem: each
\* frame read as a table; free: the frames pmm.c has; and histories: held, the
\* frames handed out; passed, those handed out first of a run while the frame in
\* front was free; hit, those memset() reached behind a table while they were not
\* free; short, a table could not be had.  at: "off", "on", "halted" by a fault,
\* "failed" when vmmngr_initialize() returned early, or "astray": the search
\* handed out what is not free or read where nothing is mapped, or memset()
\* reached the directory.  Only "on" is followed further.

\* What is left in memory from before: zeros, or something that looks like a
\* mapping.
PagingInit ==
  /\ \E free \in FreeSets, word \in {0, 1} :
       paging = [at |-> "off", dir |-> [t \in 0..(Tables - 1) |-> 0],
                 mem |-> [f \in MemFrames |-> [i \in Index |-> word]],
                 pd |-> 0, free |-> free, held |-> {}, passed |-> {}, hit |-> {},
                 short |-> FALSE]
  /\ heaptop = KHEAP /\ meant = <<>> /\ regions = {} /\ mapped = {}

-----------------------------------------------------------------------------
(* Frames *)

Least(s) == CHOOSE f \in s : \A g \in s : f <= g
\* Mutant: frames are taken from the other end.
FirstHigh(free) == CHOOSE f \in free : \A g \in free : f >= g
First(free) == Least(free)

\* pmmngr_alloc_blocks(): one frame is always left.  The words behind the map look
\* free or not, and a bit that is read may not be mapped, which is a fault: what
\* is found there, or not, is FrameCount.
Enough(free, n) == Cardinality(free) > n
FoundOutside(free, n) ==
  /\ n > 1
  /\ \/ \A f \in free : ~MustPass(free, f, n)
     \/ \E f \in Tested(free, n) : ~(Window(f, n) \subseteq MemFrames)
BlocksFor(free, n) ==
  IF ~Enough(free, n) THEN {-1}
  ELSE mmap_first_free_s(free, MemFrames \ free, n)
       \cup {out \in {FrameCount} : FoundOutside(free, n)}

Take(x, frames) == [x EXCEPT !.free = @ \ frames, !.held = @ \cup frames]
RunOf(block, n) == block..(block + n - 1)
TakeRun(x, block, n) ==
  [Take(x, RunOf(block, n)) EXCEPT !.passed = @ \cup {f \in {block} : f - 1 \in x.free}]

-----------------------------------------------------------------------------
(* Tables *)

\* The word that a page is translated by, 0 when there is none.
Entry(x, page) ==
  LET table == x.dir[page \div PerTable] IN
  IF table = 0 THEN 0 ELSE x.mem[table - 1][page % PerTable]

Halted(x) == [x EXCEPT !.at = "halted"]
Astray(x) == [x EXCEPT !.at = "astray"]

\* Writes word i of the table at that frame, through its address.
Write(x, frame, i, word) ==
  IF x.at # "on" THEN x
  ELSE IF Entry(x, frame) = 0 THEN Halted(x)
  ELSE [x EXCEPT !.mem[Entry(x, frame) - 1][i] = word]

\* memset() is given the directory entry with its flags in it, 3: it begins
\* and ends 3 bytes too late.  Word 0 of the table keeps what it held, the
\* frame behind loses its own; when that is the directory, the first 4 MB.
ClearTable(x, block) ==
  IF Entry(x, block) = 0 \/ Entry(x, block + 1) = 0 THEN Halted(x)
  ELSE LET word(f, i) == IF (f = block /\ i # 0) \/ (f = block + 1 /\ i = 0) THEN 0
                         ELSE x.mem[f][i]
           cleared == [x EXCEPT !.mem = [f \in MemFrames |-> [i \in Index |-> word(f, i)]],
                                !.hit = @ \cup ({block + 1} \ x.free)]
       IN IF block + 1 = x.pd THEN Astray(cleared) ELSE cleared

\* Makes a table for the page if there is none, and maps it to itself.
vmmngr_createPageTable(x, page) ==
  IF x.dir[page \div PerTable] # 0 THEN x
  ELSE IF x.free = {} THEN [x EXCEPT !.short = TRUE]
  ELSE LET block == First(x.free)
           made  == ClearTable([Take(x, {block}) EXCEPT !.dir[page \div PerTable] = block + 1],
                               block)
       IN Write(made, made.dir[block \div PerTable] - 1, block % PerTable, block + 1)

IndexOf(page) == page % PerTable

\* Without a table the mapping is written to frame 0.
vmmngr_mapPhysicalAddress(x, page, frame) ==
  IF x.at # "on" THEN x
  ELSE LET y     == vmmngr_createPageTable(x, page)
           table == y.dir[page \div PerTable]
       IN Write(y, IF table = 0 THEN 0 ELSE table - 1, IndexOf(page), frame + 1)

\* Maps n pages to n frames, one after the other.
MapAll(x, page, frame, n) ==
  LET after[i \in 0..n] ==
        IF i = 0 THEN x
        ELSE vmmngr_mapPhysicalAddress(after[i - 1], page + i - 1, frame + i - 1)
  IN after[n]

-----------------------------------------------------------------------------
(* The operations *)

\* The first table maps pages to themselves.
Identity(i) == i + 1

\* vmmngr_initialize() returned early: what it has of frames is lost.
Failed(x, frames) == [Take(x, frames) EXCEPT !.at = "failed"]

\* Three tables, of which the third is never used, and a directory in three
\* frames; before paging nothing can fault.
vmmngr_initialize ==
  /\ paging.at = "off"
  /\ \/ Cardinality(paging.free) < 3 /\ paging' = Failed(paging, paging.free)
     \/ /\ Cardinality(paging.free) >= 3
        /\ LET table  == Least(paging.free)
               table2 == Least(paging.free \ {table})
               table3 == Least(paging.free \ {table, table2})
               three  == {table, table2, table3}
               rest   == paging.free \ three
           IN \E dir \in BlocksFor(rest, 3) :
                paging' =
                  IF dir = -1 THEN Failed(paging, three)
                  ELSE IF ~(RunOf(dir, 3) \subseteq rest) THEN Astray(paging)
                  ELSE [TakeRun(Take(paging, three), dir, 3) EXCEPT
                          !.at = "on", !.pd = dir,
                          !.dir = [t \in DOMAIN @ |-> IF t = 0 THEN table2 + 1
                                                       ELSE IF t = KernelTable THEN table + 1 ELSE 0],
                          !.mem[table2] = [i \in Index |-> Identity(i)],
                          !.mem[table]  = [i \in Index |->
                                             KernelAt + ((i - KernelAt) % PerTable) + 1]]
  /\ UNCHANGED <<heaptop, meant, regions, mapped>>

\* Pages n at the top of the heap, on frames that are to lie together; only the
\* first page is looked at.  liballoc then writes to the first page of them.  When
\* the pages cannot be had nothing changes.
vmmngr_alloc_pages_at_virtual_address(n) ==
  /\ Entry(paging, heaptop) = 0
  /\ \E block \in BlocksFor(paging.free, n) \ {-1} :
       \/ /\ RunOf(block, n) \subseteq paging.free
          /\ LET y == MapAll(TakeRun(paging, block, n), heaptop, block, n)
             IN paging' = IF y.at = "on" /\ Entry(y, heaptop) = 0 THEN Halted(y) ELSE y
          /\ meant' = meant \o [i \in 1..n |-> block + i - 1]
       \/ /\ ~(RunOf(block, n) \subseteq paging.free)
          /\ paging' = Astray(paging) /\ meant' = meant

liballoc_alloc ==
  /\ paging.at = "on"
  /\ \E n \in Requests :
       /\ heaptop + n - 1 \in Pages
       /\ vmmngr_alloc_pages_at_virtual_address(n)
       /\ heaptop' = heaptop + n /\ regions' = regions \cup {<<heaptop, n>>}
  /\ UNCHANGED mapped

\* Mutant: the test is the right way around.
RefusesUnmapped(page) == Entry(paging, page) = 0
\* A region that is mapped is not given back: the test is the wrong way around.
Refuses(page) == Entry(paging, page) # 0

\* vmmngr_unmapPageTable(): the whole table goes, whatever else is in it.
Unmap(x, page) ==
  LET t == page \div PerTable IN
  IF x.dir[t] = 0 THEN x
  ELSE [x EXCEPT !.free = @ \cup {x.dir[t] - 1}, !.held = @ \ {x.dir[t] - 1}, !.dir[t] = 0]

liballoc_free ==
  /\ paging.at = "on"
  /\ \E r \in regions :
       /\ regions' = regions \ {r}
       /\ paging' = IF Refuses(r[1]) THEN paging
                    ELSE FoldLeft(Unmap, paging, [i \in 1..r[2] |-> r[1] + i - 1])
  /\ UNCHANGED <<heaptop, meant, mapped>>

vmmngr_identMap ==
  /\ paging.at = "on"
  /\ \E d \in Devices :
       /\ paging' = MapAll(paging, d[1], d[1], d[2])
       /\ mapped' = mapped \cup (d[1]..(d[1] + d[2] - 1))
  /\ UNCHANGED <<heaptop, meant, regions>>

\* Nothing is followed behind the first fault or the first step astray.
PagingNext == vmmngr_initialize \/ liballoc_alloc \/ liballoc_free \/ vmmngr_identMap

PagingSpec == PagingInit /\ [][PagingNext]_pagingVars

-----------------------------------------------------------------------------
(* Properties *)

Heap == KHEAP..(heaptop - 1)

\* The pages that the code reaches memory and the tables themselves by stay
\* mapped to themselves, and those of the kernel to the kernel, whatever is
\* mapped, cleared and freed after that.
KernelMapsKept ==
  paging.at = "on" =>
    /\ \A f \in Index : Entry(paging, f) = f + 1
    /\ \A i \in KernelAt..(PerTable - 1) : Entry(paging, KernelTable * PerTable + i) = i + 1

\* A page of the heap is on the frame it was given from the start, and stays
\* there, freed or not, even when memory runs out: alloc_blocks() leaves a frame
\* for the one table the heap may need.  Devices are where they are, unless a
\* table could not be had for one.
MapsKept ==
  paging.at = "on" =>
    /\ \A n \in DOMAIN meant : Entry(paging, KHEAP + n - 1) = meant[n] + 1
    /\ paging.short \/ \A page \in mapped : Entry(paging, page) = page + 1

\* Nothing is mapped that nobody asked for, except perhaps the first page of a
\* table, whose word memset() leaves as it found it.
NothingElse ==
  paging.at = "on" =>
    \A page \in Pages :
      Entry(paging, page) # 0 =>
        \/ page \in Index \/ page \div PerTable = KernelTable
        \/ page \in Heap \cup mapped \/ page % PerTable = 0

\* What is mapped, and where, is what was asked for.
MapsExact == KernelMapsKept /\ MapsKept /\ NothingElse

\* Frames are taken from the bottom, so what memset() reaches behind a table is
\* in use only if the search for the frames of the heap or of the directory had
\* passed over the free frame in front of it.
HitsOnlyPassed == paging.hit \cap paging.held \subseteq paging.passed

\* And what is set aside, or already in use, is reached only when no frame below
\* it is left.
HitsLast == \A f \in paging.hit, g \in paging.free : f < g

\* The machine halts only when a table would have to lie, or its clearing to
\* reach, where pages are not mapped to themselves.
HaltsOnlyOutside ==
  paging.at = "halted" => \E t \in DOMAIN paging.dir : paging.dir[t] >= PerTable

\* What clearing a new table, three bytes too late, reaches.
ClearsItsOwn == HitsOnlyPassed /\ HitsLast /\ HaltsOnlyOutside

=============================================================================
