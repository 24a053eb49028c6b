# ScorchOS in TLA+

TLA+ modules for the kernel of ScorchOS (`src/src/*.c`, the `main()` of
`kernel.c` at this commit): what its drivers, its memory management and its file
system do, checked with TLC on small machines, and proved with TLAPS where a
proof is there. Every definition is translated from the source; `PROJECT.json`
maps each one to its lines.

1. [The system](#1-the-system) - parts, state, interactions, what is hard 2.
[Modules](#2-modules) - what models what, and how 3. [Runs](#3-runs) - what is
checked, with which bounds 4. [Fairness and deadlock](#4-fairness-and-deadlock) 5.
[Proofs](#5-proofs) 6. [Disagreements between code and
comments](#6-disagreements-between-code-and-comments) 7. [What is not
modelled](#7-what-is-not-modelled) 8. [Plan](#8-plan)

## 1. The system

A single-processor x86 kernel without processes. One main thread boots, probes
devices and then runs `runShell()` for ever. Interrupts come between any two of
its instructions unless it has executed `cli`; all gates are interrupt gates, so
a handler is not interrupted. There are no locks: what the main thread shares
with a handler is guarded by `cli` or not at all. Devices work on their own, and
the network card, the floppy's DMA and AHCI write memory meanwhile.

| Part | State it keeps | Operations | Who calls it, what it calls |
|---|---|---|---|
| Keyboard (`kb.c`) | `shift alt ctrl caps num`, `specKeyUp`, LEDs, `keyBuff`, `keyBuffEnd` | IRQ 1 `keyboard_handler()`; `getchar()`, `getchar_int()`, `gets()` | handler fills the buffer the main thread spins on; `gets()` is called by `runShell()` |
| Physical memory (`pmm.c`) | bitmap `_mmngr_memory_map`, counters | `pmmngr_init`, `init_region`, `deinit_region`, `alloc_block(s)`, `free_block(s)` | set up by `main()` from the loader's memory map; used by paging |
| Paging (`vmm.c`) | page directory and tables, in frames | `vmmngr_initialize`, map, unmap, `alloc/dealloc_pages_at_virtual_address`, `identMap` | frames from `pmm.c`; used by `heap.c` and `pci.c` |
| Heap (`liballoc.c`, `heap.c`) | boundary tags in the heap's pages, `l_freePages`, `l_completePages`, `heaptop` | `malloc calloc realloc free`, page hooks | pages from paging |
| Network card (`rtl8139.c`) | `bufferPtr`; on the chip CBA, CAPR, ISR and the ring | `init_rtl8139`, `rtl_irq_handler`, `recv_packet`, `rtl8139_send` | handler runs as an interrupt and from `init_rtl8139()` |
| Floppy (`flpydsk.c`, `dma.c`) | `_FloppyDiskIRQ`, current drive; DMA controller; controller's FIFO, motor, head | `flpydsk_install`, `flpydsk_reset`, calibrate, seek, `flpydsk_read_sector` | IRQ 6 sets the flag that `flpydsk_wait_irq()` spins on; used by the file system |
| File system (`fsys.c`, `fat12.c`) | table of file systems, `_MountInfo`, open `FILE` | `volOpenFile`, `volReadFile`, `volCloseFile`, `fsysFat*` | sectors from the floppy; used by `cmd_read()` |
| Interrupts, timer (`irq.c isrs.c idt.c timer.c start.s`) | `irq_routines`, `PIC_ticks` | install handlers, `irq_handler`, `fault_handler`, `wait` | runs all handlers, then acknowledges |
| AHCI (`ahci.c`) | `portbase`, command lists at fixed addresses | `ahci_init`, `port_rebase`, `identify`, `read` | called by the PCI scan |
| PCI (`pci.c`) | - | scan of buses, devices and functions | calls drivers it recognises |
| Screen (`scrn.c`) | cursor, text memory | `putch` and what is built on it | everyone, handlers too |
| Shell (`shell.c`), strings (`string.c`, `common.c`) | command table, `strtok()`'s position | `runShell`, `addCommand`, `findCMD` | `main()` |

At this commit `main()` does not install the floppy, initialize the file
system, the network card or the shell's commands: the calls are there, commented
out. The modules model the drivers as the code has them ready. The shell's table
of commands they do not: it is empty, and `findCMD()` never finds anything.

**What is hard here.** Key interrupts between every two steps of a reader that
shifts a shared buffer. A chip that goes on filling the ring a handler is
emptying, and a handler entered from two contexts. A driver that waits for an
interrupt with no limit and loses bytes after a time-out. An allocator whose
bitmap and count are updated apart. Boundary tags, melted with both neighbours.
Page tables that must themselves be mapped to be written. A chain of 12-bit
entries across sectors, on a disk that may be damaged. A screen two contexts
print on through the same unprotected cursor. Interrupts that are turned on in
the middle of the boot, and that are lost for ever when one is not acknowledged
or one byte not read. A recursive scan that goes wherever a bridge points. A
line that is cut in the array the next one is written over.

**What makes each part correct.** Keyboard: every key, once, in order; locks
follow presses. `gets()`: the edited line, terminated. Physical memory: no frame
has two owners, none is outside memory, reserved frames stay, no needless
refusal. Heap: tags tile memory, lists hold what is free, blocks are apart and
stay. Paging: mappings stay, nothing else is mapped, and what a table
cleared too far reaches is known.
Network: packets once, in order, to the last one. Floppy: the sector asked for;
every call returns. File system: the right file, all of it and no more.
Interrupts: what is accepted has a gate and is acknowledged; nobody is left
waiting. Screen: a teletype, unless two print at once. PCI: every function once.
Shell: the words that were typed.
`PROJECT.json` lists the hazards at their lines with the properties aimed at
each.

## 2. Modules

| Module | Models | State and actions against the code |
|---|---|---|
| `Keyboard` | `kb.c` without `gets()` | `keyBuff`, `keyBuffEnd`, `shift`, `ctrl`, `alt`, `caps`, `num`, `specKeyUp` are the globals of those names. An interrupt (`Press`, `Release`, `Repeat`, the external keyboard, each running `keyboard_handler`) is one action. `getchar_int()` is `Call`, `SpinExit`, `Shift`, `Return`: spin, the part between `cli` and `sti`, the read after `sti`. |
| `LineInput` | `gets()`; EXTENDS `Keyboard` | one character taken by `gets()` is one step, together with the return of `getchar_int()`; the array it writes to keeps what was there |
| `Shell` | `runShell()`, `strtok()`; EXTENDS `LineInput` | one action for each of the calls of `strtok()`, on the array of `LineInput` and with its static position `p`; `words` are `cmdString` and the switches |
| `Irq` | `irq.c`, `idt.c`, `isrs.c`, `timer.c`, `FlushBuffer()` and `keyboard_install()`, the stubs of `start.s` | `main()` from the first gate to the shell, one action per call or per access where an interrupt can come between; an interrupt is accept, handler, the two acknowledgements and `iret`; the two 8259 and the devices are external |
| `Teletype` | what a text screen promises | a sheet, a position, and characters printed on it one after the other |
| `Screen` | `scrn.c` | one action per access of the main thread to `csr_x`, `csr_y`, a row of the text memory or a register of the CRT controller; the echo of a key is the whole `putch()` in one action, between any two of those |
| `PciScan` | `pci.c` | the recursion is a stack with a frame for each running `checkBus()`; an action per decision of `checkDevice()`, `checkFunction()` and `checkAllBuses()`; the machine is a constant of the behaviour |
| `FrameSearch` | `mmap_first_free()`, `mmap_first_free_s()` of `pmm.c` | what the two searches may return for a set of clear bits, the wrong bits they test included; used by `PhysMem` and `PageTables` |
| `PhysMem` | the rest of `pmm.c`, and the part of `main()` that fills the map | the bitmap is the set of its 1-bits, `_mmngr_used_blocks` a number of its own; boot actions in `main()`'s order, then allocations and frees |
| `HeapAbs` | what a heap promises | callers' blocks and the heap's memory, nothing else |
| `Liballoc` | `liballoc.c`, `heap.c` | the tags by address, `freePages`, `completePages`; `malloc()`, `calloc()`, `realloc()` one action each; `free()` one action per iteration of its two loops and one for the rest |
| `PageTables` | `vmm.c`, its users in `heap.c` and `pci.c` | memory as frames that can be read as tables, the directory, the free frames; every access of the code goes through the first table, as on the machine, and halts where that does not map; `vmmngr_initialize()` with its early returns; frames come from `FrameSearch`, and where that returns some that are not free, or reads outside of the map, the machine is followed no further (`astray`) |
| `RxRing` | the receive side of `rtl8139.c` | one action per access to a register, to `bufferPtr` or to the ring, for the context of the interrupt and for that of `init_rtl8139()`; it begins with the write of RCR, by which the chip starts its ring anew, so that the 0 written to CAPR before has no effect left |
| `Floppy` | `flpydsk.c`, `dma.c` | one action per byte sent or read, for the wait, the clearing of the flag and each decision; the controller and its interrupt are actions of their own |
| `Fat12` | `fsys.c`, `fat12.c`, `cmd_read()` | opening a path component by component, one sector of a directory or of a file a step; reads may fail |
| `Ahci` | `ahci.c` without `read()` | one action per access to a port's registers and one for the memory set up between two of them; memory is what was last written to each 256-byte block; the controller starts and stops engines, takes reports and executes commands in actions of its own |
| `MC...` | - | the constants of the instances |
| `KeyboardProofs`, `PhysMemProofs`, `LiballocProofs`, `IrqProofs`, `ScreenProofs`, `RxRingProofs`, `FloppyProofs`, `AhciProofs` | - | inductive invariants and theorems about the modules they are named after; `KeyboardProofs` also about `LineInput` and `Shell`, `PhysMemProofs` about `PageTables`, `FloppyProofs` about `Fat12`, `AhciProofs` about `PciScan` |

Composition: `Shell` runs over `LineInput`, and that over `Keyboard`, so that the
line the shell cuts is the one `gets()` left in the array from the buffer the
interrupts fill. `Liballoc` implements `HeapAbs` (`KeepsPromise`), `Screen`
implements `Teletype` (`ShowsThePaper`: an operation under way counts once only
the blinking cursor is left to move). `Irq` owns what the other modules assume of
interrupts: that they come between two steps of the main thread, that a handler
is not interrupted, that the next one comes.
`PageTables` and `PhysMem` share the search for frames (`FrameSearch`), and `Fat12`
takes sectors as `Floppy` is shown to return them (`SectorReturned`), or failures.
History variables, marked so where they are declared, record what properties
talk about; no guard of a modelled step reads them, but where a bound of the
model does.

Abstractions worth knowing: characters are model strings of a small keyboard; a
bit map is a set; the flags of page table entries, of tags (`magic`) and all
output are left out; sizes and addresses of the heap are the real numbers, but
regions are one page; a page table has 10 entries; a sector of the disk holds
8 bytes, so that 12-bit entries lie across sectors as they do in the 512-byte
ones. Memory nobody initialized is a choice: what lies in a new page table, in
the bits of the map behind those that are filled, behind a string.

## 3. Runs

| Run | Instance, and why it is enough | Shows |
|---|---|---|
| `keyboard_locks` | both shifts, control, the three lock keys, a digit and a letter; one character is buffered | `LocksFollowPresses`, `BufferedAsHeld`: locks toggle once a press, however long a key is held and whatever else goes up and down, while no two lock keys are down together; a character is read by the shifts that are down and the presses of Caps Lock, or as without a shift after one of two was released. Bounded by `KeyLimit` only in characters; presses of the special keys are unbounded. |
| `shell` | five keys: letter, blank, backspace, return and one without a character; four characters in all, three words, a buffer index modulo 4, so that the buffer overruns, wraps and underflows and that a short line follows a longer one in the array | `KeysInOrder`, `OnlyTypedKeys`, `EveryKeyDelivered`, `ReturnsTheLine`, `ParsesWhatWasTyped`, `ParsesTheOldCommand` |
| `phys_mem` | blocks of 4 bytes, base memory, a hole, extended memory, neither ending at a block; the kernel in a block and a half; single frames asked for | `SingleOwner`, `ReservedKept`, `FramesExist`, `RefusedOnlyWhenFull`, in every order of allocating and freeing until nothing is left |
| `liballoc` | real header, classes and page size, three pages, requests of 100 to 3000 bytes: a region is cut in four, pieces of one class meet in a list, a piece may be too small for its class, whole regions come and go, and pages run out | `TagsSound` (tags tile memory, blocks have room), `ListsSound` (the lists hold exactly what is free, the counts are right), `NoFreeNeighbours`, and `KeepsPromise`: it implements `HeapAbs` |
| `page_tables` | tables of 10 pages, words of the frame map of 8 bits, 23 frames in six layouts, heap regions of one and three pages, two devices: the heap crosses into a second table, the search for several frames finds what lies elsewhere, passes over free frames or goes astray, memory runs out, also in `vmmngr_initialize()`, tables come to lie behind the first 10 pages | `MapsExact` (the kernel's mappings and all that were asked for are kept, and there is nothing else), `ClearsItsOwn` (what the clearing of a new table, three bytes too late, reaches: a frame in use only where the search had passed over the one in front of it, one set aside only when nothing below is left; and the machine halts only where a table cannot be reached) |
| `rx_ring` | a ring of 5 units, three packets of two or three: they wrap, end at and beyond the last unit, fill the ring, and come at every point of both handlers; besides ROK any two of the seven other bits the chip can raise here, the six the handler has code for and LENCHG, which stands for the three it has none for: one to be lost, one to come between | `RingRead` (in order, up to where the chip writes), `OnlyLateLeft`, `InterruptsEnd` |
| `floppy` | three cylinders, two heads, two sectors a track, two tries instead of ten; seeks miss, reads fail, and once the controller keeps the driver polling too long, at any byte | `WaitsForItsOwn`, `SectorReturned`, `Prepared` (the motor runs and the DMA is aimed when the controller transfers), `CalibrationPassed`, `CallsReturn` |
| `fat12` | names of two letters and an extension of one, every path of up to three characters and every full name, plain, with a drive and after a drive that is no letter; a disk of five clusters whose file takes any of them in any order, broken chains and circles; a FAT of two sectors | `RightFile`, `ReadsOnlyTheChain`, `ReadsEnd` |
| `ahci` | three ports, each without a drive, with one that is not SATA or with one that is, engines left running by the firmware or not, 15 headers instead of 32 (`find_cmdslot()` looks at no more), a controller with one slot and one with 32; drives report or not, commands fail leaving their bit or not | `FetchesTheCommand`, `IdentityRead`, `SetWhileStopped`, `ProbeEnds` |
| `screen` | two columns and three rows, stops every two columns, cursor bytes of two bits: every row end, every scroll, by one row and by two, and both bytes of the cursor; a letter, tab, return and newline printed, a letter, backspace, newline and a key without a character echoed, at any number of points | `CursorKept`, `ShowsThePaper` |
| `pci_scan` | every machine of up to three functions on three buses with two slots and two functions a slot: bridges behind bridges, a bridge that leads back, two that lead to one bus, headers that say several functions or not and are right or wrong, no host, one and several; the stack holds four calls | `ScanFinds`, `ScanEnds` |
| `irq` | five ticks until `PIC_ticks` wraps, waits of two; a byte at the port and a busy controller at power-up or not; the handlers are faster than the devices, which have news once while the main thread makes a step | `TakenAndEnded`, `NobodyLeftWaiting`, `WaitsLongEnough` |

Each property of a passing run has a mutant: a definition changed as a bug in
those lines would change it, with which TLC finds the property violated.
Operators whose comment begins with "Mutant" are these and nothing else.

Every "unless" of a property is there because TLC showed the case, and is a
statement about the code:

- `KeysInOrder` ends with the overrun: the 256th unread key makes
  `keyBuffEnd` 0. After it characters are lost, but none is invented.
- `LocksFollowPresses` and `BufferedAsHeld` exclude two lock keys held at once:
  they share `specKeyUp`.
- `BufferedAsHeld` says what becomes of two shifts: both set and clear `shift`, so
  from the release of one (`kb.c:101-103`) until a shift goes down or repeats
  characters read as without a shift although the other is down (`lowered`).
- `OnlyLateLeft`: a packet that arrives between the read of CBA and the
  acknowledgement of ROK waits for the next packet. The properties of `RxRing`
  exclude that the interrupt comes into `init_rtl8139()`'s own call of the
  handler, where `bufferPtr` is lost.
- `InterruptsEnd`: the mask 0xE07F enables LENCHG, TIMEO and SERR, the handler never
  acknowledges them. The line is in the end held by exactly those that were
  raised; all others are acknowledged, also while the handler is entered for ever
  because of one of these. A handler in `wait()` is excluded, see below.
- `CallsReturn` and `CalibrationPassed` exclude the one time-out: a byte dropped
  silently leaves the controller waiting and the driver too, and an unreadable
  cylinder counts as 0.
- `MapsExact` excludes devices mapped when no frame is left for their table: the
  mapping goes to frame 0. For the heap a frame is always left, because
  `pmmngr_alloc_blocks()` refuses the last one.
- `MapsExact` also excludes the first page of a table: `memset()` is given the
  directory entry with its flags, 3 bytes too far. `ClearsItsOwn` says what
  the other end of that reaches. It does reach frames in use: where the search for
  the frames of a heap region has passed over a free frame, the next table may be
  made there and takes three bytes of the region behind it; and when the frames
  below the kernel are used up, a table in the last of them takes three bytes of
  the kernel. The property says that there is no third case.
- Neither says anything of a machine whose search has returned frames that are not
  free, or read outside of its map (`astray`), or whose `vmmngr_initialize()` has
  returned early (`failed`): `main()` goes on without paging then.
- `FetchesTheCommand` and `IdentityRead` exclude the port whose memory meets the
  buffer: port 2's list begins at `AHCI_BUFFER`, so `identify()` clears it, finds
  a table at address 0, and its answer lands on the list.
- `RightFile`, `ReadsOnlyTheChain`, `ReadsEnd` are about files in
  the root directory with a full extension and chains that end. Subdirectories
  are read through a `FILE` that is not initialized.
- `ParsesWhatWasTyped` is about lines `gets()` terminates, without a backspace on
  an empty line. On the first key without a character `gets()` gives up, and
  `ParsesTheOldCommand` says what the shell runs then: the command before, again,
  without its switches, because `strtok()` has put a 0 behind it.
- `ShowsThePaper` ends, until an undisturbed `cls()`, with an echo inside the part
  of `putch()` or `cls()` that changes text and cursor; `CursorKept` goes on: even
  then nothing is stored beyond the row below the last, and no cursor leaves the
  screen for good. The blinking cursor may be misplaced by an echo inside
  `move_csr()` itself, until the next character.
- `ScanFinds` is about bus numbers that make a tree, which the firmware sees to.
  It says what the scan does with several host controllers: the loop over them
  ends at the first function that answers, which is the first, and finds nothing.
  `ScanEnds` excludes bridges that make a circle; those are followed for ever.
- `NobodyLeftWaiting` excludes a key between the last look of `FlushBuffer()` and
  `keyboard_install()`: interrupts are on since `timer_install()`, its interrupt
  finds no handler and is acknowledged, the byte stays at the port and no edge
  comes again. Without the exclusion TLC shows that the keyboard is silent from
  then on. It and `InterruptsEnd` exclude a handler in `wait()`, where no tick is
  counted.
- `WaitsLongEnough` excludes a sum that wraps: `wait()` then returns at once.

## 4. Fairness and deadlock

`EveryKeyDelivered`: weak fairness of the main thread's steps; keys are typed or
not. `InterruptsEnd`: weak fairness of the processor, which serves interrupts when
they are on; the chip receives or does not. `CallsReturn`: weak fairness of the
driver, of the controller finishing a command it has accepted and of the interrupt
being served; nobody has to ask for a sector. `ProbeEnds`: weak fairness of the
main thread and of the controller starting, stopping and answering; a drive need
not report after a reset, which the code's one limit, 1000000 reads of the task
file, is for. `ReadsEnd`: weak fairness of the one thread. `ScanEnds`: weak
fairness of the one thread. `NobodyLeftWaiting`: weak fairness of the main thread,
of the processor serving interrupts, of the timer ticking and of the keyboard
controller becoming ready; nobody has to type and no packet has to come.
`ShowsThePaper` and `KeepsPromise` are refinements of safety specifications and
need none. In each case the code's own loop is what runs, and nothing else
competes for the processor but handlers that end.

Deadlock is checked for the keyboard's locks, physical memory and the screen. It
is off where the system or the model's bounds make it stop: the shell when the
characters of the bound are typed and read, the scan when it is over, the machine
that takes an interrupt without a gate, the heap when every page is leaked and a
pointer it never set has been written through, the ring when a handler hangs in
`wait()` or all packets of the bound are read, the probe of the SATA ports when it
is over, the floppy when the wait without a limit is reached, a file read that has
left the disk, and the machine that halts at a page fault.

## 5. Proofs

`tlapm` checks these for every value of the constants under the named
assumptions of the modules, which TLC evaluates for the instances. Each inductive
invariant was an invariant of a run of TLC before it was proved. All of them are
proved the same way: one lemma for each action, or group of actions, one step for
each conjunct the action can disturb; helper operators have lemmas of their own.

`KeyboardProofs`, from `WrapAssumption` and the assumptions on keys and, for the
shell, on its number of words:

- `TypeCorrect`: `Spec => []TypeOK`, with one lemma for the handler and one for
  the reader.
- `NoKeyLost`: `Spec => []KeysInOrder`. `TypeOK /\ KeysInOrder` is inductive: its
  last conjunct, that the reader is between `cli` and `sti` only with a key in
  the buffer, is what makes the shift preserve the rest. The only step that
  could spoil the read of `keyBuff[0]` after `sti` is the handler, which writes
  index 0 exactly when it overruns.
- `NothingMadeUp`: `[]OnlyTypedKeys`. Before the overrun `KeysInOrder` says what the
  buffer holds; after it every one of its places holds a typed character
  (`FullOfTyped`), wherever `keyBuffEnd` has gone. That no more come back than were
  typed is `Counted`: keys returned and keys in the buffer are together no more
  than were typed, because `keyBuffEnd` underflows only where the handler has
  wrapped it before, which lost as many keys as the underflow gives back.
- `LocksToggleOnce`: `[]LocksFollowPresses`, and `ReadsAsHeld`: the action property
  `BufferedAsHeld`. The invariant (`LinesFollowKeys`) ties `shift` to the shifts
  that are held and to `lowered` (`ShiftFollows`), and `specKeyUp` and the locks to
  the lock keys and their presses; two lock keys held at once are where the second
  would break.
- `LineReturned`: `ShellSpec => []ReturnsTheLine`. `LineKept` says that the text of
  the keys so far (`Edited`) is what the array holds up to `i`; that it fits is
  `Counted`.
- `WordsAreWhatWasTyped`: the action property `ParsesWhatWasTyped`. `CutRight` says
  how far `strtok()` has come: `p` is at a blank or at the beginning (`Unread`),
  the words that begin before it are as many as have been cut, and behind it the
  array is still the text. `ShellCuts` is the step from one call to the next, and
  `PieceIsWord` that what lies between two ends is that word of the reference.
- `OldCommandAgain`: the action property `ParsesTheOldCommand`. `FirstStays` is that
  the array goes on beginning with the command cut from it, and `NoMore` that
  there is nothing behind it.

`PhysMemProofs`, from the layout assumptions and `Single == Sizes = {1}` (with
several frames at a time the statements are false, section 6):

- `TypeCorrect`, `NoFrameShared` (`[]SingleOwner`), `BootKept` (`[]ReservedKept`).
  The inductive invariant adds to `TypeOK` that a held frame is marked
  (`HeldMarked`), held by one caller (`HeldOnce`), and that what boot has
  reserved stays marked (`ReservedMarked`): `SingleOwner` alone says nothing of
  the bitmap a new allocation is taken from.
- `OnlyExistingFrames` (`[]FramesExist`) and `RefusesOnlyWhenFull`
  (`[]RefusedOnlyWhenFull`), on a machine `BootedAsMapped`: regions that do not
  overlap and lie in memory, kernel and low memory inside them. The boot counts
  blocks when it clears and sets bits without looking at the bits, so on another
  memory map the count is wrong from the start. `CountInv` says that the count
  leaves exactly the frames offered and not held; `allocs` has at most that many
  members, and the search, which goes from the bottom, meets a frame of the
  machine before the bits beyond it that the fill has left clear.

and about `PageTables`, from `Layout` and `Room`. `Room` is the machine `heap.c`
and `pci.c` are written for, and the run's instance satisfies it (`MCPageTables`):
frame 0 is never handed out; the heap begins with a table of its own above the
kernel's and asks for no more pages than a table maps; devices lie above the
kernel and leave room for a heap of all of memory. Without it regions meet, and
the statements are false.

- `PagesMappedAsAsked` (`[]MapsExact`) and `ClearsOnlyItsOwn` (`[]ClearsItsOwn`).
  `PagingInv` has these cases: paging is off (`Begun`); the machine has halted at a
  table that lies where the first table does not map it (`Dead`), has gone astray
  or failed to set up paging, and nothing more is claimed of its mappings; or it
  runs (`Sound`) with the heap on frames of its own (`GivenIn`) and the devices on theirs
  (`AskedIn`). `Sound` says that tables lie in frames nobody was given and that
  what the code writes through the first table arrives where it was meant.
- Clearing a table goes three bytes into the frame behind it. Tables are made in
  the lowest free frame and nothing is given back, so a frame behind a free one is
  in use only if it was never free, or was handed out first of a run while the
  frame in front was free (`passed`): that is part of `Sound`, and `NoneInFront`
  and `RunTaken` keep it so. And what was reached while it was not free lies below
  every frame that still is (`HitsLast`).
- `RunIs` is the loop that maps a region, by induction on the pages mapped so
  far. It needs at most one new table (`OneNewTable`), because a region is no longer
  than a table. `HeapFits` counts frames to keep the heap from the devices.

`LiballocProofs`, from `HeapAssumption`, for any sizes of header, page and classes
and any requests:

- `TagsAlwaysSound` (`[]TagsSound`), `ListsAlwaysSound` (`[]ListsSound`) and
  `NeverFreeNeighbours` (`[]NoFreeNeighbours`), all from `HeapKept`, `[]HeapInv`.
  Most of `HeapInv` is about a heap, tags by address with the heads of the lists,
  so that each of the helpers has a lemma of its own, from a heap to a heap,
  whoever calls it: `RemovedLinked` and `Inserted` (lists), `Merged` and `CutOff`
  (pieces), `RegionAdded` and `RegionDropped` (regions).
- What the properties say of neighbours is not inductive. `Ordered` says of any two
  tags that the lower piece ends before the other begins, which is what keeps a
  new tag from falling on one that is there; `Placed` puts every piece in a
  region, so that melting ends at its border. `Queued` gives every tag of a class
  a place in its list: no circle, and no tag next to itself when `remove_tag()`
  joins its neighbours. From the places it follows that the search from the head
  meets every tag of its class (`ListReached`), by induction on the place, and that
  what it returns fits (`FoundFits`). `Working` says that the first loop of
  `free()` has left nothing free on the left, which the second does not spoil.
- `HeapKeepsPromise`: `Spec => KeepsPromise`, the refinement of `HeapAbs`. A step of
  `malloc()` is one of the promise because its tag was not in use and `Ordered`
  keeps it apart from all others; the iterations of `free()` stutter; giving up a
  region takes no block with it. Where `liballoc_alloc()` returns a pointer it
  never set (`wild`) the behaviour is followed no further, in the model as in the
  theorem.

`IrqProofs`, from the assumption on ticks:

- `TypeCorrect`, `NothingLeftInService` (`[]TakenAndEnded`): the invariant says
  how far `main()` has come where an interrupt can be accepted (`iflag`), and what
  is in service at each place of `irq_handler()`.
- `WaitsItsTicks`, the action property `WaitsLongEnough`: ticks counted while
  `main()` is in `wait()` are those `PIC_ticks` has advanced, as long as the sum
  has not wrapped.

`ScreenProofs`, from `SizeAssumption` and `PrintedAssumption`:

- `TypeCorrect`, `CursorKeptAlways` (`[]CursorKept`), for every width, height and
  tabulator that divides the width. `ScreenInv` says where the cursor can be at
  each step of the main thread, an echo having come before the step or not: what
  was loaded before an echo is out of date, and still in bounds. That the main
  thread prints no backspace is needed, and is so (`PrintedAssumption`): a
  backspace between an echo's wrap and the store would leave the screen.
- `ScreenShowsThePaper`: `Spec => ShowsThePaper`, the refinement of `Teletype`.
  `PaperInv` says, for each step of an undisturbed `putch()`, how much of the new
  text and cursor is made of those it found (`before`), and how many rows `cls()`
  has blanked; `PutStep` is that the whole of it is one character on the paper.
  An echo where the main thread has touched nothing yet comes before the whole
  operation, one inside `move_csr()` after it. What is excluded is what the code
  does get wrong, an echo inside the rest (`mixed`): the characters then land on
  each other.

`RxRingProofs`, from `RingAssumption`:

- `RingReadAlways` (`[]RingRead`) and `OnlyLateAreLeft` (`[]OnlyLateLeft`), for
  every ring and every traffic. The offsets do not say who is ahead, so the
  invariant unrolls the ring: there are places on an endless wire, one for each
  packet, of which CBA, CAPR, `bufferPtr` and the handler's offsets are remainders
  (`Track`, `Stored`); `Ahead` and `RoomLeft` are the lemmas on remainders that
  turn one comparison of offsets into one of places. As in the properties, the
  case of the interrupt that comes into `init_rtl8139()`'s own call is excluded
  (`reentered`): from then on nothing is claimed.

`FloppyProofs`, from the assumption on the geometry:

- `TypeCorrect`, `NoStaleInterrupt` (`[]WaitsForItsOwn`), `RightSector`
  (`[]SectorReturned`), `AlwaysPrepared` (`[]Prepared`) and `PassMeansZero`
  (`[]CalibrationPassed`), for every disk and number of tries. `FloppyInv` follows a
  command through the controller: the bytes still to be sent and those that have
  arrived, that at most one of a command at work, an interrupt line and the
  driver's flag is pending, and what the result bytes will say. None of the
  properties is inductive without it.

and about `Fat12`, from `DiskLayout` (the areas of the disk are where the code's
constants have them, the FAT has room for its entries, two root entries of one
name are of one kind) and `Names` (what callers pass are strings, capitals are no
marks), for any contents of the FAT and of the root directory:

- `ReadsAlongTheChain` (`[]ReadsOnlyTheChain`). `EntryOfCluster` is the
  arithmetic: the 12 bits that `fsysFatRead()` puts together from two sectors are
  the entry of the cluster, odd or even, across a sector or not. `ReadInv` follows
  the chain as a function (`ChainIs`: there is one, from every cluster): the
  sectors handed over are those of its first clusters (`Along`), no end mark was
  passed (`Going`), and what ends the read is the end mark if there is one
  (`Ended`).
- `OpensTheRightFile` (`[]RightFile`). `PlainPath` and `DosName` say what
  `volOpenFile()` and `ToDosFileName()` make of a name with a full extension: the
  name without a drive, capital, with blanks between base and extension;
  `ComparesWhole` that comparing it goes over all of it. `Searching` says that no
  entry of that name was passed over in the sectors before.

`AhciProofs`, from `AhciAssumption`:

- `FetchedAsWritten` (`[]FetchesTheCommand`), `AnswersAreTrue` (`[]IdentityRead`)
  and `NeverUnderAnEngine`, the action property `SetWhileStopped`, for every
  number of ports up to 32, of headers from 15 on, and any drives. `AhciInv`
  follows the main thread: from the reset on no engine is told to run, so what has
  been seen stopped stays so (`Stopped`); only the command the thread waits for is
  alive (`OneCommand`): what an error leaves in PxCI has its port's error bit set;
  and lists, tables and FISes of all ports lie apart (`FisApart`).

and about `PciScan`, from `Layout` (buses, slots and functions count from 0):

- `ScanFindsAll` (`ScanSpec => []ScanFinds`), for every machine, however its
  bridges are nested. What is to be reached is the least set closed under bridges
  (`Behind`); that all of it was visited needs no induction over the tree:
  `Complete` is the largest closed set of buses whose functions have all been
  visited, `StackOK` says that each call has passed what lies before it and puts
  the buses behind a bridge it has passed into that set, and a closed set with the
  root in it contains `Behind`. That nothing is visited twice holds when the
  numbers make a tree: by `Once` the calls on the stack are for different buses,
  and a bus is entered only by the one bridge that leads to it.

Every safety property of a passing run is stated by a theorem. Only model-checked
is the liveness: `EveryKeyDelivered`, `InterruptsEnd`, `CallsReturn`, `ReadsEnd`,
`ProbeEnds`, `ScanEnds` and `NobodyLeftWaiting`; liveness under fairness and
`ENABLED` are out of the prover's reach. What is left of a theorem to TLC is that
the hypotheses are met by its instance: the assumptions of the modules are
evaluated in every run.

The library's induction theorems take an operator as a parameter and cannot
be used. The inductions here, over recursive functions (`Nth`, `Edited`, the chain
of a file), loops and classes, go by the least member of a set of numbers
(`Induct`, `InductNat`), which follows from the library's facts on
well-founded relations as sets. No module has a RECURSIVE operator: where TLC
needs one there is a recursive function, and a lemma that it exists.

## 6. Disagreements between code and comments

There is no run of its own for any of them: the runs, one for each question asked of
the system, show what holds in the code as it is, and each of these came up while
the modules were written, is modelled as the code has it, and bounds what the
properties claim.

- `mmap_first_free_s()` adds the mask `1 << j` where the index `j` belongs and
  returns frames it has not tested (`pmm.c:121`), against "finds first free "size"
  number of frames" (`pmm.c:100`). On the machine of `phys_mem`, whose words have
  8 bits, three frames asked for right after the boot are frames 3 to 5, because 9
  to 11 are free; 4 and 5 are in use. With `Sizes = {1, 3}` in `PhysMem.cfg` TLC
  finds `SingleOwner`, `ReservedKept` and `FramesExist` violated; that run and its
  theorems are for single frames. `PageTables` asks for several as the kernel does,
  three for the directory and as many as the heap needs, and ends where it gets
  frames that are not free (`astray`).
- On the real machine, the memory below 64 KB set aside, the search passes over free
  frames: what it returns for the 16 frames of a heap region is the first free
  frame at whose mask 16 clear bits begin (for the second region that is frame 40,
  not 39, whose mask leads to the hole at 640 KB). The table made next in a frame that
  was passed over is cleared three bytes too late (`vmm.c:239`), over the beginning
  of that region; and a table in frame 255 over that of the kernel in frame 256.
- The bitmap itself lies behind the kernel (`kernel.c:141`) in frames that no
  `pmmngr_deinit_region()` sets aside: they are handed out like others. `PhysMem`
  keeps the map apart from memory and does not show what follows.
- With both shift keys held, releasing one clears `shift` (`kb.c:101-103`), and the
  keys typed then are small though the other is down: `BufferedAsHeld` has the
  exception (`lowered`).
- `vmmngr_dealloc_pages_at_virtual_address()` refuses pages that are mapped
  (`vmm.c:308`) and `liballoc_free()` returns 0 for that (`heap.c:62`), against
  "return 0 if the memory was successfully freed" (`liballoc.h:81`): memory the
  heap gives back is lost.
- The last letter of a name without an extension is dropped (`fat12.c:48`), so no
  directory is found by its name, against the example of `kernel.c:34`.
- `FlushBuffer()` is to clear "random crap" from the keyboard (`kb.c:74`); its
  `continue` goes to the condition of the loop, so it reads one byte unless the
  controller is busy, and a key after it silences the keyboard (`Irq`, above).
- `checkAllBuses()` has a loop for "Multiple PCI host controllers"
  (`pci.c:378`) that leaves before it scans anything (`PciScan`, above).
- Others: the fill 0x0f leaves half of the bits of the
  frame map clear, and frames in no available region are handed out ("By default,
  all of memory is in use", `pmm.c:149`; `PhysMem` has the fill as the code does);
  `find_cmdslot()` reads bits 8 to 11 of a field of five bits that counts from 0
  ("Bit 8-12", `ahci.c:87`), so a controller with 1 or 17 slots has none; each
  `port_rebase()` resets the whole controller and leaves the drives before it
  stopped; a backspace on an empty line writes in front
  of the string; `liballoc_alloc()` returns a pointer it never set when there are
  no pages ("NULL", says `liballoc.h:70`), which `Liballoc` follows into `wild`;
  `pmmngr_deinit_region()` rounds the kernel's size down and leaves its last part
  free; `rtl8139_send()` uses frames from 0x10000, and AHCI ports from number 4
  on use them too, which nobody has set aside.

## 7. What is not modelled

The shell's commands and their table: no command is registered at this commit
(`initShell()` is a comment in `main()`), so nothing of them runs. USB, UHCI, ARP,
VFS: no state yet. GDT, boot assembly: constants. In modelled parts:
`waitKey()`, `irq_uninstall_handler()`,
`moveto()`, `pushcsr()`, `popcsr()`, `shell_csr_fix()` and the AHCI `read()`
(nothing calls them), the conversion of numbers to text, `rtl8139_send()`, the
floppy's drive selection (always 0), `vmmngr_alloc_page()` and the lookup
helpers of `vmm.c` (nothing calls them), other file systems than FAT12, the TLB
(mappings are only added), and the width of sizes near 2^32. `PROJECT.json`
gives each part's status and reason.

## 8. Plan

Done, in this order: `Keyboard`, `LineInput`, `PhysMem`, `HeapAbs`, `Liballoc`,
`RxRing`, `Floppy`, `Fat12`, `PageTables`, `Ahci`, `Teletype`, `Screen`,
`PciScan`, `Shell`, `Irq`; theorems on the keyboard, line input and the shell,
physical memory, paging, the heap, interrupts, the screen, the network card's
ring, the floppy, the file system, AHCI and the PCI scan.

Left for a module of its own: `LowMemory`, which of the frames the drivers use at
fixed addresses `PhysMem` may hand out or `PageTables` uses (AHCI ports two and
from four on, transmit buffers of the network card), composing `Ahci` with
`PhysMem`. The runs are kept few, one for a question: a new one takes the place of
one that asks less, or extends an instance.
