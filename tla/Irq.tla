-------------------------------- MODULE Irq ---------------------------------
(***************************************************************************)
(* The interrupts of ScorchOS while it boots and after: irq_install() and  *)
(* irq_handler() of src/irq.c with the stubs of start.s, the tables of     *)
(* idt.c and isrs.c, the timer of timer.c, keyboard_install() of kb.c and  *)
(* the handler of the network card, in the order main() sets them up.      *)
(*                                                                         *)
(* One processor: an interrupt is accepted between two steps of the main   *)
(* thread, before the next of them, and the handlers run with interrupts   *)
(* off.  External: two 8259 controllers, where an edge of line 0 or 1 is   *)
(* kept until it is accepted while the card holds its line until it is     *)
(* served; the keyboard controller, which shows one byte at port 0x60 and  *)
(* makes an edge when it shows another.                                    *)
(***************************************************************************)
EXTENDS Integers

CONSTANTS
  TickWidth,   \* 2^32: PIC_ticks wraps there
  WaitTicks    \* the argument of wait()

ASSUME WidthAssumption == TickWidth \in Nat /\ WaitTicks \in 1..(TickWidth - 1)

Timer == 0
Kbd   == 1
Cascade == 2      \* the line of the first controller the second is wired to
Nic   == 11
Lines == {Timer, Kbd, Nic}

VARIABLES
  gates,      \* the vectors of idt[] that have a gate
  remapped,   \* irq_remap() has programmed the controllers
  routines,   \* the lines whose irq_routines[] is not 0
  iflag,      \* the processor takes interrupts
  cpu,        \* "main", a place in the interrupt, or "halted"
  line,       \* the line whose interrupt runs
  pc,         \* where main() is
  temp,       \* FlushBuffer()'s: <<a byte is at port 0x60, the controller is busy>>
  PIC_ticks,
  eticks,     \* that of the wait() init_rtl8139() is in
  edges,      \* external: the edges that were not accepted yet
  service,    \* external: the lines in service, Cascade included
  byte,       \* external: a byte is at port 0x60
  busy,       \* external: the keyboard controller is busy
  packet,     \* external: the card holds its line
  came,       \* external: the lines with news since the main thread last ran
  waited,     \* history: the ticks counted since wait() was called
  missed      \* history: a key interrupt found no handler after FlushBuffer() looked

tables   == <<gates, remapped, routines>>
machine  == <<edges, service>>
devices  == <<byte, busy, packet>>
counting == <<PIC_ticks, eticks, waited>>
vars == <<tables, iflag, cpu, line, pc, temp, counting, machine, devices, came, missed>>

Init ==
  /\ gates = {} /\ remapped = FALSE /\ routines = {}
  /\ iflag = FALSE /\ cpu = "main" /\ line = Timer
  /\ pc = "idt" /\ temp = <<FALSE, FALSE>>
  /\ PIC_ticks = 0 /\ eticks = 0 /\ waited = 0
  /\ edges = {} /\ service = {}
  /\ byte \in BOOLEAN /\ busy \in BOOLEAN /\ packet = FALSE
  /\ came = {} /\ missed = FALSE

-----------------------------------------------------------------------------
(* The devices *)

\* The handlers are faster than the devices: between two ticks, two bytes or two
\* packets the main thread runs.
News(l) == l \notin came /\ came' = came \cup {l}

\* A millisecond is over.
Tick ==
  /\ News(Timer)
  /\ edges' = edges \cup {Timer}
  /\ UNCHANGED <<tables, iflag, cpu, line, pc, temp, counting, service, devices, missed>>

KeyByte ==
  /\ News(Kbd) /\ ~byte /\ byte' = TRUE
  /\ edges' = edges \cup {Kbd}
  /\ UNCHANGED <<tables, iflag, cpu, line, pc, temp, counting, service, busy, packet, missed>>

ControllerReady ==
  /\ busy /\ busy' = FALSE
  /\ UNCHANGED <<tables, iflag, cpu, line, pc, temp, counting, machine, byte, packet, came, missed>>

\* The card is enabled by init_rtl8139(), after its handler is installed.
PacketArrives ==
  /\ News(Nic) /\ Nic \in routines /\ ~packet /\ packet' = TRUE
  /\ UNCHANGED <<tables, iflag, cpu, line, pc, temp, counting, machine, byte, busy, missed>>

Devices == Tick \/ KeyByte \/ ControllerReady \/ PacketArrives

-----------------------------------------------------------------------------
(* Interrupts: the controllers, the stubs of start.s and irq_handler *)

\* The lines that ask for the processor and that nothing in service holds back.
Asking == {l \in edges \cup (IF packet THEN {Nic} ELSE {}) : \A k \in service : l < k}

\* The BIOS has them at 8 and 0x70; ICW2 is 0x20 and 0x28.
Vector(l) == IF remapped THEN 32 + l ELSE IF l < 8 THEN 8 + l ELSE 104 + l

Pending == iflag /\ cpu = "main" /\ Asking # {}

\* Without a gate, or with one of the exceptions, the machine stops.
Accept ==
  /\ Pending
  /\ line' = CHOOSE l \in Asking : \A k \in Asking : l <= k
  /\ cpu' = IF Vector(line') \in gates /\ Vector(line') >= 32 THEN "handler" ELSE "halted"
  /\ iflag' = FALSE
  /\ edges' = edges \ {line'}
  /\ service' = service \cup {line'} \cup (IF line' = Nic THEN {Cascade} ELSE {})
  /\ UNCHANGED <<tables, pc, temp, counting, devices, came, missed>>

PIC_handler ==
  /\ PIC_ticks' = (PIC_ticks + 1) % TickWidth
  /\ waited' = IF waited < WaitTicks THEN waited + 1 ELSE waited
  /\ cpu' = "slave"
  /\ UNCHANGED <<eticks, devices>>

\* keyboard_handler() reads port 0x60; what it does with it is in Keyboard.
keyboard_handler ==
  /\ byte' = FALSE
  /\ cpu' = "slave"
  /\ UNCHANGED <<counting, busy, packet>>

\* PIC_ticks + ticks: the sum wraps as PIC_ticks does.
EndOfWait == (PIC_ticks + WaitTicks) % TickWidth

\* rtl_irq_handler() serves the card (RxRing), or recv_packet() finds a length
\* beyond 3000 and waits, with interrupts off.
rtl_irq_handler ==
  \/ packet' = FALSE /\ cpu' = "slave" /\ UNCHANGED <<counting, byte, busy>>
  \/ cpu' = "wait" /\ UNCHANGED <<counting, devices>>

\* handler = irq_routines[r->int_no - 32]; if (handler) handler(r);
RunHandler ==
  /\ cpu = "handler"
  /\ IF line \in routines
     THEN /\ CASE line = Timer -> PIC_handler
               [] line = Kbd   -> keyboard_handler
               [] line = Nic   -> rtl_irq_handler
          /\ UNCHANGED missed
     ELSE /\ cpu' = "slave" /\ missed' = (missed \/ line = Kbd)
          /\ UNCHANGED <<counting, devices>>
  /\ UNCHANGED <<tables, iflag, line, pc, temp, machine, came>>

\* while (PIC_ticks < eticks), inside the handler, where no tick is counted and
\* eticks is this call's own; then recv_packet() is called again with the same
\* read_ofs.
WaitInHandler ==
  /\ cpu = "wait" /\ PIC_ticks >= EndOfWait /\ cpu' = "handler"
  /\ UNCHANGED <<tables, iflag, line, pc, temp, counting, machine, devices, came, missed>>

\* An unspecific EOI ends what is in service with the highest priority.
Ended(lines) == {l \in lines : \A k \in lines : l <= k}

\* Mutant: the second controller is never told.
EoiSlaveNone ==
  /\ cpu = "slave" /\ cpu' = "master"
  /\ UNCHANGED <<tables, iflag, line, pc, temp, counting, machine, devices, came, missed>>

\* if (r->int_no >= 40) outportb(0xA0, 0x20);
EoiSlave ==
  /\ cpu = "slave" /\ cpu' = "master"
  /\ service' = IF line >= 8 THEN service \ Ended({l \in service : l >= 8}) ELSE service
  /\ UNCHANGED <<tables, iflag, line, pc, temp, counting, edges, devices, came, missed>>

\* outportb(0x20, 0x20);
EoiMaster ==
  /\ cpu = "master" /\ cpu' = "iret"
  /\ service' = service \ Ended({l \in service : l < 8})
  /\ UNCHANGED <<tables, iflag, line, pc, temp, counting, edges, devices, came, missed>>

\* An interrupt was accepted, so iret turns them on again.
Iret ==
  /\ cpu = "iret" /\ cpu' = "main" /\ iflag' = TRUE
  /\ UNCHANGED <<tables, line, pc, temp, counting, machine, devices, came, missed>>

Interrupt == Accept \/ RunHandler \/ WaitInHandler \/ EoiSlave \/ EoiMaster \/ Iret

-----------------------------------------------------------------------------
(* The main thread *)

\* It runs when no interrupt is to be accepted first.
Step(from, to) ==
  /\ cpu = "main" /\ ~Pending
  /\ pc = from /\ pc' = to
  /\ came' = {}
  /\ UNCHANGED <<cpu, line>>

idt_install ==
  /\ Step("idt", "isrs") /\ gates' = {}
  /\ UNCHANGED <<remapped, routines, iflag, temp, counting, machine, devices, missed>>

isrs_install ==
  /\ Step("isrs", "irq") /\ gates' = gates \cup 0..31
  /\ UNCHANGED <<remapped, routines, iflag, temp, counting, machine, devices, missed>>

\* ICW1 makes the controllers forget the edges they have seen; the masks are 0.
irq_install ==
  /\ Step("irq", "timer")
  /\ remapped' = TRUE /\ edges' = {} /\ service' = {}
  /\ gates' = gates \cup 32..47
  /\ UNCHANGED <<routines, iflag, temp, counting, devices, missed>>

irq_install_handler(l) == routines' = routines \cup {l}

\* cli, the rate, the handler ...
timer_install ==
  /\ Step("timer", "sti") /\ iflag' = FALSE
  /\ irq_install_handler(Timer)
  /\ UNCHANGED <<gates, remapped, temp, counting, machine, devices, missed>>

\* ... and sti: the keyboard has no handler yet.
timer_sti ==
  /\ Step("sti", "status") /\ iflag' = TRUE
  /\ UNCHANGED <<tables, temp, counting, machine, devices, missed>>

\* temp = inportb(0x64);
FlushLook ==
  /\ Step("status", "read")
  /\ temp' = <<byte, busy>> /\ missed' = FALSE
  /\ UNCHANGED <<tables, iflag, counting, machine, devices>>

\* Mutant: the byte is left where it is.
FlushLeaves ==
  /\ Step("read", IF temp[2] THEN "status" ELSE "install")
  /\ UNCHANGED <<tables, iflag, temp, counting, machine, devices, missed>>

\* The byte is read when there is one; continue goes to the condition, so the
\* loop looks again only when the controller was busy.
FlushRead ==
  /\ Step("read", IF temp[2] THEN "status" ELSE "install")
  /\ byte' = (byte /\ ~temp[1])
  /\ UNCHANGED <<tables, iflag, temp, counting, machine, busy, packet, missed>>

keyboard_install ==
  /\ Step("install", "pci") /\ irq_install_handler(Kbd)
  /\ UNCHANGED <<gates, remapped, iflag, temp, counting, machine, devices, missed>>

\* init_pci() finds a card, whose handler init_rtl8139() installs, or none.  At
\* this commit the call is a comment (pci.c:252): the branch is the driver as it
\* stands ready, the other is what the kernel does today.
init_pci ==
  \/ /\ Step("pci", "first") /\ irq_install_handler(Nic)
     /\ UNCHANGED <<gates, remapped, iflag, temp, counting, machine, devices, missed>>
  \/ /\ Step("pci", "shell")
     /\ UNCHANGED <<tables, iflag, temp, counting, machine, devices, missed>>

\* init_rtl8139() calls rtl_irq_handler() itself, with interrupts on.
FirstLook ==
  \/ /\ Step("first", "shell") /\ packet' = FALSE
     /\ UNCHANGED <<tables, iflag, temp, counting, machine, byte, busy, missed>>
  \/ /\ Step("first", "wait")
     /\ eticks' = EndOfWait /\ waited' = 0 /\ UNCHANGED PIC_ticks
     /\ UNCHANGED <<tables, iflag, temp, machine, devices, missed>>

\* while (PIC_ticks < eticks);
WaitSpin ==
  /\ PIC_ticks < eticks /\ Step("wait", "wait")
  /\ UNCHANGED <<tables, iflag, temp, counting, machine, devices, missed>>

\* Mutant: the loop ends one tick early.
WaitShort ==
  /\ PIC_ticks + 1 >= eticks /\ Step("wait", "first")
  /\ UNCHANGED <<tables, iflag, temp, counting, machine, devices, missed>>

WaitEnds ==
  /\ PIC_ticks >= eticks /\ Step("wait", "first")
  /\ UNCHANGED <<tables, iflag, temp, counting, machine, devices, missed>>

\* runShell() spins in getchar_int().
runShell ==
  /\ Step("shell", "shell")
  /\ UNCHANGED <<tables, iflag, temp, counting, machine, devices, missed>>

main ==
  \/ idt_install \/ isrs_install \/ irq_install \/ timer_install \/ timer_sti
  \/ FlushLook \/ FlushRead \/ keyboard_install \/ init_pci
  \/ FirstLook \/ WaitSpin \/ WaitEnds \/ runShell

Next == Devices \/ Interrupt \/ main

\* The processor always runs and the timer always ticks; a busy keyboard
\* controller becomes ready.  Nobody has to type or to send a packet.
Spec ==
  /\ Init /\ [][Next]_vars
  /\ WF_vars(Interrupt) /\ WF_vars(main) /\ WF_vars(Tick) /\ WF_vars(ControllerReady)

-----------------------------------------------------------------------------
(* Properties *)

\* No interrupt is accepted before its vector is that of an IRQ and has a gate,
\* and none is left in service: when the main thread runs, both controllers
\* have been told the end of all that was accepted.
TakenAndEnded == cpu # "halted" /\ (cpu = "main" => service = {})

\* A handler waits, with interrupts off: for a tick that cannot be counted, or
\* again and again for the same packet.
Stuck == cpu = "wait"

\* A byte at port 0x60 is read and a packet served once their handlers are
\* installed, whatever was typed while the machine booted, and wait() returns to
\* init_rtl8139(), unless a handler waits or a key came between FlushBuffer()'s
\* last look and keyboard_install(): its interrupt found no handler and there is
\* no other edge.
NobodyLeftWaiting ==
  /\ (byte /\ Kbd \in routines) ~> (~byte \/ missed \/ Stuck)
  /\ packet ~> (~packet \/ Stuck)
  /\ pc = "wait" ~> (pc # "wait" \/ Stuck)

\* wait() does not return to init_rtl8139() before its ticks are over, unless
\* the sum has wrapped.
WaitsLongEnough ==
  [][pc = "wait" /\ pc' # "wait" => waited >= WaitTicks \/ eticks < WaitTicks]_vars

=============================================================================
