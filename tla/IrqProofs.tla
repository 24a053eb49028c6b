------------------------------ MODULE IrqProofs -----------------------------
(***************************************************************************)
(* Proofs about Irq, for every width of the tick counter and every number  *)
(* of ticks that wait() is asked for: no interrupt is accepted that has no *)
(* gate, none is left in service, and wait() waits.                        *)
(*                                                                         *)
(* The invariant says how far main() has come wherever an interrupt can be *)
(* accepted, and what is in service at each place of irq_handler(): one    *)
(* line and, for the card, the cascade of the first controller too.        *)
(***************************************************************************)
EXTENDS Irq, TLAPS

\* The places of main() at and after which interrupts may be on.
Open == {"status", "read", "install", "pci", "first", "wait", "shell"}
Places == {"idt", "isrs", "irq", "timer", "sti"} \cup Open

TypeOK ==
  /\ gates \subseteq 0..47 /\ remapped \in BOOLEAN /\ routines \subseteq Lines
  /\ iflag \in BOOLEAN
  /\ cpu \in {"main", "handler", "wait", "slave", "master", "iret", "halted"}
  /\ line \in Lines /\ pc \in Places /\ temp \in BOOLEAN \X BOOLEAN
  /\ PIC_ticks \in 0..(TickWidth - 1) /\ eticks \in 0..(TickWidth - 1)
  /\ waited \in 0..WaitTicks
  /\ edges \subseteq {Timer, Kbd} /\ service \subseteq Lines \cup {Cascade}
  /\ byte \in BOOLEAN /\ busy \in BOOLEAN /\ packet \in BOOLEAN
  /\ came \subseteq Lines /\ missed \in BOOLEAN

\* When interrupts are on, or one runs, the gates are set.
GatesFirst ==
  /\ iflag \/ cpu # "main" => pc \in Open
  /\ pc \in Open \cup {"timer", "sti"} => remapped /\ 32..47 \subseteq gates

\* What the controllers have in service, by the place in irq_handler().
Serving ==
  /\ cpu \in {"main", "iret"} => service = {}
  /\ cpu \in {"handler", "wait", "slave"} =>
       service = {line} \cup (IF line = Nic THEN {Cascade} ELSE {})
  /\ cpu = "master" => service = {IF line = Nic THEN Cascade ELSE line}
  /\ cpu # "halted"

IrqInv == TypeOK /\ GatesFirst /\ Serving

LEMMA LineNumbers ==
  /\ Timer = 0 /\ Kbd = 1 /\ Cascade = 2 /\ Nic = 11 /\ Lines = {0, 1, 11}
  BY DEF Timer, Kbd, Cascade, Nic, Lines

\* Of the lines that ask, the controllers pass on the first.
LEMMA FirstAsks ==
  ASSUME TypeOK, Asking # {}
  PROVE  LET first == CHOOSE l \in Asking : \A k \in Asking : l <= k
         IN  first \in Asking /\ first \in Lines
<1>1. Asking \subseteq {0, 1, 11}
  BY LineNumbers DEF TypeOK, Asking
<1>2. \E l \in Asking : \A k \in Asking : l <= k
  <2>1. CASE 0 \in Asking
    BY <1>1, <2>1
  <2>2. CASE 0 \notin Asking /\ 1 \in Asking
    BY <1>1, <2>2
  <2>3. CASE 0 \notin Asking /\ 1 \notin Asking
    <3>1. 11 \in Asking /\ \A k \in Asking : k = 11
      BY <1>1, <2>3
    <3> QED
      BY <3>1
  <2> QED
    BY <2>1, <2>2, <2>3
<1> QED
  BY <1>1, <1>2, LineNumbers

LEMMA DevicesKeep ==
  ASSUME IrqInv, Devices
  PROVE  IrqInv'
<1> USE DEF IrqInv, TypeOK, GatesFirst, Serving, News, tables, counting,
        machine, devices
<1>1. CASE Tick
  BY <1>1 DEF Tick, Lines
<1>2. CASE KeyByte
  BY <1>2 DEF KeyByte, Lines
<1>3. CASE ControllerReady
  BY <1>3 DEF ControllerReady
<1>4. CASE PacketArrives
  BY <1>4 DEF PacketArrives, Lines
<1> QED
  BY <1>1, <1>2, <1>3, <1>4 DEF Devices

LEMMA AcceptKeeps ==
  ASSUME IrqInv, Accept
  PROVE  IrqInv'
<1>1. /\ iflag /\ cpu = "main" /\ Asking # {} /\ service = {}
      /\ pc \in Open /\ remapped /\ 32..47 \subseteq gates
  BY DEF Accept, Pending, IrqInv, GatesFirst, Serving
<1>2. line' \in Lines
  BY <1>1, FirstAsks DEF Accept, IrqInv
<1>3. Vector(line') \in gates /\ Vector(line') >= 32
  <2>1. \A l \in Lines : Vector(l) \in 32..47
    BY <1>1, LineNumbers DEF Vector
  <2>2. \A n \in 32..47 : n \in gates /\ n >= 32
    BY <1>1
  <2> QED
    BY <1>2, <2>1, <2>2
<1>4. /\ cpu' = "handler" /\ iflag' = FALSE /\ edges' = edges \ {line'}
      /\ service' = {line'} \cup (IF line' = Nic THEN {Cascade} ELSE {})
      /\ UNCHANGED <<gates, remapped, routines, pc, temp, PIC_ticks, eticks,
                     waited, byte, busy, packet, came, missed>>
  BY <1>1, <1>3 DEF Accept, tables, counting, devices
<1> QED
  BY <1>1, <1>2, <1>4 DEF IrqInv, TypeOK, GatesFirst, Serving

\* irq_routines[] leads to one of the three handlers, or to none.
LEMMA HandlerRuns ==
  ASSUME RunHandler, line \in Lines
  PROVE  /\ UNCHANGED <<tables, iflag, line, pc, temp, machine, came>>
         /\ \/ /\ UNCHANGED missed
               /\ PIC_handler \/ keyboard_handler \/ rtl_irq_handler
            \/ /\ cpu' = "slave" /\ missed' = (missed \/ line = Kbd)
               /\ UNCHANGED <<counting, devices>>
<1>1. CASE line \in routines
  BY <1>1, LineNumbers DEF RunHandler
<1>2. CASE line \notin routines
  BY <1>2 DEF RunHandler
<1> QED
  BY <1>1, <1>2

LEMMA HandlerKeeps ==
  ASSUME IrqInv, RunHandler \/ WaitInHandler
  PROVE  IrqInv'
<1> USE DEF IrqInv, TypeOK, GatesFirst, Serving, tables, machine, devices, counting
<1>1. CASE WaitInHandler
  BY <1>1 DEF WaitInHandler
<1>2. CASE RunHandler
  <2>1. line \in Lines /\ cpu = "handler"
    BY <1>2 DEF RunHandler
  <2>2. CASE /\ cpu' = "slave" /\ missed' = (missed \/ line = Kbd)
             /\ UNCHANGED <<counting, devices>>
    BY <1>2, <2>1, <2>2, HandlerRuns
  <2>3. CASE UNCHANGED missed /\ PIC_handler
    <3>1. (PIC_ticks + 1) % TickWidth \in 0..(TickWidth - 1)
      BY WidthAssumption
    <3>2. (IF waited < WaitTicks THEN waited + 1 ELSE waited) \in 0..WaitTicks
      BY WidthAssumption
    <3> QED
      BY <1>2, <2>1, <2>3, <3>1, <3>2, HandlerRuns DEF PIC_handler
  <2>4. CASE UNCHANGED missed /\ keyboard_handler
    BY <1>2, <2>1, <2>4, HandlerRuns DEF keyboard_handler
  <2>5. CASE UNCHANGED missed /\ rtl_irq_handler
    BY <1>2, <2>1, <2>5, HandlerRuns DEF rtl_irq_handler
  <2> QED
    BY <1>2, <2>1, <2>2, <2>3, <2>4, <2>5, HandlerRuns
<1> QED
  BY <1>1, <1>2

LEMMA EoiKeeps ==
  ASSUME IrqInv, EoiSlave \/ EoiMaster \/ Iret
  PROVE  IrqInv'
<1> USE DEF IrqInv, TypeOK, GatesFirst, tables, devices, counting, machine
<1>1. CASE EoiSlave
  <2>1. cpu = "slave" /\ cpu' = "master" /\ line' = line /\ line \in {0, 1, 11}
    BY <1>1, LineNumbers DEF EoiSlave
  <2>2. service = {line} \cup (IF line = 11 THEN {2} ELSE {})
    BY <2>1, LineNumbers DEF Serving
  <2>3. service' = {IF line = 11 THEN 2 ELSE line}
    <3>1. CASE line = 11
      <4>1. {l \in service : l >= 8} = {11}
        BY <2>2, <3>1
      <4>2. Ended({11}) = {11}
        BY DEF Ended
      <4> QED
        BY <1>1, <2>2, <3>1, <4>1, <4>2 DEF EoiSlave
    <3>2. CASE line # 11
      BY <1>1, <2>1, <2>2, <3>2 DEF EoiSlave
    <3> QED
      BY <3>1, <3>2
  <2> QED
    BY <1>1, <2>1, <2>3, LineNumbers DEF EoiSlave, Serving
<1>2. CASE EoiMaster
  <2>1. cpu = "master" /\ cpu' = "iret" /\ line \in {0, 1, 11}
    BY <1>2, LineNumbers DEF EoiMaster
  <2>2. PICK l \in {0, 1, 2} : service = {l}
    BY <2>1, LineNumbers DEF Serving
  <2>3. {k \in service : k < 8} = {l}
    BY <2>2
  <2>4. Ended({l}) = {l}
    BY DEF Ended
  <2>5. service' = {}
    BY <1>2, <2>2, <2>3, <2>4 DEF EoiMaster
  <2> QED
    BY <1>2, <2>1, <2>5 DEF EoiMaster, Serving
<1>3. CASE Iret
  BY <1>3 DEF Iret, Serving
<1> QED
  BY <1>1, <1>2, <1>3

LEMMA BootKeeps ==
  ASSUME IrqInv,
         \/ idt_install \/ isrs_install \/ irq_install \/ timer_install
         \/ timer_sti \/ keyboard_install \/ init_pci
  PROVE  IrqInv'
<1> USE LineNumbers DEF IrqInv, TypeOK, GatesFirst, Serving, Step, tables,
        devices, counting, machine, Places, Open, irq_install_handler
<1>1. CASE idt_install
  BY <1>1 DEF idt_install
<1>2. CASE isrs_install
  BY <1>2 DEF isrs_install
<1>3. CASE irq_install
  BY <1>3 DEF irq_install
<1>4. CASE timer_install
  BY <1>4 DEF timer_install
<1>5. CASE timer_sti
  BY <1>5 DEF timer_sti
<1>6. CASE keyboard_install
  BY <1>6 DEF keyboard_install
<1>7. CASE init_pci
  BY <1>7 DEF init_pci
<1> QED
  BY <1>1, <1>2, <1>3, <1>4, <1>5, <1>6, <1>7

LEMMA LoopsKeep ==
  ASSUME IrqInv,
         FlushLook \/ FlushRead \/ FirstLook \/ WaitSpin \/ WaitEnds \/ runShell
  PROVE  IrqInv'
<1> USE DEF IrqInv, TypeOK, GatesFirst, Serving, Step, tables, devices,
        counting, machine, Places, Open
<1>1. CASE FlushLook
  BY <1>1 DEF FlushLook
<1>2. CASE FlushRead
  BY <1>2 DEF FlushRead
<1>3. CASE FirstLook
  <2>1. EndOfWait \in 0..(TickWidth - 1) /\ 0 \in 0..WaitTicks
    BY WidthAssumption DEF EndOfWait
  <2> QED
    BY <1>3, <2>1 DEF FirstLook
<1>4. CASE WaitSpin
  BY <1>4 DEF WaitSpin
<1>5. CASE WaitEnds
  BY <1>5 DEF WaitEnds
<1>6. CASE runShell
  BY <1>6 DEF runShell
<1> QED
  BY <1>1, <1>2, <1>3, <1>4, <1>5, <1>6

\* Wherever an interrupt comes between two steps of the boot, its gate is set
\* and both controllers have been told the end of the one before.
LEMMA Inductive == Spec => []IrqInv
<1>1. Init => IrqInv
  <2>1. Init => TypeOK
    <3>1. 0 \in 0..(TickWidth - 1) /\ 0 \in 0..WaitTicks
      BY WidthAssumption
    <3>2. <<FALSE, FALSE>> \in BOOLEAN \X BOOLEAN
      OBVIOUS
    <3> QED
      BY <3>1, <3>2 DEF Init, TypeOK, Places, Lines
  <2>2. Init => GatesFirst /\ Serving
    BY DEF Init, GatesFirst, Serving, Open
  <2> QED
    BY <2>1, <2>2 DEF IrqInv
<1>2. IrqInv /\ [Next]_vars => IrqInv'
  <2> SUFFICES ASSUME IrqInv, [Next]_vars
               PROVE  IrqInv'
    OBVIOUS
  <2>1. CASE UNCHANGED vars
    BY <2>1 DEF IrqInv, TypeOK, GatesFirst, Serving, vars, tables, counting, machine, devices
  <2>2. CASE Devices
    BY <2>2, DevicesKeep
  <2>3. CASE Interrupt
    BY <2>3, AcceptKeeps, HandlerKeeps, EoiKeeps DEF Interrupt
  <2>4. CASE main
    BY <2>4, BootKeeps, LoopsKeep DEF main
  <2> QED
    BY <2>1, <2>2, <2>3, <2>4 DEF Next
<1> QED
  BY <1>1, <1>2, PTL DEF Spec

\* Every variable of the interrupts and of the boot always has its type.
THEOREM TypeCorrect == Spec => []TypeOK
  BY Inductive, PTL DEF IrqInv

\* No interrupt is accepted before its vector is that of an IRQ and has a gate,
\* and when the main thread runs nothing is in service: irq_handler() ends at
\* the second controller what the second has in service and at the first what
\* the first has, for every order in which the devices ask.
THEOREM NothingLeftInService == Spec => []TakenAndEnded
<1>1. IrqInv => TakenAndEnded
  BY DEF IrqInv, Serving, TakenAndEnded
<1> QED
  BY <1>1, Inductive, PTL

-----------------------------------------------------------------------------
(* wait() waits *)

\* While init_rtl8139() waits and its sum has not wrapped, the counter is as
\* many ticks from eticks as the wait still has to last.
Counting ==
  pc = "wait" /\ eticks >= WaitTicks /\ waited < WaitTicks =>
    PIC_ticks + WaitTicks = eticks + waited

LEMMA TickCounts ==
  ASSUME IrqInv, Counting, RunHandler
  PROVE  Counting'
<1>1. /\ TickWidth \in Nat /\ WaitTicks \in Nat /\ WaitTicks > 0
      /\ PIC_ticks \in Nat /\ eticks \in Nat /\ waited \in Nat
      /\ PIC_ticks < TickWidth /\ eticks < TickWidth
  BY WidthAssumption DEF IrqInv, TypeOK
<1>2. /\ UNCHANGED <<pc, eticks>>
      /\ UNCHANGED <<PIC_ticks, waited>> \/ PIC_handler
  BY HandlerRuns DEF IrqInv, TypeOK, counting, PIC_handler, keyboard_handler, rtl_irq_handler
<1>3. CASE UNCHANGED <<PIC_ticks, waited>>
  BY <1>2, <1>3 DEF Counting
<1>4. CASE PIC_handler
  <2>1. /\ PIC_ticks' = (PIC_ticks + 1) % TickWidth
        /\ waited' = IF waited < WaitTicks THEN waited + 1 ELSE waited
    BY <1>4 DEF PIC_handler
  <2> SUFFICES ASSUME pc = "wait", eticks >= WaitTicks, waited' < WaitTicks
               PROVE  PIC_ticks' + WaitTicks = eticks + waited'
    BY <1>2 DEF Counting
  <2>2. waited < WaitTicks /\ waited' = waited + 1
    BY <1>1, <2>1
  <2>3. PIC_ticks + WaitTicks = eticks + waited
    BY <2>2 DEF Counting
  <2>4. PIC_ticks + 1 \in 0..(TickWidth - 1)
    BY <1>1, <2>2, <2>3
  <2>5. PIC_ticks' = PIC_ticks + 1
    BY <1>1, <2>1, <2>4
  <2> QED
    BY <1>1, <2>2, <2>3, <2>5
<1> QED
  BY <1>2, <1>3, <1>4

LEMMA WaitStarts ==
  ASSUME IrqInv, pc' = "wait", pc # "wait", Next
  PROVE  Counting'
<1>1. FirstLook /\ eticks' = EndOfWait /\ waited' = 0 /\ PIC_ticks' = PIC_ticks
  <2>1. pc' # pc
    OBVIOUS
  <2>2. main
    BY <2>1 DEF Next, Devices, Tick, KeyByte, ControllerReady, PacketArrives,
       Interrupt, Accept, RunHandler, WaitInHandler, EoiSlave, EoiMaster, Iret
  <2>3. FirstLook
    BY <2>2 DEF main, Step, idt_install, isrs_install, irq_install,
       timer_install, timer_sti, FlushLook, FlushRead, keyboard_install,
       init_pci, WaitSpin, WaitEnds, runShell
  <2> QED
    BY <2>3 DEF FirstLook, Step
<1>2. /\ TickWidth \in Nat /\ WaitTicks \in Nat /\ 0 < WaitTicks
      /\ WaitTicks < TickWidth /\ PIC_ticks \in 0..(TickWidth - 1)
  BY WidthAssumption DEF IrqInv, TypeOK
<1>3. \/ EndOfWait = PIC_ticks + WaitTicks
      \/ EndOfWait = PIC_ticks + WaitTicks - TickWidth
  BY <1>2 DEF EndOfWait
<1> QED
  BY <1>1, <1>2, <1>3 DEF Counting

LEMMA CountingHolds == Spec => []Counting
<1>1. Init => Counting
  BY DEF Init, Counting
<1>2. IrqInv /\ Counting /\ [Next]_vars => Counting'
  <2> SUFFICES ASSUME IrqInv, Counting, [Next]_vars
               PROVE  Counting'
    OBVIOUS
  <2>1. CASE UNCHANGED vars
    BY <2>1 DEF Counting, vars, counting
  <2>2. CASE Devices
    BY <2>2 DEF Counting, Devices, Tick, KeyByte, ControllerReady, PacketArrives, counting
  <2>3. CASE Interrupt /\ ~RunHandler
    BY <2>3 DEF Counting, Interrupt, Accept, WaitInHandler, EoiSlave, EoiMaster, Iret, counting
  <2>4. CASE RunHandler
    BY <2>4, TickCounts
  <2>5. CASE main /\ pc # "wait" /\ pc' = "wait"
    BY <2>5, WaitStarts DEF Next
  <2>6. CASE main /\ pc' # "wait"
    BY <2>6 DEF Counting
  <2>7. CASE main /\ pc = "wait" /\ pc' = "wait"
    <3>1. WaitSpin
      BY <2>7 DEF main, Step, idt_install, isrs_install, irq_install,
         timer_install, timer_sti, FlushLook, FlushRead, keyboard_install,
         init_pci, FirstLook, WaitEnds, runShell
    <3> QED
      BY <2>7, <3>1 DEF Counting, WaitSpin, counting
  <2> QED
    BY <2>1, <2>2, <2>3, <2>4, <2>5, <2>6, <2>7 DEF Next
<1> QED
  BY <1>1, <1>2, Inductive, PTL DEF Spec

\* wait() does not return to init_rtl8139() before the timer has interrupted as
\* often as it was asked to wait, wherever the counter stood and whatever else
\* interrupted, unless eticks has wrapped.
THEOREM WaitsItsTicks == Spec => WaitsLongEnough
<1>1. IrqInv /\ Counting /\ [Next]_vars
        => [pc = "wait" /\ pc' # "wait" => waited >= WaitTicks \/ eticks < WaitTicks]_vars
  <2> SUFFICES ASSUME IrqInv, Counting, Next, pc = "wait", pc' # "wait",
                      eticks >= WaitTicks
               PROVE  waited >= WaitTicks
    BY WidthAssumption DEF IrqInv, TypeOK
  <2>1. WaitEnds
    <3>1. main
      BY DEF Next, Devices, Tick, KeyByte, ControllerReady, PacketArrives,
         Interrupt, Accept, RunHandler, WaitInHandler, EoiSlave, EoiMaster, Iret
    <3> QED
      BY <3>1 DEF main, Step, idt_install, isrs_install, irq_install,
         timer_install, timer_sti, FlushLook, FlushRead, keyboard_install,
         init_pci, FirstLook, WaitSpin, runShell
  <2>2. PIC_ticks >= eticks
    BY <2>1 DEF WaitEnds
  <2>3. waited < WaitTicks => PIC_ticks + WaitTicks = eticks + waited
    BY DEF Counting
  <2> QED
    BY <2>2, <2>3, WidthAssumption DEF IrqInv, TypeOK
<1> QED
  BY <1>1, Inductive, CountingHolds, PTL DEF Spec, WaitsLongEnough

=============================================================================
