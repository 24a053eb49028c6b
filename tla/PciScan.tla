------------------------------ MODULE PciScan -------------------------------
(***************************************************************************)
(* The scan of the PCI buses, src/pci.c: checkAllBuses(), checkBus(),      *)
(* checkDevice() and checkFunction(), which calls checkBus() again for the *)
(* bus behind a bridge.  The recursion is the variable stack, one frame    *)
(* for each checkBus() that is running.  A visit notes the network card,   *)
(* and a SATA controller is enabled, its registers are mapped and its      *)
(* driver is run.                                                          *)
(*                                                                         *)
(* The machine is external: which functions answer, which of them are      *)
(* bridges and the bus the firmware gave to each.  The scan runs once, in  *)
(* the main thread; no interrupt handler uses the configuration ports.     *)
(***************************************************************************)
EXTENDS Integers, Sequences

CONSTANTS
  Buses,      \* the buses of the machine, 0 among them
  Slots,      \* 0..31
  Functions,  \* 0..7
  MaxDepth    \* bound of the model: the calls of checkBus() the stack holds

Devices == Buses \X Slots
Places  == Buses \X Slots \X Functions
Kinds   == {"nic", "sata", "bridge"}
None    == "none"

\* A machine: what answers at the places P, the devices whose header says that
\* they have several functions, and the bus behind each of the bridges B.
Machine(P, B) == [kind: [P -> Kinds], multi: SUBSET Devices, secondary: [B -> Buses]]

Numbered(S) == \E n \in S : S = 0..n
Layout == /\ 0 \in Buses /\ Numbered(Slots) /\ Numbered(Functions)
          /\ Functions \subseteq Buses

ASSUME LayoutAssumption == Layout
ASSUME DepthAssumption == MaxDepth \in Nat

VARIABLES
  machine,      \* external: the machine
  stack,        \* the calls of checkBus(): where each is
  host,         \* checkAllBuses(): "start", "single", "many" or "done"
  function,     \* its variable: the function of device 0 it is at
  n8139device,  \* the network card found last, or None
  started,      \* the SATA controllers that are mapped and probed
  visits        \* history: how often checkFunction() came to its end

scanVars == <<machine, stack, host, function, n8139device, started, visits>>

Bus(p) == p[1]
Function(p) == p[3]
DeviceOf(p) == <<p[1], p[2]>>

\* getVendorID() is not 0xFFFF
Present(p) == p \in DOMAIN machine.kind
\* Bit 7 of the header type; a function that does not answer reads as ones.
Multi(p) == ~Present(p) \/ DeviceOf(p) \in machine.multi

\* A frame: the function checkDevice() and checkFunction() are at, and what is
\* to be done there.
Frame(p, todo) == [at |-> p, todo |-> todo]
First(bus) == Frame(<<bus, 0, 0>>, "device")

Boot ==
  /\ stack = <<>> /\ host = "start" /\ function = -1 /\ n8139device = None
  /\ started = {}
  /\ visits = [p \in Places |-> 0]

ScanInit ==
  /\ \E P \in SUBSET Places : \E B \in SUBSET P :
       machine \in Machine(P, B) /\ B = {p \in P : machine.kind[p] = "bridge"}
  /\ Boot

-----------------------------------------------------------------------------
(* The stack *)

Scanning == stack # <<>>
Top == stack[Len(stack)]
Doing(todo) == Scanning /\ Top.todo = todo
Place == Top.at

Becomes(frame) == stack' = [stack EXCEPT ![Len(stack)] = frame]
Pop == stack' = SubSeq(stack, 1, Len(stack) - 1)

\* The next device of the bus, or the end of checkBus().
NextDevice ==
  IF Place[2] + 1 \in Slots
  THEN Becomes(Frame(<<Bus(Place), Place[2] + 1, 0>>, "device"))
  ELSE Pop

-----------------------------------------------------------------------------
(* checkDevice *)

NoDevice ==
  /\ Doing("device") /\ ~Present(Place)
  /\ NextDevice
  /\ UNCHANGED <<machine, host, function, n8139device, started, visits>>

ADevice ==
  /\ Doing("device") /\ Present(Place)
  /\ Becomes(Frame(Place, "function"))
  /\ UNCHANGED <<machine, host, function, n8139device, started, visits>>

\* The loop over functions 1 to 7, entered when the header says so.
HasMore(p) == /\ Function(p) + 1 \in Functions
              /\ Function(p) = 0 => Multi(p)

NextFunction ==
  /\ Doing("next") /\ HasMore(Place)
  /\ LET q == <<Bus(Place), Place[2], Function(Place) + 1>> IN
     Becomes(Frame(q, IF Present(q) THEN "function" ELSE "next"))
  /\ UNCHANGED <<machine, host, function, n8139device, started, visits>>

LastFunction ==
  /\ Doing("next") /\ ~HasMore(Place)
  /\ NextDevice
  /\ UNCHANGED <<machine, host, function, n8139device, started, visits>>

-----------------------------------------------------------------------------
(* checkFunction *)

IsBridge(p) == machine.kind[p] = "bridge"

\* Mutant: the low byte of the word, which is the number of the bridge's own bus.
PrimaryBus(p) == Bus(p)

getSecondaryBus(p) == machine.secondary[p]

\* Mutant: the scan goes on from the bus behind the bridge and never returns.
BridgeJumps ==
  /\ Doing("function") /\ IsBridge(Place)
  /\ Becomes(First(getSecondaryBus(Place)))
  /\ UNCHANGED <<machine, host, function, n8139device, started, visits>>

\* A bridge: the bus behind it is scanned before the bridge is reported.
Bridge ==
  /\ Doing("function") /\ IsBridge(Place)
  /\ Len(stack) < MaxDepth
  /\ stack' = Append([stack EXCEPT ![Len(stack)] = Frame(Place, "finish")],
                     First(getSecondaryBus(Place)))
  /\ UNCHANGED <<machine, host, function, n8139device, started, visits>>

\* What checkFunction() does then, at once where there is no bridge.
Finishing == Doing("finish") \/ (Doing("function") /\ ~IsBridge(Place))
Visited(p) == visits' = [visits EXCEPT ![p] = @ + 1]

FinishCard ==
  /\ Finishing /\ machine.kind[Place] = "nic"
  /\ n8139device' = Place
  /\ Visited(Place) /\ Becomes(Frame(Place, "next"))
  /\ UNCHANGED <<machine, host, function, started>>

\* A bus master from now on, its registers mapped, ahci_init() run on it.
FinishSata ==
  /\ Finishing /\ machine.kind[Place] = "sata"
  /\ started' = started \cup {Place}
  /\ Visited(Place) /\ Becomes(Frame(Place, "next"))
  /\ UNCHANGED <<machine, host, function, n8139device>>

FinishOther ==
  /\ Finishing /\ machine.kind[Place] \notin {"nic", "sata"}
  /\ Visited(Place) /\ Becomes(Frame(Place, "next"))
  /\ UNCHANGED <<machine, host, function, n8139device, started>>

-----------------------------------------------------------------------------
(* checkAllBuses *)

\* One host controller: bus 0.
SingleHost ==
  /\ host = "start" /\ ~Multi(<<0, 0, 0>>)
  /\ host' = "single"
  /\ stack' = <<First(0)>>
  /\ UNCHANGED <<machine, function, n8139device, started, visits>>

\* Several: the loop leaves at the first function that answers, and scans the
\* bus of that number where none does.
ManyHosts ==
  /\ \/ host = "start" /\ Multi(<<0, 0, 0>>)
     \/ host = "many" /\ ~Scanning
  /\ function' = function + 1
  /\ IF function' \in Functions /\ ~Present(<<0, 0, function'>>)
     THEN host' = "many" /\ stack' = <<First(function')>>
     ELSE host' = "done" /\ UNCHANGED stack
  /\ UNCHANGED <<machine, n8139device, started, visits>>

Ended ==
  /\ host = "single" /\ ~Scanning
  /\ host' = "done"
  /\ UNCHANGED <<machine, stack, function, n8139device, started, visits>>

Scan ==
  \/ SingleHost \/ ManyHosts \/ Ended
  \/ NoDevice \/ ADevice \/ NextFunction \/ LastFunction
  \/ Bridge \/ FinishCard \/ FinishSata \/ FinishOther

ScanSpec == ScanInit /\ [][Scan]_scanVars /\ WF_scanVars(Scan)

-----------------------------------------------------------------------------
(* Properties *)

\* The functions of the machine by the rules of PCI: a device has a function
\* 0, and others only if its header says so.
Exists(p) ==
  /\ Present(<<p[1], p[2], 0>>) /\ Present(p)
  /\ Function(p) = 0 \/ DeviceOf(p) \in machine.multi

Bridges == {p \in DOMAIN machine.kind : Exists(p) /\ IsBridge(p)}

\* The buses behind the bridges of the buses B; the buses from which no bridge
\* leads out of B; and the buses behind B, the least set that bridges from B and
\* from it do not lead out of.
Onward(B) == {machine.secondary[p] : p \in {q \in Bridges : Bus(q) \in B}}
Closed(B) == Onward(B) \subseteq B
Behind(B) ==
  {b \in Buses : \A C \in SUBSET Buses : Onward(B) \subseteq C /\ Closed(C) => b \in C}

\* The buses checkAllBuses() begins at, those the scan can come to, and what the
\* firmware is to see to: no bus is behind itself; no bus is behind two bridges.
HostAnswers == Present(<<0, 0, 0>>)
Roots == {0} \cup {f \in Functions : \A g \in 0..f : ~Present(<<0, 0, g>>)}
Reached == Roots \cup Behind(Roots)
NoCircle == \A b \in Reached : b \notin Behind({b})
Tree == /\ 0 \notin Behind({0})
        /\ \A p, q \in Bridges : Bus(p) \in Reached /\ Bus(q) \in Reached /\ p # q
             => machine.secondary[p] # machine.secondary[q]

VisitedOf(kind) == {p \in DOMAIN machine.kind : machine.kind[p] = kind /\ visits[p] > 0}

\* When the scan is over, it has been exactly once at each function that is on
\* bus 0 or behind bridges, however they are nested, and nowhere else; the
\* SATA controllers among them, and nothing else, have been started, and one of
\* the network cards among them is noted.  With several host controllers it has
\* been nowhere.
ScanExact ==
  host = "done" /\ Tree /\ HostAnswers =>
    /\ \A p \in Places :
         visits[p] = IF Exists(p) /\ Bus(p) \in Reached /\ <<0, 0>> \notin machine.multi
                     THEN 1 ELSE 0
    /\ started = VisitedOf("sata")
    /\ n8139device \in IF VisitedOf("nic") = {} THEN {None} ELSE VisitedOf("nic")

\* Where nothing answers as host, several buses are roots and functions may be
\* visited twice, but none on those or behind them is missed.
ScanMissesNone ==
  host = "done" /\ ~HostAnswers =>
    \A p \in Places : Exists(p) /\ Bus(p) \in Reached => visits[p] > 0

\* What is there is found.
ScanFinds == ScanExact /\ ScanMissesNone

\* The scan ends, unless a bridge leads back to a bus before it, as one the
\* firmware has not configured does.
ScanEnds == NoCircle => <>(host = "done")

=============================================================================
