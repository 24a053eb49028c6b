-------------------------------- MODULE Ahci --------------------------------
(***************************************************************************)
(* The SATA driver of ScorchOS, src/ahci.c: ahci_init() walks the ports of *)
(* the host controller; for each SATA drive port_rebase() resets the       *)
(* controller, gives the port its memory and starts its engine, and        *)
(* identify() issues one command and waits for the answer.                 *)
(*                                                                         *)
(* The controller is external and works beside the main thread: it starts  *)
(* and stops its engines some time after it is told to, writes a FIS when  *)
(* a drive reports, and fetches header and table of a command from memory. *)
(* Memory is counted in blocks of 256 bytes: of each, what was written     *)
(* last.  read() is called by nobody and is not modelled.                  *)
(***************************************************************************)
EXTENDS Integers, FiniteSets, FiniteSetsExt

CONSTANTS
  Ports,     \* how many ports are walked: 32
  Headers,   \* how many command headers are set up: 32
  SlotFields \* what CAP.NCS, five bits wide and counting from 0, may hold

ASSUME AhciAssumption == Ports \in 1..32 /\ Headers \in 15..32 /\ SlotFields \subseteq 0..31

VARIABLES
  at,        \* where the main thread is
  i,         \* the port probe_port() is at
  slot,      \* the command slot identify() has taken
  portbase,  \* the block a port's memory begins at, or 0
  mem,       \* what is in each block
  clb, fb,   \* of each port: command list and received FIS, as block numbers
  cmd,       \* of each port: which of ST, FRE, CR and FR are set
  ci,        \* of each port: commands issued
  tfes,      \* of each port: PxIS says task file error
  busy,      \* of each port: BUSY or DRQ in the task file
  link,      \* of each port: implemented, DET, IPM and the signature
  ncs,       \* CAP.NCS
  found      \* history: what identify() said of the port before i, if asked

driver == <<at, i, slot, portbase, found>>
memory == <<mem, clb, fb>>
hba    == <<cmd, ci, tfes, busy>>
vars   == <<driver, memory, hba, link, ncs>>

PortSet == 0..(Ports - 1)

-----------------------------------------------------------------------------
(* Memory *)

Block(address) == address \div 256
AHCI_BASE == 8192
AHCI_BUFFER == 32768
AHCI_PORT_SIZE == 12288
PerBlock == 8      \* command headers of 32 bytes in a block

BaseOf(p) == Block(AHCI_BASE + AHCI_PORT_SIZE * p)
\* The 2048 bytes identify() clears, and the 512 of them a drive fills.
BufferBlocks == Block(AHCI_BUFFER)..(Block(AHCI_BUFFER) + 7)
SectorBlocks == Block(AHCI_BUFFER)..(Block(AHCI_BUFFER) + 1)
\* What port_rebase() sets: the list, the received FIS, the tables.
Area(p) == BaseOf(p)..(BaseOf(p) + 4 + Headers)
Blocks == {0} \cup BufferBlocks \cup UNION {Area(p) : p \in PortSet}

Zeros == <<"zeros">>
HeaderIn(content, k) ==
  IF content[1] = "headers" THEN content[2][k] ELSE [ctba |-> 0, cfl |-> 0, prdtl |-> 0]
\* A table with the IDENTIFY command and one region, as far as it is filled.
Command(dba) == <<"command", dba>>

\* The header and the table a controller finds for slot s at list l.
Header(m, l, s) == HeaderIn(m[l + s \div PerBlock], s % PerBlock)
Table(m, l, s) == m[Header(m, l, s).ctba]
SetHeader(m, l, s, header) ==
  [m EXCEPT ![l + s \div PerBlock] =
     <<"headers", [k \in 0..(PerBlock - 1) |->
                     IF k = s % PerBlock THEN header ELSE HeaderIn(@, k)]>>]

\* Mutant: (i << 8), so that the first table lies where FISes are received.
TableOf0(base, s) == base + 4 + s
TableOf(base, s) == base + 4 + (s + 1)

\* clb and the 1 KB list, fb, and headers that each name a cleared table.
ListsSet(m, base) ==
  LET list   == base..(base + 3)
      tables == {TableOf(base, s) : s \in 0..(Headers - 1)}
  IN  [b \in Blocks |->
        IF b \in tables \cup {base + 4} THEN Zeros
        ELSE IF b \in list
        THEN <<"headers", [k \in 0..(PerBlock - 1) |->
                 [ctba |-> TableOf(base, PerBlock * (b - base) + k), cfl |-> 0, prdtl |-> 8]]>>
        ELSE m[b]]

-----------------------------------------------------------------------------
(* The start: the firmware may have left engines running *)

Running == {"ST", "FRE", "CR", "FR"}
Links == {[there |-> FALSE, det |-> 3, ipm |-> 1, sig |-> "ATA"],
          [there |-> TRUE, det |-> 1, ipm |-> 0, sig |-> "ATA"],
          [there |-> TRUE, det |-> 3, ipm |-> 1, sig |-> "ATAPI"],
          [there |-> TRUE, det |-> 3, ipm |-> 1, sig |-> "ATA"]}

Init ==
  /\ at = "probe" /\ i = 0 /\ slot = -1 /\ found = "unasked"
  /\ portbase = [p \in PortSet |-> 0]
  /\ mem = [b \in Blocks |-> <<"other">>]
  /\ clb = [p \in PortSet |-> 0] /\ fb = [p \in PortSet |-> 0]
  /\ link \in [PortSet -> Links] /\ ncs \in SlotFields
  /\ \E left \in {{}, Running} :
       cmd = [p \in PortSet |-> IF link[p].there /\ link[p].det = 3 THEN left ELSE {}]
  /\ ci = [p \in PortSet |-> {}]
  /\ tfes = [p \in PortSet |-> FALSE] /\ busy = [p \in PortSet |-> FALSE]

-----------------------------------------------------------------------------
(* The controller *)

EngineStarts(p) ==
  /\ "ST" \in cmd[p] /\ "CR" \notin cmd[p]
  /\ cmd' = [cmd EXCEPT ![p] = @ \cup {"CR"}]
  /\ UNCHANGED <<driver, memory, ci, tfes, busy, link, ncs>>

FisStarts(p) ==
  /\ "FRE" \in cmd[p] /\ "FR" \notin cmd[p]
  /\ cmd' = [cmd EXCEPT ![p] = @ \cup {"FR"}]
  /\ UNCHANGED <<driver, memory, ci, tfes, busy, link, ncs>>

EngineStops(p) ==
  /\ "ST" \notin cmd[p] /\ "CR" \in cmd[p]
  /\ cmd' = [cmd EXCEPT ![p] = @ \ {"CR"}]
  /\ UNCHANGED <<driver, memory, ci, tfes, busy, link, ncs>>

FisStops(p) ==
  /\ "FRE" \notin cmd[p] /\ "FR" \in cmd[p]
  /\ cmd' = [cmd EXCEPT ![p] = @ \ {"FR"}]
  /\ UNCHANGED <<driver, memory, ci, tfes, busy, link, ncs>>

\* After a reset the drive reports, and is busy no more; some never do.
Reports(p) ==
  /\ busy[p] /\ "FR" \in cmd[p]
  /\ busy' = [busy EXCEPT ![p] = FALSE]
  /\ mem' = [mem EXCEPT ![fb[p]] = <<"fis", p>>]
  /\ UNCHANGED <<driver, clb, fb, cmd, ci, tfes, link, ncs>>

\* A command that is fetched whole may succeed; any may fail, and then leave
\* its bit in PxCI or not.
Execute(p) ==
  /\ "CR" \in cmd[p] /\ ~ tfes[p]
  /\ \E s \in ci[p] :
       LET table == Table(mem, clb[p], s)
           posted == IF "FR" \in cmd[p] THEN [mem EXCEPT ![fb[p]] = <<"fis", p>>] ELSE mem
       IN
       \/ /\ table[1] = "command" /\ Header(mem, clb[p], s).cfl > 0
          /\ mem' = [b \in Blocks |->
                       IF b \in table[2]..(table[2] + 1) THEN <<"identity", p>> ELSE posted[b]]
          /\ ci' = [ci EXCEPT ![p] = @ \ {s}]
          /\ UNCHANGED tfes
       \/ /\ mem' = posted
          /\ tfes' = [tfes EXCEPT ![p] = TRUE]
          /\ ci' \in {ci, [ci EXCEPT ![p] = @ \ {s}]}
  /\ UNCHANGED <<driver, clb, fb, cmd, busy, link, ncs>>

Controller ==
  \E p \in PortSet : \/ EngineStarts(p) \/ EngineStops(p) \/ FisStarts(p) \/ FisStops(p)
                     \/ Reports(p) \/ Execute(p)

-----------------------------------------------------------------------------
(* The main thread *)

\* check_type() = AHCI_DEV_SATA
check_type(p) == link[p].det = 3 /\ link[p].ipm = 1 /\ link[p].sig = "ATA"

\* The loop of probe_port().
probe_port ==
  /\ at = "probe"
  /\ \/ i = Ports /\ at' = "done" /\ UNCHANGED <<i, found>>
     \/ /\ i < Ports /\ ~ (link[i].there /\ check_type(i))
        /\ i' = i + 1 /\ found' = "unasked" /\ UNCHANGED at
     \/ /\ i < Ports /\ link[i].there /\ check_type(i)
        /\ at' = "reset" /\ found' = "unasked" /\ UNCHANGED i
  /\ UNCHANGED <<slot, portbase, memory, hba, link, ncs>>

\* Mutant: the controller is not reset before the port is set up.
ControllerReset0 == UNCHANGED hba
\* What a write of HR does: engines are told to stop, commands are gone.
ControllerReset ==
  /\ cmd' = [p \in PortSet |-> cmd[p] \ {"ST", "FRE"}]
  /\ ci' = [p \in PortSet |-> {}] /\ tfes' = [p \in PortSet |-> FALSE]
  /\ busy' = [p \in PortSet |-> link[p].there /\ link[p].det = 3]

\* port_rebase() up to stop_cmd(): four writes to GHC, the second sets HR; no other
\* access of the driver comes between them.  The last one clears AE; that the
\* controller may then no longer listen to AHCI is left out.
port_rebase ==
  /\ at = "reset" /\ at' = "stop"
  /\ ControllerReset
  /\ portbase' = [portbase EXCEPT ![i] = IF @ = 0 THEN BaseOf(i) ELSE @]
  /\ UNCHANGED <<i, slot, found, memory, link, ncs>>

stop_cmd ==
  /\ at = "stop" /\ at' = "FR"
  /\ cmd' = [cmd EXCEPT ![i] = @ \ {"ST"}]
  /\ UNCHANGED <<i, slot, portbase, found, memory, ci, tfes, busy, link, ncs>>

WaitFR ==
  /\ at = "FR" /\ "FR" \notin cmd[i] /\ at' = "CR"
  /\ UNCHANGED <<i, slot, portbase, found, memory, hba, link, ncs>>

\* Mutant: the command list is not awaited.
WaitCRNot ==
  /\ at = "CR" /\ at' = "lists"
  /\ cmd' = [cmd EXCEPT ![i] = @ \ {"FRE"}]
  /\ UNCHANGED <<i, slot, portbase, found, memory, ci, tfes, busy, link, ncs>>

\* CR still set: from the top again.
WaitCR ==
  /\ at = "CR"
  /\ IF "CR" \in cmd[i] THEN at' = "FR" /\ UNCHANGED cmd
     ELSE at' = "lists" /\ cmd' = [cmd EXCEPT ![i] = @ \ {"FRE"}]
  /\ UNCHANGED <<i, slot, portbase, found, memory, ci, tfes, busy, link, ncs>>

SetLists ==
  /\ at = "lists" /\ at' = "start"
  /\ clb' = [clb EXCEPT ![i] = portbase[i]]
  /\ fb' = [fb EXCEPT ![i] = portbase[i] + 4]
  /\ mem' = ListsSet(mem, portbase[i])
  /\ UNCHANGED <<i, slot, portbase, found, hba, link, ncs>>

start_cmd ==
  /\ \/ /\ at = "start" /\ "CR" \notin cmd[i] /\ at' = "ST"
        /\ cmd' = [cmd EXCEPT ![i] = @ \cup {"FRE"}]
     \/ /\ at = "ST" /\ at' = "identify"
        /\ cmd' = [cmd EXCEPT ![i] = @ \cup {"ST"}]
  /\ UNCHANGED <<i, slot, portbase, found, memory, ci, tfes, busy, link, ncs>>

\* identify() returns to the loop, which does not look at what it returns.
Return(answer) == at' = "probe" /\ i' = i + 1 /\ found' = answer

\* num_of_slots is four bits of NCS; -1 when none of them is free.
find_cmdslot(p) ==
  LET free == 0..((ncs % 16) - 1) \ ci[p]
  IN  IF free = {} THEN -1 ELSE Min(free)

\* The buffer is cleared whether or not there is a slot.
identify ==
  LET s       == find_cmdslot(i)
      cleared == [b \in Blocks |-> IF b \in BufferBlocks THEN Zeros ELSE mem[b]]
      table   == Header(cleared, clb[i], s).ctba
      header  == [ctba |-> table, cfl |-> 5, prdtl |-> 2]
  IN
  /\ at = "identify"
  /\ tfes' = [tfes EXCEPT ![i] = FALSE]
  /\ IF s = -1 THEN Return("no") /\ mem' = cleared /\ UNCHANGED slot
     ELSE /\ slot' = s /\ at' = "ready" /\ UNCHANGED <<i, found>>
          /\ mem' = [SetHeader(cleared, clb[i], s, header)
                       EXCEPT ![table] = Command(Block(AHCI_BUFFER))]
  /\ UNCHANGED <<portbase, clb, fb, cmd, ci, busy, link, ncs>>

Issue ==
  /\ at = "ready" /\ ~ busy[i] /\ at' = "wait"
  /\ ci' = [ci EXCEPT ![i] = @ \cup {slot}]
  /\ UNCHANGED <<i, slot, portbase, found, memory, cmd, tfes, busy, link, ncs>>

\* "Port is hung": the bits stayed for 1000000 reads.
Hung ==
  /\ at = "ready" /\ busy[i] /\ Return("no")
  /\ UNCHANGED <<slot, portbase, memory, hba, link, ncs>>

Wait ==
  /\ at = "wait"
  /\ \/ slot \notin ci[i] /\ at' = "again" /\ UNCHANGED <<i, found>>
     \/ slot \in ci[i] /\ tfes[i] /\ Return("no")
  /\ UNCHANGED <<slot, portbase, memory, hba, link, ncs>>

\* Mutant: the error bit is not looked at once the command is gone.
CheckNothing ==
  /\ at = "again" /\ Return("yes")
  /\ UNCHANGED <<slot, portbase, memory, hba, link, ncs>>

CheckAgain ==
  /\ at = "again" /\ Return(IF tfes[i] THEN "no" ELSE "yes")
  /\ UNCHANGED <<slot, portbase, memory, hba, link, ncs>>

Driver ==
  \/ probe_port \/ port_rebase \/ stop_cmd \/ WaitFR \/ WaitCR \/ SetLists \/ start_cmd
  \/ identify \/ Issue \/ Hung \/ Wait \/ CheckAgain

Next == Driver \/ Controller

\* The main thread runs on, and an engine starts, stops and answers in time.
\* Nothing makes a drive report after a reset.
Fairness ==
  /\ WF_vars(Driver)
  /\ \A p \in PortSet : /\ WF_vars(EngineStarts(p)) /\ WF_vars(EngineStops(p))
                        /\ WF_vars(FisStops(p)) /\ WF_vars(Execute(p))

Spec == Init /\ [][Next]_vars /\ Fairness

-----------------------------------------------------------------------------
(* Properties *)

\* The memory of all ports but the one that begins at the buffer: port 2.
ApartFromBuffer(p) == BufferBlocks \cap Area(p) = {}

\* What an engine may be using is changed under it by nobody: the list of a
\* port and where it receives FISes are set only while the engine has stopped,
\* however the firmware left it (port_rebase(), stop_cmd()).
SetWhileStopped ==
  [][\A p \in PortSet : clb'[p] # clb[p] \/ fb'[p] # fb[p]
                          => cmd[p] \cap {"CR", "FR"} = {}]_vars

\* As long as a command is issued and has not failed, the controller finds in
\* memory what identify() wrote: a header of the port's list that names the
\* table with the command, aimed at the buffer, whatever FISes came meanwhile.
FetchesTheCommand ==
  \A p \in PortSet : \A s \in ci[p] :
    ApartFromBuffer(p) /\ ~ tfes[p] =>
      /\ Header(mem, clb[p], s).cfl = 5 /\ Header(mem, clb[p], s).prdtl = 2
      /\ Table(mem, clb[p], s) = Command(Block(AHCI_BUFFER))

\* When identify() returns true for a drive, the buffer holds the identity of
\* this drive: nothing left from one asked before, and nothing half read.
IdentityRead ==
  found = "yes" /\ ApartFromBuffer(i - 1) =>
    \A b \in SectorBlocks : mem[b] = <<"identity", i - 1>>

\* ahci_init() returns: none of its unbounded waits is for something that never
\* comes, whatever the firmware left running, whichever drives never report and
\* however a command fails, as long as the controller ends it one way or another.
ProbeEnds == <>(at = "done")
=============================================================================
