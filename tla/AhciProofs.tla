----------------------------- MODULE AhciProofs -----------------------------
(***************************************************************************)
(* Proofs about Ahci, for every number of ports and headers, any drives    *)
(* and any controller: no port is set up under a running engine, the       *)
(* command the controller fetches is the one identify() wrote, and an      *)
(* answer is the identity of the drive that was asked.                     *)
(*                                                                         *)
(* The invariant follows the main thread.  From the reset on no engine is  *)
(* told to run, so what has stopped stays stopped until start_cmd().  At   *)
(* most one command is alive, the one the thread waits for: what an error  *)
(* leaves in PxCI is dead, its port has the error bit set.  The memory of  *)
(* the ports lies apart, 48 blocks each, so FISes go where nothing is read.*)
(*                                                                         *)
(* The second part is about PciScan, the scan of the buses that finds the  *)
(* controllers: it comes to every function that is there, and where the    *)
(* firmware has numbered the buses as a tree to each of them once.         *)
(*                                                                         *)
(* What every frame of the stack has passed is finished, together with all *)
(* that is behind it: Complete, the largest set of buses on which nothing  *)
(* is left to visit and which no bridge leads out of.  A call that returns *)
(* adds its bus, and the bus checkAllBuses() began at ends up in it.       *)
(* Nothing is visited twice because no two calls are for one bus, what a   *)
(* call has not passed has not been visited, and the one bridge before a   *)
(* bus has been visited, or waits on the stack, when the bus has been.     *)
(***************************************************************************)
EXTENDS Ahci, PciScan, SequenceTheorems, TLAPS

SetUp    == {"start", "ST", "identify", "ready", "wait", "again"}
Rebasing == {"stop", "FR", "CR", "lists"} \cup SetUp
Walking  == {"probe", "done"}

Types ==
  /\ at \in Walking \cup {"reset"} \cup Rebasing
  /\ i \in 0..Ports /\ (at \notin Walking => i \in PortSet)
  /\ slot \in -1..14 /\ (at \in {"ready", "wait", "again"} => slot \in 0..14)
  /\ DOMAIN mem = Blocks /\ mem = [b \in Blocks |-> mem[b]]
  /\ cmd \in [PortSet -> SUBSET Running] /\ ci \in [PortSet -> SUBSET (0..14)]
  /\ tfes \in [PortSet -> BOOLEAN]
  /\ ncs \in 0..31
  /\ found \in {"unasked", "yes", "no"}

\* Where the driver has told the controller a port's memory is, if it has.
Based ==
  /\ portbase \in [PortSet -> Int] /\ clb \in [PortSet -> Int] /\ fb \in [PortSet -> Int]
  /\ \A p \in PortSet : portbase[p] \in {0, BaseOf(p)} /\ fb[p] \in {0, BaseOf(p) + 4}
  /\ at \in Rebasing => portbase[i] = BaseOf(i)
  /\ at \in SetUp => clb[i] = BaseOf(i)

Stopped ==
  /\ at \in {"stop", "FR", "CR", "lists", "start"} => "ST" \notin cmd[i] /\ "FRE" \notin cmd[i]
  /\ at \in {"CR", "lists", "start"} => "FR" \notin cmd[i]
  /\ at \in {"lists", "start"} => "CR" \notin cmd[i]

\* A port other than i at a time the thread waits has no command; one left over
\* from before is dead.
OneCommand ==
  /\ at \in Rebasing \ {"wait"} => \A p \in PortSet : ci[p] = {}
  /\ at = "wait" => /\ \A p \in PortSet \ {i} : ci[p] = {}
                    /\ ci[i] \subseteq {slot}
  /\ \A p \in PortSet : at \in Walking \cup {"reset"} /\ ci[p] # {} => tfes[p]

\* Each header that can be taken names its table.
Laid(m, base) == \A s \in 0..14 : Header(m, base, s).ctba = TableOf(base, s)

\* The command is in slot s of the list.
Written(m, base, s) ==
  /\ Header(m, base, s) = [ctba |-> TableOf(base, s), cfl |-> 5, prdtl |-> 2]
  /\ m[TableOf(base, s)] = Command(Block(AHCI_BUFFER))

Identity(m, p) == \A b \in SectorBlocks : m[b] = <<"identity", p>>

Prepared ==
  /\ at \in {"start", "ST", "identify"} => Laid(mem, BaseOf(i))
  /\ at \in {"ready", "wait"} /\ ApartFromBuffer(i) /\ (at = "wait" => slot \in ci[i] /\ ~ tfes[i])
       => Written(mem, BaseOf(i), slot)

Answered ==
  /\ at \in {"wait", "again"} /\ ApartFromBuffer(i) /\ slot \notin ci[i] /\ ~ tfes[i]
       => Identity(mem, i)
  /\ found = "yes" => at \in Walking /\ i - 1 \in PortSet
  /\ found = "yes" /\ ApartFromBuffer(i - 1) => Identity(mem, i - 1)

AhciInv == Types /\ Based /\ Stopped /\ OneCommand /\ Prepared /\ Answered

-----------------------------------------------------------------------------
(* Memory *)

LEMMA MemoryPlaces ==
  /\ Block(AHCI_BUFFER) = 128
  /\ SectorBlocks = 128..129 /\ BufferBlocks = 128..135
  /\ \A p \in PortSet : p \in 0..31 /\ BaseOf(p) = 32 + 48 * p
<1>1. Block(AHCI_BUFFER) = 128
  BY DEF Block, AHCI_BUFFER
<1>2. SectorBlocks = 128..129 /\ BufferBlocks = 128..135
  BY <1>1 DEF SectorBlocks, BufferBlocks
<1>3. ASSUME NEW p \in PortSet
      PROVE  p \in 0..31 /\ BaseOf(p) = 32 + 48 * p
  BY AhciAssumption DEF PortSet, BaseOf, Block, AHCI_BASE, AHCI_PORT_SIZE
<1> QED
  BY <1>1, <1>2, <1>3

LEMMA InBlock ==
  ASSUME NEW s \in 0..14
  PROVE  s \div PerBlock \in 0..1 /\ s % PerBlock \in 0..(PerBlock - 1)
         /\ PerBlock * (s \div PerBlock) + (s % PerBlock) = s
BY DEF PerBlock

\* The blocks the driver and the controller use are blocks of the model.
LEMMA Used ==
  ASSUME NEW p \in PortSet, NEW s \in 0..14
  PROVE  /\ BaseOf(p) + s \div PerBlock \in Area(p)
         /\ TableOf(BaseOf(p), s) \in Area(p)
         /\ Area(p) \subseteq Blocks /\ BufferBlocks \subseteq Blocks
         /\ SectorBlocks \subseteq BufferBlocks
<1>1. BaseOf(p) \in Int /\ Headers \in 15..32 /\ s \div PerBlock \in 0..1
  BY MemoryPlaces, AhciAssumption, InBlock
<1>2. BaseOf(p) + s \div PerBlock \in Area(p) /\ TableOf(BaseOf(p), s) \in Area(p)
  BY <1>1 DEF Area, TableOf
<1>3. Area(p) \subseteq Blocks /\ BufferBlocks \subseteq Blocks
  BY DEF Blocks
<1>4. SectorBlocks \subseteq BufferBlocks
  BY MemoryPlaces
<1> QED
  BY <1>2, <1>3, <1>4

\* Where FISes go there is no list, no table and no identity.
LEMMA FisApart ==
  ASSUME NEW p \in PortSet, NEW q \in PortSet, NEW x \in {0, BaseOf(q) + 4}, NEW s \in 0..14
  PROVE  x # BaseOf(p) + s \div PerBlock /\ x # TableOf(BaseOf(p), s) /\ x \notin SectorBlocks
<1>1. BaseOf(p) = 32 + 48 * p /\ BaseOf(q) = 32 + 48 * q /\ p \in 0..31 /\ q \in 0..31
      /\ SectorBlocks = 128..129 /\ s \div PerBlock \in 0..1
  BY MemoryPlaces, InBlock
<1>2. PICK d : d = s \div PerBlock
  OBVIOUS
<1>3. d \in 0..1
  BY <1>1, <1>2
<1>4. x = 0 \/ x = 36 + 48 * q
  BY <1>1
<1>5. x # 32 + 48 * p + d
  BY <1>1, <1>3, <1>4
<1>6. x # 32 + 48 * p + 4 + (s + 1)
  BY <1>1, <1>4
<1>7. x \notin 128..129
  BY <1>1, <1>4
<1> QED
  BY <1>1, <1>2, <1>5, <1>6, <1>7 DEF TableOf

LEMMA Kept ==
  ASSUME NEW m, NEW m2, NEW base,
         \A s \in 0..14 : m2[base + s \div PerBlock] = m[base + s \div PerBlock]
  PROVE  /\ \A s \in 0..14 : Header(m2, base, s) = Header(m, base, s)
         /\ Laid(m, base) => Laid(m2, base)
<1>1. \A s \in 0..14 : Header(m2, base, s) = Header(m, base, s)
  BY DEF Header
<1> QED
  BY <1>1 DEF Laid

LEMMA FisHarmless ==
  ASSUME NEW m, m = [b \in Blocks |-> m[b]], NEW q \in PortSet,
         NEW x \in {0, BaseOf(q) + 4}, NEW fis
  PROVE  LET m2 == [m EXCEPT ![x] = fis] IN
         /\ m2 = [b \in Blocks |-> m2[b]]
         /\ \A p \in PortSet :
              /\ Laid(m, BaseOf(p)) => Laid(m2, BaseOf(p))
              /\ \A s \in 0..14 : Written(m, BaseOf(p), s) => Written(m2, BaseOf(p), s)
         /\ \A p : Identity(m, p) => Identity(m2, p)
<1> DEFINE m2 == [m EXCEPT ![x] = fis]
<1>1. \A b \in Blocks : b # x => m2[b] = m[b]
  OBVIOUS
<1>2. m2 = [b \in Blocks |-> m2[b]]
  OBVIOUS
<1> HIDE DEF m2
<1>3. ASSUME NEW p \in PortSet
      PROVE  /\ Laid(m, BaseOf(p)) => Laid(m2, BaseOf(p))
             /\ \A s \in 0..14 : Written(m, BaseOf(p), s) => Written(m2, BaseOf(p), s)
  <2>1. \A s \in 0..14 : /\ m2[BaseOf(p) + s \div PerBlock] = m[BaseOf(p) + s \div PerBlock]
                         /\ m2[TableOf(BaseOf(p), s)] = m[TableOf(BaseOf(p), s)]
    <3> SUFFICES ASSUME NEW s \in 0..14
                 PROVE  /\ m2[BaseOf(p) + s \div PerBlock] = m[BaseOf(p) + s \div PerBlock]
                        /\ m2[TableOf(BaseOf(p), s)] = m[TableOf(BaseOf(p), s)]
      OBVIOUS
    <3>1. x # BaseOf(p) + s \div PerBlock /\ x # TableOf(BaseOf(p), s)
      BY FisApart
    <3>2. BaseOf(p) + s \div PerBlock \in Blocks /\ TableOf(BaseOf(p), s) \in Blocks
      BY Used
    <3> QED
      BY <1>1, <3>1, <3>2
  <2>2. /\ \A s \in 0..14 : Header(m2, BaseOf(p), s) = Header(m, BaseOf(p), s)
        /\ Laid(m, BaseOf(p)) => Laid(m2, BaseOf(p))
    BY <2>1, Kept
  <2> QED
    BY <2>1, <2>2 DEF Written
<1>4. ASSUME NEW p, Identity(m, p)
      PROVE  Identity(m2, p)
  <2>1. x \notin SectorBlocks /\ SectorBlocks \subseteq Blocks
    <3>1. 0 \in 0..14
      OBVIOUS
    <3> QED
      BY <3>1, FisApart, Used
  <2> QED
    BY <1>1, <1>4, <2>1 DEF Identity
<1> QED
  BY <1>2, <1>3, <1>4 DEF m2

\* What port_rebase() lays out, as identify() will find it.
LEMMA ListsLaid ==
  ASSUME NEW m, NEW p \in PortSet
  PROVE  LET m2 == ListsSet(m, BaseOf(p)) IN
         m2 = [b \in Blocks |-> m2[b]] /\ Laid(m2, BaseOf(p))
<1> DEFINE base == BaseOf(p)
           m2 == ListsSet(m, base)
           list == base..(base + 3)
           tables == {TableOf(base, s) : s \in 0..(Headers - 1)}
<1>1. m2 = [b \in Blocks |-> m2[b]]
  BY DEF ListsSet
<1>2. ASSUME NEW s \in 0..14
      PROVE  Header(m2, base, s).ctba = TableOf(base, s)
  <2>1. PICK d : d = s \div PerBlock
    OBVIOUS
  <2>2. PICK k : k = s % PerBlock
    OBVIOUS
  <2>3. d \in 0..1 /\ k \in 0..(PerBlock - 1) /\ PerBlock * d + k = s
    BY <2>1, <2>2, InBlock
  <2>4. base \in Int
    BY MemoryPlaces
  <2>5. base + d \in list /\ base + d # base + 4 /\ (base + d) - base = d
    BY <2>3, <2>4
  <2>6. base + d \notin tables
    <3>1. \A t \in 0..(Headers - 1) : base + d # base + 4 + (t + 1)
      BY <2>3, <2>4, AhciAssumption
    <3> QED
      BY <3>1 DEF TableOf
  <2>7. base + d \in Blocks
    BY <2>1, Used
  <2>8. m2[base + d] = <<"headers", [c \in 0..(PerBlock - 1) |->
          [ctba |-> TableOf(base, PerBlock * ((base + d) - base) + c), cfl |-> 0, prdtl |-> 8]]>>
    BY <2>5, <2>6, <2>7, Zenon DEF ListsSet
  <2>9. Header(m2, base, s) = HeaderIn(m2[base + d], k)
    BY <2>1, <2>2 DEF Header
  <2> HIDE DEF m2
  <2>10. HeaderIn(m2[base + d], k)
           = [ctba |-> TableOf(base, PerBlock * ((base + d) - base) + k), cfl |-> 0, prdtl |-> 8]
    BY <2>3, <2>8 DEF HeaderIn
  <2>11. Header(m2, base, s).ctba = TableOf(base, PerBlock * ((base + d) - base) + k)
    BY <2>9, <2>10
  <2> QED
    BY <2>3, <2>5, <2>11
<1> QED
  BY <1>1, <1>2, Zenon DEF Laid

\* identify() clears its buffer and writes its command into a list that is laid
\* out apart from the buffer.
LEMMA CommandWritten ==
  ASSUME NEW m, NEW p \in PortSet, NEW s \in 0..14,
         Laid(m, BaseOf(p)), ApartFromBuffer(p)
  PROVE  LET cleared == [b \in Blocks |-> IF b \in BufferBlocks THEN Zeros ELSE m[b]]
             table   == Header(cleared, BaseOf(p), s).ctba
             header  == [ctba |-> table, cfl |-> 5, prdtl |-> 2]
         IN  Written([SetHeader(cleared, BaseOf(p), s, header)
                        EXCEPT ![table] = Command(Block(AHCI_BUFFER))], BaseOf(p), s)
<1> DEFINE base    == BaseOf(p)
           cleared == [b \in Blocks |-> IF b \in BufferBlocks THEN Zeros ELSE m[b]]
           table   == Header(cleared, base, s).ctba
           header  == [ctba |-> table, cfl |-> 5, prdtl |-> 2]
           set     == SetHeader(cleared, base, s, header)
           m2      == [set EXCEPT ![table] = Command(Block(AHCI_BUFFER))]
<1>1. PICK l : l = base + s \div PerBlock
  OBVIOUS
<1>2. PICK k : k = s % PerBlock
  OBVIOUS
<1>3. k \in 0..(PerBlock - 1)
  BY <1>2, InBlock
<1>4. l \in Blocks /\ TableOf(base, s) \in Blocks /\ l # TableOf(base, s)
  <2>1. l \in Blocks /\ TableOf(base, s) \in Blocks
    BY <1>1, Used
  <2>2. PICK d : d = s \div PerBlock
    OBVIOUS
  <2>3. d \in 0..1 /\ base \in Int
    BY <2>2, InBlock, MemoryPlaces
  <2>4. base + d # base + 4 + (s + 1)
    BY <2>3
  <2> QED
    BY <1>1, <2>1, <2>2, <2>4 DEF TableOf
<1>5. table = TableOf(base, s)
  <2>1. \A t \in 0..14 : cleared[base + t \div PerBlock] = m[base + t \div PerBlock]
    <3> SUFFICES ASSUME NEW t \in 0..14
                 PROVE  cleared[base + t \div PerBlock] = m[base + t \div PerBlock]
      OBVIOUS
    <3>1. base + t \div PerBlock \in Blocks /\ base + t \div PerBlock \in Area(p)
      BY Used
    <3>2. base + t \div PerBlock \notin BufferBlocks
      BY <3>1 DEF ApartFromBuffer
    <3> QED
      BY <3>1, <3>2
  <2> HIDE DEF cleared
  <2>2. Laid(cleared, base)
    BY <2>1, Kept
  <2> QED
    BY <2>2 DEF Laid
<1>6. set[l] = <<"headers", [c \in 0..(PerBlock - 1) |->
                 IF c = k THEN header ELSE HeaderIn(cleared[l], c)]>>
      /\ DOMAIN set = Blocks
  <2> HIDE DEF header
  <2> QED
    BY <1>1, <1>2, <1>4 DEF SetHeader
<1> HIDE DEF set, table
<1>7. m2[l] = set[l] /\ m2[TableOf(base, s)] = Command(Block(AHCI_BUFFER))
  BY <1>4, <1>5, <1>6
<1>8. HeaderIn(m2[l], k) = header
  <2> HIDE DEF m2, header
  <2> QED
    BY <1>3, <1>6, <1>7 DEF HeaderIn
<1>9. Header(m2, base, s) = [ctba |-> TableOf(base, s), cfl |-> 5, prdtl |-> 2]
  BY <1>1, <1>2, <1>5, <1>8 DEF Header
<1> QED
  BY <1>7, <1>9 DEF Written, set, table

\* With no command alive the first slot is free, if there is one at all.
LEMMA SlotFree ==
  ASSUME ncs \in 0..31, NEW p \in PortSet, ci[p] = {}
  PROVE  find_cmdslot(p) = -1 \/ find_cmdslot(p) \in 0..14
<1> DEFINE free == 0..((ncs % 16) - 1) \ ci[p]
<1>1. free \subseteq 0..14 /\ (free # {} => 0 \in free /\ \A x \in free : 0 <= x)
  <2>1. (ncs % 16) \in 0..15
    OBVIOUS
  <2> QED
    BY <2>1
<1> HIDE DEF free
<1>2. free # {} => Min(free) \in free
  BY <1>1 DEF Min
<1>3. find_cmdslot(p) = IF free = {} THEN -1 ELSE Min(free)
  BY DEF find_cmdslot, free
<1> QED
  BY <1>1, <1>2, <1>3

-----------------------------------------------------------------------------
(* The invariant *)

LEMMA InitInv == Init => AhciInv
<1> SUFFICES ASSUME Init PROVE AhciInv
  OBVIOUS
<1>1. Types
  BY AhciAssumption DEF Init, Types, Links, Running, PortSet, Walking
<1>2. Based
  BY DEF Init, Based, Rebasing, SetUp
<1>3. Stopped /\ OneCommand /\ Prepared /\ Answered
  BY DEF Init, Stopped, OneCommand, Prepared, Answered, Rebasing, SetUp
<1> QED
  BY <1>1, <1>2, <1>3 DEF AhciInv

\* An engine does only what it has been told.
LEMMA Engines ==
  ASSUME AhciInv, NEW p \in PortSet,
         EngineStarts(p) \/ EngineStops(p) \/ FisStarts(p) \/ FisStops(p)
  PROVE  AhciInv'
<1>1. /\ UNCHANGED <<driver, memory, ci, tfes, busy, link, ncs>>
      /\ cmd' \in [PortSet -> SUBSET Running]
      /\ \A q \in PortSet : /\ cmd'[q] \cap {"ST", "FRE"} = cmd[q] \cap {"ST", "FRE"}
                            /\ "CR" \in cmd'[q] => "CR" \in cmd[q] \/ "ST" \in cmd[q]
                            /\ "FR" \in cmd'[q] => "FR" \in cmd[q] \/ "FRE" \in cmd[q]
  <2>1. cmd \in [PortSet -> SUBSET Running]
    BY DEF AhciInv, Types
  <2>2. CASE EngineStarts(p)
    BY <2>1, <2>2 DEF EngineStarts, Running
  <2>3. CASE EngineStops(p)
    BY <2>1, <2>3 DEF EngineStops, Running
  <2>4. CASE FisStarts(p)
    BY <2>1, <2>4 DEF FisStarts, Running
  <2>5. CASE FisStops(p)
    BY <2>1, <2>5 DEF FisStops, Running
  <2> QED
    BY <2>2, <2>3, <2>4, <2>5
<1> USE DEF driver, memory
<1>2. Types'
  BY <1>1 DEF AhciInv, Types
<1>3. Based' /\ OneCommand'
  BY <1>1 DEF AhciInv, Based, OneCommand
<1>4. Stopped'
  <2>1. at \in {"stop", "FR", "CR", "lists", "start"} => i \in PortSet
    BY DEF AhciInv, Types, Walking
  <2> QED
    BY <1>1, <2>1 DEF AhciInv, Stopped
<1>5. Prepared' /\ Answered'
  BY <1>1 DEF AhciInv, Prepared, Answered
<1> QED
  BY <1>2, <1>3, <1>4, <1>5 DEF AhciInv

\* A FIS alone disturbs nothing.
LEMMA FisArrives ==
  ASSUME AhciInv, NEW p \in PortSet, NEW fis, mem' = [mem EXCEPT ![fb[p]] = fis],
         UNCHANGED <<driver, clb, fb, cmd, ci, tfes, link, ncs>>
  PROVE  AhciInv'
<1>1. /\ fb[p] \in {0, BaseOf(p) + 4} /\ mem = [b \in Blocks |-> mem[b]]
      /\ at \notin Walking => i \in PortSet
      /\ at \in {"ready", "wait", "again"} => slot \in 0..14
  BY DEF AhciInv, Types, Based
<1>2. /\ mem' = [b \in Blocks |-> mem'[b]]
      /\ \A q \in PortSet :
           /\ Laid(mem, BaseOf(q)) => Laid(mem', BaseOf(q))
           /\ \A s \in 0..14 : Written(mem, BaseOf(q), s) => Written(mem', BaseOf(q), s)
      /\ \A q : Identity(mem, q) => Identity(mem', q)
  <2>1. PICK x \in {0, BaseOf(p) + 4} : x = fb[p]
    BY <1>1
  <2>2. mem' = [mem EXCEPT ![x] = fis]
    BY <2>1
  <2> DEFINE m2 == [mem EXCEPT ![x] = fis]
  <2>3. /\ m2 = [b \in Blocks |-> m2[b]]
        /\ \A q \in PortSet :
             /\ Laid(mem, BaseOf(q)) => Laid(m2, BaseOf(q))
             /\ \A s \in 0..14 : Written(mem, BaseOf(q), s) => Written(m2, BaseOf(q), s)
        /\ \A q : Identity(mem, q) => Identity(m2, q)
    BY <1>1, FisHarmless, Zenon
  <2>4. mem' = m2
    BY <2>2
  <2> HIDE DEF m2
  <2> QED
    BY <2>3, <2>4
<1> USE DEF driver
<1>3. Types'
  BY <1>2 DEF AhciInv, Types
<1>4. Based' /\ Stopped' /\ OneCommand'
  BY DEF AhciInv, Based, Stopped, OneCommand
<1>5. Prepared'
  BY <1>1, <1>2 DEF AhciInv, Prepared, Walking
<1>6. Answered'
  BY <1>2 DEF AhciInv, Answered
<1> QED
  BY <1>3, <1>4, <1>5, <1>6 DEF AhciInv

\* The command that is executed is the one the main thread waits for.
LEMMA TheOne ==
  ASSUME AhciInv, NEW p \in PortSet, NEW s \in ci[p], ~ tfes[p]
  PROVE  at = "wait" /\ p = i /\ s = slot /\ ci[p] = {slot}
<1>1. ci[p] # {}
  OBVIOUS
<1>2. at \in Walking \cup {"reset"} \cup Rebasing
  BY DEF AhciInv, Types
<1>3. at = "wait"
  BY <1>1, <1>2 DEF AhciInv, OneCommand
<1> QED
  BY <1>1, <1>3 DEF AhciInv, OneCommand

LEMMA Executes ==
  ASSUME AhciInv, NEW p \in PortSet, Execute(p)
  PROVE  AhciInv'
<1> DEFINE posted == IF "FR" \in cmd[p] THEN [mem EXCEPT ![fb[p]] = <<"fis", p>>] ELSE mem
<1>1. PICK s \in ci[p] :
        LET table == Table(mem, clb[p], s) IN
        \/ /\ table[1] = "command" /\ Header(mem, clb[p], s).cfl > 0
           /\ mem' = [b \in Blocks |->
                        IF b \in table[2]..(table[2] + 1) THEN <<"identity", p>> ELSE posted[b]]
           /\ ci' = [ci EXCEPT ![p] = @ \ {s}]
           /\ UNCHANGED tfes
        \/ /\ mem' = posted
           /\ tfes' = [tfes EXCEPT ![p] = TRUE]
           /\ ci' \in {ci, [ci EXCEPT ![p] = @ \ {s}]}
  BY Zenon DEF Execute
<1>2. /\ at = "wait" /\ p = i /\ s = slot /\ ci[p] = {slot} /\ ~ tfes[p]
      /\ UNCHANGED <<driver, clb, fb, cmd, busy, link, ncs>>
  <2>1. ~ tfes[p] /\ UNCHANGED <<driver, clb, fb, cmd, busy, link, ncs>>
    BY DEF Execute
  <2> QED
    BY <2>1, TheOne
<1>3. /\ ci' \in {ci, [ci EXCEPT ![p] = @ \ {s}]} /\ tfes' \in {tfes, [tfes EXCEPT ![p] = TRUE]}
  BY <1>1
<1>4. mem' = [b \in Blocks |-> mem'[b]] /\ DOMAIN mem' = Blocks
  <2> HIDE DEF posted
  <2>1. CASE mem' = posted
    BY <2>1 DEF AhciInv, Types, posted
  <2> QED
    BY <1>1, <2>1
<1> USE DEF driver
<1>5. Types'
  <2>1. ci' \in [PortSet -> SUBSET (0..14)] /\ tfes' \in [PortSet -> BOOLEAN]
    BY <1>3 DEF AhciInv, Types
  <2> QED
    BY <1>2, <1>4, <2>1 DEF AhciInv, Types
<1>6. Based' /\ Stopped'
  BY <1>2 DEF AhciInv, Based, Stopped
<1>7. OneCommand'
  <2>1. ci \in [PortSet -> SUBSET (0..14)] /\ "wait" \notin Walking \cup {"reset"}
    BY DEF AhciInv, Types, Walking
  <2> QED
    BY <1>2, <1>3, <2>1 DEF AhciInv, OneCommand
<1>8. found # "yes"
  BY <1>2 DEF AhciInv, Answered, Walking
<1>9. /\ ci \in [PortSet -> SUBSET (0..14)] /\ tfes \in [PortSet -> BOOLEAN] /\ i \in PortSet
  BY <1>2 DEF AhciInv, Types
<1>10. slot \notin ci'[i] \/ tfes'[i]
  BY <1>1, <1>2, <1>9
<1>11. Prepared'
  BY <1>2, <1>10 DEF Prepared
<1>12. ASSUME ApartFromBuffer(i), ~ tfes'[i]
       PROVE  Identity(mem', i)
  <2>1. Written(mem, BaseOf(i), slot) /\ clb[i] = BaseOf(i)
    BY <1>2, <1>12 DEF AhciInv, Prepared, Based, SetUp
  <2>2. Table(mem, clb[i], slot) = <<"command", 128>>
    BY <2>1, MemoryPlaces DEF Written, Table, Command
  <2>3. mem' = [b \in Blocks |-> IF b \in 128..(128 + 1) THEN <<"identity", i>> ELSE posted[b]]
    <3> HIDE DEF posted
    <3>1. ~ (tfes' = [tfes EXCEPT ![p] = TRUE])
      BY <1>2, <1>9, <1>12
    <3> QED
      BY <1>1, <1>2, <2>2, <3>1
  <2>4. SectorBlocks \subseteq Blocks /\ SectorBlocks = 128..129
    <3>1. 0 \in 0..14
      OBVIOUS
    <3> QED
      BY <1>9, <3>1, Used, MemoryPlaces
  <2> HIDE DEF posted
  <2> QED
    BY <2>3, <2>4 DEF Identity
<1>13. Answered'
  BY <1>2, <1>8, <1>12 DEF Answered, ApartFromBuffer
<1> QED
  BY <1>5, <1>6, <1>7, <1>11, <1>13 DEF AhciInv

LEMMA Probes == ASSUME AhciInv, probe_port PROVE AhciInv'
<1> USE DEF probe_port, memory, hba, Walking
<1>1. Types'
  <2>1. at = "probe" /\ i \in 0..Ports /\ Ports \in 1..32
    BY AhciAssumption DEF AhciInv, Types
  <2>2. /\ UNCHANGED <<slot, mem, cmd, ci, tfes, ncs>> /\ at' \in {"probe", "done", "reset"}
        /\ i' \in 0..Ports /\ (at' = "reset" => i' \in PortSet)
        /\ found' \in {found, "unasked"}
    BY <2>1 DEF PortSet
  <2> QED
    BY <2>2 DEF AhciInv, Types, Rebasing, SetUp
<1>2. Based'
  BY DEF AhciInv, Based, Rebasing, SetUp
<1>3. Stopped' /\ OneCommand' /\ Prepared'
  BY DEF AhciInv, Stopped, OneCommand, Prepared, Rebasing, SetUp
<1>4. Answered'
  BY DEF AhciInv, Answered, ApartFromBuffer
<1> QED
  BY <1>1, <1>2, <1>3, <1>4 DEF AhciInv

\* HR: every engine is told to stop and no command is left.
LEMMA Rebases == ASSUME AhciInv, port_rebase PROVE AhciInv'
<1>1. /\ at = "reset" /\ at' = "stop" /\ i \in PortSet /\ i' = i /\ slot' = slot /\ found' = found
      /\ ncs' = ncs /\ UNCHANGED memory
      /\ portbase' = [portbase EXCEPT ![i] = IF @ = 0 THEN BaseOf(i) ELSE @]
  BY DEF AhciInv, Types, port_rebase, Walking
<1>2. /\ cmd' = [p \in PortSet |-> cmd[p] \ {"ST", "FRE"}]
      /\ ci' = [p \in PortSet |-> {}] /\ tfes' = [p \in PortSet |-> FALSE]
  BY DEF port_rebase, ControllerReset
<1> USE DEF memory, Walking, Rebasing, SetUp
<1>3. Types'
  BY <1>1, <1>2 DEF AhciInv, Types
<1>4. Based'
  <2>1. portbase'[i] = BaseOf(i) /\ portbase' \in [PortSet -> Int]
    BY <1>1, MemoryPlaces DEF AhciInv, Based
  <2>2. \A p \in PortSet : portbase'[p] \in {0, BaseOf(p)}
    BY <1>1, <2>1 DEF AhciInv, Based
  <2> QED
    BY <1>1, <2>1, <2>2 DEF AhciInv, Based
<1>5. Stopped' /\ OneCommand'
  BY <1>1, <1>2 DEF Stopped, OneCommand
<1>6. Prepared' /\ Answered'
  BY <1>1 DEF AhciInv, Prepared, Answered
<1> QED
  BY <1>3, <1>4, <1>5, <1>6 DEF AhciInv

\* stop_cmd() and its two waits.
LEMMA Stops == ASSUME AhciInv, stop_cmd \/ WaitFR \/ WaitCR PROVE AhciInv'
<1>1. /\ at \in {"stop", "FR", "CR"} /\ at' \in {"FR", "CR", "lists"} /\ i \in PortSet
      /\ UNCHANGED <<i, slot, portbase, found, memory, ci, tfes, link, ncs>>
      /\ cmd' \in [PortSet -> SUBSET Running] /\ cmd'[i] \subseteq cmd[i]
      /\ at' \in {"CR", "lists"} => "FR" \notin cmd[i]
      /\ at' = "lists" => "CR" \notin cmd[i]
  <2>1. cmd \in [PortSet -> SUBSET Running] /\ (at \notin Walking => i \in PortSet)
        /\ (at \in {"CR", "lists", "start"} => "FR" \notin cmd[i])
    BY DEF AhciInv, Types, Stopped
  <2>2. CASE stop_cmd
    BY <2>1, <2>2 DEF stop_cmd, Walking
  <2>3. CASE WaitFR
    BY <2>1, <2>3 DEF WaitFR, Walking, hba
  <2>4. CASE WaitCR
    BY <2>1, <2>4 DEF WaitCR, Walking
  <2> QED
    BY <2>2, <2>3, <2>4
<1> USE DEF memory, Walking, Rebasing, SetUp
<1>2. Types'
  BY <1>1 DEF AhciInv, Types
<1>3. Based' /\ OneCommand'
  BY <1>1 DEF AhciInv, Based, OneCommand
<1>4. Stopped'
  BY <1>1 DEF AhciInv, Stopped
<1>5. Prepared' /\ Answered'
  BY <1>1 DEF AhciInv, Prepared, Answered
<1> QED
  BY <1>2, <1>3, <1>4, <1>5 DEF AhciInv

LEMMA SetsLists == ASSUME AhciInv, SetLists PROVE AhciInv'
<1>1. /\ at = "lists" /\ at' = "start" /\ i \in PortSet
      /\ clb' = [clb EXCEPT ![i] = BaseOf(i)] /\ fb' = [fb EXCEPT ![i] = BaseOf(i) + 4]
      /\ mem' = ListsSet(mem, BaseOf(i))
      /\ UNCHANGED <<i, slot, portbase, found, hba, link, ncs>>
  BY DEF AhciInv, Types, Based, SetLists, Walking, Rebasing
<1>2. mem' = [b \in Blocks |-> mem'[b]] /\ Laid(mem', BaseOf(i))
  <2> DEFINE m2 == ListsSet(mem, BaseOf(i))
  <2>1. m2 = [b \in Blocks |-> m2[b]] /\ Laid(m2, BaseOf(i))
    BY <1>1, ListsLaid, Zenon
  <2>2. mem' = m2
    BY <1>1
  <2> HIDE DEF m2
  <2> QED
    BY <2>1, <2>2
<1> USE DEF hba, Walking, Rebasing, SetUp
<1>3. Types'
  BY <1>1, <1>2 DEF AhciInv, Types
<1>4. Based'
  BY <1>1, MemoryPlaces DEF AhciInv, Based
<1>5. Stopped' /\ OneCommand'
  BY <1>1 DEF AhciInv, Stopped, OneCommand
<1>6. Prepared' /\ Answered'
  BY <1>1, <1>2 DEF AhciInv, Prepared, Answered
<1> QED
  BY <1>3, <1>4, <1>5, <1>6 DEF AhciInv

LEMMA Starts == ASSUME AhciInv, start_cmd PROVE AhciInv'
<1>1. /\ at \in {"start", "ST"} /\ at' \in {"ST", "identify"} /\ i \in PortSet
      /\ cmd' \in [PortSet -> SUBSET Running]
      /\ UNCHANGED <<i, slot, portbase, found, memory, ci, tfes, busy, link, ncs>>
  BY DEF AhciInv, Types, start_cmd, Walking, Running
<1> USE DEF memory, Walking, Rebasing, SetUp
<1>2. Types'
  BY <1>1 DEF AhciInv, Types
<1>3. Based' /\ Stopped' /\ OneCommand'
  BY <1>1 DEF AhciInv, Based, Stopped, OneCommand
<1>4. Prepared' /\ Answered'
  BY <1>1 DEF AhciInv, Prepared, Answered
<1> QED
  BY <1>2, <1>3, <1>4 DEF AhciInv

LEMMA NextPort == ASSUME NEW p \in PortSet PROVE p + 1 \in 0..Ports
BY AhciAssumption DEF PortSet

LEMMA Identifies == ASSUME AhciInv, identify PROVE AhciInv'
<1> DEFINE s       == find_cmdslot(i)
           cleared == [b \in Blocks |-> IF b \in BufferBlocks THEN Zeros ELSE mem[b]]
           table   == Header(cleared, clb[i], s).ctba
           header  == [ctba |-> table, cfl |-> 5, prdtl |-> 2]
           written == [SetHeader(cleared, clb[i], s, header)
                         EXCEPT ![table] = Command(Block(AHCI_BUFFER))]
<1>1. /\ at = "identify" /\ i \in PortSet /\ tfes' = [tfes EXCEPT ![i] = FALSE]
      /\ tfes \in [PortSet -> BOOLEAN] /\ clb[i] = BaseOf(i)
      /\ \A p \in PortSet : ci[p] = {}
      /\ UNCHANGED <<portbase, clb, fb, cmd, ci, busy, link, ncs>>
  BY DEF AhciInv, Types, Based, OneCommand, identify, Walking, Rebasing, SetUp
<1>2. \/ /\ s = -1 /\ Return("no") /\ mem' = cleared /\ UNCHANGED slot
      \/ /\ s # -1 /\ slot' = s /\ at' = "ready" /\ UNCHANGED <<i, found>> /\ mem' = written
  BY Zenon DEF identify
<1>3. s = -1 \/ s \in 0..14
  BY <1>1, SlotFree DEF AhciInv, Types
<1>4. mem' = [b \in Blocks |-> mem'[b]] /\ DOMAIN mem' = Blocks
  <2>1. CASE mem' = cleared
    BY <2>1
  <2>2. CASE mem' = written
    <3> HIDE DEF header, table
    <3>1. DOMAIN cleared = Blocks
      OBVIOUS
    <3> HIDE DEF cleared, s
    <3> QED
      BY <2>2, <3>1 DEF SetHeader
  <2> QED
    BY <1>2, <2>1, <2>2
<1> HIDE DEF cleared, table, header, s
<1> USE DEF Walking, Rebasing, SetUp
<1>5. CASE s = -1
  <2>1. /\ at' = "probe" /\ i' = i + 1 /\ found' = "no" /\ slot' = slot
    BY <1>2, <1>5 DEF Return
  <2>2. Types'
    BY <1>1, <1>4, <2>1, NextPort DEF AhciInv, Types
  <2>3. Based'
    BY <1>1, <2>1 DEF AhciInv, Based
  <2>4. Stopped' /\ OneCommand'
    BY <1>1, <2>1 DEF Stopped, OneCommand
  <2>5. Prepared' /\ Answered'
    BY <2>1 DEF Prepared, Answered
  <2> QED
    BY <2>2, <2>3, <2>4, <2>5 DEF AhciInv
<1>6. CASE s # -1
  <2>1. slot' = s /\ slot' \in 0..14 /\ at' = "ready" /\ i' = i /\ found' = found /\ mem' = written
    BY <1>2, <1>3, <1>6
  <2>2. Types'
    BY <1>1, <1>4, <2>1 DEF AhciInv, Types
  <2>3. Based'
    BY <1>1, <2>1 DEF AhciInv, Based
  <2>4. Stopped' /\ OneCommand'
    BY <1>1, <2>1 DEF Stopped, OneCommand
  <2>5. ASSUME ApartFromBuffer(i)
        PROVE  Written(mem', BaseOf(i), slot')
    <3>1. Laid(mem, BaseOf(i))
      BY <1>1 DEF AhciInv, Prepared
    <3>2. Written(written, BaseOf(i), s)
      <4>1. s \in 0..14
        BY <2>1
      <4> QED
        BY <1>1, <2>5, <3>1, <4>1, CommandWritten, Zenon DEF cleared, table, header
    <3> QED
      BY <2>1, <3>2, Zenon
  <2>6. Prepared'
    <3>1. \A p : ApartFromBuffer(p)' <=> ApartFromBuffer(p)
      BY DEF ApartFromBuffer
    <3> HIDE DEF written
    <3> QED
      BY <2>1, <2>5, <3>1 DEF Prepared
  <2>7. Answered'
    BY <1>1, <2>1 DEF AhciInv, Answered
  <2> QED
    BY <2>2, <2>3, <2>4, <2>6, <2>7 DEF AhciInv
<1> QED
  BY <1>5, <1>6

LEMMA Issues == ASSUME AhciInv, Issue PROVE AhciInv'
<1>1. /\ at = "ready" /\ at' = "wait" /\ i \in PortSet /\ slot \in 0..14
      /\ ci' = [ci EXCEPT ![i] = @ \cup {slot}] /\ ci \in [PortSet -> SUBSET (0..14)]
      /\ \A p \in PortSet : ci[p] = {}
      /\ UNCHANGED <<i, slot, portbase, found, memory, cmd, tfes, busy, link, ncs>>
  BY DEF AhciInv, Types, OneCommand, Issue, Walking, Rebasing, SetUp
<1> USE DEF memory, Walking, Rebasing, SetUp
<1>2. Types'
  <2>1. ci' \in [PortSet -> SUBSET (0..14)]
    BY <1>1
  <2> QED
    BY <1>1, <2>1 DEF AhciInv, Types
<1>3. Based' /\ Stopped'
  BY <1>1 DEF AhciInv, Based, Stopped
<1>4. OneCommand'
  BY <1>1 DEF OneCommand
<1>5. Prepared' /\ Answered'
  BY <1>1 DEF AhciInv, Prepared, Answered, ApartFromBuffer
<1> QED
  BY <1>2, <1>3, <1>4, <1>5 DEF AhciInv

\* identify() returns false: whatever is left of its command is dead.
LEMMA GivesUp ==
  ASSUME AhciInv, at \in {"ready", "wait", "again"}, at = "wait" => tfes[i], Return("no"),
         UNCHANGED <<slot, portbase, memory, hba, link, ncs>>
  PROVE  AhciInv'
<1>1. at' = "probe" /\ i' = i + 1 /\ found' = "no" /\ i \in PortSet
  BY DEF AhciInv, Types, Return, Walking
<1> USE DEF memory, hba, Walking, Rebasing, SetUp
<1>2. Types'
  BY <1>1, NextPort DEF AhciInv, Types
<1>3. Based' /\ Stopped'
  BY <1>1 DEF AhciInv, Based, Stopped
<1>4. OneCommand'
  BY <1>1 DEF AhciInv, OneCommand
<1>5. Prepared' /\ Answered'
  BY <1>1 DEF Prepared, Answered
<1> QED
  BY <1>2, <1>3, <1>4, <1>5 DEF AhciInv

LEMMA Waits == ASSUME AhciInv, Wait PROVE AhciInv'
<1>1. at = "wait" /\ i \in PortSet /\ UNCHANGED <<slot, portbase, memory, hba, link, ncs>>
  BY DEF AhciInv, Types, Wait, Walking
<1>2. CASE slot \notin ci[i] /\ at' = "again" /\ UNCHANGED <<i, found>>
  <2> USE DEF memory, hba, Walking, Rebasing, SetUp
  <2>1. Types'
    BY <1>1, <1>2 DEF AhciInv, Types
  <2>2. Based' /\ Stopped'
    BY <1>1, <1>2 DEF AhciInv, Based, Stopped
  <2>3. OneCommand'
    BY <1>1, <1>2 DEF AhciInv, OneCommand
  <2>4. Prepared' /\ Answered'
    BY <1>1, <1>2 DEF AhciInv, Prepared, Answered, ApartFromBuffer
  <2> QED
    BY <2>1, <2>2, <2>3, <2>4 DEF AhciInv
<1>3. CASE tfes[i] /\ Return("no")
  BY <1>1, <1>3, GivesUp
<1> QED
  BY <1>2, <1>3 DEF Wait

LEMMA Checks == ASSUME AhciInv, CheckAgain PROVE AhciInv'
<1>1. /\ at = "again" /\ i \in PortSet /\ UNCHANGED <<slot, portbase, memory, hba, link, ncs>>
      /\ Return(IF tfes[i] THEN "no" ELSE "yes")
  BY DEF AhciInv, Types, CheckAgain, Walking
<1>2. CASE tfes[i]
  BY <1>1, <1>2, GivesUp
<1>3. CASE ~ tfes[i]
  <2>1. at' = "probe" /\ i' = i + 1 /\ found' = "yes" /\ i' - 1 = i
    BY <1>1, <1>3 DEF Return, PortSet
  <2> USE DEF memory, hba, Walking, Rebasing, SetUp
  <2>2. Types'
    BY <1>1, <2>1, NextPort DEF AhciInv, Types
  <2>3. Based' /\ Stopped'
    BY <1>1, <2>1 DEF AhciInv, Based, Stopped
  <2>4. OneCommand' /\ \A p \in PortSet : ci[p] = {}
    BY <1>1, <2>1 DEF AhciInv, OneCommand
  <2>5. Prepared'
    BY <2>1 DEF Prepared
  <2>6. Answered'
    <3>1. ApartFromBuffer(i) => Identity(mem, i)
      BY <1>1, <1>3, <2>4 DEF AhciInv, Answered
    <3>2. at' \in Walking /\ i' - 1 \in PortSet /\ mem' = mem
      BY <1>1, <2>1
    <3>3. ApartFromBuffer(i' - 1) => Identity(mem', i' - 1)
      BY <2>1, <3>1, <3>2
    <3> QED
      BY <2>1, <3>2, <3>3 DEF Answered, ApartFromBuffer
  <2> QED
    BY <2>2, <2>3, <2>4, <2>5, <2>6 DEF AhciInv
<1> QED
  BY <1>2, <1>3

LEMMA StepKeeps == AhciInv /\ [Next]_vars => AhciInv'
<1> SUFFICES ASSUME AhciInv, [Next]_vars PROVE AhciInv'
  OBVIOUS
<1>1. CASE probe_port
  BY <1>1, Probes
<1>2. CASE port_rebase
  BY <1>2, Rebases
<1>3. CASE stop_cmd \/ WaitFR \/ WaitCR
  BY <1>3, Stops
<1>4. CASE SetLists
  BY <1>4, SetsLists
<1>5. CASE start_cmd
  BY <1>5, Starts
<1>6. CASE identify
  BY <1>6, Identifies
<1>7. CASE Issue
  BY <1>7, Issues
<1>8. CASE Hung
  <2>1. at = "ready" /\ Return("no") /\ UNCHANGED <<slot, portbase, memory, hba, link, ncs>>
    BY <1>8 DEF Hung
  <2> QED
    BY <2>1, GivesUp
<1>9. CASE Wait
  BY <1>9, Waits
<1>10. CASE CheckAgain
  BY <1>10, Checks
<1>11. CASE Controller
  <2>1. PICK p \in PortSet :
          \/ EngineStarts(p) \/ EngineStops(p) \/ FisStarts(p) \/ FisStops(p)
          \/ Reports(p) \/ Execute(p)
    BY <1>11 DEF Controller
  <2>2. CASE EngineStarts(p) \/ EngineStops(p) \/ FisStarts(p) \/ FisStops(p)
    BY <2>2, Engines
  <2>3. CASE Reports(p)
    <3>1. mem' = [mem EXCEPT ![fb[p]] = <<"fis", p>>]
          /\ UNCHANGED <<driver, clb, fb, cmd, ci, tfes, link, ncs>>
      BY <2>3 DEF Reports
    <3> QED
      BY <3>1, FisArrives
  <2>4. CASE Execute(p)
    BY <2>4, Executes
  <2> QED
    BY <2>1, <2>2, <2>3, <2>4
<1>12. CASE UNCHANGED vars
  BY <1>12 DEF vars, driver, memory, hba, AhciInv, Types, Based, Stopped, OneCommand,
     Prepared, Answered, ApartFromBuffer
<1> QED
  BY <1>1, <1>2, <1>3, <1>4, <1>5, <1>6, <1>7, <1>8, <1>9, <1>10, <1>11, <1>12 DEF Next, Driver

-----------------------------------------------------------------------------
(* What it says *)

LEMMA Invariant == Spec => []AhciInv
BY InitInv, StepKeeps, PTL DEF Spec

LEMMA Fetched == AhciInv => FetchesTheCommand
<1> SUFFICES ASSUME AhciInv, NEW p \in PortSet, NEW s \in ci[p], ApartFromBuffer(p), ~ tfes[p]
             PROVE  /\ Header(mem, clb[p], s).cfl = 5 /\ Header(mem, clb[p], s).prdtl = 2
                    /\ Table(mem, clb[p], s) = Command(Block(AHCI_BUFFER))
  BY DEF FetchesTheCommand
<1>1. at = "wait" /\ p = i /\ s = slot
  BY TheOne
<1>2. Written(mem, BaseOf(i), slot) /\ clb[i] = BaseOf(i)
  BY <1>1 DEF AhciInv, Prepared, Based, SetUp
<1> QED
  BY <1>1, <1>2 DEF Written, Table

\* The controller never fetches a command identify() did not write: a command
\* that is issued and has not failed is found in the port's list, its table
\* filled and aimed at the buffer, whatever FISes arrive meanwhile and whatever
\* commands an earlier failure left in PxCI.
THEOREM FetchedAsWritten == Spec => []FetchesTheCommand
<1>1. AhciInv => FetchesTheCommand
  BY Fetched
<1> QED
  BY <1>1, Invariant, PTL

\* identify() returns true for a drive only when the buffer holds the identity
\* of that drive, and it stays there until the next port is looked at.
THEOREM AnswersAreTrue == Spec => []IdentityRead
<1>1. AhciInv => IdentityRead
  BY DEF AhciInv, Answered, IdentityRead, Identity
<1> QED
  BY <1>1, Invariant, PTL

\* PxCLB and PxFB are written only while the engine of the port has stopped,
\* however the firmware left it and however long it takes to stop.
THEOREM NeverUnderAnEngine == Spec => SetWhileStopped
<1> DEFINE Step == \A p \in PortSet : clb'[p] # clb[p] \/ fb'[p] # fb[p]
                                        => cmd[p] \cap {"CR", "FR"} = {}
<1>1. AhciInv /\ [Next]_vars => [Step]_vars
  <2> SUFFICES ASSUME AhciInv, Next, NEW p \in PortSet, clb'[p] # clb[p] \/ fb'[p] # fb[p]
               PROVE  cmd[p] \cap {"CR", "FR"} = {}
    OBVIOUS
  <2>1. CASE SetLists
    <3>1. /\ at = "lists" /\ clb' = [clb EXCEPT ![i] = portbase[i]]
          /\ fb' = [fb EXCEPT ![i] = portbase[i] + 4]
          /\ clb \in [PortSet -> Int] /\ fb \in [PortSet -> Int]
      BY <2>1 DEF SetLists, AhciInv, Based
    <3>2. p = i
      BY <3>1
    <3> QED
      BY <3>1, <3>2 DEF AhciInv, Stopped
  <2>2. CASE ~ SetLists
    <3>1. clb' = clb /\ fb' = fb
      BY <2>2 DEF Next, Driver, Controller, memory, hba, probe_port, port_rebase, stop_cmd,
         WaitFR, WaitCR, start_cmd, identify, Issue, Hung, Wait, CheckAgain,
         EngineStarts, EngineStops, FisStarts, FisStops, Reports, Execute
    <3> QED
      BY <3>1
  <2> QED
    BY <2>1, <2>2
<1>2. Spec => [][Step]_vars
  BY <1>1, Invariant, PTL DEF Spec
<1> QED
  BY <1>2 DEF SetWhileStopped

-----------------------------------------------------------------------------
(* The scan of the PCI buses *)

\* What the machine is made of.
MachineOK ==
  /\ DOMAIN machine.kind \subseteq Places
  /\ \A p \in DOMAIN machine.kind : machine.kind[p] \in Kinds
  /\ \A p \in DOMAIN machine.kind : IsBridge(p) => machine.secondary[p] \in Buses

\* A bus whose functions have all been visited, and the buses of which nothing is
\* left to visit, on them or behind them: the largest set of such buses that no
\* bridge leads out of.
Good(b) == \A p \in Places : Exists(p) /\ Bus(p) = b => visits[p] > 0
GoodSets == {C \in SUBSET Buses : Closed(C) /\ \A b \in C : Good(b)}
Complete == UNION GoodSets

Grows == machine' = machine /\ \A p \in Places : visits[p] > 0 => visits'[p] > 0

LEMMA NumberedIs ==
  ASSUME NEW S, Numbered(S)
  PROVE  \E n \in Nat : S = 0..n
  BY DEF Numbered

LEMMA OnwardIn ==
  ASSUME NEW B
  PROVE  /\ \A p \in Bridges : Bus(p) \in B => machine.secondary[p] \in Onward(B)
         /\ \A b \in Onward(B) : \E p \in Bridges :
              Bus(p) \in B /\ b = machine.secondary[p]
  BY DEF Onward

LEMMA CompleteIs ==
  /\ Complete \subseteq Buses /\ Closed(Complete)
  /\ \A b \in Complete : Good(b)
  /\ \A c \in Buses : Good(c) /\ Onward({c}) \subseteq Complete => c \in Complete
<1>1. Complete \subseteq Buses /\ \A b \in Complete : Good(b)
  BY DEF Complete, GoodSets
<1>2. Closed(Complete)
  <2>1. ASSUME NEW p \in Bridges, Bus(p) \in Complete
        PROVE  machine.secondary[p] \in Complete
    <3>1. PICK C \in GoodSets : Bus(p) \in C
      BY <2>1 DEF Complete
    <3>2. machine.secondary[p] \in C
      BY <3>1, OnwardIn DEF GoodSets, Closed
    <3> QED
      BY <3>2 DEF Complete
  <2> QED
    BY <2>1, OnwardIn DEF Closed
<1>3. ASSUME NEW c \in Buses, Good(c), Onward({c}) \subseteq Complete
      PROVE  c \in Complete
  <2> DEFINE C == Complete \cup {c}
  <2>1. Closed(C)
    <3>1. ASSUME NEW p \in Bridges, Bus(p) \in C
          PROVE  machine.secondary[p] \in C
      <4>1. CASE Bus(p) \in Complete
        BY <1>2, <4>1, OnwardIn DEF Closed
      <4>2. CASE Bus(p) \in {c}
        BY <1>3, <4>2, OnwardIn
      <4> QED
        BY <3>1, <4>1, <4>2
    <3> HIDE DEF C
    <3> QED
      BY <3>1, OnwardIn DEF Closed
  <2>2. C \in GoodSets
    BY <1>1, <1>3, <2>1 DEF GoodSets
  <2> QED
    BY <2>2 DEF Complete
<1> QED
  BY <1>1, <1>2, <1>3

LEMMA CompleteGrows ==
  ASSUME Grows
  PROVE  Complete \subseteq Complete'
<1>1. \A b : Good(b) => Good(b)'
  BY DEF Grows, Good, Exists, Present, Function, DeviceOf, Bus
<1>2. \A C : Closed(C) => Closed(C)'
  BY DEF Grows, Closed, Onward, Bridges, Exists, Present, Function,
         DeviceOf, Bus, IsBridge
<1>3. GoodSets \subseteq GoodSets'
  BY <1>1, <1>2 DEF GoodSets
<1> QED
  BY <1>3 DEF Complete

LEMMA BehindIn ==
  ASSUME NEW B, NEW C \in SUBSET Buses, Onward(B) \subseteq C, Closed(C)
  PROVE  Behind(B) \subseteq C
  BY DEF Behind

LEMMA ReachedIs ==
  ASSUME MachineOK, Layout
  PROVE  /\ Roots \subseteq Reached /\ Reached \subseteq Buses
         /\ \A p \in Bridges : Bus(p) \in Reached =>
              /\ machine.secondary[p] \in Reached
              /\ machine.secondary[p] \in Behind(Roots)
<1>1. Roots \subseteq Buses /\ Behind(Roots) \subseteq Buses
  BY DEF Roots, Layout, Behind
<1>2. ASSUME NEW p \in Bridges, Bus(p) \in Reached
      PROVE  machine.secondary[p] \in Behind(Roots)
  <2>1. machine.secondary[p] \in Buses
    BY DEF MachineOK, Bridges
  <2>2. ASSUME NEW C \in SUBSET Buses, Onward(Roots) \subseteq C, Closed(C)
        PROVE  machine.secondary[p] \in C
    <3>1. CASE Bus(p) \in Roots
      BY <2>2, <3>1, OnwardIn
    <3>2. CASE Bus(p) \in Behind(Roots)
      <4>1. Bus(p) \in C
        BY <2>2, <3>2, BehindIn
      <4> QED
        BY <2>2, <4>1, OnwardIn DEF Closed
    <3> QED
      BY <1>2, <3>1, <3>2 DEF Reached
  <2> QED
    BY <2>1, <2>2 DEF Behind
<1> QED
  BY <1>1, <1>2 DEF Reached

\* A function the scan has passed: it has been visited if it exists, and nothing is
\* left behind it if it is a bridge.
Through(p) ==
  Exists(p) =>
    visits[p] > 0 /\ (IsBridge(p) => machine.secondary[p] \in Complete)

\* A call of checkBus() has passed p.
Before(p, q) ==
  Bus(p) = Bus(q) /\ (p[2] < q[2] \/ (p[2] = q[2] /\ p[3] < q[3]))
Passed(p, f) == Before(p, f.at) \/ (p = f.at /\ f.todo = "next")

Frames == [at : Places, todo : {"device", "function", "finish", "next"}]

FrameOK(f) ==
  /\ Bus(f.at) \in Reached
  /\ Function(f.at) > 0 => DeviceOf(f.at) \in machine.multi
  /\ f.todo = "device" => Function(f.at) = 0
  /\ f.todo # "device" => Present(<<Bus(f.at), f.at[2], 0>>)
  /\ f.todo \in {"function", "finish"} => Present(f.at)
  /\ f.todo = "finish" => IsBridge(f.at)
  /\ \A p \in Places : Passed(p, f) => Through(p)

\* The stack: each call but the last waits for the bus behind the bridge it is at.
StackOK ==
  /\ stack \in Seq(Frames)
  /\ \A k \in 1..Len(stack) : FrameOK(stack[k])
  /\ \A k \in 1..(Len(stack) - 1) :
       /\ stack[k].todo = "finish"
       /\ Bus(stack[k + 1].at) = machine.secondary[stack[k].at]
  /\ Scanning /\ Top.todo = "finish" => machine.secondary[Place] \in Complete

LEMMA ThroughGrows ==
  ASSUME Grows, NEW p \in Places, Through(p)
  PROVE  Through(p)'
  BY CompleteGrows
  DEF Grows, Through, Exists, Present, Function, DeviceOf, IsBridge

\* What depends on the machine alone.
LEMMA MachineFixed ==
  ASSUME machine' = machine
  PROVE  /\ Reached' = Reached /\ Roots' = Roots /\ Bridges' = Bridges
         /\ Tree' = Tree /\ HostAnswers' = HostAnswers
         /\ MachineOK' = MachineOK
         /\ \A p : Present(p)' = Present(p) /\ Exists(p)' = Exists(p)
  BY DEF Reached, Roots, Behind, Closed, Onward, Bridges, Tree,
         HostAnswers, Present, Exists, Function, DeviceOf, IsBridge,
         Bus, MachineOK

LEMMA FrameGrows ==
  ASSUME Grows, NEW f, FrameOK(f)
  PROVE  FrameOK(f)'
<1>1. machine' = machine
  BY DEF Grows
<1>2. Reached' = Reached /\ \A p : Present(p)' = Present(p)
  BY <1>1, MachineFixed
<1>3. \A p \in Places : Passed(p, f) => Through(p)'
  BY ThroughGrows DEF FrameOK
<1>4. \A p \in Places : Passed(p, f)' = Passed(p, f)
  BY DEF Passed, Before, Bus
<1> QED
  BY <1>1, <1>2, <1>3, <1>4 DEF FrameOK, Bus, Function, DeviceOf, IsBridge

LEMMA TopIs ==
  ASSUME stack \in Seq(Frames), Scanning
  PROVE  /\ Len(stack) \in Nat \ {0} /\ Len(stack) \in 1..Len(stack) /\ 1 \in 1..Len(stack)
         /\ Top = stack[Len(stack)] /\ Top \in Frames
         /\ Place = Top.at /\ Place \in Places
<1>1. Len(stack) \in Nat \ {0} /\ Top = stack[Len(stack)]
  BY DEF Scanning, Top
<1>2. Top \in Frames
  BY <1>1
<1> QED
  BY <1>1, <1>2 DEF Place, Frames

\* What a step makes of the call at the bottom: it is still there, or its bus is done.
BottomKept ==
  IF Scanning' THEN Bus(stack'[1].at) = Bus(stack[1].at)
  ELSE Bus(stack[1].at) \in Complete'

LEMMA BecomesKeeps ==
  ASSUME StackOK, Scanning, Grows, NEW f \in Frames, FrameOK(f)', f.todo # "finish",
         Bus(f.at) = Bus(Place), Becomes(f)
  PROVE  StackOK' /\ BottomKept
<1> DEFINE n == Len(stack)
<1>1. n \in Nat \ {0} /\ stack \in Seq(Frames) /\ stack' = [stack EXCEPT ![n] = f]
      /\ Place = stack[n].at
  BY TopIs DEF StackOK, Becomes
<1>2. stack' \in Seq(Frames) /\ Len(stack') = n /\ stack' # <<>>
      /\ \A k \in 1..n : stack'[k] = IF k = n THEN f ELSE stack[k]
  BY <1>1
<1> HIDE DEF n
<1>3. ASSUME NEW k \in 1..n
      PROVE  FrameOK(stack[k])'
  <2>1. CASE k = n
    BY <1>2, <2>1 DEF FrameOK, Passed, Before
  <2>2. CASE k # n
    <3>1. FrameOK(stack[k])
      BY DEF StackOK, n
    <3>2. stack'[k] = stack[k]
      BY <1>2, <2>2
    <3> QED
      BY <3>1, <3>2, FrameGrows DEF FrameOK, Passed, Before
  <2> QED
    BY <2>1, <2>2
<1>4. ASSUME NEW k \in 1..(n - 1)
      PROVE  /\ stack'[k].todo = "finish"
             /\ Bus(stack'[k + 1].at) = machine'.secondary[stack'[k].at]
  <2>1. /\ stack[k].todo = "finish"
        /\ Bus(stack[k + 1].at) = machine.secondary[stack[k].at]
    BY DEF StackOK, n
  <2>2. k \in 1..n /\ k + 1 \in 1..n /\ k # n /\ (k + 1 = n \/ k + 1 # n)
    BY <1>1
  <2>3. stack'[k] = stack[k] /\ Bus(stack'[k + 1].at) = Bus(stack[k + 1].at)
    BY <1>1, <1>2, <2>2 DEF Bus
  <2> QED
    BY <2>1, <2>3 DEF Grows
<1>5. Scanning' /\ Top' = f
  BY <1>1, <1>2 DEF Scanning, Top
<1>6. StackOK'
  BY <1>2, <1>3, <1>4, <1>5 DEF StackOK, Bus
<1>7. Bus(stack'[1].at) = Bus(stack[1].at)
  BY <1>1, <1>2 DEF Bus
<1> QED
  BY <1>5, <1>6, <1>7 DEF BottomKept

LEMMA Popped ==
  ASSUME NEW S, NEW l \in Seq(S), l # <<>>
  PROVE  LET f == SubSeq(l, 1, Len(l) - 1) IN
         f \in Seq(S) /\ Len(f) = Len(l) - 1 /\ \A n \in 1..(Len(l) - 1) : f[n] = l[n]
<1> DEFINE f == SubSeq(l, 1, Len(l) - 1)
<1>1. Len(l) \in Nat /\ Len(l) >= 1
  BY EmptySeq
<1>2. \A n \in 1..(Len(l) - 1) : l[n] \in S
  BY <1>1
<1>3. 1 \in Int /\ Len(l) - 1 \in Int
  BY <1>1
<1>4. /\ f \in Seq(S)
      /\ Len(f) = IF 1 <= Len(l) - 1 THEN Len(l) - 1 - 1 + 1 ELSE 0
      /\ \A n \in 1..(Len(l) - 1 - 1 + 1) : f[n] = l[1 + n - 1]
  BY <1>2, <1>3, SubSeqProperties
<1> HIDE DEF f
<1>5. Len(f) = Len(l) - 1
  <2>1. \A x, y \in Nat : x >= 1 /\ y = (IF 1 <= x - 1 THEN x - 1 - 1 + 1 ELSE 0) => y = x - 1
    OBVIOUS
  <2>2. Len(f) \in Nat
    BY <1>4
  <2> QED
    BY <1>1, <1>4, <2>1, <2>2, Zenon
<1>6. ASSUME NEW n \in 1..(Len(l) - 1)
      PROVE  f[n] = l[n]
  <2>1. n \in 1..(Len(l) - 1 - 1 + 1) /\ 1 + n - 1 = n
    BY <1>1
  <2> QED
    BY <1>4, <2>1
<1> QED
  BY <1>4, <1>5, <1>6 DEF f

LEMMA PopKeeps ==
  ASSUME StackOK, Scanning, Grows, Bus(Place) \in Complete', Pop
  PROVE  StackOK' /\ BottomKept
<1> DEFINE n == Len(stack)
<1>1. n \in Nat \ {0} /\ stack \in Seq(Frames) /\ stack' = SubSeq(stack, 1, n - 1)
      /\ Place = stack[n].at
  BY TopIs DEF StackOK, Pop
<1>2. stack' \in Seq(Frames) /\ Len(stack') = n - 1
      /\ \A k \in 1..(n - 1) : stack'[k] = stack[k]
  <2>1. stack # <<>>
    BY DEF Scanning
  <2> QED
    BY <1>1, <2>1, Popped
<1>3. \A k \in 1..n : FrameOK(stack[k])
  BY DEF StackOK
<1>4. \A k \in 1..(n - 1) :
        /\ stack[k].todo = "finish"
        /\ Bus(stack[k + 1].at) = machine.secondary[stack[k].at]
  BY DEF StackOK
<1> HIDE DEF n
<1>5. ASSUME NEW k \in 1..(n - 1)
      PROVE  FrameOK(stack[k])'
  <2>1. k \in 1..n /\ stack'[k] = stack[k]
    BY <1>1, <1>2
  <2> QED
    BY <1>3, <2>1, FrameGrows DEF FrameOK, Passed, Before
<1>6. ASSUME NEW k \in 1..(n - 2)
      PROVE  /\ stack'[k].todo = "finish"
             /\ Bus(stack'[k + 1].at) = machine'.secondary[stack'[k].at]
  <2>1. k \in 1..(n - 1) /\ k + 1 \in 1..(n - 1)
    BY <1>1
  <2> QED
    BY <1>2, <1>4, <2>1 DEF Grows
<1>7. Scanning' => n # 1 /\ Place' = stack[n - 1].at
  BY <1>1, <1>2 DEF Scanning, Place, Top
<1>8. Scanning' => machine'.secondary[Place'] \in Complete'
  <2>1. n # 1 => n - 1 \in 1..(n - 1) /\ n - 1 + 1 = n
    BY <1>1
  <2>2. Scanning' => Bus(stack[n].at) = machine.secondary[stack[n - 1].at]
    BY <1>4, <1>7, <2>1
  <2> QED
    BY <1>1, <1>7, <2>2 DEF Grows
<1>9. StackOK'
  <2>1. n - 1 - 1 = n - 2
    BY <1>1
  <2> QED
    BY <1>2, <1>5, <1>6, <1>8, <2>1 DEF StackOK, Bus
<1>10. BottomKept
  <2>1. CASE n = 1
    <3>1. ~ Scanning' /\ stack[1].at = Place
      BY <1>1, <1>2, <2>1 DEF Scanning
    <3> QED
      BY <3>1 DEF BottomKept
  <2>2. CASE n # 1
    <3>1. Scanning' /\ stack'[1] = stack[1]
      BY <1>1, <1>2, <2>2 DEF Scanning
    <3> QED
      BY <3>1 DEF BottomKept, Bus
  <2> QED
    BY <2>1, <2>2
<1> QED
  BY <1>9, <1>10

\* When every function of a bus has been passed, nothing is left of it.
LEMMA BusDone ==
  ASSUME NEW b \in Buses, \A p \in Places : Bus(p) = b => Through(p), MachineOK
  PROVE  b \in Complete
<1>1. Good(b)
  BY DEF Good, Through
<1>2. Onward({b}) \subseteq Complete
  BY OnwardIn DEF Through, Bridges, MachineOK
<1> QED
  BY <1>1, <1>2, CompleteIs

\* The next device: all functions of this one have been passed.
LEMMA NextDeviceKeeps ==
  ASSUME Layout, MachineOK, StackOK, Scanning, machine' = machine, visits' = visits,
         \A p \in Places : DeviceOf(p) = DeviceOf(Place) => Through(p),
         NextDevice
  PROVE  StackOK' /\ BottomKept
<1> DEFINE q == Place
<1>1. Grows
  BY DEF Grows
<1>2. /\ q \in Places /\ Top \in Frames /\ Top.at = q
      /\ FrameOK(Top)
  BY TopIs DEF StackOK
<1>3. \A p \in Places :
        Bus(p) = Bus(q) /\ p[2] <= q[2] => Through(p)
  <2>1. ASSUME NEW p \in Places, Bus(p) = Bus(q), p[2] <= q[2]
        PROVE  Through(p)
    <3>1. p[2] \in Int /\ q[2] \in Int
      BY <1>2, NumberedIs DEF Places, Layout
    <3>2. CASE p[2] = q[2]
      BY <2>1, <3>2 DEF DeviceOf, Bus
    <3>3. CASE p[2] < q[2]
      BY <1>2, <2>1, <3>3 DEF FrameOK, Passed, Before
    <3> QED
      BY <2>1, <3>1, <3>2, <3>3
  <2> QED
    BY <2>1
<1>4. CASE q[2] + 1 \in Slots
  <2> DEFINE r == <<Bus(q), q[2] + 1, 0>>
             f == Frame(r, "device")
  <2>1. Becomes(f)
    BY <1>4 DEF NextDevice
  <2>2. r \in Places /\ 0 \in Functions
    BY <1>2, <1>4, NumberedIs DEF Places, Layout, Bus
  <2>3. f \in Frames /\ f.at = r /\ f.todo = "device"
    BY <2>2 DEF Frames, Frame
  <2>4. Bus(r) = Bus(q) /\ r[2] = q[2] + 1 /\ r[3] = 0
    BY DEF Bus
  <2> HIDE DEF f, r
  <2>5. ASSUME NEW p \in Places, Passed(p, f)
        PROVE  Through(p)
    <3>1. Bus(p) = Bus(q) /\ (p[2] < q[2] + 1 \/ (p[2] = q[2] + 1 /\ p[3] < 0))
      BY <2>3, <2>4, <2>5 DEF Passed, Before
    <3>2. p[2] \in Int /\ q[2] \in Int /\ p[3] \in Nat
      BY <1>2, NumberedIs DEF Places, Layout
    <3> QED
      BY <1>3, <3>1, <3>2
  <2>6. FrameOK(f)
    BY <1>2, <2>3, <2>4, <2>5 DEF FrameOK, Function
  <2> QED
    BY <1>1, <2>1, <2>3, <2>4, <2>6, FrameGrows, BecomesKeeps
<1>5. CASE q[2] + 1 \notin Slots
  <2>1. Pop
    BY <1>5 DEF NextDevice
  <2>2. ASSUME NEW p \in Places, Bus(p) = Bus(q)
        PROVE  Through(p)
    <3>1. PICK n \in Nat : Slots = 0..n
      BY NumberedIs DEF Layout
    <3>2. p[2] \in 0..n /\ q[2] \in 0..n /\ q[2] + 1 \notin 0..n
      BY <1>2, <1>5, <3>1 DEF Places
    <3>3. p[2] <= q[2]
      BY <3>2
    <3> QED
      BY <1>3, <2>2, <3>3
  <2>3. Bus(q) \in Buses
    BY <1>2 DEF Places, Bus
  <2>4. Bus(q) \in Complete
    BY <2>2, <2>3, BusDone
  <2> QED
    BY <1>1, <2>1, <2>4, CompleteGrows, PopKeeps
<1> QED
  BY <1>4, <1>5

ScanKept == StackOK' /\ BottomKept

LEMMA NoDeviceKeeps ==
  ASSUME Layout, MachineOK, StackOK, NoDevice
  PROVE  ScanKept
<1>1. /\ Scanning /\ Top.todo = "device" /\ ~Present(Place)
      /\ NextDevice /\ machine' = machine /\ visits' = visits
  BY DEF NoDevice, Doing
<1>2. FrameOK(Top) /\ Place = Top.at /\ Place \in Places
  BY <1>1, TopIs DEF StackOK
<1>3. ASSUME NEW p \in Places, DeviceOf(p) = DeviceOf(Place)
      PROVE  Through(p)
  <2>1. <<p[1], p[2], 0>> = Place
    BY <1>1, <1>2, <1>3 DEF FrameOK, Function, DeviceOf, Places
  <2> QED
    BY <1>1, <2>1 DEF Through, Exists
<1> QED
  BY <1>1, <1>3, NextDeviceKeeps DEF ScanKept

LEMMA ADeviceKeeps ==
  ASSUME Layout, MachineOK, StackOK, ADevice
  PROVE  ScanKept
<1> DEFINE f == Frame(Place, "function")
<1>1. /\ Scanning /\ Top.todo = "device" /\ Present(Place)
      /\ Becomes(f) /\ machine' = machine /\ visits' = visits
  BY DEF ADevice, Doing
<1>2. FrameOK(Top) /\ Place = Top.at /\ Place \in Places
  BY <1>1, TopIs DEF StackOK
<1>3. f \in Frames /\ f.at = Place /\ f.todo = "function"
  BY <1>2 DEF Frames, Frame
<1> HIDE DEF f
<1>4. FrameOK(f)
  <2>1. <<Bus(Place), Place[2], 0>> = Place
    BY <1>1, <1>2 DEF FrameOK, Function, Places, Bus
  <2> QED
    BY <1>1, <1>2, <1>3, <2>1 DEF FrameOK, Passed
<1>5. Grows
  BY <1>1 DEF Grows
<1> QED
  BY <1>1, <1>3, <1>4, <1>5, FrameGrows, BecomesKeeps DEF ScanKept

\* What has been passed with a frame that is at "next".
LEMMA ThroughHere ==
  ASSUME StackOK, Doing("next")
  PROVE  /\ FrameOK(Top) /\ Place = Top.at /\ Place \in Places
         /\ Scanning /\ Through(Place)
         /\ Present(<<Bus(Place), Place[2], 0>>)
<1>1. /\ FrameOK(Top) /\ Place = Top.at /\ Place \in Places
      /\ Scanning /\ Top.todo = "next"
  BY TopIs DEF StackOK, Doing
<1> QED
  BY <1>1 DEF FrameOK, Passed

LEMMA NextFunctionKeeps ==
  ASSUME Layout, MachineOK, StackOK, NextFunction
  PROVE  ScanKept
<1> DEFINE q == Place
           r == <<Bus(q), q[2], Function(q) + 1>>
           f == Frame(r, IF Present(r) THEN "function" ELSE "next")
<1>1. /\ Doing("next") /\ HasMore(q)
      /\ Becomes(f) /\ machine' = machine /\ visits' = visits
  BY DEF NextFunction
<1>2. /\ FrameOK(Top) /\ q = Top.at /\ q \in Places
      /\ Scanning /\ Through(q)
      /\ Present(<<Bus(q), q[2], 0>>)
  BY <1>1, ThroughHere
<1>3. r \in Places /\ f \in Frames /\ f.at = r
      /\ f.todo = IF Present(r) THEN "function" ELSE "next"
  BY <1>1, <1>2 DEF HasMore, Frames, Frame, Places, Bus
<1>4. Bus(r) = Bus(q) /\ r[2] = q[2] /\ r[3] = q[3] + 1 /\ DeviceOf(r) = DeviceOf(q)
  BY DEF Bus, DeviceOf, Function
<1> HIDE DEF f, r
<1>5. q[3] \in Nat /\ q[2] \in Nat
  BY <1>2, NumberedIs DEF Places, Layout
<1>6. ASSUME NEW p \in Places, Passed(p, f)
      PROVE  Through(p)
  <2>1. p[3] \in Nat /\ p[2] \in Nat
    BY NumberedIs DEF Places, Layout
  <2>2. CASE p = r /\ f.todo = "next"
    BY <1>3, <2>2 DEF Through, Exists
  <2>3. CASE Before(p, r)
    <3>1. Before(p, q) \/ (Bus(p) = Bus(q) /\ p[2] = q[2] /\ p[3] = q[3])
      BY <1>4, <1>5, <2>1, <2>3 DEF Before
    <3>2. (Bus(p) = Bus(q) /\ p[2] = q[2] /\ p[3] = q[3]) => p = q
      BY <1>2 DEF Bus, Places
    <3> QED
      BY <1>2, <3>1, <3>2 DEF FrameOK, Passed
  <2> QED
    BY <1>3, <1>6, <2>2, <2>3 DEF Passed
<1>7. DeviceOf(r) \in machine.multi
  <2>1. CASE Function(q) > 0
    BY <1>2, <1>4, <2>1 DEF FrameOK
  <2>2. CASE Function(q) = 0
    <3>1. Multi(q) /\ Present(q)
      BY <1>1, <1>2, <2>2 DEF HasMore, Places, Bus, Function
    <3> QED
      BY <1>4, <3>1 DEF Multi
  <2> QED
    BY <1>5, <2>1, <2>2 DEF Function
<1>8. FrameOK(f)
  <2>1. Bus(r) \in Reached
    BY <1>2, <1>4 DEF FrameOK
  <2>2. f.todo # "device" /\ f.todo # "finish" /\ (f.todo = "function" => Present(r))
    BY <1>3
  <2>3. Present(<<Bus(r), r[2], 0>>)
    BY <1>2, <1>4
  <2> QED
    BY <1>3, <1>6, <1>7, <2>1, <2>2, <2>3 DEF FrameOK
<1>9. Grows /\ f.todo # "finish"
  BY <1>1, <1>3 DEF Grows
<1> QED
  BY <1>1, <1>2, <1>3, <1>4, <1>8, <1>9, FrameGrows, BecomesKeeps DEF ScanKept

LEMMA LastFunctionKeeps ==
  ASSUME Layout, MachineOK, StackOK, LastFunction
  PROVE  ScanKept
<1> DEFINE q == Place
<1>1. /\ Doing("next") /\ ~HasMore(q)
      /\ NextDevice /\ machine' = machine /\ visits' = visits
  BY DEF LastFunction
<1>2. /\ FrameOK(Top) /\ q = Top.at /\ q \in Places
      /\ Scanning /\ Through(q)
      /\ Present(<<Bus(q), q[2], 0>>)
  BY <1>1, ThroughHere
<1>3. ASSUME NEW p \in Places, DeviceOf(p) = DeviceOf(q)
      PROVE  Through(p)
  <2>1. PICK n \in Nat : Functions = 0..n
    BY NumberedIs DEF Layout
  <2>2. p[3] \in 0..n /\ q[3] \in 0..n /\ p[1] = q[1] /\ p[2] = q[2]
    BY <1>2, <1>3, <2>1 DEF Places, DeviceOf
  <2>3. CASE p[3] < q[3]
    BY <1>2, <2>2, <2>3 DEF FrameOK, Passed, Before, Bus
  <2>4. CASE p[3] = q[3]
    <3>1. p = q
      BY <1>2, <2>2, <2>4 DEF Places
    <3> QED
      BY <1>2, <3>1
  <2>5. CASE p[3] > q[3]
    <3>1. q[3] + 1 \in Functions
      BY <2>1, <2>2, <2>5
    <3>2. q[3] = 0 /\ ~Multi(q)
      BY <1>1, <3>1 DEF HasMore, Function
    <3>3. ~Exists(p)
      BY <1>3, <2>2, <2>5, <3>2 DEF Exists, Function, Multi
    <3> QED
      BY <3>3 DEF Through
  <2> QED
    BY <2>2, <2>3, <2>4, <2>5
<1> QED
  BY <1>1, <1>2, <1>3, NextDeviceKeeps DEF ScanKept

\* The function a frame is at exists.
LEMMA ExistsHere ==
  ASSUME FrameOK(Top), Top.todo # "device", Present(Place),
         Layout, Place \in Places
  PROVE  Exists(Place) /\ Bus(Place) \in Reached
<1> DEFINE q == Place
<1>1. /\ Bus(q) \in Reached
      /\ Function(q) > 0 => DeviceOf(q) \in machine.multi
      /\ Present(<<q[1], q[2], 0>>)
  BY DEF FrameOK, Place, Bus
<1>2. Function(q) \in Nat
  BY NumberedIs DEF Places, Layout, Function
<1> QED
  BY <1>1, <1>2 DEF Exists

LEMMA BridgeKeeps ==
  ASSUME Layout, MachineOK, StackOK, Bridge
  PROVE  ScanKept
<1> DEFINE n == Len(stack)
           q == Place
           b == getSecondaryBus(q)
           f == Frame(q, "finish")
           g == First(b)
<1>1. /\ Scanning /\ Top.todo = "function" /\ IsBridge(q)
      /\ stack' = Append([stack EXCEPT ![n] = f], g)
      /\ machine' = machine /\ visits' = visits
  BY DEF Bridge, Doing
<1>2. /\ FrameOK(Top) /\ q = Top.at /\ q \in Places
      /\ n \in Nat \ {0} /\ stack \in Seq(Frames) /\ Top = stack[n]
  BY <1>1, TopIs DEF StackOK
<1>3. Exists(q) /\ Bus(q) \in Reached /\ q \in Bridges
  <2>1. Present(q)
    BY <1>1, <1>2 DEF FrameOK
  <2> QED
    BY <1>1, <1>2, <2>1, ExistsHere DEF Bridges, Present
<1>4. b = machine.secondary[q] /\ b \in Reached /\ b \in Buses
  BY <1>3, ReachedIs DEF getSecondaryBus
<1>5. f \in Frames /\ f.at = q /\ f.todo = "finish"
  BY <1>2 DEF Frames, Frame
<1>6. g \in Frames /\ g.at = <<b, 0, 0>> /\ g.todo = "device" /\ Bus(g.at) = b
  <2>1. 0 \in Slots /\ 0 \in Functions
    BY NumberedIs DEF Layout
  <2> QED
    BY <1>4, <2>1 DEF Frames, First, Frame, Places, Bus
<1> HIDE DEF f, g, b
<1>7. /\ stack' \in Seq(Frames) /\ Len(stack') = n + 1
      /\ \A k \in 1..n : stack'[k] = IF k = n THEN f ELSE stack[k]
      /\ stack'[n + 1] = g
  <2> DEFINE t == [stack EXCEPT ![n] = f]
  <2>1. t \in Seq(Frames) /\ Len(t) = n /\ \A k \in 1..n : t[k] = IF k = n THEN f ELSE stack[k]
    BY <1>2, <1>5
  <2>2. stack' = Append(t, g)
    BY <1>1
  <2> HIDE DEF t
  <2> QED
    BY <1>2, <1>6, <2>1, <2>2, AppendProperties
<1>8. Grows
  BY <1>1 DEF Grows
<1>9. FrameOK(f)
  BY <1>1, <1>2, <1>5 DEF FrameOK, Passed
<1>10. FrameOK(g)
  <2>1. ASSUME NEW p \in Places, Passed(p, g)
        PROVE  FALSE
    <3>1. p[2] \in Nat /\ p[3] \in Nat
      BY NumberedIs DEF Places, Layout
    <3> QED
      BY <1>6, <2>1, <3>1 DEF Passed, Before
  <2> QED
    BY <1>4, <1>6, <2>1 DEF FrameOK, Function
<1>11. \A k \in 1..n : FrameOK(stack[k])
  BY DEF StackOK
<1>12. \A k \in 1..(n - 1) :
        /\ stack[k].todo = "finish"
        /\ Bus(stack[k + 1].at) = machine.secondary[stack[k].at]
  BY DEF StackOK
<1> HIDE DEF n
<1>13. ASSUME NEW k \in 1..(n + 1)
       PROVE  FrameOK(stack[k])'
  <2>1. CASE k = n + 1
    BY <1>7, <1>8, <1>10, <2>1, FrameGrows DEF FrameOK, Passed, Before
  <2>2. CASE k = n
    <3>1. stack'[k] = f
      BY <1>2, <1>7, <2>2
    <3> QED
      BY <1>8, <1>9, <3>1, FrameGrows DEF FrameOK, Passed, Before
  <2>3. CASE k \in 1..(n - 1)
    <3>1. k \in 1..n /\ stack'[k] = stack[k]
      BY <1>2, <1>7, <2>3
    <3> QED
      BY <1>8, <1>11, <3>1, FrameGrows DEF FrameOK, Passed, Before
  <2> QED
    BY <1>2, <2>1, <2>2, <2>3
<1>14. ASSUME NEW k \in 1..n
       PROVE  /\ stack'[k].todo = "finish"
              /\ Bus(stack'[k + 1].at) = machine'.secondary[stack'[k].at]
  <2>1. CASE k = n
    BY <1>1, <1>2, <1>4, <1>5, <1>6, <1>7, <2>1
  <2>2. CASE k \in 1..(n - 1)
    <3>1. stack[k].todo = "finish" /\ Bus(stack[k + 1].at) = machine.secondary[stack[k].at]
      BY <1>12, <2>2
    <3>2. k \in 1..n /\ k + 1 \in 1..n /\ k # n
      BY <1>2, <2>2
    <3>3. stack'[k] = stack[k] /\ stack'[k + 1].at = stack[k + 1].at
      BY <1>2, <1>5, <1>7, <3>2
    <3> QED
      BY <1>1, <3>1, <3>3
  <2> QED
    BY <1>2, <2>1, <2>2
<1>15. Scanning' /\ Top'.todo = "device"
  BY <1>2, <1>6, <1>7 DEF Scanning, Top
<1>16. StackOK'
  <2>1. \A k \in 1..(Len(stack') - 1) : k \in 1..n
    BY <1>2, <1>7
  <2>2. \A k \in 1..(Len(stack') - 1) :
          /\ stack'[k].todo = "finish"
          /\ Bus(stack'[k + 1].at) = machine'.secondary[stack'[k].at]
    BY <1>14, <2>1
  <2>3. \A k \in 1..Len(stack') : FrameOK(stack[k])'
    BY <1>7, <1>13
  <2> QED
    BY <1>7, <1>15, <2>2, <2>3 DEF StackOK, Bus
<1>17. stack'[1].at = stack[1].at
  <2>1. 1 \in 1..n
    BY <1>2
  <2> QED
    BY <1>2, <1>5, <1>7, <2>1
<1> QED
  BY <1>15, <1>16, <1>17 DEF ScanKept, BottomKept, Bus

\* What the three ends of checkFunction() have in common.
FinishAny ==
  /\ Finishing /\ Visited(Place)
  /\ Becomes(Frame(Place, "next"))
  /\ machine' = machine /\ host' = host /\ function' = function

LEMMA FinishIs ==
  ASSUME Layout, StackOK, visits \in [Places -> Nat], FinishAny
  PROVE  /\ Scanning /\ FrameOK(Top) /\ Place = Top.at /\ Place \in Places
         /\ Exists(Place) /\ Bus(Place) \in Reached /\ Present(Place)
         /\ Top.todo \in {"function", "finish"}
         /\ IsBridge(Place) => machine.secondary[Place] \in Complete
         /\ visits' \in [Places -> Nat] /\ visits'[Place] = visits[Place] + 1
         /\ \A p \in Places \ {Place} : visits'[p] = visits[p]
         /\ Grows
<1>1. Scanning /\ (Top.todo = "finish" \/ (Top.todo = "function" /\ ~IsBridge(Place)))
  BY DEF FinishAny, Finishing, Doing
<1>2. FrameOK(Top) /\ Place = Top.at /\ Place \in Places
  BY <1>1, TopIs DEF StackOK
<1>3. Present(Place)
  BY <1>1, <1>2 DEF FrameOK
<1>4. IsBridge(Place) => machine.secondary[Place] \in Complete
  BY <1>1 DEF StackOK
<1>5. /\ visits' \in [Places -> Nat] /\ visits'[Place] = visits[Place] + 1
      /\ \A p \in Places \ {Place} : visits'[p] = visits[p]
  BY <1>2 DEF FinishAny, Visited
<1>6. Grows
  BY <1>5 DEF Grows, FinishAny
<1> QED
  BY <1>1, <1>2, <1>3, <1>4, <1>5, <1>6, ExistsHere

LEMMA FinishKeeps ==
  ASSUME Layout, StackOK, visits \in [Places -> Nat], FinishAny
  PROVE  ScanKept
<1> DEFINE q == Place
<1>1. /\ Scanning /\ FrameOK(Top) /\ q = Top.at /\ q \in Places
      /\ Exists(q) /\ Top.todo \in {"function", "finish"}
      /\ IsBridge(q) => machine.secondary[q] \in Complete
      /\ visits'[q] = visits[q] + 1 /\ Grows /\ visits \in [Places -> Nat]
  BY FinishIs
<1>0. PICK f : f = Frame(q, "next")
  OBVIOUS
<1>2. f \in Frames /\ f.at = q /\ f.todo = "next"
  BY <1>0, <1>1 DEF Frames, Frame
<1>3. Becomes(f)
  BY <1>0 DEF FinishAny
<1> HIDE DEF q
<1>4. Bus(f.at) = Bus(q)
  BY <1>2
<1>5. machine' = machine /\ Reached' = Reached /\ \A p : Present(p)' = Present(p)
  BY <1>1, MachineFixed DEF Grows
<1>6. (visits[q] + 1 > 0 /\ (IsBridge(q) => machine.secondary[q] \in Complete'))
  BY <1>1, CompleteGrows
<1>7. ASSUME NEW p \in Places, Passed(p, f)
      PROVE  Through(p)'
  <2>1. CASE p = q
    BY <1>1, <1>5, <1>6, <2>1 DEF Through, IsBridge
  <2>2. CASE Before(p, q)
    BY <1>1, <2>2, ThroughGrows DEF FrameOK, Passed
  <2> QED
    BY <1>2, <1>7, <2>1, <2>2 DEF Passed
<1>8. FrameOK(f)'
  BY <1>1, <1>2, <1>5, <1>7
  DEF FrameOK, Bus, Function, DeviceOf, Passed, Before
<1> QED
  BY <1>1, <1>2, <1>3, <1>4, <1>8, BecomesKeeps DEF ScanKept, q

Nowhere == \A p \in Places : visits[p] = 0

\* checkAllBuses(): what is done at each of its stages.
HostOK ==
  /\ function \in Int /\ host \in {"start", "single", "many", "done"}
  /\ host = "start" => stack = <<>> /\ function = -1 /\ Nowhere
  /\ host = "single" =>
       /\ ~Multi(<<0, 0, 0>>)
       /\ IF Scanning THEN Bus(stack[1].at) = 0 ELSE 0 \in Complete
  /\ host = "many" =>
       /\ function \in Functions /\ \A g \in 0..function : ~Present(<<0, 0, g>>)
       /\ Scanning => Bus(stack[1].at) = function
       /\ \A f \in 0..function : f < function \/ ~Scanning => f \in Complete
  /\ host = "done" =>
       /\ stack = <<>>
       /\ ~HostAnswers => Roots \subseteq Complete
       /\ HostAnswers => IF <<0, 0>> \in machine.multi THEN Nowhere ELSE 0 \in Complete

\* What is noted of the visits.
Noted ==
  /\ visits \in [Places -> Nat]
  /\ \A p \in Places : visits[p] > 0 => Exists(p) /\ Bus(p) \in Reached
  /\ started = VisitedOf("sata")
  /\ n8139device \in IF VisitedOf("nic") = {} THEN {None} ELSE VisitedOf("nic")

ScanInv == Layout /\ MachineOK /\ StackOK /\ HostOK /\ Noted

LEMMA HostWalks ==
  ASSUME ScanInv, Scanning, Grows, BottomKept, host' = host, function' = function
  PROVE  HostOK'
<1>1. host \in {"single", "many"}
  BY DEF ScanInv, HostOK, Scanning
<1>2. machine' = machine /\ \A p : Present(p)' = Present(p)
  BY MachineFixed DEF Grows
<1>3. CASE host = "single"
  BY <1>2, <1>3 DEF ScanInv, HostOK, BottomKept, Multi, DeviceOf, Bus
<1>4. CASE host = "many"
  <2>1. /\ function \in Functions /\ \A g \in 0..function : ~Present(<<0, 0, g>>)
        /\ Bus(stack[1].at) = function
        /\ \A f \in 0..function : f < function => f \in Complete
    BY <1>4 DEF ScanInv, HostOK
  <2>2. function \in Nat
    BY <2>1, NumberedIs DEF ScanInv, Layout
  <2>3. \A f \in 0..function : f < function => f \in Complete'
    BY <2>1, CompleteGrows
  <2>4. CASE Scanning'
    <3>1. Bus(stack'[1].at) = function
      BY <2>1, <2>4 DEF BottomKept
    <3> QED
      BY <1>2, <1>4, <2>1, <2>2, <2>3, <2>4, <3>1 DEF HostOK, Bus
  <2>5. CASE ~Scanning'
    <3>1. function \in Complete'
      BY <2>1, <2>5 DEF BottomKept
    <3>2. \A f \in 0..function : f \in Complete'
      BY <2>2, <2>3, <3>1
    <3> QED
      BY <1>2, <1>4, <2>1, <2>2, <2>5, <3>2 DEF HostOK
  <2> QED
    BY <2>4, <2>5
<1> QED
  BY <1>1, <1>3, <1>4

\* checkBus() is called for a root.
LEMMA BeginsAt ==
  ASSUME Layout, MachineOK, NEW b \in Roots, machine' = machine, stack' = <<First(b)>>
  PROVE  StackOK' /\ Scanning' /\ Bus(stack'[1].at) = b
<1>0. PICK g : g = First(b)
  OBVIOUS
<1>1. b \in Reached /\ b \in Buses /\ 0 \in Slots /\ 0 \in Functions
  BY ReachedIs, NumberedIs DEF Layout
<1>2. g \in Frames /\ g.at = <<b, 0, 0>> /\ g.todo = "device" /\ Bus(g.at) = b
  BY <1>0, <1>1 DEF Frames, First, Frame, Places, Bus
<1>3. stack' \in Seq(Frames) /\ Len(stack') = 1 /\ stack'[1] = g
  BY <1>0, <1>2
<1>4. Scanning' /\ Top'.todo = "device"
  BY <1>2, <1>3 DEF Scanning, Top
<1>5. FrameOK(g)'
  <2>1. ASSUME NEW p \in Places, Passed(p, g)
        PROVE  FALSE
    <3>1. p[2] \in Nat /\ p[3] \in Nat
      BY NumberedIs DEF Places, Layout
    <3> QED
      BY <1>2, <2>1, <3>1 DEF Passed, Before
  <2>2. Reached' = Reached
    BY MachineFixed
  <2> QED
    BY <1>1, <1>2, <2>1, <2>2 DEF FrameOK, Function, Bus, Passed, Before
<1>6. \A k \in 1..Len(stack') : FrameOK(stack[k])'
  BY <1>3, <1>5 DEF FrameOK, Passed, Before
<1>7. \A k \in 1..(Len(stack') - 1) : FALSE
  BY <1>3
<1> QED
  BY <1>2, <1>3, <1>4, <1>6, <1>7 DEF StackOK

LEMMA SameNoted ==
  ASSUME Noted, UNCHANGED <<machine, visits, started, n8139device>>
  PROVE  Noted'
<1>1. Reached' = Reached /\ \A p : Exists(p)' = Exists(p)
  BY MachineFixed
<1> QED
  BY <1>1 DEF Noted, VisitedOf, Bus

LEMMA SingleHostKeeps ==
  ASSUME ScanInv, SingleHost
  PROVE  ScanInv'
<1>1. /\ host = "start" /\ ~Multi(<<0, 0, 0>>) /\ host' = "single"
      /\ stack' = <<First(0)>>
      /\ UNCHANGED <<machine, function, n8139device, started, visits>>
  BY DEF SingleHost
<1>2. StackOK' /\ Scanning' /\ Bus(stack'[1].at) = 0
  <2>1. 0 \in Roots
    BY DEF Roots
  <2> QED
    BY <1>1, <2>1, BeginsAt DEF ScanInv
<1>3. MachineOK' /\ Noted' /\ Multi(<<0, 0, 0>>)' = Multi(<<0, 0, 0>>)
  BY <1>1, MachineFixed, SameNoted DEF ScanInv, Multi, DeviceOf
<1>4. HostOK'
  BY <1>1, <1>2, <1>3 DEF ScanInv, HostOK, Bus
<1> QED
  BY <1>2, <1>3, <1>4 DEF ScanInv

LEMMA ManyHostsKeeps ==
  ASSUME ScanInv, ManyHosts
  PROVE  ScanInv'
<1>1. /\ function' = function + 1
      /\ UNCHANGED <<machine, n8139device, started, visits>>
      /\ (host = "start" /\ Multi(<<0, 0, 0>>)) \/ (host = "many" /\ ~Scanning)
  BY DEF ManyHosts
<1>2. MachineOK' /\ Noted' /\ (\A p : Present(p)' = Present(p))
      /\ Roots' = Roots /\ HostAnswers' = HostAnswers
  BY <1>1, MachineFixed, SameNoted DEF ScanInv
<1>3. stack = <<>> /\ function \in Int /\ Grows /\ function + 1 \in Nat
  <2>1. host = "many" => function \in Nat
    BY NumberedIs DEF ScanInv, HostOK, Layout
  <2> QED
    BY <1>1, <2>1 DEF ScanInv, HostOK, Scanning, Grows
<1>4. /\ \A g \in 0..function : ~Present(<<0, 0, g>>)
      /\ \A f \in 0..function : f \in Complete'
  <2>1. CASE host = "start"
    <3>1. \A g \in 0..function : FALSE
      BY <2>1 DEF ScanInv, HostOK
    <3> QED
      BY <3>1
  <2>2. CASE host = "many"
    <3>1. /\ \A g \in 0..function : ~Present(<<0, 0, g>>)
          /\ \A f \in 0..function : f \in Complete
      BY <1>1, <2>2 DEF ScanInv, HostOK
    <3> QED
      BY <1>3, <3>1, CompleteGrows
  <2> QED
    BY <1>1, <2>1, <2>2
<1>5. CASE function' \in Functions /\ ~Present(<<0, 0, function'>>)
  <2>1. host' = "many" /\ stack' = <<First(function')>>
    BY <1>5 DEF ManyHosts
  <2>2. \A g \in 0..function' : ~Present(<<0, 0, g>>)
    <3>1. \A g \in 0..function' : g \in 0..function \/ g = function'
      BY <1>1, <1>3
    <3> QED
      BY <1>4, <1>5, <3>1
  <2>3. function' \in Roots
    BY <1>5, <2>2 DEF Roots
  <2>4. StackOK' /\ Scanning' /\ Bus(stack'[1].at) = function'
    <3>1. PICK b \in Roots : b = function'
      BY <2>3
    <3> QED
      BY <1>1, <2>1, <3>1, BeginsAt DEF ScanInv
  <2>5. \A f \in 0..function' : f < function' => f \in Complete'
    <3>1. \A f \in 0..function' : f < function' => f \in 0..function
      BY <1>1, <1>3
    <3> QED
      BY <1>4, <3>1
  <2>6. HostOK'
    BY <1>1, <1>2, <1>3, <1>5, <2>1, <2>2, <2>4, <2>5 DEF HostOK, Bus
  <2> QED
    BY <1>2, <2>4, <2>6 DEF ScanInv
<1>6. CASE ~(function' \in Functions /\ ~Present(<<0, 0, function'>>))
  <2>1. host' = "done" /\ stack' = stack
    BY <1>6 DEF ManyHosts
  <2>2. StackOK'
    <3>1. stack' = <<>> /\ Len(stack') = 0 /\ ~Scanning'
      BY <1>3, <2>1 DEF Scanning
    <3> QED
      BY <3>1 DEF StackOK
  <2>3. ASSUME ~HostAnswers
        PROVE  Roots \subseteq Complete'
    <3>1. 0 \in Functions /\ Functions \subseteq Nat
      BY NumberedIs DEF ScanInv, Layout
    <3>2. function + 1 # 0
      BY <1>1, <1>6, <2>3, <3>1 DEF HostAnswers
    <3>3. 0 \in 0..function
      BY <1>3, <3>2
    <3>4. ASSUME NEW f \in Functions, \A g \in 0..f : ~Present(<<0, 0, g>>)
          PROVE  f \in 0..function
      <4>1. f \in Nat
        BY <3>1
      <4>2. \E n \in Nat : Functions = 0..n
        BY NumberedIs DEF ScanInv, Layout
      <4>3. ~(function + 1 <= f)
        <5> SUFFICES ASSUME function + 1 <= f
                     PROVE  FALSE
          OBVIOUS
        <5>1. function' \in 0..f /\ function' \in Functions
          BY <1>1, <1>3, <4>1, <4>2
        <5> QED
          BY <1>6, <3>4, <5>1
      <4> QED
        BY <1>3, <4>1, <4>3
    <3> QED
      BY <1>4, <3>3, <3>4 DEF Roots
  <2>4. HostAnswers => <<0, 0>> \in machine.multi /\ Nowhere'
    <3> SUFFICES ASSUME HostAnswers
                 PROVE  <<0, 0>> \in machine.multi /\ Nowhere'
      OBVIOUS
    <3>1. host = "start"
      <4>1. host = "many" => function \in Nat /\ \A g \in 0..function : ~Present(<<0, 0, g>>)
        BY NumberedIs DEF ScanInv, HostOK, Layout
      <4>2. function \in Nat => 0 \in 0..function
        OBVIOUS
      <4> QED
        BY <1>1, <4>1, <4>2 DEF HostAnswers
    <3>2. <<0, 0>> \in machine.multi
      BY <1>1, <3>1 DEF HostAnswers, Multi, DeviceOf
    <3> QED
      BY <1>1, <3>1, <3>2 DEF ScanInv, HostOK, Nowhere
  <2>5. HostOK'
    BY <1>1, <1>2, <1>3, <2>1, <2>3, <2>4 DEF HostOK
  <2> QED
    BY <1>2, <2>2, <2>5 DEF ScanInv
<1> QED
  BY <1>5, <1>6

LEMMA EndedKeeps ==
  ASSUME ScanInv, Ended
  PROVE  ScanInv'
<1>1. /\ host = "single" /\ ~Scanning /\ host' = "done"
      /\ UNCHANGED <<machine, stack, function, n8139device, started, visits>>
  BY DEF Ended
<1>2. MachineOK' /\ Noted' /\ HostAnswers' = HostAnswers /\ Complete \subseteq Complete'
  BY <1>1, MachineFixed, SameNoted, CompleteGrows DEF ScanInv, Grows
<1>3. stack' = <<>> /\ HostAnswers /\ <<0, 0>> \notin machine.multi /\ 0 \in Complete
  BY <1>1 DEF ScanInv, HostOK, Scanning, Multi, DeviceOf, HostAnswers
<1>4. StackOK'
  <2>1. Len(stack') = 0 /\ ~Scanning'
    BY <1>3 DEF Scanning
  <2> QED
    BY <1>3, <2>1 DEF StackOK
<1>5. HostOK'
  BY <1>1, <1>2, <1>3 DEF ScanInv, HostOK
<1> QED
  BY <1>2, <1>4, <1>5 DEF ScanInv

Walks == NoDevice \/ ADevice \/ NextFunction \/ LastFunction \/ Bridge

LEMMA WalksKeep ==
  ASSUME ScanInv, Walks
  PROVE  ScanInv'
<1>1. ScanKept
  BY NoDeviceKeeps, ADeviceKeeps, NextFunctionKeeps, LastFunctionKeeps, BridgeKeeps
  DEF ScanInv, Walks
<1>2. Scanning /\ UNCHANGED <<machine, host, function, n8139device, started, visits>>
  BY DEF Walks, NoDevice, ADevice, NextFunction, LastFunction, Bridge,
         Doing
<1>3. MachineOK' /\ Noted'
  BY <1>2, MachineFixed, SameNoted DEF ScanInv
<1>4. HostOK'
  BY <1>1, <1>2, HostWalks DEF ScanKept, Grows
<1> QED
  BY <1>1, <1>3, <1>4 DEF ScanInv, ScanKept

LEMMA FinishesKeep ==
  ASSUME ScanInv, FinishCard \/ FinishSata \/ FinishOther
  PROVE  ScanInv'
<1> DEFINE q == Place
<1>1. FinishAny
  BY DEF FinishCard, FinishSata, FinishOther, FinishAny
<1>2. /\ Scanning /\ q \in Places /\ Present(q) /\ Grows
      /\ Exists(q) /\ Bus(q) \in Reached
      /\ visits' \in [Places -> Nat] /\ visits'[q] = visits[q] + 1
      /\ \A p \in Places \ {q} : visits'[p] = visits[p]
  BY <1>1, FinishIs DEF ScanInv, Noted
<1>3. ScanKept
  BY <1>1, FinishKeeps DEF ScanInv, Noted
<1>4. MachineOK' /\ machine' = machine
      /\ Reached' = Reached /\ \A p : Exists(p)' = Exists(p)
  BY <1>2, MachineFixed DEF ScanInv, Grows
<1>5. HostOK'
  BY <1>1, <1>2, <1>3, HostWalks DEF ScanKept, FinishAny
<1> HIDE DEF q
<1>6. \A kind : VisitedOf(kind)' =
        IF machine.kind[q] = kind THEN VisitedOf(kind) \cup {q} ELSE VisitedOf(kind)
  <2>1. q \in DOMAIN machine.kind /\ DOMAIN machine.kind \subseteq Places
    BY <1>2 DEF ScanInv, MachineOK, Present
  <2>2. visits'[q] > 0 /\ visits[q] \in Nat
    BY <1>2 DEF ScanInv, Noted
  <2> QED
    BY <1>2, <1>4, <2>1, <2>2 DEF VisitedOf
<1>7. \A p \in Places : visits'[p] > 0 => Exists(p)' /\ Bus(p) \in Reached'
  BY <1>2, <1>4 DEF ScanInv, Noted
<1>8. /\ started' = VisitedOf("sata")'
      /\ n8139device' \in IF VisitedOf("nic")' = {} THEN {None} ELSE VisitedOf("nic")'
  <2>1. /\ started = VisitedOf("sata")
        /\ n8139device \in IF VisitedOf("nic") = {} THEN {None} ELSE VisitedOf("nic")
    BY DEF ScanInv, Noted
  <2>2. CASE FinishCard
    <3>1. machine.kind[q] = "nic" /\ n8139device' = q /\ started' = started
      BY <2>2 DEF FinishCard, q
    <3> QED
      BY <1>6, <2>1, <3>1
  <2>3. CASE FinishSata
    <3>1. machine.kind[q] = "sata" /\ started' = started \cup {q} /\ n8139device' = n8139device
      BY <2>3 DEF FinishSata, q
    <3> QED
      BY <1>6, <2>1, <3>1
  <2>4. CASE FinishOther
    <3>1. machine.kind[q] \notin {"nic", "sata"} /\ UNCHANGED <<started, n8139device>>
      BY <2>4 DEF FinishOther, q
    <3> QED
      BY <1>6, <2>1, <3>1
  <2> QED
    BY <2>2, <2>3, <2>4
<1>9. Noted'
  BY <1>2, <1>7, <1>8 DEF Noted, Bus
<1> QED
  BY <1>3, <1>4, <1>5, <1>9 DEF ScanInv, ScanKept

LEMMA ScanBegins ==
  ASSUME Layout, ScanInit
  PROVE  ScanInv
<1>1. MachineOK
  <2>1. PICK P \in SUBSET Places : \E B \in SUBSET P :
          machine \in Machine(P, B) /\ B = {p \in P : machine.kind[p] = "bridge"}
    BY DEF ScanInit
  <2>2. PICK B \in SUBSET P :
          machine \in Machine(P, B) /\ B = {p \in P : machine.kind[p] = "bridge"}
    BY <2>1
  <2>3. machine.kind \in [P -> Kinds] /\ machine.secondary \in [B -> Buses]
    BY <2>2 DEF Machine
  <2> QED
    BY <2>2, <2>3 DEF MachineOK, IsBridge
<1>2. /\ stack = <<>> /\ host = "start" /\ function = -1 /\ n8139device = None
      /\ started = {} /\ visits = [p \in Places |-> 0]
  BY DEF ScanInit, Boot
<1>3. StackOK
  <2>1. Len(stack) = 0 /\ ~Scanning
    BY <1>2 DEF Scanning
  <2> QED
    BY <1>2, <2>1 DEF StackOK
<1>4. HostOK
  BY <1>2 DEF HostOK, Nowhere
<1>5. Noted
  <2>1. \A kind : VisitedOf(kind) = {}
    BY <1>1, <1>2 DEF VisitedOf, MachineOK
  <2> QED
    BY <1>2, <2>1 DEF Noted
<1> QED
  BY <1>1, <1>3, <1>4, <1>5 DEF ScanInv

LEMMA ScanKeeps ==
  ASSUME ScanInv, [Scan]_scanVars
  PROVE  ScanInv'
<1>1. CASE UNCHANGED scanVars
  <2>1. UNCHANGED <<machine, stack, host, function, n8139device, started, visits>>
    BY <1>1 DEF scanVars
  <2>2. MachineOK' /\ Noted' /\ HostAnswers' = HostAnswers /\ Complete' = Complete
        /\ Roots' = Roots
    BY <2>1, MachineFixed, SameNoted
    DEF ScanInv, Complete, GoodSets, Good, Closed, Onward, Bridges, Exists,
        Present, Function, DeviceOf, Bus, IsBridge
  <2>3. HostOK'
    BY <2>1, <2>2 DEF ScanInv, HostOK, Nowhere, Multi, Present, DeviceOf,
       Scanning, Bus
  <2>4. StackOK'
    <3>1. Grows
      BY <2>1 DEF Grows
    <3>2. \A k \in 1..Len(stack) : FrameOK(stack[k])'
      BY <2>1, <3>1, FrameGrows DEF ScanInv, StackOK, FrameOK, Passed, Before
    <3> QED
      BY <2>1, <2>2, <3>2 DEF ScanInv, StackOK, Scanning, Top, Place, Bus
  <2> QED
    BY <2>2, <2>3, <2>4 DEF ScanInv
<1> QED
  BY <1>1, SingleHostKeeps, ManyHostsKeeps, EndedKeeps, WalksKeep, FinishesKeep
  DEF Scan, Walks

LEMMA MissesNone ==
  ASSUME ScanInv
  PROVE  ScanMissesNone
<1> SUFFICES ASSUME host = "done", ~HostAnswers,
                    NEW p \in Places, Exists(p), Bus(p) \in Reached
             PROVE  visits[p] > 0
  BY DEF ScanMissesNone
<1>1. Roots \subseteq Complete
  BY DEF ScanInv, HostOK
<1>2. Onward(Roots) \subseteq Complete
  BY <1>1, CompleteIs, OnwardIn DEF Closed
<1>3. Behind(Roots) \subseteq Complete
  BY <1>2, CompleteIs, BehindIn
<1> QED
  BY <1>1, <1>3, CompleteIs DEF Reached, Good

-----------------------------------------------------------------------------
(* No function is visited twice *)

\* A bridge the scan has been behind, or is behind now.
Begun(q) == visits[q] > 0 \/ \E k \in 1..Len(stack) : stack[k] = Frame(q, "finish")

\* What a frame has not passed has not been visited.
Owed(f) ==
  \A p \in Places : Bus(p) = Bus(f.at) /\ ~Passed(p, f) => visits[p] = 0

\* The calls are for different buses, and a bus is visited from the one bridge before it.
Once ==
  /\ \A p \in Places : visits[p] <= 1
  /\ \A j, k \in 1..Len(stack) : Bus(stack[j].at) = Bus(stack[k].at) => j = k
  /\ \A k \in 1..Len(stack) : Owed(stack[k])
  /\ \A p \in Places : visits[p] > 0 /\ Bus(p) # 0 =>
       \E q \in Bridges : /\ Bus(q) \in Reached
                              /\ machine.secondary[q] = Bus(p) /\ Begun(q)

\* A step that only goes on: the calls are the same or end, and those that wait for
\* another go on waiting.
GoesOn ==
  /\ machine' = machine /\ visits' = visits
  /\ Len(stack') <= Len(stack)
  /\ \A k \in 1..Len(stack') :
       /\ Bus(stack'[k].at) = Bus(stack[k].at)
       /\ \A p \in Places : Passed(p, stack[k]) => Passed(p, stack'[k])
  /\ \A k \in 1..Len(stack) :
       stack[k].todo = "finish" => k \in 1..Len(stack') /\ stack'[k] = stack[k]

LEMMA OnceGoesOn ==
  ASSUME stack \in Seq(Frames), stack' \in Seq(Frames), Once, GoesOn
  PROVE  Once'
<1>1. /\ machine' = machine /\ visits' = visits
      /\ Bridges' = Bridges /\ Reached' = Reached
  BY MachineFixed DEF GoesOn
<1>2. Len(stack) \in Nat /\ Len(stack') \in Nat /\ \A k \in 1..Len(stack') : k \in 1..Len(stack)
  BY DEF GoesOn
<1>3. \A j, k \in 1..Len(stack') : Bus(stack'[j].at) = Bus(stack'[k].at) => j = k
  BY <1>2 DEF Once, GoesOn
<1>4. ASSUME NEW k \in 1..Len(stack')
      PROVE  Owed(stack[k])'
  <2>1. /\ Bus(stack'[k].at) = Bus(stack[k].at)
        /\ \A p \in Places : Passed(p, stack[k]) => Passed(p, stack'[k])
    BY DEF GoesOn
  <2>2. Owed(stack[k])
    BY <1>2 DEF Once
  <2> QED
    BY <1>1, <2>1, <2>2 DEF Owed, Passed, Before, Bus
<1>5. ASSUME NEW q, Begun(q)
      PROVE  Begun(q)'
  <2>1. CASE visits[q] > 0
    BY <1>1, <2>1 DEF Begun
  <2>2. CASE \E k \in 1..Len(stack) : stack[k] = Frame(q, "finish")
    <3>1. PICK k \in 1..Len(stack) : stack[k] = Frame(q, "finish")
      BY <2>2
    <3>2. k \in 1..Len(stack') /\ stack'[k] = Frame(q, "finish")
      BY <3>1 DEF GoesOn, Frame
    <3> QED
      BY <3>2 DEF Begun, Frame
  <2> QED
    BY <1>5, <2>1, <2>2 DEF Begun
<1>6. \A p \in Places : visits'[p] > 0 /\ Bus(p) # 0 =>
        \E q \in Bridges' : /\ Bus(q) \in Reached'
                                /\ machine'.secondary[q] = Bus(p) /\ Begun(q)'
  BY <1>1, <1>5 DEF Once
<1> QED
  BY <1>1, <1>3, <1>4, <1>6 DEF Once, Bus

LEMMA BecomesGoesOn ==
  ASSUME stack \in Seq(Frames), Scanning, NEW f \in Frames, Becomes(f),
         machine' = machine, visits' = visits, Top.todo # "finish",
         Bus(f.at) = Bus(Place),
         \A p \in Places : Passed(p, Top) => Passed(p, f)
  PROVE  GoesOn
<1> DEFINE n == Len(stack)
<1>1. n \in Nat \ {0} /\ stack' = [stack EXCEPT ![n] = f] /\ Place = stack[n].at
      /\ Top = stack[n]
  BY TopIs DEF Becomes
<1>2. Len(stack') = n /\ \A k \in 1..n : stack'[k] = IF k = n THEN f ELSE stack[k]
  BY <1>1
<1>3. \A k \in 1..n : stack[k].todo = "finish" => k # n
  BY <1>1
<1> HIDE DEF n
<1>4. ASSUME NEW k \in 1..n
      PROVE  /\ Bus(stack'[k].at) = Bus(stack[k].at)
             /\ \A p \in Places : Passed(p, stack[k]) => Passed(p, stack'[k])
  <2>1. CASE k = n
    BY <1>1, <1>2, <2>1
  <2>2. CASE k # n
    BY <1>2, <2>2
  <2> QED
    BY <2>1, <2>2
<1>5. Len(stack') <= n
  BY <1>1, <1>2
<1> QED
  BY <1>2, <1>3, <1>4, <1>5 DEF GoesOn, n

LEMMA PopGoesOn ==
  ASSUME stack \in Seq(Frames), Scanning, Pop,
         machine' = machine, visits' = visits, Top.todo # "finish"
  PROVE  GoesOn
<1> DEFINE n == Len(stack)
<1>1. n \in Nat \ {0} /\ Top = stack[n]
  BY TopIs
<1>2. Len(stack') = n - 1 /\ \A k \in 1..(n - 1) : stack'[k] = stack[k]
  BY Popped DEF Pop, Scanning
<1> HIDE DEF n
<1>3. \A k \in 1..n : stack[k].todo = "finish" => k \in 1..(n - 1)
  BY <1>1
<1>4. Len(stack') <= n
  BY <1>1, <1>2
<1> QED
  BY <1>2, <1>3, <1>4 DEF GoesOn, n

LEMMA WalksGoOn ==
  ASSUME ScanInv, Walks, ~Bridge
  PROVE  GoesOn
<1> DEFINE q == Place
<1>1. /\ Scanning /\ machine' = machine /\ visits' = visits
      /\ Top.todo \in {"device", "next"}
  BY DEF Walks, NoDevice, ADevice, NextFunction, LastFunction, Doing
<1>2. /\ stack \in Seq(Frames) /\ q \in Places /\ q = Top.at
      /\ q[2] \in Nat /\ q[3] \in Nat
  BY <1>1, TopIs, NumberedIs DEF ScanInv, StackOK, Places, Layout
<1>3. \A p \in Places : Passed(p, Top) => Before(p, q) \/ p = q
  BY <1>2 DEF Passed
<1>4. \A p \in Places : p[2] \in Nat /\ p[3] \in Nat
  BY NumberedIs DEF ScanInv, Places, Layout
<1>5. CASE NextDevice
  <2>1. CASE q[2] + 1 \in Slots
    <3>0. PICK f : f = Frame(<<Bus(q), q[2] + 1, 0>>, "device")
      OBVIOUS
    <3>1. f \in Frames /\ f.at = <<Bus(q), q[2] + 1, 0>>
      BY <1>2, <2>1, <3>0, NumberedIs
      DEF Frames, Frame, Places, Bus, ScanInv, Layout
    <3>2. Becomes(f)
      BY <1>5, <2>1, <3>0 DEF NextDevice
    <3>3. \A p \in Places : Passed(p, Top) => Passed(p, f)
      BY <1>2, <1>3, <1>4, <3>1 DEF Passed, Before, Bus
    <3>4. Bus(f.at) = Bus(q)
      BY <3>1 DEF Bus
    <3> QED
      BY <1>1, <1>2, <3>1, <3>2, <3>3, <3>4, BecomesGoesOn
  <2>2. CASE q[2] + 1 \notin Slots
    BY <1>1, <1>2, <1>5, <2>2, PopGoesOn DEF NextDevice
  <2> QED
    BY <2>1, <2>2
<1>6. CASE ADevice
  <2>0. PICK f : f = Frame(q, "function")
    OBVIOUS
  <2>1. f \in Frames /\ f.at = q /\ Becomes(f) /\ Top.todo = "device"
    BY <1>2, <1>6, <2>0 DEF Frames, Frame, ADevice, Doing
  <2>2. \A p \in Places : Passed(p, Top) => Passed(p, f)
    BY <1>2, <2>1 DEF Passed
  <2> QED
    BY <1>1, <1>2, <2>1, <2>2, BecomesGoesOn
<1>7. CASE NextFunction
  <2> DEFINE r == <<Bus(q), q[2], Function(q) + 1>>
  <2>0. PICK f : f = Frame(r, IF Present(r) THEN "function" ELSE "next")
    OBVIOUS
  <2>1. f \in Frames /\ f.at = r /\ Becomes(f)
    BY <1>2, <1>7, <2>0
    DEF Frames, Frame, NextFunction, HasMore, Places, Bus
  <2>2. \A p \in Places : Passed(p, Top) => Passed(p, f)
    BY <1>2, <1>3, <1>4, <2>1 DEF Passed, Before, Bus, Function
  <2>3. Bus(f.at) = Bus(q)
    BY <2>1 DEF Bus
  <2> QED
    BY <1>1, <1>2, <2>1, <2>2, <2>3, BecomesGoesOn
<1> QED
  BY <1>5, <1>6, <1>7 DEF Walks, NoDevice, LastFunction

\* A call that waits is at a bridge.
LEMMA WaitsAtBridge ==
  ASSUME ScanInv, NEW k \in 1..Len(stack), stack[k].todo = "finish"
  PROVE  /\ stack[k].at \in Bridges /\ Bus(stack[k].at) \in Reached
         /\ stack[k] = Frame(stack[k].at, "finish")
<1> DEFINE f == stack[k]
           q == f.at
<1>1. f \in Frames /\ FrameOK(f)
  BY DEF ScanInv, StackOK
<1>2. q \in Places /\ f = Frame(q, "finish")
  BY <1>1 DEF Frames, Frame
<1>3. /\ Bus(q) \in Reached /\ Present(q) /\ IsBridge(q)
      /\ Function(q) > 0 => DeviceOf(q) \in machine.multi
      /\ Present(<<q[1], q[2], 0>>)
  BY <1>1 DEF FrameOK, Bus
<1>4. Function(q) \in Nat
  BY <1>2, NumberedIs DEF ScanInv, Places, Layout, Function
<1>5. Exists(q)
  BY <1>3, <1>4 DEF Exists
<1> QED
  BY <1>2, <1>3, <1>5 DEF Bridges, Present

LEMMA OneRoot ==
  ASSUME ScanInv, Tree, HostAnswers
  PROVE  /\ Roots = {0}
         /\ \A p \in Bridges : Bus(p) \in Reached => machine.secondary[p] # 0
         /\ Scanning => Bus(stack[1].at) = 0
<1>1. ASSUME NEW f \in Functions, \A g \in 0..f : ~Present(<<0, 0, g>>)
      PROVE  FALSE
  <2>1. 0 \in 0..f
    BY NumberedIs DEF ScanInv, Layout
  <2> QED
    BY <1>1, <2>1 DEF HostAnswers
<1>2. Roots = {0}
  BY <1>1 DEF Roots
<1>3. \A p \in Bridges : Bus(p) \in Reached => machine.secondary[p] # 0
  BY <1>2, ReachedIs DEF ScanInv, Tree
<1>4. host # "many"
  BY <1>1 DEF ScanInv, HostOK
<1>5. Scanning => Bus(stack[1].at) = 0
  BY <1>4 DEF ScanInv, HostOK, Scanning
<1> QED
  BY <1>2, <1>3, <1>5

\* The bus behind a bridge the scan comes to is a new one.
LEMMA NewBus ==
  ASSUME ScanInv, Tree, HostAnswers, Once, Scanning, Top.todo = "function",
         Place \in Bridges
  PROVE  /\ \A k \in 1..Len(stack) : Bus(stack[k].at) # machine.secondary[Place]
         /\ \A p \in Places : Bus(p) = machine.secondary[Place] => visits[p] = 0
<1> DEFINE n == Len(stack)
           q == Place
           b == machine.secondary[q]
<1>1. /\ n \in Nat \ {0} /\ Top = stack[n] /\ q = stack[n].at /\ q \in Places
      /\ Bus(q) \in Reached /\ n \in 1..n
  BY TopIs DEF ScanInv, StackOK, FrameOK
<1>2. b # 0 /\ Bus(stack[1].at) = 0
  BY <1>1, OneRoot
<1>3. \A p \in Bridges : Bus(p) \in Reached /\ machine.secondary[p] = b => p = q
  BY <1>1 DEF Tree
<1>4. ASSUME NEW k \in 1..n, stack[k] = Frame(q, "finish")
      PROVE  FALSE
  <2>1. stack[k].at = q /\ stack[k].todo = "finish"
    BY <1>4 DEF Frame
  <2>2. k = n
    BY <1>1, <2>1 DEF Once
  <2> QED
    BY <1>1, <2>1, <2>2
<1>5. visits[q] = 0
  <2>1. q[2] \in Nat /\ q[3] \in Nat
    BY <1>1, NumberedIs DEF ScanInv, Places, Layout
  <2>2. ~Passed(q, Top)
    BY <1>1, <2>1 DEF Passed, Before
  <2> QED
    BY <1>1, <2>2 DEF Once, Owed
<1>6. ~Begun(q)
  BY <1>4, <1>5 DEF Begun
<1>7. ASSUME NEW k \in 1..n, Bus(stack[k].at) = b
      PROVE  FALSE
  <2>1. k - 1 \in 1..(n - 1) /\ k - 1 \in 1..n
    BY <1>1, <1>2, <1>7
  <2>2. stack[k - 1].todo = "finish" /\ Bus(stack[k - 1 + 1].at) = machine.secondary[stack[k - 1].at]
    BY <2>1 DEF ScanInv, StackOK
  <2>3. k - 1 + 1 = k
    BY <1>1
  <2>4. /\ stack[k - 1].at \in Bridges /\ Bus(stack[k - 1].at) \in Reached
        /\ stack[k - 1] = Frame(stack[k - 1].at, "finish")
    BY <2>1, <2>2, WaitsAtBridge
  <2>5. stack[k - 1].at = q
    BY <1>3, <1>7, <2>2, <2>3, <2>4
  <2> QED
    BY <1>4, <2>1, <2>4, <2>5
<1>8. ASSUME NEW p \in Places, Bus(p) = b
      PROVE  visits[p] = 0
  <2>1. visits[p] \in Nat
    BY DEF ScanInv, Noted
  <2>2. ~(visits[p] > 0)
    BY <1>2, <1>3, <1>6, <1>8 DEF Once
  <2> QED
    BY <2>1, <2>2
<1> QED
  BY <1>7, <1>8

LEMMA OnceBridge ==
  ASSUME ScanInv, Tree, HostAnswers, Once, Bridge
  PROVE  Once'
<1> DEFINE n == Len(stack)
           q == Place
           b == machine.secondary[q]
           f == Frame(q, "finish")
           g == First(b)
<1>1. /\ Scanning /\ Top.todo = "function" /\ IsBridge(q)
      /\ stack' = Append([stack EXCEPT ![n] = f], g)
      /\ machine' = machine /\ visits' = visits
  BY DEF Bridge, Doing, getSecondaryBus
<1>2. /\ FrameOK(Top) /\ q = Top.at /\ q \in Places
      /\ n \in Nat \ {0} /\ stack \in Seq(Frames) /\ Top = stack[n] /\ n \in 1..n
  BY <1>1, TopIs DEF ScanInv, StackOK
<1>3. q \in Bridges /\ Bus(q) \in Reached
  <2>1. Present(q)
    BY <1>1, <1>2 DEF FrameOK
  <2> QED
    BY <1>1, <1>2, <2>1, ExistsHere DEF ScanInv, Bridges, Present
<1>4. /\ \A k \in 1..n : Bus(stack[k].at) # b
      /\ \A p \in Places : Bus(p) = b => visits[p] = 0
      /\ b \in Buses
  BY <1>1, <1>3, NewBus, ReachedIs DEF ScanInv
<1>5. f \in Frames /\ f.at = q /\ f.todo = "finish" /\ g.at = <<b, 0, 0>> /\ g \in Frames
      /\ Bus(g.at) = b
  <2>1. 0 \in Slots /\ 0 \in Functions
    BY NumberedIs DEF ScanInv, Layout
  <2> QED
    BY <1>2, <1>4, <2>1 DEF Frames, First, Frame, Places, Bus
<1>6. /\ Len(stack') = n + 1
      /\ \A k \in 1..n : stack'[k] = IF k = n THEN f ELSE stack[k]
      /\ stack'[n + 1] = g
  <2> HIDE DEF f, g
  <2> DEFINE t == [stack EXCEPT ![n] = f]
  <2>1. t \in Seq(Frames) /\ Len(t) = n /\ \A k \in 1..n : t[k] = IF k = n THEN f ELSE stack[k]
    BY <1>2, <1>5
  <2>2. stack' = Append(t, g)
    BY <1>1
  <2> HIDE DEF t
  <2> QED
    BY <1>2, <1>5, <2>1, <2>2, AppendProperties
<1>7. \A p \in Places : Passed(p, Top) => Passed(p, f)
  BY <1>1, <1>2, <1>5 DEF Passed
<1>8. /\ \A j, k \in 1..n : Bus(stack[j].at) = Bus(stack[k].at) => j = k
      /\ \A k \in 1..n : Owed(stack[k])
  BY DEF Once
<1>9. f = Frame(q, "finish")
  OBVIOUS
<1> HIDE DEF n, b, f, g
<1>10. \A k \in 1..n : Bus(stack'[k].at) = Bus(stack[k].at)
  BY <1>2, <1>5, <1>6
<1>11. \A j, k \in 1..(n + 1) : Bus(stack'[j].at) = Bus(stack'[k].at) => j = k
  <2>1. \A k \in 1..(n + 1) : k \in 1..n \/ k = n + 1
    BY <1>2
  <2> QED
    BY <1>4, <1>5, <1>6, <1>8, <1>10, <2>1
<1>12. ASSUME NEW k \in 1..(n + 1)
       PROVE  Owed(stack[k])'
  <2>1. CASE k = n + 1
    BY <1>1, <1>4, <1>5, <1>6, <2>1 DEF Owed, Bus
  <2>2. CASE k \in 1..n
    <3>1. \A p \in Places : Passed(p, stack[k]) => Passed(p, stack'[k])
      BY <1>2, <1>6, <1>7, <2>2
    <3> QED
      BY <1>1, <1>8, <1>10, <2>2, <3>1 DEF Owed, Passed, Before, Bus
  <2> QED
    BY <1>2, <2>1, <2>2
<1>13. ASSUME NEW r, Begun(r)
       PROVE  Begun(r)'
  <2>1. CASE visits[r] > 0
    BY <1>1, <2>1 DEF Begun
  <2>2. CASE \E k \in 1..n : stack[k] = Frame(r, "finish")
    <3>1. PICK k \in 1..n : stack[k] = Frame(r, "finish")
      BY <2>2
    <3>2. k # n /\ k \in 1..(n + 1)
      BY <1>1, <1>2, <3>1 DEF Frame
    <3>3. stack'[k] = Frame(r, "finish")
      BY <1>6, <3>1, <3>2
    <3> QED
      BY <1>6, <3>2, <3>3 DEF Begun, Frame
  <2> QED
    BY <1>13, <2>1, <2>2 DEF Begun, n
<1>14. Bridges' = Bridges /\ Reached' = Reached
  BY <1>1, MachineFixed
<1>15. \A p \in Places : visits'[p] > 0 /\ Bus(p) # 0 =>
         \E r \in Bridges' : /\ Bus(r) \in Reached'
                                 /\ machine'.secondary[r] = Bus(p) /\ Begun(r)'
  BY <1>1, <1>13, <1>14 DEF Once
<1>16. \A p \in Places : visits'[p] <= 1
  BY <1>1 DEF Once
<1> QED
  BY <1>6, <1>11, <1>12, <1>15, <1>16 DEF Once, Bus

LEMMA OnceFinish ==
  ASSUME ScanInv, Tree, HostAnswers, Once, FinishAny
  PROVE  Once'
<1> DEFINE n == Len(stack)
           q == Place
<1>0. PICK f : f = Frame(q, "next")
  OBVIOUS
<1>1. /\ Scanning /\ q = Top.at /\ q \in Places
      /\ Bus(q) \in Reached /\ Top.todo # "next"
      /\ visits'[q] = visits[q] + 1 /\ \A p \in Places \ {q} : visits'[p] = visits[p]
      /\ machine' = machine
  BY FinishIs DEF ScanInv, Noted, Grows
<1>2. /\ n \in Nat \ {0} /\ n \in 1..n /\ stack \in Seq(Frames) /\ Top = stack[n]
      /\ q[2] \in Nat /\ q[3] \in Nat
  BY <1>1, TopIs, NumberedIs DEF ScanInv, StackOK, Places, Layout
<1>3. f \in Frames /\ f.at = q /\ f.todo = "next"
  BY <1>0, <1>1 DEF Frames, Frame
<1>4. stack' = [stack EXCEPT ![n] = f]
  BY <1>0 DEF FinishAny, Becomes
<1>5. Len(stack') = n /\ \A k \in 1..n : stack'[k] = IF k = n THEN f ELSE stack[k]
  BY <1>2, <1>3, <1>4
<1>6. /\ \A j, k \in 1..n : Bus(stack[j].at) = Bus(stack[k].at) => j = k
      /\ \A k \in 1..n : Owed(stack[k])
  BY DEF Once
<1>7. visits[q] = 0
  <2>1. ~Passed(q, Top)
    BY <1>1, <1>2 DEF Passed, Before
  <2> QED
    BY <1>1, <1>2, <1>6, <2>1 DEF Owed
<1>8. visits'[q] = 1 /\ \A p \in Places : p # q => visits'[p] = visits[p]
  BY <1>1, <1>7
<1>9. ASSUME NEW r \in Bridges, Begun(r)
      PROVE  Begun(r)'
  <2>1. r \in Places
    BY DEF Bridges, ScanInv, MachineOK
  <2>2. CASE r = q
    BY <1>8, <2>2 DEF Begun
  <2>3. CASE r # q /\ visits[r] > 0
    BY <1>8, <2>1, <2>3 DEF Begun
  <2>4. CASE r # q /\ \E k \in 1..n : stack[k] = Frame(r, "finish")
    <3>1. PICK k \in 1..n : stack[k] = Frame(r, "finish")
      BY <2>4
    <3>2. k # n
      BY <1>1, <1>2, <2>4, <3>1 DEF Frame
    <3> QED
      BY <1>5, <3>1, <3>2 DEF Begun, Frame
  <2> QED
    BY <1>9, <2>2, <2>3, <2>4 DEF Begun
<1>10. Bridges' = Bridges /\ Reached' = Reached
  BY <1>1, MachineFixed
<1>11. Bus(q) # 0 => \E r \in Bridges :
         Bus(r) \in Reached /\ machine.secondary[r] = Bus(q) /\ Begun(r)
  <2> SUFFICES ASSUME Bus(q) # 0
               PROVE  \E r \in Bridges :
                 Bus(r) \in Reached /\ machine.secondary[r] = Bus(q) /\ Begun(r)
    OBVIOUS
  <2>1. Bus(stack[1].at) = 0
    BY <1>1, OneRoot
  <2>2. n # 1
    BY <1>1, <1>2, <2>1
  <2>3. n - 1 \in 1..(n - 1) /\ n - 1 \in 1..n /\ n - 1 + 1 = n
    <3>1. \A k \in Nat \ {0} : k # 1 => k - 1 \in 1..(k - 1) /\ k - 1 \in 1..k /\ k - 1 + 1 = k
      OBVIOUS
    <3> QED
      BY <1>2, <2>2, <3>1
  <2>4. /\ stack[n - 1].todo = "finish"
        /\ Bus(stack[n - 1 + 1].at) = machine.secondary[stack[n - 1].at]
    BY <2>3 DEF ScanInv, StackOK
  <2>5. PICK k \in 1..n : k = n - 1
    BY <2>3
  <2>6. /\ stack[k].at \in Bridges /\ Bus(stack[k].at) \in Reached
        /\ stack[k] = Frame(stack[k].at, "finish")
    BY <2>4, <2>5, WaitsAtBridge
  <2>7. machine.secondary[stack[k].at] = Bus(q)
    BY <1>1, <1>2, <2>3, <2>4, <2>5
  <2> QED
    BY <2>6, <2>7 DEF Begun
<1> HIDE DEF n, q
<1>12. \A p \in Places : visits'[p] <= 1
  BY <1>8 DEF Once
<1>13. \A k \in 1..n : Bus(stack'[k].at) = Bus(stack[k].at)
  BY <1>1, <1>2, <1>3, <1>5
<1>14. ASSUME NEW k \in 1..n
       PROVE  Owed(stack[k])'
  <2>1. CASE k = n
    <3>1. ASSUME NEW p \in Places, Bus(p) = Bus(q), ~Passed(p, f)
          PROVE  visits'[p] = 0
      <4>1. p # q /\ ~Passed(p, Top)
        BY <1>1, <1>3, <3>1 DEF Passed
      <4>2. visits[p] = 0
        BY <1>1, <1>2, <1>6, <3>1, <4>1 DEF Owed
      <4> QED
        BY <1>8, <4>1, <4>2
    <3> QED
      BY <1>3, <1>5, <2>1, <3>1 DEF Owed, Passed, Before, Bus
  <2>2. CASE k # n
    <3>1. stack'[k] = stack[k] /\ Owed(stack[k]) /\ Bus(stack[k].at) # Bus(q)
      BY <1>1, <1>2, <1>5, <1>6, <2>2
    <3>2. \A p \in Places : Bus(p) = Bus(stack[k].at) => visits'[p] = visits[p]
      BY <1>8, <3>1
    <3> QED
      BY <3>1, <3>2 DEF Owed, Passed, Before, Bus
  <2> QED
    BY <2>1, <2>2
<1>15. ASSUME NEW p \in Places, visits'[p] > 0, Bus(p) # 0
       PROVE  \E r \in Bridges' : /\ Bus(r) \in Reached'
                                      /\ machine'.secondary[r] = Bus(p) /\ Begun(r)'
  <2>1. \E r \in Bridges :
          Bus(r) \in Reached /\ machine.secondary[r] = Bus(p) /\ Begun(r)
    <3>1. CASE p = q
      BY <1>11, <1>15, <3>1
    <3>2. CASE p # q
      BY <1>8, <1>15, <3>2 DEF Once
    <3> QED
      BY <3>1, <3>2
  <2>2. PICK r \in Bridges :
          Bus(r) \in Reached /\ machine.secondary[r] = Bus(p) /\ Begun(r)
    BY <2>1
  <2>3. Begun(r)'
    BY <1>9, <2>2
  <2> QED
    BY <1>1, <1>10, <2>2, <2>3
<1>16. \A j, k \in 1..n : Bus(stack'[j].at) = Bus(stack'[k].at) => j = k
  BY <1>6, <1>13
<1> QED
  BY <1>5, <1>12, <1>14, <1>15, <1>16 DEF Once, Bus

\* What holds of the scan where the firmware has numbered the buses as a tree.
TreeInv == Tree /\ HostAnswers => Once

LEMMA TreeKeeps ==
  ASSUME ScanInv, TreeInv, [Scan]_scanVars
  PROVE  TreeInv'
<1>0. machine' = machine
  BY DEF Scan, scanVars, SingleHost, ManyHosts, Ended, NoDevice, ADevice,
         NextFunction, LastFunction, Bridge, FinishCard, FinishSata,
         FinishOther
<1> SUFFICES ASSUME Tree, HostAnswers
             PROVE  Once'
  BY <1>0, MachineFixed DEF TreeInv
<1>1. Once
  BY DEF TreeInv
<1>2. stack \in Seq(Frames) /\ stack' \in Seq(Frames)
  BY ScanKeeps DEF ScanInv, StackOK
<1>3. CASE Bridge
  BY <1>1, <1>3, OnceBridge
<1>4. CASE Walks /\ ~Bridge
  BY <1>1, <1>2, <1>4, WalksGoOn, OnceGoesOn
<1>5. CASE FinishCard \/ FinishSata \/ FinishOther
  <2>1. FinishAny
    BY <1>5 DEF FinishCard, FinishSata, FinishOther, FinishAny
  <2> QED
    BY <1>1, <2>1, OnceFinish
<1>6. CASE SingleHost
  <2>0. PICK g : g = First(0)
    OBVIOUS
  <2>1. Nowhere /\ visits' = visits /\ stack' = <<g>>
    BY <1>6, <2>0 DEF SingleHost, ScanInv, HostOK
  <2>2. Len(stack') = 1 /\ stack'[1] = g /\ \A k \in 1..Len(stack') : k = 1
    BY <2>1
  <2>3. \A p \in Places : visits'[p] = 0
    BY <2>1 DEF Nowhere
  <2> QED
    BY <2>2, <2>3 DEF Once, Owed, Bus
<1>7. CASE ManyHosts \/ Ended \/ UNCHANGED scanVars
  <2>1. visits' = visits /\ stack' = stack
    <3>1. CASE ManyHosts
      <4>1. host = "start" /\ function' = 0
        <5>1. ~(host = "many")
          BY OneRoot DEF ScanInv, HostOK, Roots, HostAnswers, Layout
        <5> QED
          BY <3>1, <5>1 DEF ManyHosts, ScanInv, HostOK
      <4> QED
        BY <3>1, <4>1 DEF ManyHosts, HostAnswers
    <3> QED
      BY <1>7, <3>1 DEF Ended, scanVars
  <2>2. \A k \in 1..Len(stack) : stack'[k] = stack[k]
    BY <2>1
  <2>3. GoesOn
    BY <1>0, <1>2, <2>1 DEF GoesOn
  <2> QED
    BY <1>1, <1>2, <2>3, OnceGoesOn
<1> QED
  BY <1>3, <1>4, <1>5, <1>6, <1>7 DEF Scan, Walks

LEMMA FoundExactly ==
  ASSUME ScanInv, TreeInv
  PROVE  ScanExact
<1> SUFFICES ASSUME host = "done", Tree, HostAnswers
             PROVE  /\ \A p \in Places :
                         visits[p] = IF Exists(p) /\ Bus(p) \in Reached
                                        /\ <<0, 0>> \notin machine.multi
                                     THEN 1 ELSE 0
                    /\ started = VisitedOf("sata")
                    /\ n8139device \in IF VisitedOf("nic") = {} THEN {None}
                                       ELSE VisitedOf("nic")
  BY DEF ScanExact
<1>1. ASSUME NEW p \in Places
      PROVE  visits[p] = IF Exists(p) /\ Bus(p) \in Reached
                            /\ <<0, 0>> \notin machine.multi
                         THEN 1 ELSE 0
  <2>1. visits[p] \in Nat /\ visits[p] <= 1
    BY DEF ScanInv, Noted, TreeInv, Once
  <2>2. CASE <<0, 0>> \in machine.multi
    BY <2>2 DEF ScanInv, HostOK, Nowhere
  <2>3. CASE <<0, 0>> \notin machine.multi
    <3>1. Roots \subseteq Complete
      BY <2>3, OneRoot DEF ScanInv, HostOK
    <3>2. Onward(Roots) \subseteq Complete
      BY <3>1, CompleteIs, OnwardIn DEF Closed
    <3>3. Behind(Roots) \subseteq Complete
      BY <3>2, CompleteIs, BehindIn
    <3>4. CASE Exists(p) /\ Bus(p) \in Reached
      <4>1. visits[p] > 0
        BY <3>1, <3>3, <3>4, CompleteIs DEF Reached, Good
      <4>2. visits[p] = 1
        BY <2>1, <4>1
      <4> QED
        BY <2>3, <3>4, <4>2
    <3>5. CASE ~(Exists(p) /\ Bus(p) \in Reached)
      <4>1. ~(visits[p] > 0)
        BY <3>5 DEF ScanInv, Noted
      <4>2. visits[p] = 0
        BY <2>1, <4>1
      <4> QED
        BY <3>5, <4>2
    <3> QED
      BY <3>4, <3>5
  <2> QED
    BY <2>2, <2>3
<1> QED
  BY <1>1 DEF ScanInv, Noted

\* On a machine of any size, and however the bridges are nested, the scan ends with
\* each function that is there visited exactly once, its SATA controllers started
\* and a network card noted (pci.c: checkAllBuses(), checkBus(), checkDevice() and
\* checkFunction()).
THEOREM ScanFindsAll == Layout /\ ScanSpec => []ScanFinds
<1>1. Layout /\ ScanInit => ScanInv /\ TreeInv
  <2> SUFFICES ASSUME Layout, ScanInit
               PROVE  ScanInv /\ TreeInv
    OBVIOUS
  <2>1. stack = <<>> /\ Len(stack) = 0 /\ \A p \in Places : visits[p] = 0
    BY DEF ScanInit, Boot
  <2>2. Once
    BY <2>1 DEF Once
  <2> QED
    BY <2>2, ScanBegins DEF TreeInv
<1>2. ScanInv /\ TreeInv /\ [Scan]_scanVars => (ScanInv /\ TreeInv)'
  BY ScanKeeps, TreeKeeps
<1>3. ScanInv /\ TreeInv => ScanFinds
  BY FoundExactly, MissesNone DEF ScanFinds
<1> QED
  BY <1>1, <1>2, <1>3, PTL DEF ScanSpec

=============================================================================
