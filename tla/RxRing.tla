------------------------------- MODULE RxRing -------------------------------
(***************************************************************************)
(* The receive side of the RTL8139 driver of ScorchOS, src/rtl8139.c: the  *)
(* ring the chip fills by DMA, and rtl_irq_handler(), which empties it.    *)
(*                                                                         *)
(* The handler runs in two contexts: as the interrupt handler, and once    *)
(* more when init_rtl8139() calls it from the main thread, with interrupts *)
(* on.  The chip goes on receiving while either runs, so each access to a  *)
(* register of the chip, to bufferPtr and to the ring is an action.        *)
(*                                                                         *)
(* Offsets count the 4-byte units packets are aligned to.  The chip is     *)
(* external: it writes a packet, its header first, at CBA, past the end of *)
(* the ring if need be (RCR has WRAP set), when there is room up to CAPR.  *)
(***************************************************************************)
EXTENDS Integers, FiniteSets, Sequences

CONSTANTS
  RxSize,       \* units in the ring: RX_BUF_SIZE / 4
  Sizes,        \* the sizes of packets on this wire, header and alignment included
  MaxJunk,      \* the most units a header of junk can claim without being refused
  OtherBits,    \* the other status bits the chip raises in this instance
  PacketLimit,  \* bound of the model: how many packets ever come
  RaiseLimit    \* bound of the model: how many bits, but ROK, are ever raised

\* What the handler acknowledges; it has no code for LENCHG, TIMEO and SERR,
\* which its mask 0xE07F enables.
ErrorBits   == {"TER", "RER", "PUN", "RXOVW", "FOVW"}
UnknownBits == {"LENCHG", "TIMEO", "SERR"}
Bits == {"ROK", "TOK"} \cup ErrorBits \cup UnknownBits

ASSUME RingAssumption ==
  /\ RxSize \in Nat \ {0} /\ MaxJunk \in Nat \ {0} /\ PacketLimit \in Nat /\ RaiseLimit \in Nat
  /\ Sizes \subseteq 1..(RxSize - 1)
  /\ OtherBits \subseteq Bits \ {"ROK", "RXOVW"}

VARIABLES
  ring,        \* for each offset: the packet whose header is there, or Junk
  CBA,         \* the chip: where the next packet goes
  CAPR,        \* the chip: how far the driver has read
  ISR,         \* the chip: the status bits that are set
  raised,      \* external: the bits, but ROK, that have been raised
  bufferPtr,   \* where the driver reads next
  pc,          \* where each context is in rtl_irq_handler()
  status, end_ofs, read_ofs,   \* its locals, in each context
  received,    \* history: the sizes of the packets in the order they came
  consumed,    \* history: the packets recv_packet() was called for, until reentered
  late,        \* history: packets that came after CBA was read, before the ROK ack
  reentered    \* history: the interrupt came while main was in the handler

chip   == <<ring, CBA, received, raised, late>>
locals == <<status, end_ofs, read_ofs>>
vars   == <<chip, CAPR, ISR, bufferPtr, pc, locals, consumed, reentered>>

Contexts == {"main", "irq"}
Junk == 0
Out  == {"before", "done"}
Behind == {"pointer", "catchup", "read", "capr", "ack"}

\* The chip after its reset and once it receives: setting the receive configuration
\* (RCR, the last register before the mask) starts its ring anew, whatever was
\* written to CBA, which it ignores, and to CAPR before.
Init ==
  /\ ring = [o \in 0..(RxSize - 1) |-> Junk]
  /\ CBA = 0 /\ CAPR = 0 /\ ISR = {} /\ raised = {}
  /\ bufferPtr = 0
  /\ pc = [c \in Contexts |-> IF c = "main" THEN "before" ELSE "done"]
  /\ status = [c \in Contexts |-> {}]
  /\ end_ofs = [c \in Contexts |-> 0] /\ read_ofs = [c \in Contexts |-> 0]
  /\ received = <<>> /\ consumed = <<>> /\ late = {} /\ reentered = FALSE

-----------------------------------------------------------------------------
(* The chip *)

\* CAPR = CBA is an empty ring: the chip never fills it up to CAPR.
Room(size) == CAPR = CBA \/ size < (CAPR - CBA + RxSize) % RxSize

Receive(size) ==
  LET id == Len(received) + 1 IN
  /\ id <= PacketLimit /\ Room(size)
  /\ ring' = [o \in DOMAIN ring |->
               IF o = CBA THEN id
               ELSE IF o \in CBA..(CBA + size - 1) THEN Junk ELSE ring[o]]
  /\ CBA' = (CBA + size) % RxSize
  /\ received' = Append(received, size)
  /\ ISR' = ISR \cup {"ROK"}
  /\ late' = IF \E c \in Contexts : pc[c] \in Behind THEN late \cup {id} ELSE late
  /\ UNCHANGED <<CAPR, raised, bufferPtr, pc, locals, consumed, reentered>>

\* Each of these is raised once at most.
Raise(bit) ==
  /\ bit \notin raised /\ Cardinality(raised) < RaiseLimit
  /\ raised' = raised \cup {bit} /\ ISR' = ISR \cup {bit}
  /\ UNCHANGED <<ring, CBA, received, late, CAPR, bufferPtr, pc, locals, consumed, reentered>>

Chip ==
  \/ \E size \in Sizes : Receive(size)
  \/ (\E size \in Sizes : ~Room(size)) /\ Raise("RXOVW")
  \/ \E bit \in OtherBits : Raise(bit)

-----------------------------------------------------------------------------
(* rtl_irq_handler, in context c *)

Goto(c, place) == pc' = [pc EXCEPT ![c] = place]

\* The locals are gone when the handler returns.
Leave(c) ==
  /\ Goto(c, "done")
  /\ status' = [status EXCEPT ![c] = {}]
  /\ end_ofs' = [end_ofs EXCEPT ![c] = 0] /\ read_ofs' = [read_ofs EXCEPT ![c] = 0]

ReadStatus(c) ==
  /\ pc[c] = "status" /\ Goto(c, "sent")
  /\ status' = [status EXCEPT ![c] = ISR]
  /\ UNCHANGED <<chip, CAPR, ISR, bufferPtr, end_ofs, read_ofs, consumed, reentered>>

AckTOK(c) ==
  /\ pc[c] = "sent" /\ Goto(c, "body")
  /\ ISR' = ISR \ (status[c] \cap {"TOK"})
  /\ UNCHANGED <<chip, CAPR, bufferPtr, locals, consumed, reentered>>

\* Mutant: an underrun is reported but not acknowledged.
NoPacketForgets(c) ==
  /\ pc[c] = "body" /\ "ROK" \notin status[c]
  /\ ISR' = ISR \ (status[c] \cap (ErrorBits \ {"PUN"}))
  /\ Leave(c)
  /\ UNCHANGED <<chip, CAPR, bufferPtr, consumed, reentered>>

\* Mutant: everything is acknowledged, seen or not.
NoPacketAll(c) ==
  /\ pc[c] = "body" /\ "ROK" \notin status[c]
  /\ ISR' = {}
  /\ Leave(c)
  /\ UNCHANGED <<chip, CAPR, bufferPtr, consumed, reentered>>

\* Without ROK: the errors seen are acknowledged one by one.
NoPacket(c) ==
  /\ pc[c] = "body" /\ "ROK" \notin status[c]
  /\ ISR' = ISR \ (status[c] \cap ErrorBits)
  /\ Leave(c)
  /\ UNCHANGED <<chip, CAPR, bufferPtr, consumed, reentered>>

\* With ROK: CBA is read; errors wait for another interrupt, and the status is not
\* looked at again.
TakeEnd(c) ==
  /\ pc[c] = "body" /\ "ROK" \in status[c] /\ Goto(c, "pointer")
  /\ end_ofs' = [end_ofs EXCEPT ![c] = CBA] /\ status' = [status EXCEPT ![c] = {}]
  /\ UNCHANGED <<chip, CAPR, ISR, bufferPtr, read_ofs, consumed, reentered>>

\* Mutant: the case of a ring that has wrapped is forgotten.
TakePointerNoWrap(c) ==
  /\ pc[c] = "pointer" /\ Goto(c, "read")
  /\ read_ofs' = [read_ofs EXCEPT ![c] = bufferPtr]
  /\ UNCHANGED <<chip, CAPR, ISR, bufferPtr, status, end_ofs, consumed, reentered>>

TakePointer(c) ==
  /\ pc[c] = "pointer"
  /\ read_ofs' = [read_ofs EXCEPT ![c] = bufferPtr]
  /\ Goto(c, IF bufferPtr > end_ofs[c] THEN "catchup" ELSE "read")
  /\ UNCHANGED <<chip, CAPR, ISR, bufferPtr, status, end_ofs, consumed, reentered>>

More(c) == \/ pc[c] = "catchup" /\ read_ofs[c] < RxSize
           \/ pc[c] = "read" /\ read_ofs[c] < end_ofs[c]

\* recv_packet: the header says how far to go.  Memory that is no header can
\* say anything.
recv_packet(c) ==
  LET id == ring[read_ofs[c]] IN
  /\ More(c)
  /\ \E size \in IF id = Junk THEN 1..MaxJunk ELSE {received[id]} :
       read_ofs' = [read_ofs EXCEPT ![c] = @ + size]
  /\ consumed' = IF reentered THEN consumed ELSE Append(consumed, id)
  /\ UNCHANGED <<chip, CAPR, ISR, bufferPtr, pc, status, end_ofs, reentered>>

\* A length above 3000: wait(50000), and the same header again.  With
\* interrupts off no tick ever comes; in main the loop goes on.
TooBig ==
  /\ More("irq") /\ ring[read_ofs["irq"]] = Junk
  /\ Goto("irq", "hung")
  /\ UNCHANGED <<chip, CAPR, ISR, bufferPtr, locals, consumed, reentered>>

CaughtUp(c) ==
  /\ pc[c] = "catchup" /\ read_ofs[c] >= RxSize /\ Goto(c, "read")
  /\ read_ofs' = [read_ofs EXCEPT ![c] = @ - RxSize]
  /\ UNCHANGED <<chip, CAPR, ISR, bufferPtr, status, end_ofs, consumed, reentered>>

Store(c) ==
  /\ pc[c] = "read" /\ read_ofs[c] >= end_ofs[c] /\ Goto(c, "capr")
  /\ bufferPtr' = read_ofs[c]
  /\ UNCHANGED <<chip, CAPR, ISR, locals, consumed, reentered>>

\* The driver writes read_ofs - 0x10, to which the chip adds 0x10.
WriteCAPR(c) ==
  /\ pc[c] = "capr" /\ Goto(c, "ack")
  /\ CAPR' = read_ofs[c] % RxSize
  /\ UNCHANGED <<chip, ISR, bufferPtr, locals, consumed, reentered>>

AckROK(c) ==
  /\ pc[c] = "ack" /\ Leave(c)
  /\ ISR' = ISR \ {"ROK"}
  /\ UNCHANGED <<chip, CAPR, bufferPtr, consumed, reentered>>

rtl_irq_handler(c) ==
  \/ ReadStatus(c) \/ AckTOK(c) \/ NoPacket(c) \/ TakeEnd(c) \/ TakePointer(c)
  \/ recv_packet(c) \/ CaughtUp(c) \/ Store(c) \/ WriteCAPR(c) \/ AckROK(c)

-----------------------------------------------------------------------------
(* The contexts *)

\* The line of the chip is held while a bit is set; the gate keeps other
\* interrupts out until the handler is done.
Interrupt ==
  /\ ISR # {} /\ pc["irq"] = "done" /\ Goto("irq", "status")
  /\ reentered' = (reentered \/ pc["main"] \notin Out)
  /\ UNCHANGED <<chip, CAPR, ISR, bufferPtr, locals, consumed>>

\* init_rtl8139() ends with a call of the handler.
init_rtl8139 ==
  /\ pc["main"] = "before" /\ pc["irq"] = "done" /\ Goto("main", "status")
  /\ UNCHANGED <<chip, CAPR, ISR, bufferPtr, locals, consumed, reentered>>

Processor ==
  \/ Interrupt \/ rtl_irq_handler("irq") \/ TooBig
  \/ init_rtl8139
  \/ pc["irq"] = "done" /\ rtl_irq_handler("main")

Next == Chip \/ Processor

\* The processor runs; the wire owes nobody a packet.
Spec == Init /\ [][Next]_vars /\ WF_vars(Processor)

-----------------------------------------------------------------------------
(* Properties *)

\* The driver reads the packets the chip has put in the ring, each once and in
\* order, and never takes for a header what is none, whatever arrives while it
\* reads and wherever the ring wraps: unless the interrupt comes into the call
\* that init_rtl8139() makes.
ReadInOrder ==
  ~reentered =>
    /\ Len(consumed) <= Len(received)
    /\ \A n \in 1..Len(consumed) : consumed[n] = n

\* The check the handler makes itself ("READ != END"): the packets end exactly
\* where the chip's pointer was.
ReadMeetsEnd ==
  ~reentered => \A c \in Contexts : pc[c] = "capr" => read_ofs[c] = end_ofs[c]

\* The ring is read packet by packet up to the chip's pointer.
RingRead == ReadInOrder /\ ReadMeetsEnd

\* A packet that waits in the ring with no interrupt to come is one that came
\* between the handler's read of CBA and its acknowledgement of ROK.
OnlyLateLeft ==
  ~reentered /\ "ROK" \notin ISR /\ (\A c \in Contexts : pc[c] \in Out) =>
    \A id \in (Len(consumed) + 1)..Len(received) : id \in late

\* In the end the line is held exactly by the bits that were raised and that the
\* handler has no code for: every other one is acknowledged, also the errors that
\* come together with a packet and are left for another interrupt, and also while
\* such a bit keeps the line held and the handler is entered for ever.  Unless the
\* handler waits, interrupts off, over a header that is none.
InterruptsEnd ==
  <>[](pc["irq"] = "hung" \/ ISR = raised \cap UnknownBits)

=============================================================================
