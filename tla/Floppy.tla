------------------------------- MODULE Floppy -------------------------------
(***************************************************************************)
(* The floppy driver of ScorchOS, src/flpydsk.c and src/dma.c: the main    *)
(* thread drives the controller byte by byte, waits for its interrupt on   *)
(* the flag _FloppyDiskIRQ, and reads its results.                         *)
(*                                                                         *)
(* The controller is external: it takes the bytes of a command, works, and *)
(* raises IRQ 6; a seek may miss, a sector may be unreadable, and it may   *)
(* keep the driver's 500 polls waiting, once (a bound of the model).  The  *)
(* driver ignores which of the two the controller wants, to be written or  *)
(* to be read.  wait(20) for the motor is part of the step that sets it.   *)
(***************************************************************************)
EXTENDS Integers, Sequences, FiniteSets

CONSTANTS
  SectorsPerTrack,   \* FLPY_SECTORS_PER_TRACK
  Cylinders,         \* on the disk; it has two heads
  Retries            \* how often a seek or a calibration is tried: 10

ASSUME DiskAssumption ==
  SectorsPerTrack \in Nat \ {0} /\ Cylinders \in Nat \ {0} /\ Retries \in Nat \ {0}

VARIABLES
  op, at,       \* the operation of the driver, and where it is in it
  todo,         \* bytes of the command it has yet to send
  st,           \* the result bytes it has read
  tries,        \* attempts of the current seek or calibration
  lba,          \* the sector it was asked for
  flag,         \* _FloppyDiskIRQ
  dma,          \* the 8237, as far as channel 2 goes
  dor,          \* the controller: the bits of its output register
  fifo,         \* the controller: bytes of the command being received
  results,      \* the controller: bytes to be read
  working,      \* the controller: the command being executed, or <<>>
  sense,        \* the controller: an interrupt not asked about yet
  irq,          \* the controller: its interrupt line, not yet served
  track,        \* where the head is
  buffer,       \* what DMA_BUFFER holds: a sector <<cylinder, head, sector>>
  result,       \* history: what the last read_sector() returned
  error,        \* history: the last read printed an error
  passed,       \* history: "FLOPPY CALIBRATION PASS"
  timedOut      \* history: the 500 polls ran out

fdc    == <<dor, fifo, results, working, sense, irq, track, buffer>>
driver == <<op, at, todo, st, tries, lba, dma>>
told   == <<result, error, passed>>
vars   == <<driver, flag, fdc, told, timedOut>>

Lbas == 0..(Cylinders * 2 * SectorsPerTrack - 1)
Sectors == (0..(Cylinders - 1)) \X (0..1) \X (1..SectorsPerTrack)
NoSector == <<>>

\* The first bytes of the commands, and how many bytes follow them.
SPECIFY == 3
CALIBRATE == 7
SENSE == 8      \* FDC_CMD_CHECK_INT
SEEK == 15
READ == 230     \* FDC_CMD_READ_SECT, multitrack, skip, density
RESET == 256    \* no command, but the controller works on it
Opcodes == {SPECIFY, CALIBRATE, SENSE, SEEK, READ}
Args(opcode) == CASE opcode = SENSE -> 0 [] opcode = CALIBRATE -> 1
                  [] opcode \in {SPECIFY, SEEK} -> 2 [] opcode = READ -> 8

-----------------------------------------------------------------------------
(* dma.c, for channel 2 of the first controller *)

DMA_BUFFER == 4096
Channel == 2

\* The port writes a byte of the address or the count, low byte first.
WriteByte(d, field, byte) ==
  [d EXCEPT ![field] = IF d.flip = 0 THEN <<byte, @[2]>> ELSE <<@[1], byte>>,
            !.flip = 1 - d.flip]

\* dma_reset() writes to the master clear port.
dma_reset(d) == [d EXCEPT !.flip = 0, !.masked = TRUE]
\* Mutant: the channel's bit is written with the bit that sets the mask.
dma_mask_channel_set(d) == [d EXCEPT !.masked = TRUE]
\* 1 << (channel - 1) is 2 to the mask port: channel 2, mask bit clear.
dma_mask_channel(d) ==
  LET value == 2 ^ (Channel - 1) IN
  IF value % 4 = Channel THEN [d EXCEPT !.masked = (value \div 4) % 2 = 1] ELSE d
\* Called with 1, it does nothing; dma_unmask_all() reaches the second controller.
dma_reset_flipflop(d) == d
dma_unmask_all(d) == d
dma_set_address(d, low, high) == WriteByte(WriteByte(d, "address", low), "address", high)
dma_set_count(d, low, high) == WriteByte(WriteByte(d, "count", low), "count", high)
dma_set_read(d) == dma_unmask_all([dma_mask_channel(d) EXCEPT !.mode = "to memory"])

\* The page register is given byte 3 of the address.
dma_initialize_floppy(d, start, length) ==
  LET reset   == dma_reset_flipflop(dma_mask_channel(dma_reset(d)))
      placed  == dma_set_address(reset, start % 256, (start \div 256) % 256)
      paged   == dma_reset_flipflop([placed EXCEPT !.page = start \div 2 ^ 24])
      counted == dma_set_count(paged, (length - 1) % 256, ((length - 1) \div 256) % 256)
  IN  dma_unmask_all(dma_set_read(counted))

-----------------------------------------------------------------------------
(* The start: the BIOS has left the DMA controller in either phase *)

Init ==
  /\ op = "none" /\ at = "off" /\ todo = <<>> /\ st = <<>> /\ tries = 0 /\ lba = 0
  /\ flag = 0
  /\ dma \in {[flip |-> f, masked |-> TRUE, mode |-> "other", page |-> 0,
               address |-> <<0, 0>>, count |-> <<0, 0>>] : f \in {0, 1}}
  /\ dor = {} /\ fifo = <<>> /\ results = <<>> /\ working = <<>>
  /\ sense = FALSE /\ irq = FALSE /\ track \in 0..(Cylinders - 1)
  /\ buffer = NoSector
  /\ result = "none" /\ error = FALSE /\ passed = FALSE /\ timedOut = FALSE

-----------------------------------------------------------------------------
(* The controller *)

Complete ==
  /\ working # <<>> /\ working' = <<>>
  /\ irq' = (irq \/ "DMA" \in dor)
  /\ \/ working[1] = RESET /\ sense' = TRUE /\ UNCHANGED <<track, results, buffer>>
     \/ /\ working[1] = CALIBRATE /\ sense' = TRUE
        /\ track' \in {0, track}
        /\ UNCHANGED <<results, buffer>>
     \/ /\ working[1] = SEEK /\ sense' = TRUE
        /\ track' \in {working[3], track}
        /\ UNCHANGED <<results, buffer>>
     \/ /\ working[1] = READ /\ track = working[3] /\ dma.masked = FALSE
        /\ buffer' = <<working[3], working[4], working[5]>>
        /\ results' = <<0, 0, 0, working[3], working[4], working[5], 2>>
        /\ UNCHANGED <<sense, track>>
     \/ /\ working[1] = READ
        /\ results' = <<64, 4, 0, working[3], working[4], working[5], 2>>
        /\ UNCHANGED <<sense, track, buffer>>
  /\ UNCHANGED <<driver, flag, told, timedOut, dor, fifo>>

\* Bytes are taken only when no result waits; SENSE answers at once.
Accept(byte) ==
  LET got == Append(fifo, byte)
      full == got[1] \in Opcodes /\ Len(got) = Args(got[1]) + 1
  IN
  /\ UNCHANGED <<dor, irq, track, buffer>>
  /\ IF results # <<>> THEN UNCHANGED <<fifo, results, working, sense>>
     ELSE IF got[1] \notin Opcodes
     THEN results' = <<128>> /\ fifo' = <<>> /\ UNCHANGED <<working, sense>>
     ELSE IF ~full THEN fifo' = got /\ UNCHANGED <<results, working, sense>>
     ELSE /\ fifo' = <<>>
          /\ results' = IF got[1] # SENSE THEN <<>>
                        ELSE IF sense THEN <<32, track>> ELSE <<128>>
          /\ sense' = (sense /\ got[1] # SENSE)
          /\ working' = IF got[1] \in {CALIBRATE, SEEK, READ} THEN got ELSE <<>>

-----------------------------------------------------------------------------
(* The driver: bytes and interrupts *)

TimeOut == (working # <<>> \/ ~timedOut) /\ timedOut' = TRUE

flpydsk_send_command ==
  /\ todo # <<>> /\ todo' = Tail(todo)
  /\ \/ working = <<>> /\ Accept(Head(todo)) /\ UNCHANGED timedOut
     \/ TimeOut /\ UNCHANGED fdc
  /\ UNCHANGED <<op, at, st, tries, lba, dma, flag, told>>

\* Reading a controller that has nothing to say gives any byte.
flpydsk_read_data ==
  /\ todo = <<>>
  /\ \/ at = "results" /\ Len(st) < 7
     \/ at = "sensing" /\ Len(st) < 2
  /\ \/ /\ working = <<>> /\ results # <<>>
        /\ st' = Append(st, Head(results)) /\ results' = Tail(results)
        /\ UNCHANGED timedOut
     \/ /\ working = <<>> /\ results = <<>>
        /\ \E byte \in {0, 255} : st' = Append(st, byte)
        /\ UNCHANGED <<results, timedOut>>
     \/ TimeOut /\ st' = Append(st, 0) /\ UNCHANGED results
  /\ UNCHANGED <<op, at, todo, tries, lba, dma, flag, told>>
  /\ UNCHANGED <<dor, fifo, working, sense, irq, track, buffer>>

i86_flpy_irq ==
  /\ irq /\ irq' = FALSE /\ flag' = 1
  /\ UNCHANGED <<driver, told, timedOut, dor, fifo, results, working, sense, track, buffer>>

\* Mutant: the flag is cleared before the wait.
flpydsk_wait_irq_clears ==
  /\ todo = <<>> /\ UNCHANGED <<op, todo, st, tries, lba, dma, told, fdc, timedOut>>
  /\ \/ at = "wait" /\ at' = "clear" /\ flag' = 0
     \/ at = "clear" /\ flag # 0 /\ UNCHANGED flag
        /\ at' = IF op = "read" THEN "results" ELSE "sense"

\* Mutant: the flag is not cleared.
flpydsk_wait_irq_keeps ==
  /\ todo = <<>> /\ UNCHANGED <<op, todo, st, tries, lba, dma, told, fdc, timedOut>>
  /\ \/ at = "wait" /\ flag # 0 /\ at' = "clear" /\ UNCHANGED flag
     \/ at = "clear" /\ UNCHANGED flag
        /\ at' = IF op = "read" THEN "results" ELSE "sense"

flpydsk_wait_irq ==
  /\ todo = <<>> /\ UNCHANGED <<op, todo, st, tries, lba, dma, told, fdc, timedOut>>
  /\ \/ at = "wait" /\ flag # 0 /\ at' = "clear" /\ UNCHANGED flag
     \/ at = "clear" /\ flag' = 0
        /\ at' = IF op = "read" THEN "results" ELSE "sense"

\* The seven bytes of a read are looked at, and only reported.
Report ==
  /\ at = "results" /\ Len(st) = 7
  /\ error' = (st[1] # 0 \/ st[2] # 0 \/ st[3] # 0 \/ st[7] # 2)
  /\ st' = <<>> /\ at' = "sense"
  /\ UNCHANGED <<op, todo, tries, lba, dma, flag, fdc, result, passed, timedOut>>

flpydsk_check_int ==
  /\ at = "sense" /\ at' = "sensing" /\ todo' = <<SENSE>> /\ st' = <<>>
  /\ UNCHANGED <<op, tries, lba, dma, flag, fdc, told, timedOut>>

-----------------------------------------------------------------------------
(* The driver: operations *)

MotorOn  == {"RESET", "DMA", "MOTOR"}
MotorOff == {"RESET"}

\* Sends a command, and waits for its interrupt unless it has none.
Send(operation, bytes, place) == op' = operation /\ todo' = bytes /\ at' = place
Calibrate == Send("calibrate", <<CALIBRATE, 0>>, "wait")
flpydsk_drive_data(place) == Send("none", <<SPECIFY, 0, 0>>, place)
Seek(cyl) == Send("seek", <<SEEK, 0, cyl>>, "wait")

\* Mutant: the sector is counted from 0.
flpydsk_lba_to_chs_zero(n) ==
  <<n \div (SectorsPerTrack * 2), (n % (SectorsPerTrack * 2)) \div SectorsPerTrack,
    n % SectorsPerTrack>>

\* <<track, head, sector>>
flpydsk_lba_to_chs(n) ==
  <<n \div (SectorsPerTrack * 2), (n % (SectorsPerTrack * 2)) \div SectorsPerTrack,
    (n % SectorsPerTrack) + 1>>

\* install and reset: the handler is in place, the controller is reset.
flpydsk_install ==
  /\ at = "off" /\ Send("reset", <<>>, "wait")
  /\ dor' = {"RESET", "DMA"} /\ working' = <<RESET>> /\ fifo' = <<>> /\ results' = <<>>
  /\ UNCHANGED <<st, tries, lba, dma, flag, told, timedOut, sense, irq, track, buffer>>

Sensed(operation) == at = "sensing" /\ todo = <<>> /\ Len(st) = 2 /\ op = operation

ResetDone ==
  /\ Sensed("reset") /\ flpydsk_drive_data("calibrate") /\ st' = <<>>
  /\ UNCHANGED <<tries, lba, dma, flag, fdc, told, timedOut>>

flpydsk_calibrate ==
  /\ at = "calibrate" /\ todo = <<>>
  /\ dor' = MotorOn /\ tries' = 1 /\ Calibrate
  /\ UNCHANGED <<st, lba, dma, flag, fifo, results, working, sense, irq, track, buffer, told, timedOut>>

\* Mutant: the last attempt passes wherever the head is.
CylinderZeroLast == st[2] = 0 \/ tries = Retries
\* What flpydsk_check_int() told of the head.
CylinderZero == st[2] = 0

CalibrateAgain == st[2] # 0 /\ tries < Retries

\* Cylinder 0 found, or tries left, or neither.
CalibrateSensed ==
  /\ Sensed("calibrate") /\ st' = <<>>
  /\ \/ CalibrateAgain /\ Calibrate /\ tries' = tries + 1 /\ UNCHANGED <<dor, passed>>
     \/ /\ ~CalibrateAgain /\ flpydsk_drive_data("installed") /\ dor' = MotorOff
        /\ passed' = CylinderZero /\ UNCHANGED tries
  /\ UNCHANGED <<lba, dma, flag, fifo, results, working, sense, irq, track, buffer>>
  /\ UNCHANGED <<result, error, timedOut>>

Installed ==
  /\ at = "installed" /\ todo = <<>> /\ at' = "away"
  /\ UNCHANGED <<op, todo, st, tries, lba, dma, flag, fdc, told, timedOut>>

flpydsk_read_sector(n) ==
  /\ at = "away" /\ lba' = n
  /\ dor' = MotorOn /\ tries' = 1 /\ Seek(flpydsk_lba_to_chs(n)[1])
  /\ result' = "none" /\ error' = FALSE
  /\ UNCHANGED <<st, dma, flag, fifo, results, working, sense, irq, track, buffer, passed, timedOut>>

\* The cylinder is found: read_sector_imp sets up the DMA and sends the read;
\* or the seek is tried again; or 0 is returned.
SeekSensed ==
  LET chs == flpydsk_lba_to_chs(lba) IN
  /\ Sensed("seek") /\ st' = <<>>
  /\ IF st[2] = chs[1]
     THEN /\ dma' = dma_set_read(dma_initialize_floppy(dma, DMA_BUFFER, 512))
          /\ Send("read", <<READ, chs[2], chs[1], chs[2], chs[3], 2, 0, 27, 255>>, "wait")
          /\ UNCHANGED <<tries, result>>
     ELSE IF tries < Retries
     THEN Seek(chs[1]) /\ tries' = tries + 1 /\ UNCHANGED <<dma, result>>
     ELSE /\ at' = "away" /\ result' = "null"
          /\ UNCHANGED <<op, todo, tries, dma>>
  /\ UNCHANGED <<lba, flag, fdc, error, passed, timedOut>>

\* The motor is turned off and the buffer returned, error or not.
ReadDone ==
  /\ Sensed("read") /\ st' = <<>>
  /\ dor' = MotorOff /\ at' = "away" /\ result' = "buffer"
  /\ UNCHANGED <<op, todo, tries, lba, dma, flag, fifo, results, working, sense, irq, track>>
  /\ UNCHANGED <<buffer, error, passed, timedOut>>

Driver ==
  \/ flpydsk_send_command \/ flpydsk_read_data \/ flpydsk_wait_irq
  \/ Report \/ flpydsk_check_int
  \/ flpydsk_install \/ ResetDone \/ flpydsk_calibrate \/ CalibrateSensed \/ Installed
  \/ SeekSensed \/ ReadDone

Call == \E n \in Lbas : flpydsk_read_sector(n)

Next == Driver \/ Call \/ Complete \/ i86_flpy_irq

\* The main thread runs, the controller finishes, interrupts are on; nobody
\* has to read a sector.
Spec ==
  /\ Init /\ [][Next]_vars
  /\ WF_vars(Driver) /\ WF_vars(Complete) /\ WF_vars(i86_flpy_irq)

-----------------------------------------------------------------------------
(* Properties *)

\* The flag is never a stale one: when the driver stops waiting, the command
\* it waited for has been executed, after timeouts too.
WaitsForItsOwn == at = "clear" => working = <<>> /\ ~irq /\ todo = <<>>

\* The buffer read_sector() returns holds the sector that was asked for, when
\* no error was printed, through failed seeks and their retries, and after
\* lost bytes.  The sector's place is what its number means on a disk whose
\* sectors are numbered from 1 along a track, then along the heads.
SectorReturned ==
  at = "away" /\ result = "buffer" /\ ~error =>
    /\ buffer # NoSector
    /\ lba = (buffer[1] * 2 + buffer[2]) * SectorsPerTrack + buffer[3] - 1

\* Whenever the controller moves the head or reads, the motor is on and its
\* interrupt and DMA are enabled; between calls the motor is off unless the
\* last one gave up seeking.
MotorRuns ==
  /\ working # <<>> /\ working[1] # RESET => dor = MotorOn
  /\ at = "away" /\ result # "null" => "MOTOR" \notin dor

\* Channel 2 is open, and writes 512 bytes to DMA_BUFFER, whenever the
\* controller reads, whichever state the BIOS left the DMA controller in.
OnBuffer(d) ==
  /\ d.page * 65536 + d.address[2] * 256 + d.address[1] = DMA_BUFFER
  /\ d.count[2] * 256 + d.count[1] = 511
DmaAimed ==
  working # <<>> /\ working[1] = READ =>
    ~dma.masked /\ dma.mode = "to memory" /\ OnBuffer(dma)

\* The motor runs and the DMA is aimed whenever they have to be.
Prepared == MotorRuns /\ DmaAimed

\* "PASS" after calibration: the head is on cylinder 0, unless the driver gave
\* up polling (a byte it could not read counts as cylinder 0).
CalibrationPassed ==
  at = "installed" /\ passed /\ ~timedOut => track = 0

\* Every call returns, unless the driver gave up polling: a command that was
\* cut short raises no interrupt, and flpydsk_wait_irq() has no end.
CallsReturn == at # "away" ~> at = "away" \/ timedOut

=============================================================================
