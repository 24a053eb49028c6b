---------------------------- MODULE FloppyProofs ----------------------------
(***************************************************************************)
(* Proofs about Floppy, for every geometry of the disk and every number of *)
(* retries: an interrupt is never taken for another one, the motor runs    *)
(* and the DMA controller is aimed when they have to be, the sector that   *)
(* is returned is the one asked for, and a calibration that passes has     *)
(* found cylinder 0; and about Fat12, the file system over these sectors,  *)
(* for every disk: a file is read along its chain, and the file that was   *)
(* asked for is opened.                                                    *)
(*                                                                         *)
(* The invariant of the driver follows a command through the controller:   *)
(* which bytes are still to be sent, which have arrived (Sending,          *)
(* Arriving), that at most one of a command at work, an interrupt line and *)
(* the driver's flag is pending, and only while the driver waits           *)
(* (OneInterrupt), and what the bytes to be read then mean (Answering).    *)
(* One lost byte shortens or blocks a command and is never made up for:    *)
(* that is why a command that is complete was not cut.                     *)
(*                                                                         *)
(* The file system has two: ReadInv says that the sectors handed over are  *)
(* those of the chain so far, that no end mark was passed, and where the   *)
(* FILE is in the chain; RightInv, that nothing of the name looked for     *)
(* lies in the part of the root directory that was looked through.         *)
(***************************************************************************)
EXTENDS Floppy, Fat12, WellFoundedInduction, TLAPS

Ops == {"none", "reset", "calibrate", "seek", "read"}
Places == {"off", "wait", "clear", "results", "sense", "sensing", "calibrate",
           "installed", "away"}
Moving == {CALIBRATE, SEEK, READ}

DmaState == [flip : {0, 1}, masked : BOOLEAN, mode : {"other", "to memory"},
             page : Int, address : Int \X Int, count : Int \X Int]

TypeOK ==
  /\ op \in Ops /\ at \in Places
  /\ todo \in Seq(Int) /\ st \in Seq(Int) /\ lba \in Lbas
  /\ flag \in {0, 1} /\ dma \in DmaState
  /\ fifo \in Seq(Int) /\ results \in Seq(Int) /\ working \in Seq(Int)
  /\ sense \in BOOLEAN /\ irq \in BOOLEAN /\ track \in Int
  /\ result \in {"none", "buffer", "null"} /\ error \in BOOLEAN
  /\ passed \in BOOLEAN /\ timedOut \in BOOLEAN

-----------------------------------------------------------------------------
(* The commands *)

Chs == flpydsk_lba_to_chs(lba)
SeekBytes == <<SEEK, 0, Chs[1]>>
ReadBytes == <<READ, Chs[2], Chs[1], Chs[2], Chs[3], 2, 0, 27, 255>>

Suffix(s, whole) ==
  /\ Len(s) <= Len(whole)
  /\ \A n \in 1..Len(s) : s[n] = whole[Len(whole) - Len(s) + n]

\* What the driver has yet to send is the end of one command.
Sending ==
  /\ at \notin {"wait", "sensing", "calibrate", "installed"} => todo = <<>>
  /\ at = "sensing" => todo \in {<<>>, <<SENSE>>}
  /\ at \in {"calibrate", "installed"} => Suffix(todo, <<SPECIFY, 0, 0>>)
  /\ at = "wait" => /\ op # "none"
                    /\ op = "reset" => todo = <<>>
                    /\ op = "calibrate" => Suffix(todo, <<CALIBRATE, 0>>)
                    /\ op = "seek" => Suffix(todo, SeekBytes)
                    /\ op = "read" => Suffix(todo, ReadBytes)

\* Of a command that moves the head or reads, no more bytes have arrived than
\* were sent: it is complete only with the last of them.  While a read is sent,
\* what has arrived is its beginning, or bytes are missing for good.
Arriving ==
  /\ at \in {"off", "clear", "results", "sense", "sensing"} => fifo = <<>>
  /\ fifo # <<>> => fifo[1] \in Moving \cup {SPECIFY}
  /\ fifo # <<>> /\ fifo[1] \in Moving =>
       /\ at = "wait"
       /\ Len(fifo) + Len(todo) <= Args(fifo[1]) + 1
       /\ op # "read" => Len(fifo) + Len(todo) <= 3
  /\ at = "wait" /\ op = "read" =>
       /\ fifo = <<>> /\ results = <<>> /\ todo # <<>> =>
            Len(todo) >= 8 /\ (Len(todo) = 8 => timedOut)
       /\ fifo # <<>> => fifo[1] = READ
       /\ fifo # <<>> /\ Len(fifo) + Len(todo) = 9 =>
            \A n \in 1..Len(fifo) : fifo[n] = ReadBytes[n]

\* A command at work, its interrupt line, and the flag it leads to.
OneInterrupt ==
  /\ working # <<>> \/ irq \/ flag # 0 => at \in {"wait", "clear"} /\ todo = <<>> /\ fifo = <<>>
  /\ working # <<>> => ~irq /\ flag = 0
  /\ irq => flag = 0
  /\ at = "clear" => flag # 0

\* What is at work is what the driver waits for.
Working ==
  working # <<>> =>
    /\ results = <<>>
    /\ op = "reset" <=> working[1] = RESET
    /\ op = "read" => working = ReadBytes
    /\ op # "read" => working[1] \in {RESET, CALIBRATE, SEEK}
    /\ working[1] = SEEK => Len(working) = 3

\* A failed read cannot be mistaken for one that went well: the driver has read
\* the byte that says so, or it is the next to come.
FailureShows ==
  \/ st = <<>> /\ results # <<>> /\ results[1] = 64
  \/ Len(st) = 1 /\ timedOut /\ results # <<>> /\ results[1] = 64
  \/ Len(st) >= 1 /\ st[1] = 64
  \/ Len(st) >= 2 /\ st[2] = 64

\* Between the end of a command and what the driver makes of its bytes.
Answering ==
  /\ at \notin {"results", "sensing"} => st = <<>>
  /\ op = "read" /\ (irq \/ flag # 0 \/ at = "results") => buffer = Chs \/ FailureShows
  /\ op = "read" /\ at \in {"sense", "sensing"} => error \/ buffer = Chs
  /\ at = "away" /\ result = "buffer" => error \/ buffer = Chs
  /\ at \in {"results", "clear", "sense", "sensing"} => op # "none"
  /\ at = "results" => op = "read"
  /\ result # "none" => at = "away"

\* After a reset, a calibration or a seek the controller has an interrupt to be
\* asked about, and answers where the head is.
Sensing ==
  /\ op # "read" /\ (irq \/ flag # 0 \/ at = "sense") => results = <<>> /\ sense
  /\ op # "read" /\ at = "sensing" /\ todo # <<>> => results = <<>> /\ sense /\ st = <<>>
  /\ op # "read" /\ at = "sensing" /\ todo = <<>> /\ ~timedOut =>
       \/ st = <<>> /\ results = <<32, track>>
       \/ st = <<32>> /\ results = <<track>>
       \/ st = <<32, track>>
  /\ at = "installed" /\ passed /\ ~timedOut => track = 0

AimedAt(d) == ~d.masked /\ d.mode = "to memory" /\ OnBuffer(d)
Aimed == AimedAt(dma)

\* The motor and the DMA controller, by where the driver is.
Motor ==
  /\ at \in {"wait", "clear", "results", "sense", "sensing"} /\ op # "reset" => dor = MotorOn
  /\ at = "away" => result = "null" \/ dor = MotorOff
  /\ at = "installed" => dor = MotorOff
  /\ op = "read" => Aimed

FloppyInv ==
  /\ TypeOK /\ Sending /\ Arriving /\ OneInterrupt /\ Working
  /\ Answering /\ Sensing /\ Motor

-----------------------------------------------------------------------------
(* What the steps keep having to know of numbers and sequences *)

LEMMA Codes ==
  /\ SPECIFY = 3 /\ CALIBRATE = 7 /\ SENSE = 8 /\ SEEK = 15 /\ READ = 230 /\ RESET = 256
  /\ Opcodes = {3, 7, 8, 15, 230} /\ Moving = {7, 15, 230}
  /\ Args(3) = 2 /\ Args(7) = 1 /\ Args(8) = 0 /\ Args(15) = 2 /\ Args(230) = 8
  BY DEF SPECIFY, CALIBRATE, SENSE, SEEK, READ, RESET, Opcodes, Moving, Args

\* Quotient and remainder are the only ones that fit.
LEMMA Division ==
  ASSUME NEW s \in Nat \ {0}, NEW q \in Nat, NEW r \in 0..(s - 1)
  PROVE  (q * s + r) % s = r /\ (q * s + r) \div s = q
  OBVIOUS

LEMMA Quotient ==
  ASSUME NEW s \in Nat \ {0}, NEW n \in Nat
  PROVE  /\ n = (n \div s) * s + (n % s)
         /\ n \div s \in Nat /\ n % s \in 0..(s - 1)
  OBVIOUS

LEMMA ChsOfLba ==
  ASSUME NEW n \in Nat
  PROVE  LET chs == flpydsk_lba_to_chs(n)
         IN  /\ chs[1] \in Nat /\ chs[2] \in {0, 1} /\ chs[3] \in Nat
             /\ n = (chs[1] * 2 + chs[2]) * SectorsPerTrack + chs[3] - 1
             /\ chs = <<chs[1], chs[2], chs[3]>>
<1> DEFINE s == SectorsPerTrack
           c == n \div (s * 2)
           r == n % (s * 2)
           h == r \div s
           chs == flpydsk_lba_to_chs(n)
<1>1. s \in Nat \ {0} /\ s * 2 \in Nat \ {0}
  BY DiskAssumption
<1>2. n = c * (s * 2) + r /\ c \in Nat /\ r \in 0..(s * 2 - 1)
  BY <1>1, Quotient
<1>3. chs = <<c, h, (n % s) + 1>>
  BY DEF flpydsk_lba_to_chs
<1> HIDE DEF s, c, r, chs
<1>4. h \in {0, 1} /\ r - h * s \in 0..(s - 1)
  <2>1. CASE r < s
    <3>1. r = 0 * s + r /\ r \in 0..(s - 1)
      BY <1>1, <1>2, <2>1
    <3> QED
      BY <1>1, <3>1, Division
  <2>2. CASE r >= s
    <3>1. r = 1 * s + (r - s) /\ r - s \in 0..(s - 1)
      BY <1>1, <1>2, <2>2
    <3>2. h = 1
      BY <1>1, <3>1, Division
    <3> QED
      BY <1>1, <3>1, <3>2
  <2> QED
    BY <1>1, <1>2, <2>1, <2>2
<1> HIDE DEF h
<1>5. n % s = r - h * s
  <2>1. n = (c * 2 + h) * s + (r - h * s)
    BY <1>1, <1>2, <1>4
  <2>2. c * 2 + h \in Nat
    BY <1>2, <1>4
  <2> QED
    BY <1>1, <1>4, <2>1, <2>2, Division
<1>6. n = (c * 2 + h) * s + (n % s)
  BY <1>1, <1>2, <1>4, <1>5
<1>7. n % s \in Nat
  BY <1>4, <1>5
<1> QED
  BY <1>1, <1>2, <1>3, <1>4, <1>6, <1>7 DEF s, chs

\* The commands that are made of a sector's number.
LEMMA BytesTyped ==
  ASSUME TypeOK
  PROVE  /\ lba \in Nat /\ Chs[1] \in Nat /\ Chs[2] \in {0, 1} /\ Chs[3] \in Nat
         /\ SeekBytes \in Seq(Int) /\ Len(SeekBytes) = 3
         /\ ReadBytes \in Seq(Int) /\ Len(ReadBytes) = 9
         /\ SeekBytes[1] = 15 /\ SeekBytes[2] = 0 /\ SeekBytes[3] = Chs[1]
         /\ ReadBytes[1] = 230 /\ ReadBytes[2] = Chs[2] /\ ReadBytes[3] = Chs[1]
         /\ ReadBytes[4] = Chs[2] /\ ReadBytes[5] = Chs[3]
<1>1. lba \in Nat
  BY DiskAssumption DEF TypeOK, Lbas
<1>2. Chs[1] \in Nat /\ Chs[2] \in {0, 1} /\ Chs[3] \in Nat
  BY <1>1, ChsOfLba DEF Chs
<1> QED
  BY <1>1, <1>2, Codes DEF SeekBytes, ReadBytes

LEMMA SameBytes ==
  ASSUME NEW s \in Seq(Int), NEW t \in Seq(Int), Len(s) = Len(t),
         \A n \in 1..Len(s) : s[n] = t[n]
  PROVE  s = t
  OBVIOUS

LEMMA Appended ==
  \A s \in Seq(Int), b \in Int :
    /\ Append(s, b) \in Seq(Int) /\ Append(s, b) # <<>>
    /\ Len(s) \in Nat /\ Len(Append(s, b)) = Len(s) + 1
    /\ s = <<>> => Append(s, b)[1] = b /\ Len(s) = 0
    /\ s # <<>> => Append(s, b)[1] = s[1] /\ Len(s) >= 1
    /\ \A n \in 1..Len(s) : Append(s, b)[n] = s[n]
    /\ Append(s, b)[Len(s) + 1] = b
  OBVIOUS

LEMMA TailOfSuffix ==
  ASSUME NEW whole \in Seq(Int), NEW s \in Seq(Int), s # <<>>, Suffix(s, whole)
  PROVE  /\ Tail(s) \in Seq(Int) /\ Head(s) \in Int /\ Suffix(Tail(s), whole)
         /\ Len(s) \in 1..Len(whole) /\ Len(Tail(s)) = Len(s) - 1
         /\ Head(s) = whole[Len(whole) - Len(s) + 1]
<1>1. /\ Tail(s) \in Seq(Int) /\ Len(Tail(s)) = Len(s) - 1 /\ Head(s) = s[1]
      /\ \A n \in 1..(Len(s) - 1) : Tail(s)[n] = s[n + 1]
      /\ Len(s) \in Nat /\ Len(s) > 0 /\ s[1] \in Int
  OBVIOUS
<1> QED
  BY <1>1 DEF Suffix

\* The DMA controller is set up by SeekSensed alone.
LEMMA AimedStays ==
  ASSUME UNCHANGED dma
  PROVE  Aimed' = Aimed
  BY DEF Aimed

-----------------------------------------------------------------------------
(* Sending a byte *)

\* While a command is sent nothing is at work and no interrupt is pending.
LEMMA QuietSending ==
  ASSUME FloppyInv, todo # <<>>
  PROVE  working = <<>> /\ ~irq /\ flag = 0 /\ at \in {"wait", "sensing", "calibrate", "installed"}
  BY DEF FloppyInv, OneInterrupt, Sending, TypeOK

LEMMA SendingOn ==
  ASSUME FloppyInv, todo # <<>>, todo' = Tail(todo), UNCHANGED <<op, at, lba>>
  PROVE  Sending' /\ todo' \in Seq(Int)
<1>1. /\ SeekBytes \in Seq(Int) /\ ReadBytes \in Seq(Int)
      /\ <<SPECIFY, 0, 0>> \in Seq(Int) /\ <<CALIBRATE, 0>> \in Seq(Int)
  BY BytesTyped, Codes DEF FloppyInv
<1>2. SeekBytes' = SeekBytes /\ ReadBytes' = ReadBytes
  BY DEF SeekBytes, ReadBytes, Chs
<1>3. todo \in Seq(Int) /\ todo' \in Seq(Int)
  BY DEF FloppyInv, TypeOK
<1>4. at = "sensing" => todo' = <<>>
  <2>1. at = "sensing" => todo = <<SENSE>>
    BY DEF FloppyInv, Sending
  <2>2. Tail(<<SENSE>>) = <<>>
    OBVIOUS
  <2> QED
    BY <2>1, <2>2
<1>5. \A whole \in Seq(Int) : Suffix(todo, whole) => Suffix(todo', whole)
  BY <1>3, TailOfSuffix
<1> QED
  BY <1>1, <1>2, <1>3, <1>4, <1>5 DEF FloppyInv, Sending

\* A byte is lost: the driver gives up polling.
LEMMA SendTimesOut ==
  ASSUME FloppyInv, flpydsk_send_command, TimeOut, UNCHANGED fdc
  PROVE  FloppyInv'
<1>1. /\ todo # <<>> /\ todo' = Tail(todo) /\ todo \in Seq(Int)
      /\ UNCHANGED <<op, at, st, lba, dma, flag, result, error, passed>>
      /\ UNCHANGED <<dor, fifo, results, working, sense, irq, track, buffer>>
  BY DEF flpydsk_send_command, told, fdc, FloppyInv, TypeOK
<1>2. /\ working = <<>> /\ ~irq /\ flag = 0 /\ ~timedOut /\ timedOut' = TRUE
      /\ at \in {"wait", "sensing", "calibrate", "installed"}
  BY <1>1, QuietSending DEF TimeOut
<1>3. Chs' = Chs /\ SeekBytes' = SeekBytes /\ ReadBytes' = ReadBytes
  BY <1>1 DEF SeekBytes, ReadBytes, Chs
<1>4. Sending' /\ todo' \in Seq(Int)
  BY <1>1, SendingOn
<1>5. Len(todo') = Len(todo) - 1 /\ Len(todo') \in Nat
  BY <1>1
<1>6. TypeOK'
  BY <1>1, <1>2, <1>4 DEF FloppyInv, TypeOK
<1>7. Arriving'
  <2>1. fifo # <<>> => fifo[1] \in Moving \cup {SPECIFY} /\ Len(fifo) \in Nat
    BY DEF FloppyInv, Arriving, TypeOK
  <2>2. fifo # <<>> /\ fifo[1] \in Moving => Args(fifo[1]) \in Nat
    BY Codes
  <2>3. at = "wait" /\ op = "read" /\ fifo # <<>> => Len(fifo) + Len(todo) <= 9
    BY Codes DEF FloppyInv, Arriving
  <2>4. at = "wait" /\ op = "read" => Len(todo) <= 9
    BY <1>1, BytesTyped DEF FloppyInv, Sending, Suffix
  <2>5. at = "wait" /\ op = "read" /\ fifo = <<>> /\ results = <<>> => Len(todo) = 9
    <3>1. at = "wait" /\ op = "read" /\ fifo = <<>> /\ results = <<>> =>
            Len(todo) >= 8 /\ Len(todo) # 8
      BY <1>1, <1>2 DEF FloppyInv, Arriving
    <3>2. Len(todo) \in Nat /\ \A n \in Nat : n >= 8 /\ n # 8 /\ n <= 9 => n = 9
      BY <1>1
    <3> QED
      BY <2>4, <3>1, <3>2
  <2> QED
    BY <1>1, <1>2, <1>3, <1>5, <2>1, <2>2, <2>3, <2>5 DEF FloppyInv, Arriving
<1>8. OneInterrupt' /\ Working'
  BY <1>1, <1>2 DEF OneInterrupt, Working
<1>9. Answering' /\ Sensing'
  BY <1>1, <1>2, <1>3 DEF FloppyInv, Answering, Sensing, FailureShows
<1>10. Motor'
  <2>1. Aimed' = Aimed
    BY <1>1, AimedStays
  <2>2. at' = at /\ op' = op /\ dor' = dor /\ result' = result
    BY <1>1
  <2> QED
    BY <2>1, <2>2 DEF FloppyInv, Motor, MotorOn, MotorOff
<1> QED
  BY <1>4, <1>6, <1>7, <1>8, <1>9, <1>10 DEF FloppyInv

\* The byte that is sent, by where the command stands.
LEMMA ByteSent ==
  ASSUME FloppyInv, todo # <<>>
  PROVE  /\ Head(todo) \in Int /\ Len(todo) \in Nat /\ Len(todo) >= 1
         /\ Len(Tail(todo)) = Len(todo) - 1 /\ Tail(todo) \in Seq(Int)
         /\ at = "sensing" => Head(todo) = 8 /\ Tail(todo) = <<>>
         /\ at \in {"calibrate", "installed"} => Head(todo) \in {3, 0}
         /\ at = "wait" => op \in {"calibrate", "seek", "read"}
         /\ at = "wait" /\ op = "calibrate" =>
              Len(todo) <= 2 /\ ((Head(todo) = 7 /\ Len(todo) = 2) \/ Head(todo) = 0)
         /\ at = "wait" /\ op = "seek" =>
              \/ Len(todo) = 3 /\ Head(todo) = 15
              \/ Len(todo) = 2 /\ Head(todo) = 0
              \/ Len(todo) = 1
         /\ at = "wait" /\ op = "read" =>
              /\ Len(todo) <= 9 /\ Head(todo) = ReadBytes[10 - Len(todo)]
              /\ Len(todo) = 9 => Head(todo) = 230
              /\ Len(todo) = 8 => Head(todo) \in {0, 1}
<1> USE Codes
<1>1. todo \in Seq(Int)
  BY DEF FloppyInv, TypeOK
<1>2. /\ Head(todo) \in Int /\ Len(todo) \in Nat /\ Len(todo) >= 1
      /\ Len(Tail(todo)) = Len(todo) - 1 /\ Tail(todo) \in Seq(Int)
  BY <1>1
<1>3. at = "sensing" => Head(todo) = 8 /\ Tail(todo) = <<>>
  <2>1. at = "sensing" => todo = <<8>>
    BY DEF FloppyInv, Sending
  <2>2. Tail(<<8>>) = <<>> /\ Head(<<8>>) = 8
    OBVIOUS
  <2> QED
    BY <2>1, <2>2
<1>4. ASSUME NEW whole \in Seq(Int), Suffix(todo, whole)
      PROVE  Len(todo) \in 1..Len(whole) /\ Head(todo) = whole[Len(whole) - Len(todo) + 1]
  BY <1>1, <1>4, TailOfSuffix
<1>5. at \in {"calibrate", "installed"} => Head(todo) \in {3, 0}
  <2> SUFFICES ASSUME at \in {"calibrate", "installed"}
               PROVE  Head(todo) \in {3, 0}
    OBVIOUS
  <2>1. Suffix(todo, <<3, 0, 0>>) /\ <<3, 0, 0>> \in Seq(Int) /\ Len(<<3, 0, 0>>) = 3
    BY DEF FloppyInv, Sending
  <2>2. Len(todo) \in 1..3 /\ Head(todo) = <<3, 0, 0>>[3 - Len(todo) + 1]
    BY <1>4, <2>1
  <2>3. \A k \in 1..3 : <<3, 0, 0>>[3 - k + 1] \in {3, 0}
    OBVIOUS
  <2> QED
    BY <2>2, <2>3
<1>6. at = "wait" => op \in {"calibrate", "seek", "read"}
  BY DEF FloppyInv, Sending, TypeOK, Ops
<1>7. at = "wait" /\ op = "calibrate" =>
        Len(todo) <= 2 /\ ((Head(todo) = 7 /\ Len(todo) = 2) \/ Head(todo) = 0)
  <2> SUFFICES ASSUME at = "wait", op = "calibrate"
               PROVE  Len(todo) <= 2 /\ ((Head(todo) = 7 /\ Len(todo) = 2) \/ Head(todo) = 0)
    OBVIOUS
  <2>1. Suffix(todo, <<7, 0>>) /\ <<7, 0>> \in Seq(Int) /\ Len(<<7, 0>>) = 2
    BY DEF FloppyInv, Sending
  <2>2. Len(todo) \in 1..2 /\ Head(todo) = <<7, 0>>[2 - Len(todo) + 1]
    BY <1>4, <2>1
  <2>3. \A k \in 1..2 : k <= 2 /\ ((<<7, 0>>[2 - k + 1] = 7 /\ k = 2) \/ <<7, 0>>[2 - k + 1] = 0)
    OBVIOUS
  <2> QED
    BY <2>2, <2>3
<1>8. at = "wait" /\ op = "seek" =>
        \/ Len(todo) = 3 /\ Head(todo) = 15
        \/ Len(todo) = 2 /\ Head(todo) = 0
        \/ Len(todo) = 1
  <2> SUFFICES ASSUME at = "wait", op = "seek"
               PROVE  \/ Len(todo) = 3 /\ Head(todo) = 15
                      \/ Len(todo) = 2 /\ Head(todo) = 0
                      \/ Len(todo) = 1
    OBVIOUS
  <2>1. Suffix(todo, SeekBytes)
    BY DEF FloppyInv, Sending
  <2>2. /\ SeekBytes \in Seq(Int) /\ Len(SeekBytes) = 3
        /\ SeekBytes[1] = 15 /\ SeekBytes[2] = 0
    BY BytesTyped DEF FloppyInv
  <2>3. Len(todo) \in 1..3 /\ Head(todo) = SeekBytes[3 - Len(todo) + 1]
    BY <1>4, <2>1, <2>2
  <2>4. \A k \in 1..3 : \/ k = 3 /\ SeekBytes[3 - k + 1] = 15
                        \/ k = 2 /\ SeekBytes[3 - k + 1] = 0
                        \/ k = 1
    BY <2>2
  <2> QED
    BY <2>3, <2>4
<1>9. at = "wait" /\ op = "read" =>
        /\ Len(todo) <= 9 /\ Head(todo) = ReadBytes[10 - Len(todo)]
        /\ Len(todo) = 9 => Head(todo) = 230
        /\ Len(todo) = 8 => Head(todo) \in {0, 1}
  <2> SUFFICES ASSUME at = "wait", op = "read"
               PROVE  /\ Len(todo) <= 9 /\ Head(todo) = ReadBytes[10 - Len(todo)]
                      /\ Len(todo) = 9 => Head(todo) = 230
                      /\ Len(todo) = 8 => Head(todo) \in {0, 1}
    OBVIOUS
  <2>1. Suffix(todo, ReadBytes)
    BY DEF FloppyInv, Sending
  <2>2. /\ ReadBytes \in Seq(Int) /\ Len(ReadBytes) = 9
        /\ ReadBytes[1] = 230 /\ ReadBytes[2] \in {0, 1}
    BY BytesTyped DEF FloppyInv
  <2>3. Len(todo) \in 1..9 /\ Head(todo) = ReadBytes[9 - Len(todo) + 1]
    <3>1. /\ Len(todo) \in 1..Len(ReadBytes)
          /\ Head(todo) = ReadBytes[Len(ReadBytes) - Len(todo) + 1]
      BY <1>4, <2>1, <2>2
    <3> QED
      BY <2>2, <3>1
  <2>4. \A k \in 1..9 : /\ k <= 9 /\ 9 - k + 1 = 10 - k
                        /\ k = 9 => ReadBytes[9 - k + 1] = 230
                        /\ k = 8 => ReadBytes[9 - k + 1] \in {0, 1}
    BY <2>2
  <2> QED
    BY <2>3, <2>4
<1> QED
  BY <1>2, <1>3, <1>5, <1>6, <1>7, <1>8, <1>9

\* What the controller makes of a byte.
Dropped  == results # <<>> /\ UNCHANGED <<fifo, results, working, sense>>
Invalid(byte) ==
  /\ results = <<>> /\ results' = <<128>> /\ fifo' = <<>>
  /\ fifo = <<>> => byte \notin Opcodes
  /\ UNCHANGED <<working, sense>>
Kept(byte) ==
  /\ results = <<>> /\ fifo' = Append(fifo, byte)
  /\ IF fifo = <<>> THEN byte \in Moving \cup {SPECIFY} ELSE fifo[1] \in Moving \cup {SPECIFY}
  /\ UNCHANGED <<results, working, sense>>
Asked(byte) ==
  /\ results = <<>> /\ fifo = <<>> /\ byte = SENSE
  /\ fifo' = <<>> /\ working' = <<>> /\ sense' = FALSE
  /\ results' = IF sense THEN <<32, track>> ELSE <<128>>
Specified ==
  /\ results = <<>> /\ fifo # <<>> /\ fifo[1] = SPECIFY
  /\ fifo' = <<>> /\ working' = <<>> /\ results' = <<>> /\ UNCHANGED sense
Begun(byte) ==
  /\ results = <<>> /\ fifo # <<>> /\ fifo[1] \in Moving /\ Len(fifo) = Args(fifo[1])
  /\ fifo' = <<>> /\ working' = Append(fifo, byte) /\ results' = <<>> /\ UNCHANGED sense

LEMMA Accepted ==
  ASSUME FloppyInv, NEW byte \in Int, Accept(byte), working = <<>>
  PROVE  \/ Dropped \/ Invalid(byte) \/ Kept(byte) \/ Asked(byte) \/ Specified \/ Begun(byte)
<1> DEFINE got == Append(fifo, byte)
           full == got[1] \in Opcodes /\ Len(got) = Args(got[1]) + 1
<1> USE Codes
<1>1. /\ got \in Seq(Int) /\ Len(got) = Len(fifo) + 1 /\ Len(fifo) \in Nat
      /\ fifo = <<>> => got[1] = byte /\ Len(fifo) = 0
      /\ fifo # <<>> => got[1] = fifo[1] /\ Len(fifo) >= 1
  BY DEF FloppyInv, TypeOK
<1>2. fifo # <<>> => fifo[1] \in {7, 15, 230, 3}
  BY DEF FloppyInv, Arriving
<1>3. IF results # <<>> THEN UNCHANGED <<fifo, results, working, sense>>
      ELSE IF got[1] \notin Opcodes
      THEN results' = <<128>> /\ fifo' = <<>> /\ UNCHANGED <<working, sense>>
      ELSE IF ~full THEN fifo' = got /\ UNCHANGED <<results, working, sense>>
      ELSE /\ fifo' = <<>>
           /\ results' = IF got[1] # SENSE THEN <<>>
                         ELSE IF sense THEN <<32, track>> ELSE <<128>>
           /\ sense' = (sense /\ got[1] # SENSE)
           /\ working' = IF got[1] \in {CALIBRATE, SEEK, READ} THEN got ELSE <<>>
  BY DEF Accept
<1>4. got[1] = 8 /\ fifo = <<>> => full
  BY <1>1
<1>5. full /\ fifo # <<>> => Len(fifo) = Args(fifo[1])
  <2> SUFFICES ASSUME full, fifo # <<>>
               PROVE  Len(fifo) = Args(fifo[1])
    OBVIOUS
  <2>1. got[1] = fifo[1] /\ Args(fifo[1]) \in Nat /\ Len(fifo) + 1 = Args(fifo[1]) + 1
    BY <1>1, <1>2
  <2> QED
    BY <1>1, <2>1
<1>6. full /\ fifo = <<>> => byte = 8
  <2> SUFFICES ASSUME full, fifo = <<>>, byte # 8
               PROVE  FALSE
    OBVIOUS
  <2>1. byte \in {3, 7, 15, 230} /\ Args(byte) = 0
    BY <1>1
  <2> QED
    BY <2>1
<1> HIDE DEF got, full
<1>7. CASE results # <<>>
  BY <1>3, <1>7 DEF Dropped
<1>8. CASE results = <<>> /\ got[1] \notin Opcodes
  BY <1>1, <1>3, <1>8 DEF Invalid
<1>9. CASE results = <<>> /\ got[1] \in Opcodes /\ ~full
  <2>1. fifo' = Append(fifo, byte) /\ UNCHANGED <<results, working, sense>>
    BY <1>3, <1>9 DEF got
  <2>2. fifo = <<>> => byte \in {3, 7, 15, 230}
    BY <1>1, <1>4, <1>9
  <2> QED
    BY <1>2, <1>9, <2>1, <2>2 DEF Kept
<1>10. CASE results = <<>> /\ got[1] \in Opcodes /\ full /\ fifo = <<>>
  <2>1. byte = 8 /\ got[1] = 8
    BY <1>1, <1>6, <1>10
  <2>2. /\ fifo' = <<>> /\ working' = <<>> /\ sense' = (sense /\ got[1] # SENSE)
        /\ results' = IF sense THEN <<32, track>> ELSE <<128>>
    BY <1>3, <1>10, <2>1
  <2>3. sense' = FALSE
    BY <2>1, <2>2
  <2> QED
    BY <1>10, <2>1, <2>2, <2>3 DEF Asked
<1>11. CASE results = <<>> /\ got[1] \in Opcodes /\ full /\ fifo # <<>> /\ fifo[1] = 3
  <2>1. got[1] = 3
    BY <1>1, <1>11
  <2>2. /\ fifo' = <<>> /\ working' = <<>> /\ sense' = (sense /\ got[1] # SENSE)
        /\ results' = <<>>
    BY <1>3, <1>11, <2>1
  <2>3. sense' = sense
    BY <2>1, <2>2 DEF FloppyInv, TypeOK
  <2> QED
    BY <1>11, <2>2, <2>3 DEF Specified
<1>12. CASE results = <<>> /\ got[1] \in Opcodes /\ full /\ fifo # <<>> /\ fifo[1] # 3
  <2>1. fifo[1] \in {7, 15, 230} /\ got[1] = fifo[1] /\ Len(fifo) = Args(fifo[1])
    BY <1>1, <1>2, <1>5, <1>12
  <2>2. working' = got /\ results' = <<>> /\ fifo' = <<>> /\ sense' = sense
    BY <1>3, <1>12, <2>1 DEF FloppyInv, TypeOK
  <2> QED
    BY <1>12, <2>1, <2>2 DEF Begun, got
<1> QED
  BY <1>7, <1>8, <1>9, <1>10, <1>11, <1>12

\* What is the same whichever way the controller takes the byte.
LEMMA SendStays ==
  ASSUME FloppyInv, flpydsk_send_command, Accept(Head(todo)), working = <<>>, UNCHANGED timedOut
  PROVE  /\ todo # <<>> /\ todo' = Tail(todo) /\ todo' \in Seq(Int) /\ Head(todo) \in Int
         /\ UNCHANGED <<op, at, st, lba, dma, flag, result, error, passed, timedOut>>
         /\ UNCHANGED <<dor, irq, track, buffer>>
         /\ irq = FALSE /\ flag = 0
         /\ at \in {"wait", "sensing", "calibrate", "installed"}
         /\ Len(todo') = Len(todo) - 1 /\ Len(todo) \in Nat /\ Len(todo) >= 1
         /\ Chs' = Chs /\ SeekBytes' = SeekBytes /\ ReadBytes' = ReadBytes
         /\ Sending' /\ Motor'
<1>1. /\ todo # <<>> /\ todo' = Tail(todo)
      /\ UNCHANGED <<op, at, st, lba, dma, flag, result, error, passed, timedOut>>
      /\ UNCHANGED <<dor, irq, track, buffer>>
  BY DEF flpydsk_send_command, told, Accept
<1>2. /\ todo' \in Seq(Int) /\ Head(todo) \in Int
      /\ Len(todo') = Len(todo) - 1 /\ Len(todo) \in Nat /\ Len(todo) >= 1
  BY <1>1, ByteSent
<1>3. ~irq /\ flag = 0 /\ at \in {"wait", "sensing", "calibrate", "installed"} /\ irq = FALSE
  BY <1>1, QuietSending DEF FloppyInv, TypeOK
<1>4. Chs' = Chs /\ SeekBytes' = SeekBytes /\ ReadBytes' = ReadBytes
  BY <1>1 DEF SeekBytes, ReadBytes, Chs
<1>5. Sending'
  BY <1>1, SendingOn
<1>6. Motor'
  BY <1>1, AimedStays DEF FloppyInv, Motor, MotorOn, MotorOff
<1> QED
  BY <1>1, <1>2, <1>3, <1>4, <1>5, <1>6

\* A byte that begins no command, or that is dropped, starts nothing.
LEMMA SendDropped ==
  ASSUME FloppyInv, flpydsk_send_command, Accept(Head(todo)), working = <<>>,
         UNCHANGED timedOut, Dropped \/ Invalid(Head(todo))
  PROVE  FloppyInv'
<1>1. /\ UNCHANGED <<working, sense>> /\ results' # <<>> /\ results' \in Seq(Int)
      /\ fifo' = fifo \/ fifo' = <<>>
  <2>1. <<128>> # <<>> /\ <<128>> \in Seq(Int)
    OBVIOUS
  <2> QED
    BY <2>1 DEF Dropped, Invalid, FloppyInv, TypeOK
<1>2. at # "sensing" \/ results # <<>>
  <2>1. at = "sensing" => fifo = <<>> /\ Head(todo) = 8
    BY SendStays, ByteSent DEF FloppyInv, Arriving
  <2> QED
    BY <2>1, Codes DEF Dropped, Invalid
<1>3. /\ UNCHANGED <<op, at, st, lba, dma, flag, result, error, passed, timedOut>>
      /\ UNCHANGED <<dor, irq, track, buffer>>
      /\ Chs' = Chs /\ ReadBytes' = ReadBytes
      /\ at \in {"wait", "sensing", "calibrate", "installed"}
      /\ irq = FALSE /\ flag = 0 /\ todo # <<>> /\ todo' = Tail(todo) /\ todo' \in Seq(Int)
      /\ Len(todo') = Len(todo) - 1 /\ Len(todo) \in Nat /\ Len(todo) >= 1
  BY SendStays
<1>4. TypeOK'
  BY <1>1, <1>3 DEF FloppyInv, TypeOK
<1>5. Arriving'
  <2>1. fifo # <<>> => /\ Len(fifo) \in Nat /\ fifo[1] \in Moving \cup {SPECIFY}
    BY DEF FloppyInv, TypeOK, Arriving
  <2>2. fifo # <<>> /\ fifo[1] \in Moving => Args(fifo[1]) \in Nat
    BY Codes
  <2>3. at = "wait" /\ op = "read" /\ fifo # <<>> => Len(fifo) + Len(todo) <= 9
    BY Codes DEF FloppyInv, Arriving
  <2> QED
    BY <1>1, <1>3, <2>1, <2>2, <2>3 DEF FloppyInv, Arriving
<1>6. OneInterrupt' /\ Working'
  BY <1>1, <1>3 DEF OneInterrupt, Working
<1>7. Answering'
  BY <1>1, <1>3 DEF FloppyInv, Answering
<1>8. Sensing'
  <2>1. at # "sensing" \/ op = "read"
    BY <1>2, <1>3 DEF FloppyInv, Sensing
  <2> QED
    BY <1>1, <1>3, <2>1 DEF FloppyInv, Sensing
<1> QED
  BY <1>4, <1>5, <1>6, <1>7, <1>8, SendStays DEF FloppyInv

\* Of a read nothing has arrived: the opcode comes now, or never.
LEMMA OpcodeOrNever ==
  \A n \in Nat, b \in Int :
    /\ n >= 8 /\ n <= 9 /\ b \notin {0, 1}
    /\ n = 8 => b \in {0, 1}
    /\ n = 9 => b = 230
    => n = 9 /\ b = 230
  OBVIOUS

\* A byte that begins or continues a command.
LEMMA SendKept ==
  ASSUME FloppyInv, flpydsk_send_command, Accept(Head(todo)), working = <<>>,
         UNCHANGED timedOut, Kept(Head(todo))
  PROVE  FloppyInv'
<1> DEFINE byte == Head(todo)
<1> USE Codes
<1>1. /\ UNCHANGED <<op, at, st, lba, dma, flag, result, error, passed, timedOut>>
      /\ UNCHANGED <<dor, irq, track, buffer, results, working, sense>> /\ working = <<>>
      /\ Chs' = Chs /\ ReadBytes' = ReadBytes
      /\ at \in {"wait", "sensing", "calibrate", "installed"}
      /\ irq = FALSE /\ flag = 0 /\ todo # <<>> /\ todo' = Tail(todo) /\ todo' \in Seq(Int)
      /\ Len(todo') = Len(todo) - 1 /\ Len(todo) \in Nat /\ Len(todo) >= 1
      /\ byte \in Int /\ results = <<>> /\ fifo' = Append(fifo, byte)
  BY SendStays DEF Kept
<1>0. fifo \in Seq(Int) /\ fifo' = Append(fifo, byte) /\ byte \in Int
  BY <1>1 DEF FloppyInv, TypeOK
<1>2. /\ fifo' \in Seq(Int) /\ fifo' # <<>> /\ Len(fifo') = Len(fifo) + 1 /\ Len(fifo) \in Nat
      /\ fifo = <<>> => fifo'[1] = byte /\ Len(fifo) = 0
      /\ fifo # <<>> => Len(fifo) >= 1 /\ fifo'[1] = fifo[1]
      /\ \A n \in 1..Len(fifo) : fifo'[n] = fifo[n]
      /\ fifo'[Len(fifo) + 1] = byte
  BY <1>0, Appended
<1>3. IF fifo = <<>> THEN byte \in {3, 7, 15, 230} ELSE fifo[1] \in {3, 7, 15, 230}
  BY DEF Kept
<1>4. at # "sensing"
  BY <1>1, <1>3, ByteSent DEF FloppyInv, Arriving
<1>5. TypeOK'
  BY <1>1, <1>2 DEF FloppyInv, TypeOK
<1>6. fifo'[1] \in {3, 7, 15, 230}
  BY <1>2, <1>3
<1>7. ASSUME fifo'[1] \in Moving
      PROVE  /\ at = "wait" /\ Len(fifo') + Len(todo') <= Args(fifo'[1]) + 1
             /\ op # "read" => Len(fifo') + Len(todo') <= 3
  <2>1. CASE fifo = <<>>
    <3>1. byte \in {7, 15, 230} /\ fifo'[1] = byte
      BY <1>2, <1>7, <2>1
    <3>2. at = "wait"
      BY <1>1, <1>4, <3>1, ByteSent
    <3>3. Len(fifo') + Len(todo') = Len(todo)
      BY <1>1, <1>2, <2>1
    <3>4. op = "calibrate" => Len(todo) <= 2 /\ byte = 7
      BY <1>1, <3>1, <3>2, ByteSent
    <3>5. op = "seek" => Len(todo) = 1 \/ (Len(todo) = 3 /\ byte = 15)
      BY <1>1, <3>1, <3>2, ByteSent
    <3>6. op = "read" => Len(todo) = 9 /\ byte = 230
      <4>1. op = "read" => Len(todo) >= 8
        BY <1>1, <2>1, <3>2 DEF FloppyInv, Arriving
      <4>2. op = "read" => Len(todo) <= 9 /\ (Len(todo) = 8 => byte \in {0, 1})
                           /\ (Len(todo) = 9 => byte = 230)
        BY <1>1, <3>2, ByteSent
      <4>3. Len(todo) \in Nat /\ byte \notin {0, 1}
        BY <1>1, <3>1
      <4> QED
        BY <4>1, <4>2, <4>3, <1>1, OpcodeOrNever
    <3>7. op \in {"calibrate", "seek", "read"}
      BY <1>1, <3>2, ByteSent
    <3>8. Len(todo) <= Args(byte) + 1 /\ (op # "read" => Len(todo) <= 3)
      <4>1. CASE byte = 7
        BY <1>1, <3>4, <3>5, <3>6, <3>7, <4>1
      <4>2. CASE byte = 15
        BY <1>1, <3>4, <3>5, <3>6, <3>7, <4>2
      <4>3. CASE byte = 230
        <5>1. op # "calibrate" /\ (op = "seek" => Len(todo) = 1)
          BY <3>4, <3>5, <4>3
        <5>2. Args(byte) = 8
          BY <4>3
        <5>3. \A n \in Nat : n = 9 \/ n = 1 => n <= 8 + 1 /\ (n = 1 => n <= 3)
          OBVIOUS
        <5>4. Len(todo) = 9 \/ Len(todo) = 1
          BY <3>6, <3>7, <5>1
        <5> QED
          BY <1>1, <3>6, <3>7, <5>1, <5>2, <5>3, <5>4
      <4> QED
        BY <3>1, <4>1, <4>2, <4>3
    <3> QED
      BY <3>1, <3>2, <3>3, <3>8
  <2>2. CASE fifo # <<>>
    <3>1. fifo'[1] = fifo[1] /\ fifo[1] \in Moving
      BY <1>2, <1>7, <2>2
    <3>2. /\ at = "wait" /\ Len(fifo) + Len(todo) <= Args(fifo[1]) + 1
          /\ op # "read" => Len(fifo) + Len(todo) <= 3
      BY <2>2, <3>1 DEF FloppyInv, Arriving
    <3>3. Len(fifo') + Len(todo') = Len(fifo) + Len(todo)
      BY <1>1, <1>2
    <3> QED
      BY <3>1, <3>2, <3>3
  <2> QED
    BY <2>1, <2>2
<1>8. ASSUME at = "wait", op = "read"
      PROVE  /\ fifo'[1] = READ
             /\ Len(fifo') + Len(todo') = 9 => \A n \in 1..Len(fifo') : fifo'[n] = ReadBytes[n]
  <2>1. CASE fifo = <<>>
    <3>1. Len(todo) = 9 /\ byte = 230
      <4>1. Len(todo) >= 8
        BY <1>1, <1>8, <2>1 DEF FloppyInv, Arriving
      <4>2. /\ Len(todo) <= 9 /\ (Len(todo) = 8 => byte \in {0, 1})
            /\ Len(todo) = 9 => byte = 230
        BY <1>1, <1>8, ByteSent
      <4>3. Len(todo) \in Nat /\ byte \notin {0, 1}
        BY <1>1, <1>3, <2>1
      <4> QED
        BY <4>1, <4>2, <4>3, <1>1, OpcodeOrNever
    <3>2. Len(fifo') = 1 /\ fifo'[1] = 230 /\ ReadBytes[1] = 230
      BY <1>2, <2>1, <3>1, BytesTyped DEF FloppyInv
    <3> QED
      BY <3>2
  <2>2. CASE fifo # <<>>
    <3>1. fifo'[1] = READ
      BY <1>2, <1>8, <2>2 DEF FloppyInv, Arriving
    <3>2. ASSUME Len(fifo') + Len(todo') = 9
          PROVE  \A n \in 1..Len(fifo') : fifo'[n] = ReadBytes[n]
      <4>1. Len(fifo) + Len(todo) = 9
        BY <1>1, <1>2, <3>2
      <4>2. \A n \in 1..Len(fifo) : fifo[n] = ReadBytes[n]
        BY <1>8, <2>2, <4>1 DEF FloppyInv, Arriving
      <4>3. byte = ReadBytes[10 - Len(todo)] /\ 10 - Len(todo) = Len(fifo) + 1
        BY <1>1, <1>2, <1>8, <4>1, ByteSent
      <4>4. fifo'[Len(fifo) + 1] = ReadBytes[Len(fifo) + 1]
        BY <1>2, <4>3
      <4>5. \A k \in Nat : \A n \in 1..(k + 1) : n \in 1..k \/ n = k + 1
        OBVIOUS
      <4>6. \A n \in 1..Len(fifo') : n \in 1..Len(fifo) \/ n = Len(fifo) + 1
        BY <1>2, <4>5
      <4> QED
        BY <1>2, <4>2, <4>4, <4>6
    <3> QED
      BY <3>1, <3>2
  <2> QED
    BY <2>1, <2>2
<1>9. Arriving'
  BY <1>1, <1>2, <1>4, <1>6, <1>7, <1>8 DEF Arriving
<1>10. OneInterrupt' /\ Working'
  BY <1>1 DEF OneInterrupt, Working
<1>11. Answering'
  BY <1>1 DEF FloppyInv, Answering
<1>12. Sensing'
  BY <1>1, <1>4 DEF FloppyInv, Sensing
<1> QED
  BY <1>5, <1>9, <1>10, <1>11, <1>12, SendStays DEF FloppyInv

\* What a step that sends a byte leaves as it was.
LEMMA SendLeaves ==
  ASSUME FloppyInv, flpydsk_send_command, Accept(Head(todo)), working = <<>>,
         UNCHANGED timedOut
  PROVE  /\ UNCHANGED <<op, at, st, lba, dma, flag, result, error, passed, timedOut>>
         /\ UNCHANGED <<dor, irq, track, buffer>>
         /\ Chs' = Chs /\ ReadBytes' = ReadBytes
         /\ at \in {"wait", "sensing", "calibrate", "installed"}
         /\ irq = FALSE /\ flag = 0 /\ todo # <<>> /\ todo' \in Seq(Int)
         /\ Len(todo') = Len(todo) - 1 /\ Len(todo) \in Nat /\ Len(todo) >= 1
         /\ Head(todo) \in Int
  BY SendStays

\* Asked about an interrupt, the controller tells of the one it has.
LEMMA SendAsked ==
  ASSUME FloppyInv, flpydsk_send_command, Accept(Head(todo)), working = <<>>,
         UNCHANGED timedOut, Asked(Head(todo))
  PROVE  FloppyInv'
<1> USE Codes
<1>1. /\ UNCHANGED <<op, at, st, lba, dma, flag, result, error, passed, timedOut>>
      /\ UNCHANGED <<dor, irq, track, buffer>>
      /\ Chs' = Chs /\ ReadBytes' = ReadBytes
      /\ at \in {"wait", "sensing", "calibrate", "installed"}
      /\ irq = FALSE /\ flag = 0 /\ todo # <<>> /\ todo' \in Seq(Int)
      /\ Len(todo) \in Nat
  BY SendLeaves
<1>2. /\ results = <<>> /\ fifo = <<>> /\ Head(todo) = 8 /\ fifo' = <<>>
      /\ working' = <<>> /\ sense' = FALSE
      /\ results' = IF sense THEN <<32, track>> ELSE <<128>>
  BY DEF Asked
<1>3. at = "sensing" \/ (at = "wait" /\ op = "seek")
  <2>1. at \notin {"calibrate", "installed"}
    BY <1>1, <1>2, ByteSent
  <2>2. at = "wait" => op # "calibrate"
    BY <1>1, <1>2, ByteSent
  <2>3. at = "wait" => op # "read"
    <3> SUFFICES ASSUME at = "wait", op = "read"
                 PROVE  FALSE
      OBVIOUS
    <3>1. Len(todo) >= 8
      BY <1>1, <1>2 DEF FloppyInv, Arriving
    <3>2. /\ Len(todo) <= 9 /\ (Len(todo) = 8 => Head(todo) \in {0, 1})
          /\ Len(todo) = 9 => Head(todo) = 230
      BY <1>1, ByteSent
    <3>3. 8 \in Int /\ 8 \notin {0, 1} /\ 8 # 230
      OBVIOUS
    <3> QED
      BY <1>1, <1>2, <3>1, <3>2, <3>3, OpcodeOrNever
  <2>4. at = "wait" => op \in {"calibrate", "seek", "read"}
    BY <1>1, ByteSent
  <2> QED
    BY <1>1, <2>1, <2>2, <2>3, <2>4
<1>4. TypeOK'
  <2>1. results' \in Seq(Int)
    BY <1>2 DEF FloppyInv, TypeOK
  <2> QED
    BY <1>1, <1>2, <2>1 DEF FloppyInv, TypeOK
<1>5. Arriving'
  BY <1>1, <1>2, <1>3 DEF Arriving
<1>6. OneInterrupt' /\ Working'
  BY <1>1, <1>2 DEF OneInterrupt, Working
<1>7. Answering'
  BY <1>1 DEF FloppyInv, Answering
<1>8. Sensing'
  <2>1. op # "read" /\ at = "sensing" => st = <<>> /\ results' = <<32, track>> /\ todo' = <<>>
    <3>1. op # "read" /\ at = "sensing" => sense /\ st = <<>>
      BY <1>1 DEF FloppyInv, Sensing
    <3>2. at = "sensing" => todo' = <<>>
      BY <1>1, ByteSent DEF flpydsk_send_command
    <3> QED
      BY <1>2, <3>1, <3>2
  <2> QED
    BY <1>1, <1>3, <2>1 DEF FloppyInv, Sensing
<1> QED
  BY <1>4, <1>5, <1>6, <1>7, <1>8, SendStays DEF FloppyInv

\* The drive's data are taken, and not answered.
LEMMA SendSpecified ==
  ASSUME FloppyInv, flpydsk_send_command, Accept(Head(todo)), working = <<>>,
         UNCHANGED timedOut, Specified
  PROVE  FloppyInv'
<1> USE Codes
<1>1. /\ UNCHANGED <<op, at, st, lba, dma, flag, result, error, passed, timedOut>>
      /\ UNCHANGED <<dor, irq, track, buffer>>
      /\ Chs' = Chs /\ ReadBytes' = ReadBytes
      /\ at \in {"wait", "sensing", "calibrate", "installed"}
      /\ irq = FALSE /\ flag = 0 /\ todo # <<>> /\ todo' \in Seq(Int)
  BY SendLeaves
<1>2. /\ results = <<>> /\ fifo # <<>> /\ fifo[1] = 3 /\ fifo' = <<>>
      /\ working' = <<>> /\ results' = <<>> /\ sense' = sense
  BY DEF Specified
<1>3. at # "sensing" /\ ~(at = "wait" /\ op = "read")
  BY <1>2 DEF FloppyInv, Arriving
<1>4. TypeOK'
  BY <1>1, <1>2 DEF FloppyInv, TypeOK
<1>5. Arriving'
  BY <1>1, <1>2, <1>3 DEF Arriving
<1>6. OneInterrupt' /\ Working'
  BY <1>1, <1>2 DEF OneInterrupt, Working
<1>7. Answering'
  BY <1>1 DEF FloppyInv, Answering
<1>8. Sensing'
  BY <1>1, <1>3 DEF FloppyInv, Sensing
<1> QED
  BY <1>4, <1>5, <1>6, <1>7, <1>8, SendStays DEF FloppyInv

\* The last byte of a command that moves the head or reads has arrived: it is
\* the last one that was sent, and none was lost.
LEMMA SendBegun ==
  ASSUME FloppyInv, flpydsk_send_command, Accept(Head(todo)), working = <<>>,
         UNCHANGED timedOut, Begun(Head(todo))
  PROVE  FloppyInv'
<1> DEFINE byte == Head(todo)
<1> USE Codes
<1>1. /\ UNCHANGED <<op, at, st, lba, dma, flag, result, error, passed, timedOut>>
      /\ UNCHANGED <<dor, irq, track, buffer>>
      /\ Chs' = Chs /\ ReadBytes' = ReadBytes
      /\ irq = FALSE /\ flag = 0 /\ todo # <<>> /\ todo' \in Seq(Int)
      /\ Len(todo') = Len(todo) - 1 /\ Len(todo) \in Nat /\ Len(todo) >= 1
      /\ byte \in Int
  BY SendLeaves
<1>2. /\ results = <<>> /\ fifo # <<>> /\ fifo[1] \in {7, 15, 230}
      /\ Len(fifo) = Args(fifo[1]) /\ fifo' = <<>>
      /\ working' = Append(fifo, byte) /\ results' = <<>> /\ sense' = sense
  BY DEF Begun
<1>3. at = "wait" /\ Len(fifo) + Len(todo) <= Args(fifo[1]) + 1
      /\ (op # "read" => Len(fifo) + Len(todo) <= 3)
  BY <1>2 DEF FloppyInv, Arriving
<1>4. Len(todo) = 1 /\ todo' = <<>>
  <2>1. \A n, m, k \in Nat : n >= 1 /\ m = k /\ m + n <= k + 1 => n = 1
    OBVIOUS
  <2>2. Len(fifo) \in Nat /\ Args(fifo[1]) \in Nat
    BY <1>2 DEF FloppyInv, TypeOK
  <2>3. Len(todo) = 1
    BY <1>1, <1>2, <1>3, <2>1, <2>2
  <2> QED
    BY <1>1, <2>3
<1>5. /\ working' \in Seq(Int) /\ Len(working') = Len(fifo) + 1 /\ working'[1] = fifo[1]
      /\ working' # <<>> /\ Len(fifo) \in Nat
      /\ \A n \in 1..Len(fifo) : working'[n] = fifo[n]
      /\ working'[Len(fifo) + 1] = byte
  <2>1. fifo \in Seq(Int)
    BY DEF FloppyInv, TypeOK
  <2> QED
    BY <1>1, <1>2, <2>1, Appended
<1>6. op \in {"calibrate", "seek", "read"}
  BY <1>1, <1>3, ByteSent
<1>7. op = "read" => working' = ReadBytes
  <2> SUFFICES ASSUME op = "read"
               PROVE  working' = ReadBytes
    OBVIOUS
  <2>1. fifo[1] = 230 /\ Len(fifo) = 8 /\ Len(fifo) + Len(todo) = 9
    <3>1. fifo[1] = 230
      BY <1>2, <1>3 DEF FloppyInv, Arriving
    <3> QED
      BY <1>2, <1>4, <3>1
  <2>2. \A n \in 1..8 : fifo[n] = ReadBytes[n]
    BY <1>2, <1>3, <2>1 DEF FloppyInv, Arriving
  <2>3. byte = ReadBytes[9]
    BY <1>1, <1>3, <1>4, ByteSent
  <2>4. ReadBytes \in Seq(Int) /\ Len(ReadBytes) = 9
    BY BytesTyped DEF FloppyInv
  <2>5. Len(working') = 9 /\ \A n \in 1..9 : working'[n] = ReadBytes[n]
    BY <1>5, <2>1, <2>2, <2>3
  <2> QED
    BY <1>5, <2>4, <2>5, SameBytes
<1>8. op # "read" => working'[1] \in {7, 15} /\ (working'[1] = 15 => Len(working') = 3)
  <2> SUFFICES ASSUME op # "read"
               PROVE  working'[1] \in {7, 15} /\ (working'[1] = 15 => Len(working') = 3)
    OBVIOUS
  <2>1. Len(fifo) <= 2
    BY <1>3, <1>4, <1>5
  <2>2. fifo[1] # 230
    BY <1>2, <2>1
  <2> QED
    BY <1>2, <1>5, <2>2
<1>9. TypeOK'
  BY <1>1, <1>2, <1>5 DEF FloppyInv, TypeOK
<1>10. Arriving'
  BY <1>1, <1>2, <1>4 DEF Arriving
<1>11. OneInterrupt'
  BY <1>1, <1>2, <1>3, <1>4 DEF OneInterrupt
<1>12. Working'
  <2>1. op = "read" => ReadBytes[1] = 230
    BY BytesTyped DEF FloppyInv
  <2> QED
    BY <1>1, <1>2, <1>6, <1>7, <1>8, <2>1 DEF Working
<1>13. Answering'
  BY <1>1, <1>3 DEF FloppyInv, Answering
<1>14. Sensing'
  BY <1>1, <1>3 DEF FloppyInv, Sensing
<1> QED
  BY <1>9, <1>10, <1>11, <1>12, <1>13, <1>14, SendStays DEF FloppyInv

LEMMA SendKeeps ==
  ASSUME FloppyInv, flpydsk_send_command
  PROVE  FloppyInv'
<1>1. CASE working = <<>> /\ Accept(Head(todo)) /\ UNCHANGED timedOut
  <2>1. Head(todo) \in Int
    BY ByteSent DEF flpydsk_send_command
  <2> QED
    BY <1>1, <2>1, Accepted, SendDropped, SendKept, SendAsked, SendSpecified, SendBegun
<1>2. CASE TimeOut /\ UNCHANGED fdc
  BY <1>2, SendTimesOut
<1> QED
  BY <1>1, <1>2 DEF flpydsk_send_command

-----------------------------------------------------------------------------
(* Reading, and the interrupt *)

\* Outside the wait nothing is at work and no interrupt is pending.
LEMMA Idle ==
  ASSUME FloppyInv, at \notin {"wait", "clear"}
  PROVE  working = <<>> /\ irq = FALSE /\ flag = 0
  BY DEF FloppyInv, OneInterrupt, TypeOK

\* A byte is read, or is not there, or is not waited for.
LEMMA ReadKeeps ==
  ASSUME FloppyInv, flpydsk_read_data
  PROVE  FloppyInv'
<1> DEFINE Came == results # <<>> /\ st' = Append(st, Head(results)) /\ results' = Tail(results)
                   /\ UNCHANGED timedOut
           Silent == results = <<>> /\ UNCHANGED <<results, timedOut>>
                      /\ \E byte \in {0, 255} : st' = Append(st, byte)
           Late == timedOut = FALSE /\ timedOut' = TRUE /\ UNCHANGED results /\ st' = Append(st, 0)
<1>1. /\ UNCHANGED <<op, at, todo, lba, dma, flag, result, error, passed>>
      /\ UNCHANGED <<dor, fifo, working, sense, irq, track, buffer>>
      /\ todo = <<>> /\ (at = "results" \/ (at = "sensing" /\ Len(st) < 2))
  BY DEF flpydsk_read_data, told
<1>2. working = <<>> /\ irq = FALSE /\ flag = 0
  BY <1>1, Idle
<1>3. Came \/ Silent \/ Late
  BY <1>2 DEF flpydsk_read_data, TimeOut, FloppyInv, TypeOK
<1>4. /\ st \in Seq(Int) /\ results \in Seq(Int) /\ track \in Int /\ Chs' = Chs
      /\ SeekBytes' = SeekBytes /\ ReadBytes' = ReadBytes
  BY <1>1 DEF FloppyInv, TypeOK, Chs, SeekBytes, ReadBytes
<1>5. PICK byte \in Int : st' = Append(st, byte) /\ (results # <<>> /\ ~Late => byte = results[1])
  BY <1>3, <1>4
<1>6. /\ st' \in Seq(Int) /\ Len(st') = Len(st) + 1 /\ Len(st) \in Nat
      /\ \A n \in 1..Len(st) : st'[n] = st[n]
      /\ st'[Len(st) + 1] = byte
      /\ st = <<>> => Len(st) = 0
  BY <1>4, <1>5
<1>7. results' \in Seq(Int) /\ timedOut' \in BOOLEAN
  <2>1. results # <<>> => Tail(results) \in Seq(Int)
    BY <1>4
  <2> QED
    BY <1>3, <1>4, <2>1 DEF FloppyInv, TypeOK
<1>8. TypeOK'
  BY <1>1, <1>6, <1>7 DEF FloppyInv, TypeOK
<1>9. Sending' /\ Arriving'
  BY <1>1, <1>4 DEF FloppyInv, Sending, Arriving
<1>10. OneInterrupt' /\ Working'
  BY <1>1, <1>2 DEF FloppyInv, OneInterrupt, Working
<1>11. FailureShows => FailureShows'
  <2>1. CASE st = <<>> /\ results # <<>> /\ results[1] = 64
    <3>1. Len(st') = 1
      BY <1>6, <2>1
    <3>2. CASE Late
      BY <2>1, <3>1, <3>2 DEF FailureShows
    <3>3. CASE ~Late
      <4>1. st'[1] = 64
        BY <1>5, <1>6, <2>1, <3>3
      <4> QED
        BY <3>1, <4>1 DEF FailureShows
    <3> QED
      BY <3>2, <3>3
  <2>2. CASE Len(st) = 1 /\ timedOut /\ results # <<>> /\ results[1] = 64
    <3>1. ~Late
      BY <2>2
    <3>2. Len(st') = 2 /\ st'[2] = 64
      BY <1>5, <1>6, <2>2, <3>1
    <3> QED
      BY <3>2 DEF FailureShows
  <2>3. CASE Len(st) >= 1 /\ st[1] = 64
    <3>1. Len(st') >= 1 /\ st'[1] = 64
      BY <1>6, <2>3
    <3> QED
      BY <3>1 DEF FailureShows
  <2>4. CASE Len(st) >= 2 /\ st[2] = 64
    <3>1. Len(st') >= 2 /\ st'[2] = 64
      BY <1>6, <2>4
    <3> QED
      BY <3>1 DEF FailureShows
  <2> QED
    BY <2>1, <2>2, <2>3, <2>4 DEF FailureShows
<1>12. Answering'
  BY <1>1, <1>2, <1>4, <1>11 DEF FloppyInv, Answering
<1>13. Sensing'
  <2>1. ASSUME op # "read", at = "sensing", ~timedOut'
        PROVE  \/ st' = <<32>> /\ results' = <<track>>
               \/ st' = <<32, track>>
    <3>1. ~timedOut /\ ~Late
      BY <1>3, <2>1
    <3>2. \/ st = <<>> /\ results = <<32, track>>
          \/ st = <<32>> /\ results = <<track>>
          \/ st = <<32, track>>
      BY <1>1, <2>1, <3>1 DEF FloppyInv, Sensing
    <3>3. CASE st = <<>> /\ results = <<32, track>>
      <4>1. Came
        BY <1>3, <3>1, <3>3
      <4> QED
        BY <1>4, <3>3, <4>1
    <3>4. CASE st = <<32>> /\ results = <<track>>
      <4>1. Came
        BY <1>3, <3>1, <3>4
      <4>2. \A t \in Int : /\ Head(<<t>>) = t /\ Tail(<<t>>) = <<>>
                           /\ Append(<<32>>, t) \in Seq(Int) /\ <<32, t>> \in Seq(Int)
                           /\ Len(Append(<<32>>, t)) = 2 /\ Len(<<32, t>>) = 2
        OBVIOUS
      <4>3. \A t \in Int : \A n \in 1..2 : Append(<<32>>, t)[n] = <<32, t>>[n]
        OBVIOUS
      <4>4. \A t \in Int : Append(<<32>>, t) = <<32, t>>
        BY <4>2, <4>3, SameBytes
      <4> QED
        BY <1>4, <3>4, <4>1, <4>2, <4>4
    <3>5. CASE st = <<32, track>>
      BY <1>1, <2>1, <3>5
    <3> QED
      BY <3>2, <3>3, <3>4, <3>5
  <2> QED
    BY <1>1, <1>2, <2>1 DEF FloppyInv, Sensing
<1>14. Motor'
  BY <1>1, AimedStays DEF FloppyInv, Motor, MotorOn, MotorOff
<1> QED
  BY <1>8, <1>9, <1>10, <1>12, <1>13, <1>14 DEF FloppyInv

\* The wait ends with the flag set, and the flag is cleared.
LEMMA WaitKeeps ==
  ASSUME FloppyInv, flpydsk_wait_irq
  PROVE  FloppyInv'
<1>1. /\ UNCHANGED <<op, todo, st, lba, dma, result, error, passed, timedOut>>
      /\ UNCHANGED <<dor, fifo, results, working, sense, irq, track, buffer>>
      /\ todo = <<>>
  BY DEF flpydsk_wait_irq, told, fdc
<1>2. \/ at = "wait" /\ flag # 0 /\ at' = "clear" /\ flag' = flag
      \/ at = "clear" /\ flag' = 0 /\ at' = IF op = "read" THEN "results" ELSE "sense"
  BY DEF flpydsk_wait_irq
<1>3. flag # 0 /\ working = <<>> /\ irq = FALSE /\ fifo = <<>> /\ st = <<>> /\ op # "none"
      /\ result = "none"
  BY <1>2 DEF FloppyInv, OneInterrupt, Answering, Sending, TypeOK
<1>4. /\ Chs' = Chs /\ ReadBytes' = ReadBytes
      /\ FailureShows' = FailureShows
  BY <1>1 DEF Chs, ReadBytes, FailureShows
<1>5. TypeOK'
  <2>1. at' \in Places /\ flag' \in {0, 1}
    BY <1>2 DEF FloppyInv, TypeOK, Places
  <2> QED
    BY <1>1, <2>1 DEF FloppyInv, TypeOK
<1>6. Sending' /\ Arriving'
  BY <1>1, <1>2, <1>3 DEF Sending, Arriving
<1>7. OneInterrupt' /\ Working'
  BY <1>1, <1>2, <1>3 DEF OneInterrupt, Working
<1>8. Answering'
  BY <1>1, <1>2, <1>3, <1>4 DEF FloppyInv, Answering
<1>9. Sensing'
  BY <1>1, <1>2, <1>3 DEF FloppyInv, Sensing
<1>10. Motor'
  <2>1. Aimed' = Aimed
    BY <1>1, AimedStays
  <2> QED
    BY <1>1, <1>2, <2>1 DEF FloppyInv, Motor, MotorOn, MotorOff
<1> QED
  BY <1>5, <1>6, <1>7, <1>8, <1>9, <1>10 DEF FloppyInv

\* The interrupt sets the flag.
LEMMA IrqKeeps ==
  ASSUME FloppyInv, i86_flpy_irq
  PROVE  FloppyInv'
<1>1. /\ UNCHANGED <<op, at, todo, st, lba, dma, result, error, passed, timedOut>>
      /\ UNCHANGED <<dor, fifo, results, working, sense, track, buffer>>
      /\ irq /\ irq' = FALSE /\ flag' = 1
  BY DEF i86_flpy_irq, driver, told
<1>2. working = <<>> /\ todo = <<>> /\ fifo = <<>> /\ at \in {"wait", "clear"}
  BY <1>1 DEF FloppyInv, OneInterrupt
<1>3. /\ Chs' = Chs /\ SeekBytes' = SeekBytes /\ ReadBytes' = ReadBytes
      /\ FailureShows' = FailureShows
  BY <1>1 DEF Chs, SeekBytes, ReadBytes, FailureShows
<1>4. TypeOK'
  BY <1>1 DEF FloppyInv, TypeOK
<1>5. Sending' /\ Arriving'
  BY <1>1, <1>2, <1>3 DEF FloppyInv, Sending, Arriving
<1>6. OneInterrupt' /\ Working'
  BY <1>1, <1>2 DEF OneInterrupt, Working
<1>7. Answering'
  BY <1>1, <1>3 DEF FloppyInv, Answering
<1>8. Sensing'
  BY <1>1, <1>2 DEF FloppyInv, Sensing
<1>9. Motor'
  BY <1>1, AimedStays DEF FloppyInv, Motor, MotorOn, MotorOff
<1> QED
  BY <1>4, <1>5, <1>6, <1>7, <1>8, <1>9 DEF FloppyInv

\* The controller ends what is at work.
LEMMA CompleteKeeps ==
  ASSUME FloppyInv, Complete
  PROVE  FloppyInv'
<1> USE Codes
<1>1. /\ UNCHANGED <<op, at, todo, st, lba, dma, flag, result, error, passed, timedOut>>
      /\ UNCHANGED <<dor, fifo>> /\ working # <<>> /\ working' = <<>>
      /\ irq' = (irq \/ "DMA" \in dor)
  BY DEF Complete, driver, told
<1>2. /\ todo = <<>> /\ fifo = <<>> /\ flag = 0 /\ results = <<>> /\ at = "wait" /\ st = <<>>
      /\ op # "none" /\ result = "none"
  BY <1>1 DEF FloppyInv, OneInterrupt, Working, Answering, Sending
<1>3. /\ Chs' = Chs /\ SeekBytes' = SeekBytes /\ ReadBytes' = ReadBytes
      /\ working \in Seq(Int) /\ track \in Int
  BY <1>1 DEF Chs, SeekBytes, ReadBytes, FloppyInv, TypeOK
<1>4. CASE op # "read"
  <2>1. working[1] \in {256, 7, 15} /\ (working[1] = 15 => working[3] \in Int)
    <3>1. working[1] \in {256, 7, 15} /\ (working[1] = 15 => Len(working) = 3)
      BY <1>1, <1>4 DEF FloppyInv, Working
    <3> QED
      BY <1>3, <3>1
  <2>2. sense' = TRUE /\ results' = results /\ buffer' = buffer /\ track' \in Int
    BY <1>3, <2>1 DEF Complete
  <2>3. TypeOK'
    BY <1>1, <2>2 DEF FloppyInv, TypeOK
  <2>4. Sending' /\ Arriving'
    BY <1>1, <1>2, <1>3, <1>4 DEF FloppyInv, Sending, Arriving
  <2>5. OneInterrupt' /\ Working'
    BY <1>1, <1>2 DEF OneInterrupt, Working
  <2>6. Answering'
    BY <1>1, <1>2, <1>4 DEF FloppyInv, Answering
  <2>7. Sensing'
    BY <1>1, <1>2, <2>2 DEF Sensing
  <2>8. Motor'
    BY <1>1, AimedStays DEF FloppyInv, Motor, MotorOn, MotorOff
  <2> QED
    BY <2>3, <2>4, <2>5, <2>6, <2>7, <2>8 DEF FloppyInv
<1>5. CASE op = "read"
  <2>1. working = ReadBytes /\ working[1] = 230
    BY <1>1, <1>5, BytesTyped DEF FloppyInv, Working
  <2>2. /\ working[3] = Chs[1] /\ working[4] = Chs[2] /\ working[5] = Chs[3]
        /\ Chs[1] \in Int /\ Chs[2] \in Int /\ Chs[3] \in Int
    BY <2>1, BytesTyped DEF FloppyInv
  <2>3. Chs = <<Chs[1], Chs[2], Chs[3]>>
    BY BytesTyped, ChsOfLba DEF Chs, FloppyInv
  <2>4. /\ UNCHANGED <<sense, track>>
        /\ \/ buffer' = Chs /\ results' = <<0, 0, 0, Chs[1], Chs[2], Chs[3], 2>>
           \/ buffer' = buffer /\ results' = <<64, 4, 0, Chs[1], Chs[2], Chs[3], 2>>
    BY <2>1, <2>2, <2>3 DEF Complete
  <2>5. results' \in Seq(Int) /\ (buffer' = Chs \/ FailureShows')
    <3>1. \A c, h, s \in Int :
            /\ <<0, 0, 0, c, h, s, 2>> \in Seq(Int)
            /\ <<64, 4, 0, c, h, s, 2>> \in Seq(Int)
            /\ <<64, 4, 0, c, h, s, 2>> # <<>> /\ <<64, 4, 0, c, h, s, 2>>[1] = 64
      OBVIOUS
    <3>2. st' = <<>>
      BY <1>1, <1>2
    <3>3. results' \in Seq(Int)
      <4>1. /\ <<0, 0, 0, Chs[1], Chs[2], Chs[3], 2>> \in Seq(Int)
            /\ <<64, 4, 0, Chs[1], Chs[2], Chs[3], 2>> \in Seq(Int)
        BY <2>2, <3>1
      <4> QED
        BY <2>4, <4>1
    <3>4. buffer' = Chs \/ (results' # <<>> /\ results'[1] = 64)
      BY <2>2, <2>4, <3>1
    <3> QED
      BY <3>2, <3>3, <3>4 DEF FailureShows
  <2>6. TypeOK'
    BY <1>1, <2>4, <2>5 DEF FloppyInv, TypeOK
  <2>7. Sending' /\ Arriving'
    BY <1>1, <1>2, <1>3, <1>5 DEF FloppyInv, Sending, Arriving
  <2>8. OneInterrupt' /\ Working'
    BY <1>1, <1>2 DEF OneInterrupt, Working
  <2>9. Answering'
    BY <1>1, <1>2, <1>3, <1>5, <2>5 DEF Answering
  <2>10. Sensing'
    BY <1>1, <1>2, <1>5 DEF Sensing
  <2>11. Motor'
    BY <1>1, AimedStays DEF FloppyInv, Motor, MotorOn, MotorOff
  <2> QED
    BY <2>6, <2>7, <2>8, <2>9, <2>10, <2>11 DEF FloppyInv
<1> QED
  BY <1>4, <1>5

-----------------------------------------------------------------------------
(* The driver, between its commands *)

LEMMA QuietStep ==
  ASSUME FloppyInv, at \notin {"wait", "clear"}, UNCHANGED <<flag, working, irq>>,
         at' # "clear"
  PROVE  OneInterrupt' /\ Working' /\ irq' = FALSE /\ flag' = 0
  BY Idle DEF OneInterrupt, Working

\* A command that follows waits for all of its bytes; of the one before no more
\* than the drive's data can have stuck in the controller.
LEMMA Whole ==
  /\ \A s \in Seq(Int) : Suffix(s, s)
  /\ \A a, b, c \in Int : <<a, b>> \in Seq(Int) /\ <<a, b, c>> \in Seq(Int)
<1>1. ASSUME NEW s \in Seq(Int)
      PROVE  Suffix(s, s)
  <2>1. \A k \in Nat : \A n \in 1..k : k - k + n = n
    OBVIOUS
  <2>2. Len(s) \in Nat
    OBVIOUS
  <2> QED
    BY <2>1, <2>2 DEF Suffix
<1>2. \A a, b, c \in Int : <<a, b>> \in Seq(Int) /\ <<a, b, c>> \in Seq(Int)
  OBVIOUS
<1> QED
  BY <1>1, <1>2

\* The bytes of a read: a bad one is reported.
LEMMA ReportKeeps ==
  ASSUME FloppyInv, Report
  PROVE  FloppyInv'
<1>1. /\ UNCHANGED <<op, todo, lba, dma, flag, result, passed, timedOut>>
      /\ UNCHANGED <<dor, fifo, results, working, sense, irq, track, buffer>>
      /\ at = "results" /\ Len(st) = 7 /\ st' = <<>> /\ at' = "sense"
      /\ error' = (st[1] # 0 \/ st[2] # 0 \/ st[3] # 0 \/ st[7] # 2)
  BY DEF Report, fdc
<1>2. Chs' = Chs /\ op = "read" /\ fifo = <<>> /\ todo = <<>> /\ result = "none"
  BY <1>1 DEF FloppyInv, Answering, Arriving, Sending, Chs, TypeOK
<1>3. TypeOK'
  <2>1. <<>> \in Seq(Int) /\ "sense" \in Places
    BY DEF Places
  <2>2. error' \in BOOLEAN
    BY <1>1
  <2> QED
    BY <1>1, <2>1, <2>2 DEF FloppyInv, TypeOK
<1>4. Sending' /\ Arriving'
  BY <1>1, <1>2 DEF Sending, Arriving
<1>5. OneInterrupt' /\ Working'
  BY <1>1, QuietStep
<1>6. Answering'
  <2>1. buffer = Chs \/ FailureShows
    BY <1>1, <1>2 DEF FloppyInv, Answering
  <2>2. FailureShows => error'
    <3>1. st # <<>> /\ Len(st) # 1
      BY <1>1
    <3>2. FailureShows => st[1] = 64 \/ st[2] = 64
      BY <3>1 DEF FailureShows
    <3>3. 64 # 0
      OBVIOUS
    <3> QED
      BY <1>1, <3>2, <3>3 DEF FailureShows
  <2>3. irq' = FALSE /\ flag' = 0
    BY <1>1, QuietStep
  <2> QED
    BY <1>1, <1>2, <2>1, <2>2, <2>3 DEF Answering
<1>7. Sensing'
  BY <1>1, <1>2 DEF Sensing
<1>8. Motor'
  <2>1. Aimed' = Aimed
    BY <1>1, AimedStays
  <2> QED
    BY <1>1, <2>1 DEF FloppyInv, Motor, MotorOn, MotorOff
<1> QED
  BY <1>3, <1>4, <1>5, <1>6, <1>7, <1>8 DEF FloppyInv

LEMMA CheckIntKeeps ==
  ASSUME FloppyInv, flpydsk_check_int
  PROVE  FloppyInv'
<1>1. /\ UNCHANGED <<op, lba, dma, flag, result, error, passed, timedOut>>
      /\ UNCHANGED <<dor, fifo, results, working, sense, irq, track, buffer>>
      /\ at = "sense" /\ st' = <<>> /\ at' = "sensing" /\ todo' = <<SENSE>>
  BY DEF flpydsk_check_int, fdc, told
<1>2. Chs' = Chs /\ op # "none" /\ fifo = <<>> /\ result = "none" /\ todo' # <<>>
  BY <1>1 DEF FloppyInv, Answering, Arriving, Chs, TypeOK
<1>3. TypeOK'
  <2>1. <<>> \in Seq(Int) /\ "sensing" \in Places /\ <<SENSE>> \in Seq(Int)
    BY DEF Places, SENSE
  <2> QED
    BY <1>1, <2>1 DEF FloppyInv, TypeOK
<1>4. Sending' /\ Arriving'
  BY <1>1, <1>2 DEF Sending, Arriving
<1>5. OneInterrupt' /\ Working' /\ irq' = FALSE /\ flag' = 0
  BY <1>1, QuietStep
<1>6. Answering'
  BY <1>1, <1>2, <1>5 DEF FloppyInv, Answering
<1>7. Sensing'
  BY <1>1, <1>2, <1>5 DEF FloppyInv, Sensing
<1>8. Motor'
  <2>1. Aimed' = Aimed
    BY <1>1, AimedStays
  <2> QED
    BY <1>1, <2>1 DEF FloppyInv, Motor, MotorOn, MotorOff
<1> QED
  BY <1>3, <1>4, <1>5, <1>6, <1>7, <1>8 DEF FloppyInv

LEMMA InstallKeeps ==
  ASSUME FloppyInv, flpydsk_install
  PROVE  FloppyInv'
<1>1. /\ UNCHANGED <<st, lba, dma, flag, result, error, passed, timedOut, sense, irq, track, buffer>>
      /\ at = "off" /\ op' = "reset" /\ todo' = <<>> /\ at' = "wait"
      /\ dor' = {"RESET", "DMA"} /\ working' = <<RESET>> /\ fifo' = <<>> /\ results' = <<>>
  BY DEF flpydsk_install, Send, told
<1>2. irq = FALSE /\ flag = 0 /\ st = <<>> /\ result = "none"
  BY <1>1, Idle DEF FloppyInv, Answering
<1>3. <<RESET>> \in Seq(Int) /\ <<RESET>>[1] = 256 /\ <<RESET>> # <<>>
  BY DEF RESET
<1>4. TypeOK'
  <2>1. <<>> \in Seq(Int) /\ "wait" \in Places /\ "reset" \in Ops
    BY DEF Places, Ops
  <2> QED
    BY <1>1, <1>3, <2>1 DEF FloppyInv, TypeOK
<1>5. Sending' /\ Arriving'
  BY <1>1 DEF Sending, Arriving
<1>6. OneInterrupt'
  BY <1>1, <1>2 DEF OneInterrupt
<1>7. Working'
  BY <1>1, <1>3, Codes DEF Working
<1>8. Answering' /\ Sensing'
  BY <1>1, <1>2 DEF Answering, Sensing
<1>9. Motor'
  BY <1>1 DEF Motor
<1> QED
  BY <1>4, <1>5, <1>6, <1>7, <1>8, <1>9 DEF FloppyInv

\* What is true whenever the driver has asked about an interrupt.
LEMMA WhenSensed ==
  ASSUME FloppyInv, NEW operation \in {"reset", "calibrate", "seek", "read"}, Sensed(operation)
  PROVE  /\ at = "sensing" /\ todo = <<>> /\ op = operation /\ fifo = <<>>
         /\ irq = FALSE /\ flag = 0 /\ working = <<>> /\ result = "none"
         /\ Len(st) = 2 /\ st[2] \in Int
         /\ operation # "reset" => dor = MotorOn
<1>1. at = "sensing" /\ todo = <<>> /\ op = operation /\ Len(st) = 2
  BY DEF Sensed
<1>2. st \in Seq(Int)
  BY DEF FloppyInv, TypeOK
<1>3. st[2] \in Int
  BY <1>1, <1>2
<1>4. irq = FALSE /\ flag = 0 /\ working = <<>>
  BY <1>1, Idle
<1>5. fifo = <<>> /\ result = "none" /\ (operation # "reset" => dor = MotorOn)
  BY <1>1 DEF FloppyInv, Arriving, Answering, Motor
<1> QED
  BY <1>1, <1>3, <1>4, <1>5

LEMMA ResetKeeps ==
  ASSUME FloppyInv, ResetDone
  PROVE  FloppyInv'
<1>1. /\ UNCHANGED <<lba, dma, flag, result, error, passed, timedOut>>
      /\ UNCHANGED <<dor, fifo, results, working, sense, irq, track, buffer>>
      /\ Sensed("reset") /\ st' = <<>>
      /\ op' = "none" /\ todo' = <<SPECIFY, 0, 0>> /\ at' = "calibrate"
  BY DEF ResetDone, flpydsk_drive_data, Send, fdc, told
<1>2. at = "sensing" /\ fifo = <<>> /\ result = "none"
  BY <1>1, WhenSensed
<1>3. <<SPECIFY, 0, 0>> \in Seq(Int) /\ Suffix(<<SPECIFY, 0, 0>>, <<SPECIFY, 0, 0>>)
  <2>1. <<SPECIFY, 0, 0>> \in Seq(Int)
    BY DEF SPECIFY
  <2> QED
    BY <2>1, Whole
<1>4. TypeOK'
  <2>1. <<>> \in Seq(Int) /\ "calibrate" \in Places /\ "none" \in Ops
    BY DEF Places, Ops
  <2> QED
    BY <1>1, <1>3, <2>1 DEF FloppyInv, TypeOK
<1>5. Sending' /\ Arriving'
  BY <1>1, <1>2, <1>3 DEF Sending, Arriving
<1>6. OneInterrupt' /\ Working' /\ irq' = FALSE /\ flag' = 0
  BY <1>1, <1>2, QuietStep
<1>7. Answering' /\ Sensing'
  BY <1>1, <1>2, <1>6 DEF Answering, Sensing
<1>8. Motor'
  BY <1>1 DEF Motor
<1> QED
  BY <1>4, <1>5, <1>6, <1>7, <1>8 DEF FloppyInv

LEMMA CalibrateKeeps ==
  ASSUME FloppyInv, flpydsk_calibrate
  PROVE  FloppyInv'
<1>1. /\ UNCHANGED <<st, lba, dma, flag, result, error, passed, timedOut>>
      /\ UNCHANGED <<fifo, results, working, sense, irq, track, buffer>>
      /\ at = "calibrate" /\ dor' = MotorOn
      /\ op' = "calibrate" /\ todo' = <<CALIBRATE, 0>> /\ at' = "wait"
  BY DEF flpydsk_calibrate, Calibrate, Send, told
<1>2. /\ result = "none" /\ st = <<>>
      /\ fifo # <<>> => fifo[1] \in {3, 7, 15, 230} /\ fifo[1] \notin Moving
  BY <1>1, Codes DEF FloppyInv, Arriving, Answering
<1>3. <<CALIBRATE, 0>> \in Seq(Int) /\ Suffix(<<CALIBRATE, 0>>, <<CALIBRATE, 0>>)
  <2>1. <<CALIBRATE, 0>> \in Seq(Int)
    BY DEF CALIBRATE
  <2> QED
    BY <2>1, Whole
<1>4. TypeOK'
  <2>1. "wait" \in Places /\ "calibrate" \in Ops
    BY DEF Places, Ops
  <2> QED
    BY <1>1, <1>3, <2>1 DEF FloppyInv, TypeOK
<1>5. Sending' /\ Arriving'
  BY <1>1, <1>2, <1>3, Codes DEF Sending, Arriving
<1>6. OneInterrupt' /\ Working' /\ irq' = FALSE /\ flag' = 0
  BY <1>1, <1>2, QuietStep
<1>7. Answering' /\ Sensing'
  BY <1>1, <1>2, <1>6 DEF Answering, Sensing
<1>8. Motor'
  BY <1>1 DEF Motor, MotorOn
<1> QED
  BY <1>4, <1>5, <1>6, <1>7, <1>8 DEF FloppyInv

\* Calibrated, or to be tried again, or given up.
LEMMA CalibrateSensedKeeps ==
  ASSUME FloppyInv, CalibrateSensed
  PROVE  FloppyInv'
<1>1. /\ UNCHANGED <<lba, dma, flag, result, error, timedOut>>
      /\ UNCHANGED <<fifo, results, working, sense, irq, track, buffer>>
      /\ Sensed("calibrate") /\ st' = <<>>
  BY DEF CalibrateSensed
<1>2. /\ at = "sensing" /\ todo = <<>> /\ fifo = <<>> /\ result = "none" /\ op = "calibrate"
      /\ dor = MotorOn /\ Len(st) = 2
  BY <1>1, WhenSensed
<1>3. CASE CalibrateAgain /\ Calibrate /\ UNCHANGED <<dor, passed>>
  <2>1. op' = "calibrate" /\ todo' = <<CALIBRATE, 0>> /\ at' = "wait" /\ UNCHANGED <<dor, passed>>
    BY <1>3 DEF Calibrate, Send
  <2>2. <<CALIBRATE, 0>> \in Seq(Int) /\ Suffix(<<CALIBRATE, 0>>, <<CALIBRATE, 0>>)
    <3>1. <<CALIBRATE, 0>> \in Seq(Int)
      BY DEF CALIBRATE
    <3> QED
      BY <3>1, Whole
  <2>3. TypeOK'
    <3>1. "wait" \in Places /\ "calibrate" \in Ops /\ <<>> \in Seq(Int)
      BY DEF Places, Ops
    <3> QED
      BY <1>1, <2>1, <2>2, <3>1 DEF FloppyInv, TypeOK
  <2>4. Sending' /\ Arriving'
    BY <1>1, <1>2, <2>1, <2>2 DEF Sending, Arriving
  <2>5. OneInterrupt' /\ Working' /\ irq' = FALSE /\ flag' = 0
    BY <1>1, <1>2, <2>1, QuietStep
  <2>6. Answering' /\ Sensing'
    BY <1>1, <1>2, <2>1, <2>5 DEF Answering, Sensing
  <2>7. Motor'
    BY <1>1, <1>2, <2>1 DEF Motor, MotorOn
  <2> QED
    BY <2>3, <2>4, <2>5, <2>6, <2>7 DEF FloppyInv
<1>4. CASE flpydsk_drive_data("installed") /\ dor' = MotorOff /\ passed' = CylinderZero
  <2>1. /\ op' = "none" /\ todo' = <<SPECIFY, 0, 0>> /\ at' = "installed"
        /\ dor' = MotorOff /\ passed' = (st[2] = 0)
    BY <1>4 DEF flpydsk_drive_data, Send, CylinderZero
  <2>2. <<SPECIFY, 0, 0>> \in Seq(Int) /\ Suffix(<<SPECIFY, 0, 0>>, <<SPECIFY, 0, 0>>)
    <3>1. <<SPECIFY, 0, 0>> \in Seq(Int)
      BY DEF SPECIFY
    <3> QED
      BY <3>1, Whole
  <2>3. TypeOK'
    <3>1. "installed" \in Places /\ "none" \in Ops /\ <<>> \in Seq(Int)
      BY DEF Places, Ops
    <3>2. passed' \in BOOLEAN
      BY <2>1
    <3> QED
      BY <1>1, <2>1, <2>2, <3>1, <3>2 DEF FloppyInv, TypeOK
  <2>4. Sending' /\ Arriving'
    BY <1>1, <1>2, <2>1, <2>2 DEF Sending, Arriving
  <2>5. OneInterrupt' /\ Working' /\ irq' = FALSE /\ flag' = 0
    BY <1>1, <1>2, <2>1, QuietStep
  <2>6. Answering'
    BY <1>1, <1>2, <2>1, <2>5 DEF Answering
  <2>7. passed' /\ ~timedOut => track = 0
    <3>1. ~timedOut => st = <<32, track>>
      <4>1. ~timedOut => \/ st = <<>> \/ st = <<32>> \/ st = <<32, track>>
        BY <1>2 DEF FloppyInv, Sensing
      <4>2. st # <<>> /\ st # <<32>>
        BY <1>2
      <4> QED
        BY <4>1, <4>2
    <3>2. ~timedOut => st[2] = track
      BY <3>1
    <3> QED
      BY <2>1, <3>2
  <2>8. Sensing'
    BY <1>1, <1>2, <2>1, <2>5, <2>7 DEF Sensing
  <2>9. Motor'
    BY <1>1, <2>1 DEF Motor, MotorOff
  <2> QED
    BY <2>3, <2>4, <2>5, <2>6, <2>8, <2>9 DEF FloppyInv
<1> QED
  BY <1>3, <1>4 DEF CalibrateSensed

LEMMA InstalledKeeps ==
  ASSUME FloppyInv, Installed
  PROVE  FloppyInv'
<1>1. /\ UNCHANGED <<op, todo, st, lba, dma, flag, result, error, passed, timedOut>>
      /\ UNCHANGED <<dor, fifo, results, working, sense, irq, track, buffer>>
      /\ at = "installed" /\ todo = <<>> /\ at' = "away"
  BY DEF Installed, fdc, told
<1>2. /\ result = "none" /\ st = <<>> /\ dor = MotorOff
      /\ fifo # <<>> => fifo[1] \in Moving \cup {SPECIFY} /\ fifo[1] \notin Moving
  BY <1>1 DEF FloppyInv, Arriving, Answering, Motor
<1>3. TypeOK'
  <2>1. "away" \in Places
    BY DEF Places
  <2> QED
    BY <1>1, <2>1 DEF FloppyInv, TypeOK
<1>4. Sending' /\ Arriving'
  BY <1>1, <1>2 DEF Sending, Arriving
<1>5. OneInterrupt' /\ Working' /\ irq' = FALSE /\ flag' = 0
  BY <1>1, <1>2, QuietStep
<1>6. Answering' /\ Sensing'
  BY <1>1, <1>2, <1>5 DEF Answering, Sensing
<1>7. Motor'
  <2>1. Aimed' = Aimed
    BY <1>1, AimedStays
  <2> QED
    BY <1>1, <1>2, <2>1 DEF FloppyInv, Motor, MotorOff
<1> QED
  BY <1>3, <1>4, <1>5, <1>6, <1>7 DEF FloppyInv

\* A sector is asked for: the motor, then the seek.
LEMMA CallKeeps ==
  ASSUME FloppyInv, NEW n \in Lbas, flpydsk_read_sector(n)
  PROVE  FloppyInv'
<1>1. /\ UNCHANGED <<st, dma, flag, passed, timedOut>>
      /\ UNCHANGED <<fifo, results, working, sense, irq, track, buffer>>
      /\ at = "away" /\ lba' = n /\ dor' = MotorOn /\ result' = "none" /\ error' = FALSE
      /\ op' = "seek" /\ todo' = <<SEEK, 0, flpydsk_lba_to_chs(n)[1]>> /\ at' = "wait"
  BY DEF flpydsk_read_sector, Seek, Send
<1>2. /\ st = <<>>
      /\ fifo # <<>> => fifo[1] \in Moving \cup {SPECIFY} /\ fifo[1] \notin Moving
  BY <1>1 DEF FloppyInv, Arriving, Answering
<1>3. todo' = SeekBytes' /\ todo' \in Seq(Int) /\ Suffix(todo', todo')
  <2>1. n \in Nat
    BY DiskAssumption DEF Lbas
  <2>2. flpydsk_lba_to_chs(n)[1] \in Int
    BY <2>1, ChsOfLba
  <2>3. SEEK \in Int /\ 0 \in Int
    BY DEF SEEK
  <2>4. todo' \in Seq(Int)
    BY <1>1, <2>2, <2>3, Whole
  <2>5. Chs' = flpydsk_lba_to_chs(n)
    BY <1>1 DEF Chs, flpydsk_lba_to_chs
  <2> QED
    BY <1>1, <2>4, <2>5, Whole DEF SeekBytes
<1>4. TypeOK'
  <2>1. "wait" \in Places /\ "seek" \in Ops
    BY DEF Places, Ops
  <2> QED
    BY <1>1, <1>3, <2>1 DEF FloppyInv, TypeOK
<1>5. Sending'
  BY <1>1, <1>3 DEF Sending
<1>6. Arriving'
  BY <1>1, <1>2 DEF Arriving
<1>7. OneInterrupt' /\ Working' /\ irq' = FALSE /\ flag' = 0
  BY <1>1, <1>2, QuietStep
<1>8. Answering' /\ Sensing'
  BY <1>1, <1>2, <1>7 DEF Answering, Sensing
<1>9. Motor'
  BY <1>1 DEF Motor, MotorOn
<1> QED
  BY <1>4, <1>5, <1>6, <1>7, <1>8, <1>9 DEF FloppyInv

-----------------------------------------------------------------------------
(* The DMA controller is set up *)

\* A byte written to the address or the count.
LEMMA Flips ==
  ASSUME NEW d \in DmaState, NEW field \in {"address", "count"}, NEW byte \in Int
  PROVE  LET e == WriteByte(d, field, byte)
         IN  /\ e \in DmaState /\ e.flip = 1 - d.flip /\ e.masked = d.masked
             /\ e.mode = d.mode /\ e.page = d.page
             /\ e[field] = IF d.flip = 0 THEN <<byte, d[field][2]>> ELSE <<d[field][1], byte>>
             /\ \A other \in {"address", "count"} \ {field} : e[other] = d[other]
<1> DEFINE two == IF d.flip = 0 THEN <<byte, d[field][2]>> ELSE <<d[field][1], byte>>
           f == 1 - d.flip
<1>1. f \in {0, 1}
  <2>1. d.flip = 0 \/ d.flip = 1
    BY DEF DmaState
  <2>2. 1 - 0 = 1 /\ 1 - 1 = 0
    OBVIOUS
  <2>3. f = 1 - 0 \/ f = 1 - 1
    BY <2>1
  <2> HIDE DEF f
  <2> QED
    BY <2>2, <2>3
<1>2. two \in Int \X Int
  <2>1. d[field] \in Int \X Int
    BY DEF DmaState
  <2> QED
    BY <2>1
<1>3. WriteByte(d, field, byte) = [d EXCEPT ![field] = two, !.flip = f]
  BY DEF WriteByte
<1> HIDE DEF two, f
<1>4. LET e == [d EXCEPT ![field] = two, !.flip = f]
      IN  /\ e \in DmaState /\ e.flip = f /\ e.masked = d.masked /\ e.mode = d.mode
          /\ e.page = d.page /\ e[field] = two
          /\ \A other \in {"address", "count"} \ {field} : e[other] = d[other]
  <2>1. CASE field = "address"
    BY <1>1, <1>2, <2>1 DEF DmaState
  <2>2. CASE field = "count"
    BY <1>1, <1>2, <2>2 DEF DmaState
  <2> QED
    BY <2>1, <2>2
<1> QED
  BY <1>3, <1>4 DEF two, f

\* Two bytes written one after the other land in their places when the
\* flip-flop was in its first phase.
LEMMA TwoBytes ==
  ASSUME NEW d \in DmaState, d.flip = 0, NEW field \in {"address", "count"},
         NEW low \in Int, NEW high \in Int
  PROVE  LET e == WriteByte(WriteByte(d, field, low), field, high)
         IN  /\ e \in DmaState /\ e.flip = 0 /\ e.masked = d.masked
             /\ e.mode = d.mode /\ e.page = d.page /\ e[field] = <<low, high>>
             /\ \A other \in {"address", "count"} \ {field} : e[other] = d[other]
<1> DEFINE one == WriteByte(d, field, low)
           e   == WriteByte(one, field, high)
<1>1. /\ one \in DmaState /\ one.flip = 1 - d.flip /\ one.masked = d.masked
      /\ one.mode = d.mode /\ one.page = d.page /\ one[field] = <<low, d[field][2]>>
      /\ \A other \in {"address", "count"} \ {field} : one[other] = d[other]
  BY Flips
<1>2. one.flip = 1 /\ 1 # 0 /\ 1 - 1 = 0
  <2>1. 1 - 0 = 1
    OBVIOUS
  <2>2. 1 - d.flip = 1 - 0
    OBVIOUS
  <2> QED
    BY <1>1, <2>1, <2>2
<1> HIDE DEF one
<1>3. /\ e \in DmaState /\ e.flip = 1 - one.flip /\ e.masked = one.masked
      /\ e.mode = one.mode /\ e.page = one.page /\ e[field] = <<one[field][1], high>>
      /\ \A other \in {"address", "count"} \ {field} : e[other] = one[other]
  BY <1>1, <1>2, Flips
<1>4. 1 - one.flip = 0
  BY <1>2
<1>5. one[field][1] = low
  BY <1>1
<1> HIDE DEF e
<1> QED
  BY <1>1, <1>3, <1>4, <1>5 DEF e, one

\* Opening the channel with the value the driver writes does open it.
LEMMA MaskOpens ==
  ASSUME NEW d \in DmaState
  PROVE  LET e == dma_mask_channel(d)
         IN  /\ e \in DmaState /\ e.masked = FALSE /\ e.flip = d.flip /\ e.mode = d.mode
             /\ e.page = d.page /\ e.address = d.address /\ e.count = d.count
<1>1. 2 ^ (Channel - 1) = 2
  BY DEF Channel
<1>2. 2 % 4 = Channel /\ (2 \div 4) % 2 = 0
  BY DEF Channel
<1>3. dma_mask_channel(d)
        = IF 2 % 4 = Channel THEN [d EXCEPT !.masked = (2 \div 4) % 2 = 1] ELSE d
  BY <1>1 DEF dma_mask_channel
<1>4. ((2 \div 4) % 2 = 1) = FALSE
  BY <1>2
<1>5. dma_mask_channel(d) = [d EXCEPT !.masked = FALSE]
  BY <1>2, <1>3, <1>4
<1> QED
  BY <1>5 DEF DmaState

\* Address 0, 16 is 4096, and a count of 255, 1 is 511.
LEMMA AddressAndCount ==
  ASSUME NEW d \in DmaState, d.page = 0, d.address = <<0, 16>>, d.count = <<255, 1>>
  PROVE  OnBuffer(d)
<1>1. d.address[1] = 0 /\ d.address[2] = 16 /\ d.count[1] = 255 /\ d.count[2] = 1
  OBVIOUS
<1>2. 0 * 65536 + 16 * 256 + 0 = 4096 /\ 1 * 256 + 255 = 511
  OBVIOUS
<1> QED
  BY <1>1, <1>2 DEF OnBuffer, DMA_BUFFER

\* From every state the BIOS can have left it in, channel 2 is aimed.
LEMMA DmaSetUp ==
  ASSUME NEW d \in DmaState
  PROVE  LET set == dma_set_read(dma_initialize_floppy(d, DMA_BUFFER, 512))
         IN  set \in DmaState /\ AimedAt(set)
<1> DEFINE cleared == dma_reset(d)
           reset   == dma_mask_channel(cleared)
           placed  == WriteByte(WriteByte(reset, "address", 0), "address", 16)
           paged   == [placed EXCEPT !.page = 0]
           counted == WriteByte(WriteByte(paged, "count", 255), "count", 1)
<1>1. /\ DMA_BUFFER % 256 = 0 /\ (DMA_BUFFER \div 256) % 256 = 16
      /\ DMA_BUFFER \div 2 ^ 24 = 0
      /\ (512 - 1) % 256 = 255 /\ ((512 - 1) \div 256) % 256 = 1
  BY DEF DMA_BUFFER
<1>2. dma_initialize_floppy(d, DMA_BUFFER, 512) = dma_set_read(counted)
  BY <1>1 DEF dma_initialize_floppy, dma_reset_flipflop, dma_unmask_all, dma_set_address,
              dma_set_count
<1>3. cleared \in DmaState /\ cleared.flip = 0
  BY DEF dma_reset, DmaState
<1> HIDE DEF cleared
<1>4. reset \in DmaState /\ reset.flip = 0
  BY <1>3, MaskOpens
<1> HIDE DEF reset
<1>5. placed \in DmaState /\ placed.flip = 0 /\ placed["address"] = <<0, 16>>
  BY <1>4, TwoBytes
<1> HIDE DEF placed
<1>6. paged \in DmaState /\ paged.flip = 0 /\ paged.page = 0 /\ paged["address"] = <<0, 16>>
  <2>1. paged \in DmaState
    <3>1. ASSUME NEW other \in DmaState
          PROVE  [other EXCEPT !.page = 0] \in DmaState
      <4>1. 0 \in Int
        OBVIOUS
      <4> QED
        BY <4>1 DEF DmaState
    <3> QED
      BY <1>5, <3>1
  <2>2. paged.flip = placed.flip /\ paged.page = 0 /\ paged.address = placed.address
    BY <1>5 DEF DmaState
  <2> HIDE DEF paged
  <2> QED
    BY <1>5, <2>1, <2>2
<1> HIDE DEF paged
<1>7. /\ counted \in DmaState /\ counted.page = 0
      /\ counted["address"] = <<0, 16>> /\ counted["count"] = <<255, 1>>
  BY <1>6, TwoBytes
<1> HIDE DEF counted
<1>8. ASSUME NEW e \in DmaState
      PROVE  /\ dma_set_read(e) \in DmaState /\ dma_set_read(e).masked = FALSE
             /\ dma_set_read(e).mode = "to memory" /\ dma_set_read(e).page = e.page
             /\ dma_set_read(e).address = e.address /\ dma_set_read(e).count = e.count
  <2> DEFINE open == dma_mask_channel(e)
  <2>1. /\ open \in DmaState /\ open.masked = FALSE /\ open.page = e.page
        /\ open.address = e.address /\ open.count = e.count
    BY MaskOpens
  <2>2. dma_set_read(e) = [open EXCEPT !.mode = "to memory"]
    BY DEF dma_set_read, dma_unmask_all
  <2> HIDE DEF open
  <2> QED
    BY <2>1, <2>2 DEF DmaState
<1> DEFINE done == dma_set_read(counted)
<1>9. /\ done \in DmaState /\ done.page = 0
      /\ done.address = <<0, 16>> /\ done.count = <<255, 1>>
  BY <1>7, <1>8
<1>10. dma_initialize_floppy(d, DMA_BUFFER, 512) = done
  BY <1>2
<1> HIDE DEF done
<1>11. LET set == dma_set_read(done)
       IN  /\ set \in DmaState /\ set.masked = FALSE /\ set.mode = "to memory"
           /\ set.page = 0 /\ set.address = <<0, 16>> /\ set.count = <<255, 1>>
  BY <1>8, <1>9
<1>12. dma_set_read(done) \in DmaState /\ AimedAt(dma_set_read(done))
  BY <1>11, AddressAndCount DEF AimedAt
<1> QED
  BY <1>10, <1>12

LEMMA AimedThen ==
  ASSUME TypeOK, dma' = dma_set_read(dma_initialize_floppy(dma, DMA_BUFFER, 512))
  PROVE  Aimed' /\ dma' \in DmaState
<1> DEFINE set == dma_set_read(dma_initialize_floppy(dma, DMA_BUFFER, 512))
<1>1. dma \in DmaState
  BY DEF TypeOK
<1>2. set \in DmaState /\ AimedAt(set)
  BY <1>1, DmaSetUp
<1>3. dma' = set
  OBVIOUS
<1> HIDE DEF set
<1> QED
  BY <1>2, <1>3 DEF Aimed

\* The cylinder is found and the sector read, or the seek is tried again, or
\* given up.
LEMMA SeekSensedKeeps ==
  ASSUME FloppyInv, SeekSensed
  PROVE  FloppyInv'
<1>1. /\ UNCHANGED <<lba, flag, error, passed, timedOut>>
      /\ UNCHANGED <<dor, fifo, results, working, sense, irq, track, buffer>>
      /\ Sensed("seek") /\ st' = <<>>
  BY DEF SeekSensed, fdc
<1>2. /\ at = "sensing" /\ todo = <<>> /\ fifo = <<>> /\ result = "none" /\ op = "seek"
      /\ dor = MotorOn /\ st[2] \in Int
  BY <1>1, WhenSensed
<1>3. Chs' = Chs /\ SeekBytes' = SeekBytes /\ ReadBytes' = ReadBytes
  BY <1>1 DEF Chs, SeekBytes, ReadBytes
<1>4. /\ SeekBytes \in Seq(Int) /\ Suffix(SeekBytes, SeekBytes)
      /\ ReadBytes \in Seq(Int) /\ Suffix(ReadBytes, ReadBytes) /\ Len(ReadBytes) = 9
  BY BytesTyped, Whole DEF FloppyInv
<1>5. CASE /\ dma' = dma_set_read(dma_initialize_floppy(dma, DMA_BUFFER, 512))
           /\ Send("read", ReadBytes, "wait") /\ UNCHANGED result
  <2>1. op' = "read" /\ todo' = ReadBytes /\ at' = "wait" /\ result' = "none"
    BY <1>2, <1>5 DEF Send
  <2>2. Aimed' /\ dma' \in DmaState
    BY <1>5, AimedThen DEF FloppyInv
  <2>3. TypeOK'
    <3>1. "wait" \in Places /\ "read" \in Ops /\ <<>> \in Seq(Int)
      BY DEF Places, Ops
    <3> QED
      BY <1>1, <1>4, <2>1, <2>2, <3>1 DEF FloppyInv, TypeOK
  <2>4. Sending'
    BY <1>3, <1>4, <2>1 DEF Sending
  <2>5. Arriving'
    <3>1. 9 >= 8 /\ 9 # 8
      OBVIOUS
    <3>2. Len(todo') >= 8 /\ Len(todo') # 8
      BY <1>4, <2>1, <3>1
    <3> QED
      BY <1>1, <1>2, <2>1, <3>2 DEF Arriving
  <2>6. OneInterrupt' /\ Working' /\ irq' = FALSE /\ flag' = 0
    BY <1>1, <1>2, <2>1, QuietStep
  <2>7. Answering' /\ Sensing'
    BY <1>1, <1>2, <2>1, <2>6 DEF Answering, Sensing
  <2>8. Motor'
    BY <1>1, <1>2, <2>1, <2>2 DEF Motor, MotorOn
  <2> QED
    BY <2>3, <2>4, <2>5, <2>6, <2>7, <2>8 DEF FloppyInv
<1>6. CASE Seek(Chs[1]) /\ UNCHANGED <<dma, result>>
  <2>1. op' = "seek" /\ todo' = SeekBytes /\ at' = "wait" /\ result' = "none" /\ dma' = dma
    BY <1>2, <1>6 DEF Seek, Send, SeekBytes
  <2>2. TypeOK'
    <3>1. "wait" \in Places /\ "seek" \in Ops /\ <<>> \in Seq(Int)
      BY DEF Places, Ops
    <3> QED
      BY <1>1, <1>4, <2>1, <3>1 DEF FloppyInv, TypeOK
  <2>3. Sending'
    BY <1>3, <1>4, <2>1 DEF Sending
  <2>4. Arriving'
    BY <1>1, <1>2, <2>1 DEF Arriving
  <2>5. OneInterrupt' /\ Working' /\ irq' = FALSE /\ flag' = 0
    BY <1>1, <1>2, <2>1, QuietStep
  <2>6. Answering' /\ Sensing'
    BY <1>1, <1>2, <2>1, <2>5 DEF Answering, Sensing
  <2>7. Motor'
    BY <1>1, <1>2, <2>1 DEF Motor, MotorOn
  <2> QED
    BY <2>2, <2>3, <2>4, <2>5, <2>6, <2>7 DEF FloppyInv
<1>7. CASE at' = "away" /\ result' = "null" /\ UNCHANGED <<op, todo, dma>>
  <2>1. TypeOK'
    <3>1. "away" \in Places /\ <<>> \in Seq(Int)
      BY DEF Places
    <3> QED
      BY <1>1, <1>7, <3>1 DEF FloppyInv, TypeOK
  <2>2. Sending' /\ Arriving'
    BY <1>1, <1>2, <1>7 DEF Sending, Arriving
  <2>3. OneInterrupt' /\ Working' /\ irq' = FALSE /\ flag' = 0
    BY <1>1, <1>2, <1>7, QuietStep
  <2>4. Answering' /\ Sensing'
    BY <1>1, <1>2, <1>7, <2>3 DEF Answering, Sensing
  <2>5. Motor'
    BY <1>1, <1>2, <1>7 DEF Motor
  <2> QED
    BY <2>1, <2>2, <2>3, <2>4, <2>5 DEF FloppyInv
<1> QED
  BY <1>5, <1>6, <1>7 DEF SeekSensed, ReadBytes, Chs

LEMMA ReadDoneKeeps ==
  ASSUME FloppyInv, ReadDone
  PROVE  FloppyInv'
<1>1. /\ UNCHANGED <<op, todo, lba, dma, flag, error, passed, timedOut>>
      /\ UNCHANGED <<fifo, results, working, sense, irq, track, buffer>>
      /\ Sensed("read") /\ st' = <<>>
      /\ dor' = MotorOff /\ at' = "away" /\ result' = "buffer"
  BY DEF ReadDone
<1>2. at = "sensing" /\ todo = <<>> /\ fifo = <<>> /\ op = "read"
  BY <1>1, WhenSensed
<1>3. TypeOK'
  <2>1. "away" \in Places /\ <<>> \in Seq(Int)
    BY DEF Places
  <2> QED
    BY <1>1, <2>1 DEF FloppyInv, TypeOK
<1>4. Sending' /\ Arriving'
  BY <1>1, <1>2 DEF Sending, Arriving
<1>5. OneInterrupt' /\ Working' /\ irq' = FALSE /\ flag' = 0
  BY <1>1, <1>2, QuietStep
<1>6. Answering'
  <2>1. error \/ buffer = Chs
    BY <1>2 DEF FloppyInv, Answering
  <2>2. Chs' = Chs
    BY <1>1 DEF Chs
  <2> QED
    BY <1>1, <1>5, <2>1, <2>2 DEF Answering
<1>7. Sensing'
  BY <1>1, <1>2 DEF Sensing
<1>8. Motor'
  <2>1. Aimed' = Aimed
    BY <1>1, AimedStays
  <2> QED
    BY <1>1, <2>1 DEF FloppyInv, Motor, MotorOff
<1> QED
  BY <1>3, <1>4, <1>5, <1>6, <1>7, <1>8 DEF FloppyInv

-----------------------------------------------------------------------------
(* The invariant, and what it says *)

LEMMA InitEstablishes ==
  Init => FloppyInv
<1> SUFFICES ASSUME Init
             PROVE  FloppyInv
  OBVIOUS
<1>1. /\ op = "none" /\ at = "off" /\ todo = <<>> /\ st = <<>> /\ lba = 0 /\ flag = 0
      /\ fifo = <<>> /\ results = <<>> /\ working = <<>> /\ sense = FALSE /\ irq = FALSE
      /\ track \in 0..(Cylinders - 1)
      /\ result = "none" /\ error = FALSE /\ passed = FALSE /\ timedOut = FALSE
  BY DEF Init
<1>2. TypeOK
  <2>1. 0 \in Lbas
    <3>1. \A c, s \in Nat \ {0} : c * 2 * s - 1 \in Nat
      <4>1. \A c, s \in Nat \ {0} : c * s \in Nat \ {0}
        OBVIOUS
      <4> QED
        BY <4>1
    <3>2. Cylinders * 2 * SectorsPerTrack - 1 \in Nat
      BY <3>1, DiskAssumption
    <3> QED
      BY <3>2 DEF Lbas
  <2>2. dma \in DmaState
    <3>1. ASSUME NEW f \in {0, 1}
          PROVE  [flip |-> f, masked |-> TRUE, mode |-> "other", page |-> 0,
                  address |-> <<0, 0>>, count |-> <<0, 0>>] \in DmaState
      BY DEF DmaState
    <3> QED
      BY <3>1 DEF Init
  <2>3. track \in Int
    BY <1>1, DiskAssumption
  <2>4. <<>> \in Seq(Int) /\ "off" \in Places /\ "none" \in Ops
    BY DEF Places, Ops
  <2> QED
    BY <1>1, <2>1, <2>2, <2>3, <2>4 DEF TypeOK
<1>3. Sending /\ Arriving
  BY <1>1 DEF Sending, Arriving
<1>4. OneInterrupt /\ Working
  BY <1>1 DEF OneInterrupt, Working
<1>5. Answering /\ Sensing /\ Motor
  BY <1>1 DEF Answering, Sensing, Motor
<1> QED
  BY <1>2, <1>3, <1>4, <1>5 DEF FloppyInv

LEMMA StuttersKeep ==
  ASSUME FloppyInv, UNCHANGED vars
  PROVE  FloppyInv'
<1>1. /\ UNCHANGED <<op, at, todo, st, lba, dma, flag, result, error, passed, timedOut>>
      /\ UNCHANGED <<dor, fifo, results, working, sense, irq, track, buffer>>
  BY DEF vars, driver, fdc, told
<1>2. /\ Chs' = Chs /\ SeekBytes' = SeekBytes /\ ReadBytes' = ReadBytes
      /\ FailureShows' = FailureShows /\ Aimed' = Aimed
  BY <1>1, AimedStays DEF Chs, SeekBytes, ReadBytes, FailureShows
<1>3. TypeOK'
  BY <1>1 DEF FloppyInv, TypeOK
<1>4. Sending' /\ Arriving'
  BY <1>1, <1>2 DEF FloppyInv, Sending, Arriving
<1>5. OneInterrupt' /\ Working'
  BY <1>1, <1>2 DEF FloppyInv, OneInterrupt, Working
<1>6. Answering' /\ Sensing'
  BY <1>1, <1>2 DEF FloppyInv, Answering, Sensing
<1>7. Motor'
  BY <1>1, <1>2 DEF FloppyInv, Motor, MotorOn, MotorOff
<1> QED
  BY <1>3, <1>4, <1>5, <1>6, <1>7 DEF FloppyInv

LEMMA StepKeeps ==
  FloppyInv /\ [Next]_vars => FloppyInv'
<1> SUFFICES ASSUME FloppyInv, [Next]_vars
             PROVE  FloppyInv'
  OBVIOUS
<1>1. CASE Driver
  BY <1>1, SendKeeps, ReadKeeps, WaitKeeps, ReportKeeps, CheckIntKeeps, InstallKeeps,
     ResetKeeps, CalibrateKeeps, CalibrateSensedKeeps, InstalledKeeps, SeekSensedKeeps,
     ReadDoneKeeps DEF Driver
<1>2. CASE Call
  BY <1>2, CallKeeps DEF Call
<1>3. CASE Complete
  BY <1>3, CompleteKeeps
<1>4. CASE i86_flpy_irq
  BY <1>4, IrqKeeps
<1>5. CASE UNCHANGED vars
  BY <1>5, StuttersKeep
<1> QED
  BY <1>1, <1>2, <1>3, <1>4, <1>5 DEF Next

LEMMA Invariant ==
  Spec => []FloppyInv
<1>1. Init => FloppyInv
  BY InitEstablishes
<1>2. FloppyInv /\ [Next]_vars => FloppyInv'
  BY StepKeeps
<1> QED
  BY <1>1, <1>2, PTL DEF Spec

\* Every variable of the driver and of the controller keeps its type.
THEOREM TypeCorrect ==
  Spec => []TypeOK
<1>1. FloppyInv => TypeOK
  BY DEF FloppyInv
<1> QED
  BY <1>1, Invariant, PTL

\* When flpydsk_wait_irq() stops waiting, the command it waited for has been
\* executed: the flag is never left over from another one.
THEOREM NoStaleInterrupt ==
  Spec => []WaitsForItsOwn
<1>1. FloppyInv => WaitsForItsOwn
  <2> SUFFICES ASSUME FloppyInv, at = "clear"
               PROVE  working = <<>> /\ ~irq /\ todo = <<>>
    BY DEF WaitsForItsOwn
  <2> QED
    BY DEF FloppyInv, OneInterrupt
<1> QED
  BY <1>1, Invariant, PTL

\* The buffer flpydsk_read_sector() returns without having printed an error
\* holds the sector it was asked for, whatever the geometry, the failed seeks
\* and the lost bytes.
THEOREM RightSector ==
  Spec => []SectorReturned
<1>1. FloppyInv => SectorReturned
  <2> SUFFICES ASSUME FloppyInv, at = "away", result = "buffer", ~error
               PROVE  /\ buffer # NoSector
                      /\ lba = (buffer[1] * 2 + buffer[2]) * SectorsPerTrack + buffer[3] - 1
    BY DEF SectorReturned
  <2>1. buffer = Chs
    BY DEF FloppyInv, Answering
  <2>2. lba \in Nat
    BY BytesTyped DEF FloppyInv
  <2>3. /\ lba = (Chs[1] * 2 + Chs[2]) * SectorsPerTrack + Chs[3] - 1
        /\ Chs = <<Chs[1], Chs[2], Chs[3]>>
    BY <2>2, ChsOfLba DEF Chs
  <2>4. \A a, b, c : <<a, b, c>> # <<>>
    OBVIOUS
  <2>5. Chs # <<>>
    BY <2>3, <2>4
  <2> QED
    BY <2>1, <2>3, <2>5 DEF NoSector
<1> QED
  BY <1>1, Invariant, PTL

\* Whenever the controller moves the head or reads, the motor is on and channel
\* 2 of the DMA controller is open and aimed at the buffer.
THEOREM AlwaysPrepared ==
  Spec => []Prepared
<1>1. FloppyInv => MotorRuns
  <2> SUFFICES ASSUME FloppyInv
               PROVE  /\ working # <<>> /\ working[1] # RESET => dor = MotorOn
                      /\ at = "away" /\ result # "null" => "MOTOR" \notin dor
    BY DEF MotorRuns
  <2>1. working # <<>> /\ working[1] # RESET => dor = MotorOn
    <3>1. working # <<>> => at \in {"wait", "clear"}
      BY DEF FloppyInv, OneInterrupt
    <3>2. working # <<>> /\ working[1] # RESET => op # "reset"
      BY DEF FloppyInv, Working
    <3> QED
      BY <3>1, <3>2 DEF FloppyInv, Motor
  <2>2. "MOTOR" \notin MotorOff
    BY DEF MotorOff
  <2>3. at = "away" /\ result # "null" => dor = MotorOff
    BY DEF FloppyInv, Motor
  <2> QED
    BY <2>1, <2>2, <2>3
<1>2. FloppyInv => DmaAimed
  <2> SUFFICES ASSUME FloppyInv, working # <<>>, working[1] = READ
               PROVE  ~dma.masked /\ dma.mode = "to memory" /\ OnBuffer(dma)
    BY DEF DmaAimed
  <2>1. op = "read"
    BY Codes DEF FloppyInv, Working
  <2>2. AimedAt(dma)
    BY <2>1 DEF FloppyInv, Motor, Aimed
  <2> QED
    BY <2>2 DEF AimedAt
<1>3. FloppyInv => Prepared
  BY <1>1, <1>2 DEF Prepared
<1> QED
  BY <1>3, Invariant, PTL

\* "FLOPPY CALIBRATION PASS" is printed only with the head on cylinder 0,
\* unless the driver gave up polling.
THEOREM PassMeansZero ==
  Spec => []CalibrationPassed
<1>1. FloppyInv => CalibrationPassed
  BY DEF FloppyInv, Sensing, CalibrationPassed
<1> QED
  BY <1>1, Invariant, PTL

-----------------------------------------------------------------------------
(* Numbers, for the file system *)

\* A set of numbers has a least one.
LEMMA LeastMember ==
  ASSUME NEW S, S \subseteq Nat, S # {}
  PROVE  \E x \in S : \A y \in S : x <= y
<1> DEFINE R == {ss \in Nat \X Nat : ss[1] < ss[2]}
<1>1. IsWellFoundedOn(R, Nat)
  BY NatLessThanWellFounded DEF OpToRel
<1> HIDE DEF R
<1>2. PICK x \in S : \A y \in S : ~ (<<y, x>> \in R)
  BY <1>1, WFMin
<1>3. ASSUME NEW y \in S
      PROVE  x <= y
  <2>1. ~ (y < x)
    BY <1>2 DEF R
  <2> QED
    BY <2>1
<1> QED
  BY <1>3

\* A set of numbers that has 0 and with each number the next has them all.
LEMMA InductNat ==
  ASSUME NEW S, 0 \in S, \A n \in Nat : n \in S => n + 1 \in S
  PROVE  Nat \subseteq S
<1> DEFINE Out == Nat \ S
<1> SUFFICES ASSUME Out # {}
             PROVE  FALSE
  OBVIOUS
<1>1. PICK x \in Out : \A y \in Out : x <= y
  BY LeastMember
<1>2. x - 1 \in Nat /\ x - 1 \notin Out
  BY <1>1
<1> QED
  BY <1>1, <1>2

-----------------------------------------------------------------------------
(* The FAT: entries of a byte and a half *)

\* What is less than the divisor is its own remainder.
LEMMA Small ==
  ASSUME NEW s \in Nat \ {0}, NEW r \in 0..(s - 1)
  PROVE  r % s = r
  OBVIOUS

\* A longer row of sectors has no fewer bytes.
LEMMA Times ==
  ASSUME NEW a \in Nat, NEW b \in Nat, NEW s \in Nat, a <= b
  PROVE  a * s <= b * s
<1>1. PICK d \in Nat : b = a + d
  <2>1. b - a \in Nat /\ b = a + (b - a)
    OBVIOUS
  <2> QED
    BY <2>1
<1>2. b * s = a * s + d * s /\ a * s \in Nat /\ d * s \in Nat
  BY <1>1
<1> QED
  BY <1>2

\* What the constants say of the FAT.
LEMMA FatSizes ==
  ASSUME DiskLayout
  PROVE  /\ SectorSize \in Nat \ {0} /\ SectorsPerFat \in Nat \ {0} /\ NumberOfFats \in Nat \ {0}
         /\ MaxCluster \in Nat /\ MaxCluster \in 2..4087
         /\ (MaxCluster * 3) \div 2 + 1 < SectorsPerFat * SectorSize
  BY DEF DiskLayout

\* The two sectors hold every byte of the FAT from the place the code computes on.
LEMMA ByteOfFat ==
  ASSUME DiskLayout, NEW o \in Nat, NEW i \in Nat, o + i < SectorsPerFat * SectorSize
  PROVE  DiskByte(1 + (o \div SectorSize) + (((o % SectorSize) + i) \div SectorSize),
                  ((o % SectorSize) + i) % SectorSize) = FatByte(o + i)
<1> DEFINE S == SectorSize
           F == SectorsPerFat
           a == o \div S
           r == o % S
           q == (r + i) \div S
           b == (r + i) % S
           n == 1 + a + q
<1>1. S \in Nat \ {0} /\ F \in Nat \ {0} /\ NumberOfFats \in Nat \ {0} /\ o + i < F * S
  BY FatSizes
<1>2. o = a * S + r /\ a \in Nat /\ r \in 0..(S - 1)
  <2> HIDE DEF S
  <2> QED
    BY <1>1, Quotient
<1>3. r + i = q * S + b /\ q \in Nat /\ b \in 0..(S - 1)
  <2>1. r + i \in Nat
    BY <1>1, <1>2
  <2> HIDE DEF S, r
  <2> QED
    BY <1>1, <2>1, Quotient
<1> HIDE DEF S, F, a, r, q, b
<1>4. o + i = (a + q) * S + b
  BY <1>1, <1>2, <1>3
<1>5. a + q < F
  <2>1. SUFFICES ASSUME F <= a + q PROVE FALSE
    BY <1>1, <1>2, <1>3
  <2>2. F * S <= (a + q) * S
    BY <1>1, <1>2, <1>3, <2>1, Times
  <2> QED
    BY <1>1, <1>2, <1>3, <1>4, <2>2
<1>6. F <= NumberOfFats * F
  <2>1. 1 * F <= NumberOfFats * F
    BY <1>1, Times
  <2> QED
    BY <1>1, <2>1
<1>7. n \in 1..(NumberOfFats * F) /\ n - 1 = a + q
  BY <1>1, <1>2, <1>3, <1>5, <1>6
<1>8. (n - 1) % F = a + q
  <2>1. a + q \in 0..(F - 1)
    BY <1>1, <1>2, <1>3, <1>5
  <2> HIDE DEF n
  <2>2. (n - 1) % F = n - 1
    BY <1>1, <1>7, <2>1, Small
  <2> QED
    BY <1>7, <2>2
<1>9. DiskByte(n, b) = FatByte(o + i)
  <2> HIDE DEF n
  <2>1. ((n - 1) % F) * S + b = o + i
    BY <1>4, <1>8
  <2> QED
    BY <1>7, <2>1 DEF DiskByte, S, F
<1> QED
  BY <1>9 DEF n, S, F, a, r, q, b

\* What the bytes of an entry hold, which the code puts together.
LEMMA EvenEntry ==
  ASSUME NEW e \in FatValues, NEW d \in FatValues
  PROVE  ((e % 256) + 256 * ((e \div 256) + (d % 16) * 16)) % 4096 = e
  BY DEF FatValues
LEMMA OddEntry ==
  ASSUME NEW e \in FatValues, NEW d \in FatValues
  PROVE  (((e \div 256) + (d % 16) * 16) + 256 * (d \div 16)) \div 16 = d
  BY DEF FatValues

\* Three bytes make two entries.
LEMMA Thirds ==
  ASSUME NEW m \in Nat
  PROVE  /\ (3 * m) % 3 = 0 /\ (3 * m) \div 3 = m
         /\ (3 * m + 1) % 3 = 1 /\ (3 * m + 1) \div 3 = m
         /\ (3 * m + 2) % 3 = 2 /\ (3 * m + 2) \div 3 = m
  OBVIOUS

\* The code reads the entry of a cluster, whichever half of the three bytes it
\* is in, and whether or not it lies across two sectors.
LEMMA EntryOfCluster ==
  ASSUME DiskLayout, fat \in [0..MaxCluster -> FatValues], NEW c \in Clusters
  PROVE  NextCluster(c) = fat[c]
<1> DEFINE o == c + (c \div 2)
           m == c \div 2
           e(k) == IF k <= MaxCluster THEN fat[k] ELSE 0
           word == FatByte(o) + 256 * FatByte(o + 1)
<1>1. /\ c \in 2..MaxCluster /\ MaxCluster \in 2..4087 /\ SectorSize \in Nat \ {0}
      /\ (MaxCluster * 3) \div 2 + 1 < SectorsPerFat * SectorSize
  BY FatSizes DEF Clusters
<1>2. m \in Nat /\ (c = 2 * m \/ c = 2 * m + 1) /\ o = c + m
  BY <1>1
<1>3. o \in Nat /\ o + 1 < SectorsPerFat * SectorSize
  <2>1. o <= (MaxCluster * 3) \div 2
    BY <1>1
  <2>2. SectorsPerFat * SectorSize \in Nat
    BY FatSizes
  <2> HIDE DEF o
  <2> QED
    BY <1>1, <1>2, <2>1, <2>2
<1> HIDE DEF o, m
<1>4. NextCluster(c) = IF c % 2 = 1 THEN word \div 16 ELSE word % 4096
  <2>1. (o % SectorSize) + 0 = o % SectorSize /\ o + 0 = o
    BY <1>1, <1>3
  <2>2. DiskByte(1 + (o \div SectorSize) + ((o % SectorSize) \div SectorSize),
                 (o % SectorSize) % SectorSize) = FatByte(o)
    <3>1. o + 0 < SectorsPerFat * SectorSize
      BY <1>1, <1>3, FatSizes
    <3>2. DiskByte(1 + (o \div SectorSize) + (((o % SectorSize) + 0) \div SectorSize),
                 ((o % SectorSize) + 0) % SectorSize) = FatByte(o + 0)
      BY <1>3, <3>1, ByteOfFat
    <3> QED
      BY <2>1, <3>2
  <2>3. DiskByte(1 + (o \div SectorSize) + (((o % SectorSize) + 1) \div SectorSize),
                 ((o % SectorSize) + 1) % SectorSize) = FatByte(o + 1)
    BY <1>3, ByteOfFat
  <2> QED
    BY <2>2, <2>3 DEF NextCluster, o
<1>5. ASSUME NEW k \in Nat
      PROVE  e(k) \in FatValues
  <2>1. CASE k <= MaxCluster
    <3>1. k \in 0..MaxCluster
      BY <1>1, <2>1
    <3> QED
      BY <2>1, <3>1
  <2>2. CASE ~(k <= MaxCluster)
    BY <2>2 DEF FatValues
  <2> QED
    BY <2>1, <2>2
<1>6. CASE c = 2 * m
  <2>1. o = 3 * m /\ c % 2 # 1
    BY <1>2, <1>6
  <2>2. o % 3 = 0 /\ o \div 3 = m /\ (o + 1) % 3 = 1 /\ (o + 1) \div 3 = m
    BY <1>2, <2>1, Thirds
  <2>3. FatByte(o) = e(2 * m) % 256
    BY <2>2 DEF FatByte
  <2>4. FatByte(o + 1) = (e(2 * m) \div 256) + (e(2 * m + 1) % 16) * 16
    BY <2>2 DEF FatByte
  <2>5. 2 * m \in Nat /\ 2 * m + 1 \in Nat /\ e(2 * m) = fat[c]
    BY <1>1, <1>2, <1>6
  <2> HIDE DEF e
  <2>6. word % 4096 = e(2 * m)
    BY <1>5, <2>3, <2>4, <2>5, EvenEntry
  <2> HIDE DEF word
  <2> QED
    BY <1>4, <2>1, <2>5, <2>6
<1>7. CASE c = 2 * m + 1
  <2>1. o = 3 * m + 1 /\ c % 2 = 1
    BY <1>2, <1>7
  <2>2. o % 3 = 1 /\ o \div 3 = m /\ (o + 1) % 3 = 2 /\ (o + 1) \div 3 = m
    <3>1. o + 1 = 3 * m + 2
      BY <1>2, <2>1
    <3> QED
      BY <1>2, <2>1, <3>1, Thirds
  <2>3. FatByte(o) = (e(2 * m) \div 256) + (e(2 * m + 1) % 16) * 16
    BY <2>2 DEF FatByte
  <2>4. FatByte(o + 1) = e(2 * m + 1) \div 16
    BY <2>2 DEF FatByte
  <2>5. 2 * m \in Nat /\ 2 * m + 1 \in Nat /\ e(2 * m + 1) = fat[c]
    BY <1>1, <1>2, <1>7
  <2> HIDE DEF e
  <2>6. word \div 16 = e(2 * m + 1)
    BY <1>5, <2>3, <2>4, <2>5, OddEntry
  <2> HIDE DEF word
  <2> QED
    BY <1>4, <2>1, <2>5, <2>6
<1> QED
  BY <1>2, <1>6, <1>7

-----------------------------------------------------------------------------
(* Chains *)

\* What makes g the chain of c.
IsChain(f, c, g) ==
  /\ g[0] = c
  /\ \A n \in 1..MaxCluster : g[n] = IF g[n - 1] \in Clusters THEN f[g[n - 1]] ELSE 0

\* There is the function that Chain(f, c) defines from itself.
LEMMA ChainIs ==
  ASSUME DiskLayout, NEW f, NEW c
  PROVE  IsChain(f, c, Chain(f, c))
<1>0. MaxCluster \in Nat
  BY FatSizes
<1> DEFINE Body(g, n) ==
      IF n = 0 THEN c ELSE IF g[n - 1] \in Clusters THEN f[g[n - 1]] ELSE 0
    S == {k \in Nat : \E g : g = [n \in 0..k |-> Body(g, n)]}
<1>1. 0 \in S
  <2> DEFINE g == [n \in 0..0 |-> c]
  <2>1. \A n \in 0..0 : Body(g, n) = c
    OBVIOUS
  <2>2. g = [n \in 0..0 |-> Body(g, n)]
    BY <2>1
  <2> HIDE DEF Body
  <2> QED
    BY <2>2
<1>2. ASSUME NEW k \in Nat, k \in S
      PROVE  k + 1 \in S
  <2>1. PICK g : g = [n \in 0..k |-> Body(g, n)]
    BY <1>2
  <2> DEFINE h == [n \in 0..(k + 1) |-> IF n <= k THEN g[n] ELSE Body(g, k + 1)]
  <2>2. ASSUME NEW n \in 0..(k + 1)
        PROVE  h[n] = Body(h, n)
    <3>1. CASE n = 0
      <4>1. h[n] = g[n] /\ g[n] = Body(g, n)
        BY <2>1, <3>1
      <4> QED
        BY <3>1, <4>1
    <3>2. CASE n # 0
      <4>1. h[n] = Body(g, n)
        <5>1. CASE n <= k
          <6>1. n \in 0..k
            BY <5>1
          <6>2. g[n] = Body(g, n)
            <7> HIDE DEF Body
            <7> QED
              BY <2>1, <6>1
          <6> QED
            BY <5>1, <6>2
        <5>2. CASE n = k + 1
          BY <5>2
        <5> QED
          BY <5>1, <5>2
      <4>2. n - 1 \in 0..(k + 1) /\ n - 1 <= k
        BY <3>2
      <4>3. h[n - 1] = g[n - 1]
        BY <4>2
      <4>4. Body(h, n) = Body(g, n)
        BY <4>3
      <4> QED
        BY <4>1, <4>4
    <3> QED
      BY <3>1, <3>2
  <2>3. h = [n \in 0..(k + 1) |-> h[n]]
    OBVIOUS
  <2> HIDE DEF h
  <2>4. h = [n \in 0..(k + 1) |-> Body(h, n)]
    <3> HIDE DEF Body
    <3> QED
      BY <2>2, <2>3
  <2> HIDE DEF Body
  <2> QED
    BY <2>4
<1>3. MaxCluster \in S
  <2> HIDE DEF S
  <2> QED
    BY <1>0, <1>1, <1>2, InductNat
<1> DEFINE G == CHOOSE g : g = [n \in 0..MaxCluster |-> Body(g, n)]
<1>4. G = [n \in 0..MaxCluster |-> Body(G, n)]
  <2> HIDE DEF Body
  <2> QED
    BY <1>3
<1>5. Chain(f, c) = G
  BY DEF Chain
<1> HIDE DEF G
<1>6. \A n \in 0..MaxCluster : G[n] = Body(G, n)
  <2> HIDE DEF Body
  <2> QED
    BY <1>4
<1>8. G[0] = c
  BY <1>0, <1>6
<1>9. \A n \in 1..MaxCluster : G[n] = IF G[n - 1] \in Clusters THEN f[G[n - 1]] ELSE 0
  BY <1>0, <1>6
<1> QED
  BY <1>5, <1>8, <1>9 DEF IsChain

\* Behind what is no cluster of the disk there is nothing.
LEMMA NothingBehind ==
  ASSUME DiskLayout, NEW f, NEW c, NEW g, IsChain(f, c, g),
         NEW k \in 0..MaxCluster, g[k] \notin Clusters
  PROVE  \A n \in (k + 1)..MaxCluster : g[n] = 0
<1>0. MaxCluster \in Nat
  BY FatSizes
<1> DEFINE S == {d \in Nat : k + 1 + d <= MaxCluster => g[k + 1 + d] = 0}
<1>1. MaxCluster \in Nat /\ 0 \notin Clusters
  BY <1>0 DEF Clusters
<1>2. \A n \in 1..MaxCluster : g[n - 1] \notin Clusters => g[n] = 0
  BY DEF IsChain
<1>3. 0 \in S
  <2>1. k + 1 + 0 = k + 1 /\ (k + 1) - 1 = k
    BY <1>1
  <2>2. k + 1 <= MaxCluster => k + 1 \in 1..MaxCluster
    BY <1>1
  <2>3. k + 1 <= MaxCluster => g[k + 1] = 0
    BY <1>2, <2>1, <2>2
  <2> QED
    BY <2>1, <2>3
<1>4. ASSUME NEW d \in Nat, d \in S
      PROVE  d + 1 \in S
  <2>1. SUFFICES ASSUME k + 1 + (d + 1) <= MaxCluster PROVE g[k + 1 + (d + 1)] = 0
    OBVIOUS
  <2>2. /\ k + 1 + (d + 1) \in 1..MaxCluster /\ (k + 1 + (d + 1)) - 1 = k + 1 + d
        /\ k + 1 + d <= MaxCluster
    BY <1>1, <2>1
  <2>3. g[k + 1 + d] = 0
    BY <1>4, <2>2
  <2> QED
    BY <1>1, <1>2, <2>2, <2>3
<1>5. \A d \in Nat : d \in S
  <2> HIDE DEF S
  <2> QED
    BY <1>3, <1>4, InductNat
<1>6. ASSUME NEW n \in (k + 1)..MaxCluster
      PROVE  g[n] = 0
  <2>1. n - (k + 1) \in Nat /\ k + 1 + (n - (k + 1)) = n /\ n <= MaxCluster
    BY <1>1
  <2>2. n - (k + 1) \in S
    BY <1>5, <2>1
  <2> QED
    BY <2>1, <2>2
<1> QED
  BY <1>6

-----------------------------------------------------------------------------
(* Reading along a chain *)

\* The sectors handed over are those of the chain so far.
Along(g) ==
  \A n \in 1..Len(handed) : g[n - 1] \in Clusters /\ handed[n] = PhysSector(g[n - 1])
\* No end mark was passed, and unless the history is full the FILE is where the
\* chain is.
Going(g) ==
  /\ \A n \in 1..Len(handed) : ~EndMark(g[n])
  /\ Len(handed) = MaxCluster \/ file.cluster = g[Len(handed)]
\* If there is an end mark, it is the last thing read.
Ended(g) == Ends(opened.cluster) => g[Len(handed)] >= 4088

Reached(g) ==
  /\ Along(g)
  /\ stage = "reading" => Going(g)
  /\ stage = "done" => Ended(g)
  /\ stage = "astray" => ~Ends(opened.cluster)

\* What the FILE and what was returned have to do with each other.
Returned ==
  /\ stage \in {"off", "idle", "directory", "subdir", "subread"} => opened = Nothing
  /\ stage \in {"off", "idle", "directory", "subdir", "subread", "opened"} => handed = <<>>
  /\ opened = Nothing \/ opened.kind = "FS_FILE"
  /\ stage = "reading" => opened.kind = "FS_FILE" /\ file = [cluster |-> file.cluster, eof |-> FALSE]
  /\ stage = "opened" /\ opened # Nothing => file = [cluster |-> opened.cluster, eof |-> FALSE]

ReadInv ==
  /\ fat \in [0..MaxCluster -> FatValues]
  /\ handed \in Seq(Int) /\ Len(handed) <= MaxCluster
  /\ Returned
  /\ ~bad /\ opened.kind = "FS_FILE" => Reached(Chain(fat, opened.cluster))

\* As long as nothing was handed over, there is little to show.
LEMMA NothingYet ==
  ASSUME DiskLayout, fat' \in [0..MaxCluster -> FatValues], handed' = <<>>, Returned',
         stage' \notin {"reading", "done", "astray"}
  PROVE  ReadInv'
<1>1. handed' \in Seq(Int) /\ Len(handed') = 0 /\ 0 <= MaxCluster
  BY FatSizes
<1>2. Reached(Chain(fat, opened.cluster))'
  BY <1>1 DEF Reached, Along
<1> QED
  BY <1>1, <1>2 DEF ReadInv

\* What is found for a component of a path, and what becomes of it.
LEMMA ComponentKeeps ==
  ASSUME DiskLayout, ReadInv, stage \in {"directory", "subread"}, NEW found, Component(found),
         UNCHANGED <<fat, handed>>
  PROVE  ReadInv'
<1>1. fat' \in [0..MaxCluster -> FatValues] /\ handed' = <<>> /\ opened = Nothing
  BY DEF ReadInv, Returned
<1>2. file' = [cluster |-> found.cluster, eof |-> FALSE]
  BY DEF Component
<1>3. \/ stage' = "subdir" /\ opened' = Nothing
      \/ stage' = "opened" /\ opened' = found /\ found.kind = "FS_FILE"
      \/ stage' = "opened" /\ opened' = Nothing
  BY <1>1 DEF Component
<1>4. Returned'
  <2>1. CASE stage' = "opened" /\ opened' = found /\ found.kind = "FS_FILE"
    BY <1>1, <1>2, <2>1 DEF Returned
  <2>2. CASE stage' \in {"subdir", "opened"} /\ opened' = Nothing
    BY <1>1, <2>2 DEF Returned
  <2> QED
    BY <1>3, <2>1, <2>2
<1> QED
  BY <1>1, <1>3, <1>4, NothingYet

\* A cluster is handed over and the next one found.
LEMMA ReadKeepsChain ==
  ASSUME DiskLayout, ReadInv, fsysFatRead
  PROVE  ReadInv'
<1> DEFINE c == file.cluster
           k == Len(handed)
           g == Chain(fat, opened.cluster)
<1>1. /\ stage = "reading" /\ UNCHANGED <<fat, opened, bad>>
      /\ fat \in [0..MaxCluster -> FatValues] /\ handed \in Seq(Int) /\ k \in 0..MaxCluster
      /\ opened.kind = "FS_FILE" /\ file = [cluster |-> c, eof |-> FALSE]
      /\ MaxCluster \in Nat
  BY FatSizes DEF fsysFatRead, ReadInv, Returned
<1>2. opened # Nothing
  BY <1>1 DEF Nothing
<1>3. IsChain(fat, opened.cluster, g)
  BY ChainIs
<1>4. ~bad => Along(g) /\ Going(g)
  BY <1>1 DEF ReadInv, Reached
<1>5. g' = g
  BY <1>1 DEF Chain
<1>6. Ends(opened.cluster)' = Ends(opened.cluster)
  BY <1>1, <1>5 DEF Ends
<1> HIDE DEF g
<1>7. CASE c \notin Clusters
  <2>1. stage' = "astray" /\ UNCHANGED <<file, handed>>
    BY <1>7 DEF fsysFatRead
  <2>2. Returned'
    BY <1>1, <1>2, <2>1 DEF Returned
  <2>3. ASSUME ~bad
        PROVE  Reached(g)'
    <3>1. ~Ends(opened.cluster)
      <4>1. CASE k = MaxCluster
        BY <1>1, <1>4, <2>3, <4>1 DEF Going, Ends, EndMark, g
      <4>2. CASE k # MaxCluster
        <5>1. g[k] \notin Clusters
          BY <1>4, <1>7, <2>3, <4>2 DEF Going
        <5>2. \A n \in (k + 1)..MaxCluster : g[n] = 0
          BY <1>1, <1>3, <5>1, NothingBehind
        <5>3. ASSUME NEW n \in 1..MaxCluster
              PROVE  ~(g[n] >= 4088)
          <6>1. CASE n \in 1..k
            BY <1>4, <2>3, <6>1 DEF Going, EndMark
          <6>2. CASE n \in (k + 1)..MaxCluster
            BY <5>2, <6>2
          <6> QED
            BY <1>1, <6>1, <6>2
        <5> QED
          BY <5>3 DEF Ends, g
      <4> QED
        BY <4>1, <4>2
    <3> QED
      BY <1>4, <1>5, <1>6, <2>1, <2>3, <3>1 DEF Reached, Along
  <2> QED
    BY <1>1, <1>5, <2>1, <2>2, <2>3 DEF ReadInv, g
<1>8. CASE c \in Clusters
  <2> DEFINE next == fat[c]
  <2>1. NextCluster(c) = next /\ next \in FatValues /\ c \in Int
    <3>1. c \in 0..MaxCluster /\ c \in Int
      BY <1>1, <1>8 DEF Clusters
    <3>2. NextCluster(c) = next
      BY <1>1, <1>8, EntryOfCluster
    <3> QED
      BY <1>1, <3>1, <3>2
  <2>2. /\ file' = Advance(file, next) /\ handed' = Grown
        /\ stage' = IF file'.eof THEN "done" ELSE "reading"
    BY <1>8, <2>1 DEF fsysFatRead
  <2> HIDE DEF next
  <2>3. \/ EndMark(next) /\ file' = [cluster |-> c, eof |-> TRUE] /\ stage' = "done"
        \/ ~EndMark(next) /\ file' = [cluster |-> next, eof |-> FALSE] /\ stage' = "reading"
    <3>1. CASE EndMark(next)
      <4>1. file' = [cluster |-> c, eof |-> TRUE]
        BY <1>1, <2>2, <3>1 DEF Advance
      <4> QED
        BY <2>2, <3>1, <4>1
    <3>2. CASE ~EndMark(next)
      <4>1. file' = [file EXCEPT !.cluster = next]
        BY <2>2, <3>2 DEF Advance
      <4>2. file' = [cluster |-> next, eof |-> FALSE]
        <5> HIDE DEF c
        <5> QED
          BY <1>1, <4>1
      <4> QED
        BY <2>2, <3>2, <4>2
    <3> QED
      BY <3>1, <3>2
  <2>4. PhysSector(c) \in Int
    <3>1. DataOffset \in Int
      BY DEF DiskLayout
    <3> QED
      BY <2>1, <3>1 DEF PhysSector
  <2>5. handed' \in Seq(Int) /\ Len(handed') <= MaxCluster
    BY <1>1, <2>2, <2>4 DEF Grown
  <2>6. Returned'
    BY <1>1, <1>2, <2>3 DEF Returned
  <2>7. ASSUME ~bad, k < MaxCluster
        PROVE  Reached(g)'
    <3>1. handed' = Append(handed, PhysSector(c)) /\ g[k] = c
      BY <1>1, <1>4, <2>2, <2>7 DEF Grown, Going
    <3>2. /\ Len(handed') = k + 1 /\ handed'[k + 1] = PhysSector(c)
          /\ \A n \in 1..k : handed'[n] = handed[n]
      BY <1>1, <2>4, <3>1
    <3>3. g[k + 1] = next
      <4>1. k + 1 \in 1..MaxCluster /\ (k + 1) - 1 = k
        BY <1>1, <2>7
      <4> QED
        BY <1>3, <1>8, <3>1, <4>1 DEF IsChain, next
    <3>4. Along(g)'
      <4>1. ASSUME NEW n \in 1..(k + 1)
            PROVE  g[n - 1] \in Clusters /\ handed'[n] = PhysSector(g[n - 1])
        <5>1. CASE n \in 1..k
          BY <1>4, <2>7, <3>2, <5>1 DEF Along
        <5>2. CASE n = k + 1
          <6>1. n - 1 = k
            BY <1>1, <5>2
          <6> QED
            BY <1>8, <3>1, <3>2, <5>2, <6>1
        <5> QED
          BY <1>1, <5>1, <5>2
      <4> QED
        BY <1>5, <3>2, <4>1 DEF Along, PhysSector
    <3>5. CASE ~EndMark(next)
      <4>1. \A n \in 1..(k + 1) : ~EndMark(g[n])
        BY <1>1, <1>4, <2>7, <3>3, <3>5 DEF Going
      <4>2. file'.cluster = g[k + 1] /\ stage' = "reading"
        BY <2>3, <3>3, <3>5
      <4>3. Going(g)'
        BY <1>5, <3>2, <4>1, <4>2 DEF Going, EndMark
      <4> QED
        BY <3>4, <4>2, <4>3 DEF Reached
    <3>6. CASE EndMark(next)
      <4>1. stage' = "done"
        BY <2>3, <3>6
      <4>2. Ends(opened.cluster) => g[k + 1] >= 4088
        <5>1. SUFFICES ASSUME next = 0 PROVE ~Ends(opened.cluster)
          BY <3>3, <3>6 DEF EndMark
        <5>2. k + 1 \in 0..MaxCluster /\ g[k + 1] \notin Clusters
          BY <1>1, <2>7, <3>3, <5>1 DEF Clusters
        <5>3. \A n \in (k + 1 + 1)..MaxCluster : g[n] = 0
          BY <1>3, <5>2, NothingBehind
        <5>4. ASSUME NEW n \in 1..MaxCluster
              PROVE  ~(g[n] >= 4088)
          <6>1. CASE n \in 1..k
            BY <1>4, <2>7, <6>1 DEF Going, EndMark
          <6>2. CASE n = k + 1
            BY <3>3, <5>1, <6>2
          <6>3. CASE n \in (k + 1 + 1)..MaxCluster
            BY <5>3, <6>3
          <6> QED
            BY <1>1, <6>1, <6>2, <6>3
        <5> QED
          BY <5>4 DEF Ends, g
      <4>3. Ended(g)'
        BY <1>1, <1>5, <1>6, <3>2, <4>2 DEF Ended
      <4> QED
        BY <3>4, <4>1, <4>3 DEF Reached
    <3> QED
      BY <3>5, <3>6
  <2>8. ASSUME ~bad, k = MaxCluster
        PROVE  Reached(g)'
    <3>1. handed' = handed
      BY <1>1, <2>2, <2>8 DEF Grown
    <3>2. Along(g)'
      BY <1>4, <1>5, <2>8, <3>1 DEF Along
    <3>3. Going(g)'
      BY <1>4, <1>5, <2>8, <3>1 DEF Going
    <3>4. ~Ends(opened.cluster)
      BY <1>1, <1>4, <2>8 DEF Going, Ends, EndMark, g
    <3>5. Ended(g)'
      BY <1>6, <3>4 DEF Ended
    <3> QED
      BY <2>3, <3>2, <3>3, <3>5 DEF Reached
  <2>9. ~bad => Reached(g)'
    BY <1>1, <2>7, <2>8
  <2> QED
    BY <1>1, <1>5, <2>5, <2>6, <2>9 DEF ReadInv, g
<1> QED
  BY <1>7, <1>8

\* A failed read is not claimed anything of.
LEMMA FailKeepsChain ==
  ASSUME DiskLayout, ReadInv, ReadFails
  PROVE  ReadInv'
<1> DEFINE c == file.cluster
<1>1. /\ stage = "reading" /\ UNCHANGED <<fat, opened>> /\ bad'
      /\ fat \in [0..MaxCluster -> FatValues] /\ handed \in Seq(Int) /\ Len(handed) \in 0..MaxCluster
      /\ opened.kind = "FS_FILE" /\ file = [cluster |-> c, eof |-> FALSE]
      /\ c \in Clusters /\ MaxCluster \in Nat /\ handed' = Grown
      /\ stage' = IF file'.eof THEN "done" ELSE "reading"
  BY FatSizes DEF ReadFails, ReadInv, Returned
<1>2. opened # Nothing
  BY <1>1 DEF Nothing
<1>3. PICK n \in {0, 2} : file' = Advance(file, n)
  BY DEF ReadFails
<1>4. \/ file' = [cluster |-> c, eof |-> TRUE]
      \/ file' = [cluster |-> n, eof |-> FALSE]
  <2> HIDE DEF c
  <2>1. CASE EndMark(n)
    BY <1>1, <1>3, <2>1 DEF Advance
  <2>2. CASE ~EndMark(n)
    BY <1>1, <1>3, <2>2 DEF Advance
  <2> QED
    BY <2>1, <2>2
<1>5. Returned'
  <2>1. stage' = "reading" => file' = [cluster |-> n, eof |-> FALSE]
    BY <1>1, <1>4
  <2>2. stage' \in {"reading", "done"}
    BY <1>1
  <2> QED
    BY <1>1, <1>2, <2>1, <2>2 DEF Returned
<1>6. handed' \in Seq(Int) /\ Len(handed') <= MaxCluster
  <2>1. DataOffset \in Int
    BY DEF DiskLayout
  <2>2. PhysSector(c) \in Int
    BY <1>1, <2>1 DEF PhysSector, Clusters
  <2> QED
    BY <1>1, <2>2 DEF Grown
<1> QED
  BY <1>1, <1>5, <1>6 DEF ReadInv

\* The rest of the steps hand nothing over.
LEMMA ReadInvStep ==
  ASSUME DiskLayout, ReadInv, [FatNext]_fatVars
  PROVE  ReadInv'
<1>0. /\ fat \in [0..MaxCluster -> FatValues] /\ Returned /\ handed \in Seq(Int)
  BY DEF ReadInv
<1>1. CASE fsysFatMount
  BY <1>0, <1>1, NothingYet DEF fsysFatMount, Returned
<1>2. CASE fsysFatDirectory
  <2>1. stage = "directory" /\ UNCHANGED <<fat, handed>>
    BY <1>2 DEF fsysFatDirectory
  <2>2. (\E found : Component(found)) \/ UNCHANGED <<stage, file, opened>>
    BY <1>2 DEF fsysFatDirectory
  <2>3. CASE \E found : Component(found)
    BY <2>1, <2>3, ComponentKeeps
  <2>4. CASE UNCHANGED <<stage, file, opened>>
    BY <1>0, <2>1, <2>4, NothingYet DEF Returned
  <2> QED
    BY <2>2, <2>3, <2>4
<1>3. CASE Uninitialized
  BY <1>0, <1>3, NothingYet DEF Uninitialized, Returned
<1>4. CASE fsysFatOpenSubDir
  <2>1. stage = "subread" /\ UNCHANGED <<fat, handed>>
    BY <1>4 DEF fsysFatOpenSubDir
  <2>2. \/ \E found : Component(found)
        \/ stage' \in {"subread", "astray"} /\ UNCHANGED opened
    BY <1>4, <2>1 DEF fsysFatOpenSubDir
  <2>3. CASE \E found : Component(found)
    BY <2>1, <2>3, ComponentKeeps
  <2>4. CASE stage' \in {"subread", "astray"} /\ UNCHANGED opened
    <3>1. Returned' /\ opened' = Nothing /\ opened'.kind # "FS_FILE"
      BY <1>0, <2>1, <2>4 DEF Returned, Nothing
    <3> QED
      BY <2>1, <3>1 DEF ReadInv
  <2> QED
    BY <2>2, <2>3, <2>4
<1>5. CASE cmd_read
  <2>1. /\ stage = "opened" /\ stage' = IF opened.kind = "FS_FILE" THEN "reading" ELSE "done"
        /\ UNCHANGED <<fat, file, opened, handed, bad>> /\ handed = <<>>
    BY <1>0, <1>5 DEF cmd_read, Returned
  <2>2. CASE opened.kind = "FS_FILE"
    <3>1. opened # Nothing /\ stage' = "reading"
      BY <2>1, <2>2 DEF Nothing
    <3>2. file = [cluster |-> opened.cluster, eof |-> FALSE]
      BY <1>0, <2>1, <3>1 DEF Returned
    <3>3. file.cluster = opened.cluster
      BY <3>2
    <3>4. Returned'
      BY <2>1, <2>2, <3>1, <3>2, <3>3 DEF Returned
    <3>5. Len(handed') = 0 /\ Len(handed') <= MaxCluster
      BY <2>1 DEF ReadInv
    <3>6. Chain(fat, opened.cluster)[0] = opened.cluster
      BY ChainIs DEF IsChain
    <3> DEFINE g == Chain(fat, opened.cluster)
    <3>7. g' = g
      BY <2>1 DEF Chain
    <3>8. g[0] = file.cluster
      BY <3>3, <3>6
    <3> HIDE DEF g
    <3>9. Reached(g)'
      BY <2>1, <3>1, <3>5, <3>7, <3>8 DEF Reached, Along, Going
    <3> QED
      BY <1>0, <2>1, <3>4, <3>5, <3>9 DEF ReadInv, g
  <2>3. CASE opened.kind # "FS_FILE"
    <3>1. Returned'
      BY <1>0, <2>1, <2>3 DEF Returned
    <3> QED
      BY <2>1, <2>3, <3>1 DEF ReadInv
  <2> QED
    BY <2>2, <2>3
<1>6. CASE fsysFatRead
  BY <1>6, ReadKeepsChain
<1>7. CASE volCloseFile
  BY <1>0, <1>7, NothingYet DEF volCloseFile, Returned
<1>8. CASE ReadFails
  BY <1>8, FailKeepsChain
<1>9. ASSUME NEW fname \in Paths, volOpenFile(fname)
      PROVE  ReadInv'
  <2>1. /\ UNCHANGED fat /\ handed' = <<>> /\ opened' = Nothing
        /\ stage' \in {"directory", "opened", "astray"}
    BY <1>9 DEF volOpenFile
  <2>2. Returned'
    BY <2>1 DEF Returned
  <2>3. opened'.kind # "FS_FILE" /\ handed' \in Seq(Int) /\ Len(handed') = 0
    BY <2>1 DEF Nothing
  <2>4. Len(handed') <= MaxCluster
    BY <2>3, FatSizes
  <2> QED
    BY <1>0, <2>1, <2>2, <2>3, <2>4 DEF ReadInv
<1>10. CASE UNCHANGED fatVars
  <2>1. UNCHANGED <<stage, fat, file, opened, handed, bad>>
    BY <1>10 DEF fatVars
  <2> DEFINE g == Chain(fat, opened.cluster)
  <2>2. g' = g
    BY <2>1 DEF Chain
  <2>3. Ends(opened.cluster)' = Ends(opened.cluster)
    BY <2>1, <2>2 DEF Ends
  <2> HIDE DEF g
  <2>4. Reached(g)' = Reached(g)
    BY <2>1, <2>2, <2>3 DEF Reached, Along, Going, Ended, EndMark, PhysSector
  <2> QED
    BY <2>1, <2>4 DEF ReadInv, Returned, g
<1> QED
  BY <1>1, <1>2, <1>3, <1>4, <1>5, <1>6, <1>7, <1>8, <1>9, <1>10 DEF FatNext, Work

\* Before the first file.
LEMMA ReadInvBegins ==
  ASSUME DiskLayout, FatInit
  PROVE  ReadInv
<1>1. /\ fat \in [0..MaxCluster -> FatValues] /\ stage = "off" /\ opened = Nothing /\ handed = <<>>
  BY DEF FatInit, DiskLayout
<1>2. Returned /\ opened.kind # "FS_FILE" /\ Len(handed) = 0
  BY <1>1 DEF Returned, Nothing
<1> QED
  BY <1>1, <1>2, FatSizes DEF ReadInv

\* fsysFatRead() hands over the sectors of a file's clusters in the order of its
\* chain, entries that lie across two sectors of the FAT included, up to the end
\* mark and not less, and leaves the disk only where there is no chain.
THEOREM ReadsAlongTheChain == DiskLayout /\ FatSpec => []ReadsOnlyTheChain
<1> SUFFICES ASSUME DiskLayout
             PROVE  FatSpec => []ReadsOnlyTheChain
  OBVIOUS
<1>1. FatInit => ReadInv
  BY ReadInvBegins
<1>2. ReadInv /\ [FatNext]_fatVars => ReadInv'
  BY ReadInvStep
<1>3. ReadInv => ReadsOnlyTheChain
  <2> SUFFICES ASSUME ReadInv, AllRead
               PROVE  ReadsOnlyTheChain
    BY DEF ReadsOnlyTheChain, ReadsTheChain, KeepsToTheDisk
  <2> DEFINE g == Chain(fat, opened.cluster)
  <2>1. Returned /\ ~bad
    BY DEF ReadInv, AllRead
  <2>2. opened.kind = "FS_FILE" => Reached(g)
    BY <2>1 DEF ReadInv
  <2> HIDE DEF g
  <2>3. opened = Nothing \/ opened.kind = "FS_FILE"
    BY <2>1 DEF Returned
  <2>4. KeepsToTheDisk
    BY <2>2, <2>3 DEF KeepsToTheDisk, Reached
  <2>5. ASSUME opened.cluster \in Clusters
        PROVE  opened.kind = "FS_FILE"
    <3>1. 0 \notin Clusters
      BY FatSizes DEF Clusters
    <3> QED
      BY <2>3, <2>5, <3>1 DEF Nothing
  <2>6. ASSUME opened.cluster \in Clusters, NEW n \in 1..Len(handed)
        PROVE  handed[n] = 1 + NumberOfFats * SectorsPerFat + RootSectors + g[n - 1] - 2
    <3>1. g[n - 1] \in Clusters /\ handed[n] = DataOffset + (g[n - 1] - 1)
      BY <2>2, <2>5, <2>6 DEF Reached, Along, PhysSector
    <3>2. DataOffset = NumberOfFats * SectorsPerFat + RootSectors
          /\ NumberOfFats * SectorsPerFat \in Int /\ RootSectors \in Int
      BY DEF DiskLayout
    <3>3. g[n - 1] \in Int
      BY <3>1 DEF Clusters
    <3> QED
      BY <3>1, <3>2, <3>3
  <2>7. ReadsTheChain
    BY <2>2, <2>5, <2>6 DEF ReadsTheChain, Reached, Ended, g
  <2> QED
    BY <2>4, <2>7 DEF ReadsOnlyTheChain
<1> QED
  BY <1>1, <1>2, <1>3, PTL DEF FatSpec

-----------------------------------------------------------------------------
(* Names and paths *)

\* What the constants say of names.
LEMMA NameSizes ==
  ASSUME DiskLayout, Names
  PROVE  /\ BaseLength \in Nat \ {0} /\ ExtLength \in Nat \ {0} /\ PathnameSize \in Nat \ {0}
         /\ NameLength \in Nat /\ NameLength = BaseLength + ExtLength /\ PathnameSize > NameLength
         /\ "." \notin Letters /\ ":" \notin Letters /\ "\\" \notin Letters /\ NUL \notin Letters
         /\ \A c \in Letters : Capital[c] \in STRING /\ Capital[c] # NUL
<1>1. /\ BaseLength \in Nat \ {0} /\ ExtLength \in Nat \ {0} /\ PathnameSize \in Nat \ {0}
  BY DEF DiskLayout
<1>2. "." \notin Letters /\ ":" \notin Letters /\ "\\" \notin Letters /\ NUL \notin Letters
  BY DEF Names, Letters, NUL
<1>3. PathnameSize > NameLength /\ \A c \in Letters : Capital[c] \in STRING /\ Capital[c] # NUL
  BY DEF Names, Letters, NUL
<1> QED
  BY <1>1, <1>2, <1>3 DEF NameLength

\* A name with base b: its dot is behind the base, the rest are letters.
NameWithBase(s, b) ==
  /\ b \in 1..BaseLength /\ Len(s) = b + 1 + ExtLength /\ s[b + 1] = "."
  /\ \A k \in 1..Len(s) : k # b + 1 => s[k] \in Letters

\* The loop over the name stops at its dot.
LEMMA StopsAtDot ==
  ASSUME DiskLayout, Names, NEW s \in Seq(STRING), NEW b, NameWithBase(s, b), NEW after
  PROVE  Stops(s, after) = b /\ Dot(s) = b + 1
<1> DEFINE stop == {i \in 0..BaseLength : \/ Len(s) # 0 /\ i >= Len(s) - 1
                                          \/ Char(s, i, after) = "." \/ i = BaseLength}
<1>1. /\ BaseLength \in Nat \ {0} /\ ExtLength \in Nat \ {0}
      /\ b \in 1..BaseLength /\ Len(s) = b + 1 + ExtLength /\ s[b + 1] = "."
      /\ \A k \in 1..Len(s) : k # b + 1 => s[k] \in Letters /\ s[k] # "."
  BY NameSizes DEF NameWithBase
<1>2. b \in stop
  <2>1. Char(s, b, after) = "."
    BY <1>1 DEF Char
  <2> QED
    BY <1>1, <2>1
<1>3. ASSUME NEW j \in stop
      PROVE  b <= j
  <2>1. SUFFICES ASSUME j < b PROVE FALSE
    BY <1>1
  <2>2. j \in 0..BaseLength /\ j < Len(s) - 1 /\ j # BaseLength
    BY <1>1, <2>1
  <2>3. Char(s, j, after) = s[j + 1] /\ s[j + 1] # "."
    BY <1>1, <2>1, <2>2 DEF Char
  <2> QED
    BY <1>1, <2>2, <2>3
<1>4. Stops(s, after) = CHOOSE i \in stop : \A j \in stop : i <= j
  BY DEF Stops
<1>5. \A i \in stop : i \in Nat
  OBVIOUS
<1> HIDE DEF stop
<1>6. Stops(s, after) = b
  <2>1. \E i \in stop : \A j \in stop : i <= j
    BY <1>2, <1>3
  <2>2. Stops(s, after) \in stop /\ \A j \in stop : Stops(s, after) <= j
    BY <1>4, <2>1
  <2>3. Stops(s, after) <= b /\ b <= Stops(s, after) /\ Stops(s, after) \in Nat /\ b \in Nat
    BY <1>1, <1>2, <1>3, <1>5, <2>2
  <2> QED
    BY <2>3
<1>7. Dot(s) = b + 1
  <2>1. b + 1 \in 1..Len(s)
    BY <1>1
  <2> QED
    BY <1>1, <2>1 DEF Dot
<1> QED
  BY <1>6, <1>7

\* The name searched for is the one the directory holds.
LEMMA DosName ==
  ASSUME DiskLayout, Names, NEW s \in Seq(STRING), Name83(s), NEW after
  PROVE  ToDosFileName(s, after) = Padded(s)
<1>1. PICK b : NameWithBase(s, b)
  BY DEF Name83, NameWithBase
<1>2. Stops(s, after) = b /\ Dot(s) = b + 1
  BY <1>1, StopsAtDot
<1>3. /\ BaseLength \in Nat \ {0} /\ ExtLength \in Nat \ {0} /\ NameLength = BaseLength + ExtLength
      /\ b \in 1..BaseLength /\ Len(s) = b + 1 + ExtLength /\ s[b + 1] = "."
      /\ \A k \in 1..Len(s) : k # b + 1 => s[k] \in Letters
      /\ NUL \notin Letters
  BY <1>1, NameSizes DEF NameWithBase
<1>4. \A c \in Letters : toupper(c) = Capital[c] /\ c # NUL
  BY <1>3 DEF toupper, Letters
<1>5. Char(s, b, after) = "."
  BY <1>3 DEF Char
<1>6. ASSUME NEW k \in 1..NameLength
      PROVE  ToDosFileName(s, after)[k] = Padded(s)[k]
  <2>0. /\ ToDosFileName(s, after)[k] =
              IF k <= BaseLength THEN IF k <= b THEN toupper(Char(s, k - 1, after)) ELSE SPACE
              ELSE IF Char(s, b + k - BaseLength, after) # NUL
                   THEN toupper(Char(s, b + k - BaseLength, after)) ELSE SPACE
        /\ Padded(s)[k] = IF k < b + 1 THEN Capital[s[k]]
                          ELSE IF k <= BaseLength THEN SPACE ELSE Capital[s[b + 1 + k - BaseLength]]
    BY <1>2, <1>5 DEF ToDosFileName, Padded
  <2>1. CASE k <= b
    <3>1. Char(s, k - 1, after) = s[k] /\ s[k] \in Letters
      BY <1>3, <2>1 DEF Char
    <3>2. ToDosFileName(s, after)[k] = toupper(s[k])
      BY <1>3, <2>0, <2>1, <3>1
    <3>3. Padded(s)[k] = Capital[s[k]]
      BY <1>3, <2>0, <2>1
    <3> QED
      BY <1>4, <3>1, <3>2, <3>3
  <2>2. CASE k > b /\ k <= BaseLength
    BY <1>3, <2>0, <2>2
  <2>3. CASE k > BaseLength
    <3> DEFINE i == b + (k - BaseLength)
    <3>1. i \in Nat /\ i < Len(s) /\ i + 1 \in 1..Len(s) /\ i + 1 # b + 1
      BY <1>3, <2>3
    <3>2. Char(s, i, after) = s[i + 1] /\ s[i + 1] \in Letters
      BY <1>3, <3>1 DEF Char
    <3>3. b + k - BaseLength = i /\ b + 1 + k - BaseLength = i + 1
      BY <1>3
    <3> HIDE DEF i
    <3>4. ToDosFileName(s, after)[k] = toupper(s[i + 1])
      BY <1>3, <1>4, <2>0, <2>3, <3>2, <3>3
    <3>5. Padded(s)[k] = Capital[s[i + 1]]
      BY <1>3, <2>0, <2>3, <3>3
    <3> QED
      BY <1>4, <3>2, <3>4, <3>5
  <2> QED
    BY <1>3, <2>1, <2>2, <2>3
<1>7. /\ ToDosFileName(s, after) = [k \in 1..NameLength |-> ToDosFileName(s, after)[k]]
      /\ Padded(s) = [k \in 1..NameLength |-> Padded(s)[k]]
  BY DEF ToDosFileName, Padded
<1> QED
  BY <1>6, <1>7

\* No character of such a name ends it.
Written == (STRING \cup {SPACE}) \ {NUL}

LEMMA PaddedIs ==
  ASSUME DiskLayout, Names, NEW s \in Seq(STRING), Name83(s)
  PROVE  Padded(s) \in [1..NameLength -> Written]
<1>1. PICK b : NameWithBase(s, b)
  BY DEF Name83, NameWithBase
<1>2. Dot(s) = b + 1
  BY <1>1, StopsAtDot
<1>3. /\ BaseLength \in Nat \ {0} /\ ExtLength \in Nat \ {0} /\ NameLength = BaseLength + ExtLength
      /\ b \in 1..BaseLength /\ Len(s) = b + 1 + ExtLength
      /\ \A k \in 1..Len(s) : k # b + 1 => s[k] \in Letters
      /\ \A c \in Letters : Capital[c] \in STRING /\ Capital[c] # NUL
  BY <1>1, NameSizes DEF NameWithBase
<1>4. ASSUME NEW k \in 1..NameLength
      PROVE  Padded(s)[k] \in Written
  <2>0. Padded(s)[k] = IF k < b + 1 THEN Capital[s[k]]
                       ELSE IF k <= BaseLength THEN SPACE ELSE Capital[s[b + 1 + k - BaseLength]]
    BY <1>2 DEF Padded
  <2>1. CASE k <= b
    BY <1>3, <2>0, <2>1 DEF Written
  <2>2. CASE k > b /\ k <= BaseLength
    <3>1. SPACE # NUL
      BY DEF SPACE, NUL
    <3>2. Padded(s)[k] = SPACE
      BY <1>3, <2>0, <2>2
    <3> QED
      BY <3>1, <3>2 DEF Written
  <2>3. CASE k > BaseLength
    <3> DEFINE i == b + 1 + k - BaseLength
    <3>1. i \in 1..Len(s) /\ i # b + 1
      BY <1>3, <2>3
    <3>2. Padded(s)[k] = Capital[s[i]]
      BY <1>3, <2>0, <2>3
    <3> QED
      BY <1>3, <3>1, <3>2 DEF Written
  <2> QED
    BY <1>3, <2>1, <2>2, <2>3
<1>5. Padded(s) = [k \in 1..NameLength |-> Padded(s)[k]]
  BY DEF Padded
<1> QED
  BY <1>4, <1>5

\* A name without an end in it is found only where it is.
LEMMA ComparesWhole ==
  ASSUME DiskLayout, Names, NEW s \in [1..NameLength -> Written],
         NEW t \in Seq(STRING), Len(t) = NameLength
  PROVE  strcmp(s, t) <=> t = s
<1> DEFINE end(u) == {k \in 1..Len(u) : u[k] = NUL}
           cut(u) == IF end(u) = {} THEN u
                     ELSE SubSeq(u, 1, (CHOOSE k \in end(u) : \A l \in end(u) : k <= l) - 1)
<1>1. NameLength \in Nat
  BY NameSizes
<1>2. s \in Seq(Written) /\ Len(s) = NameLength
  BY <1>1
<1>3. end(s) = {}
  BY <1>1, <1>2 DEF Written
<1>4. strcmp(s, t) <=> s = cut(t)
  BY <1>3 DEF strcmp
<1>5. CASE end(t) = {}
  BY <1>4, <1>5
<1>6. CASE end(t) # {}
  <2> DEFINE m == CHOOSE k \in end(t) : \A l \in end(t) : k <= l
  <2>1. end(t) \subseteq Nat
    BY <1>1
  <2>2. m \in end(t)
    <3> HIDE DEF end
    <3> QED
      BY <1>6, <2>1, LeastMember
  <2>3. m \in 1..Len(t) /\ t[m] = NUL
    BY <2>2
  <2>4. cut(t) = SubSeq(t, 1, m - 1)
    BY <1>6
  <2> HIDE DEF m, cut, end
  <2>5. Len(cut(t)) = m - 1
    BY <1>1, <2>3, <2>4
  <2>6. cut(t) # s
    BY <1>1, <1>2, <2>3, <2>5
  <2>7. t # s
    BY <1>1, <2>3 DEF Written
  <2> QED
    BY <1>4, <2>6, <2>7
<1> QED
  BY <1>5, <1>6

\* What is no '\' is passed over, and the first one found.
LEMMA NoMark ==
  ASSUME NEW s, NEW i \in Nat, \A k \in i..(Len(s) - 1) : s[k + 1] # "\\"
  PROVE  strchr(s, i) = -1
  BY DEF strchr

LEMMA MarkAt ==
  ASSUME NEW s, NEW i \in Nat, NEW m \in i..(Len(s) - 1), s[m + 1] = "\\", Len(s) \in Nat,
         \A k \in i..(m - 1) : s[k + 1] # "\\"
  PROVE  strchr(s, i) = m
<1> DEFINE found == {k \in i..(Len(s) - 1) : s[k + 1] = "\\"}
<1>1. m \in found /\ \A l \in found : m <= l
  OBVIOUS
<1>2. strchr(s, i) = CHOOSE k \in found : \A l \in found : k <= l
  BY <1>1 DEF strchr
<1>3. \A k \in found : k \in Nat
  OBVIOUS
<1> HIDE DEF found
<1>4. strchr(s, i) \in found /\ \A l \in found : strchr(s, i) <= l
  BY <1>1, <1>2
<1>5. strchr(s, i) <= m /\ m <= strchr(s, i) /\ strchr(s, i) \in Nat /\ m \in Nat
  BY <1>1, <1>3, <1>4
<1> QED
  BY <1>5

\* A name has no marks in it, and fits where a component of a path is kept.
LEMMA PlainWord ==
  ASSUME DiskLayout, Names, NEW s, Name83(s)
  PROVE  /\ Len(s) \in 3..PathnameSize
         /\ \A k \in 1..Len(s) : s[k] # ":" /\ s[k] # "\\"
<1>1. PICK b : NameWithBase(s, b)
  BY DEF Name83, NameWithBase
<1>2. /\ BaseLength \in Nat \ {0} /\ ExtLength \in Nat \ {0} /\ NameLength = BaseLength + ExtLength
      /\ PathnameSize > NameLength /\ PathnameSize \in Nat
      /\ b \in 1..BaseLength /\ Len(s) = b + 1 + ExtLength /\ s[b + 1] = "."
      /\ \A k \in 1..Len(s) : k # b + 1 => s[k] \in Letters
      /\ ":" \notin Letters /\ "\\" \notin Letters
  BY <1>1, NameSizes DEF NameWithBase
<1>3. Len(s) \in 3..PathnameSize
  BY <1>2
<1>4. ASSUME NEW k \in 1..Len(s)
      PROVE  s[k] # ":" /\ s[k] # "\\"
  <2>1. CASE k = b + 1
    BY <1>2, <2>1
  <2>2. CASE k # b + 1
    BY <1>2, <2>2
  <2> QED
    BY <2>1, <2>2
<1> QED
  BY <1>3, <1>4

\* Whichever of the three ways a file of the root directory is named, the
\* component that is looked for is its name, and the last one.
PathIs(fname, from) ==
  /\ Pathname(fname, from) = Plain(fname)
  /\ from = -1 \/ strchr(fname, from + 1) = -1

LEMMA PlainPath ==
  ASSUME DiskLayout, Names, NEW s \in Seq(STRING), Name83(Plain(s)), NEW after
  PROVE  /\ Plain(s) \in Seq(STRING) /\ Char(s, 2, after) # ":"
         /\ PathIs(s, IF strchr(s, 0) = -1 THEN -1 ELSE strchr(s, 0) + 1)
<1> DEFINE q == Plain(s)
<1>1. /\ Len(q) \in 3..PathnameSize /\ PathnameSize \in Nat
      /\ \A k \in 1..Len(q) : q[k] # ":" /\ q[k] # "\\"
  BY PlainWord, NameSizes
<1>2. CASE Len(s) > 3 /\ SubSeq(s, 1, 3) = <<"a", ":", "\\">>
  <2>1. q = SubSeq(s, 4, Len(s))
    BY <1>2 DEF Plain
  <2>2. s[1] = "a" /\ s[2] = ":" /\ s[3] = "\\"
    <3> DEFINE w == <<"a", ":", "\\">>
    <3>1. w[1] = "a" /\ w[2] = ":" /\ w[3] = "\\"
      OBVIOUS
    <3>2. SubSeq(s, 1, 3)[1] = s[1] /\ SubSeq(s, 1, 3)[2] = s[2] /\ SubSeq(s, 1, 3)[3] = s[3]
      BY <1>2
    <3>3. SubSeq(s, 1, 3) = w
      BY <1>2
    <3> HIDE DEF w
    <3> QED
      BY <3>1, <3>2, <3>3
  <2> HIDE DEF q
  <2>3. /\ q \in Seq(STRING) /\ Len(q) = Len(s) - 3 /\ Len(s) \in Nat
        /\ \A k \in 1..Len(q) : q[k] = s[k + 3]
    BY <1>2, <2>1
  <2>4. strchr(s, 0) = 2
    <3>1. \A k \in 0..1 : s[k + 1] # "\\"
      BY <2>2
    <3> QED
      BY <1>2, <2>2, <2>3, <3>1, MarkAt
  <2>5. \A k \in 3..(Len(s) - 1) : s[k + 1] # "\\"
    <3>1. ASSUME NEW k \in 3..(Len(s) - 1)
          PROVE  s[k + 1] # "\\"
      <4>1. k - 2 \in 1..Len(q) /\ (k - 2) + 3 = k + 1
        BY <2>3
      <4> QED
        BY <1>1, <2>3, <4>1
    <3> QED
      BY <3>1
  <2>6. strchr(s, 3) = -1 /\ strchr(s, 4) = -1
    BY <2>3, <2>5, NoMark
  <2>7. Pathname(s, 3) = q
    <3>1. Min2(Len(s), 3 + PathnameSize) = Len(s)
      BY <1>1, <2>3 DEF Min2
    <3> QED
      BY <2>1, <2>6, <3>1 DEF Pathname
  <2>8. Char(s, 2, after) = "\\"
    BY <1>2, <2>2, <2>3 DEF Char
  <2> QED
    BY <2>3, <2>4, <2>6, <2>7, <2>8 DEF PathIs, q
<1>3. CASE ~(Len(s) > 3 /\ SubSeq(s, 1, 3) = <<"a", ":", "\\">>) /\ s # <<>> /\ s[1] = "\\"
  <2>1. q = Tail(s)
    BY <1>3 DEF Plain
  <2> HIDE DEF q
  <2>2. /\ q \in Seq(STRING) /\ Len(q) = Len(s) - 1 /\ Len(s) \in Nat
        /\ \A k \in 1..Len(q) : q[k] = s[k + 1]
    BY <1>3, <2>1
  <2>3. strchr(s, 0) = 0
    <3>1. 0 \in 0..(Len(s) - 1) /\ \A k \in 0..(0 - 1) : s[k + 1] # "\\"
      BY <1>1, <2>2
    <3> QED
      BY <1>3, <2>2, <3>1, MarkAt
  <2>4. strchr(s, 1) = -1 /\ strchr(s, 2) = -1
    <3>1. ASSUME NEW k \in 1..(Len(s) - 1)
          PROVE  s[k + 1] # "\\"
      <4>1. k \in 1..Len(q)
        BY <2>2
      <4> QED
        BY <1>1, <2>2, <4>1
    <3>2. \A k \in 2..(Len(s) - 1) : s[k + 1] # "\\"
      BY <3>1
    <3> QED
      BY <2>2, <3>1, <3>2, NoMark
  <2>5. Pathname(s, 1) = q
    <3>1. Min2(Len(s), 1 + PathnameSize) = Len(s)
      BY <1>1, <2>2 DEF Min2
    <3>2. Pathname(s, 1) = SubSeq(s, 2, Len(s))
      BY <2>4, <3>1 DEF Pathname
    <3> QED
      BY <1>3, <2>1, <2>2, <3>2
  <2>6. Char(s, 2, after) = q[2]
    BY <1>1, <2>2 DEF Char
  <2> QED
    BY <1>1, <2>2, <2>3, <2>4, <2>5, <2>6 DEF PathIs, q
<1>4. CASE ~(Len(s) > 3 /\ SubSeq(s, 1, 3) = <<"a", ":", "\\">>) /\ ~(s # <<>> /\ s[1] = "\\")
  <2>1. q = s
    BY <1>4 DEF Plain
  <2>2. strchr(s, 0) = -1
    <3>1. \A k \in 0..(Len(s) - 1) : s[k + 1] # "\\"
      BY <1>1, <2>1
    <3> QED
      BY <3>1, NoMark
  <2>3. Char(s, 2, after) = s[3]
    BY <1>1, <2>1 DEF Char
  <2> QED
    BY <1>1, <2>1, <2>2, <2>3 DEF PathIs, Pathname
<1> QED
  BY <1>2, <1>3, <1>4

-----------------------------------------------------------------------------
(* Looking through the root directory *)

\* What volOpenFile() has to return.
IsRight(answer, dos) ==
  /\ RootFiles(dos) = {} => answer = Nothing
  /\ RootFiles(dos) # {} => \E k \in RootFiles(dos) : answer = Found(Root[k])

NotBelow(n, dos) ==
  \A k \in DOMAIN Root : k \div EntriesPerSector < n => Root[k].Filename # dos

\* While the directory is looked through, nothing of that name was passed over,
\* and no component is left to go on to.
Searching ==
  /\ name = Padded(Plain(asked))
  /\ p = -1 \/ strchr(path, p + 1) = -1
  /\ sector \in 0..(RootSectors - 1) /\ NotBelow(sector, name)

RightInv ==
  /\ asked \in Seq(STRING)
  /\ AllRead /\ Name83(Plain(asked)) =>
       /\ stage \notin {"subdir", "subread"}
       /\ stage = "directory" => Searching
       /\ stage = "opened" => IsRight(opened, Padded(Plain(asked)))

\* Every entry of the root directory is in one of its sectors.
LEMMA RootSizes ==
  ASSUME DiskLayout
  PROVE  /\ DOMAIN Root \subseteq Nat /\ RootSectors \in Nat \ {0}
         /\ \A k \in DOMAIN Root : k \div EntriesPerSector \in 0..(RootSectors - 1)
<1>1. /\ DOMAIN Root = 0..(RootSectors * EntriesPerSector - 1)
      /\ RootSectors \in Nat \ {0} /\ EntriesPerSector \in Nat \ {0}
  BY DEF DiskLayout
<1>2. RootSectors * EntriesPerSector \in Nat
  BY <1>1
<1>3. ASSUME NEW k \in DOMAIN Root
      PROVE  k \div EntriesPerSector \in 0..(RootSectors - 1)
  <2> DEFINE d == k \div EntriesPerSector
             m == k % EntriesPerSector
  <2>1. k \in Nat /\ k < RootSectors * EntriesPerSector
    BY <1>1, <1>2
  <2>2. k = d * EntriesPerSector + m /\ d \in Nat /\ m \in 0..(EntriesPerSector - 1)
    BY <1>1, <2>1, Quotient
  <2> HIDE DEF d, m
  <2>3. d < RootSectors
    <3>1. SUFFICES ASSUME RootSectors <= d PROVE FALSE
      BY <1>1, <2>2
    <3>2. RootSectors * EntriesPerSector <= d * EntriesPerSector
      BY <1>1, <2>2, <3>1, Times
    <3>3. d * EntriesPerSector \in Nat
      BY <1>1, <2>2
    <3> QED
      BY <1>1, <1>2, <2>1, <2>2, <3>2, <3>3
  <2> QED
    BY <1>1, <2>2, <2>3 DEF d
<1> QED
  BY <1>1, <1>2, <1>3

\* A sector is searched for the name, and for nothing else.
LEMMA SectorSearched ==
  ASSUME DiskLayout, Names, name \in [1..NameLength -> Written], NEW n
  PROVE  LET entries == RootEntries(n) IN
         /\ Matching(entries) # {} =>
              \E k \in DOMAIN Root : /\ k \div EntriesPerSector = n
                                     /\ Root[k].Filename = name /\ First(entries) = Root[k]
         /\ Matching(entries) = {} =>
              \A k \in DOMAIN Root : k \div EntriesPerSector = n => Root[k].Filename # name
<1> DEFINE entries == RootEntries(n)
<1>1. /\ DOMAIN entries = {k \in DOMAIN Root : k \div EntriesPerSector = n}
      /\ \A k \in DOMAIN entries : entries[k] = Root[k]
  BY DEF RootEntries
<1> HIDE DEF entries
<1>2. ASSUME NEW k \in DOMAIN Root
      PROVE  strcmp(name, Root[k].Filename) <=> Root[k].Filename = name
  <2>1. Root[k].Filename \in Seq(STRING) /\ Len(Root[k].Filename) = NameLength
    BY DEF DiskLayout, RootEntriesFit
  <2> QED
    BY <2>1, ComparesWhole
<1>3. Matching(entries) =
        {k \in DOMAIN Root : k \div EntriesPerSector = n /\ Root[k].Filename = name}
  <2>1. Matching(entries) = {k \in DOMAIN entries : strcmp(name, entries[k].Filename)}
    BY DEF Matching
  <2>2. \A k \in DOMAIN entries :
          k \in DOMAIN Root /\ (strcmp(name, entries[k].Filename) <=> Root[k].Filename = name)
    BY <1>1, <1>2
  <2> QED
    BY <1>1, <2>1, <2>2
<1>4. ASSUME Matching(entries) # {}
      PROVE  \E k \in DOMAIN Root : /\ k \div EntriesPerSector = n
                                    /\ Root[k].Filename = name /\ First(entries) = Root[k]
  <2> DEFINE first == CHOOSE k \in Matching(entries) : \A l \in Matching(entries) : k <= l
  <2>1. Matching(entries) \subseteq Nat
    BY <1>3, RootSizes
  <2>2. \E k \in Matching(entries) : \A l \in Matching(entries) : k <= l
    BY <1>4, <2>1, LeastMember
  <2>3. first \in Matching(entries)
    BY <2>2
  <2>4. First(entries) = entries[first]
    BY DEF First
  <2> HIDE DEF first
  <2> QED
    BY <1>1, <1>3, <2>3, <2>4
<1> QED
  BY <1>3, <1>4 DEF entries

\* The first entry of that name decides what is returned.
LEMMA RightWhenFound ==
  ASSUME DiskLayout, NEW k \in DOMAIN Root, NEW dos, Root[k].Filename = dos
  PROVE  IsRight(IF Found(Root[k]).kind = "FS_FILE" THEN Found(Root[k]) ELSE Nothing, dos)
<1>1. /\ Root[k].Attrib \in {"file", "directory"}
      /\ \A l \in DOMAIN Root : Root[l].Filename = dos => Root[l].Attrib = Root[k].Attrib
  <2>1. /\ Root[k].Attrib \in {"file", "directory"}
        /\ \A l \in DOMAIN Root :
             Root[k].Filename = Root[l].Filename => Root[k].Attrib = Root[l].Attrib
    <3>1. RootEntriesFit
      BY DEF DiskLayout
    <3> QED
      BY <3>1 DEF RootEntriesFit
  <2> QED
    BY <2>1
<1>2. Found(Root[k]).kind = IF Root[k].Attrib = "directory" THEN "FS_DIRECTORY" ELSE "FS_FILE"
  BY DEF Found
<1>3. CASE Root[k].Attrib = "file"
  <2>1. k \in RootFiles(dos) /\ Found(Root[k]).kind = "FS_FILE"
    BY <1>2, <1>3 DEF RootFiles
  <2> QED
    BY <2>1 DEF IsRight
<1>4. CASE Root[k].Attrib = "directory"
  <2>1. RootFiles(dos) = {} /\ Found(Root[k]).kind # "FS_FILE"
    BY <1>1, <1>2, <1>4 DEF RootFiles
  <2> QED
    BY <2>1 DEF IsRight
<1> QED
  BY <1>1, <1>3, <1>4

\* What no sector has, the directory has not.
LEMMA RightWhenNone ==
  ASSUME DiskLayout, NEW dos, NotBelow(RootSectors, dos)
  PROVE  IsRight(Nothing, dos)
<1>1. \A k \in DOMAIN Root : k \div EntriesPerSector < RootSectors
  BY RootSizes
<1>2. RootFiles(dos) = {}
  BY <1>1 DEF RootFiles, NotBelow
<1> QED
  BY <1>2 DEF IsRight

\* One sector of the root directory.
LEMMA DirectoryKeepsRight ==
  ASSUME DiskLayout, Names, RightInv, fsysFatDirectory
  PROVE  RightInv'
<1> DEFINE dos == Padded(Plain(asked))
<1>1. stage = "directory" /\ UNCHANGED <<rootOffset, path, asked>>
  BY DEF fsysFatDirectory
<1> HIDE DEF dos
<1> SUFFICES ASSUME AllRead', Name83(Plain(asked))
             PROVE  /\ stage' \notin {"subdir", "subread"}
                    /\ stage' = "directory" => Searching'
                    /\ stage' = "opened" => IsRight(opened', dos)
  BY <1>1 DEF RightInv, dos
<1>2. ~bad' /\ rootOffset = NumberOfFats * SectorsPerFat + 1
  BY <1>1 DEF AllRead
<1> DEFINE entries == RootEntries(sector)
<1>3. /\ \/ Matching(entries) # {} /\ Component(Found(First(entries))) /\ UNCHANGED <<sector, bad>>
         \/ /\ Matching(entries) = {} /\ UNCHANGED bad
            /\ IF MoreSectors(sector)
               THEN sector' = sector + 1 /\ UNCHANGED <<stage, file, opened, p, name>>
               ELSE Component(Nothing) /\ UNCHANGED sector
      /\ Searching /\ Plain(asked) \in Seq(STRING)
  <2>1. ~bad
    BY <1>2 DEF fsysFatDirectory
  <2>2. Searching /\ Plain(asked) \in Seq(STRING)
    <3>1. AllRead
      BY <1>2, <2>1 DEF AllRead
    <3> QED
      BY <1>1, <3>1, PlainPath DEF RightInv
  <2>3. rootOffset + sector - (NumberOfFats * SectorsPerFat + 1) = sector
    <3>1. NumberOfFats * SectorsPerFat \in Int /\ sector \in Int
      BY <2>2, FatSizes DEF Searching
    <3> QED
      BY <1>2, <3>1
  <2> QED
    BY <1>2, <2>2, <2>3 DEF fsysFatDirectory
<1>4. name = dos /\ dos \in [1..NameLength -> Written]
  BY <1>3, PaddedIs DEF Searching, dos
<1> HIDE DEF entries
<1>5. ASSUME NEW found, Component(found)
      PROVE  stage' = "opened" /\ opened' = IF found.kind = "FS_FILE" THEN found ELSE Nothing
  BY <1>3, <1>5 DEF Component, Searching
<1>6. sector \in 0..(RootSectors - 1) /\ RootSectors \in Nat \ {0}
  BY <1>3, RootSizes DEF Searching
<1>7. CASE Matching(entries) # {} /\ Component(Found(First(entries)))
  <2>1. PICK k \in DOMAIN Root : Root[k].Filename = name /\ First(entries) = Root[k]
    BY <1>4, <1>7, SectorSearched DEF entries
  <2>2. IsRight(opened', dos)
    BY <1>4, <1>5, <1>7, <2>1, RightWhenFound
  <2> QED
    BY <1>3, <1>5, <1>7, <2>2
<1>8. CASE Matching(entries) = {}
  <2>1. \A k \in DOMAIN Root : k \div EntriesPerSector = sector => Root[k].Filename # name
    BY <1>4, <1>8, SectorSearched DEF entries
  <2>2. NotBelow(sector + 1, name)
    BY <1>3, <1>6, <2>1, RootSizes DEF NotBelow, Searching
  <2>3. CASE MoreSectors(sector)
    <3>1. sector' = sector + 1 /\ UNCHANGED <<stage, file, opened, p, name>>
      BY <1>3, <1>8, <2>3
    <3>2. sector' \in 0..(RootSectors - 1)
      BY <1>6, <2>3, <3>1 DEF MoreSectors
    <3>3. Searching'
      BY <1>1, <1>3, <2>2, <3>1, <3>2 DEF Searching
    <3> QED
      BY <1>1, <1>3, <3>1, <3>3
  <2>4. CASE ~MoreSectors(sector)
    <3>1. Component(Nothing) /\ sector + 1 = RootSectors
      BY <1>3, <1>6, <1>8, <2>4 DEF MoreSectors
    <3>2. opened' = Nothing /\ stage' = "opened"
      BY <1>5, <3>1 DEF Nothing
    <3>3. IsRight(Nothing, dos)
      BY <1>4, <2>2, <3>1, RightWhenNone
    <3> QED
      BY <1>3, <3>2, <3>3
  <2> QED
    BY <2>3, <2>4
<1> QED
  BY <1>3, <1>7, <1>8

\* A path is taken apart.
LEMMA OpenFileKeepsRight ==
  ASSUME DiskLayout, Names, NEW fname \in Paths, volOpenFile(fname)
  PROVE  RightInv'
<1> DEFINE start == strchr(fname, 0)
           from == IF start = -1 THEN -1 ELSE start + 1
<1>1. fname \in Seq(STRING) /\ asked' = fname
  BY DEF Names, volOpenFile
<1> SUFFICES ASSUME Name83(Plain(fname))
             PROVE  stage' = "directory" /\ Searching'
  BY <1>1 DEF RightInv
<1>2. /\ Plain(fname) \in Seq(STRING) /\ Char(fname, 2, beyond') # ":" /\ PathIs(fname, from)
  BY <1>1, PlainPath
<1>3. /\ path' = fname /\ p' = from /\ stage' = "directory" /\ sector' = 0
      /\ name' = ToDosFileName(Pathname(fname, from), beyond')
  BY <1>2 DEF volOpenFile
<1> HIDE DEF from
<1>4. name' = Padded(Plain(fname))
  BY <1>2, <1>3, DosName DEF PathIs
<1>5. NotBelow(sector, name)'
  BY <1>3, RootSizes DEF NotBelow
<1>6. p' = -1 \/ strchr(path', p' + 1) = -1
  BY <1>2, <1>3 DEF PathIs
<1>7. sector' \in 0..(RootSectors - 1)
  BY <1>3, RootSizes
<1>8. Padded(Plain(asked))' = Padded(Plain(fname))
  BY <1>1
<1>9. (p = -1 \/ strchr(path, p + 1) = -1)'
  BY <1>6
<1> QED
  BY <1>2, <1>3, <1>4, <1>5, <1>7, <1>8, <1>9 DEF Searching

\* The rest of the steps look at no directory, or at another.
LEMMA RightInvStep ==
  ASSUME DiskLayout, Names, RightInv, [FatNext]_fatVars
  PROVE  RightInv'
<1>1. CASE stage' \notin {"directory", "subdir", "subread", "opened"} /\ asked' \in Seq(STRING)
  BY <1>1 DEF RightInv
<1>2. asked \in Seq(STRING) /\ <<>> \in Seq(STRING)
  BY DEF RightInv
<1>3. CASE stage \in {"subdir", "subread"} /\ UNCHANGED <<asked, bad, rootOffset>>
  BY <1>3 DEF RightInv, AllRead
<1>4. CASE fsysFatMount
  BY <1>1, <1>2, <1>4 DEF fsysFatMount
<1>5. CASE fsysFatDirectory
  BY <1>5, DirectoryKeepsRight
<1>6. CASE Uninitialized
  BY <1>3, <1>6 DEF Uninitialized
<1>7. CASE fsysFatOpenSubDir
  BY <1>3, <1>7 DEF fsysFatOpenSubDir
<1>8. CASE cmd_read
  BY <1>1, <1>2, <1>8 DEF cmd_read
<1>9. CASE fsysFatRead
  <2>1. stage' \in {"done", "reading", "astray"} /\ UNCHANGED asked
    BY <1>9 DEF fsysFatRead
  <2> QED
    BY <1>1, <1>2, <2>1
<1>10. CASE volCloseFile
  BY <1>1, <1>2, <1>10 DEF volCloseFile
<1>11. CASE ReadFails
  <2>1. stage' \in {"done", "reading"} /\ UNCHANGED asked
    BY <1>11 DEF ReadFails
  <2> QED
    BY <1>1, <1>2, <2>1
<1>12. ASSUME NEW fname \in Paths, volOpenFile(fname)
       PROVE  RightInv'
  BY <1>12, OpenFileKeepsRight
<1>13. CASE UNCHANGED fatVars
  BY <1>13 DEF RightInv, AllRead, Searching, fatVars
<1> QED
  BY <1>4, <1>5, <1>6, <1>7, <1>8, <1>9, <1>10, <1>11, <1>12, <1>13 DEF FatNext, Work

\* volOpenFile() opens the file of the root directory that a name with a full
\* extension names, whichever of the three ways the name is given, whatever lies
\* behind the string and wherever the entry is; and nothing when there is none.
THEOREM OpensTheRightFile == DiskLayout /\ Names /\ FatSpec => []RightFile
<1> SUFFICES ASSUME DiskLayout, Names
             PROVE  FatSpec => []RightFile
  OBVIOUS
<1>1. FatInit => RightInv
  BY DEF FatInit, RightInv
<1>2. RightInv /\ [FatNext]_fatVars => RightInv'
  BY RightInvStep
<1>3. RightInv => RightFile
  BY DEF RightInv, RightFile, IsRight
<1> QED
  BY <1>1, <1>2, <1>3, PTL DEF FatSpec

=============================================================================
