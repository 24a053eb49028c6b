---------------------------- MODULE RxRingProofs ----------------------------
(***************************************************************************)
(* Proofs about RxRing, for every size of the ring and every traffic: the  *)
(* handler reads the packets the chip has written, each once and in order, *)
(* wherever the ring wraps and whatever arrives while it reads, as long as *)
(* the interrupt does not come into the call init_rtl8139() makes.         *)
(*                                                                         *)
(* Offsets alone do not say who is ahead.  The invariant unrolls the ring: *)
(* each packet has a place on the wire, where the packet before it ends,   *)
(* and CBA, CAPR, bufferPtr and the handler's two offsets are places of    *)
(* packets, taken round the ring.  The chip is ahead of CAPR by less than  *)
(* the ring; so it writes over no header that is still to be read, and one *)
(* comparison of offsets tells the handler whether the ring has wrapped.   *)
(***************************************************************************)
EXTENDS RxRing, TLAPS

Reading == {"catchup", "read"}
Places == Out \cup Behind \cup {"status", "sent", "body"}

Types ==
  /\ received \in Seq(Sizes) /\ consumed \in Seq(Nat)
  /\ ring \in [0..(RxSize - 1) -> Int]
  /\ pc \in [Contexts -> Places]
  /\ read_ofs \in [Contexts -> Int] /\ end_ofs \in [Contexts -> Int]

\* One context at most is in the handler.
Alone == pc["irq"] = "done" \/ pc["main"] \in Out

\* pos[m] is the place of packet m of n; k have been read; CAPR is at the place
\* of packet from, CBA where the next one goes.
Track(pos, from, n, k, cba, capr) ==
  /\ n \in Nat /\ k \in 0..n /\ from \in 1..(k + 1)
  /\ pos \in [1..(n + 1) -> Nat]
  /\ \A l, m \in 1..(n + 1) : l < m => pos[l] < pos[m]
  /\ cba = pos[n + 1] % RxSize /\ capr = pos[from] % RxSize
  /\ pos[n + 1] - pos[from] < RxSize

\* What the packets, the ring and the history of reading have to do with it.
Stored(pos, n, k) ==
  /\ \A m \in 1..n : pos[m + 1] = pos[m] + received[m]
  /\ \A m \in (k + 1)..n : ring[pos[m] % RxSize] = m
  /\ \A m \in 1..k : consumed[m] = m

\* Where a context is: its read_ofs and end_ofs are the places of the packet to
\* read next and of packet to, in the same lap or one apart.
Task(pos, to, n, k, place, read, end) ==
  /\ place \in Behind => to \in (k + 1)..(n + 1)
  /\ place = "pointer" => end = pos[to] % RxSize
  /\ place = "catchup" => \E lap \in Int : /\ pos[k + 1] = RxSize * lap + read
                                           /\ pos[to] = RxSize * lap + RxSize + end
                                           /\ read \in Nat /\ end \in 0..(RxSize - 1)
  /\ place = "read" => \E lap \in Int : /\ pos[k + 1] = RxSize * lap + read
                                        /\ pos[to] = RxSize * lap + end
                                        /\ read \in Nat /\ end \in 0..(RxSize - 1)
  /\ place \in {"capr", "ack"} => to = k + 1 /\ read = pos[k + 1] % RxSize
  /\ place = "capr" => read = end

\* A packet that is not read will be: by the handler under way, or by the next
\* interrupt; or it is late.
Expected(m, to, behind) == m \in late \/ IF behind THEN m < to ELSE "ROK" \in ISR

Sound(pos, from, to, n, k) ==
  /\ Types /\ Alone
  /\ n = Len(received) /\ k = Len(consumed)
  /\ Track(pos, from, n, k, CBA, CAPR)
  /\ Stored(pos, n, k)
  /\ (\A c \in Contexts : pc[c] \notin Reading) => bufferPtr = pos[k + 1] % RxSize
  /\ \A c \in Contexts : Task(pos, to, n, k, pc[c], read_ofs[c], end_ofs[c])
  /\ \A m \in (k + 1)..n : Expected(m, to, \E c \in Contexts : pc[c] \in Behind)

RingInv ==
  ~reentered => \E pos, from, to, n, k : Sound(pos, from, to, n, k)

-----------------------------------------------------------------------------
(* Offsets *)

LEMMA Quotients ==
  ASSUME NEW n \in Int, NEW d \in Nat \ {0}
  PROVE  /\ n \div d \in Int /\ n % d \in 0..(d - 1)
         /\ n = d * (n \div d) + (n % d)
  OBVIOUS

\* Less than one lap is no lap.
LEMMA NoLap ==
  ASSUME NEW d \in Nat \ {0}, NEW k \in Int, d * k < d, -d < d * k
  PROVE  k = 0
<1>1. CASE k >= 1
  <2>1. d * k >= d * 1
    BY <1>1
  <2> QED
    BY <2>1
<1>2. CASE k <= -1
  <2>1. d * k <= d * (-1)
    BY <1>2
  <2>2. d * (-1) = -d
    OBVIOUS
  <2>3. d * k \in Int
    OBVIOUS
  <2> QED
    BY <2>1, <2>2, <2>3
<1> QED
  BY <1>1, <1>2

\* Less than one lap and an offset is the offset.
LEMMA OffsetIs ==
  ASSUME NEW d \in Nat \ {0}, NEW q \in Int, NEW r \in 0..(d - 1)
  PROVE  (d * q + r) % d = r /\ (d * q + r) \div d = q
<1> DEFINE n == d * q + r
           p == n \div d
           s == n % d
<1>1. n \in Int
  OBVIOUS
<1>2. p \in Int /\ s \in 0..(d - 1) /\ n = d * p + s
  BY <1>1, Quotients
<1>3. d * (q - p) = d * q - d * p /\ d * q \in Int /\ d * p \in Int
  BY <1>2
<1>4. d * (q - p) = s - r
  <2>1. d * q + r = d * p + s
    BY <1>2
  <2> HIDE DEF p, s, n
  <2> QED
    BY <1>2, <1>3, <2>1
<1>5. s - r < d /\ -d < s - r
  BY <1>2
<1>6. q - p = 0
  BY <1>2, <1>4, <1>5, NoLap
<1>7. d * (q - p) = 0
  BY <1>6
<1> QED
  BY <1>2, <1>4, <1>6, <1>7

\* One place of the wire behind another, by less than the ring: the offsets say
\* whether the ring wraps between them.
LEMMA Ahead ==
  ASSUME NEW d \in Nat \ {0}, NEW x \in Nat, NEW y \in Nat, y <= x, x - y < d
  PROVE  /\ x % d \in 0..(d - 1) /\ y % d \in 0..(d - 1)
         /\ (y % d) <= (x % d) => x \div d = y \div d /\ x - y = (x % d) - (y % d)
         /\ (y % d) > (x % d) => x \div d = y \div d + 1 /\ x - y = (d + (x % d)) - (y % d)
         /\ x = d * (x \div d) + (x % d) /\ y = d * (y \div d) + (y % d)
<1> DEFINE p == x \div d
           q == y \div d
           r == x % d
           s == y % d
<1>1. /\ p \in Int /\ r \in 0..(d - 1) /\ x = d * p + r
      /\ q \in Int /\ s \in 0..(d - 1) /\ y = d * q + s
  BY Quotients
<1> HIDE DEF p, q, r, s
<1>2. d * (p - q) = d * p - d * q /\ d * p \in Int /\ d * q \in Int
  BY <1>1
<1>3. d * (p - q) = x - y - r + s
  BY <1>1, <1>2
<1>4. s <= r => p = q /\ x - y = r - s
  <2> SUFFICES ASSUME s <= r
               PROVE  p = q /\ x - y = r - s
    OBVIOUS
  <2>1. d * (p - q) < d /\ -d < d * (p - q)
    BY <1>1, <1>3
  <2>2. p - q = 0
    BY <1>1, <2>1, NoLap
  <2>3. p = q
    BY <1>1, <2>2
  <2>4. d * (p - q) = 0
    BY <2>2
  <2> QED
    BY <1>1, <1>3, <2>3, <2>4
<1>5. s > r => p = q + 1 /\ x - y = (d + r) - s
  <2> SUFFICES ASSUME s > r
               PROVE  p = q + 1 /\ x - y = (d + r) - s
    OBVIOUS
  <2>1. d * (p - q - 1) = d * (p - q) - d
    <3>1. \A k \in Int : d * (k - 1) = d * k - d
      OBVIOUS
    <3> QED
      BY <1>1, <3>1
  <2>2. d * (p - q - 1) < d /\ -d < d * (p - q - 1)
    BY <1>1, <1>3, <2>1
  <2>3. p - q - 1 \in Int
    BY <1>1
  <2>4. p - q - 1 = 0
    BY <2>2, <2>3, NoLap
  <2>5. p = q + 1
    BY <1>1, <2>4
  <2>6. d * (p - q - 1) = 0
    BY <2>4
  <2> QED
    BY <1>1, <1>2, <1>3, <2>1, <2>5, <2>6
<1> QED
  BY <1>1, <1>4, <1>5 DEF p, q, r, s

LEMMA SamePlace ==
  ASSUME NEW d \in Nat \ {0}, NEW x \in Nat, NEW y \in Nat, y <= x, x - y < d, (x % d) = (y % d)
  PROVE  x = y
<1>1. x % d \in 0..(d - 1) /\ ((y % d) <= (x % d) => x - y = (x % d) - (y % d))
  BY Ahead
<1>2. (y % d) \in Int /\ (x % d) \in Int /\ (y % d) <= (x % d)
  BY <1>1
<1>3. x - y = 0
  BY <1>1, <1>2
<1> QED
  BY <1>3

\* The room the chip sees is what is left of the ring.
LEMMA RoomLeft ==
  ASSUME NEW d \in Nat \ {0}, NEW x \in Nat, NEW y \in Nat, y <= x, x - y < d,
         NEW size \in Nat, size < ((y % d) - (x % d) + d) % d
  PROVE  x - y + size < d
<1> DEFINE r == x % d
           s == y % d
           left == s - r + d
<1>1. /\ r \in 0..(d - 1) /\ s \in 0..(d - 1)
      /\ s <= r => x - y = r - s
      /\ s > r => x - y = (d + r) - s
  BY Ahead
<1> HIDE DEF r, s
<1>2. CASE s < r
  <2>1. left \in 0..(d - 1) /\ left = d * 0 + left
    BY <1>1, <1>2
  <2> HIDE DEF left
  <2>2. (d * 0 + left) % d = left
    BY <2>1, OffsetIs
  <2>3. left % d = left
    BY <2>1, <2>2
  <2>4. size < left
    BY <2>3 DEF left, r, s
  <2> QED
    BY <1>1, <1>2, <2>4 DEF left
<1>3. CASE s = r
  <2>1. left = d * 1 + 0 /\ 0 \in 0..(d - 1)
    BY <1>1, <1>3
  <2>2. (d * 1 + 0) % d = 0
    BY <2>1, OffsetIs
  <2>3. left % d = 0
    BY <2>1, <2>2
  <2>4. size < 0
    BY <2>3 DEF left, r, s
  <2> QED
    BY <2>4
<1>4. CASE s > r
  <2>1. s - r \in 0..(d - 1) /\ left = d * 1 + (s - r)
    BY <1>1, <1>4
  <2>2. (d * 1 + (s - r)) % d = s - r
    <3> DEFINE e == s - r
    <3>1. e \in 0..(d - 1) /\ 1 \in Int
      BY <2>1
    <3> HIDE DEF e
    <3>2. (d * 1 + e) % d = e
      BY <3>1, OffsetIs
    <3> QED
      BY <3>2 DEF e
  <2>3. left % d = s - r
    BY <2>1, <2>2
  <2>4. size < s - r
    BY <2>3 DEF left, r, s
  <2> QED
    BY <1>1, <1>4, <2>4
<1> QED
  BY <1>1, <1>2, <1>3, <1>4

\* The chip goes on from one packet to the next.
LEMMA NextOffset ==
  ASSUME NEW d \in Nat \ {0}, NEW x \in Nat, NEW size \in Nat
  PROVE  ((x % d) + size) % d = (x + size) % d
<1> DEFINE p == x \div d
           r == x % d
           n == r + size
           u == n \div d
           v == n % d
<1>1. p \in Int /\ r \in 0..(d - 1) /\ x = d * p + r
  BY Quotients
<1> HIDE DEF p, r
<1>2. n \in Int
  BY <1>1
<1> HIDE DEF n
<1>3. u \in Int /\ v \in 0..(d - 1) /\ n = d * u + v
  BY <1>2, Quotients
<1> HIDE DEF u, v
<1>4. d * (p + u) = d * p + d * u /\ d * p \in Int /\ d * u \in Int /\ p + u \in Int
  BY <1>1, <1>3
<1>5. x + size = d * (p + u) + v
  BY <1>1, <1>3, <1>4 DEF n
<1>6. (d * (p + u) + v) % d = v
  BY <1>3, <1>4, OffsetIs
<1> QED
  BY <1>5, <1>6 DEF v, n, r

\* What the chip writes from a place on does not reach a place less than a ring
\* behind the end of it.
LEMMA NotWritten ==
  ASSUME NEW d \in Nat \ {0}, NEW x \in Nat, NEW y \in Nat, NEW size \in Nat,
         y < x, (x + size) - y < d, NEW o \in 0..(d - 1),
         o = x % d \/ o \in (x % d)..((x % d) + size - 1)
  PROVE  (y % d) # o
<1> DEFINE r == x % d
           t == o - r
<1>1. r \in 0..(d - 1) /\ x = d * (x \div d) + r /\ x \div d \in Int
  BY Quotients
<1>2. t \in Nat /\ (t = 0 \/ t <= size - 1) /\ o = r + t
  <2> HIDE DEF r
  <2>1. o = r \/ o \in r..(r + size - 1)
    BY DEF r
  <2> QED
    BY <1>1, <2>1
<1> HIDE DEF r, t
<1>3. x + t = d * (x \div d) + o
  BY <1>1, <1>2
<1>4. (x + t) % d = o
  BY <1>1, <1>3, OffsetIs
<1>5. x + t \in Nat /\ y <= x + t /\ (x + t) - y < d /\ x + t # y
  BY <1>2
<1>6. ASSUME NEW z, z = x + t
      PROVE  z \in Nat /\ y <= z /\ z - y < d /\ z # y /\ z % d = o
  BY <1>2, <1>4, <1>5, <1>6
<1> SUFFICES ASSUME y % d = o
             PROVE  FALSE
  OBVIOUS
<1>7. PICK z : z = x + t
  OBVIOUS
<1>8. z \in Nat /\ y <= z /\ z - y < d /\ z # y /\ z % d = o
  BY <1>6, <1>7
<1>9. z = y
  BY <1>8, SamePlace
<1> QED
  BY <1>8, <1>9

-----------------------------------------------------------------------------
(* A step of the handler *)

\* A step of one context keeps the invariant when what it leaves behind does:
\* the other context is not in the handler.
LEMMA HandlerStep ==
  ASSUME NEW pos, NEW from, NEW to, NEW n, NEW k, Sound(pos, from, to, n, k),
         NEW c \in Contexts, pc[c] \notin Out, c = "main" => pc["irq"] = "done",
         NEW from2, NEW to2, NEW k2, NEW place, NEW read \in Int, NEW end \in Int,
         place \in Places,
         UNCHANGED <<ring, CBA, received, late>>,
         consumed' \in Seq(Nat), k2 = Len(consumed'), Stored(pos, n, k2)',
         pc' = [pc EXCEPT ![c] = place],
         read_ofs' = [read_ofs EXCEPT ![c] = read],
         end_ofs' = [end_ofs EXCEPT ![c] = end],
         Track(pos, from2, n, k2, CBA, CAPR'),
         place \notin Reading => bufferPtr' = pos[k2 + 1] % RxSize,
         Task(pos, to2, n, k2, place, read, end),
         \A m \in (k2 + 1)..n : m \in late \/ IF place \in Behind THEN m < to2 ELSE "ROK" \in ISR'
  PROVE  Sound(pos, from2, to2, n, k2)'
<1>1. Types /\ Alone /\ n = Len(received)
  BY DEF Sound
<1>2. /\ pc'[c] = place /\ read_ofs'[c] = read /\ end_ofs'[c] = end
      /\ \A d \in Contexts : d # c => /\ pc'[d] = pc[d] /\ pc[d] \in Out
                                      /\ read_ofs'[d] = read_ofs[d] /\ end_ofs'[d] = end_ofs[d]
  BY <1>1 DEF Types, Alone, Contexts, Out
<1>3. Types'
  BY <1>1 DEF Types
<1>4. Alone'
  BY <1>1, <1>2 DEF Alone, Contexts, Out, Places, Behind
<1>5. n = Len(received')
  BY <1>1
<1>6. (Track(pos, from2, n, k2, CBA, CAPR))'
  BY DEF Track
<1>7. (\A d \in Contexts : pc[d] \notin Reading)' => bufferPtr' = pos[k2 + 1] % RxSize
  BY <1>2
<1>8. ASSUME NEW d \in Contexts
      PROVE  Task(pos, to2, n, k2, pc'[d], read_ofs'[d], end_ofs'[d])
  <2>1. CASE d = c
    BY <1>2, <2>1
  <2>2. CASE d # c
    BY <1>2, <2>2 DEF Task, Out, Behind
  <2> QED
    BY <2>1, <2>2
<1>9. (\E d \in Contexts : pc'[d] \in Behind) <=> place \in Behind
  BY <1>2 DEF Out, Behind
<1>10. ASSUME NEW m \in (k2 + 1)..n
       PROVE  (Expected(m, to2, \E d \in Contexts : pc[d] \in Behind))'
  BY <1>9 DEF Expected
<1> QED
  BY <1>3, <1>4, <1>5, <1>6, <1>7, <1>8, <1>10 DEF Sound

\* What the invariant says of the context that is in the handler.
LEMMA Inside ==
  ASSUME NEW pos, NEW from, NEW to, NEW n, NEW k, Sound(pos, from, to, n, k),
         NEW c \in Contexts, pc[c] \notin Out, c = "main" => pc["irq"] = "done"
  PROVE  /\ n \in Nat /\ k \in 0..n /\ k \in Nat /\ n = Len(received) /\ k = Len(consumed)
         /\ pc[c] \in Behind \cup {"status", "sent", "body"}
         /\ Task(pos, to, n, k, pc[c], read_ofs[c], end_ofs[c])
         /\ pc[c] \notin Reading => bufferPtr = pos[k + 1] % RxSize
         /\ Track(pos, from, n, k, CBA, CAPR) /\ Stored(pos, n, k)
         /\ \A m \in (k + 1)..n : m \in late \/ IF pc[c] \in Behind THEN m < to ELSE "ROK" \in ISR
         /\ read_ofs[c] \in Int /\ end_ofs[c] \in Int
         /\ read_ofs = [read_ofs EXCEPT ![c] = read_ofs[c]]
         /\ end_ofs = [end_ofs EXCEPT ![c] = end_ofs[c]]
         /\ consumed \in Seq(Nat)
<1>1. Types /\ Alone
  BY DEF Sound
<1>2. \A d \in Contexts : d # c => pc[d] \in Out
  BY <1>1 DEF Alone, Contexts, Out
<1>3. pc[c] \in Behind \cup {"status", "sent", "body"}
  BY <1>1 DEF Types, Alone, Contexts, Places, Out
<1>4. Track(pos, from, n, k, CBA, CAPR) /\ Stored(pos, n, k)
  BY DEF Sound
<1>5. n \in Nat /\ k \in 0..n /\ k \in Nat
  BY <1>4 DEF Track
<1>6. pc[c] \notin Reading => bufferPtr = pos[k + 1] % RxSize
  <2>1. \A d \in Contexts : d # c => pc[d] \notin Reading
    BY <1>2 DEF Out, Reading
  <2> QED
    BY <2>1 DEF Sound
<1>7. (\E d \in Contexts : pc[d] \in Behind) <=> pc[c] \in Behind
  BY <1>2 DEF Out, Behind
<1>8. \A m \in (k + 1)..n : m \in late \/ IF pc[c] \in Behind THEN m < to ELSE "ROK" \in ISR
  BY <1>7 DEF Sound, Expected
<1>9. /\ read_ofs[c] \in Int /\ end_ofs[c] \in Int
      /\ read_ofs = [read_ofs EXCEPT ![c] = read_ofs[c]]
      /\ end_ofs = [end_ofs EXCEPT ![c] = end_ofs[c]]
      /\ consumed \in Seq(Nat)
  BY <1>1 DEF Types
<1>10. Task(pos, to, n, k, pc[c], read_ofs[c], end_ofs[c])
  BY DEF Sound
<1> QED
  BY <1>3, <1>4, <1>5, <1>6, <1>8, <1>9, <1>10 DEF Sound

\* It reads the status, or finds no packet there: ROK stays as it is.
LEMMA StatusSound ==
  ASSUME NEW pos, NEW from, NEW to, NEW n, NEW k, Sound(pos, from, to, n, k),
         NEW c \in Contexts, c = "main" => pc["irq"] = "done",
         ReadStatus(c) \/ AckTOK(c) \/ NoPacket(c)
  PROVE  Sound(pos, from, to, n, k)'
<1>1. pc[c] \in {"status", "sent", "body"} /\ pc[c] \notin Out
  BY DEF ReadStatus, AckTOK, NoPacket, Out
<1> DEFINE place == IF pc[c] = "status" THEN "sent" ELSE IF pc[c] = "sent" THEN "body" ELSE "done"
           read == IF pc[c] = "body" THEN 0 ELSE read_ofs[c]
           end == IF pc[c] = "body" THEN 0 ELSE end_ofs[c]
<1>2. /\ UNCHANGED <<ring, CBA, received, late, consumed, CAPR, bufferPtr>>
      /\ "ROK" \in ISR => "ROK" \in ISR'
      /\ pc' = [pc EXCEPT ![c] = place]
  BY <1>1 DEF ReadStatus, AckTOK, NoPacket, Leave, Goto, chip, locals, ErrorBits
<1>3. /\ read \in Int /\ end \in Int
      /\ read_ofs' = [read_ofs EXCEPT ![c] = read] /\ end_ofs' = [end_ofs EXCEPT ![c] = end]
  <2>1. Types
    BY DEF Sound
  <2> QED
    BY <1>1, <2>1, Inside DEF ReadStatus, AckTOK, NoPacket, Leave, locals, Types
<1>4. /\ consumed \in Seq(Nat) /\ k = Len(consumed) /\ Stored(pos, n, k)
      /\ Track(pos, from, n, k, CBA, CAPR) /\ bufferPtr = pos[k + 1] % RxSize
      /\ \A m \in (k + 1)..n : m \in late \/ "ROK" \in ISR
  BY <1>1, Inside DEF Reading, Behind
<1>5. Stored(pos, n, k)'
  BY <1>2, <1>4 DEF Stored
<1>6. place \in {"sent", "body", "done"}
  OBVIOUS
<1>7. place \in Places /\ place \notin Reading /\ place \notin Behind
  BY <1>6 DEF Places, Out, Behind, Reading
<1>8. Task(pos, to, n, k, place, read, end)
  BY <1>6 DEF Task, Behind
<1> HIDE DEF place, read, end
<1> QED
  BY <1>1, <1>2, <1>3, <1>4, <1>5, <1>7, <1>8, HandlerStep

\* It takes the chip's pointer: all packets there are will be read.
LEMMA TakeEndSound ==
  ASSUME NEW pos, NEW from, NEW to, NEW n, NEW k, Sound(pos, from, to, n, k),
         NEW c \in Contexts, c = "main" => pc["irq"] = "done", TakeEnd(c)
  PROVE  Sound(pos, from, n + 1, n, k)'
<1>1. pc[c] = "body" /\ pc[c] \notin Out
  BY DEF TakeEnd, Out
<1> DEFINE read == read_ofs[c]
           end == CBA
<1>2. /\ UNCHANGED <<ring, CBA, received, late, consumed, CAPR, bufferPtr, read_ofs>>
      /\ pc' = [pc EXCEPT ![c] = "pointer"]
      /\ end_ofs' = [end_ofs EXCEPT ![c] = end]
  BY DEF TakeEnd, Goto, chip
<1>3. /\ n \in Nat /\ k \in 0..n /\ consumed \in Seq(Nat) /\ k = Len(consumed)
      /\ Stored(pos, n, k) /\ Track(pos, from, n, k, CBA, CAPR)
      /\ bufferPtr = pos[k + 1] % RxSize
      /\ read_ofs' = [read_ofs EXCEPT ![c] = read] /\ read \in Int
  BY <1>1, <1>2, Inside DEF Reading
<1>4. end = pos[n + 1] % RxSize /\ end \in Int
  <2>1. pos[n + 1] \in Nat /\ end = pos[n + 1] % RxSize
    BY <1>3 DEF Track
  <2>2. \A x \in Nat : x % RxSize \in Int
    BY RingAssumption
  <2> QED
    BY <2>1, <2>2
<1>5. Stored(pos, n, k)'
  BY <1>2, <1>3 DEF Stored
<1>6. \A m \in (k + 1)..n : m < n + 1
  BY <1>3
<1>7. Task(pos, n + 1, n, k, "pointer", read, end)
  <2>1. n + 1 \in (k + 1)..(n + 1)
    BY <1>3
  <2> QED
    BY <1>4, <2>1 DEF Task
<1>8. "pointer" \in Places /\ "pointer" \notin Reading /\ "pointer" \in Behind
  BY DEF Places, Out, Behind, Reading
<1> HIDE DEF read, end
<1> QED
  BY <1>1, <1>2, <1>3, <1>4, <1>5, <1>6, <1>7, <1>8, HandlerStep

\* The places of the packets the handler is about: less than the ring apart.
LEMMA Between ==
  ASSUME NEW pos, NEW from, NEW n, NEW k, NEW cba, NEW capr, Track(pos, from, n, k, cba, capr),
         NEW to \in (k + 1)..(n + 1)
  PROVE  /\ k + 1 \in 1..(n + 1) /\ to \in 1..(n + 1)
         /\ pos[k + 1] \in Nat /\ pos[to] \in Nat /\ pos[n + 1] \in Nat /\ pos[from] \in Nat
         /\ pos[from] <= pos[k + 1] /\ pos[k + 1] <= pos[to] /\ pos[to] <= pos[n + 1]
         /\ pos[to] - pos[k + 1] < RxSize
         /\ pos[k + 1] = pos[to] => to = k + 1
         /\ RxSize \in Nat \ {0}
<1>1. /\ n \in Nat /\ k \in 0..n /\ from \in 1..(k + 1)
      /\ pos \in [1..(n + 1) -> Nat] /\ RxSize \in Nat \ {0}
  BY RingAssumption DEF Track
<1>2. k + 1 \in 1..(n + 1) /\ to \in 1..(n + 1) /\ n + 1 \in 1..(n + 1) /\ from \in 1..(n + 1)
  BY <1>1
<1>3. \A l, m \in 1..(n + 1) : l <= m => pos[l] <= pos[m] /\ (l # m => pos[l] < pos[m])
  <2> SUFFICES ASSUME NEW l \in 1..(n + 1), NEW m \in 1..(n + 1), l <= m
               PROVE  pos[l] <= pos[m] /\ (l # m => pos[l] < pos[m])
    OBVIOUS
  <2>1. pos[l] \in Nat /\ pos[m] \in Nat
    BY <1>1
  <2>2. l < m => pos[l] < pos[m]
    BY DEF Track
  <2>3. l < m \/ l = m
    BY <1>1
  <2> QED
    BY <2>1, <2>2, <2>3
<1>4. pos[k + 1] \in Nat /\ pos[to] \in Nat /\ pos[n + 1] \in Nat /\ pos[from] \in Nat
  BY <1>1, <1>2
<1>5. pos[from] <= pos[k + 1] /\ pos[k + 1] <= pos[to] /\ pos[to] <= pos[n + 1]
  BY <1>1, <1>2, <1>3
<1>6. pos[k + 1] = pos[to] => to = k + 1
  <2>1. k + 1 # to => pos[k + 1] < pos[to]
    BY <1>1, <1>2, <1>3
  <2> QED
    BY <1>4, <2>1
<1>7. pos[to] - pos[k + 1] < RxSize
  <2>1. pos[n + 1] - pos[from] < RxSize
    BY DEF Track
  <2> QED
    BY <1>1, <1>4, <1>5, <2>1
<1> QED
  BY <1>1, <1>2, <1>4, <1>5, <1>6, <1>7

\* It compares the two offsets: whether the ring has wrapped between them.
LEMMA TakePointerSound ==
  ASSUME NEW pos, NEW from, NEW to, NEW n, NEW k, Sound(pos, from, to, n, k),
         NEW c \in Contexts, c = "main" => pc["irq"] = "done", TakePointer(c)
  PROVE  Sound(pos, from, to, n, k)'
<1>1. pc[c] = "pointer" /\ pc[c] \notin Out
  BY DEF TakePointer, Out
<1> DEFINE read == bufferPtr
           end == end_ofs[c]
           place == IF read > end THEN "catchup" ELSE "read"
<1>2. /\ UNCHANGED <<ring, CBA, received, late, consumed, CAPR, bufferPtr, end_ofs, ISR>>
      /\ pc' = [pc EXCEPT ![c] = place]
      /\ read_ofs' = [read_ofs EXCEPT ![c] = read]
  BY DEF TakePointer, Goto, chip
<1>3. /\ consumed \in Seq(Nat) /\ k = Len(consumed)
      /\ Stored(pos, n, k) /\ Track(pos, from, n, k, CBA, CAPR)
      /\ read = pos[k + 1] % RxSize
      /\ end_ofs' = [end_ofs EXCEPT ![c] = end]
      /\ to \in (k + 1)..(n + 1) /\ end = pos[to] % RxSize
      /\ \A m \in (k + 1)..n : m \in late \/ m < to
  BY <1>1, <1>2, Inside DEF Reading, Task, Behind
<1> DEFINE x == pos[to]
           y == pos[k + 1]
<1>4. x \in Nat /\ y \in Nat /\ y <= x /\ x - y < RxSize /\ RxSize \in Nat \ {0}
  BY <1>3, Between
<1>5. read = y % RxSize /\ end = x % RxSize
  BY <1>3
<1> HIDE DEF x, y, read, end
<1>6. /\ read \in 0..(RxSize - 1) /\ end \in 0..(RxSize - 1)
      /\ y = RxSize * (y \div RxSize) + read /\ x = RxSize * (x \div RxSize) + end
      /\ read <= end => x \div RxSize = y \div RxSize
      /\ read > end => x \div RxSize = y \div RxSize + 1
      /\ y \div RxSize \in Int
  <2>1. /\ x % RxSize \in 0..(RxSize - 1) /\ y % RxSize \in 0..(RxSize - 1)
        /\ (y % RxSize) <= (x % RxSize) => x \div RxSize = y \div RxSize
        /\ (y % RxSize) > (x % RxSize) => x \div RxSize = y \div RxSize + 1
        /\ x = RxSize * (x \div RxSize) + (x % RxSize)
        /\ y = RxSize * (y \div RxSize) + (y % RxSize)
    BY <1>4, Ahead
  <2>2. y \div RxSize \in Int
    BY <1>4, Quotients
  <2> QED
    BY <1>5, <2>1, <2>2
<1>7. read \in Nat /\ end \in Nat /\ read \in Int /\ end \in Int
  BY <1>4, <1>6
<1>8. CASE read > end
  <2>1. place = "catchup"
    BY <1>8
  <2>2. RxSize * (y \div RxSize + 1) = RxSize * (y \div RxSize) + RxSize
    BY <1>4, <1>6
  <2>3. x = RxSize * (y \div RxSize) + RxSize + end
    BY <1>6, <1>8, <2>2
  <2>4. Task(pos, to, n, k, "catchup", read, end)
    BY <1>3, <1>6, <1>7, <2>3 DEF Task, x, y
  <2>5. "catchup" \in Places /\ "catchup" \in Reading /\ "catchup" \in Behind
    BY DEF Places, Reading, Behind
  <2> HIDE DEF place
  <2>6. Stored(pos, n, k)'
    BY <1>2, <1>3 DEF Stored
  <2> QED
    BY <1>1, <1>2, <1>3, <1>7, <2>1, <2>4, <2>5, <2>6, HandlerStep
<1>9. CASE ~(read > end)
  <2>1. place = "read" /\ read <= end
    BY <1>7, <1>9
  <2>3. x = RxSize * (y \div RxSize) + end
    BY <1>6, <2>1
  <2>4. Task(pos, to, n, k, "read", read, end)
    BY <1>3, <1>6, <1>7, <2>3 DEF Task, x, y
  <2>5. "read" \in Places /\ "read" \in Reading /\ "read" \in Behind
    BY DEF Places, Reading, Behind
  <2> HIDE DEF place
  <2>6. Stored(pos, n, k)'
    BY <1>2, <1>3 DEF Stored
  <2> QED
    BY <1>1, <1>2, <1>3, <1>7, <2>1, <2>4, <2>5, <2>6, HandlerStep
<1> QED
  BY <1>8, <1>9

\* While the loop goes on there is a packet, and its header is at read_ofs.
LEMMA HeaderThere ==
  ASSUME NEW pos, NEW from, NEW to, NEW n, NEW k, Sound(pos, from, to, n, k),
         NEW c \in Contexts, c = "main" => pc["irq"] = "done", More(c)
  PROVE  /\ k + 1 \in 1..n /\ to \in (k + 2)..(n + 1)
         /\ ring[read_ofs[c]] = k + 1 /\ received[k + 1] \in Nat \ {0}
         /\ pos[k + 2] = pos[k + 1] + received[k + 1]
<1>1. pc[c] \in Reading /\ pc[c] \in Behind /\ pc[c] \notin Out
  BY DEF More, Reading, Behind, Out
<1> DEFINE read == read_ofs[c]
           end == end_ofs[c]
<1>2. /\ n \in Nat /\ k \in 0..n /\ Track(pos, from, n, k, CBA, CAPR) /\ Stored(pos, n, k)
      /\ to \in (k + 1)..(n + 1)
      /\ \E lap \in Int : /\ pos[k + 1] = RxSize * lap + read
                          /\ \/ pos[to] = RxSize * lap + RxSize + end
                             \/ pos[to] = RxSize * lap + end /\ read < end
                          /\ read \in 0..(RxSize - 1) /\ end \in 0..(RxSize - 1)
  <2>1. /\ n \in Nat /\ k \in 0..n /\ Track(pos, from, n, k, CBA, CAPR) /\ Stored(pos, n, k)
        /\ Task(pos, to, n, k, pc[c], read, end)
    BY <1>1, Inside
  <2>2. to \in (k + 1)..(n + 1)
    BY <1>1, <2>1 DEF Task
  <2>3. RxSize \in Nat \ {0}
    BY RingAssumption
  <2>4. CASE pc[c] = "catchup"
    <3>1. PICK lap \in Int : /\ pos[k + 1] = RxSize * lap + read
                             /\ pos[to] = RxSize * lap + RxSize + end
                             /\ read \in Nat /\ end \in 0..(RxSize - 1)
      BY <2>1, <2>4 DEF Task
    <3>2. read < RxSize
      BY <2>4 DEF More
    <3> HIDE DEF read, end
    <3>3. read \in 0..(RxSize - 1)
      BY <2>3, <3>1, <3>2
    <3> QED
      BY <2>1, <2>2, <3>1, <3>3
  <2>5. CASE pc[c] = "read"
    <3>1. PICK lap \in Int : /\ pos[k + 1] = RxSize * lap + read
                             /\ pos[to] = RxSize * lap + end
                             /\ read \in Nat /\ end \in 0..(RxSize - 1)
      BY <2>1, <2>5 DEF Task
    <3>2. read < end
      BY <2>5 DEF More
    <3> HIDE DEF read, end
    <3>3. read \in 0..(RxSize - 1)
      BY <2>3, <3>1, <3>2
    <3> QED
      BY <2>1, <2>2, <3>1, <3>2, <3>3
  <2> QED
    BY <1>1, <2>4, <2>5 DEF Reading
<1> HIDE DEF read, end
<1>3. PICK lap \in Int : /\ pos[k + 1] = RxSize * lap + read
                         /\ \/ pos[to] = RxSize * lap + RxSize + end
                            \/ pos[to] = RxSize * lap + end /\ read < end
                         /\ read \in 0..(RxSize - 1) /\ end \in 0..(RxSize - 1)
  BY <1>2
<1>4. RxSize \in Nat \ {0} /\ RxSize * lap \in Int
  BY RingAssumption
<1>5. pos[k + 1] % RxSize = read
  BY <1>3, <1>4, OffsetIs
<1>6. pos[k + 1] < pos[to]
  <2>1. \A s, r, e, w \in Int : r < w /\ 0 <= e => s + r < s + w + e
    OBVIOUS
  <2>2. \A s, r, e \in Int : r < e => s + r < s + e
    OBVIOUS
  <2>3. read \in Int /\ end \in Int /\ read < RxSize /\ 0 <= end /\ RxSize \in Int
    BY <1>3, <1>4
  <2> QED
    BY <1>3, <1>4, <2>1, <2>2, <2>3
<1>7. k + 1 # to
  <2>1. pos[k + 1] \in Nat
    BY <1>2, Between
  <2> QED
    BY <1>6, <2>1
<1>8. k + 1 \in 1..n /\ k + 1 \in (k + 1)..n /\ to \in (k + 2)..(n + 1)
  BY <1>2, <1>7
<1>9. ring[read] = k + 1 /\ pos[k + 2] = pos[k + 1] + received[k + 1]
  <2>1. k + 1 + 1 = k + 2
    BY <1>2
  <2>2. ring[pos[k + 1] % RxSize] = k + 1
    BY <1>2, <1>8 DEF Stored
  <2>3. pos[k + 1 + 1] = pos[k + 1] + received[k + 1]
    BY <1>2, <1>8 DEF Stored
  <2> QED
    BY <1>5, <2>1, <2>2, <2>3
<1>10. received[k + 1] \in Nat \ {0}
  <2>1. received \in Seq(Sizes) /\ n = Len(received)
    BY DEF Sound, Types
  <2>2. received[k + 1] \in Sizes
    BY <1>8, <2>1
  <2>3. received[k + 1] \in 1..(RxSize - 1)
    BY <2>2, RingAssumption
  <2> QED
    BY <1>4, <2>3
<1> QED
  BY <1>8, <1>9, <1>10 DEF read

LEMMA RecvSound ==
  ASSUME NEW pos, NEW from, NEW to, NEW n, NEW k, Sound(pos, from, to, n, k),
         NEW c \in Contexts, c = "main" => pc["irq"] = "done", ~reentered, recv_packet(c)
  PROVE  Sound(pos, from, to, n, k + 1)'
<1>1. pc[c] \in Reading /\ pc[c] \in Behind /\ pc[c] \notin Out /\ More(c)
  BY DEF recv_packet, More, Reading, Behind, Out
<1>2. /\ k + 1 \in 1..n /\ to \in (k + 2)..(n + 1)
      /\ ring[read_ofs[c]] = k + 1 /\ received[k + 1] \in Nat \ {0}
      /\ pos[k + 2] = pos[k + 1] + received[k + 1]
  BY <1>1, HeaderThere
<1> DEFINE size == received[k + 1]
           read == read_ofs[c] + size
           end == end_ofs[c]
           place == pc[c]
<1>3. /\ n \in Nat /\ k \in 0..n /\ k \in Nat /\ consumed \in Seq(Nat) /\ k = Len(consumed)
      /\ Stored(pos, n, k) /\ Track(pos, from, n, k, CBA, CAPR)
      /\ Task(pos, to, n, k, pc[c], read_ofs[c], end_ofs[c])
      /\ end_ofs = [end_ofs EXCEPT ![c] = end] /\ read_ofs[c] \in Int /\ end \in Int
      /\ \A m \in (k + 1)..n : m \in late \/ m < to
  BY <1>1, Inside
<1>4. ring[read_ofs[c]] # Junk
  BY <1>2, <1>3 DEF Junk
<1>5. /\ UNCHANGED <<ring, CBA, received, late, CAPR, bufferPtr, pc, end_ofs, ISR>>
      /\ consumed' = Append(consumed, k + 1)
      /\ read_ofs' = [read_ofs EXCEPT ![c] = read]
  BY <1>2, <1>4 DEF recv_packet, chip
<1>6. /\ pc' = [pc EXCEPT ![c] = place] /\ end_ofs' = [end_ofs EXCEPT ![c] = end]
      /\ read \in Int /\ end \in Int /\ place \in Places
  <2>1. pc \in [Contexts -> Places]
    BY DEF Sound, Types
  <2> QED
    BY <1>2, <1>3, <1>5, <2>1
<1>7. /\ consumed' \in Seq(Nat) /\ k + 1 = Len(consumed')
      /\ \A m \in 1..(k + 1) : consumed'[m] = m
  <2>1. k + 1 \in Nat
    BY <1>3
  <2>2. \A m \in 1..k : consumed[m] = m
    BY <1>3 DEF Stored
  <2> QED
    BY <1>3, <1>5, <2>1, <2>2
<1>8. Stored(pos, n, k + 1)'
  <2>1. \A m \in (k + 1 + 1)..n : m \in (k + 1)..n
    BY <1>3
  <2>2. (\A m \in 1..n : pos[m + 1] = pos[m] + received[m])'
    BY <1>3, <1>5 DEF Stored
  <2>3. (\A m \in (k + 1 + 1)..n : ring[pos[m] % RxSize] = m)'
    BY <1>3, <1>5, <2>1 DEF Stored
  <2> QED
    BY <1>7, <2>2, <2>3 DEF Stored
<1>9. Track(pos, from, n, k + 1, CBA, CAPR')
  <2>1. k + 1 \in 0..n /\ from \in 1..(k + 1 + 1)
    BY <1>2, <1>3 DEF Track
  <2> QED
    BY <1>3, <1>5, <2>1 DEF Track
<1>10. Task(pos, to, n, k + 1, place, read, end)
  <2>1. k + 1 + 1 = k + 2
    BY <1>3
  <2>2. ASSUME NEW lap \in Int, pos[k + 1] = RxSize * lap + read_ofs[c], read_ofs[c] \in Nat
        PROVE  pos[k + 2] = RxSize * lap + read /\ read \in Nat
    <3>1. \A a, s, r \in Int : a + r + s = a + (r + s)
      OBVIOUS
    <3>2. RxSize * lap \in Int /\ size \in Int
      BY <1>2, RingAssumption
    <3>3. read \in Nat
      BY <1>2, <2>2
    <3>4. pos[k + 2] = RxSize * lap + read_ofs[c] + size
      BY <1>2, <2>2
    <3> HIDE DEF size
    <3>5. RxSize * lap + read_ofs[c] + size = RxSize * lap + (read_ofs[c] + size)
      BY <1>3, <3>1, <3>2
    <3> QED
      BY <3>3, <3>4, <3>5
  <2>3. place \in {"catchup", "read"}
    BY <1>1 DEF Reading
  <2> HIDE DEF read, end
  <2>4. CASE place = "catchup"
    <3>1. PICK lap \in Int : /\ pos[k + 1] = RxSize * lap + read_ofs[c]
                             /\ pos[to] = RxSize * lap + RxSize + end
                             /\ read_ofs[c] \in Nat /\ end \in 0..(RxSize - 1)
      BY <1>3, <2>4 DEF Task, end
    <3>2. pos[k + 2] = RxSize * lap + read /\ read \in Nat
      BY <2>2, <3>1
    <3> QED
      BY <1>2, <2>1, <2>4, <3>1, <3>2 DEF Task
  <2>5. CASE place = "read"
    <3>1. PICK lap \in Int : /\ pos[k + 1] = RxSize * lap + read_ofs[c]
                             /\ pos[to] = RxSize * lap + end
                             /\ read_ofs[c] \in Nat /\ end \in 0..(RxSize - 1)
      BY <1>3, <2>5 DEF Task, end
    <3>2. pos[k + 2] = RxSize * lap + read /\ read \in Nat
      BY <2>2, <3>1
    <3> QED
      BY <1>2, <2>1, <2>5, <3>1, <3>2 DEF Task
  <2> QED
    BY <2>3, <2>4, <2>5
<1>11. \A m \in (k + 1 + 1)..n : m \in late \/ m < to
  BY <1>3
<1>12. place \in Reading /\ place \in Behind
  BY <1>1
<1> HIDE DEF read, end, place
<1>13. k + 1 = Len(consumed')
  BY <1>7
<1> QED
  BY <1>1, <1>5, <1>6, <1>7, <1>8, <1>9, <1>10, <1>11, <1>12, <1>13, HandlerStep

\* Round the end of the ring: one lap on.
LEMMA CaughtUpSound ==
  ASSUME NEW pos, NEW from, NEW to, NEW n, NEW k, Sound(pos, from, to, n, k),
         NEW c \in Contexts, c = "main" => pc["irq"] = "done", CaughtUp(c)
  PROVE  Sound(pos, from, to, n, k)'
<1>1. pc[c] = "catchup" /\ pc[c] \notin Out /\ read_ofs[c] >= RxSize
  BY DEF CaughtUp, Out
<1> DEFINE read == read_ofs[c] - RxSize
           end == end_ofs[c]
<1>2. /\ UNCHANGED <<ring, CBA, received, late, consumed, CAPR, bufferPtr, end_ofs, ISR>>
      /\ pc' = [pc EXCEPT ![c] = "read"]
      /\ read_ofs' = [read_ofs EXCEPT ![c] = read]
  BY DEF CaughtUp, Goto, chip
<1>3. /\ consumed \in Seq(Nat) /\ k = Len(consumed)
      /\ Stored(pos, n, k) /\ Track(pos, from, n, k, CBA, CAPR)
      /\ Task(pos, to, n, k, "catchup", read_ofs[c], end)
      /\ end_ofs' = [end_ofs EXCEPT ![c] = end] /\ end \in Int /\ read_ofs[c] \in Int
      /\ \A m \in (k + 1)..n : m \in late \/ m < to
  BY <1>1, <1>2, Inside DEF Behind
<1>4. read \in Int /\ RxSize \in Nat \ {0}
  BY <1>3, RingAssumption
<1>5. PICK lap \in Int : /\ pos[k + 1] = RxSize * lap + read_ofs[c]
                         /\ pos[to] = RxSize * lap + RxSize + end
                         /\ read_ofs[c] \in Nat /\ end \in 0..(RxSize - 1)
  BY <1>3 DEF Task
<1>6. Task(pos, to, n, k, "read", read, end)
  <2>1. lap + 1 \in Int /\ RxSize * (lap + 1) = RxSize * lap + RxSize /\ RxSize * lap \in Int
    BY <1>4
  <2>2. read \in Nat
    BY <1>1, <1>4, <1>5
  <2>3. \A a, w, r \in Int : a + r = a + w + (r - w)
    OBVIOUS
  <2>4. pos[k + 1] = RxSize * (lap + 1) + read
    <3>1. PICK a : a = RxSize * lap
      OBVIOUS
    <3>2. PICK r : r = read_ofs[c]
      OBVIOUS
    <3>3. a + r = a + RxSize + (r - RxSize)
      <4>1. a \in Int /\ r \in Int /\ RxSize \in Int
        BY <1>3, <1>4, <2>1, <3>1, <3>2
      <4> QED
        BY <4>1
    <3>4. RxSize * lap + read_ofs[c] = RxSize * lap + RxSize + (read_ofs[c] - RxSize)
      BY <3>1, <3>2, <3>3
    <3> QED
      BY <1>5, <2>1, <3>4
  <2>5. pos[to] = RxSize * (lap + 1) + end
    BY <1>5, <2>1
  <2>6. to \in (k + 1)..(n + 1)
    BY <1>3 DEF Task, Behind
  <2> HIDE DEF read, end
  <2> QED
    BY <1>5, <2>1, <2>2, <2>4, <2>5, <2>6 DEF Task
<1>7. "read" \in Places /\ "read" \in Reading /\ "read" \in Behind
  BY DEF Places, Reading, Behind
<1>8. Stored(pos, n, k)'
  BY <1>2, <1>3 DEF Stored
<1> HIDE DEF read, end
<1> QED
  BY <1>1, <1>2, <1>3, <1>4, <1>6, <1>7, <1>8, HandlerStep

\* The reading ends where the chip's pointer was: at the place of a packet.
LEMMA StoreSound ==
  ASSUME NEW pos, NEW from, NEW to, NEW n, NEW k, Sound(pos, from, to, n, k),
         NEW c \in Contexts, c = "main" => pc["irq"] = "done", Store(c)
  PROVE  Sound(pos, from, to, n, k)'
<1>1. pc[c] = "read" /\ pc[c] \notin Out /\ read_ofs[c] >= end_ofs[c]
  BY DEF Store, Out
<1> DEFINE read == read_ofs[c]
           end == end_ofs[c]
<1>2. /\ UNCHANGED <<ring, CBA, received, late, consumed, CAPR, read_ofs, end_ofs, ISR>>
      /\ pc' = [pc EXCEPT ![c] = "capr"] /\ bufferPtr' = read
  BY DEF Store, Goto, chip, locals
<1>3. /\ consumed \in Seq(Nat) /\ k = Len(consumed)
      /\ Stored(pos, n, k) /\ Track(pos, from, n, k, CBA, CAPR)
      /\ Task(pos, to, n, k, "read", read, end)
      /\ end_ofs' = [end_ofs EXCEPT ![c] = end] /\ end \in Int
      /\ read_ofs' = [read_ofs EXCEPT ![c] = read] /\ read \in Int
      /\ \A m \in (k + 1)..n : m \in late \/ m < to
  BY <1>1, <1>2, Inside DEF Behind
<1>4. read >= end
  BY <1>1
<1> HIDE DEF read, end
<1>5. PICK lap \in Int : /\ pos[k + 1] = RxSize * lap + read /\ pos[to] = RxSize * lap + end
                         /\ read \in Nat /\ end \in 0..(RxSize - 1)
  BY <1>3 DEF Task
<1>6. to \in (k + 1)..(n + 1)
  BY <1>3 DEF Task, Behind
<1>7. RxSize \in Nat \ {0} /\ RxSize * lap \in Int
  BY RingAssumption
<1>8. pos[k + 1] \in Nat /\ pos[to] \in Nat /\ pos[k + 1] <= pos[to]
      /\ (pos[k + 1] = pos[to] => to = k + 1)
  BY <1>3, <1>6, Between
<1>9. read = end
  <2>1. PICK a : a = RxSize * lap
    OBVIOUS
  <2>2. a + read <= a + end /\ a \in Int
    BY <1>5, <1>7, <1>8, <2>1
  <2> QED
    BY <1>3, <1>4, <2>2
<1>10. to = k + 1 /\ read \in 0..(RxSize - 1)
  BY <1>5, <1>8, <1>9
<1>11. pos[k + 1] % RxSize = read
  BY <1>5, <1>7, <1>10, OffsetIs
<1>12. Task(pos, to, n, k, "capr", read, end)
  BY <1>6, <1>9, <1>10, <1>11 DEF Task
<1>13. "capr" \in Places /\ "capr" \notin Reading /\ "capr" \in Behind
  BY DEF Places, Reading, Behind
<1>14. Stored(pos, n, k)'
  BY <1>2, <1>3 DEF Stored
<1> QED
  BY <1>1, <1>2, <1>3, <1>11, <1>12, <1>13, <1>14, HandlerStep

\* The chip is told: there is room up to the packet to read next.
LEMMA WriteCAPRSound ==
  ASSUME NEW pos, NEW from, NEW to, NEW n, NEW k, Sound(pos, from, to, n, k),
         NEW c \in Contexts, c = "main" => pc["irq"] = "done", WriteCAPR(c)
  PROVE  Sound(pos, k + 1, to, n, k)'
<1>1. pc[c] = "capr" /\ pc[c] \notin Out
  BY DEF WriteCAPR, Out
<1> DEFINE read == read_ofs[c]
           end == end_ofs[c]
<1>2. /\ UNCHANGED <<ring, CBA, received, late, consumed, bufferPtr, read_ofs, end_ofs, ISR>>
      /\ pc' = [pc EXCEPT ![c] = "ack"] /\ CAPR' = read % RxSize
  BY DEF WriteCAPR, Goto, chip, locals
<1>3. /\ consumed \in Seq(Nat) /\ k = Len(consumed) /\ n \in Nat /\ k \in 0..n /\ k \in Nat
      /\ Stored(pos, n, k) /\ Track(pos, from, n, k, CBA, CAPR)
      /\ Task(pos, to, n, k, "capr", read, end)
      /\ bufferPtr = pos[k + 1] % RxSize
      /\ end_ofs' = [end_ofs EXCEPT ![c] = end] /\ end \in Int
      /\ read_ofs' = [read_ofs EXCEPT ![c] = read] /\ read \in Int
      /\ \A m \in (k + 1)..n : m \in late \/ m < to
  BY <1>1, <1>2, Inside DEF Behind, Reading
<1> HIDE DEF read, end
<1>4. to \in (k + 1)..(n + 1) /\ to = k + 1 /\ read = pos[k + 1] % RxSize
  BY <1>3 DEF Task, Behind
<1>5. /\ pos[k + 1] \in Nat /\ pos[n + 1] \in Nat /\ pos[from] \in Nat /\ pos[from] <= pos[k + 1]
      /\ RxSize \in Nat \ {0}
  BY <1>3, <1>4, Between
<1>6. CAPR' = pos[k + 1] % RxSize
  <2>1. read \in 0..(RxSize - 1)
    <3>1. \A x \in Nat : x % RxSize \in 0..(RxSize - 1)
      BY <1>5, Quotients
    <3> QED
      BY <1>4, <1>5, <3>1
  <2>2. (RxSize * 0 + read) % RxSize = read
    BY <1>5, <2>1, OffsetIs
  <2>3. RxSize * 0 + read = read
    BY <1>5, <2>1
  <2> QED
    BY <1>2, <1>4, <2>2, <2>3
<1>7. Track(pos, k + 1, n, k, CBA, CAPR')
  <2>1. k + 1 \in 1..(k + 1)
    BY <1>3
  <2>2. pos[n + 1] - pos[k + 1] < RxSize
    <3>1. pos[n + 1] - pos[from] < RxSize
      BY <1>3 DEF Track
    <3> QED
      BY <1>5, <3>1
  <2> QED
    BY <1>3, <1>6, <2>1, <2>2 DEF Track
<1>8. Task(pos, to, n, k, "ack", read, end)
  BY <1>4 DEF Task
<1>9. "ack" \in Places /\ "ack" \notin Reading /\ "ack" \in Behind
  BY DEF Places, Reading, Behind
<1>10. Stored(pos, n, k)'
  BY <1>2, <1>3 DEF Stored
<1> QED
  BY <1>1, <1>2, <1>3, <1>7, <1>8, <1>9, <1>10, HandlerStep

\* ROK is acknowledged: what has not been read by now is late.
LEMMA AckROKSound ==
  ASSUME NEW pos, NEW from, NEW to, NEW n, NEW k, Sound(pos, from, to, n, k),
         NEW c \in Contexts, c = "main" => pc["irq"] = "done", AckROK(c)
  PROVE  Sound(pos, from, to, n, k)'
<1>1. pc[c] = "ack" /\ pc[c] \notin Out
  BY DEF AckROK, Out
<1>2. /\ UNCHANGED <<ring, CBA, received, late, consumed, bufferPtr, CAPR>>
      /\ pc' = [pc EXCEPT ![c] = "done"]
      /\ read_ofs' = [read_ofs EXCEPT ![c] = 0] /\ end_ofs' = [end_ofs EXCEPT ![c] = 0]
  BY DEF AckROK, Leave, Goto, chip
<1>3. /\ consumed \in Seq(Nat) /\ k = Len(consumed) /\ k \in Nat
      /\ Stored(pos, n, k) /\ Track(pos, from, n, k, CBA, CAPR)
      /\ Task(pos, to, n, k, "ack", read_ofs[c], end_ofs[c])
      /\ bufferPtr = pos[k + 1] % RxSize
      /\ \A m \in (k + 1)..n : m \in late \/ m < to
  BY <1>1, <1>2, Inside DEF Behind, Reading
<1>4. \A m \in (k + 1)..n : m \in late
  <2>1. to = k + 1
    BY <1>3 DEF Task
  <2>2. \A m \in (k + 1)..n : ~(m < k + 1)
    BY <1>3
  <2> QED
    BY <1>3, <2>1, <2>2
<1>5. Task(pos, to, n, k, "done", 0, 0) /\ 0 \in Int
  BY DEF Task, Behind
<1>6. "done" \in Places /\ "done" \notin Reading /\ "done" \notin Behind
  BY DEF Places, Out, Reading, Behind
<1>7. Stored(pos, n, k)'
  BY <1>2, <1>3 DEF Stored
<1> QED
  BY <1>1, <1>2, <1>3, <1>4, <1>5, <1>6, <1>7, HandlerStep

LEMMA HandlerSound ==
  ASSUME NEW c \in Contexts, c = "main" => pc["irq"] = "done",
         NEW pos, NEW from, NEW to, NEW n, NEW k, Sound(pos, from, to, n, k),
         ~reentered, rtl_irq_handler(c)
  PROVE  \E from2, to2, k2 : Sound(pos, from2, to2, n, k2)'
<1>1. CASE ReadStatus(c) \/ AckTOK(c) \/ NoPacket(c)
  BY <1>1, StatusSound
<1>2. CASE TakeEnd(c)
  BY <1>2, TakeEndSound
<1>3. CASE TakePointer(c)
  BY <1>3, TakePointerSound
<1>4. CASE recv_packet(c)
  BY <1>4, RecvSound
<1>5. CASE CaughtUp(c)
  BY <1>5, CaughtUpSound
<1>6. CASE Store(c)
  BY <1>6, StoreSound
<1>7. CASE WriteCAPR(c)
  BY <1>7, WriteCAPRSound
<1>8. CASE AckROK(c)
  BY <1>8, AckROKSound
<1> QED
  BY <1>1, <1>2, <1>3, <1>4, <1>5, <1>6, <1>7, <1>8 DEF rtl_irq_handler

-----------------------------------------------------------------------------
(* The chip *)

\* A packet comes: it has its place, and no header that is still to be read is
\* written over.
LEMMA ReceiveSound ==
  ASSUME NEW pos, NEW from, NEW to, NEW n, NEW k, Sound(pos, from, to, n, k),
         NEW size \in Sizes, Receive(size)
  PROVE  \E pos2 : Sound(pos2, from, to, n + 1, k)'
<1> DEFINE end == pos[n + 1]
           pos2 == [m \in 1..(n + 2) |-> IF m <= n + 1 THEN pos[m] ELSE end + size]
<1>1. /\ Types /\ Alone /\ n = Len(received) /\ k = Len(consumed)
      /\ Track(pos, from, n, k, CBA, CAPR) /\ Stored(pos, n, k)
  BY DEF Sound
<1>2. /\ n \in Nat /\ k \in 0..n /\ k \in Nat /\ from \in 1..(k + 1)
      /\ pos \in [1..(n + 1) -> Nat] /\ RxSize \in Nat \ {0}
      /\ size \in 1..(RxSize - 1) /\ size \in Nat \ {0}
  <2>1. RxSize \in Nat \ {0} /\ size \in 1..(RxSize - 1)
    BY RingAssumption
  <2>2. size \in Nat \ {0}
    BY <2>1
  <2> QED
    BY <1>1, <2>1, <2>2 DEF Track
<1>3. /\ UNCHANGED <<CAPR, bufferPtr, pc, read_ofs, end_ofs, consumed>>
      /\ ring' = [o \in DOMAIN ring |-> IF o = CBA THEN n + 1
                                        ELSE IF o \in CBA..(CBA + size - 1) THEN Junk ELSE ring[o]]
      /\ CBA' = (CBA + size) % RxSize
      /\ received' = Append(received, size)
      /\ ISR' = ISR \cup {"ROK"}
      /\ late' = IF \E c \in Contexts : pc[c] \in Behind THEN late \cup {n + 1} ELSE late
      /\ Room(size)
  BY <1>1 DEF Receive, locals
<1>4. /\ n + 1 \in 1..(n + 1) /\ k + 1 \in 1..(n + 1) /\ from \in 1..(n + 1)
      /\ end \in Nat /\ pos[from] \in Nat
      /\ \A m \in 1..(n + 1) : pos[m] \in Nat
  BY <1>2
<1>5. \A l, m \in 1..(n + 1) : l <= m => pos[l] <= pos[m]
  <2> SUFFICES ASSUME NEW l \in 1..(n + 1), NEW m \in 1..(n + 1), l <= m
               PROVE  pos[l] <= pos[m]
    OBVIOUS
  <2>1. pos[l] \in Nat /\ pos[m] \in Nat
    BY <1>4
  <2>2. l < m => pos[l] < pos[m]
    BY <1>1 DEF Track
  <2>3. l < m \/ l = m
    BY <1>2
  <2> QED
    BY <2>1, <2>2, <2>3
<1>6. pos[from] <= end /\ end - pos[from] < RxSize
      /\ CBA = end % RxSize /\ CAPR = pos[from] % RxSize
  <2>1. from <= n + 1
    BY <1>2
  <2> QED
    BY <1>1, <1>4, <1>5, <2>1 DEF Track
<1>7. end - pos[from] + size < RxSize
  <2> DEFINE y == pos[from]
  <2> HIDE DEF end, y
  <2>1. CASE CAPR = CBA
    <3>1. end = y
      BY <1>2, <1>4, <1>6, <2>1, SamePlace DEF y
    <3>2. end - y + size = size
      BY <1>2, <1>4, <3>1 DEF y
    <3> QED
      BY <1>2, <3>2 DEF y
  <2>2. CASE size < (CAPR - CBA + RxSize) % RxSize
    <3>1. size < ((y % RxSize) - (end % RxSize) + RxSize) % RxSize
      BY <1>6, <2>2 DEF y
    <3>2. end - y + size < RxSize
      BY <1>2, <1>4, <1>6, <3>1, RoomLeft DEF y
    <3> QED
      BY <3>2 DEF y
  <2> QED
    BY <1>3, <2>1, <2>2 DEF Room
<1>8. /\ n + 1 \in Nat /\ k \in 0..(n + 1) /\ n + 1 + 1 = n + 2
      /\ pos2 \in [1..(n + 2) -> Nat] /\ pos2[n + 2] = end + size
      /\ \A m \in 1..(n + 1) : pos2[m] = pos[m]
      /\ end + size \in Nat
  BY <1>2, <1>4
<1> HIDE DEF end, pos2
<1>9. Track(pos2, from, n + 1, k, CBA', CAPR')
  <2>1. \A l, m \in 1..(n + 2) : l < m => pos2[l] < pos2[m]
    <3> SUFFICES ASSUME NEW l \in 1..(n + 2), NEW m \in 1..(n + 2), l < m
                 PROVE  pos2[l] < pos2[m]
      OBVIOUS
    <3>1. l \in 1..(n + 1) /\ (m \in 1..(n + 1) \/ m = n + 2)
      BY <1>2
    <3>2. CASE m \in 1..(n + 1)
      BY <1>1, <1>8, <3>1, <3>2 DEF Track
    <3>3. CASE m = n + 2
      <4>1. pos[l] <= end
        <5>1. l <= n + 1
          BY <3>1, <1>2
        <5> QED
          BY <1>4, <1>5, <3>1, <5>1 DEF end
      <4>2. pos[l] \in Nat
        BY <1>4, <3>1
      <4>3. pos[l] < end + size
        BY <1>2, <1>4, <4>1, <4>2
      <4> QED
        BY <1>8, <3>1, <3>3, <4>3
    <3> QED
      BY <3>1, <3>2, <3>3
  <2>2. CBA' = (end + size) % RxSize
    <3>1. ((end % RxSize) + size) % RxSize = (end + size) % RxSize
      BY <1>2, <1>4, NextOffset
    <3> QED
      BY <1>3, <1>6, <3>1
  <2>3. pos2[from] = pos[from] /\ (end + size) - pos[from] < RxSize
    <3>1. pos2[from] = pos[from]
      BY <1>4, <1>8
    <3>2. \A a, b, s \in Nat : (a + s) - b = (a - b) + s
      OBVIOUS
    <3> QED
      BY <1>2, <1>4, <1>7, <3>1, <3>2
  <2>4. /\ pos2 \in [1..(n + 1 + 1) -> Nat] /\ pos2[n + 1 + 1] = end + size
        /\ \A l, m \in 1..(n + 1 + 1) : l < m => pos2[l] < pos2[m]
    BY <1>8, <2>1
  <2>5. CBA' = pos2[n + 1 + 1] % RxSize
    BY <2>2, <2>4
  <2>6. CAPR' = pos2[from] % RxSize
    BY <1>3, <1>6, <2>3
  <2>7. pos2[n + 1 + 1] - pos2[from] < RxSize
    BY <2>3, <2>4
  <2>8. from \in 1..(k + 1) /\ n + 1 \in Nat /\ k \in 0..(n + 1)
    BY <1>2, <1>8
  <2> QED
    BY <2>4, <2>5, <2>6, <2>7, <2>8 DEF Track
<1>10. /\ received' \in Seq(Sizes) /\ Len(received') = n + 1
       /\ \A m \in 1..n : received'[m] = received[m]
       /\ received'[n + 1] = size
  BY <1>1, <1>3 DEF Types
<1>11. /\ \A o \in 0..(RxSize - 1) :
              ring'[o] = IF o = CBA THEN n + 1
                         ELSE IF o \in CBA..(CBA + size - 1) THEN 0 ELSE ring[o]
       /\ ring' \in [0..(RxSize - 1) -> Int]
  <2>1. DOMAIN ring = 0..(RxSize - 1) /\ ring \in [0..(RxSize - 1) -> Int]
    BY <1>1 DEF Types
  <2>2. n + 1 \in Int /\ 0 \in Int
    BY <1>2
  <2> QED
    BY <1>3, <2>1, <2>2 DEF Junk
<1>12. \A m \in 1..(n + 1) : pos2[m + 1] = pos2[m] + received'[m]
  <2> SUFFICES ASSUME NEW m \in 1..(n + 1)
               PROVE  pos2[m + 1] = pos2[m] + received'[m]
    OBVIOUS
  <2>1. CASE m \in 1..n
    <3>1. m + 1 \in 1..(n + 1)
      BY <1>2, <2>1
    <3>2. pos[m + 1] = pos[m] + received[m]
      BY <1>1, <2>1 DEF Stored
    <3> QED
      BY <1>8, <1>10, <2>1, <3>1, <3>2
  <2>2. CASE m = n + 1
    BY <1>4, <1>8, <1>10, <2>2 DEF end
  <2> QED
    BY <1>2, <2>1, <2>2
<1>13. \A m \in (k + 1)..(n + 1) : ring'[pos2[m] % RxSize] = m
  <2> SUFFICES ASSUME NEW m \in (k + 1)..(n + 1)
               PROVE  ring'[pos2[m] % RxSize] = m
    OBVIOUS
  <2>1. m \in 1..(n + 1) /\ (m \in (k + 1)..n \/ m = n + 1) /\ from <= m
    BY <1>2
  <2>2. pos2[m] = pos[m] /\ pos[m] \in Nat /\ pos[m] \in Int
    BY <1>4, <1>8, <2>1
  <2>3. pos[m] % RxSize \in 0..(RxSize - 1)
    BY <1>2, <2>2, Quotients
  <2>4. CASE m = n + 1
    <3>1. pos[m] % RxSize = CBA
      BY <1>6, <2>4 DEF end
    <3> QED
      BY <1>11, <2>2, <2>3, <2>4, <3>1
  <2>5. CASE m \in (k + 1)..n
    <3> DEFINE y == pos[m]
               o == y % RxSize
    <3>1. y < end
      <4>1. m < n + 1 /\ n + 1 \in 1..(n + 1)
        BY <1>2, <2>5
      <4> QED
        BY <1>1, <2>1, <4>1 DEF Track, end
    <3>2. (end + size) - y < RxSize
      <4>1. pos[from] <= y
        BY <1>4, <1>5, <2>1
      <4> HIDE DEF y
      <4>2. \A a, b, s, z, w \in Nat : b <= z /\ (a - b) + s < w => (a + s) - z < w
        OBVIOUS
      <4> QED
        BY <1>2, <1>4, <1>7, <2>2, <4>1, <4>2 DEF y
    <3>3. o \in 0..(RxSize - 1) /\ y \in Nat
      BY <2>2, <2>3
    <3> HIDE DEF o, y
    <3>4. ~(o = CBA \/ o \in CBA..(CBA + size - 1))
      <4> SUFFICES ASSUME o = CBA \/ o \in CBA..(CBA + size - 1)
                   PROVE  FALSE
        OBVIOUS
      <4>1. o = end % RxSize \/ o \in (end % RxSize)..((end % RxSize) + size - 1)
        BY <1>6
      <4>2. (y % RxSize) # o
        BY <1>2, <1>4, <3>1, <3>2, <3>3, <4>1, NotWritten
      <4> QED
        BY <4>2 DEF o
    <3>5. ring'[o] = ring[o]
      BY <1>11, <3>3, <3>4
    <3>6. ring[o] = m
      BY <1>1, <2>5 DEF Stored, o, y
    <3> QED
      BY <2>2, <3>5, <3>6 DEF o, y
  <2> QED
    BY <2>1, <2>4, <2>5
<1>14. Stored(pos2, n + 1, k)'
  <2>1. \A m \in 1..k : consumed'[m] = m
    BY <1>1, <1>3 DEF Stored
  <2> QED
    BY <1>12, <1>13, <2>1 DEF Stored
<1>15. ASSUME NEW c \in Contexts
       PROVE  Task(pos2, to, n + 1, k, pc'[c], read_ofs'[c], end_ofs'[c])
  <2>1. Task(pos, to, n, k, pc[c], read_ofs[c], end_ofs[c])
    BY DEF Sound
  <2>2. pos2[k + 1] = pos[k + 1]
    BY <1>4, <1>8
  <2>3. to \in (k + 1)..(n + 1) => to \in (k + 1)..(n + 1 + 1) /\ pos2[to] = pos[to]
    <3>1. to \in (k + 1)..(n + 1) => to \in 1..(n + 1) /\ to \in (k + 1)..(n + 1 + 1)
      BY <1>2
    <3> QED
      BY <1>8, <3>1
  <2>4. Task(pos2, to, n + 1, k, pc[c], read_ofs[c], end_ofs[c])
    BY <2>1, <2>2, <2>3 DEF Task, Behind
  <2> QED
    BY <1>3, <2>4
<1>16. (\A c \in Contexts : pc'[c] \notin Reading) => bufferPtr' = pos2[k + 1] % RxSize
  <2>1. pos2[k + 1] = pos[k + 1]
    BY <1>4, <1>8
  <2> QED
    BY <1>3, <2>1 DEF Sound
<1>17. ASSUME NEW m \in (k + 1)..(n + 1)
       PROVE  (Expected(m, to, \E c \in Contexts : pc[c] \in Behind))'
  <2>1. m \in (k + 1)..n \/ m = n + 1
    BY <1>2
  <2>2. m \in (k + 1)..n => Expected(m, to, \E c \in Contexts : pc[c] \in Behind)
    BY DEF Sound
  <2> QED
    BY <1>3, <2>1, <2>2 DEF Expected
<1>18. Types' /\ Alone'
  BY <1>1, <1>3, <1>10, <1>11 DEF Types, Alone
<1>19. (Track(pos2, from, n + 1, k, CBA, CAPR))' /\ n + 1 = Len(received') /\ k = Len(consumed')
  BY <1>1, <1>3, <1>9, <1>10 DEF Track
<1> QED
  BY <1>14, <1>15, <1>16, <1>17, <1>18, <1>19 DEF Sound

\* Another bit is raised: ROK stays.
LEMMA RaiseSound ==
  ASSUME NEW pos, NEW from, NEW to, NEW n, NEW k, Sound(pos, from, to, n, k),
         NEW bit, Raise(bit)
  PROVE  Sound(pos, from, to, n, k)'
<1>1. /\ UNCHANGED <<ring, CBA, received, late, CAPR, bufferPtr, pc, read_ofs, end_ofs, consumed>>
      /\ ISR' = ISR \cup {bit}
  BY DEF Raise, locals
<1>2. Types' /\ Alone' /\ Stored(pos, n, k)' /\ (Track(pos, from, n, k, CBA, CAPR))'
  BY <1>1 DEF Sound, Types, Alone, Stored, Track
<1>3. ASSUME NEW m \in (k + 1)..n
      PROVE  (Expected(m, to, \E c \in Contexts : pc[c] \in Behind))'
  <2>1. Expected(m, to, \E c \in Contexts : pc[c] \in Behind)
    BY DEF Sound
  <2> QED
    BY <1>1, <2>1 DEF Expected
<1>4. /\ n = Len(received') /\ k = Len(consumed')
      /\ (\A c \in Contexts : pc'[c] \notin Reading) => bufferPtr' = pos[k + 1] % RxSize
      /\ \A c \in Contexts : Task(pos, to, n, k, pc'[c], read_ofs'[c], end_ofs'[c])
  BY <1>1 DEF Sound
<1> QED
  BY <1>2, <1>3, <1>4 DEF Sound

-----------------------------------------------------------------------------
(* The contexts *)

\* The handler is entered, by one context while the other is not in it.
LEMMA EntrySound ==
  ASSUME NEW pos, NEW from, NEW to, NEW n, NEW k, Sound(pos, from, to, n, k),
         NEW c \in Contexts, \A d \in Contexts : pc[d] \in Out,
         pc["irq"] = "done",
         pc' = [pc EXCEPT ![c] = "status"],
         UNCHANGED <<ring, CBA, received, late, CAPR, ISR, bufferPtr, read_ofs, end_ofs, consumed>>
  PROVE  Sound(pos, from, to, n, k)'
<1>1. Types /\ pc'[c] = "status" /\ \A d \in Contexts : d # c => pc'[d] = pc[d]
  BY DEF Sound, Types
<1>2. Types'
  BY <1>1 DEF Types, Places
<1>3. Alone'
  BY <1>1 DEF Alone, Contexts
<1>4. Stored(pos, n, k)' /\ (Track(pos, from, n, k, CBA, CAPR))'
  BY DEF Sound, Stored, Track
<1>5. /\ \A d \in Contexts : pc[d] \notin Behind /\ pc[d] \notin Reading
      /\ \A d \in Contexts : pc'[d] \notin Behind /\ pc'[d] \notin Reading
  BY <1>1 DEF Out, Behind, Reading
<1>6. ASSUME NEW d \in Contexts
      PROVE  Task(pos, to, n, k, pc'[d], read_ofs'[d], end_ofs'[d])
  <2>1. pc'[d] \in {"status", "before", "done"}
    BY <1>1 DEF Out
  <2> QED
    BY <2>1 DEF Task, Behind
<1>7. bufferPtr' = pos[k + 1] % RxSize
  BY <1>5 DEF Sound
<1>8. ASSUME NEW m \in (k + 1)..n
      PROVE  (Expected(m, to, \E d \in Contexts : pc[d] \in Behind))'
  <2>1. Expected(m, to, \E d \in Contexts : pc[d] \in Behind)
    BY DEF Sound
  <2> QED
    BY <1>5, <2>1 DEF Expected
<1>9. n = Len(received') /\ k = Len(consumed')
  BY DEF Sound
<1> QED
  BY <1>2, <1>3, <1>4, <1>6, <1>7, <1>8, <1>9 DEF Sound

\* No header that is none is ever read: the wait for one that claims too much
\* does not happen.
LEMMA NeverTooBig ==
  ASSUME NEW pos, NEW from, NEW to, NEW n, NEW k, Sound(pos, from, to, n, k)
  PROVE  ~TooBig
<1> SUFFICES ASSUME TooBig
             PROVE  FALSE
  OBVIOUS
<1>1. More("irq") /\ ring[read_ofs["irq"]] = Junk
  BY DEF TooBig
<1>2. ring[read_ofs["irq"]] = k + 1 /\ k + 1 \in 1..n
  BY <1>1, HeaderThere DEF Contexts
<1>3. n \in Nat /\ k \in Nat
  BY DEF Sound, Track
<1> QED
  BY <1>1, <1>2, <1>3 DEF Junk

-----------------------------------------------------------------------------
(* Every behaviour *)

LEMMA Starts ==
  Init => RingInv
<1> SUFFICES ASSUME Init
             PROVE  \E pos, from, to, n, k : Sound(pos, from, to, n, k)
  BY DEF RingInv
<1> DEFINE pos == [m \in 1..1 |-> 0]
<1>1. RxSize \in Nat \ {0}
  BY RingAssumption
<1>2. /\ CBA = 0 /\ CAPR = 0 /\ bufferPtr = 0 /\ received = <<>> /\ consumed = <<>>
      /\ \A c \in Contexts : pc[c] \in Out
      /\ pc["irq"] = "done"
  BY DEF Init, Contexts, Out
<1>3. Types
  <2>1. ring \in [0..(RxSize - 1) -> Int]
    BY DEF Init, Junk
  <2>2. pc \in [Contexts -> Places] /\ read_ofs \in [Contexts -> Int] /\ end_ofs \in [Contexts -> Int]
    BY DEF Init, Places, Out
  <2> QED
    BY <1>2, <2>1, <2>2 DEF Types
<1>4. 0 % RxSize = 0
  BY <1>1
<1>5. pos \in [1..(0 + 1) -> Nat] /\ pos[0 + 1] = 0 /\ pos[1] = 0
  OBVIOUS
<1> HIDE DEF pos
<1>6. Track(pos, 1, 0, 0, CBA, CAPR)
  <2>1. 0 \in 0..0 /\ 1 \in 1..(0 + 1) /\ 0 - 0 < RxSize
    BY <1>1
  <2>2. \A l, m \in 1..(0 + 1) : ~(l < m)
    OBVIOUS
  <2> QED
    BY <1>2, <1>4, <1>5, <2>1, <2>2 DEF Track
<1>7. Stored(pos, 0, 0)
  <2>1. \A m \in 1..0 : FALSE
    OBVIOUS
  <2>2. \A m \in (0 + 1)..0 : FALSE
    OBVIOUS
  <2> QED
    BY <2>1, <2>2 DEF Stored
<1>8. \A c \in Contexts : Task(pos, 1, 0, 0, pc[c], read_ofs[c], end_ofs[c])
  BY <1>2 DEF Task, Out, Behind
<1>9. bufferPtr = pos[0 + 1] % RxSize
  BY <1>2, <1>4, <1>5
<1>10. \A m \in (0 + 1)..0 : Expected(m, 1, \E c \in Contexts : pc[c] \in Behind)
  <2>1. \A m \in (0 + 1)..0 : FALSE
    OBVIOUS
  <2> QED
    BY <2>1
<1>11. 0 = Len(received) /\ 0 = Len(consumed)
  BY <1>2
<1>12. Sound(pos, 1, 1, 0, 0)
  BY <1>2, <1>3, <1>6, <1>7, <1>8, <1>9, <1>10, <1>11 DEF Sound, Alone
<1> QED
  BY <1>12

LEMMA StepKeeps ==
  RingInv /\ [Next]_vars => RingInv'
<1> SUFFICES ASSUME RingInv, [Next]_vars, ~reentered'
             PROVE  \E pos, from, to, n, k : Sound(pos, from, to, n, k)'
  BY DEF RingInv
<1>1. ~reentered
  BY DEF Next, vars, Chip, Processor, Receive, Raise, Interrupt, rtl_irq_handler, TooBig,
     init_rtl8139, ReadStatus, AckTOK, NoPacket, TakeEnd, TakePointer, recv_packet, CaughtUp, Store,
     WriteCAPR, AckROK
<1>2. PICK pos, from, to, n, k : Sound(pos, from, to, n, k)
  BY <1>1 DEF RingInv
<1>3. CASE UNCHANGED vars
  <2>1. /\ UNCHANGED <<ring, CBA, received, late, CAPR, ISR, bufferPtr, pc, read_ofs, end_ofs>>
        /\ UNCHANGED consumed
    BY <1>3 DEF vars, chip, locals
  <2>2. Sound(pos, from, to, n, k)'
    <3>1. Types' /\ Alone' /\ Stored(pos, n, k)' /\ (Track(pos, from, n, k, CBA, CAPR))'
      BY <1>2, <2>1 DEF Sound, Types, Alone, Stored, Track
    <3>2. \A m \in (k + 1)..n : (Expected(m, to, \E c \in Contexts : pc[c] \in Behind))'
      BY <1>2, <2>1 DEF Sound, Expected
    <3>3. /\ n = Len(received') /\ k = Len(consumed')
          /\ (\A c \in Contexts : pc'[c] \notin Reading) => bufferPtr' = pos[k + 1] % RxSize
          /\ \A c \in Contexts : Task(pos, to, n, k, pc'[c], read_ofs'[c], end_ofs'[c])
      BY <1>2, <2>1 DEF Sound
    <3> QED
      BY <3>1, <3>2, <3>3 DEF Sound
  <2> QED
    BY <2>2
<1>4. ASSUME NEW size \in Sizes, Receive(size)
      PROVE  \E pos2, from2, to2, n2, k2 : Sound(pos2, from2, to2, n2, k2)'
  BY <1>2, <1>4, ReceiveSound
<1>5. ASSUME NEW bit, Raise(bit)
      PROVE  Sound(pos, from, to, n, k)'
  BY <1>2, <1>5, RaiseSound
<1>6. ASSUME Interrupt
      PROVE  Sound(pos, from, to, n, k)'
  <2>1. /\ UNCHANGED <<ring, CBA, received, late, CAPR, ISR, bufferPtr, read_ofs, end_ofs, consumed>>
        /\ pc["irq"] = "done" /\ pc["main"] \in Out /\ pc' = [pc EXCEPT !["irq"] = "status"]
    BY <1>6 DEF Interrupt, Goto, chip, locals
  <2>2. \A d \in Contexts : pc[d] \in Out
    BY <2>1 DEF Contexts, Out
  <2>3. "irq" \in Contexts
    BY DEF Contexts
  <2> QED
    BY <1>2, <2>1, <2>2, <2>3, EntrySound
<1>7. ASSUME init_rtl8139
      PROVE  Sound(pos, from, to, n, k)'
  <2>1. /\ UNCHANGED <<ring, CBA, received, late, CAPR, ISR, bufferPtr, read_ofs, end_ofs, consumed>>
        /\ pc["irq"] = "done" /\ pc["main"] = "before" /\ pc' = [pc EXCEPT !["main"] = "status"]
    BY <1>7 DEF init_rtl8139, Goto, chip, locals
  <2>2. \A d \in Contexts : pc[d] \in Out
    BY <2>1 DEF Contexts, Out
  <2>3. "main" \in Contexts
    BY DEF Contexts
  <2> QED
    BY <1>2, <2>1, <2>2, <2>3, EntrySound
<1>8. ASSUME NEW c \in Contexts, c = "main" => pc["irq"] = "done", rtl_irq_handler(c)
      PROVE  \E from2, to2, k2 : Sound(pos, from2, to2, n, k2)'
  BY <1>1, <1>2, <1>8, HandlerSound
<1>9. ~TooBig
  BY <1>2, NeverTooBig
<1>10. CASE Chip
  BY <1>4, <1>5, <1>10 DEF Chip
<1>11. CASE Processor
  <2>1. CASE rtl_irq_handler("irq")
    BY <1>8, <2>1 DEF Contexts
  <2>2. CASE pc["irq"] = "done" /\ rtl_irq_handler("main")
    BY <1>8, <2>2 DEF Contexts
  <2> QED
    BY <1>6, <1>7, <1>9, <1>11, <2>1, <2>2 DEF Processor
<1> QED
  BY <1>3, <1>10, <1>11 DEF Next

LEMMA Invariant ==
  Spec => []RingInv
  BY Starts, StepKeeps, PTL DEF Spec

\* For every size of the ring and of the packets: the driver reads the packets
\* the chip has put there, each once and in order, takes nothing for a header
\* that is none, and stops exactly where the chip's pointer was, whatever
\* arrives meanwhile and wherever the ring wraps, unless the interrupt comes
\* into the call that init_rtl8139() makes.
THEOREM RingReadAlways ==
  Spec => []RingRead
<1>1. RingInv => RingRead
  <2> SUFFICES ASSUME RingInv, ~reentered
               PROVE  /\ Len(consumed) <= Len(received)
                      /\ \A m \in 1..Len(consumed) : consumed[m] = m
                      /\ \A c \in Contexts : pc[c] = "capr" => read_ofs[c] = end_ofs[c]
    BY DEF RingRead, ReadInOrder, ReadMeetsEnd
  <2>1. PICK pos, from, to, n, k : Sound(pos, from, to, n, k)
    BY DEF RingInv
  <2>2. n = Len(received) /\ k = Len(consumed) /\ k <= n
    BY <2>1 DEF Sound, Track
  <2>3. \A m \in 1..k : consumed[m] = m
    BY <2>1 DEF Sound, Stored
  <2>4. \A c \in Contexts : pc[c] = "capr" => read_ofs[c] = end_ofs[c]
    BY <2>1 DEF Sound, Task
  <2> QED
    BY <2>2, <2>3, <2>4
<1> QED
  BY <1>1, Invariant, PTL

\* A packet left in the ring with no interrupt to come arrived after the
\* handler had read CBA and before it acknowledged ROK: no other is ever lost.
THEOREM OnlyLateAreLeft ==
  Spec => []OnlyLateLeft
<1>1. RingInv => OnlyLateLeft
  <2> SUFFICES ASSUME RingInv, ~reentered, "ROK" \notin ISR, \A c \in Contexts : pc[c] \in Out,
                      NEW m \in (Len(consumed) + 1)..Len(received)
               PROVE  m \in late
    BY DEF OnlyLateLeft
  <2>1. PICK pos, from, to, n, k : Sound(pos, from, to, n, k)
    BY DEF RingInv
  <2>2. Expected(m, to, \E c \in Contexts : pc[c] \in Behind)
    BY <2>1 DEF Sound
  <2>3. ~ \E c \in Contexts : pc[c] \in Behind
    BY DEF Out, Behind
  <2> QED
    BY <2>2, <2>3 DEF Expected
<1> QED
  BY <1>1, Invariant, PTL

=============================================================================
