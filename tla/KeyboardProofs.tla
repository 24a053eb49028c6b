--------------------------- MODULE KeyboardProofs ---------------------------
(***************************************************************************)
(* Proofs about Keyboard, LineInput and Shell, for every set of keys and   *)
(* every size of buffer: type correctness, that no key is lost, repeated   *)
(* or reordered until the buffer overruns and none invented after that,    *)
(* that locks follow presses, that characters are read by the keys held,   *)
(* that gets() returns the line and that strtok() cuts it into its words.  *)
(*                                                                         *)
(* KeysInOrder is inductive together with TypeOK: it says what keyBuff     *)
(* holds at every point of getchar_int(), and so what the next step of the *)
(* reader or of the interrupt handler makes of it.                         *)
(*                                                                         *)
(* For gets() the invariant is that the array holds the text up to where   *)
(* gets() is, Counted that it never leaves the array: no more characters   *)
(* are read than were typed.  For strtok() it is that the array still      *)
(* holds the text behind the words already cut.                            *)
(***************************************************************************)
EXTENDS Shell, FiniteSetTheorems, SequenceTheorems, WellFoundedInduction, TLAPS

\* Every entry of the scan code tables is a character.
LEMMA TableIsChar ==
  ASSUME NEW k \in CharKeys, NEW n \in 1..4
  PROVE  kbScanCodes[k][n] \in Char
  BY DEF Char

LEMMA SectionInRange ==
  ASSUME NEW sh \in BOOLEAN, NEW ca \in BOOLEAN
  PROVE  Section(sh, ca) \in 1..4
  BY DEF Section

\* The handler's control-line and lock updates keep their types.
LEMMA SpecialKeepsTypes ==
  ASSUME TypeOK, NEW code \in Int, kb_special(code)
  PROVE  /\ shift' \in BOOLEAN /\ ctrl' \in BOOLEAN /\ alt' \in BOOLEAN
         /\ caps' \in BOOLEAN /\ num' \in BOOLEAN /\ leds' \subseteq LockKeys
         /\ specKeyUp' \in BOOLEAN
<1>1. shift' \in BOOLEAN /\ ctrl' \in BOOLEAN /\ alt' \in BOOLEAN
  BY DEF TypeOK, kb_special, ControlLine
<1>2. CASE LockDown(code)
  BY <1>1, <1>2 DEF TypeOK, LockDown, UpdateLeds
<1>3. CASE LockUp(code)
  BY <1>1, <1>3 DEF TypeOK, LockUp
<1>4. CASE NoLock(code)
  BY <1>1, <1>4 DEF TypeOK, NoLock, locks
<1> QED
  BY <1>2, <1>3, <1>4 DEF kb_special

\* What buffering a character does to the buffer and to the histories.
LEMMA BufferStep ==
  ASSUME TypeOK, NEW c \in Char, Buffer(c)
  PROVE  /\ keyBuff' \in [0..Wrap -> Char] /\ keyBuffEnd' \in 0..(Wrap - 1)
         /\ typed' \in Seq(Char) /\ overrun' \in BOOLEAN
         /\ ~overrun' => /\ ~overrun /\ keyBuffEnd' = keyBuffEnd + 1
                         /\ Len(typed') = Len(typed) + 1
                         /\ \A n \in 1..Len(typed) : typed'[n] = typed[n]
                         /\ typed'[Len(typed) + 1] = c
                         /\ \A n \in 0..keyBuffEnd : keyBuff'[n] = keyBuff[n]
                         /\ keyBuff'[keyBuffEnd + 1] = c
<1> DEFINE end == (keyBuffEnd + 1) % Wrap
<1>1. /\ keyBuffEnd' = end
      /\ keyBuff' = [keyBuff EXCEPT ![end] = c]
      /\ typed' = Append(typed, c)
      /\ overrun' = (overrun \/ end = 0)
  BY DEF Buffer
<1>2. end \in 0..(Wrap - 1) /\ (end # 0 => end = keyBuffEnd + 1)
  BY WrapAssumption DEF TypeOK
<1> HIDE DEF end
<1>3. /\ keyBuff \in [0..Wrap -> Char] /\ keyBuffEnd \in 0..(Wrap - 1)
      /\ typed \in Seq(Char) /\ overrun \in BOOLEAN
  BY DEF TypeOK
<1>4. keyBuff' \in [0..Wrap -> Char] /\ keyBuffEnd' \in 0..(Wrap - 1)
  BY <1>1, <1>2, <1>3, WrapAssumption
<1>5. typed' \in Seq(Char) /\ overrun' \in BOOLEAN
  BY <1>1, <1>3
<1>6. ASSUME ~overrun'
      PROVE  ~overrun /\ end # 0
  BY <1>1, <1>6
<1>7. /\ Len(typed') = Len(typed) + 1
      /\ \A n \in 1..Len(typed) : typed'[n] = typed[n]
      /\ typed'[Len(typed) + 1] = c
  BY <1>1, <1>3
<1>8. ASSUME end # 0
      PROVE  /\ \A n \in 0..keyBuffEnd : keyBuff'[n] = keyBuff[n]
             /\ keyBuff'[keyBuffEnd + 1] = c
  BY <1>1, <1>2, <1>3, <1>8, WrapAssumption
<1> QED
  BY <1>1, <1>2, <1>4, <1>5, <1>6, <1>7, <1>8

\* A key event either buffers one character or leaves buffer and histories.
LEMMA HandlerStep ==
  ASSUME TypeOK, NEW k \in Keys, NEW code \in {k, Up(k)}, keyboard_handler(code)
  PROVE  \/ UNCHANGED <<keyBuff, keyBuffEnd, typed, overrun>>
         \/ \E c \in Char : Buffer(c)
<1>1. CASE code \in SpecialKeys \/ code >= 128
  BY <1>1 DEF keyboard_handler, buffer
<1>2. CASE ~(code \in SpecialKeys \/ code >= 128)
  <2>1. code \in CharKeys
    BY <1>2, KeysAssumption
    DEF Up, SpecialKeys, Shifts, LockKeys, CharKeys, RShift, LShift, Control,
        Alt, CapsKey, NumKey, ScrollKey
  <2>2. Section(shift, caps) \in 1..4
    BY SectionInRange DEF TypeOK
  <2>3. kbScanCodes[code][Section(shift, caps)] \in Char
    BY <2>1, <2>2, TableIsChar
  <2> QED
    BY <1>2, <2>3 DEF keyboard_handler
<1> QED
  BY <1>1, <1>2

LEMMA InitTypeOK == Init => TypeOK
  BY WrapAssumption DEF Init, TypeOK, Readers, Char

LEMMA KeyTypeOK ==
  ASSUME TypeOK, KeyEvent
  PROVE  TypeOK'
<1>1. PICK k \in Keys : Press(k) \/ Release(k) \/ Repeat(k)
  BY DEF KeyEvent, Key
<1>2. PICK code \in {k, Up(k)} : keyboard_handler(code)
  BY <1>1 DEF Press, Release, Repeat
<1>3. code \in Int
  BY KeysAssumption DEF Up, SpecialKeys, Shifts, LockKeys, CharKeys, RShift,
     LShift, Control, Alt, CapsKey, NumKey, ScrollKey
<1>4. /\ shift' \in BOOLEAN /\ ctrl' \in BOOLEAN /\ alt' \in BOOLEAN
      /\ caps' \in BOOLEAN /\ num' \in BOOLEAN /\ leds' \subseteq LockKeys
      /\ specKeyUp' \in BOOLEAN
  BY <1>2, <1>3, SpecialKeepsTypes DEF keyboard_handler
<1>5. /\ keyBuff' \in [0..Wrap -> Char] /\ keyBuffEnd' \in 0..(Wrap - 1)
      /\ typed' \in Seq(Char) /\ overrun' \in BOOLEAN
  BY <1>2, HandlerStep, BufferStep DEF TypeOK
<1>6. /\ held' \subseteq Keys /\ repeating' \in held' \cup {NoKey}
      /\ capsPresses' \in BOOLEAN /\ numPresses' \in BOOLEAN /\ chord' \in BOOLEAN
      /\ lowered' \in BOOLEAN
  <2>1. CASE Press(k)
    BY <2>1 DEF TypeOK, Press
  <2>2. CASE Release(k)
    BY <2>2 DEF TypeOK, Release
  <2>3. CASE Repeat(k)
    BY <2>3 DEF TypeOK, Repeat, keyboard
  <2> QED
    BY <1>1, <2>1, <2>2, <2>3
<1>7. UNCHANGED <<rd, delivered>>
  BY DEF KeyEvent
<1> QED
  BY <1>4, <1>5, <1>6, <1>7 DEF TypeOK

LEMMA ReaderTypeOK ==
  ASSUME TypeOK, Call \/ Getchar
  PROVE  TypeOK'
<1>1. CASE Call
  BY <1>1 DEF TypeOK, Call, lines, locks, buffer, keyboard, Readers
<1>2. CASE SpinExit
  BY <1>2 DEF TypeOK, SpinExit, lines, locks, buffer, keyboard, Readers
<1>3. CASE Shift
  <2>1. (keyBuffEnd + Wrap - 1) % Wrap \in 0..(Wrap - 1)
    BY WrapAssumption DEF TypeOK
  <2>2. keyBuff' \in [0..Wrap -> Char]
    BY <1>3, WrapAssumption DEF TypeOK, Shift
  <2> QED
    BY <1>3, <2>1, <2>2 DEF TypeOK, Shift, lines, locks, keyboard, Readers
<1>4. CASE Return
  <2>1. keyBuff[0] \in Char
    BY WrapAssumption DEF TypeOK
  <2> QED
    BY <1>4, <2>1 DEF TypeOK, Return, lines, locks, buffer, keyboard, Readers
<1> QED
  BY <1>1, <1>2, <1>3, <1>4 DEF Getchar

\* Every variable always has its type: in particular keyBuffEnd never leaves
\* keyBuff, neither when it wraps nor when getchar_int() takes it below 0.
THEOREM TypeCorrect == Spec => []TypeOK
<1>1. Init => TypeOK
  BY InitTypeOK
<1>2. TypeOK /\ [Next]_vars => TypeOK'
  <2> SUFFICES ASSUME TypeOK, [Next]_vars
               PROVE  TypeOK'
    OBVIOUS
  <2>1. CASE UNCHANGED vars
    BY <2>1 DEF TypeOK, vars, lines, locks, buffer, keyboard
  <2>2. CASE Next
    BY <2>2, KeyTypeOK, ReaderTypeOK DEF Next
  <2> QED
    BY <2>1, <2>2
<1> QED
  BY <1>1, <1>2, PTL DEF Spec

-----------------------------------------------------------------------------
(* No key is lost, repeated or reordered *)

LEMMA InitInOrder == Init => KeysInOrder
  BY DEF Init, KeysInOrder, InFlight

LEMMA KeyInOrder ==
  ASSUME TypeOK, KeysInOrder, KeyEvent
  PROVE  KeysInOrder'
<1>1. PICK k \in Keys : Press(k) \/ Release(k) \/ Repeat(k)
  BY DEF KeyEvent, Key
<1>2. PICK code \in {k, Up(k)} : keyboard_handler(code)
  BY <1>1 DEF Press, Release, Repeat
<1>3. UNCHANGED <<rd, delivered>>
  BY DEF KeyEvent
<1>4. CASE UNCHANGED <<keyBuff, keyBuffEnd, typed, overrun>>
  BY <1>3, <1>4 DEF KeysInOrder, InFlight
<1>5. CASE \E c \in Char : Buffer(c)
  <2> SUFFICES ASSUME ~overrun'
               PROVE  KeysInOrder'
    BY DEF KeysInOrder
  <2>1. PICK c \in Char : Buffer(c)
    BY <1>5
  <2>2. /\ ~overrun /\ keyBuffEnd' = keyBuffEnd + 1
        /\ Len(typed') = Len(typed) + 1
        /\ \A n \in 1..Len(typed) : typed'[n] = typed[n]
        /\ typed'[Len(typed) + 1] = c
        /\ \A n \in 0..keyBuffEnd : keyBuff'[n] = keyBuff[n]
        /\ keyBuff'[keyBuffEnd + 1] = c
    BY <2>1, BufferStep
  <2>3. /\ keyBuffEnd \in Nat /\ Len(delivered) \in Nat /\ Len(typed) \in Nat
        /\ InFlight \in 0..1 /\ InFlight' = InFlight
        /\ Len(typed) = Len(delivered) + InFlight + keyBuffEnd
    BY <1>3, <2>2, WrapAssumption DEF TypeOK, KeysInOrder, InFlight
  <2>4. /\ Len(typed') = Len(delivered') + InFlight' + keyBuffEnd'
        /\ \A n \in 1..Len(delivered') : delivered'[n] = typed'[n]
        /\ rd' = "cli" => keyBuffEnd' > 0
    BY <1>3, <2>2, <2>3 DEF KeysInOrder
  <2>5. rd' = "sti" => keyBuff'[0] = typed'[Len(delivered') + 1]
    BY <1>3, <2>2, <2>3 DEF KeysInOrder, InFlight
  <2>6. ASSUME NEW n \in 1..keyBuffEnd'
        PROVE  keyBuff'[n] = typed'[Len(delivered') + InFlight' + n]
    <3>1. CASE n = keyBuffEnd + 1
      BY <1>3, <2>2, <2>3, <3>1
    <3>2. CASE n \in 1..keyBuffEnd
      <4>1. Len(delivered) + InFlight + n \in 1..Len(typed)
        BY <2>3, <3>2
      <4>2. keyBuff[n] = typed[Len(delivered) + InFlight + n]
        BY <2>2, <3>2 DEF KeysInOrder
      <4> QED
        BY <1>3, <2>2, <2>3, <3>2, <4>1, <4>2
    <3> QED
      BY <2>2, <2>3, <2>6, <3>1, <3>2
  <2> QED
    BY <2>4, <2>5, <2>6 DEF KeysInOrder
<1> QED
  BY <1>2, <1>4, <1>5, HandlerStep

LEMMA ShiftInOrder ==
  ASSUME TypeOK, KeysInOrder, Shift
  PROVE  KeysInOrder'
<1> SUFFICES ASSUME ~overrun'
             PROVE  KeysInOrder'
  BY DEF KeysInOrder
<1>1. /\ ~overrun /\ keyBuffEnd > 0 /\ keyBuffEnd \in Nat /\ keyBuffEnd < Wrap
      /\ InFlight = 0 /\ InFlight' = 1
      /\ Len(typed) = Len(delivered) + keyBuffEnd
      /\ UNCHANGED <<typed, delivered>>
  BY WrapAssumption DEF TypeOK, KeysInOrder, Shift, InFlight
<1>2. (keyBuffEnd + Wrap - 1) % Wrap = keyBuffEnd - 1
  <2>1. keyBuffEnd + Wrap - 1 = (keyBuffEnd - 1) + Wrap /\ keyBuffEnd - 1 \in 0..(Wrap - 1)
    BY <1>1, WrapAssumption
  <2> QED
    BY <1>1, <2>1, WrapAssumption
<1>3. keyBuffEnd' = keyBuffEnd - 1
  BY <1>2 DEF Shift
<1>4. \A n \in 0..(keyBuffEnd - 1) : keyBuff'[n] = keyBuff[n + 1]
  BY <1>1, WrapAssumption DEF Shift
<1>5. \A n \in 1..keyBuffEnd : keyBuff[n] = typed[Len(delivered) + n]
  BY <1>1 DEF KeysInOrder
<1>6. Len(delivered) \in Nat
  BY DEF TypeOK
<1>7. keyBuff'[0] = typed'[Len(delivered') + 1]
  BY <1>1, <1>4, <1>5
<1>8. ASSUME NEW n \in 1..keyBuffEnd'
      PROVE  keyBuff'[n] = typed'[Len(delivered') + InFlight' + n]
  <2>1. n \in 0..(keyBuffEnd - 1) /\ n + 1 \in 1..keyBuffEnd
    BY <1>1, <1>3
  <2>2. keyBuff'[n] = typed[Len(delivered) + (n + 1)]
    BY <1>4, <1>5, <2>1
  <2> QED
    BY <1>1, <1>6, <2>1, <2>2
<1>9. \A n \in 1..Len(delivered') : delivered'[n] = typed'[n]
  BY <1>1 DEF KeysInOrder
<1>10. rd' = "sti"
  BY DEF Shift
<1>11. Len(typed') = Len(delivered') + InFlight' + keyBuffEnd'
  BY <1>1, <1>3, <1>6
<1> QED
  BY <1>7, <1>8, <1>9, <1>10, <1>11 DEF KeysInOrder

LEMMA ReturnInOrder ==
  ASSUME TypeOK, KeysInOrder, Return
  PROVE  KeysInOrder'
<1> SUFFICES ASSUME ~overrun'
             PROVE  KeysInOrder'
  BY DEF KeysInOrder
<1>1. /\ ~overrun /\ rd = "sti" /\ rd' = "away"
      /\ InFlight = 1 /\ InFlight' = 0
      /\ UNCHANGED <<typed, keyBuff, keyBuffEnd>>
  BY DEF Return, buffer, InFlight
<1>2. keyBuffEnd \in Nat /\ Len(delivered) \in Nat /\ Len(typed) \in Nat
  BY WrapAssumption DEF TypeOK
<1>3. /\ Len(delivered') = Len(delivered) + 1
      /\ \A n \in 1..Len(delivered) : delivered'[n] = delivered[n]
      /\ delivered'[Len(delivered) + 1] = keyBuff[0]
  BY DEF TypeOK, Return
<1>4. Len(typed) = Len(delivered) + 1 + keyBuffEnd
  BY <1>1 DEF KeysInOrder
<1>5. \A n \in 1..Len(delivered') : delivered'[n] = typed'[n]
  BY <1>1, <1>2, <1>3 DEF KeysInOrder
<1>6. \A n \in 1..keyBuffEnd' : keyBuff'[n] = typed'[Len(delivered') + InFlight' + n]
  BY <1>1, <1>2, <1>3 DEF KeysInOrder
<1> QED
  BY <1>1, <1>2, <1>3, <1>4, <1>5, <1>6 DEF KeysInOrder

\* Until keyBuffEnd wraps, what was typed is what getchar_int() has returned,
\* the character in flight and the buffer, in that order: for every number of
\* keys, every size of buffer and every interleaving of IRQ 1 with the reader.
THEOREM NoKeyLost == Spec => []KeysInOrder
<1>1. Init => KeysInOrder
  BY InitInOrder
<1>2. TypeOK /\ KeysInOrder /\ [Next]_vars => KeysInOrder'
  <2> SUFFICES ASSUME TypeOK, KeysInOrder, [Next]_vars
               PROVE  KeysInOrder'
    OBVIOUS
  <2>1. CASE UNCHANGED vars
    BY <2>1 DEF KeysInOrder, InFlight, vars, buffer
  <2>2. CASE KeyEvent
    BY <2>2, KeyInOrder
  <2>3. CASE Call
    BY <2>3 DEF KeysInOrder, InFlight, Call, buffer
  <2>4. CASE SpinExit
    BY <2>4, WrapAssumption DEF KeysInOrder, InFlight, SpinExit, buffer, TypeOK
  <2>5. CASE Shift
    BY <2>5, ShiftInOrder
  <2>6. CASE Return
    BY <2>6, ReturnInOrder
  <2> QED
    BY <2>1, <2>2, <2>3, <2>4, <2>5, <2>6 DEF Next, Getchar
<1> QED
  BY <1>1, <1>2, TypeCorrect, PTL DEF Spec

-----------------------------------------------------------------------------
(* No more characters are read than were typed *)

\* Even where keyBuffEnd wraps: the reader gets back at most what the handler has
\* lost.  A shift at 0 is only possible when it wrapped behind the spin loop.
Counted ==
  /\ Len(delivered) + InFlight + keyBuffEnd <= Len(typed)
  /\ rd = "cli" /\ keyBuffEnd = 0 => Len(delivered) + Wrap <= Len(typed)
  /\ Len(typed) <= KeyLimit

LEMMA KeyCounted ==
  ASSUME TypeOK, Counted, KeyEvent
  PROVE  Counted'
<1>0. PICK k \in Keys : Press(k) \/ Release(k) \/ Repeat(k)
  BY DEF KeyEvent, Key
<1>1. PICK code \in {k, Up(k)} : keyboard_handler(code)
  BY <1>0 DEF Press, Release, Repeat
<1>2. rd' = rd /\ delivered' = delivered /\ InFlight' = InFlight
  BY DEF KeyEvent, InFlight
<1>3. CASE UNCHANGED <<keyBuff, keyBuffEnd, typed, overrun>>
  BY <1>2, <1>3 DEF Counted
<1>4. ASSUME NEW c \in Char, Buffer(c), ~ UNCHANGED <<keyBuff, keyBuffEnd, typed, overrun>>
      PROVE  Counted'
  <2>1. Len(typed) < KeyLimit
    BY <1>1, <1>4 DEF keyboard_handler, buffer
  <2>2. keyBuffEnd' = (keyBuffEnd + 1) % Wrap /\ Len(typed') = Len(typed) + 1
    BY <1>4 DEF Buffer, TypeOK
  <2>3. Len(typed) \in Nat /\ Len(delivered) \in Nat /\ InFlight \in {0, 1}
        /\ keyBuffEnd \in 0..(Wrap - 1) /\ Wrap \in Nat /\ Wrap > 1
    BY WrapAssumption DEF TypeOK, InFlight
  <2>4. IF keyBuffEnd = Wrap - 1 THEN keyBuffEnd' = 0 ELSE keyBuffEnd' = keyBuffEnd + 1
    BY <2>2, <2>3
  <2>5. Len(typed') <= KeyLimit
    BY <2>1, <2>2, <2>3, LimitAssumption
  <2>6. rd = "cli" => InFlight = 0
    BY DEF InFlight
  <2>7. Len(delivered) + InFlight + keyBuffEnd <= Len(typed)
    BY DEF Counted
  <2>8. Len(delivered') + InFlight' + keyBuffEnd' <= Len(typed')
    BY <1>2, <2>2, <2>3, <2>4, <2>7
  <2>9. rd' = "cli" /\ keyBuffEnd' = 0 => Len(delivered') + Wrap <= Len(typed')
    BY <1>2, <2>2, <2>3, <2>4, <2>6, <2>7
  <2> QED
    BY <2>5, <2>8, <2>9 DEF Counted
<1> QED
  BY <1>1, <1>3, <1>4, HandlerStep

LEMMA ReaderCounted ==
  ASSUME TypeOK, Counted, Call \/ Getchar
  PROVE  Counted'
<1>1. Len(typed) \in Nat /\ Len(delivered) \in Nat
      /\ keyBuffEnd \in 0..(Wrap - 1) /\ Wrap \in Nat /\ Wrap > 1
  BY WrapAssumption DEF TypeOK
<1>2. CASE Call
  BY <1>2 DEF Counted, Call, InFlight, buffer
<1>3. CASE SpinExit
  BY <1>1, <1>3 DEF Counted, SpinExit, InFlight, buffer
<1>4. CASE Shift
  <2>1. /\ rd = "cli" /\ rd' = "sti" /\ InFlight = 0 /\ InFlight' = 1
        /\ UNCHANGED <<typed, delivered>>
        /\ keyBuffEnd' = (keyBuffEnd + Wrap - 1) % Wrap
    BY <1>4 DEF Shift, InFlight
  <2>2. IF keyBuffEnd = 0 THEN keyBuffEnd' = Wrap - 1 ELSE keyBuffEnd' = keyBuffEnd - 1
    <3>1. CASE keyBuffEnd = 0
      <4>1. keyBuffEnd + Wrap - 1 \in 0..(Wrap - 1)
        BY <1>1, <3>1
      <4> QED
        BY <1>1, <2>1, <3>1, <4>1
    <3>2. CASE keyBuffEnd # 0
      <4>1. keyBuffEnd + Wrap - 1 = (keyBuffEnd - 1) + Wrap /\ keyBuffEnd - 1 \in 0..(Wrap - 1)
        BY <1>1, <3>2
      <4> QED
        BY <1>1, <2>1, <3>2, <4>1
    <3> QED
      BY <3>1, <3>2
  <2>3. CASE keyBuffEnd = 0
    BY <1>1, <2>1, <2>2, <2>3 DEF Counted
  <2>4. CASE keyBuffEnd # 0
    BY <1>1, <2>1, <2>2, <2>4 DEF Counted
  <2> QED
    BY <2>3, <2>4
<1>5. CASE Return
  <2>1. /\ InFlight = 1 /\ InFlight' = 0 /\ rd' = "away"
        /\ UNCHANGED <<typed, keyBuffEnd>> /\ Len(delivered') = Len(delivered) + 1
    BY <1>5 DEF Return, InFlight, buffer, TypeOK
  <2> QED
    BY <1>1, <2>1 DEF Counted
<1> QED
  BY <1>2, <1>3, <1>4, <1>5 DEF Getchar

-----------------------------------------------------------------------------
(* Only keys that were typed are returned, overrun or not *)

Typed(c) == \E m \in 1..Len(typed) : c = typed[m]

\* When keyBuffEnd wraps, the handler has filled every index it can reach, and
\* keyBuff[Wrap], which nothing writes, is never shifted in.
FullOfTyped == overrun => \A n \in 0..(Wrap - 1) : Typed(keyBuff[n])

\* Before the overrun, KeysInOrder says what is typed; FullOfTyped does after.
\* The second half of OnlyTypedKeys; Counted has the first.
TypedKeys == \A n \in 1..Len(delivered) : \E m \in 1..Len(typed) : delivered[n] = typed[m]

TypedInv == TypeOK /\ KeysInOrder /\ FullOfTyped /\ TypedKeys

\* Before the overrun the entries that can be read hold typed characters.
LEMMA InBufferTyped ==
  ASSUME TypedInv
  PROVE  /\ \A n \in 1..keyBuffEnd : Typed(keyBuff[n])
         /\ rd = "sti" => Typed(keyBuff[0])
<1>1. CASE overrun
  BY <1>1, WrapAssumption DEF TypedInv, FullOfTyped, TypeOK
<1>2. CASE ~overrun
  <2>1. /\ Len(typed) \in Nat /\ Len(delivered) \in Nat /\ keyBuffEnd \in Nat
        /\ InFlight \in 0..1 /\ (rd = "sti" => InFlight = 1)
        /\ Len(typed) = Len(delivered) + InFlight + keyBuffEnd
    BY <1>2, WrapAssumption DEF TypedInv, TypeOK, KeysInOrder, InFlight
  <2>2. rd = "sti" => /\ keyBuff[0] = typed[Len(delivered) + 1]
                      /\ Len(delivered) + 1 \in 1..Len(typed)
    BY <1>2, <2>1 DEF TypedInv, KeysInOrder
  <2>3. ASSUME NEW n \in 1..keyBuffEnd
        PROVE  /\ keyBuff[n] = typed[Len(delivered) + InFlight + n]
               /\ Len(delivered) + InFlight + n \in 1..Len(typed)
    BY <1>2, <2>1 DEF TypedInv, KeysInOrder
  <2> QED
    BY <2>2, <2>3 DEF Typed
<1> QED
  BY <1>1, <1>2 DEF TypedInv, TypeOK

LEMMA KeyTyped ==
  ASSUME TypedInv, KeyEvent
  PROVE  FullOfTyped' /\ TypedKeys'
<1>1. PICK k \in Keys : Press(k) \/ Release(k) \/ Repeat(k)
  BY DEF KeyEvent, Key
<1>2. PICK code \in {k, Up(k)} : keyboard_handler(code)
  BY <1>1 DEF Press, Release, Repeat
<1>3. UNCHANGED <<rd, delivered>>
  BY DEF KeyEvent
<1>4. CASE UNCHANGED <<keyBuff, keyBuffEnd, typed, overrun>>
  BY <1>3, <1>4 DEF TypedInv, FullOfTyped, TypedKeys, Typed
<1>5. CASE \E c \in Char : Buffer(c)
  <2>1. PICK c \in Char : Buffer(c)
    BY <1>5
  <2> DEFINE end == (keyBuffEnd + 1) % Wrap
  <2>2. /\ end \in 0..(Wrap - 1) /\ keyBuffEnd \in 0..(Wrap - 1)
        /\ end = 0 => keyBuffEnd = Wrap - 1
    BY WrapAssumption DEF TypedInv, TypeOK
  <2>3. /\ keyBuff' = [keyBuff EXCEPT ![end] = c] /\ keyBuff \in [0..Wrap -> Char]
        /\ typed' = Append(typed, c) /\ typed \in Seq(Char)
        /\ overrun' = (overrun \/ end = 0)
    BY <2>1 DEF Buffer, TypedInv, TypeOK
  <2> HIDE DEF end
  <2>4. /\ Len(typed) \in Nat /\ Len(typed') = Len(typed) + 1
        /\ \A m \in 1..Len(typed) : typed'[m] = typed[m]
        /\ typed'[Len(typed) + 1] = c
    BY <2>3
  <2>5. Typed(c)' /\ \A d \in Char : Typed(d) => Typed(d)'
    BY <2>4 DEF Typed
  <2>6. TypedKeys'
    BY <1>3, <2>4 DEF TypedInv, TypedKeys
  <2>7. ASSUME overrun', NEW n \in 0..(Wrap - 1)
        PROVE  Typed(keyBuff[n])'
    <3>1. CASE n = end
      BY <2>3, <2>4, <3>1, WrapAssumption DEF Typed
    <3>2. CASE n # end
      <4>1. keyBuff'[n] = keyBuff[n] /\ keyBuff[n] \in Char
        BY <2>2, <2>3, <3>2, WrapAssumption
      <4>2. Typed(keyBuff[n])
        BY <2>2, <2>3, <2>7, <3>2, InBufferTyped, WrapAssumption DEF TypedInv, FullOfTyped
      <4> QED
        BY <2>4, <4>1, <4>2 DEF Typed
    <3> QED
      BY <3>1, <3>2
  <2> QED
    BY <2>6, <2>7 DEF FullOfTyped
<1> QED
  BY <1>2, <1>4, <1>5, HandlerStep DEF TypedInv

LEMMA ShiftTyped ==
  ASSUME TypedInv, Shift
  PROVE  FullOfTyped' /\ TypedKeys'
<1>1. UNCHANGED <<typed, delivered, overrun>> /\ keyBuffEnd \in 0..(Wrap - 1)
  BY DEF Shift, TypedInv, TypeOK
<1>2. \A n \in 0..Wrap : keyBuff'[n] = IF n < keyBuffEnd THEN keyBuff[n + 1] ELSE keyBuff[n]
  BY DEF Shift
<1>3. ASSUME overrun, NEW n \in 0..(Wrap - 1)
      PROVE  Typed(keyBuff[n])'
  <2>1. \E j \in 0..(Wrap - 1) : keyBuff'[n] = keyBuff[j]
    BY <1>1, <1>2, WrapAssumption
  <2> QED
    BY <1>1, <1>3, <2>1 DEF TypedInv, FullOfTyped, Typed
<1> QED
  BY <1>1, <1>3 DEF TypedInv, FullOfTyped, TypedKeys

LEMMA ReturnTyped ==
  ASSUME TypedInv, Return
  PROVE  FullOfTyped' /\ TypedKeys'
<1>1. rd = "sti" /\ UNCHANGED <<typed, keyBuff, overrun>>
  BY DEF Return, buffer
<1>2. Typed(keyBuff[0])
  BY <1>1, InBufferTyped
<1>3. /\ Len(delivered) \in Nat /\ Len(delivered') = Len(delivered) + 1
      /\ \A n \in 1..Len(delivered) : delivered'[n] = delivered[n]
      /\ delivered'[Len(delivered) + 1] = keyBuff[0]
  BY DEF TypedInv, TypeOK, Return
<1>4. FullOfTyped'
  BY <1>1 DEF TypedInv, FullOfTyped, Typed
<1>5. TypedKeys'
  <2>1. ASSUME NEW n \in 1..Len(delivered')
        PROVE  \E m \in 1..Len(typed) : delivered'[n] = typed[m]
    <3>1. CASE n \in 1..Len(delivered)
      BY <1>3, <3>1 DEF TypedInv, TypedKeys
    <3>2. CASE n = Len(delivered) + 1
      BY <1>2, <1>3, <3>2 DEF Typed
    <3> QED
      BY <1>3, <3>1, <3>2
  <2> QED
    BY <1>1, <2>1 DEF TypedKeys
<1> QED
  BY <1>4, <1>5

\* getchar_int() returns only characters that were typed, and no more of them than
\* were, even when keyBuffEnd has wrapped and has underflowed after it: for every
\* size of the buffer, no byte the handler did not write is ever returned.
THEOREM NothingMadeUp == Spec => []OnlyTypedKeys
<1>1. Init => FullOfTyped /\ TypedKeys
  BY DEF Init, FullOfTyped, TypedKeys
<1>2. TypedInv /\ [Next]_vars => (FullOfTyped /\ TypedKeys)'
  <2> SUFFICES ASSUME TypedInv, [Next]_vars
               PROVE  (FullOfTyped /\ TypedKeys)'
    OBVIOUS
  <2>1. CASE UNCHANGED vars \/ Call \/ SpinExit
    <3>1. UNCHANGED <<keyBuff, typed, delivered, overrun>>
      BY <2>1 DEF vars, buffer, Call, SpinExit
    <3> QED
      BY <3>1 DEF TypedInv, FullOfTyped, TypedKeys, Typed
  <2>2. CASE KeyEvent
    BY <2>2, KeyTyped
  <2>3. CASE Shift
    BY <2>3, ShiftTyped
  <2>4. CASE Return
    BY <2>4, ReturnTyped
  <2> QED
    BY <2>1, <2>2, <2>3, <2>4 DEF Next, Getchar
<1>3. Init => Counted
  BY LimitAssumption, WrapAssumption DEF Init, Counted, InFlight
<1>4. TypeOK /\ Counted /\ [Next]_vars => Counted'
  <2> SUFFICES ASSUME TypeOK, Counted, [Next]_vars
               PROVE  Counted'
    OBVIOUS
  <2>1. CASE UNCHANGED vars
    BY <2>1 DEF vars, buffer, Counted, InFlight
  <2> QED
    BY <2>1, KeyCounted, ReaderCounted DEF Next
<1>5. TypeOK /\ Counted /\ TypedKeys => OnlyTypedKeys
  <2> SUFFICES ASSUME TypeOK, Counted
               PROVE  Len(delivered) <= Len(typed)
    BY DEF OnlyTypedKeys, TypedKeys
  <2>1. /\ Len(delivered) \in Nat /\ Len(typed) \in Nat /\ keyBuffEnd \in Nat /\ InFlight \in Nat
        /\ Len(delivered) + InFlight + keyBuffEnd <= Len(typed)
    BY WrapAssumption DEF TypeOK, Counted, InFlight
  <2> QED
    BY <2>1
<1> QED
  BY <1>1, <1>2, <1>3, <1>4, <1>5, TypeCorrect, NoKeyLost, PTL DEF Spec, TypedInv

-----------------------------------------------------------------------------
(* The locks and the control lines follow the keys that are down *)

\* The shift line says that a shift is down, unless one of two was released; and
\* while no two locks have been down together specKeyUp says what is down, and each
\* lock has toggled once per press.
ShiftFollows == shift <=> held \cap Shifts # {} /\ ~lowered
LinesFollowKeys ==
  /\ ShiftFollows
  /\ ~chord => /\ specKeyUp <=> held \cap LockKeys = {}
               /\ \A j, k \in held \cap LockKeys : j = k
               /\ caps = capsPresses /\ num = numPresses

\* The rest of it, where it is claimed.
LocksFollow ==
  /\ specKeyUp <=> held \cap LockKeys = {}
  /\ \A j, k \in held \cap LockKeys : j = k
  /\ caps = capsPresses /\ num = numPresses

LEMMA KeyCodes ==
  /\ Shifts = {54, 42} /\ LockKeys = {58, 69, 70} /\ NoKey = 0
  /\ RShift = 54 /\ LShift = 42 /\ Control = 29 /\ Alt = 56
  /\ CapsKey = 58 /\ NumKey = 69 /\ ScrollKey = 70
  /\ SpecialKeys = {54, 42, 29, 56, 58, 69, 70}
  /\ \A k \in Keys : k \in {54, 42, 29, 56, 58, 69, 70, 2, 14, 16, 28, 57, 59}
  BY KeysAssumption DEF Shifts, LockKeys, NoKey, RShift, LShift, Control, Alt,
     CapsKey, NumKey, ScrollKey, SpecialKeys, CharKeys

LEMMA PressFollows ==
  ASSUME TypeOK, LinesFollowKeys, NEW k \in Keys, Press(k)
  PROVE  LinesFollowKeys'
<1> USE KeyCodes
<1>1. held' = held \cup {k} /\ k \notin held /\ kb_special(k)
  BY DEF Press, keyboard_handler
<1>2. ShiftFollows'
  <2>1. k \notin {Up(j) : j \in Shifts}
    BY DEF Up
  <2>2. shift' = IF k \in Shifts THEN TRUE ELSE shift
    BY <1>1, <2>1 DEF kb_special, ControlLine
  <2>3. lowered' = (lowered /\ k \notin Shifts)
    BY DEF Press
  <2>4. shift <=> held \cap Shifts # {} /\ ~lowered
    BY DEF LinesFollowKeys, ShiftFollows
  <2>5. CASE k \in Shifts
    BY <1>1, <2>2, <2>3, <2>5 DEF ShiftFollows
  <2>6. CASE k \notin Shifts
    <3>1. shift' = shift /\ (lowered' <=> lowered) /\ held' \cap Shifts = held \cap Shifts
      BY <1>1, <2>2, <2>3, <2>6
    <3> QED
      BY <2>4, <3>1 DEF ShiftFollows
  <2> QED
    BY <2>5, <2>6
<1>3. ASSUME ~chord'
      PROVE  LocksFollow'
  <2>1. ~chord /\ (k \in LockKeys => held \cap LockKeys = {})
    BY <1>3 DEF Press
  <2>2. /\ specKeyUp <=> held \cap LockKeys = {}
        /\ \A a, b \in held \cap LockKeys : a = b
        /\ caps = capsPresses /\ num = numPresses
    BY <2>1 DEF LinesFollowKeys
  <2>3. \A a, b \in held' \cap LockKeys : a = b
    BY <1>1, <2>1, <2>2
  <2>5. k \notin {Up(j) : j \in LockKeys}
    BY DEF Up
  <2>6. specKeyUp' <=> held' \cap LockKeys = {}
    <3>1. CASE k \in LockKeys
      BY <1>1, <2>1, <2>2, <2>5, <3>1 DEF kb_special, LockDown, LockUp, NoLock
    <3>2. CASE k \notin LockKeys
      BY <1>1, <2>2, <2>5, <3>2 DEF kb_special, LockDown, LockUp, NoLock, locks
    <3> QED
      BY <3>1, <3>2
  <2>7. caps' = capsPresses' /\ num' = numPresses'
    <3>1. CASE k \in LockKeys
      <4>1. LockDown(k)
        BY <1>1, <2>1, <2>2, <2>5, <3>1 DEF kb_special, LockUp, NoLock
      <4> QED
        BY <2>2, <3>1, <4>1 DEF LockDown, Press
    <3>2. CASE k \notin LockKeys
      BY <1>1, <2>2, <2>5, <3>2 DEF kb_special, LockDown, LockUp, NoLock, locks, Press
    <3> QED
      BY <3>1, <3>2
  <2> QED
    BY <2>3, <2>6, <2>7 DEF LocksFollow
<1> QED
  BY <1>2, <1>3 DEF LinesFollowKeys, LocksFollow

LEMMA ReleaseFollows ==
  ASSUME TypeOK, LinesFollowKeys, NEW k \in Keys, Release(k)
  PROVE  LinesFollowKeys'
<1> USE KeyCodes
<1>1. /\ k \in held /\ held' = held \ {k} /\ kb_special(Up(k))
      /\ UNCHANGED <<capsPresses, numPresses, chord>>
  BY DEF Release, keyboard_handler
<1>3. Up(k) = k + 128 /\ Up(k) \notin LockKeys /\ Up(k) \notin Shifts
  BY DEF Up
<1>4. /\ (Up(k) \in {Up(j) : j \in Shifts}) <=> k \in Shifts
      /\ (Up(k) \in {Up(j) : j \in LockKeys}) <=> k \in LockKeys
  BY DEF Up
<1>5. ShiftFollows'
  <2>1. shift' = IF k \in Shifts THEN FALSE ELSE shift
    BY <1>1, <1>3, <1>4 DEF kb_special, ControlLine
  <2>2. lowered' = IF k \in Shifts THEN held' \cap Shifts # {} ELSE lowered
    BY DEF Release
  <2>3. shift <=> held \cap Shifts # {} /\ ~lowered
    BY DEF LinesFollowKeys, ShiftFollows
  <2>4. CASE k \in Shifts
    BY <2>1, <2>2, <2>4 DEF ShiftFollows
  <2>5. CASE k \notin Shifts
    <3>1. shift' = shift /\ (lowered' <=> lowered) /\ held' \cap Shifts = held \cap Shifts
      BY <1>1, <2>1, <2>2, <2>5
    <3> QED
      BY <2>3, <3>1 DEF ShiftFollows
  <2> QED
    BY <2>4, <2>5
<1>6. ASSUME ~chord
      PROVE  LocksFollow'
  <2>1. /\ specKeyUp <=> held \cap LockKeys = {}
        /\ \A a, b \in held \cap LockKeys : a = b
        /\ caps = capsPresses /\ num = numPresses
    BY <1>6 DEF LinesFollowKeys
  <2>2. /\ caps' = caps /\ num' = num
        /\ specKeyUp' = IF k \in LockKeys THEN TRUE ELSE specKeyUp
    BY <1>1, <1>3, <1>4 DEF kb_special, LockDown, LockUp, NoLock, locks
  <2>3. specKeyUp' <=> held' \cap LockKeys = {}
    BY <1>1, <2>1, <2>2
  <2> QED
    BY <1>1, <2>1, <2>2, <2>3 DEF LocksFollow
<1> QED
  BY <1>1, <1>5, <1>6 DEF LinesFollowKeys, LocksFollow

LEMMA RepeatFollows ==
  ASSUME TypeOK, LinesFollowKeys, NEW k \in Keys, Repeat(k)
  PROVE  LinesFollowKeys'
<1> USE KeyCodes
<1>1. /\ k \in held /\ kb_special(k)
      /\ UNCHANGED <<held, capsPresses, numPresses, chord>>
  BY DEF TypeOK, Repeat, keyboard_handler
<1>2. ShiftFollows'
  <2>1. k \notin {Up(j) : j \in Shifts}
    BY DEF Up
  <2>2. shift' = IF k \in Shifts THEN TRUE ELSE shift
    BY <1>1, <2>1 DEF kb_special, ControlLine
  <2>3. lowered' = (lowered /\ k \notin Shifts)
    BY DEF Repeat
  <2>4. shift <=> held \cap Shifts # {} /\ ~lowered
    BY DEF LinesFollowKeys, ShiftFollows
  <2>5. CASE k \in Shifts
    BY <1>1, <2>2, <2>3, <2>5 DEF ShiftFollows
  <2>6. CASE k \notin Shifts
    <3>1. shift' = shift /\ (lowered' <=> lowered) /\ held' = held
      BY <1>1, <2>2, <2>3, <2>6
    <3> QED
      BY <2>4, <3>1 DEF ShiftFollows
  <2> QED
    BY <2>5, <2>6
<1>3. ASSUME ~chord
      PROVE  LocksFollow'
  <2>1. /\ specKeyUp <=> held \cap LockKeys = {}
        /\ \A a, b \in held \cap LockKeys : a = b
        /\ caps = capsPresses /\ num = numPresses
    BY <1>3 DEF LinesFollowKeys
  <2>2. k \notin {Up(j) : j \in LockKeys}
    BY DEF Up
  <2>3. UNCHANGED <<caps, num, specKeyUp>>
    BY <1>1, <2>1, <2>2 DEF kb_special, LockDown, LockUp, NoLock, locks
  <2> QED
    BY <1>1, <2>1, <2>3 DEF LocksFollow
<1> QED
  BY <1>1, <1>2, <1>3 DEF LinesFollowKeys, LocksFollow

LEMMA LinesInv == Spec => []LinesFollowKeys
<1>1. Init => LinesFollowKeys
  BY DEF Init, LinesFollowKeys, ShiftFollows
<1>2. TypeOK /\ LinesFollowKeys /\ [Next]_vars => LinesFollowKeys'
  <2> SUFFICES ASSUME TypeOK, LinesFollowKeys, [Next]_vars
               PROVE  LinesFollowKeys'
    OBVIOUS
  <2>1. CASE UNCHANGED vars \/ Call \/ Getchar
    BY <2>1 DEF LinesFollowKeys, ShiftFollows, vars, lines, locks, buffer, keyboard, Call,
       Getchar, SpinExit, Shift, Return
  <2>2. CASE KeyEvent
    BY <2>2, PressFollows, ReleaseFollows, RepeatFollows DEF KeyEvent, Key
  <2> QED
    BY <2>1, <2>2 DEF Next
<1> QED
  BY <1>1, <1>2, TypeCorrect, PTL DEF Spec

\* One press, one toggle: however long the lock key repeats, and whatever other
\* keys come between, a lock is what the presses of its key have made it.
THEOREM LocksToggleOnce == Spec => []LocksFollowPresses
  BY LinesInv, PTL DEF LinesFollowKeys, LocksFollowPresses

\* The four tables agree with what the keyboard says a key reads as.
LEMMA TableReads ==
  ASSUME NEW k \in CharKeys, NEW down \in BOOLEAN, NEW locked \in BOOLEAN
  PROVE  kbScanCodes[k][Section(down, locked)] = Reads(k, down, locked)
<1>1. CASE k = 16
  <2>1. kbScanCodes[k] = <<"q", "Q", "Q", "q">>
    BY <1>1 DEF kbScanCodes
  <2> QED
    BY <1>1, <2>1 DEF Section, Reads
<1>2. CASE k # 16
  <2>1. \A n \in {1, 3} : kbScanCodes[k][n] = kbScanCodes[k][1]
    BY <1>2 DEF kbScanCodes, CharKeys
  <2>2. \A n \in {2, 4} : kbScanCodes[k][n] = kbScanCodes[k][2]
    BY <1>2 DEF kbScanCodes, CharKeys
  <2> QED
    BY <1>2, <2>1, <2>2 DEF Section, Reads
<1> QED
  BY <1>1, <1>2 DEF CharKeys

\* Every character is buffered as the keys that are down and the presses of Caps
\* Lock say, at the moment of the interrupt; but small from when one of two shifts
\* goes up, though the other is down, until a shift goes down or repeats.  Nothing
\* is said once two lock keys have been down together.
THEOREM ReadsAsHeld == Spec => BufferedAsHeld
<1>1. TypeOK /\ LinesFollowKeys /\ [Next]_vars
        => [typed' # typed /\ ~chord =>
              typed'[Len(typed')] = Reads(repeating', held \cap Shifts # {} /\ ~lowered, capsPresses)]_vars
  <2> SUFFICES ASSUME TypeOK, LinesFollowKeys, Next, typed' # typed, ~chord
               PROVE  typed'[Len(typed')] = Reads(repeating', held \cap Shifts # {} /\ ~lowered, capsPresses)
    OBVIOUS
  <2>1. KeyEvent
    BY DEF Next, Call, Getchar, SpinExit, Shift, Return
  <2>2. PICK k \in Keys : Press(k) \/ Release(k) \/ Repeat(k)
    BY <2>1 DEF KeyEvent, Key
  <2>3. PICK code \in {k, Up(k)} : keyboard_handler(code) /\ (code = k => repeating' = k)
    <3>1. Up(k) # k
      BY KeyCodes DEF Up
    <3> QED
      BY <2>2, <3>1 DEF Press, Release, Repeat, keyboard
  <2>4. /\ code \notin SpecialKeys /\ ~(code >= 128)
        /\ typed' = Append(typed, kbScanCodes[code][Section(shift, caps)])
    BY <2>3 DEF keyboard_handler, Buffer
  <2>5. code = k /\ k \in CharKeys
    BY <2>3, <2>4, KeyCodes, KeysAssumption DEF Up, CharKeys
  <2>6. typed'[Len(typed')] = kbScanCodes[k][Section(shift, caps)]
    BY <2>4, <2>5 DEF TypeOK
  <2>7. shift = (held \cap Shifts # {} /\ ~lowered) /\ caps = capsPresses
    BY DEF LinesFollowKeys, ShiftFollows, TypeOK
  <2> QED
    BY <2>3, <2>5, <2>6, <2>7, TableReads DEF TypeOK
<1> QED
  BY <1>1, TypeCorrect, LinesInv, PTL DEF Spec, BufferedAsHeld

-----------------------------------------------------------------------------
(* Numbers and recursion *)

\* A set of numbers has a least one.
LEMMA LeastExists ==
  ASSUME NEW S, S \subseteq Nat, S # {}
  PROVE  Least(S) \in S /\ \A k \in S : Least(S) <= k
<1> DEFINE R == {ss \in Nat \X Nat : ss[1] < ss[2]}
<1>1. IsWellFoundedOn(R, Nat)
  BY NatLessThanWellFounded DEF OpToRel
<1> HIDE DEF R
<1>2. PICK x \in S : \A y \in S : ~ (<<y, x>> \in R)
  BY <1>1, WFMin
<1>3. ASSUME NEW y \in S
      PROVE  x <= y
  <2>1. ~ (y < x)
    BY <1>2 DEF R
  <2> QED
    BY <2>1
<1> QED
  BY <1>3 DEF Least

\* A set of numbers that has 0 and with each number the next has them all.
LEMMA Induct ==
  ASSUME NEW S, 0 \in S, \A n \in Nat : n \in S => n + 1 \in S
  PROVE  Nat \subseteq S
<1> DEFINE Out == Nat \ S
<1> SUFFICES ASSUME Out # {}
             PROVE  FALSE
  OBVIOUS
<1>1. Least(Out) \in Out /\ \A k \in Out : Least(Out) <= k
  BY LeastExists
<1>2. Least(Out) - 1 \in Nat /\ Least(Out) - 1 \notin Out
  BY <1>1
<1> QED
  BY <1>1, <1>2

\* What remains of a line without its last character.
Front(l) == SubSeq(l, 1, Len(l) - 1)

LEMMA FrontOf ==
  ASSUME NEW S, NEW l \in Seq(S), l # <<>>
  PROVE  /\ Front(l) \in Seq(S) /\ Len(Front(l)) = Len(l) - 1 /\ Len(l) >= 1
         /\ \A n \in 1..(Len(l) - 1) : Front(l)[n] = l[n]
<1>1. Len(l) \in Nat /\ Len(l) >= 1
  BY EmptySeq
<1>2. \A n \in 1..(Len(l) - 1) : l[n] \in S
  BY <1>1
<1>3. 1 \in Int /\ Len(l) - 1 \in Int
  BY <1>1
<1>4. /\ Front(l) \in Seq(S)
      /\ Len(Front(l)) = IF 1 <= Len(l) - 1 THEN Len(l) - 1 - 1 + 1 ELSE 0
      /\ \A n \in 1..(Len(l) - 1 - 1 + 1) : Front(l)[n] = l[1 + n - 1]
  BY <1>2, <1>3, SubSeqProperties DEF Front
<1>5. Len(Front(l)) = Len(l) - 1
  <2>1. CASE Len(l) = 1
    BY <1>4, <2>1
  <2>2. CASE Len(l) > 1
    BY <1>1, <1>4, <2>2
  <2>3. \A x \in Nat : x >= 1 => x = 1 \/ x > 1
    OBVIOUS
  <2> QED
    BY <1>1, <2>1, <2>2, <2>3, Zenon
<1>6. ASSUME NEW n \in 1..(Len(l) - 1)
      PROVE  Front(l)[n] = l[n]
  <2>1. n \in 1..(Len(l) - 1 - 1 + 1) /\ 1 + n - 1 = n
    BY <1>1
  <2> QED
    BY <1>4, <2>1
<1> QED
  BY <1>1, <1>4, <1>5, <1>6

LEMMA FrontOfAppend ==
  ASSUME NEW S, NEW l \in Seq(S), NEW c \in S
  PROVE  Front(Append(l, c)) = l
<1> DEFINE m == Append(l, c)
<1>0. m \in Seq(S) /\ m # <<>> /\ Len(m) = Len(l) + 1 /\ \A n \in 1..Len(l) : m[n] = l[n]
  BY AppendProperties
<1> HIDE DEF m
<1>1. Front(m) \in Seq(S) /\ Len(Front(m)) = Len(l)
  BY <1>0, FrontOf
<1>2. \A n \in 1..Len(l) : Front(m)[n] = l[n]
  BY <1>0, FrontOf
<1>3. Front(m) = l
  BY <1>1, <1>2, SeqEqual
<1> QED
  BY <1>3 DEF m

-----------------------------------------------------------------------------
(* What a line reads as *)

\* What one more character makes of a text.
Edit(text, c) ==
  IF c # Backspace THEN Append(text, c)
  ELSE IF text = <<>> THEN <<>> ELSE Front(text)

LEMMA EditType ==
  ASSUME NEW text \in Seq(Char), NEW c \in Char
  PROVE  /\ Edit(text, c) \in Seq(Char) /\ Len(Edit(text, c)) <= Len(text) + 1
         /\ \A n \in 1..Len(Edit(text, c)) :
              \/ n <= Len(text) /\ Edit(text, c)[n] = text[n]
              \/ n = Len(text) + 1 /\ Edit(text, c)[n] = c /\ c # Backspace
<1>1. CASE c # Backspace
  BY <1>1, AppendProperties DEF Edit
<1>2. CASE c = Backspace /\ text = <<>>
  BY <1>2 DEF Edit
<1>3. CASE c = Backspace /\ text # <<>>
  BY <1>3, FrontOf DEF Edit
<1> QED
  BY <1>1, <1>2, <1>3

\* There is a function that does this character by character.
LEMMA EditExists ==
  \E f \in [Seq(Char) -> Seq(Char)] :
     \A l \in Seq(Char) : f[l] = IF l = <<>> THEN <<>> ELSE Edit(f[Front(l)], l[Len(l)])
<1> DEFINE Body(f, l) == IF l = <<>> THEN <<>> ELSE Edit(f[Front(l)], l[Len(l)])
           Upto(n, f) == f \in [Seq(Char) -> Seq(Char)] /\ \A l \in Seq(Char) : Len(l) <= n => f[l] = Body(f, l)
           Good == {n \in Nat : \E f : Upto(n, f)}
           H(n) == CHOOSE f : Upto(n, f)
<1>0. \A f \in [Seq(Char) -> Seq(Char)], l \in Seq(Char) : Body(f, l) \in Seq(Char)
  <2> SUFFICES ASSUME NEW f \in [Seq(Char) -> Seq(Char)], NEW l \in Seq(Char), l # <<>>
               PROVE  Edit(f[Front(l)], l[Len(l)]) \in Seq(Char)
    OBVIOUS
  <2>1. f[Front(l)] \in Seq(Char) /\ l[Len(l)] \in Char
    BY FrontOf
  <2> QED
    BY <2>1, EditType
<1>1. 0 \in Good
  <2> DEFINE f == [l \in Seq(Char) |-> <<>>]
  <2>1. Upto(0, f)
    OBVIOUS
  <2> QED
    BY <2>1
<1>2. ASSUME NEW n \in Nat, n \in Good
      PROVE  n + 1 \in Good
  <2>1. PICK f : Upto(n, f)
    BY <1>2
  <2> DEFINE g == [l \in Seq(Char) |-> IF Len(l) <= n THEN f[l] ELSE Body(f, l)]
  <2>2. g \in [Seq(Char) -> Seq(Char)]
    BY <1>0, <2>1
  <2>3. ASSUME NEW l \in Seq(Char), Len(l) <= n + 1
        PROVE  g[l] = Body(g, l)
    <3>1. CASE l = <<>>
      BY <2>1, <3>1
    <3>2. CASE l # <<>>
      <4>1. Front(l) \in Seq(Char) /\ Len(Front(l)) <= n
        BY <2>3, <3>2, FrontOf
      <4>2. Body(g, l) = Body(f, l)
        BY <3>2, <4>1
      <4>3. g[l] = Body(f, l)
        BY <2>1
      <4> QED
        BY <4>2, <4>3
    <3> QED
      BY <3>1, <3>2
  <2>4. Upto(n + 1, g)
    BY <2>2, <2>3
  <2>5. \E h : Upto(n + 1, h)
    BY <2>4
  <2> HIDE DEF Upto
  <2> QED
    BY <2>5
<1>3. \A n \in Nat : Upto(n, H(n))
  BY <1>1, <1>2, Induct
<1> DEFINE Same == {k \in Nat : \A n, m \in Nat : \A l \in Seq(Char) :
                      k <= n /\ k <= m /\ Len(l) = k => H(n)[l] = H(m)[l]}
<1> HIDE DEF H
<1>4. 0 \in Same
  <2>1. ASSUME NEW n \in Nat, NEW m \in Nat, NEW l \in Seq(Char), Len(l) = 0
        PROVE  H(n)[l] = H(m)[l]
    <3>1. l = <<>>
      BY <2>1
    <3>2. Upto(n, H(n)) /\ Upto(m, H(m))
      BY <1>3
    <3> DEFINE b(h) == Body(h, l)
    <3>3. H(n)[l] = b(H(n)) /\ H(m)[l] = b(H(m))
      <4>1. Len(l) <= n /\ Len(l) <= m
        BY <2>1
      <4> HIDE DEF Body
      <4> QED
        BY <3>2, <4>1
    <3> QED
      BY <3>1, <3>3
  <2> QED
    BY <2>1
<1>5. ASSUME NEW k \in Nat, k \in Same
      PROVE  k + 1 \in Same
  <2> SUFFICES ASSUME NEW n \in Nat, NEW m \in Nat, NEW l \in Seq(Char),
                      k + 1 <= n, k + 1 <= m, Len(l) = k + 1
               PROVE  H(n)[l] = H(m)[l]
    OBVIOUS
  <2>1. Front(l) \in Seq(Char) /\ Len(Front(l)) = k /\ l # <<>>
    BY FrontOf
  <2>2. H(n)[Front(l)] = H(m)[Front(l)]
    BY <1>5, <2>1
  <2>3. H(n)[l] = Body(H(n), l) /\ H(m)[l] = Body(H(m), l)
    BY <1>3
  <2> QED
    BY <2>1, <2>2, <2>3
<1>6. Nat \subseteq Same
  <2> HIDE DEF Same
  <2> QED
    BY <1>4, <1>5, Induct
<1> DEFINE F == [l \in Seq(Char) |-> H(Len(l))[l]]
<1>7. F \in [Seq(Char) -> Seq(Char)]
  BY <1>3
<1>8. ASSUME NEW l \in Seq(Char)
      PROVE  F[l] = Body(F, l)
  <2>1. F[l] = Body(H(Len(l)), l)
    BY <1>3
  <2>2. CASE l = <<>>
    BY <2>1, <2>2
  <2>3. CASE l # <<>>
    <3>1. Front(l) \in Seq(Char) /\ Len(Front(l)) = Len(l) - 1 /\ Len(l) - 1 \in Nat
      BY <2>3, FrontOf
    <3>2. H(Len(l))[Front(l)] = H(Len(l) - 1)[Front(l)]
      BY <1>6, <3>1
    <3>3. F[Front(l)] = H(Len(l))[Front(l)]
      BY <3>1, <3>2
    <3> QED
      BY <2>1, <2>3, <3>3
  <2> QED
    BY <2>2, <2>3
<1> QED
  BY <1>7, <1>8

LEMMA EditedUnfolds ==
  /\ Edited \in [Seq(Char) -> Seq(Char)]
  /\ Edited[<<>>] = <<>>
  /\ \A l \in Seq(Char) : l # <<>> => Edited[l] = Edit(Edited[Front(l)], l[Len(l)])
<1> DEFINE Body(f, l) ==
      IF l = <<>> THEN <<>>
      ELSE LET before == f[SubSeq(l, 1, Len(l) - 1)] IN
           IF l[Len(l)] # Backspace THEN Append(before, l[Len(l)])
           ELSE IF before = <<>> THEN <<>> ELSE SubSeq(before, 1, Len(before) - 1)
<1>2. <<>> \in Seq(Char)
  OBVIOUS
<1>3. PICK f \in [Seq(Char) -> Seq(Char)] :
        \A l \in Seq(Char) : f[l] = IF l = <<>> THEN <<>> ELSE Edit(f[Front(l)], l[Len(l)])
  BY EditExists
<1>4. ASSUME NEW l \in Seq(Char), l # <<>>
      PROVE  f[l] = Edit(f[Front(l)], l[Len(l)])
  BY <1>3, <1>4
<1>5. ASSUME NEW l \in Seq(Char)
      PROVE  f[l] = Body(f, l)
  BY <1>3, <1>4 DEF Edit, Front
<1>6. f = [l \in Seq(Char) |-> Body(f, l)]
  BY <1>3, <1>5
<1> HIDE DEF Body
<1>7. Edited = [l \in Seq(Char) |-> Body(Edited, l)]
  <2>1. Edited = CHOOSE g : g = [l \in Seq(Char) |-> Body(g, l)]
    BY DEF Edited, Body
  <2> QED
    BY <1>6, <2>1
<1>8. \A l \in Seq(Char) : Edited[l] = Body(Edited, l)
  BY <1>7
<1> DEFINE Same == {n \in Nat : \A l \in Seq(Char) : Len(l) = n => Edited[l] = f[l]}
<1>9. 0 \in Same
  <2>1. ASSUME NEW l \in Seq(Char), Len(l) = 0
        PROVE  Edited[l] = f[l]
    <3>1. l = <<>>
      BY <2>1
    <3> QED
      BY <1>3, <1>8, <3>1 DEF Body
  <2> QED
    BY <2>1
<1>10. ASSUME NEW n \in Nat, n \in Same
       PROVE  n + 1 \in Same
  <2>1. ASSUME NEW l \in Seq(Char), Len(l) = n + 1
        PROVE  Edited[l] = f[l]
    <3>1. l # <<>> /\ Front(l) \in Seq(Char) /\ Len(Front(l)) = n
      BY <2>1, FrontOf
    <3>2. Edited[Front(l)] = f[Front(l)]
      BY <1>10, <3>1
    <3>3. Edited[l] = Body(Edited, l) /\ f[l] = Body(f, l)
      BY <1>5, <1>8
    <3> QED
      BY <3>1, <3>2, <3>3 DEF Body, Front
  <2> QED
    BY <2>1
<1>11. Nat \subseteq Same
  <2> HIDE DEF Same
  <2> QED
    BY <1>9, <1>10, Induct
<1>12. Edited = f
  BY <1>3, <1>7, <1>11
<1>13. f[<<>>] = <<>>
  BY <1>2, <1>3
<1> QED
  BY <1>4, <1>12, <1>13

-----------------------------------------------------------------------------
(* gets() returns the line *)

LEMMA PrefixOfAppend ==
  ASSUME NEW l \in Seq(Char), NEW c \in Char
  PROVE  /\ \A n \in 1..Len(l) : SubSeq(Append(l, c), 1, n - 1) = SubSeq(l, 1, n - 1)
         /\ SubSeq(Append(l, c), 1, Len(l)) = l
<1> DEFINE m == Append(l, c)
<1>1. m \in Seq(Char) /\ Len(m) = Len(l) + 1 /\ \A n \in 1..Len(l) : m[n] = l[n]
  BY AppendProperties
<1> HIDE DEF m
<1>2. Len(l) \in Nat
  OBVIOUS
<1>3. ASSUME NEW n \in 0..Len(l)
      PROVE  SubSeq(m, 1, n) = SubSeq(l, 1, n)
  <2>1. n \in Int /\ 1 \in Int /\ \A k \in 1..n : m[k] \in Char /\ l[k] \in Char /\ m[k] = l[k]
    BY <1>1, <1>2
  <2>2. /\ SubSeq(m, 1, n) \in Seq(Char) /\ SubSeq(l, 1, n) \in Seq(Char)
        /\ Len(SubSeq(m, 1, n)) = IF 1 <= n THEN n - 1 + 1 ELSE 0
        /\ Len(SubSeq(l, 1, n)) = IF 1 <= n THEN n - 1 + 1 ELSE 0
        /\ \A k \in 1..(n - 1 + 1) : SubSeq(m, 1, n)[k] = m[1 + k - 1]
        /\ \A k \in 1..(n - 1 + 1) : SubSeq(l, 1, n)[k] = l[1 + k - 1]
    BY <2>1, SubSeqProperties
  <2>3. \A k \in 1..Len(SubSeq(m, 1, n)) : SubSeq(m, 1, n)[k] = SubSeq(l, 1, n)[k]
    <3>1. ASSUME NEW k \in 1..n
          PROVE  SubSeq(m, 1, n)[k] = SubSeq(l, 1, n)[k]
      <4>1. k \in 1..(n - 1 + 1) /\ 1 + k - 1 = k
        BY <2>1
      <4> QED
        BY <2>1, <2>2, <4>1
    <3>2. n \in Nat => Len(SubSeq(m, 1, n)) = n
      BY <2>2
    <3> QED
      BY <1>2, <3>1, <3>2
  <2> QED
    BY <2>2, <2>3, SeqEqual
<1>4. ASSUME NEW n \in 1..Len(l)
      PROVE  SubSeq(m, 1, n - 1) = SubSeq(l, 1, n - 1)
  <2>1. n - 1 \in 0..Len(l)
    BY <1>2
  <2> QED
    BY <1>3, <2>1
<1>5. SubSeq(m, 1, Len(l)) = l
  <2>1. Len(l) \in 0..Len(l)
    BY <1>2
  <2> QED
    BY <1>3, <2>1, SubSeqFull
<1> QED
  BY <1>4, <1>5 DEF m

LEMMA DeletableAppend ==
  ASSUME NEW l \in Seq(Char), NEW c \in Char, Deletable(Append(l, c))
  PROVE  Deletable(l) /\ (c = Backspace => Edited[l] # <<>>)
<1> DEFINE m == Append(l, c)
<1>1. /\ Len(m) = Len(l) + 1 /\ m[Len(l) + 1] = c /\ Len(l) \in Nat
      /\ \A n \in 1..Len(l) : m[n] = l[n] /\ n \in 1..(Len(l) + 1)
  BY AppendProperties
<1>2. \A n \in 1..Len(l) : SubSeq(m, 1, n - 1) = SubSeq(l, 1, n - 1)
  BY PrefixOfAppend
<1>3. SubSeq(m, 1, Len(l)) = l
  BY PrefixOfAppend
<1>4. \A n \in 1..(Len(l) + 1) : m[n] = Backspace => Edited[SubSeq(m, 1, n - 1)] # <<>>
  BY <1>1 DEF Deletable
<1> HIDE DEF m
<1>5. Deletable(l)
  <2>1. ASSUME NEW n \in 1..Len(l), l[n] = Backspace
        PROVE  Edited[SubSeq(l, 1, n - 1)] # <<>>
    BY <1>1, <1>2, <1>4, <2>1
  <2> QED
    BY <2>1 DEF Deletable
<1>6. ASSUME c = Backspace
      PROVE  Edited[l] # <<>>
  <2>1. Len(l) + 1 \in 1..(Len(l) + 1) /\ Len(l) + 1 - 1 = Len(l)
    BY <1>1
  <2>2. m[Len(l) + 1] = Backspace
    BY <1>1, <1>6
  <2>3. Edited[SubSeq(m, 1, Len(l) + 1 - 1)] # <<>>
    BY <1>4, <2>1, <2>2
  <2> QED
    BY <1>3, <2>1, <2>3
<1> QED
  BY <1>5, <1>6

LEMMA EditedAppend ==
  ASSUME NEW l \in Seq(Char), NEW c \in Char
  PROVE  Append(l, c) \in Seq(Char) /\ Edited[Append(l, c)] = Edit(Edited[l], c)
<1>1. Append(l, c) \in Seq(Char) /\ Append(l, c) # <<>> /\ Len(Append(l, c)) = Len(l) + 1
      /\ Append(l, c)[Len(l) + 1] = c
  BY AppendProperties
<1>2. Front(Append(l, c)) = l
  BY FrontOfAppend
<1> QED
  BY <1>1, <1>2, EditedUnfolds

\* The text of the line so far.
Text == Edited[line]

GetsTypes ==
  /\ asked \in BOOLEAN /\ i \in Int /\ s \in [Memory -> Char \cup {Garbage}]
  /\ line \in Seq(Char) /\ outcome \in {"none", "null", "string"}
  /\ rd # "away" => asked
  /\ asked => outcome = "none"

\* The text is in the array, up to where gets() is, and short enough for it.
LineKept ==
  /\ Len(line) <= Len(delivered)
  /\ outcome = "string" => Len(line) < Len(delivered)
  /\ Len(Text) <= Len(line)
  /\ \A n \in 1..Len(Text) : Text[n] \notin {NUL, Backspace}
  /\ asked /\ Deletable(line) =>
       i = Len(Text) - 1 /\ \A n \in 1..Len(Text) : s[n - 1] = Text[n]

GetsInv == TypeOK /\ Counted /\ GetsTypes /\ LineKept /\ ReturnsTheLine

LEMMA TextType ==
  ASSUME GetsTypes
  PROVE  Text \in Seq(Char)
  BY EditedUnfolds DEF GetsTypes, Text

LEMMA InMemory ==
  ASSUME NEW n \in Nat, n <= KeyLimit
  PROVE  n \in Memory
  BY LimitAssumption DEF Memory

\* A character that returns while gets() runs leaves room in the array.
LEMMA RoomInMemory ==
  ASSUME GetsInv, Return
  PROVE  /\ asked /\ Len(line) \in Nat /\ Len(line) < KeyLimit
         /\ Len(Text) \in Nat /\ Len(Text) <= Len(line)
         /\ Len(delivered') = Len(delivered) + 1 /\ Len(delivered) \in Nat
         /\ keyBuff[0] \in Char
<1>1. rd = "sti" /\ InFlight = 1 /\ Len(delivered') = Len(delivered) + 1
      /\ Len(delivered) \in Nat /\ Len(typed) \in Nat /\ keyBuffEnd \in Nat
      /\ keyBuff[0] \in Char
  BY WrapAssumption DEF GetsInv, TypeOK, Return, InFlight
<1>2. asked /\ Len(line) \in Nat
  BY <1>1 DEF GetsInv, GetsTypes
<1>3. Len(Text) \in Nat
  BY TextType DEF GetsInv
<1>4. /\ Len(line) <= Len(delivered) /\ Len(Text) <= Len(line)
      /\ Len(delivered) + InFlight + keyBuffEnd <= Len(typed) /\ Len(typed) <= KeyLimit
  BY DEF GetsInv, LineKept, Counted
<1>5. Len(line) < KeyLimit
  BY <1>1, <1>2, <1>4, LimitAssumption
<1> QED
  BY <1>1, <1>2, <1>3, <1>4, <1>5

LEMMA NothingLine ==
  ASSUME GetsInv, Return, GetsNothing(keyBuff[0])
  PROVE  GetsTypes' /\ LineKept' /\ ReturnsTheLine'
<1>1. /\ asked' = FALSE /\ outcome' = "null" /\ UNCHANGED <<i, s, line>> /\ rd' = "away"
  BY DEF GetsNothing, Return
<1>2. GetsTypes'
  BY <1>1 DEF GetsInv, GetsTypes
<1>3. LineKept'
  BY <1>1, RoomInMemory DEF GetsInv, LineKept, Text
<1>4. ReturnsTheLine'
  BY <1>1 DEF ReturnsTheLine
<1> QED
  BY <1>2, <1>3, <1>4

LEMMA NewlineLine ==
  ASSUME GetsInv, Return, GetsNewline(keyBuff[0])
  PROVE  GetsTypes' /\ LineKept' /\ ReturnsTheLine'
<1>1. /\ asked' = FALSE /\ outcome' = "string" /\ UNCHANGED <<i, line>> /\ rd' = "away"
      /\ s' = [s EXCEPT ![i + 1] = NUL]
  BY DEF GetsNewline, Return
<1>2. GetsTypes'
  <2>1. s \in [Memory -> Char \cup {Garbage}] /\ NUL \in Char
    BY DEF GetsInv, GetsTypes, Char
  <2>2. s' \in [Memory -> Char \cup {Garbage}]
    BY <1>1, <2>1
  <2> QED
    BY <1>1, <2>2 DEF GetsInv, GetsTypes
<1>3. LineKept'
  BY <1>1, RoomInMemory DEF GetsInv, LineKept, Text
<1>4. ASSUME Deletable(line)
      PROVE  Holds(Text)'
  <2>1. i = Len(Text) - 1 /\ \A n \in 1..Len(Text) : s[n - 1] = Text[n]
    BY <1>4, RoomInMemory DEF GetsInv, LineKept
  <2>2. i + 1 = Len(Text) /\ Len(Text) \in Nat /\ Len(Text) \in Memory
    <3>1. Len(Text) \in Nat /\ Len(Text) <= KeyLimit
      BY RoomInMemory, LimitAssumption
    <3> QED
      BY <2>1, <3>1, InMemory
  <2>3. s \in [Memory -> Char \cup {Garbage}]
    BY DEF GetsInv, GetsTypes
  <2>4. s'[Len(Text)] = NUL
    BY <1>1, <2>2, <2>3
  <2>5. ASSUME NEW n \in 1..Len(Text)
        PROVE  s'[n - 1] = Text[n]
    <3>1. n - 1 # i + 1
      BY <2>2
    <3>2. s'[n - 1] = s[n - 1]
      <4>1. n - 1 \in Memory
        <5>1. n - 1 \in Nat /\ n - 1 <= KeyLimit
          BY RoomInMemory, LimitAssumption
        <5> QED
          BY <5>1, InMemory
      <4> QED
        BY <1>1, <2>3, <3>1, <4>1
    <3> QED
      BY <2>1, <3>2
  <2>6. Text' = Text
    BY <1>1 DEF Text
  <2> QED
    BY <2>4, <2>5, <2>6 DEF Holds
<1>5. ReturnsTheLine'
  <2>1. Deletable(line') => Deletable(line)
    BY <1>1
  <2> QED
    BY <1>4, <2>1 DEF ReturnsTheLine, Text
<1> QED
  BY <1>2, <1>3, <1>5

\* What a backspace or a character makes of the text, and of what is known of it.
LEMMA TextGrows ==
  ASSUME GetsInv, Return, NEW c \in Char \ {NUL}, line' = Append(line, c)
  PROVE  /\ line' \in Seq(Char) /\ Text' = Edit(Text, c)
         /\ Len(line') <= Len(delivered') /\ Len(Text') <= Len(line')
         /\ \A n \in 1..Len(Text') : Text'[n] \notin {NUL, Backspace}
         /\ Deletable(line') => Deletable(line) /\ (c = Backspace => Text # <<>>)
<1>1. line \in Seq(Char) /\ Text \in Seq(Char)
  BY TextType DEF GetsInv, GetsTypes
<1>2. line' \in Seq(Char) /\ Text' = Edit(Text, c)
  BY <1>1, EditedAppend DEF Text
<1>3. Len(line') = Len(line) + 1
  BY <1>1
<1>4. Len(line') <= Len(delivered')
  BY <1>3, RoomInMemory DEF GetsInv, LineKept
<1>5. /\ Len(Text') <= Len(Text) + 1 /\ Text' \in Seq(Char)
      /\ \A n \in 1..Len(Text') : \/ n <= Len(Text) /\ Text'[n] = Text[n]
                                  \/ Text'[n] = c /\ c # Backspace
  BY <1>1, <1>2, EditType
<1>6. Len(Text') <= Len(line')
  <2>1. Len(Text') \in Nat
    BY <1>5
  <2> QED
    BY <1>3, <1>5, <2>1, RoomInMemory
<1>7. \A n \in 1..Len(Text') : Text'[n] \notin {NUL, Backspace}
  <2>1. \A n \in 1..Len(Text) : Text[n] \notin {NUL, Backspace}
    BY DEF GetsInv, LineKept
  <2> QED
    BY <1>5, <2>1, RoomInMemory
<1>8. Deletable(line') => Deletable(line) /\ (c = Backspace => Text # <<>>)
  BY <1>1, DeletableAppend DEF Text
<1> QED
  BY <1>2, <1>4, <1>6, <1>7, <1>8

LEMMA BackspaceLine ==
  ASSUME GetsInv, Return, GetsBackspace(keyBuff[0])
  PROVE  GetsTypes' /\ LineKept' /\ ReturnsTheLine'
<1>1. /\ UNCHANGED <<asked, outcome>> /\ rd' = "away"
      /\ s' = [s EXCEPT ![i] = NUL] /\ i' = i - 1
      /\ line' = Append(line, Backspace) /\ Backspace \in Char \ {NUL}
  BY RoomInMemory DEF GetsBackspace, Return, Backspace, NUL
<1>2. /\ line' \in Seq(Char) /\ Text' = Edit(Text, Backspace)
      /\ Len(line') <= Len(delivered') /\ Len(Text') <= Len(line')
      /\ \A n \in 1..Len(Text') : Text'[n] \notin {NUL, Backspace}
      /\ Deletable(line') => Deletable(line) /\ Text # <<>>
  BY <1>1, TextGrows
<1>3. asked /\ outcome = "none" /\ i \in Int /\ s \in [Memory -> Char \cup {Garbage}]
  BY RoomInMemory DEF GetsInv, GetsTypes
<1>4. GetsTypes'
  <2>1. NUL \in Char
    BY DEF Char
  <2>2. s' \in [Memory -> Char \cup {Garbage}]
    BY <1>1, <1>3, <2>1
  <2> QED
    BY <1>1, <1>2, <1>3, <2>2 DEF GetsTypes
<1>5. ASSUME Deletable(line')
      PROVE  i' = Len(Text') - 1 /\ \A n \in 1..Len(Text') : s'[n - 1] = Text'[n]
  <2>1. i = Len(Text) - 1 /\ \A n \in 1..Len(Text) : s[n - 1] = Text[n]
    BY <1>2, <1>3, <1>5 DEF GetsInv, LineKept
  <2>2. Text' = Front(Text) /\ Text # <<>>
    BY <1>2, <1>5 DEF Edit
  <2>3. /\ Len(Text') = Len(Text) - 1 /\ Len(Text) \in Nat
        /\ \A n \in 1..(Len(Text) - 1) : Text'[n] = Text[n]
    BY <2>2, FrontOf, TextType DEF GetsInv
  <2>4. ASSUME NEW n \in 1..(Len(Text) - 1)
        PROVE  s'[n - 1] = s[n - 1]
    <3>1. n - 1 \in Memory /\ n - 1 # i
      <4>1. n - 1 \in Nat /\ n - 1 <= KeyLimit
        BY <2>3, RoomInMemory, LimitAssumption
      <4> QED
        BY <2>1, <2>3, <4>1, InMemory
    <3> QED
      BY <1>1, <1>3, <3>1
  <2> QED
    BY <1>1, <2>1, <2>3, <2>4
<1>6. LineKept' /\ ReturnsTheLine'
  BY <1>1, <1>2, <1>3, <1>5 DEF LineKept, ReturnsTheLine
<1> QED
  BY <1>4, <1>6

LEMMA CharacterLine ==
  ASSUME GetsInv, Return, GetsCharacter(keyBuff[0])
  PROVE  GetsTypes' /\ LineKept' /\ ReturnsTheLine'
<1> DEFINE c == keyBuff[0]
<1>1. /\ UNCHANGED <<asked, outcome>> /\ rd' = "away"
      /\ s' = [s EXCEPT ![i + 1] = c] /\ i' = i + 1
      /\ line' = Append(line, c) /\ c \in Char \ {NUL} /\ c # Backspace
  BY RoomInMemory DEF GetsCharacter, Return
<1> HIDE DEF c
<1>2. /\ line' \in Seq(Char) /\ Text' = Edit(Text, c)
      /\ Len(line') <= Len(delivered') /\ Len(Text') <= Len(line')
      /\ \A n \in 1..Len(Text') : Text'[n] \notin {NUL, Backspace}
      /\ Deletable(line') => Deletable(line)
  BY <1>1, TextGrows
<1>3. asked /\ outcome = "none" /\ i \in Int /\ s \in [Memory -> Char \cup {Garbage}]
  BY RoomInMemory DEF GetsInv, GetsTypes
<1>4. GetsTypes'
  <2>1. s' \in [Memory -> Char \cup {Garbage}]
    BY <1>1, <1>3
  <2> QED
    BY <1>1, <1>2, <1>3, <2>1 DEF GetsTypes
<1>5. ASSUME Deletable(line')
      PROVE  i' = Len(Text') - 1 /\ \A n \in 1..Len(Text') : s'[n - 1] = Text'[n]
  <2>1. i = Len(Text) - 1 /\ \A n \in 1..Len(Text) : s[n - 1] = Text[n]
    BY <1>2, <1>3, <1>5 DEF GetsInv, LineKept
  <2>2. /\ Len(Text') = Len(Text) + 1 /\ Len(Text) \in Nat
        /\ \A n \in 1..Len(Text) : Text'[n] = Text[n]
        /\ Text'[Len(Text) + 1] = c
    <3>1. Text' = Append(Text, c)
      BY <1>1, <1>2 DEF Edit
    <3>2. Text \in Seq(Char) /\ c \in Char
      BY <1>1, TextType DEF GetsInv
    <3> QED
      BY <3>1, <3>2, AppendProperties
  <2>3. i + 1 = Len(Text) /\ Len(Text) \in Memory
    <3>1. Len(Text) \in Nat /\ Len(Text) <= KeyLimit
      BY RoomInMemory, LimitAssumption
    <3> QED
      BY <2>1, <3>1, InMemory
  <2>4. s'[Len(Text)] = c
    BY <1>1, <1>3, <2>3
  <2>5. ASSUME NEW n \in 1..Len(Text)
        PROVE  s'[n - 1] = s[n - 1]
    <3>1. n - 1 \in Memory /\ n - 1 # i + 1
      <4>1. n - 1 \in Nat /\ n - 1 <= KeyLimit
        BY <2>2, RoomInMemory, LimitAssumption
      <4> QED
        BY <2>2, <2>3, <4>1, InMemory
    <3> QED
      BY <1>1, <1>3, <3>1
  <2>6. ASSUME NEW n \in 1..Len(Text')
        PROVE  s'[n - 1] = Text'[n]
    <3>1. CASE n \in 1..Len(Text)
      BY <2>1, <2>2, <2>5, <3>1
    <3>2. CASE n = Len(Text) + 1
      <4>1. n - 1 = Len(Text)
        BY <2>2, <3>2
      <4> QED
        BY <2>2, <2>4, <3>2, <4>1
    <3> QED
      BY <2>2, <3>1, <3>2
  <2>7. i' = Len(Text') - 1
    BY <1>1, <2>1, <2>2, <2>3
  <2> QED
    BY <2>6, <2>7
<1>6. LineKept' /\ ReturnsTheLine'
  BY <1>1, <1>2, <1>3, <1>5 DEF LineKept, ReturnsTheLine
<1> QED
  BY <1>4, <1>6

-----------------------------------------------------------------------------
(* strtok() *)

\* The array up to its edge, as the string functions read it.
LEMMA Bytes ==
  /\ Edge \in Nat /\ Byte(Edge) = NUL
  /\ \A n \in 0..(Edge - 1) : n \in Memory /\ Byte(n) = s[n]
<1>1. Edge \in Nat /\ Byte(Edge) = NUL
  BY LimitAssumption DEF Edge, Byte
<1>2. ASSUME NEW n \in 0..(Edge - 1)
      PROVE  n \in Memory /\ Byte(n) = s[n]
  <2>1. n \in Nat /\ n <= KeyLimit /\ n # Edge
    BY LimitAssumption DEF Edge
  <2> QED
    BY <2>1, InMemory DEF Byte
<1> QED
  BY <1>1, <1>2

LEMMA BeginIs ==
  ASSUME NEW from \in 0..Edge
  PROVE  /\ Begin(from) \in from..Edge /\ Byte(Begin(from)) # Space
         /\ \A n \in from..(Begin(from) - 1) : Byte(n) = Space
<1> DEFINE S == {n \in from..Edge : Byte(n) # Space}
<1>1. Edge \in Nat /\ Edge \in S
  BY Bytes DEF NUL, Space
<1>2. S \subseteq Nat /\ S # {} /\ Begin(from) = Least(S)
  BY <1>1 DEF Begin
<1>3. Least(S) \in S /\ \A k \in S : Least(S) <= k
  <2> HIDE DEF S
  <2> QED
    BY <1>2, LeastExists
<1> DEFINE b == Begin(from)
<1>4. b \in from..Edge /\ Byte(b) # Space
  BY <1>2, <1>3
<1>5. \A k \in S : b <= k
  BY <1>2, <1>3
<1> HIDE DEF b
<1>6. ASSUME NEW n \in from..(b - 1)
      PROVE  Byte(n) = Space
  <2>1. n \in from..Edge /\ ~ (b <= n)
    BY <1>1, <1>4
  <2> QED
    BY <1>5, <2>1
<1> QED
  BY <1>4, <1>6 DEF b

LEMMA StopIs ==
  ASSUME NEW from \in 0..Edge
  PROVE  /\ Stop(from) \in from..Edge /\ Byte(Stop(from)) \in {Space, NUL}
         /\ \A n \in from..(Stop(from) - 1) : Byte(n) \notin {Space, NUL}
<1> DEFINE S == {n \in from..Edge : Byte(n) \in {Space, NUL}}
<1>1. Edge \in Nat /\ Edge \in S
  BY Bytes
<1>2. S \subseteq Nat /\ S # {} /\ Stop(from) = Least(S)
  BY <1>1 DEF Stop
<1>3. Least(S) \in S /\ \A k \in S : Least(S) <= k
  <2> HIDE DEF S
  <2> QED
    BY <1>2, LeastExists
<1> DEFINE b == Stop(from)
<1>4. b \in from..Edge /\ Byte(b) \in {Space, NUL}
  BY <1>2, <1>3
<1>5. \A k \in S : b <= k
  BY <1>2, <1>3
<1> HIDE DEF b
<1>6. ASSUME NEW n \in from..(b - 1)
      PROVE  Byte(n) \notin {Space, NUL}
  <2>1. n \in from..Edge /\ ~ (b <= n)
    BY <1>1, <1>4
  <2> QED
    BY <1>5, <2>1
<1> QED
  BY <1>4, <1>6 DEF b

ShellTypes ==
  /\ next \in 1..Words /\ p \in (0..Edge) \cup {End} /\ DOMAIN words = 1..Words
  /\ next > 1 => outcome = "none" /\ ~asked

\* Where a call of strtok() begins to read.
From == IF next = 1 THEN 0 ELSE p

\* No word is found at b; or one is, up to e, and is cut off by the 0 behind it.
Missing(b) ==
  /\ Byte(b) = NUL /\ p' = End /\ s' = s /\ words' = [words EXCEPT ![next] = Null]

CutOff(b, e) ==
  /\ b < e
  /\ words' = [words EXCEPT ![next] = [n \in 1..(e - b) |-> s[b + n - 1]]]
  /\ \/ e = Edge /\ s' = s /\ p' = End
     \/ e < Edge /\ Byte(e) = NUL /\ s' = [s EXCEPT ![e] = NUL] /\ p' = End
     \/ e < Edge /\ Byte(e) = Space /\ s' = [s EXCEPT ![e] = NUL] /\ p' = e + 1

\* From where it begins, blanks up to b and a word up to e.
WordHere(b, e) ==
  /\ next = 1 \/ p # End
  /\ From \in 0..Edge /\ From <= b /\ b <= e
  /\ \A n \in From..(b - 1) : Byte(n) = Space
  /\ \A n \in b..(e - 1) : Byte(n) \notin {Space, NUL}

LEMMA StrtokDoes ==
  ASSUME ShellTypes, GetsTypes, strtok
  PROVE  \/ /\ next > 1 /\ p = End /\ p' = End /\ s' = s
            /\ words' = [words EXCEPT ![next] = Null]
         \/ \E b, e \in 0..Edge :
              WordHere(b, e) /\ ((b = e /\ Missing(b)) \/ CutOff(b, e))
<1>1. CASE next > 1 /\ p = End
  BY <1>1 DEF strtok
<1>2. CASE ~(next > 1 /\ p = End)
  <2>1. From \in 0..Edge /\ (next = 1 \/ p # End)
    BY <1>2, Bytes DEF ShellTypes, From
  <2> DEFINE b == Begin(From)
             e == Stop(b)
  <2>2. NoWord(b) \/ Cut(b)
    BY <1>2 DEF strtok, From
  <2>3. /\ b \in From..Edge /\ Byte(b) # Space
        /\ \A n \in From..(b - 1) : Byte(n) = Space
    BY <2>1, BeginIs
  <2>4. b \in 0..Edge /\ Edge \in Nat
    BY <2>1, <2>3, Bytes
  <2>5. /\ e \in b..Edge /\ Byte(e) \in {Space, NUL}
        /\ \A n \in b..(e - 1) : Byte(n) \notin {Space, NUL}
    BY <2>4, StopIs
  <2>6. Byte(Edge) = NUL
    BY Bytes
  <2>7. CASE NoWord(b)
    <3>1. b = e /\ Missing(b)
      BY <2>3, <2>5, <2>7 DEF NoWord, Missing
    <3> HIDE DEF b, e
    <3>2. WordHere(b, e)
      BY <2>1, <2>3, <2>4, <2>5, <3>1 DEF WordHere
    <3> QED
      BY <2>4, <3>1, <3>2
  <2>8. CASE Cut(b)
    <3>1. /\ b # e
          /\ words' = [words EXCEPT ![next] = [n \in 1..(e - b) |-> s[b + n - 1]]]
          /\ s' = IF e = Edge THEN s ELSE [s EXCEPT ![e] = NUL]
          /\ p' = IF Byte(e) = NUL THEN End ELSE e + 1
      BY <2>8 DEF Cut
    <3> HIDE DEF b, e
    <3>2. b < e /\ e \in 0..Edge
      BY <2>4, <2>5, <3>1
    <3>3. \/ e = Edge /\ s' = s /\ p' = End
          \/ e < Edge /\ Byte(e) = NUL /\ s' = [s EXCEPT ![e] = NUL] /\ p' = End
          \/ e < Edge /\ Byte(e) = Space /\ s' = [s EXCEPT ![e] = NUL] /\ p' = e + 1
      <4>1. CASE e = Edge
        BY <2>6, <3>1, <4>1
      <4>2. CASE e # Edge
        <5>1. e < Edge
          BY <2>4, <3>2, <4>2
        <5>2. CASE Byte(e) = NUL
          BY <3>1, <4>2, <5>1, <5>2
        <5>3. CASE Byte(e) = Space
          BY <3>1, <4>2, <5>1, <5>3 DEF NUL, Space
        <5> QED
          BY <2>5, <5>2, <5>3
      <4> QED
        BY <4>1, <4>2
    <3>4. CutOff(b, e)
      BY <3>1, <3>2, <3>3 DEF CutOff
    <3>5. WordHere(b, e)
      BY <2>1, <2>3, <2>4, <2>5, <3>2 DEF WordHere
    <3> QED
      BY <2>4, <3>2, <3>4, <3>5
  <2> QED
    BY <2>2, <2>7, <2>8
<1> QED
  BY <1>1, <1>2

-----------------------------------------------------------------------------
(* Every step of the shell *)

Base == GetsInv /\ ShellTypes

LEMMA ShellBegins ==
  ASSUME ShellInit
  PROVE  Base
<1>1. TypeOK
  BY InitTypeOK DEF ShellInit, GetsInit
<1>2. Counted
  BY LimitAssumption, WrapAssumption DEF ShellInit, GetsInit, Init, Counted, InFlight
<1>3. GetsTypes
  <2>1. asked = FALSE /\ i = -1 /\ line = <<>> /\ outcome = "none" /\ rd = "away"
        /\ s = [n \in Memory |-> Garbage]
    BY DEF ShellInit, GetsInit, Init
  <2>2. s \in [Memory -> Char \cup {Garbage}]
    BY <2>1
  <2>3. i \in Int /\ line \in Seq(Char)
    BY <2>1
  <2> QED
    BY <2>1, <2>2, <2>3, Zenon DEF GetsTypes
<1>4. Text = <<>>
  BY EditedUnfolds DEF ShellInit, GetsInit, Text
<1>5. LineKept
  BY <1>4 DEF ShellInit, GetsInit, Init, LineKept
<1>6. ReturnsTheLine
  BY DEF ShellInit, GetsInit, ReturnsTheLine
<1>7. ShellTypes
  BY WordsAssumption DEF ShellInit, GetsInit, ShellTypes
<1> QED
  BY <1>1, <1>2, <1>3, <1>5, <1>6, <1>7 DEF Base, GetsInv

LEMMA AskKeeps ==
  ASSUME Base, AskLine
  PROVE  Base'
<1>1. /\ ~asked /\ asked' = TRUE /\ i' = -1 /\ line' = <<>> /\ outcome' = "none" /\ s' = s
      /\ UNCHANGED vars /\ UNCHANGED shell /\ ~Answered
  BY DEF AskLine, GetsCall
<1>2. TypeOK' /\ Counted'
  BY <1>1 DEF Base, GetsInv, TypeOK, Counted, InFlight, vars, lines, locks, buffer, keyboard
<1>3. GetsTypes'
  BY <1>1 DEF Base, GetsInv, GetsTypes, vars
<1>4. Text' = <<>>
  BY <1>1, EditedUnfolds DEF Text
<1>5. LineKept'
  <2>1. Len(delivered') \in Nat
    BY <1>2 DEF TypeOK
  <2> QED
    BY <1>1, <1>4, <2>1 DEF LineKept
<1>6. ReturnsTheLine'
  BY <1>1 DEF ReturnsTheLine
<1>7. ShellTypes'
  BY <1>1 DEF Base, ShellTypes, shell, Answered, Edge
<1> QED
  BY <1>2, <1>3, <1>5, <1>6, <1>7 DEF Base, GetsInv

\* The steps that leave the line and the shell alone.
LEMMA OthersKeep ==
  ASSUME Base, UNCHANGED <<gets, shell>>,
         \/ KeyEvent
         \/ asked /\ Call
         \/ SpinExit
         \/ Shift
         \/ UNCHANGED vars
  PROVE  Base'
<1>1. TypeOK'
  BY KeyTypeOK, ReaderTypeOK
  DEF Base, GetsInv, Getchar, TypeOK, vars, lines, locks, buffer, keyboard
<1>2. Counted'
  BY KeyCounted, ReaderCounted DEF Base, GetsInv, Getchar, Counted, InFlight, vars, buffer
<1>3. delivered' = delivered /\ (rd' # "away" => rd # "away" \/ asked)
  BY DEF KeyEvent, Call, SpinExit, Shift, vars
<1>4. GetsTypes'
  BY <1>3 DEF Base, GetsInv, GetsTypes, gets
<1>5. LineKept' /\ ReturnsTheLine'
  BY <1>3 DEF Base, GetsInv, LineKept, ReturnsTheLine, Holds, Text, gets
<1>6. ShellTypes'
  BY DEF Base, ShellTypes, shell, gets, Edge
<1> QED
  BY <1>1, <1>2, <1>4, <1>5, <1>6 DEF Base, GetsInv

LEMMA ReturnKeeps ==
  ASSUME Base, Return, GetsTake(keyBuff[0]), UNCHANGED shell
  PROVE  Base'
<1>1. TypeOK' /\ Counted'
  BY ReaderTypeOK, ReaderCounted DEF Base, GetsInv, Getchar
<1>2. GetsTypes' /\ LineKept' /\ ReturnsTheLine'
  BY NothingLine, NewlineLine, BackspaceLine, CharacterLine DEF Base, GetsTake
<1>3. ShellTypes'
  <2>1. asked
    BY RoomInMemory DEF Base
  <2> QED
    BY <2>1 DEF Base, ShellTypes, shell, Edge
<1> QED
  BY <1>1, <1>2, <1>3 DEF Base, GetsInv

LEMMA ParseKeeps ==
  ASSUME Base, ParseWord
  PROVE  Base'
<1>1. /\ ~asked /\ strtok /\ outcome' = "none" /\ UNCHANGED <<vars, asked, i, line>>
      /\ next' = IF next < Words THEN next + 1 ELSE 1
  BY DEF ParseWord, Answered
<1>2. TypeOK' /\ Counted'
  BY <1>1 DEF Base, GetsInv, TypeOK, Counted, InFlight, vars, lines, locks, buffer, keyboard
<1>3. /\ s' = s \/ \E e \in 0..Edge : s' = [s EXCEPT ![e] = NUL]
      /\ p' \in (0..Edge) \cup {End}
      /\ \E w : words' = [words EXCEPT ![next] = w]
  <2>1. CASE p' = End /\ s' = s /\ words' = [words EXCEPT ![next] = Null]
    BY <2>1
  <2>2. ASSUME NEW b \in 0..Edge, NEW e \in 0..Edge, Missing(b) \/ CutOff(b, e)
        PROVE  /\ s' = s \/ \E n \in 0..Edge : s' = [s EXCEPT ![n] = NUL]
               /\ p' \in (0..Edge) \cup {End}
               /\ \E w : words' = [words EXCEPT ![next] = w]
    BY <2>2, Bytes DEF Missing, CutOff
  <2> QED
    BY <1>1, <2>1, <2>2, StrtokDoes DEF Base, GetsInv
<1>4. GetsTypes'
  <2>1. s' \in [Memory -> Char \cup {Garbage}]
    <3>1. NUL \in Char
      BY DEF Char
    <3> QED
      BY <1>3, <3>1 DEF Base, GetsInv, GetsTypes
  <2> QED
    BY <1>1, <2>1 DEF Base, GetsInv, GetsTypes, vars
<1>5. LineKept' /\ ReturnsTheLine'
  BY <1>1 DEF Base, GetsInv, LineKept, ReturnsTheLine, Text, vars
<1>6. ShellTypes'
  BY <1>1, <1>3, WordsAssumption DEF Base, ShellTypes, Edge
<1> QED
  BY <1>2, <1>4, <1>5, <1>6 DEF Base, GetsInv

LEMMA BaseAlways == ShellSpec => []Base
<1>1. ShellInit => Base
  BY ShellBegins
<1>2. Base /\ [ShellNext]_shellVars => Base'
  <2> SUFFICES ASSUME Base, [ShellNext]_shellVars
               PROVE  Base'
    OBVIOUS
  <2>1. CASE AskLine
    BY <2>1, AskKeeps
  <2>2. CASE ParseWord
    BY <2>2, ParseKeeps
  <2>3. CASE GetsRuns /\ UNCHANGED shell
    BY <2>3, OthersKeep, ReturnKeeps DEF GetsRuns
  <2>4. CASE KeyEvent /\ UNCHANGED <<gets, shell>>
    BY <2>4, OthersKeep
  <2>5. CASE UNCHANGED shellVars
    BY <2>5, OthersKeep DEF shellVars
  <2> QED
    BY <2>1, <2>2, <2>3, <2>4, <2>5 DEF ShellNext, MainThread
<1> QED
  BY <1>1, <1>2, PTL DEF ShellSpec

\* The string gets() returns is the line as it was edited, terminated, whatever the
\* array held, whatever was typed before and whenever the interrupts come.
THEOREM LineReturned == ShellSpec => []ReturnsTheLine
  BY BaseAlways, PTL DEF Base, GetsInv

-----------------------------------------------------------------------------
(* The words *)

LEMMA StartsFinite ==
  ASSUME NEW l \in Seq(Char), NEW S \in SUBSET Starts(l)
  PROVE  IsFiniteSet(S) /\ Cardinality(S) \in Nat
<1>1. IsFiniteSet(1..Len(l))
  BY FS_Interval
<1>2. S \subseteq 1..Len(l)
  BY DEF Starts
<1> QED
  BY <1>1, <1>2, FS_Subset, FS_CardinalityType

\* Fewer words begin before a place than before a later one where a word begins.
LEMMA EarlierGrows ==
  ASSUME NEW l \in Seq(Char), NEW S \in SUBSET Starts(l), NEW k \in S, Earlier(l, k) \subseteq S
  PROVE  Cardinality(Earlier(l, k)) < Cardinality(S)
<1>1. k \notin Earlier(l, k)
  <2>1. k \in Nat
    BY DEF Starts
  <2> QED
    BY <2>1 DEF Earlier
<1>2. IsFiniteSet(S) /\ Cardinality(S) \in Nat
  BY StartsFinite
<1>3. Earlier(l, k) \subseteq S \ {k} /\ IsFiniteSet(S \ {k}) /\ Cardinality(S \ {k}) = Cardinality(S) - 1
  BY <1>1, <1>2, FS_RemoveElement
<1>4. Cardinality(Earlier(l, k)) <= Cardinality(S \ {k}) /\ Cardinality(Earlier(l, k)) \in Nat
  BY <1>3, FS_Subset, FS_CardinalityType
<1> QED
  BY <1>2, <1>3, <1>4

LEMMA NoNthWord ==
  ASSUME NEW l \in Seq(Char), NEW n \in Nat, Cardinality(Starts(l)) < n
  PROVE  WordOf(l, n) = Null
<1>1. ASSUME NEW k \in Starts(l)
      PROVE  Cardinality(Earlier(l, k)) # n - 1
  <2>1. Earlier(l, k) \subseteq Starts(l)
    BY DEF Earlier
  <2>2. Cardinality(Earlier(l, k)) < Cardinality(Starts(l))
    BY <2>1, EarlierGrows
  <2>3. Cardinality(Earlier(l, k)) \in Nat /\ Cardinality(Starts(l)) \in Nat
    BY <2>1, StartsFinite
  <2> QED
    BY <2>2, <2>3
<1> QED
  BY <1>1 DEF WordOf

LEMMA NthWord ==
  ASSUME NEW l \in Seq(Char), NEW n \in Nat, NEW k \in Starts(l), NEW e \in Ends(l, k),
         Cardinality(Earlier(l, k)) = n - 1
  PROVE  WordOf(l, n) = SubSeq(l, k, e)
<1> DEFINE nth == {j \in Starts(l) : Cardinality(Earlier(l, j)) = n - 1}
<1>1. Starts(l) \subseteq Nat
  BY DEF Starts
<1>2. ASSUME NEW j \in nth
      PROVE  j = k
  <2>1. \A a, b \in Starts(l) : a < b => Cardinality(Earlier(l, a)) < Cardinality(Earlier(l, b))
    <3> SUFFICES ASSUME NEW a \in Starts(l), NEW b \in Starts(l), a < b
                 PROVE  Cardinality(Earlier(l, a)) < Cardinality(Earlier(l, b))
      OBVIOUS
    <3>1. a \in Earlier(l, b) /\ Earlier(l, a) \subseteq Earlier(l, b)
      BY <1>1 DEF Earlier
    <3>2. Earlier(l, b) \in SUBSET Starts(l)
      BY DEF Earlier
    <3> QED
      BY <3>1, <3>2, EarlierGrows
  <2>2. ~ (j < k) /\ ~ (k < j)
    <3>1. n - 1 \in Int /\ ~ (n - 1 < n - 1)
      OBVIOUS
    <3> QED
      BY <2>1, <3>1
  <2> QED
    BY <1>1, <2>2
<1>3. nth = {k}
  BY <1>2
<1>4. Least(nth) = k
  BY <1>1, <1>3 DEF Least
<1>5. ASSUME NEW f \in Ends(l, k)
      PROVE  f = e
  <2>1. /\ e \in k..Len(l) /\ f \in k..Len(l) /\ k \in Nat
        /\ \A j \in k..e : l[j] # Space
        /\ \A j \in k..f : l[j] # Space
        /\ (e = Len(l) \/ l[e + 1] = Space) /\ (f = Len(l) \/ l[f + 1] = Space)
    BY <1>1 DEF Ends
  <2>2. ~ (e < f)
    <3> SUFFICES ASSUME e < f
                 PROVE  FALSE
      OBVIOUS
    <3>1. e + 1 \in k..f /\ e # Len(l)
      BY <2>1
    <3> QED
      BY <2>1, <3>1
  <2>3. ~ (f < e)
    <3> SUFFICES ASSUME f < e
                 PROVE  FALSE
      OBVIOUS
    <3>1. f + 1 \in k..e /\ f # Len(l)
      BY <2>1
    <3> QED
      BY <2>1, <3>1
  <2> QED
    BY <2>1, <2>2, <2>3
<1>6. Ends(l, k) = {e} /\ e \in Nat
  BY <1>1, <1>5 DEF Ends
<1>7. Least(Ends(l, k)) = e
  BY <1>6 DEF Least
<1> QED
  BY <1>3, <1>4, <1>7 DEF WordOf

\* The words of a line that begin up to a place.
UpTo(l, f) == {k \in Starts(l) : k <= f}

\* The text is unread from f on, and the words before f have been cut.
Unread(f) ==
  /\ f \in 0..Len(Text) /\ (f = 0 \/ Text[f] = Space)
  /\ Cardinality(UpTo(Text, f)) = next - 1
  /\ \A n \in (f + 1)..Len(Text) : s[n - 1] = Text[n]
  /\ s[Len(Text)] = NUL

CutRight ==
  next > 1 /\ parsed = "string" /\ Deletable(line) =>
    IF p = End THEN Cardinality(Starts(Text)) < next ELSE Unread(p)

\* A word that has nothing but blanks before it, back to where the text is unread.
Piece(t, f, b, e) ==
  /\ f \in 0..Len(t) /\ (f = 0 \/ t[f] = Space)
  /\ b \in Nat /\ e \in Nat /\ f <= b /\ b < e /\ e <= Len(t)
  /\ \A n \in (f + 1)..b : t[n] = Space
  /\ \A n \in (b + 1)..e : t[n] # Space
  /\ e = Len(t) \/ t[e + 1] = Space

LEMMA WordFound ==
  ASSUME NEW t \in Seq(Char), NEW f, NEW b, NEW e, Piece(t, f, b, e)
  PROVE  /\ b + 1 \in Starts(t) /\ e \in Ends(t, b + 1)
         /\ Earlier(t, b + 1) = UpTo(t, f)
         /\ UpTo(t, e + 1) = UpTo(t, f) \cup {b + 1}
<1>0. Len(t) \in Nat /\ f \in Nat
  BY DEF Piece
<1> USE DEF Piece, UpTo
<1>1. b + 1 \in 1..Len(t) /\ t[b + 1] # Space
  BY <1>0
<1>2. b = 0 \/ t[b] = Space
  <2>1. CASE b = f
    BY <2>1
  <2>2. CASE b # f
    <3>1. b \in (f + 1)..b
      BY <1>0, <2>2
    <3> QED
      BY <3>1
  <2> QED
    BY <2>1, <2>2
<1>3. b + 1 \in Starts(t)
  <2>1. b + 1 = 1 \/ t[b + 1 - 1] = Space
    BY <1>2
  <2> QED
    BY <1>1, <2>1 DEF Starts
<1>4. e \in Ends(t, b + 1)
  BY <1>0 DEF Ends
<1>5. ASSUME NEW k \in Starts(t), f < k
      PROVE  ~ (k < b + 1) /\ (k <= e + 1 => k = b + 1)
  <2>1. k \in 1..Len(t) /\ t[k] # Space /\ (k = 1 \/ t[k - 1] = Space)
    BY DEF Starts
  <2>2. k \notin (f + 1)..b
    BY <2>1
  <2>3. ~ (k < b + 1)
    BY <1>0, <1>5, <2>1, <2>2
  <2>4. ASSUME k <= e + 1, k # b + 1
        PROVE  FALSE
    <3>1. k # e + 1
      BY <1>0, <2>1
    <3>2. k - 1 \in (b + 1)..e /\ k # 1
      BY <1>0, <2>1, <2>3, <2>4, <3>1
    <3> QED
      BY <2>1, <3>2
  <2> QED
    BY <2>3, <2>4
<1>6. Starts(t) \subseteq Nat
  BY DEF Starts
<1>7. Earlier(t, b + 1) = UpTo(t, f)
  <2>1. \A k \in Starts(t) : k < b + 1 <=> k <= f
    BY <1>0, <1>5, <1>6
  <2> QED
    BY <2>1 DEF Earlier
<1>8. UpTo(t, e + 1) = UpTo(t, f) \cup {b + 1}
  <2>1. \A k \in Starts(t) : k <= e + 1 <=> (k <= f \/ k = b + 1)
    BY <1>0, <1>5, <1>6
  <2> QED
    BY <1>3, <2>1
<1> QED
  BY <1>3, <1>4, <1>7, <1>8

LEMMA NothingFound ==
  ASSUME NEW t \in Seq(Char), NEW f \in 0..Len(t),
         \A n \in (f + 1)..Len(t) : t[n] = Space
  PROVE  UpTo(t, f) = Starts(t)
<1>1. ASSUME NEW k \in Starts(t)
      PROVE  k <= f
  <2>1. k \in 1..Len(t) /\ t[k] # Space /\ Len(t) \in Nat
    BY DEF Starts
  <2>2. k \notin (f + 1)..Len(t)
    BY <2>1
  <2> QED
    BY <2>1, <2>2
<1> QED
  BY <1>1 DEF UpTo

\* Where the text is unread, the array holds it.
LEMMA UnreadBytes ==
  ASSUME Base, NEW f, Unread(f)
  PROVE  /\ Len(Text) \in 0..(Edge - 1) /\ Byte(Len(Text)) = NUL /\ Edge \in Nat
         /\ \A n \in f..(Len(Text) - 1) :
              Byte(n) = Text[n + 1] /\ Text[n + 1] # NUL /\ s[n] = Text[n + 1]
<1>1. Len(Text) \in Nat
  BY TextType DEF Base, GetsInv
<1>2. Len(Text) <= KeyLimit
  <2>1. /\ Len(Text) <= Len(line) /\ Len(line) <= Len(delivered)
        /\ Len(delivered) + InFlight + keyBuffEnd <= Len(typed) /\ Len(typed) <= KeyLimit
    BY DEF Base, GetsInv, LineKept, Counted
  <2>2. Len(line) \in Nat /\ Len(delivered) \in Nat /\ Len(typed) \in Nat
        /\ keyBuffEnd \in Nat /\ InFlight \in Nat
    BY WrapAssumption DEF Base, GetsInv, GetsTypes, TypeOK, InFlight
  <2> QED
    BY <1>1, <2>1, <2>2, LimitAssumption
<1>3. Len(Text) \in 0..(Edge - 1) /\ Edge \in Nat
  BY <1>1, <1>2, LimitAssumption DEF Edge
<1>4. f \in 0..Len(Text)
  BY DEF Unread
<1>5. ASSUME NEW n \in f..(Len(Text) - 1)
      PROVE  Byte(n) = Text[n + 1] /\ Text[n + 1] # NUL /\ s[n] = Text[n + 1]
  <2>1. n + 1 \in (f + 1)..Len(Text) /\ n + 1 \in 1..Len(Text) /\ n + 1 - 1 = n
        /\ n \in 0..(Edge - 1)
    BY <1>3, <1>4
  <2>2. s[n] = Text[n + 1]
    <3>1. s[n + 1 - 1] = Text[n + 1]
      BY <2>1 DEF Unread
    <3> QED
      BY <2>1, <3>1
  <2> QED
    BY <2>1, <2>2, Bytes DEF Base, GetsInv, LineKept
<1>6. Byte(Len(Text)) = NUL
  BY <1>3, Bytes DEF Unread
<1> QED
  BY <1>3, <1>5, <1>6

\* Before a call of strtok() for a line gets() returned.
LEMMA UnreadHere ==
  ASSUME Base, CutRight, Answered, next = 1 => outcome = "string",
         next > 1 => parsed = "string" /\ p # End, Deletable(line)
  PROVE  Unread(From)
<1>1. CASE next = 1
  <2>1. Holds(Text) /\ Text \in Seq(Char) /\ Len(Text) \in Nat /\ From = 0
    BY <1>1, TextType DEF Base, GetsInv, ReturnsTheLine, From, Text
  <2>2. UpTo(Text, 0) = {}
    BY DEF Starts, UpTo
  <2>3. Cardinality(UpTo(Text, 0)) = 0
    BY <2>2, FS_EmptySet
  <2>4. next - 1 = 0
    BY <1>1
  <2>5. /\ \A n \in 1..Len(Text) : s[n - 1] = Text[n]
        /\ s[Len(Text)] = NUL
    BY <2>1 DEF Holds
  <2> QED
    BY <2>1, <2>3, <2>4, <2>5 DEF Unread
<1>2. CASE next > 1
  BY <1>2 DEF CutRight, From
<1> QED
  BY <1>1, <1>2, WordsAssumption DEF Base, ShellTypes

LEMMA WordCut ==
  ASSUME Base, Unread(From), NEW b \in 0..Edge, NEW e \in 0..Edge, WordHere(b, e), CutOff(b, e)
  PROVE  /\ words'[next] = WordOf(Text, next)
         /\ Text' = Text => IF p' = End THEN Cardinality(Starts(Text)) < next + 1
                            ELSE next' = next + 1 => Unread(p)'
<1> DEFINE f == From
           S == UpTo(Text, f)
<1>1. /\ Len(Text) \in 0..(Edge - 1) /\ Byte(Len(Text)) = NUL /\ Edge \in Nat
      /\ \A n \in f..(Len(Text) - 1) :
           Byte(n) = Text[n + 1] /\ Text[n + 1] # NUL /\ s[n] = Text[n + 1]
  BY UnreadBytes
<1>2. /\ f \in 0..Len(Text) /\ (f = 0 \/ Text[f] = Space)
      /\ Cardinality(S) = next - 1
      /\ \A n \in (f + 1)..Len(Text) : s[n - 1] = Text[n]
      /\ s[Len(Text)] = NUL
  BY DEF Unread
<1>3. /\ f <= b /\ b < e
      /\ \A n \in f..(b - 1) : Byte(n) = Space
      /\ \A n \in b..(e - 1) : Byte(n) \notin {Space, NUL}
      /\ words' = [words EXCEPT ![next] = [n \in 1..(e - b) |-> s[b + n - 1]]]
      /\ \/ e = Edge /\ s' = s /\ p' = End
         \/ e < Edge /\ Byte(e) = NUL /\ s' = [s EXCEPT ![e] = NUL] /\ p' = End
         \/ e < Edge /\ Byte(e) = Space /\ s' = [s EXCEPT ![e] = NUL] /\ p' = e + 1
  BY DEF WordHere, CutOff
<1>4. Text \in Seq(Char) /\ next \in Nat /\ next \in DOMAIN words
  BY TextType DEF Base, GetsInv, ShellTypes
<1> HIDE DEF f
<1>5. NUL # Space
  BY DEF NUL, Space
<1>6. \A n \in f..(e - 1) : Byte(n) # NUL
  <2>1. ASSUME NEW n \in f..(e - 1)
        PROVE  Byte(n) # NUL
    <3>1. n \in f..(b - 1) \/ n \in b..(e - 1)
      BY <1>1, <1>2
    <3> QED
      BY <1>3, <1>5, <3>1
  <2> QED
    BY <2>1
<1>7. e <= Len(Text)
  <2>1. Len(Text) \notin f..(e - 1)
    BY <1>1, <1>6
  <2> QED
    BY <1>1, <1>2, <2>1
<1>8. /\ \A n \in (f + 1)..b : Text[n] = Space
      /\ \A n \in (b + 1)..e : Text[n] # Space
  <2>1. ASSUME NEW n \in (f + 1)..e
        PROVE  n - 1 \in f..(Len(Text) - 1) /\ Byte(n - 1) = Text[n]
    <3>1. n - 1 \in f..(Len(Text) - 1) /\ n - 1 + 1 = n
      BY <1>1, <1>2, <1>7
    <3> QED
      BY <1>1, <3>1
  <2>2. ASSUME NEW n \in (f + 1)..b
        PROVE  Text[n] = Space
    <3>1. n \in (f + 1)..e /\ n - 1 \in f..(b - 1)
      BY <1>1, <1>2, <1>3
    <3> QED
      BY <1>3, <2>1, <3>1
  <2>3. ASSUME NEW n \in (b + 1)..e
        PROVE  Text[n] # Space
    <3>1. n \in (f + 1)..e /\ n - 1 \in b..(e - 1)
      BY <1>1, <1>2, <1>3
    <3> QED
      BY <1>3, <2>1, <3>1
  <2> QED
    BY <2>2, <2>3
<1>9. e = Len(Text) \/ (e < Len(Text) /\ Byte(e) = Text[e + 1] /\ Text[e + 1] # NUL)
  <2>1. ASSUME e # Len(Text)
        PROVE  e \in f..(Len(Text) - 1)
    BY <1>1, <1>2, <1>3, <1>7, <2>1
  <2> QED
    BY <1>1, <1>7, <2>1
<1>10. e < Edge /\ s' = [s EXCEPT ![e] = NUL]
       /\ IF e = Len(Text) THEN p' = End ELSE p' = e + 1 /\ Text[e + 1] = Space
  <2>1. e < Edge
    BY <1>1, <1>7
  <2>2. CASE e = Len(Text)
    <3>1. Byte(e) = NUL
      BY <1>1, <2>2
    <3> QED
      BY <1>3, <1>5, <2>1, <2>2, <3>1
  <2>3. CASE e # Len(Text)
    BY <1>3, <1>9, <2>1, <2>3
  <2> QED
    BY <2>2, <2>3
<1>11. /\ b + 1 \in Starts(Text) /\ e \in Ends(Text, b + 1)
       /\ Earlier(Text, b + 1) = S
       /\ UpTo(Text, e + 1) = S \cup {b + 1}
  <2>1. b \in Nat /\ e \in Nat /\ (e = Len(Text) \/ Text[e + 1] = Space)
    BY <1>10
  <2>2. Text \in Seq(Char) /\ f \in 0..Len(Text) /\ (f = 0 \/ Text[f] = Space)
        /\ f <= b /\ b < e /\ e <= Len(Text)
    BY <1>2, <1>3, <1>4, <1>7
  <2>3. Piece(Text, f, b, e)
    BY <1>8, <2>1, <2>2 DEF Piece
  <2> QED
    BY <2>2, <2>3, WordFound
<1>12. words'[next] = WordOf(Text, next)
  <2>1. WordOf(Text, next) = SubSeq(Text, b + 1, e)
    BY <1>2, <1>4, <1>11, NthWord
  <2>2. words'[next] = [n \in 1..(e - b) |-> s[b + n - 1]]
    BY <1>3, <1>4
  <2>3. SubSeq(Text, b + 1, e) = [n \in 1..(e - (b + 1) + 1) |-> Text[b + 1 + n - 1]]
    BY <1>1, <1>3, <1>7, SMT
  <2>4. e - (b + 1) + 1 = e - b
    BY <1>1
  <2>5. ASSUME NEW n \in 1..(e - b)
        PROVE  s[b + n - 1] = Text[b + 1 + n - 1]
    <3>1. b + n \in (f + 1)..Len(Text) /\ b + 1 + n - 1 = b + n
      BY <1>1, <1>2, <1>3, <1>7
    <3> QED
      BY <1>2, <3>1
  <2> QED
    BY <2>1, <2>2, <2>3, <2>4, <2>5
<1>13. Cardinality(S \cup {b + 1}) = next
  <2>1. b + 1 \notin S
    BY <1>1, <1>2, <1>3 DEF UpTo
  <2>2. IsFiniteSet(S)
    <3>1. S \in SUBSET Starts(Text)
      BY DEF UpTo
    <3> QED
      BY <1>4, <3>1, StartsFinite
  <2>3. Cardinality(S \cup {b + 1}) = Cardinality(S) + 1
    BY <2>1, <2>2, FS_AddElement
  <2> QED
    BY <1>2, <1>4, <2>3
<1>14. ASSUME p' = End
       PROVE  Cardinality(Starts(Text)) < next + 1
  <2>1. e = Len(Text)
    BY <1>1, <1>10, <1>14 DEF End
  <2>2. UpTo(Text, e + 1) = Starts(Text)
    BY <1>1, <2>1 DEF Starts, UpTo
  <2>3. Cardinality(Starts(Text)) = next
    BY <1>11, <1>13, <2>2
  <2> QED
    BY <1>4, <2>3
<1>15. ASSUME p' # End, Text' = Text, next' = next + 1
       PROVE  Unread(p)'
  <2>1. p' = e + 1 /\ Text[e + 1] = Space /\ e < Len(Text)
    BY <1>9, <1>10, <1>15
  <2>2. p' \in 0..Len(Text)
    BY <1>1, <2>1
  <2>3. Cardinality(UpTo(Text, p')) = next' - 1
    <3>1. UpTo(Text, p') = S \cup {b + 1}
      BY <1>11, <2>1
    <3>2. next' - 1 = next
      BY <1>4, <1>15
    <3> QED
      BY <1>13, <3>1, <3>2
  <2>4. s \in [Memory -> Char \cup {Garbage}]
    BY DEF Base, GetsInv, GetsTypes
  <2>5. ASSUME NEW n \in 0..(Edge - 1), n # e
        PROVE  s'[n] = s[n]
    <3>1. n \in Memory
      BY Bytes
    <3> QED
      BY <1>10, <2>4, <2>5, <3>1
  <2>6. ASSUME NEW n \in (p' + 1)..Len(Text)
        PROVE  s'[n - 1] = Text[n]
    <3>1. n - 1 \in 0..(Edge - 1) /\ n - 1 # e /\ n \in (f + 1)..Len(Text)
      BY <1>1, <1>2, <1>3, <2>1
    <3> QED
      BY <1>2, <2>5, <3>1
  <2>7. s'[Len(Text)] = NUL
    BY <1>1, <1>2, <2>1, <2>5
  <2> HIDE DEF S
  <2> QED
    BY <1>15, <2>1, <2>2, <2>3, <2>6, <2>7 DEF Unread
<1> QED
  BY <1>12, <1>14, <1>15

LEMMA NoWordLeft ==
  ASSUME Base, Unread(From), NEW b \in 0..Edge, WordHere(b, b), Missing(b)
  PROVE  words'[next] = WordOf(Text, next) /\ Cardinality(Starts(Text)) < next /\ p' = End
<1> DEFINE f == From
<1>1. /\ Len(Text) \in 0..(Edge - 1) /\ Byte(Len(Text)) = NUL /\ Edge \in Nat
      /\ \A n \in f..(Len(Text) - 1) : Byte(n) = Text[n + 1] /\ Text[n + 1] # NUL
  BY UnreadBytes
<1>2. /\ f \in 0..Len(Text)
      /\ Cardinality(UpTo(Text, f)) = next - 1
  BY DEF Unread
<1>3. /\ f <= b /\ \A n \in f..(b - 1) : Byte(n) = Space
      /\ Byte(b) = NUL /\ p' = End /\ words' = [words EXCEPT ![next] = Null]
  BY DEF WordHere, Missing
<1>4. Text \in Seq(Char) /\ next \in Nat /\ next \in DOMAIN words
  BY TextType DEF Base, GetsInv, ShellTypes
<1> HIDE DEF f
<1>5. b = Len(Text)
  <2>1. Len(Text) \notin f..(b - 1)
    <3>1. NUL # Space
      BY DEF NUL, Space
    <3> QED
      BY <1>1, <1>3, <3>1
  <2>2. b \notin f..(Len(Text) - 1)
    BY <1>1, <1>3
  <2> QED
    BY <1>1, <1>2, <1>3, <2>1, <2>2
<1>6. \A n \in (f + 1)..Len(Text) : Text[n] = Space
  <2>1. ASSUME NEW n \in (f + 1)..Len(Text)
        PROVE  Text[n] = Space
    <3>1. n - 1 \in f..(b - 1) /\ n - 1 \in f..(Len(Text) - 1) /\ n - 1 + 1 = n
      BY <1>1, <1>2, <1>5
    <3> QED
      BY <1>1, <1>3, <3>1
  <2> QED
    BY <2>1
<1>7. Cardinality(Starts(Text)) = next - 1
  BY <1>2, <1>4, <1>6, NothingFound
<1>8. Cardinality(Starts(Text)) < next
  BY <1>4, <1>7
<1> QED
  BY <1>3, <1>4, <1>8, NoNthWord

LEMMA WordsRight ==
  ASSUME Base, CutRight, ParseWord, parsed' = "string", Deletable(line)
  PROVE  words'[next] = WordOf(Text, next) /\ CutRight'
<1>1. /\ Answered /\ strtok /\ UNCHANGED line
      /\ next' = IF next < Words THEN next + 1 ELSE 1
      /\ parsed' = IF next = 1 THEN outcome ELSE parsed
  BY DEF ParseWord
<1>2. next \in 1..Words /\ Words \in Nat /\ next \in DOMAIN words
  BY WordsAssumption DEF Base, ShellTypes
<1>3. /\ next = 1 => outcome = "string"
      /\ next > 1 => parsed = "string"
  BY <1>1, <1>2
<1>4. Text' = Text
  BY <1>1 DEF Text
<1>5. next' > 1 => next' = next + 1
  BY <1>1, <1>2
<1>6. CASE next > 1 /\ p = End /\ p' = End /\ words' = [words EXCEPT ![next] = Null]
  <2>1. Cardinality(Starts(Text)) < next
    BY <1>3, <1>6 DEF CutRight
  <2>2. Text \in Seq(Char)
    BY TextType DEF Base, GetsInv
  <2>3. WordOf(Text, next) = Null
    BY <1>2, <2>1, <2>2, NoNthWord
  <2>4. Cardinality(Starts(Text)) \in Nat
    BY <2>2, StartsFinite
  <2>5. next' > 1 => Cardinality(Starts(Text)) < next'
    BY <1>2, <1>5, <2>1, <2>4
  <2>6. CutRight'
    BY <1>4, <1>6, <2>5 DEF CutRight
  <2> QED
    BY <1>2, <1>6, <2>3, <2>6
<1>7. ASSUME NEW b \in 0..Edge, NEW e \in 0..Edge, WordHere(b, e),
             (b = e /\ Missing(b)) \/ CutOff(b, e)
      PROVE  words'[next] = WordOf(Text, next) /\ CutRight'
  <2>1. next > 1 => p # End
    BY <1>7 DEF WordHere
  <2>2. Unread(From)
    BY <1>1, <1>3, <2>1, UnreadHere
  <2>3. CASE b = e /\ Missing(b)
    <3>1. words'[next] = WordOf(Text, next) /\ Cardinality(Starts(Text)) < next /\ p' = End
      BY <1>7, <2>2, <2>3, NoWordLeft
    <3>2. Cardinality(Starts(Text)) \in Nat
      BY TextType, StartsFinite DEF Base, GetsInv
    <3>3. next' > 1 => Cardinality(Starts(Text)) < next'
      BY <1>2, <1>5, <3>1, <3>2
    <3> QED
      BY <1>4, <3>1, <3>3 DEF CutRight
  <2>4. CASE CutOff(b, e)
    <3>1. /\ words'[next] = WordOf(Text, next)
          /\ IF p' = End THEN Cardinality(Starts(Text)) < next + 1
             ELSE next' = next + 1 => Unread(p)'
      BY <1>4, <1>7, <2>2, <2>4, WordCut
    <3> QED
      BY <1>4, <1>5, <3>1 DEF CutRight
  <2> QED
    BY <1>7, <2>3, <2>4
<1> QED
  BY <1>1, <1>6, <1>7, StrtokDoes DEF Base, GetsInv

\* A step that moves the parse on is a call of strtok().
LEMMA OnlyParseWord ==
  ASSUME Base, [ShellNext]_shellVars, NEW r, Parsing(r)
  PROVE  ParseWord
<1>1. ~asked /\ Answered /\ ~ UNCHANGED <<gets, shell>>
  BY DEF Parsing, Answered, gets, shell
<1>2. ~ AskLine /\ ~ (GetsRuns /\ UNCHANGED shell)
  BY <1>1, RoomInMemory DEF AskLine, GetsRuns, Base
<1> QED
  BY <1>1, <1>2 DEF ShellNext, MainThread, shellVars

LEMMA CutKeeps ==
  ASSUME Base, CutRight, [ShellNext]_shellVars
  PROVE  CutRight'
<1>1. CASE UNCHANGED <<gets, shell>>
  BY <1>1 DEF CutRight, Unread, Text, gets, shell
<1>2. CASE AskLine
  <2>1. next' > 1 => next > 1 /\ FALSE
    BY <1>2 DEF AskLine, Answered, GetsCall, shell
  <2> QED
    BY <2>1 DEF CutRight
<1>3. CASE Return /\ UNCHANGED shell
  <2>1. asked
    BY <1>3, RoomInMemory DEF Base
  <2> QED
    BY <1>3, <2>1 DEF Base, ShellTypes, CutRight, shell
<1>4. CASE ParseWord
  <2>1. line' = line
    BY <1>4 DEF ParseWord
  <2>2. CASE parsed' = "string" /\ Deletable(line)
    BY <1>4, <2>2, WordsRight
  <2>3. CASE ~(parsed' = "string" /\ Deletable(line))
    BY <2>1, <2>3 DEF CutRight
  <2> QED
    BY <2>2, <2>3
<1> QED
  BY <1>1, <1>2, <1>3, <1>4 DEF ShellNext, MainThread, GetsRuns, shellVars

\* The command and its switches are the words of the line as it was edited, each in
\* its place, and nothing else, for any number of switches and any length of a line.
THEOREM WordsAreWhatWasTyped == ShellSpec => ParsesWhatWasTyped
<1>1. ShellInit => Base /\ CutRight
  BY ShellBegins DEF ShellInit, CutRight
<1>2. Base /\ Base' /\ CutRight /\ [ShellNext]_shellVars => CutRight'
  BY CutKeeps
<1>3. Base /\ CutRight /\ [ShellNext]_shellVars =>
        [Parsing("string") /\ Deletable(line) =>
           words'[next] = WordOf(Edited[line], next)]_shellVars
  <2> SUFFICES ASSUME Base, CutRight, [ShellNext]_shellVars,
                      Parsing("string"), Deletable(line)
               PROVE  words'[next] = WordOf(Text, next)
    BY DEF Text
  <2>1. ParseWord
    BY OnlyParseWord
  <2>2. parsed' = "string"
    BY DEF Parsing
  <2> QED
    BY <2>1, <2>2, WordsRight
<1> QED
  BY <1>1, <1>2, <1>3, BaseAlways, PTL DEF ShellSpec, ParsesWhatWasTyped

-----------------------------------------------------------------------------
(* A line gets() gives up on *)

\* The array begins with blanks up to b and a piece up to e, and ends there.
FirstAt(b, e) ==
  /\ b \in 0..Edge /\ e \in 0..Edge /\ b <= e
  /\ \A n \in 0..(b - 1) : Byte(n) = Space
  /\ \A n \in b..(e - 1) : Byte(n) \notin {Space, NUL}
  /\ Byte(e) = NUL

\* It is the command, and what strtok() still has to read is behind it.
Left(b, e) ==
  /\ FirstAt(b, e)
  /\ words[1] # Null => b < e /\ words[1] = [n \in 1..(e - b) |-> s[b + n - 1]]
  /\ next > 1 /\ p # End => e < p

\* Nothing has been written into the array since the command was cut off.
Untouched ==
  \/ line = <<>> /\ (asked \/ outcome = "null")
  \/ ~asked /\ outcome = "none"

FirstStays == Untouched => \E b, e \in 0..Edge : Left(b, e)

NoMore == next > 1 /\ parsed = "null" /\ line = <<>> => p = End

\* strtok() finds the first piece of the array where it is.
LEMMA FirstFound ==
  ASSUME GetsTypes, NEW b, NEW e, FirstAt(b, e), NEW c \in 0..Edge, NEW d \in 0..Edge,
         next = 1, WordHere(c, d), (c = d /\ Missing(c)) \/ CutOff(c, d)
  PROVE  b = c /\ e = d
<1>1. /\ b \in 0..Edge /\ e \in 0..Edge /\ b <= e /\ Edge \in Nat
      /\ \A n \in 0..(b - 1) : Byte(n) = Space
      /\ \A n \in b..(e - 1) : Byte(n) \notin {Space, NUL}
      /\ Byte(e) = NUL
  BY Bytes DEF FirstAt
<1>2. /\ c <= d
      /\ \A n \in 0..(c - 1) : Byte(n) = Space
      /\ \A n \in c..(d - 1) : Byte(n) \notin {Space, NUL}
  BY DEF WordHere, From
<1>3. Byte(d) \in {Space, NUL} /\ (c = d => Byte(d) = NUL)
  BY <1>1, Bytes DEF Missing, CutOff
<1>4. NUL # Space
  BY DEF NUL, Space
<1>5. Byte(b) # Space
  <2>1. b = e \/ b \in b..(e - 1)
    BY <1>1
  <2> QED
    BY <1>1, <1>4, <2>1
<1>6. Byte(c) # Space
  <2>1. c = d \/ c \in c..(d - 1)
    BY <1>1, <1>2
  <2> QED
    BY <1>2, <1>3, <1>4, <2>1
<1>7. b = c
  <2>1. b \notin 0..(c - 1) /\ c \notin 0..(b - 1)
    BY <1>1, <1>2, <1>5, <1>6
  <2> QED
    BY <1>1, <2>1
<1>8. e = d
  <2>1. e \notin c..(d - 1) /\ d \notin b..(e - 1)
    BY <1>1, <1>2, <1>3
  <2> QED
    BY <1>1, <1>2, <1>7, <2>1
<1> QED
  BY <1>7, <1>8

\* What is in the array before a place a step does not write at stays there.
LEMMA StaysBefore ==
  ASSUME GetsTypes, NEW b \in 0..Edge, NEW e \in 0..Edge, b <= e, NEW d \in 0..Edge, e <= d,
         s' = s \/ (d < Edge /\ s' = [s EXCEPT ![d] = NUL]),
         \A n \in 0..(b - 1) : Byte(n) = Space,
         \A n \in b..(e - 1) : Byte(n) \notin {Space, NUL},
         Byte(e) = NUL \/ (e = d /\ d < Edge /\ s' = [s EXCEPT ![d] = NUL])
  PROVE  /\ FirstAt(b, e)'
         /\ \A n \in 1..(e - b) : s'[b + n - 1] = s[b + n - 1]
<1>1. Edge \in Nat /\ Edge' = Edge
  BY Bytes DEF Edge
<1>2. ASSUME NEW n \in 0..(Edge - 1), n # d
      PROVE  s'[n] = s[n]
  <2>1. n \in Memory /\ s \in [Memory -> Char \cup {Garbage}]
    BY Bytes DEF GetsTypes
  <2> QED
    BY <1>2, <2>1
<1>3. ASSUME NEW n \in 0..(e - 1)
      PROVE  Byte(n)' = Byte(n)
  <2>1. n \in 0..(Edge - 1) /\ n # d
    BY <1>1
  <2> QED
    BY <1>1, <1>2, <2>1 DEF Byte
<1>4. Byte(e)' = NUL
  <2>1. CASE e = Edge
    BY <1>1, <2>1 DEF Byte
  <2>2. CASE e # Edge /\ e # d
    <3>1. e \in 0..(Edge - 1)
      BY <1>1, <2>2
    <3>2. Byte(e) = NUL
      BY <2>2
    <3> QED
      BY <1>1, <1>2, <2>2, <3>1, <3>2 DEF Byte
  <2>3. CASE s' = s /\ Byte(e) = NUL
    BY <1>1, <2>3 DEF Byte
  <2>4. CASE e # Edge /\ e = d /\ s' = [s EXCEPT ![d] = NUL]
    <3>1. e \in Memory /\ s \in [Memory -> Char \cup {Garbage}]
      <4>1. e \in 0..(Edge - 1)
        BY <1>1, <2>4
      <4> QED
        BY <4>1, Bytes DEF GetsTypes
    <3> QED
      BY <1>1, <2>4, <3>1 DEF Byte
  <2> QED
    BY <1>1, <2>1, <2>2, <2>3, <2>4
<1>5. \A n \in 1..(e - b) : s'[b + n - 1] = s[b + n - 1]
  <2>1. ASSUME NEW n \in 1..(e - b)
        PROVE  s'[b + n - 1] = s[b + n - 1]
    <3>1. b + n - 1 \in 0..(Edge - 1) /\ b + n - 1 # d
      BY <1>1
    <3> QED
      BY <1>2, <3>1
  <2> QED
    BY <2>1
<1>6. FirstAt(b, e)'
  <2>1. \A n \in 0..(b - 1) : Byte(n)' = Space
    <3>1. \A n \in 0..(b - 1) : n \in 0..(e - 1)
      BY <1>1
    <3> QED
      BY <1>3, <3>1
  <2>2. \A n \in b..(e - 1) : Byte(n)' \notin {Space, NUL}
    <3>1. \A n \in b..(e - 1) : n \in 0..(e - 1)
      BY <1>1
    <3> QED
      BY <1>3, <3>1
  <2> QED
    BY <1>1, <1>4, <2>1, <2>2 DEF FirstAt
<1> QED
  BY <1>5, <1>6

LEMMA FirstBegins ==
  ASSUME ShellInit
  PROVE  FirstStays
<1>1. Edge \in Nat /\ 0 \in 0..Edge /\ Edge \in 0..Edge
  BY Bytes
<1>2. \A n \in 0..(Edge - 1) : Byte(n) = Garbage
  <2>1. \A n \in Memory : s[n] = Garbage
    BY DEF ShellInit, GetsInit
  <2> QED
    BY <2>1, Bytes
<1>3. Garbage \notin {Space, NUL}
  BY DEF Garbage, Space, NUL
<1>4. FirstAt(0, Edge)
  BY <1>1, <1>2, <1>3, Bytes DEF FirstAt
<1>5. words[1] = Null /\ next = 1
  BY WordsAssumption DEF ShellInit
<1>6. Left(0, Edge)
  BY <1>4, <1>5 DEF Left
<1> QED
  BY <1>1, <1>6 DEF FirstStays

\* The command itself.
LEMMA FirstCut ==
  ASSUME Base, ParseWord, next = 1, NEW b \in 0..Edge, NEW e \in 0..Edge, WordHere(b, e),
         (b = e /\ Missing(b)) \/ CutOff(b, e)
  PROVE  Left(b, e)'
<1>1. /\ 0 <= b /\ b <= e
      /\ \A n \in 0..(b - 1) : Byte(n) = Space
      /\ \A n \in b..(e - 1) : Byte(n) \notin {Space, NUL}
  BY DEF WordHere, From
<1>2. 1 \in DOMAIN words /\ Edge \in Nat
  BY WordsAssumption, Bytes DEF Base, ShellTypes
<1>3. GetsTypes
  BY DEF Base, GetsInv
<1>4. CASE Missing(b) /\ b = e
  <2>1. Byte(e) = NUL /\ s' = s /\ words'[1] = Null /\ p' = End
    BY <1>2, <1>4 DEF Missing
  <2>2. FirstAt(b, e)'
    BY <1>1, <1>3, <2>1, StaysBefore
  <2> QED
    BY <2>1, <2>2 DEF Left
<1>5. CASE CutOff(b, e)
  <2>1. /\ b < e /\ words'[1] = [n \in 1..(e - b) |-> s[b + n - 1]]
        /\ s' = s \/ (e < Edge /\ s' = [s EXCEPT ![e] = NUL])
        /\ p' = End \/ p' = e + 1
        /\ Byte(e) = NUL \/ (e < Edge /\ s' = [s EXCEPT ![e] = NUL])
    BY <1>2, <1>5, Bytes DEF CutOff
  <2>2. FirstAt(b, e)' /\ \A n \in 1..(e - b) : s'[b + n - 1] = s[b + n - 1]
    <3>1. e <= e
      BY <1>2
    <3> QED
      BY <1>1, <1>3, <2>1, <3>1, StaysBefore
  <2>3. words'[1] = [n \in 1..(e - b) |-> s'[b + n - 1]]
    BY <2>1, <2>2
  <2>4. p' # End => e < p'
    BY <1>2, <2>1
  <2> QED
    BY <2>1, <2>2, <2>3, <2>4 DEF Left
<1> QED
  BY <1>4, <1>5

\* A switch.
LEMMA SwitchCut ==
  ASSUME Base, ParseWord, next > 1, NEW b, NEW e, Left(b, e)
  PROVE  Left(b, e)'
<1>1. GetsTypes /\ Edge \in Nat /\ next # 1 /\ strtok /\ DOMAIN words = 1..Words
      /\ next \in 1..Words /\ Words \in Nat
  BY WordsAssumption, Bytes DEF Base, GetsInv, ShellTypes, ParseWord
<1>2. /\ b \in 0..Edge /\ e \in 0..Edge /\ b <= e
      /\ \A n \in 0..(b - 1) : Byte(n) = Space
      /\ \A n \in b..(e - 1) : Byte(n) \notin {Space, NUL}
      /\ Byte(e) = NUL
      /\ words[1] # Null => b < e /\ words[1] = [n \in 1..(e - b) |-> s[b + n - 1]]
      /\ p # End => e < p
  BY DEF Left, FirstAt
<1>3. \A w : words' = [words EXCEPT ![next] = w] => words'[1] = words[1]
  BY <1>1
<1>4. ASSUME NEW d \in 0..Edge, e <= d, s' = s \/ (d < Edge /\ s' = [s EXCEPT ![d] = NUL]),
             p' # End => e < p', words'[1] = words[1]
      PROVE  Left(b, e)'
  <2>1. FirstAt(b, e)' /\ \A n \in 1..(e - b) : s'[b + n - 1] = s[b + n - 1]
    BY <1>1, <1>2, <1>4, StaysBefore
  <2>2. [n \in 1..(e - b) |-> s'[b + n - 1]] = [n \in 1..(e - b) |-> s[b + n - 1]]
    BY <2>1
  <2> QED
    BY <1>2, <1>4, <2>1, <2>2 DEF Left
<1>5. CASE p = End /\ p' = End /\ s' = s /\ words' = [words EXCEPT ![next] = Null]
  BY <1>2, <1>3, <1>4, <1>5
<1>6. ASSUME NEW c \in 0..Edge, NEW d \in 0..Edge, WordHere(c, d),
             (c = d /\ Missing(c)) \/ CutOff(c, d)
      PROVE  Left(b, e)'
  <2>1. e < p /\ p <= c /\ c <= d /\ p \in Int
    BY <1>1, <1>2, <1>6 DEF WordHere, From
  <2>2. e <= d
    BY <1>2, <2>1
  <2>3. /\ s' = s \/ (d < Edge /\ s' = [s EXCEPT ![d] = NUL])
        /\ p' = End \/ p' = d + 1
        /\ words'[1] = words[1]
    BY <1>3, <1>6 DEF Missing, CutOff
  <2>4. p' # End => e < p'
    BY <1>2, <2>2, <2>3
  <2> QED
    BY <1>4, <2>2, <2>3, <2>4
<1> QED
  <2>1. ShellTypes
    BY DEF Base
  <2> QED
    BY <1>1, <1>5, <1>6, <2>1, StrtokDoes

LEMMA FirstKeeps ==
  ASSUME Base, FirstStays, [ShellNext]_shellVars
  PROVE  FirstStays'
<1>1. CASE UNCHANGED <<gets, shell>>
  BY <1>1 DEF FirstStays, Untouched, Left, FirstAt, Byte, Edge, gets, shell
<1>2. CASE AskLine
  <2>1. Untouched /\ UNCHANGED <<s, words, next, p>>
    BY <1>2 DEF AskLine, Answered, GetsCall, shell, Untouched, Base, GetsInv, GetsTypes
  <2> QED
    BY <2>1 DEF FirstStays, Left, FirstAt, Byte, Edge
<1>3. CASE Return /\ GetsTake(keyBuff[0]) /\ UNCHANGED shell
  <2>1. asked /\ line \in Seq(Char) /\ keyBuff[0] \in Char
    BY <1>3, RoomInMemory DEF Base, GetsInv, GetsTypes
  <2>2. CASE GetsNothing(keyBuff[0])
    <3>1. Untouched' => Untouched
      BY <2>1, <2>2 DEF GetsNothing, Untouched
    <3> QED
      BY <1>3, <2>2, <3>1 DEF FirstStays, GetsNothing, Left, FirstAt, Byte, Edge, shell
  <2>3. CASE GetsNewline(keyBuff[0])
    BY <2>3 DEF GetsNewline, FirstStays, Untouched
  <2>4. CASE GetsBackspace(keyBuff[0]) \/ GetsCharacter(keyBuff[0])
    <3>1. asked' /\ line' = Append(line, keyBuff[0])
      BY <2>1, <2>4 DEF GetsBackspace, GetsCharacter
    <3>2. line' # <<>>
      BY <2>1, <3>1, AppendProperties
    <3> QED
      BY <3>1, <3>2 DEF FirstStays, Untouched
  <2> QED
    BY <1>3, <2>2, <2>3, <2>4 DEF GetsTake
<1>4. CASE ParseWord
  <2>1. CASE next = 1
    <3>1. \E b, e \in 0..Edge : WordHere(b, e) /\ ((b = e /\ Missing(b)) \/ CutOff(b, e))
      BY <1>4, <2>1, StrtokDoes DEF Base, GetsInv, ParseWord
    <3>2. \E b, e \in 0..Edge : Left(b, e)'
      BY <1>4, <2>1, <3>1, FirstCut
    <3> QED
      BY <3>2 DEF FirstStays, Edge
  <2>2. CASE next > 1
    <3>1. Untouched
      BY <2>2 DEF Base, ShellTypes, Untouched
    <3>2. \E b, e \in 0..Edge : Left(b, e)'
      BY <1>4, <2>2, <3>1, SwitchCut DEF FirstStays
    <3> QED
      BY <3>2 DEF FirstStays, Edge
  <2> QED
    BY <2>1, <2>2, WordsAssumption DEF Base, ShellTypes
<1> QED
  BY <1>1, <1>2, <1>3, <1>4 DEF ShellNext, MainThread, GetsRuns, shellVars

\* What the shell makes of such a line.
LEMMA OldCommand ==
  ASSUME Base, FirstStays, NoMore, ParseWord, parsed' = "null", line = <<>>
  PROVE  /\ words[1] # Null => words'[next] = IF next = 1 THEN words[1] ELSE Null
         /\ p' = End
<1>1. /\ strtok /\ ~asked /\ parsed' = IF next = 1 THEN outcome ELSE parsed
      /\ next \in 1..Words /\ Words \in Nat /\ DOMAIN words = 1..Words
  BY WordsAssumption DEF ParseWord, Answered, Base, ShellTypes
<1>2. CASE next = 1
  <2>1. PICK b \in 0..Edge : \E e \in 0..Edge : Left(b, e)
    BY <1>1, <1>2 DEF FirstStays, Untouched
  <2>2. PICK e \in 0..Edge : Left(b, e)
    BY <2>1
  <2>3. PICK c \in 0..Edge : \E d \in 0..Edge :
          WordHere(c, d) /\ ((c = d /\ Missing(c)) \/ CutOff(c, d))
    BY <1>1, <1>2, StrtokDoes DEF Base, GetsInv
  <2>4. PICK d \in 0..Edge : WordHere(c, d) /\ ((c = d /\ Missing(c)) \/ CutOff(c, d))
    BY <2>3
  <2>5. b = c /\ e = d /\ Byte(e) = NUL
    <3>1. GetsTypes
      BY DEF Base, GetsInv
    <3>2. FirstAt(b, e)
      BY <2>2 DEF Left
    <3>3. b = c /\ e = d
      BY <1>2, <2>4, <3>1, <3>2, FirstFound
    <3> QED
      BY <3>2, <3>3 DEF FirstAt
  <2>6. NUL # Space
    BY DEF NUL, Space
  <2>7. p' = End
    BY <2>4, <2>5, <2>6 DEF Missing, CutOff
  <2>8. words[1] # Null => words'[1] = words[1]
    <3>1. words[1] # Null => b < e /\ words[1] = [n \in 1..(e - b) |-> s[b + n - 1]]
      BY <2>2 DEF Left
    <3>2. b < e => words'[1] = [n \in 1..(e - b) |-> s[b + n - 1]]
      <4>1. b < e => CutOff(c, d)
        BY <2>4, <2>5
      <4>2. CutOff(c, d) => words'[1] = [n \in 1..(d - c) |-> s[c + n - 1]]
        BY <1>1, <1>2 DEF CutOff
      <4> QED
        BY <2>5, <4>1, <4>2
    <3> QED
      BY <3>1, <3>2
  <2> QED
    BY <1>2, <2>7, <2>8
<1>3. CASE next > 1
  <2>1. p = End /\ next # 1
    BY <1>1, <1>3 DEF NoMore
  <2>2. words' = [words EXCEPT ![next] = Null] /\ p' = End
    BY <1>1, <1>3, <2>1, StrtokDoes DEF Base, GetsInv, WordHere
  <2> QED
    BY <1>1, <2>1, <2>2
<1> QED
  BY <1>1, <1>2, <1>3

LEMMA NoMoreKeeps ==
  ASSUME Base, FirstStays, NoMore, [ShellNext]_shellVars
  PROVE  NoMore'
<1>1. CASE UNCHANGED <<gets, shell>>
  BY <1>1 DEF NoMore, gets, shell
<1>2. CASE AskLine
  <2>1. ~(next > 1) /\ next' = next
    BY <1>2 DEF AskLine, Answered, GetsCall, shell
  <2> QED
    BY <2>1 DEF NoMore
<1>3. CASE Return /\ UNCHANGED shell
  <2>1. ~(next > 1)
    BY <1>3, RoomInMemory DEF Base, ShellTypes
  <2> QED
    BY <1>3, <2>1 DEF NoMore, shell
<1>4. CASE ParseWord
  <2>1. line' = line
    BY <1>4 DEF ParseWord
  <2> QED
    BY <1>4, <2>1, OldCommand DEF NoMore
<1> QED
  BY <1>1, <1>2, <1>3, <1>4 DEF ShellNext, MainThread, GetsRuns, shellVars

\* A line gets() gives up on at its first key is parsed as the command that was typed
\* before it, without the switches, however many lines ago that was.
THEOREM OldCommandAgain == ShellSpec => ParsesTheOldCommand
<1>1. ShellInit => Base /\ FirstStays /\ NoMore
  BY ShellBegins, FirstBegins DEF ShellInit, NoMore
<1>2. Base /\ FirstStays /\ NoMore /\ [ShellNext]_shellVars => FirstStays' /\ NoMore'
  BY FirstKeeps, NoMoreKeeps
<1>3. Base /\ FirstStays /\ NoMore /\ [ShellNext]_shellVars =>
        [Parsing("null") /\ line = <<>> /\ words[1] # Null =>
           words'[next] = IF next = 1 THEN words[1] ELSE Null]_shellVars
  <2> SUFFICES ASSUME Base, FirstStays, NoMore, [ShellNext]_shellVars,
                      Parsing("null"), line = <<>>, words[1] # Null
               PROVE  words'[next] = IF next = 1 THEN words[1] ELSE Null
    OBVIOUS
  <2>1. ParseWord
    BY OnlyParseWord
  <2>2. parsed' = "null"
    BY DEF Parsing
  <2> QED
    BY <2>1, <2>2, OldCommand
<1> QED
  BY <1>1, <1>2, <1>3, BaseAlways, PTL DEF ShellSpec, ParsesTheOldCommand

=============================================================================
