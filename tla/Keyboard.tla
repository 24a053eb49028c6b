------------------------------ MODULE Keyboard ------------------------------
(***************************************************************************)
(* The PS/2 keyboard driver of ScorchOS, src/kb.c: the scan code decoder   *)
(* and lock keys that run in the interrupt handler of IRQ 1, the buffer    *)
(* keyBuff it fills, and getchar_int(), which the main thread of the       *)
(* kernel calls to take a character out of that buffer.                    *)
(*                                                                         *)
(* The handler runs with interrupts off (its gate is an interrupt gate),   *)
(* so one interrupt is one action.  getchar_int() runs with interrupts on  *)
(* except between its cli and its sti, so it is four actions: the call,    *)
(* the exit of the spin loop, the part between cli and sti, and the read   *)
(* of keyBuff[0] that the source places after sti.                         *)
(*                                                                         *)
(* The keyboard itself is external: which keys are down and which of them  *)
(* the typematic repeat sends again (the last one pressed, while held).    *)
(***************************************************************************)
EXTENDS Integers, Sequences

CONSTANTS
  Keys,      \* the keys of this keyboard, by make code
  Wrap,      \* keyBuffEnd is an unsigned char: it counts modulo 256
  KeyLimit   \* bound of the model: how many characters are ever typed

\* Make codes of the keys the decoder treats specially; the break code of a
\* key is its make code with bit 7 set.
RShift == 54
LShift == 42
Control == 29
Alt == 56
CapsKey == 58
NumKey == 69
ScrollKey == 70
NoKey == 0
Up(k) == k + 128

Shifts       == {RShift, LShift}
LockKeys     == {CapsKey, NumKey, ScrollKey}
SpecialKeys  == Shifts \cup {Control, Alt} \cup LockKeys

\* The characters of a key: plain, shifted, caps lock, caps lock and shifted
\* (four tables of 128 entries).  One key stands for each kind of row: a
\* letter, a digit, space, backspace, return, and a key the tables give no
\* character.
NUL == "NUL"
Backspace == "BS"
Newline == "LF"
Space == " "
CharKeys == {2, 14, 16, 28, 57, 59}
kbScanCodes ==
  [k \in CharKeys |-> CASE k = 2  -> <<"1", "!", "1", "!">>
                        [] k = 14 -> <<Backspace, Backspace, Backspace, Backspace>>
                        [] k = 16 -> <<"q", "Q", "Q", "q">>
                        [] k = 28 -> <<Newline, Newline, Newline, Newline>>
                        [] k = 57 -> <<Space, Space, Space, Space>>
                        [] k = 59 -> <<NUL, NUL, NUL, NUL>>]
Char == {NUL} \cup {kbScanCodes[k][n] : k \in CharKeys, n \in 1..4}

ASSUME KeysAssumption  == Keys \subseteq SpecialKeys \cup CharKeys
ASSUME WrapAssumption  == Wrap \in Nat /\ Wrap > 1
ASSUME LimitAssumption == KeyLimit \in Nat

VARIABLES
  shift, ctrl, alt, caps, num,  \* the control lines
  leds,         \* the LEDs that are lit, a subset of LockKeys
  specKeyUp,    \* no lock key is being held down
  keyBuff,      \* the 257 bytes of the buffer; index 0 is the one returned
  keyBuffEnd,   \* index of the last key in the buffer
  rd,           \* where the main thread is in getchar_int()
  held,         \* external: the keys that are down
  repeating,    \* external: the key the typematic repeat sends, or NoKey
  typed,        \* history: the characters the handler has buffered
  delivered,    \* history: the characters getchar_int() has returned
  overrun,      \* history: keyBuffEnd has wrapped to 0
  capsPresses, numPresses,  \* history: parity of the presses of the locks
  chord,        \* history: two lock keys were down together
  lowered       \* history: of two shifts one was released, and none pressed since

lines    == <<shift, ctrl, alt>>
locks    == <<caps, num, leds, specKeyUp>>
buffer   == <<keyBuff, keyBuffEnd>>
keyboard == <<held, repeating, capsPresses, numPresses, chord, lowered>>
vars == <<lines, locks, buffer, rd, keyboard, typed, delivered, overrun>>

Readers == {"away", "spin", "cli", "sti"}

Init ==
  /\ shift = FALSE /\ ctrl = FALSE /\ alt = FALSE
  /\ caps = FALSE /\ num = FALSE /\ leds = {} /\ specKeyUp = TRUE
  /\ keyBuff = [n \in 0..Wrap |-> NUL] /\ keyBuffEnd = 0
  /\ rd = "away"
  /\ held = {} /\ repeating = NoKey
  /\ typed = <<>> /\ delivered = <<>> /\ overrun = FALSE
  /\ capsPresses = FALSE /\ numPresses = FALSE /\ chord = FALSE /\ lowered = FALSE

-----------------------------------------------------------------------------
(* kb_special: the control lines and the locks *)

\* UpdateLeds(led): the LED is toggled, whatever the lock it belongs to.
UpdateLeds(led) == leds' = IF led \in leds THEN leds \ {led} ELSE leds \cup {led}

ControlLine(code) ==
  /\ shift' = IF code \in Shifts THEN TRUE
              ELSE IF code \in {Up(k) : k \in Shifts} THEN FALSE ELSE shift
  /\ ctrl'  = IF code = Control THEN TRUE ELSE IF code = Up(Control) THEN FALSE ELSE ctrl
  /\ alt'   = IF code = Alt THEN TRUE ELSE IF code = Up(Alt) THEN FALSE ELSE alt

\* Mutant: specKeyUp is not tested, so the typematic repeat toggles the lock.
LockDownAgain(code) ==
  /\ code \in LockKeys
  /\ caps' = IF code = CapsKey THEN ~caps ELSE caps
  /\ num'  = IF code = CapsKey THEN num ELSE ~num
  /\ UpdateLeds(code)
  /\ specKeyUp' = FALSE

\* A lock toggles on the way down unless a lock key is already down.
LockDown(code) ==
  /\ code \in LockKeys /\ specKeyUp
  /\ caps' = IF code = CapsKey THEN ~caps ELSE caps
  /\ num'  = IF code = CapsKey THEN num ELSE ~num
  /\ UpdateLeds(code)
  /\ specKeyUp' = FALSE

LockUp(code) ==
  /\ code \in {Up(k) : k \in LockKeys}
  /\ specKeyUp' = TRUE
  /\ UNCHANGED <<caps, num, leds>>

NoLock(code) ==
  /\ code \notin {Up(k) : k \in LockKeys}
  /\ code \in LockKeys => ~specKeyUp
  /\ UNCHANGED locks

kb_special(code) ==
  /\ ControlLine(code)
  /\ LockDown(code) \/ LockUp(code) \/ NoLock(code)

-----------------------------------------------------------------------------
(* keyboard_handler *)

\* Mutant: the offsets of the shifted and the caps lock tables are exchanged.
SectionSwapped(sh, ca) == 1 + (IF sh THEN 2 ELSE 0) + (IF ca THEN 1 ELSE 0)

\* The table section the control lines select: 0, +128, +256 or +384.
Section(sh, ca) == 1 + (IF sh THEN 1 ELSE 0) + (IF ca THEN 2 ELSE 0)

\* Mutant: the character is stored before keyBuffEnd is incremented.
BufferEarly(c) ==
  LET end == (keyBuffEnd + 1) % Wrap IN
  /\ keyBuffEnd' = end
  /\ keyBuff' = [keyBuff EXCEPT ![keyBuffEnd] = c]
  /\ typed' = Append(typed, c)
  /\ overrun' = (overrun \/ end = 0)

Buffer(c) ==
  LET end == (keyBuffEnd + 1) % Wrap IN
  /\ keyBuffEnd' = end
  /\ keyBuff' = [keyBuff EXCEPT ![end] = c]
  /\ typed' = Append(typed, c)
  /\ overrun' = (overrun \/ end = 0)

\* Only a make code that kb_special() does not know is looked up and buffered.
\* Echoing it on the screen is not part of this module.
keyboard_handler(code) ==
  /\ kb_special(code)
  /\ IF code \in SpecialKeys \/ code >= 128
     THEN UNCHANGED <<buffer, typed, overrun>>
     ELSE /\ Len(typed) < KeyLimit
          /\ Buffer(kbScanCodes[code][Section(shift, caps)])

-----------------------------------------------------------------------------
(* The keyboard: every event is a scan code and an interrupt *)

Press(k) ==
  /\ k \notin held
  /\ held' = held \cup {k}
  /\ repeating' = k
  /\ capsPresses' = (IF k = CapsKey THEN ~capsPresses ELSE capsPresses)
  /\ numPresses'  = (IF k \in {NumKey, ScrollKey} THEN ~numPresses ELSE numPresses)
  /\ chord' = (chord \/ (k \in LockKeys /\ held \cap LockKeys # {}))
  /\ lowered' = (lowered /\ k \notin Shifts)
  /\ keyboard_handler(k)

Release(k) ==
  /\ k \in held
  /\ held' = held \ {k}
  /\ repeating' = IF repeating = k THEN NoKey ELSE repeating
  /\ lowered' = IF k \in Shifts THEN held' \cap Shifts # {} ELSE lowered
  /\ UNCHANGED <<capsPresses, numPresses, chord>>
  /\ keyboard_handler(Up(k))

Repeat(k) ==
  /\ repeating = k
  /\ lowered' = (lowered /\ k \notin Shifts)
  /\ UNCHANGED <<held, repeating, capsPresses, numPresses, chord>>
  /\ keyboard_handler(k)

Key == \E k \in Keys : Press(k) \/ Release(k) \/ Repeat(k)
KeyEvent == Key /\ UNCHANGED <<rd, delivered>>

-----------------------------------------------------------------------------
(* getchar_int, called by the main thread *)

Call ==
  /\ rd = "away" /\ rd' = "spin"
  /\ UNCHANGED <<lines, locks, buffer, keyboard, typed, delivered, overrun>>

\* Mutant: the spin loop is left without looking at keyBuffEnd.
SpinExitBlind ==
  /\ rd = "spin" /\ rd' = "cli"
  /\ UNCHANGED <<lines, locks, buffer, keyboard, typed, delivered, overrun>>

\* Mutant: the spin loop waits for a second key.
SpinExitLate ==
  /\ rd = "spin" /\ keyBuffEnd > 1
  /\ rd' = "cli"
  /\ UNCHANGED <<lines, locks, buffer, keyboard, typed, delivered, overrun>>

\* while (keyBuffEnd == 0);  an interrupt may come before the cli.
SpinExit ==
  /\ rd = "spin" /\ keyBuffEnd # 0
  /\ rd' = "cli"
  /\ UNCHANGED <<lines, locks, buffer, keyboard, typed, delivered, overrun>>

\* Between cli and sti: shift the buffer down by one, keyBuffEnd--.
Shift ==
  /\ rd = "cli"
  /\ keyBuff' = [n \in 0..Wrap |-> IF n < keyBuffEnd THEN keyBuff[n + 1] ELSE keyBuff[n]]
  /\ keyBuffEnd' = (keyBuffEnd + Wrap - 1) % Wrap
  /\ rd' = "sti"
  /\ UNCHANGED <<lines, locks, keyboard, typed, delivered, overrun>>

\* return keyBuff[0], with interrupts on again.
Return ==
  /\ rd = "sti"
  /\ delivered' = Append(delivered, keyBuff[0])
  /\ rd' = "away"
  /\ UNCHANGED <<lines, locks, buffer, keyboard, typed, overrun>>

Getchar == SpinExit \/ Shift \/ Return

Next == KeyEvent \/ Call \/ Getchar

\* The main thread runs whenever no interrupt does, and interrupts end: it is
\* never starved.  Nobody has to press a key.
Spec == Init /\ [][Next]_vars /\ WF_vars(Call \/ Getchar)

-----------------------------------------------------------------------------
(* Properties *)

\* Every variable has its type; keyBuffEnd stays an index of keyBuff.
TypeOK ==
  /\ shift \in BOOLEAN /\ ctrl \in BOOLEAN /\ alt \in BOOLEAN
  /\ caps \in BOOLEAN /\ num \in BOOLEAN /\ leds \subseteq LockKeys
  /\ specKeyUp \in BOOLEAN
  /\ keyBuff \in [0..Wrap -> Char] /\ keyBuffEnd \in 0..(Wrap - 1)
  /\ rd \in Readers
  /\ held \subseteq Keys /\ repeating \in held \cup {NoKey}
  /\ typed \in Seq(Char) /\ delivered \in Seq(Char)
  /\ overrun \in BOOLEAN
  /\ capsPresses \in BOOLEAN /\ numPresses \in BOOLEAN /\ chord \in BOOLEAN
  /\ lowered \in BOOLEAN

InFlight == IF rd = "sti" THEN 1 ELSE 0

\* Until the buffer overruns, what was typed is what getchar_int() has
\* returned, then the character it is about to return, then keyBuff[1] to
\* keyBuff[keyBuffEnd]: no interrupt between the spin, the cli, the shift and
\* the read of keyBuff[0] loses, repeats or reorders a key.
KeysInOrder ==
  ~overrun =>
    /\ Len(typed) = Len(delivered) + InFlight + keyBuffEnd
    /\ \A n \in 1..Len(delivered) : delivered[n] = typed[n]
    /\ rd = "sti" => keyBuff[0] = typed[Len(delivered) + 1]
    /\ \A n \in 1..keyBuffEnd : keyBuff[n] = typed[Len(delivered) + InFlight + n]
    /\ rd = "cli" => keyBuffEnd > 0

\* Even when the buffer has overrun, and keyBuffEnd has underflowed after it,
\* getchar_int() returns only characters that were typed, and no more of them
\* than were: it never exposes a byte of keyBuff the handler did not write, and
\* what an underflow gives back makes up for keys that the wrap had lost.
OnlyTypedKeys ==
  /\ Len(delivered) <= Len(typed)
  /\ \A n \in 1..Len(delivered) : \E m \in 1..Len(typed) : delivered[n] = typed[m]

\* Unless the buffer overruns, every key typed is returned in the end: the
\* spin loop sees the handler's write and no key is left behind.
EveryKeyDelivered == <>[](overrun \/ delivered = typed)

\* A lock follows the presses of its key, however long a key is held and
\* repeated: one press, one toggle (Scroll Lock counts as Num Lock, as it does
\* in kb_special).  Two lock keys down at once are excluded: they share
\* specKeyUp.
LocksFollowPresses ==
  ~chord => caps = capsPresses /\ num = numPresses

\* What a key reads as.
Reads(k, down, locked) ==
  IF k = 16 THEN IF down # locked THEN "Q" ELSE "q"
  ELSE kbScanCodes[k][IF down THEN 2 ELSE 1]

\* A character is buffered as the keys that are down and the presses of Caps
\* Lock say it should be read, at the moment of the interrupt, with two exceptions.
\* Any shift that goes up clears the one line both share: from then on, until a
\* shift goes down or repeats, characters read as without a shift although one is
\* down (lowered).  And two lock keys down at once are excluded, as above.
BufferedAsHeld ==
  [][typed' # typed /\ ~chord =>
       typed'[Len(typed')] =
         Reads(repeating', held \cap Shifts # {} /\ ~lowered, capsPresses)]_vars

=============================================================================
