------------------------------- MODULE Screen --------------------------------
(***************************************************************************)
(* The text screen of ScorchOS, src/scrn.c: putch(), scroll(), cls() and   *)
(* move_csr() as the main thread runs them, one access to csr_x, csr_y,    *)
(* the text memory or the CRT controller a step, and the echo of the       *)
(* keyboard interrupt (kb.c), which runs the same putch() from beginning   *)
(* to end between any two of these steps.                                  *)
(*                                                                         *)
(* csr_x and csr_y are plain globals: an increment is a load and a store.  *)
(* The colour, which nothing changes, is left out.                         *)
(***************************************************************************)
EXTENDS Integers

CONSTANTS
  Width, Height,   \* 80 columns and 25 rows
  Tab,             \* 8
  ByteSize,        \* 256: the cursor's position goes out in two bytes
  Blank,
  Printed,         \* the characters the main thread prints
  Echoed           \* the characters the keyboard echoes

ASSUME SizeAssumption == /\ {Width, Height, Tab, ByteSize} \subseteq Nat \ {0}
                         /\ Width % Tab = 0

\* No text of the kernel holds a backspace, and gets() keeps none.
ASSUME PrintedAssumption == "BS" \notin Printed

VARIABLES
  csr_x, csr_y,
  textmem,         \* the rows that are shown, from textmemptr on
  crtc,            \* the CRT controller: register selected, cursor high, low
  pc, c,           \* main thread: its next step, the character it prints
  tmp, row,        \* its local variables: a value loaded, a row of memcpy()
  astray,          \* history: something was stored beyond the row below the last
  before,          \* history: the screen when the operation began
  echoed,          \* history: a key was echoed inside it: "no", in its "text"
                   \*   part or while it was moving the blinking "cursor"
  mixed            \* history: the screen has been written by two at once

cursor == <<csr_x, csr_y>>
local  == <<c, tmp, row>>
history == <<before, echoed, mixed>>
vars == <<cursor, textmem, crtc, pc, local, astray, history>>

Cells   == 0..(Width * Height - 1)
Cleared == [n \in Cells |-> Blank]
Controls == {"BS", "TAB", "CR", "LF", "NUL"}
Nothing  == [text |-> Cleared, x |-> 0, y |-> 0]
Screened == [text |-> textmem, x |-> csr_x, y |-> csr_y]

\* init_video(): as cls() leaves it.
Init ==
  /\ csr_x = 0 /\ csr_y = 0 /\ textmem = Cleared
  /\ crtc = [index |-> 15, high |-> 0, low |-> 0]
  /\ pc = "idle" /\ c = "NUL" /\ tmp = 0 /\ row = 0
  /\ astray = FALSE /\ before = Nothing /\ echoed = "no" /\ mixed = FALSE

-----------------------------------------------------------------------------
(* What both contexts use *)

\* The row below the last is text memory too, and not shown.
Reachable(a) == a \in 0..(Width * (Height + 1) - 1)
Store(mem, a, char) == [n \in Cells |-> IF n = a THEN char ELSE mem[n]]
NextStop(col) == ((col + Tab) \div Tab) * Tab

CopyRow(mem, r, by) ==
  [n \in Cells |-> IF n \div Width = r THEN mem[n + by * Width] ELSE mem[n]]
ClearRow(mem, r) == [n \in Cells |-> IF n \div Width = r THEN Blank ELSE mem[n]]

\* scroll() at once: memcpy() the rows up by y - Height + 1, clear one.
Scrolled(mem, y) ==
  LET by == y - Height + 1
      kept == Height - by IN
  IF y < Height THEN mem
  ELSE [n \in Cells |-> IF n \div Width < kept THEN mem[n + by * Width]
                        ELSE IF n \div Width = kept THEN Blank ELSE mem[n]]

-----------------------------------------------------------------------------
(* The keyboard interrupt: putch(k) from beginning to end *)

\* The column putch(k) comes to, before the test for the end of the row.
EchoX(k) ==
  CASE k = "BS" -> IF csr_x = 0 THEN 0 ELSE csr_x - 1
    [] k = "TAB" -> NextStop(csr_x)
    [] k \in {"CR", "LF"} -> 0
    [] k = "NUL" -> csr_x
    [] k \notin Controls -> csr_x + 1

\* Where putch(k) stores, if it does.
EchoStores(k) == k \notin Controls \/ (k = "BS" /\ csr_x # 0)
EchoAt(k) == csr_y * Width + (IF k = "BS" THEN EchoX(k) ELSE csr_x)

\* Where the main thread is: it has accessed nothing yet, or the text and
\* csr_x, csr_y are done and the blinking cursor is left to move.
Untouched == \/ pc \in {"idle", "where", "return"}
             \/ pc = "load x" /\ c = "TAB"
             \/ pc = "end?" /\ c = "NUL"
             \/ pc = "clear" /\ row = 0
MovesCursor == {"move", "move x", "select 14", "high", "select 15", "low"}

Echo(k) ==
  LET wraps == EchoX(k) >= Width
      y == csr_y + (IF k = "LF" \/ wraps THEN 1 ELSE 0)
      text == IF ~EchoStores(k) THEN textmem
              ELSE Store(textmem, EchoAt(k), IF k = "BS" THEN Blank ELSE k)
      at == csr_y' * Width + csr_x' IN
  /\ csr_x' = IF wraps THEN 0 ELSE EchoX(k)
  /\ csr_y' = IF y >= Height THEN Height - 1 ELSE y
  /\ textmem' = Scrolled(text, y)
  /\ astray' = (astray \/ (EchoStores(k) /\ ~Reachable(EchoAt(k))))
  /\ crtc' = [index |-> 15, high |-> at \div ByteSize, low |-> at % ByteSize]
  /\ echoed' = IF pc \in MovesCursor \ {"move"} THEN "cursor"
               ELSE IF Untouched THEN "no" ELSE "text"
  /\ mixed' = (mixed \/ ~(Untouched \/ pc \in MovesCursor))
  /\ before' = IF mixed' THEN Nothing
               ELSE IF Untouched /\ pc # "idle" THEN Screened' ELSE before
  /\ UNCHANGED <<pc, local>>

-----------------------------------------------------------------------------
(* The main thread *)

Go(from, to) == pc = from /\ pc' = to

Begins ==
  /\ before' = IF mixed THEN Nothing ELSE Screened
  /\ echoed' = "no"
  /\ UNCHANGED <<mixed, cursor, textmem, crtc, astray, tmp>>

\* putch(k) up to its first access.
Putch(k) ==
  /\ Go("idle", CASE k = "TAB" -> "load x" [] k \in {"CR", "LF"} -> "return"
                  [] k = "NUL" -> "end?"
                  [] k \notin Controls -> "where")
  /\ c' = k
  /\ row' = 0
  /\ Begins

\* A character: where = textmemptr + (csr_y * 80 + csr_x); *where = c | att
Where ==
  /\ Go("where", "where x")
  /\ tmp' = csr_y * Width
  /\ UNCHANGED <<cursor, textmem, crtc, c, row, astray, history>>

WhereX ==
  /\ Go("where x", "store")
  /\ tmp' = tmp + csr_x
  /\ UNCHANGED <<cursor, textmem, crtc, c, row, astray, history>>

StoreChar ==
  /\ Go("store", "load x")
  /\ textmem' = Store(textmem, tmp, c)
  /\ astray' = (astray \/ ~Reachable(tmp))
  /\ tmp' = 0
  /\ UNCHANGED <<cursor, crtc, c, row, history>>

\* csr_x++, or to the next tabulator stop
LoadX ==
  /\ Go("load x", "store x")
  /\ tmp' = csr_x
  /\ UNCHANGED <<cursor, textmem, crtc, c, row, astray, history>>

StoreX ==
  /\ Go("store x", "end?")
  /\ csr_x' = IF c = "TAB" THEN NextStop(tmp) ELSE tmp + 1
  /\ tmp' = 0
  /\ UNCHANGED <<csr_y, textmem, crtc, c, row, astray, history>>

\* csr_x = 0, of '\r', '\n' and of the end of a row
ReturnX ==
  /\ pc \in {"return", "wrap"}
  /\ pc' = IF c = "CR" /\ pc = "return" THEN "end?"
           ELSE IF pc = "return" THEN "load y" ELSE "wrap y"
  /\ csr_x' = 0
  /\ UNCHANGED <<csr_y, textmem, crtc, local, astray, history>>

\* csr_y++, of '\n' and of the end of a row
LoadY ==
  /\ Go("load y", "store y") \/ Go("wrap y", "wrap store")
  /\ tmp' = csr_y
  /\ UNCHANGED <<cursor, textmem, crtc, c, row, astray, history>>

StoreY ==
  /\ Go("store y", "end?") \/ Go("wrap store", "scroll?")
  /\ csr_y' = tmp + 1
  /\ tmp' = 0
  /\ UNCHANGED <<csr_x, textmem, crtc, c, row, astray, history>>

\* if(csr_x >= 80)
EndOfRow ==
  /\ pc = "end?"
  /\ pc' = IF csr_x >= Width THEN "wrap" ELSE "scroll?"
  /\ UNCHANGED <<cursor, textmem, crtc, local, astray, history>>

-----------------------------------------------------------------------------
(* scroll() *)

\* Mutant: the screen scrolls a row too late.
ScrollTestLate ==
  /\ pc = "scroll?"
  /\ pc' = IF csr_y > Height THEN "by" ELSE "move"
  /\ UNCHANGED <<cursor, textmem, crtc, local, astray, history>>

\* if(csr_y >= 25)
ScrollTest ==
  /\ pc = "scroll?"
  /\ pc' = IF csr_y >= Height THEN "by" ELSE "move"
  /\ UNCHANGED <<cursor, textmem, crtc, local, astray, history>>

\* temp = csr_y - 25 + 1
ScrollBy ==
  /\ Go("by", "copy")
  /\ tmp' = csr_y - Height + 1 /\ row' = 0
  /\ UNCHANGED <<cursor, textmem, crtc, c, astray, history>>

\* Mutant: the copy begins at the second row.
ScrollCopySkips ==
  /\ pc = "copy" /\ row < Height - tmp
  /\ textmem' = IF row = 0 THEN textmem ELSE CopyRow(textmem, row, tmp)
  /\ row' = row + 1
  /\ UNCHANGED <<pc, cursor, crtc, c, tmp, astray, history>>

\* memcpy(), a row a step
ScrollCopy ==
  /\ pc = "copy" /\ row < Height - tmp
  /\ textmem' = CopyRow(textmem, row, tmp)
  /\ row' = row + 1
  /\ UNCHANGED <<pc, cursor, crtc, c, tmp, astray, history>>

ScrollClear ==
  /\ row = Height - tmp /\ Go("copy", "bottom")
  /\ textmem' = ClearRow(textmem, row)
  /\ astray' = (astray \/ ~Reachable(row * Width))
  /\ tmp' = 0 /\ row' = 0
  /\ UNCHANGED <<cursor, crtc, c, history>>

ScrollBottom ==
  /\ Go("bottom", "move")
  /\ csr_y' = Height - 1
  /\ UNCHANGED <<csr_x, textmem, crtc, local, astray, history>>

-----------------------------------------------------------------------------
(* move_csr() *)

MoveY ==
  /\ Go("move", "move x")
  /\ tmp' = csr_y * Width
  /\ UNCHANGED <<cursor, textmem, crtc, c, row, astray, history>>

MoveX ==
  /\ Go("move x", "select 14")
  /\ tmp' = tmp + csr_x
  /\ UNCHANGED <<cursor, textmem, crtc, c, row, astray, history>>

\* outportb(0x3D4, register)
Select ==
  /\ \/ Go("select 14", "high") /\ crtc' = [crtc EXCEPT !.index = 14]
     \/ Go("select 15", "low")  /\ crtc' = [crtc EXCEPT !.index = 15]
  /\ UNCHANGED <<cursor, textmem, local, astray, history>>

\* outportb(0x3D5, byte): to the register that is selected
Written(byte) ==
  IF crtc.index = 14 THEN [crtc EXCEPT !.high = byte] ELSE [crtc EXCEPT !.low = byte]

MoveHigh ==
  /\ Go("high", "select 15")
  /\ crtc' = Written(tmp \div ByteSize)
  /\ UNCHANGED <<cursor, textmem, local, astray, history>>

MoveLow ==
  /\ Go("low", "idle")
  /\ crtc' = Written(tmp % ByteSize)
  /\ c' = "NUL" /\ tmp' = 0 /\ before' = Nothing
  /\ UNCHANGED <<cursor, textmem, row, astray, echoed, mixed>>

-----------------------------------------------------------------------------
(* cls() *)

Cls ==
  /\ Go("idle", "clear")
  /\ row' = 0 /\ c' = "NUL"
  /\ Begins

\* memsetw(), a row a step
ClsRow ==
  /\ pc = "clear" /\ row < Height
  /\ textmem' = ClearRow(textmem, row)
  /\ row' = row + 1
  /\ UNCHANGED <<pc, cursor, crtc, c, tmp, astray, history>>

ClsX ==
  /\ row = Height /\ Go("clear", "clear y")
  /\ csr_x' = 0 /\ row' = 0
  /\ UNCHANGED <<csr_y, textmem, crtc, c, tmp, astray, history>>

\* The screen is as it should be again, whatever was mixed up before.
ClsY ==
  /\ Go("clear y", "move")
  /\ csr_y' = 0
  /\ mixed' = (mixed /\ echoed = "text")
  /\ UNCHANGED <<csr_x, textmem, crtc, local, astray, before, echoed>>

MainThread ==
  \/ Cls \/ ClsRow \/ ClsX \/ ClsY
  \/ \E k \in Printed : Putch(k)
  \/ Where \/ WhereX \/ StoreChar \/ LoadX \/ StoreX
  \/ ReturnX \/ LoadY \/ StoreY \/ EndOfRow
  \/ ScrollTest \/ ScrollBy \/ ScrollCopy \/ ScrollClear \/ ScrollBottom
  \/ MoveY \/ MoveX \/ Select \/ MoveHigh \/ MoveLow

Next == MainThread \/ \E k \in Echoed : Echo(k)

Spec == Init /\ [][Next]_vars

-----------------------------------------------------------------------------
(* Properties *)

\* What is on the screen: an operation under way counts when only the blinking
\* cursor is left to move.
Done == mixed \/ pc \in MovesCursor \cup {"idle"}
Shown(mem) == [r \in 0..(Height - 1) |-> [k \in 0..(Width - 1) |-> mem[r * Width + k]]]

Paper == INSTANCE Teletype WITH
  Printed <- Printed \cup Echoed,
  sheet   <- Shown(IF Done THEN textmem ELSE before.text),
  x       <- IF Done THEN csr_x ELSE before.x,
  y       <- IF Done THEN csr_y ELSE before.y,
  trusted <- ~mixed

\* The screen is a Teletype: what the main thread and the keyboard print
\* appears one character after the other, wraps, tabs and rolls, unless a key
\* is echoed inside the part of putch() or cls() that changes text and cursor;
\* and an undisturbed cls() makes it one again.
ShowsThePaper == Paper!Spec

\* However echoes and prints are mixed, no cursor leaves the screen for good
\* and nothing is stored beyond the row below the last.
StaysOnScreen ==
  /\ ~astray
  /\ pc = "idle" => csr_x \in 0..(Width - 1) /\ csr_y \in 0..(Height - 1)

\* The blinking cursor is where the next character goes after every putch()
\* and cls(), unless a key is echoed between move_csr()'s first access and its
\* last: what was misplaced before, or changed by a key earlier in the same
\* putch(), is put right.
CursorFollows ==
  pc = "idle" /\ echoed # "cursor" =>
    crtc.high * ByteSize + crtc.low = csr_y * Width + csr_x

\* The cursors keep to the screen and to each other.
CursorKept == StaysOnScreen /\ CursorFollows

=============================================================================
