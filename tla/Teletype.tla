------------------------------ MODULE Teletype -------------------------------
(***************************************************************************)
(* What a text screen promises: a sheet of Height rows on which characters *)
(* appear one after the other, whoever prints them.  The sheet rolls up by *)
(* one row when the position leaves it at the bottom.                      *)
(***************************************************************************)
EXTENDS Integers

CONSTANTS
  Width, Height,   \* columns and rows of the sheet
  Tab,             \* distance of the tabulator stops
  Blank,           \* what an empty place holds
  Printed          \* the characters printed on it

VARIABLES
  sheet,    \* sheet[r][k]: the character at row r, column k
  x, y,     \* where the next character goes
  trusted   \* nobody has interfered since the sheet was cleared

Rows    == 0..(Height - 1)
Columns == 0..(Width - 1)
EmptyRow   == [k \in Columns |-> Blank]
EmptySheet == [r \in Rows |-> EmptyRow]

Init == sheet = EmptySheet /\ x = 0 /\ y = 0 /\ trusted = TRUE

Controls == {"BS", "TAB", "CR", "LF", "NUL"}

\* The column after c, Width when the row is full.
After(c) ==
  CASE c = "BS"  -> IF x = 0 THEN 0 ELSE x - 1
    [] c = "TAB" -> (x \div Tab + 1) * Tab
    [] c \in {"CR", "LF"} -> 0
    [] c = "NUL" -> x
    [] c \notin Controls -> x + 1

\* The sheet with c on it, before it rolls.
With(c) ==
  CASE c = "BS" /\ x > 0 -> [sheet EXCEPT ![y][x - 1] = Blank]
    [] c \notin Controls -> [sheet EXCEPT ![y][x] = c]
    [] OTHER -> sheet

RolledUp(s) == [r \in Rows |-> IF r + 1 \in Rows THEN s[r + 1] ELSE EmptyRow]

Put(c) ==
  /\ trusted /\ trusted'
  /\ IF c # "LF" /\ After(c) < Width
     THEN x' = After(c) /\ y' = y /\ sheet' = With(c)
     ELSE /\ x' = 0
          /\ \/ y + 1 \in Rows    /\ y' = y + 1 /\ sheet' = With(c)
             \/ y + 1 \notin Rows /\ y' = y     /\ sheet' = RolledUp(With(c))

\* A cleared sheet is trusted again.
Clear == sheet' = EmptySheet /\ x' = 0 /\ y' = 0 /\ trusted'

\* Two writers at once: nothing is promised until the sheet is cleared.
Interfere == ~trusted'

Next == Clear \/ Interfere \/ \E c \in Printed : Put(c)

Spec == Init /\ [][Next]_<<sheet, x, y, trusted>>
=============================================================================
