---------------------------- MODULE ScreenProofs ----------------------------
(***************************************************************************)
(* Proofs about Screen, for every size of the screen: however the echo of  *)
(* the keyboard interrupt falls between the steps of putch(), scroll() and *)
(* cls(), nothing is stored beyond the row below the last, the cursor is   *)
(* on the screen when nobody is printing, and the blinking cursor follows. *)
(*                                                                         *)
(* The invariant says where the cursor can be at each step, an interrupt   *)
(* having come before it or not.  The echo always leaves the cursor on the *)
(* screen; so what the main thread has loaded before it is out of date,    *)
(* but never out of bounds.  It never moves the cursor up from the last    *)
(* row: a scroll() under way therefore copies from the row below, or,      *)
(* overtaken by the echo, copies every row onto itself.                    *)
(*                                                                         *)
(* The refinement of Teletype has an invariant of its own: an undisturbed  *)
(* putch() has made, of the screen it found (before), what it will leave,  *)
(* as far as it has come; cls() has blanked the rows it has been through.  *)
(***************************************************************************)
EXTENDS Screen, TLAPS

Rows    == 0..(Height - 1)
Columns == 0..(Width - 1)

Pcs == {"idle", "where", "where x", "store", "load x", "store x", "end?", "return", "wrap",
        "load y", "store y", "wrap y", "wrap store", "scroll?", "by", "copy", "bottom",
        "move", "move x", "select 14", "high", "select 15", "low", "clear", "clear y"}

Crtc == [index : {14, 15}, high : Int, low : Int]

TypeOK ==
  /\ pc \in Pcs /\ tmp \in Int /\ row \in Int
  /\ csr_x \in 0..Width /\ csr_y \in 0..Height
  /\ crtc \in Crtc /\ echoed \in {"no", "text", "cursor"}

\* Steps at which the cursor may be past the end of a row or below the last.
Past == {"end?", "wrap", "scroll?", "by", "copy", "bottom"}

\* Where the cursor is.
Placing ==
  /\ pc \notin Past => csr_x \in Columns /\ csr_y \in Rows
  /\ pc = "end?" => csr_x \in Columns \/ csr_y \in Rows
  /\ pc = "wrap" => csr_y \in Rows
  /\ pc \in {"scroll?", "by", "copy", "bottom"} => csr_x \in Columns
  /\ pc \in {"by", "copy", "bottom"} => csr_y \in {Height - 1, Height}

\* What the main thread has loaded or computed.
Loaded ==
  /\ pc = "where x" => \E r \in Rows : tmp = r * Width
  /\ pc = "store" => Reachable(tmp)
  /\ pc = "store x" => tmp \in Columns
  /\ pc \in {"store y", "wrap store"} => tmp \in Rows
  /\ pc = "copy" => tmp \in {0, 1} /\ row \in 0..(Height - tmp)

\* A position of the CRT controller, and the place of the cursor in the text.
Position(r) == r.high * ByteSize + r.low
Place(col, r) == r * Width + col

\* The blinking cursor, on its way and at its end, when no echo moved it too.
Blinking ==
  echoed # "cursor" =>
    /\ pc = "idle" => Position(crtc) = Place(csr_x, csr_y)
    /\ pc = "move x" => tmp = csr_y * Width
    /\ pc \in {"select 14", "high", "select 15", "low"} => tmp = Place(csr_x, csr_y)
    /\ pc = "high" => crtc.index = 14
    /\ pc = "low" => crtc.index = 15
    /\ pc \in {"select 15", "low"} => crtc.high = tmp \div ByteSize

ScreenInv ==
  TypeOK /\ Placing /\ Loaded /\ Blinking /\ astray = FALSE

-----------------------------------------------------------------------------
(* Rows and columns *)

LEMMA Sizes ==
  Width \in Nat \ {0} /\ Height \in Nat \ {0} /\ Tab \in Nat \ {0} /\ ByteSize \in Nat \ {0}
  BY SizeAssumption

\* A place on the screen, past the end of one of its rows, or in the row below
\* the last is text memory.
LEMMA TextMemory ==
  ASSUME NEW r \in 0..Height, NEW col \in 0..Width, r \in Rows \/ col \in Columns
  PROVE  r * Width + col \in Int /\ Reachable(r * Width + col)
<1>1. Width \in Nat /\ Height \in Nat /\ r \in Nat /\ col \in Nat
  BY Sizes
<1>2. r * Width \in Nat /\ Height * Width \in Nat /\ Width * (Height + 1) = Height * Width + Width
  BY <1>1
<1>3. r * Width + col < Height * Width + Width
  <2>1. CASE r \in Rows
    <3>1. r + 1 <= Height
      BY <1>1, <2>1 DEF Rows
    <3>2. (r + 1) * Width <= Height * Width
      BY <1>1, <3>1
    <3>3. (r + 1) * Width = r * Width + Width
      BY <1>1
    <3>4. Width > 0
      BY Sizes
    <3> QED
      BY <1>1, <1>2, <3>2, <3>3, <3>4
  <2>2. CASE col \in Columns
    <3>1. r * Width <= Height * Width
      BY <1>1
    <3>2. col < Width
      BY <1>1, <2>2 DEF Columns
    <3> QED
      BY <1>1, <1>2, <3>1, <3>2
  <2> QED
    BY <2>1, <2>2
<1> QED
  BY <1>1, <1>2, <1>3 DEF Reachable

\* Division by the size of a byte, or by the distance of the stops.
LEMMA Quotients ==
  ASSUME NEW n \in Nat, NEW d \in Nat \ {0}
  PROVE  /\ n \div d \in Nat /\ n % d \in 0..(d - 1)
         /\ (n \div d) * d + (n % d) = n
  OBVIOUS

\* Rows and columns among the numbers.
LEMMA Bounds ==
  /\ 0 \in Columns /\ 0 \in Rows /\ Height - 1 \in Rows
  /\ \A col \in Columns : col \in Nat /\ col < Width /\ col \in 0..Width /\ col + 1 \in 0..Width
  /\ \A r \in Rows : r \in Nat /\ r < Height /\ r \in 0..Height /\ r + 1 \in 0..Height
  /\ \A col \in 0..Width : col \in Nat /\ (col >= Width \/ col \in Columns)
  /\ \A r \in 0..Height : r \in Nat /\ (r \in Rows \/ r = Height)
<1>1. Width \in Nat \ {0} /\ Height \in Nat \ {0}
  BY Sizes
<1>2. 0 \in Columns /\ 0 \in Rows /\ Height - 1 \in Rows
  BY <1>1 DEF Columns, Rows
<1>3. \A col \in Columns :
        col \in Nat /\ col < Width /\ col \in 0..Width /\ col + 1 \in 0..Width
  BY <1>1 DEF Columns
<1>4. \A r \in Rows : r \in Nat /\ r < Height /\ r \in 0..Height /\ r + 1 \in 0..Height
  BY <1>1 DEF Rows
<1>5. \A col \in 0..Width : col \in Nat /\ (col >= Width \/ col \in Columns)
  BY <1>1 DEF Columns
<1>6. \A r \in 0..Height : r \in Nat /\ (r \in Rows \/ r = Height)
  BY <1>1 DEF Rows
<1> QED
  BY <1>2, <1>3, <1>4, <1>5, <1>6

\* The types, one variable after the other: before a step, and after it.
LEMMA Types ==
  ASSUME ScreenInv
  PROVE  /\ pc \in Pcs /\ tmp \in Int /\ row \in Int
         /\ csr_x \in 0..Width /\ csr_y \in 0..Height
         /\ csr_x \in Nat /\ csr_y \in Nat /\ csr_x \in Int /\ csr_y \in Int /\ 0 \in Int
         /\ crtc \in Crtc /\ echoed \in {"no", "text", "cursor"}
<1>1. TypeOK
  BY DEF ScreenInv
<1>2. csr_x \in 0..Width /\ csr_y \in 0..Height
  BY <1>1 DEF TypeOK
<1>3. csr_x \in Nat /\ csr_y \in Nat
  BY <1>2, Bounds
<1>4. 0 \in Int /\ \A n \in Nat : n \in Int
  OBVIOUS
<1> QED
  BY <1>1, <1>2, <1>3, <1>4 DEF TypeOK

LEMMA TypesAfter ==
  ASSUME pc' \in Pcs, tmp' \in Int, row' \in Int,
         csr_x' \in 0..Width, csr_y' \in 0..Height,
         crtc' \in Crtc, echoed' \in {"no", "text", "cursor"}
  PROVE  TypeOK'
  BY DEF TypeOK

\* The next tabulator stop is on the row or its end.
LEMMA NextStopInRow ==
  /\ \A col \in Nat : NextStop(col) \in Nat
  /\ \A col \in Columns : NextStop(col) \in 0..Width
<1>1. Tab \in Nat \ {0} /\ Width \in Nat
  BY Sizes
<1>2. ASSUME NEW col \in Nat
      PROVE  NextStop(col) \in Nat
  <2>1. (col + Tab) \div Tab \in Nat
    BY <1>1, Quotients
  <2> QED
    BY <1>1, <2>1 DEF NextStop
<1>3. ASSUME NEW col \in Columns
      PROVE  NextStop(col) \in 0..Width
  <2> DEFINE q == (col + Tab) \div Tab
             w == Width \div Tab
  <2>1. /\ q \in Nat /\ w \in Nat /\ col \in Nat /\ col < Width
        /\ q * Tab <= col + Tab /\ w * Tab = Width
    <3>1. col \in Nat /\ col < Width
      BY <1>1 DEF Columns
    <3>2. q \in Nat /\ q * Tab + ((col + Tab) % Tab) = col + Tab /\ (col + Tab) % Tab \in Nat
      <4> DEFINE n == col + Tab
      <4>1. n \in Nat
        BY <1>1, <3>1
      <4> HIDE DEF n
      <4>2. /\ n \div Tab \in Nat /\ n % Tab \in 0..(Tab - 1)
            /\ (n \div Tab) * Tab + (n % Tab) = n
        BY <1>1, <4>1, Quotients
      <4>3. n % Tab \in Nat
        BY <1>1, <4>2
      <4> QED
        BY <4>2, <4>3 DEF n
    <3>3. w \in Nat /\ w * Tab + (Width % Tab) = Width /\ Width % Tab = 0
      BY <1>1, Quotients, SizeAssumption
    <3> HIDE DEF q, w
    <3>4. q * Tab \in Nat /\ w * Tab \in Nat
      BY <1>1, <3>2, <3>3
    <3> QED
      BY <1>1, <3>1, <3>2, <3>3, <3>4
  <2> HIDE DEF q, w
  <2>2. q <= w
    <3> SUFFICES ASSUME q >= w + 1
                 PROVE  FALSE
      BY <2>1
    <3>1. q * Tab >= (w + 1) * Tab /\ (w + 1) * Tab = w * Tab + Tab
      BY <1>1, <2>1
    <3>2. q * Tab \in Nat /\ w * Tab \in Nat
      BY <1>1, <2>1
    <3> QED
      BY <1>1, <2>1, <3>1, <3>2
  <2>3. q * Tab <= w * Tab /\ q * Tab \in Nat
    BY <1>1, <2>1, <2>2
  <2> QED
    BY <1>1, <2>1, <2>3 DEF q, NextStop
<1> QED
  BY <1>2, <1>3

-----------------------------------------------------------------------------
(* The echo of the keyboard interrupt *)

\* It comes out on the screen, and moves the blinking cursor there; below the
\* last row it leaves the last one.
LEMMA EchoKeeps ==
  ASSUME ScreenInv, NEW k, Echo(k)
  PROVE  ScreenInv'
<1> DEFINE wraps == EchoX(k) >= Width
           y == csr_y + (IF k = "LF" \/ wraps THEN 1 ELSE 0)
           at == csr_y' * Width + csr_x'
<1>1. /\ UNCHANGED <<pc, c, tmp, row>>
      /\ csr_x' = (IF wraps THEN 0 ELSE EchoX(k))
      /\ csr_y' = (IF y >= Height THEN Height - 1 ELSE y)
      /\ astray' = (astray \/ (EchoStores(k) /\ ~Reachable(EchoAt(k))))
      /\ crtc' = [index |-> 15, high |-> at \div ByteSize, low |-> at % ByteSize]
      /\ echoed' = (IF pc \in MovesCursor \ {"move"} THEN "cursor"
                    ELSE IF Untouched THEN "no" ELSE "text")
  BY DEF Echo, local
<1>2. /\ Width \in Nat \ {0} /\ Height \in Nat \ {0} /\ ByteSize \in Nat \ {0}
      /\ csr_x \in 0..Width /\ csr_y \in 0..Height /\ csr_x \in Nat /\ csr_y \in Nat
  BY Sizes DEF ScreenInv, TypeOK
<1>3. csr_x \in Columns \/ csr_y \in Rows
  BY DEF ScreenInv, Placing, Past
<1>4. EchoX(k) \in Nat
  <2>1. NextStop(csr_x) \in Nat
    BY <1>2, NextStopInRow
  <2>2. csr_x # 0 => csr_x - 1 \in Nat
    BY <1>2
  <2>3. csr_x + 1 \in Nat
    BY <1>2
  <2>4. \/ k = "BS" \/ k = "TAB" \/ k \in {"CR", "LF"} \/ k = "NUL" \/ k \notin Controls
    BY DEF Controls
  <2> QED
    BY <1>2, <2>1, <2>2, <2>3, <2>4 DEF EchoX, Controls
<1>5. csr_x' \in Columns
  <2>1. EchoX(k) < Width => EchoX(k) \in Columns
    BY <1>2, <1>4 DEF Columns
  <2>2. 0 \in Columns
    BY <1>2 DEF Columns
  <2>3. ~wraps => EchoX(k) < Width
    BY <1>2, <1>4
  <2> QED
    BY <1>1, <2>1, <2>2, <2>3
<1>6. y = csr_y \/ y = csr_y + 1
  BY <1>2
<1> HIDE DEF y
<1>7. csr_y' \in Rows /\ (csr_y \in {Height - 1, Height} => csr_y' = Height - 1)
  <2>1. \A h \in Nat \ {0} : \A n, m \in Nat :
          m = n \/ m = n + 1 =>
            LET bottom == IF m >= h THEN h - 1 ELSE m
            IN  bottom \in 0..(h - 1) /\ (n \in {h - 1, h} => bottom = h - 1)
    OBVIOUS
  <2>2. y \in Nat
    BY <1>2, <1>6
  <2> QED
    BY <1>1, <1>2, <1>6, <2>1, <2>2 DEF Rows
<1>8. EchoStores(k) => Reachable(EchoAt(k))
  <2>1. CASE k = "BS"
    <3> SUFFICES ASSUME csr_x # 0
                 PROVE  Reachable(EchoAt(k))
      BY <2>1 DEF EchoStores, Controls
    <3>1. EchoX("BS") = IF csr_x = 0 THEN 0 ELSE csr_x - 1
      BY DEF EchoX, Controls
    <3>2. EchoX(k) = csr_x - 1
      BY <2>1, <3>1
    <3>3. csr_x - 1 \in Columns /\ csr_x - 1 \in 0..Width
      BY <1>2 DEF Columns
    <3>4. EchoAt(k) = csr_y * Width + (csr_x - 1)
      BY <2>1, <3>2 DEF EchoAt
    <3> QED
      BY <1>2, <3>3, <3>4, TextMemory
  <2>2. CASE k # "BS"
    <3>1. EchoAt(k) = csr_y * Width + csr_x
      BY <2>2 DEF EchoAt
    <3> QED
      BY <1>2, <1>3, <3>1, TextMemory
  <2> QED
    BY <2>1, <2>2
<1>9. astray' = FALSE
  BY <1>1, <1>8 DEF ScreenInv
<1>10. at \in Nat
  <2>1. csr_x' \in Nat /\ csr_y' \in Nat
    BY <1>2, <1>5, <1>7 DEF Rows, Columns
  <2>2. \A a, b, w \in Nat : a * w + b \in Nat
    OBVIOUS
  <2> QED
    BY <1>2, <2>1, <2>2
<1>11. /\ at \div ByteSize \in Nat /\ at % ByteSize \in Nat
       /\ (at \div ByteSize) * ByteSize + (at % ByteSize) = at
  <2> HIDE DEF at
  <2>1. /\ at \div ByteSize \in Nat /\ at % ByteSize \in 0..(ByteSize - 1)
        /\ (at \div ByteSize) * ByteSize + (at % ByteSize) = at
    BY <1>2, <1>10, Quotients
  <2>2. at % ByteSize \in Nat
    BY <1>2, <2>1
  <2> QED
    BY <2>1, <2>2
<1>12. crtc' \in Crtc /\ Position(crtc') = Place(csr_x', csr_y')
  <2> HIDE DEF at
  <2>1. ASSUME NEW a \in Int, NEW b \in Int
        PROVE  LET r == [index |-> 15, high |-> a, low |-> b]
               IN  r \in Crtc /\ Position(r) = a * ByteSize + b
    BY DEF Crtc, Position
  <2>2. at \div ByteSize \in Int /\ at % ByteSize \in Int
    BY <1>11
  <2>3. crtc' \in Crtc /\ Position(crtc') = at
    BY <1>1, <1>11, <2>1, <2>2
  <2> QED
    BY <2>3 DEF at, Place
<1>13. TypeOK'
  <2>1. csr_x' \in 0..Width /\ csr_y' \in 0..Height
    BY <1>2, <1>5, <1>7 DEF Rows, Columns
  <2> QED
    BY <1>1, <1>12, <2>1 DEF ScreenInv, TypeOK
<1>14. Placing'
  BY <1>1, <1>5, <1>7 DEF ScreenInv, Placing
<1>15. Loaded'
  BY <1>1 DEF ScreenInv, Loaded, Reachable, Rows, Columns
<1>16. Blinking'
  <2>1. (Position(crtc) = Place(csr_x, csr_y))'
    BY <1>12 DEF Position, Place
  <2>2. echoed' # "cursor" => pc' \notin {"move x", "select 14", "high", "select 15", "low"}
    BY <1>1 DEF MovesCursor
  <2> QED
    BY <2>1, <2>2 DEF Blinking
<1> QED
  BY <1>9, <1>13, <1>14, <1>15, <1>16 DEF ScreenInv

-----------------------------------------------------------------------------
(* The main thread: characters *)

\* Putch and Cls begin with the cursor on the screen.
LEMMA BeginKeeps ==
  ASSUME ScreenInv, Cls \/ \E k \in Printed : Putch(k)
  PROVE  ScreenInv'
<1>1. /\ pc = "idle" /\ UNCHANGED <<csr_x, csr_y, crtc, astray, tmp>>
      /\ row' = 0 /\ echoed' = "no"
  BY DEF Cls, Putch, Go, Begins, cursor
<1>2. pc' \in {"load x", "return", "end?", "where", "clear"}
  <2>1. CASE Cls
    BY <2>1 DEF Cls, Go
  <2>2. ASSUME NEW k \in Printed, Putch(k)
        PROVE  pc' \in {"load x", "return", "end?", "where"}
    <3> DEFINE to == CASE k = "TAB" -> "load x" [] k \in {"CR", "LF"} -> "return"
                       [] k = "NUL" -> "end?" [] k \notin Controls -> "where"
    <3>1. k = "TAB" \/ k \in {"CR", "LF"} \/ k = "NUL" \/ k \notin Controls
      BY PrintedAssumption DEF Controls
    <3>2. pc' = to
      BY <2>2 DEF Putch, Go
    <3>3. to \in {"load x", "return", "end?", "where"}
      BY <3>1 DEF Controls
    <3> QED
      BY <3>2, <3>3
  <2> QED
    BY <2>1, <2>2
<1>3. csr_x \in Columns /\ csr_y \in Rows
  BY <1>1 DEF ScreenInv, Placing, Past
<1>4. TypeOK'
  <2>1. pc' \in Pcs
    BY <1>2 DEF Pcs
  <2>2. row' \in Int
    BY <1>1
  <2> QED
    BY <1>1, <2>1, <2>2, Types, TypesAfter
<1>5. Placing'
  BY <1>1, <1>2, <1>3 DEF Placing
<1>6. Loaded' /\ Blinking'
  BY <1>2 DEF Loaded, Blinking
<1> QED
  BY <1>1, <1>4, <1>5, <1>6 DEF ScreenInv

\* A character is stored: the place was computed before or after an echo, or
\* half before it, and is on the screen.
LEMMA CharacterKeeps ==
  ASSUME ScreenInv, Where \/ WhereX \/ StoreChar
  PROVE  ScreenInv'
<1>1. /\ UNCHANGED <<csr_x, csr_y, crtc, row, echoed>>
      /\ pc \in {"where", "where x", "store"} /\ pc' \in {"where x", "store", "load x"}
  BY DEF Where, WhereX, StoreChar, Go, cursor, history
<1>2. /\ csr_x \in Columns /\ csr_y \in Rows
      /\ csr_x \in 0..Width /\ csr_y \in 0..Height /\ csr_y \in Nat /\ Width \in Nat
  <2>1. csr_x \in Columns /\ csr_y \in Rows
    BY <1>1 DEF ScreenInv, Placing, Past
  <2> QED
    BY <2>1, Types, Sizes
<1>3. tmp' \in Int /\ astray' = FALSE /\ Loaded'
  <2>1. CASE Where
    <3>1. pc' = "where x" /\ tmp' = csr_y * Width /\ astray' = astray
      BY <2>1 DEF Where, Go
    <3>2. csr_y * Width \in Int
      BY <1>2
    <3> QED
      BY <1>2, <3>1, <3>2 DEF ScreenInv, Loaded
  <2>2. CASE WhereX
    <3>1. pc = "where x" /\ pc' = "store" /\ tmp' = tmp + csr_x /\ astray' = astray
      BY <2>2 DEF WhereX, Go
    <3>2. PICK r \in Rows : tmp = r * Width
      BY <3>1 DEF ScreenInv, Loaded
    <3>3. r \in 0..Height
      BY Sizes DEF Rows
    <3>4. Reachable(r * Width + csr_x) /\ r * Width + csr_x \in Int
      BY <1>2, <3>3, TextMemory
    <3>5. tmp' = r * Width + csr_x
      BY <3>1, <3>2
    <3>6. Reachable(tmp') /\ tmp' \in Int
      BY <3>4, <3>5
    <3>7. (Reachable(tmp))'
      BY <3>6 DEF Reachable
    <3> QED
      BY <3>1, <3>6, <3>7 DEF ScreenInv, Loaded
  <2>3. CASE StoreChar
    <3>1. /\ pc = "store" /\ pc' = "load x" /\ tmp' = 0
          /\ astray' = (astray \/ ~Reachable(tmp))
      BY <2>3 DEF StoreChar, Go
    <3>2. Reachable(tmp)
      BY <3>1 DEF ScreenInv, Loaded
    <3>3. astray' = FALSE /\ tmp' \in Int
      <4>1. astray = FALSE
        BY DEF ScreenInv
      <4>2. 0 \in Int
        OBVIOUS
      <4> QED
        BY <3>1, <3>2, <4>1, <4>2
    <3>4. Loaded'
      BY <3>1 DEF Loaded
    <3> QED
      BY <3>3, <3>4
  <2> QED
    BY <1>1, <2>1, <2>2, <2>3
<1>4. TypeOK'
  <2>1. pc' \in Pcs
    BY <1>1 DEF Pcs
  <2> QED
    BY <1>1, <1>3, <2>1, Types, TypesAfter
<1>5. Placing'
  BY <1>1, <1>2 DEF Placing, Past
<1>6. Blinking'
  BY <1>1 DEF Blinking
<1> QED
  BY <1>3, <1>4, <1>5, <1>6 DEF ScreenInv

\* The column moves on, to the end of the row at most.
LEMMA ColumnKeeps ==
  ASSUME ScreenInv, LoadX \/ StoreX \/ ReturnX
  PROVE  ScreenInv'
<1>1. UNCHANGED <<csr_y, crtc, row, echoed, astray>>
  BY DEF LoadX, StoreX, ReturnX, cursor, history, local
<1>2. Width \in Nat \ {0} /\ Height \in Nat \ {0} /\ csr_y \in 0..Height /\ csr_x \in 0..Width
      /\ tmp \in Int
  BY Sizes DEF ScreenInv, TypeOK
<1>3. CASE LoadX
  <2>1. pc = "load x" /\ pc' = "store x" /\ tmp' = csr_x /\ csr_x' = csr_x
    BY <1>3 DEF LoadX, Go, cursor
  <2>2. csr_x \in Columns /\ csr_y \in Rows
    BY <2>1 DEF ScreenInv, Placing, Past
  <2>3. TypeOK'
    <3>1. pc' \in Pcs
      BY <2>1 DEF Pcs
    <3>2. tmp' \in Int
      BY <2>1, Types
    <3> QED
      BY <1>1, <1>2, <2>1, <3>1, <3>2, Types, TypesAfter
  <2>4. Placing' /\ Loaded' /\ Blinking'
    BY <1>1, <2>1, <2>2 DEF Placing, Past, Loaded, Blinking, Columns
  <2> QED
    BY <1>1, <2>3, <2>4 DEF ScreenInv
<1>4. CASE StoreX
  <2>1. /\ pc = "store x" /\ pc' = "end?" /\ tmp' = 0
        /\ csr_x' = IF c = "TAB" THEN NextStop(tmp) ELSE tmp + 1
    BY <1>4 DEF StoreX, Go
  <2>2. tmp \in Columns /\ csr_y \in Rows
    BY <2>1 DEF ScreenInv, Placing, Past, Loaded
  <2>3. csr_x' \in 0..Width
    <3>1. NextStop(tmp) \in 0..Width
      BY <2>2, NextStopInRow
    <3>2. tmp + 1 \in 0..Width
      BY <1>2, <2>2 DEF Columns
    <3> QED
      BY <2>1, <3>1, <3>2
  <2>4. TypeOK'
    <3>1. pc' \in Pcs
      BY <2>1 DEF Pcs
    <3>2. tmp' \in Int
      BY <2>1, Types
    <3> QED
      BY <1>1, <2>1, <2>3, <3>1, <3>2, Types, TypesAfter
  <2>5. Placing' /\ Loaded' /\ Blinking'
    BY <1>1, <2>1, <2>2 DEF Placing, Past, Loaded, Blinking, Rows
  <2> QED
    BY <1>1, <2>4, <2>5 DEF ScreenInv
<1>5. CASE ReturnX
  <2>1. /\ pc \in {"return", "wrap"} /\ pc' \in {"end?", "load y", "wrap y"}
        /\ csr_x' = 0 /\ tmp' = tmp
    BY <1>5 DEF ReturnX, local
  <2>2. csr_y \in Rows /\ 0 \in Columns /\ 0 \in 0..Width
    <3>1. csr_y \in Rows
      BY <2>1 DEF ScreenInv, Placing, Past
    <3> QED
      BY <3>1, Bounds
  <2>3. TypeOK'
    <3>1. pc' \in Pcs
      BY <2>1 DEF Pcs
    <3>2. tmp' \in Int
      BY <2>1, Types
    <3> QED
      BY <1>1, <2>1, <2>2, <3>1, <3>2, Types, TypesAfter
  <2>4. Placing' /\ Loaded' /\ Blinking'
    BY <1>1, <2>1, <2>2 DEF Placing, Past, Loaded, Blinking, Rows, Columns
  <2> QED
    BY <1>1, <2>3, <2>4 DEF ScreenInv
<1> QED
  BY <1>3, <1>4, <1>5

\* The row moves on, to the one below the last at most.
LEMMA RowKeeps ==
  ASSUME ScreenInv, LoadY \/ StoreY \/ EndOfRow
  PROVE  ScreenInv'
<1>1. UNCHANGED <<csr_x, crtc, row, echoed, astray>>
  BY DEF LoadY, StoreY, EndOfRow, cursor, history, local
<1>2. Width \in Nat \ {0} /\ Height \in Nat \ {0} /\ csr_y \in 0..Height /\ csr_x \in 0..Width
      /\ tmp \in Int
  BY Sizes DEF ScreenInv, TypeOK
<1>3. CASE LoadY
  <2>1. /\ pc \in {"load y", "wrap y"} /\ pc' \in {"store y", "wrap store"}
        /\ tmp' = csr_y /\ csr_y' = csr_y
    BY <1>3 DEF LoadY, Go, cursor
  <2>2. csr_x \in Columns /\ csr_y \in Rows
    BY <2>1 DEF ScreenInv, Placing, Past
  <2>3. TypeOK'
    <3>1. pc' \in Pcs
      BY <2>1 DEF Pcs
    <3>2. tmp' \in Int
      BY <2>1, Types
    <3> QED
      BY <1>1, <1>2, <2>1, <3>1, <3>2, Types, TypesAfter
  <2>4. Placing' /\ Loaded' /\ Blinking'
    BY <1>1, <2>1, <2>2 DEF Placing, Past, Loaded, Blinking, Rows
  <2> QED
    BY <1>1, <2>3, <2>4 DEF ScreenInv
<1>4. CASE StoreY
  <2>1. /\ pc \in {"store y", "wrap store"} /\ pc' \in {"end?", "scroll?"}
        /\ tmp' = 0 /\ csr_y' = tmp + 1
    BY <1>4 DEF StoreY, Go
  <2>2. csr_x \in Columns /\ tmp \in Rows
    BY <2>1 DEF ScreenInv, Placing, Past, Loaded
  <2>3. csr_y' \in 0..Height
    BY <2>1, <2>2, Bounds
  <2>4. TypeOK'
    <3>1. pc' \in Pcs
      BY <2>1 DEF Pcs
    <3>2. tmp' \in Int
      BY <2>1, Types
    <3> QED
      BY <1>1, <2>1, <2>3, <3>1, <3>2, Types, TypesAfter
  <2>5. Placing' /\ Loaded' /\ Blinking'
    BY <1>1, <2>1, <2>2 DEF Placing, Past, Loaded, Blinking, Columns
  <2> QED
    BY <1>1, <2>4, <2>5 DEF ScreenInv
<1>5. CASE EndOfRow
  <2>1. /\ pc = "end?" /\ pc' = (IF csr_x >= Width THEN "wrap" ELSE "scroll?")
        /\ tmp' = tmp /\ csr_y' = csr_y
    BY <1>5 DEF EndOfRow, local, cursor
  <2>2. csr_x >= Width => csr_y \in Rows
    BY <1>2, <2>1 DEF ScreenInv, Placing, Columns
  <2>3. ~(csr_x >= Width) => csr_x \in Columns
    BY <1>2 DEF Columns
  <2>4. TypeOK'
    <3>1. pc' \in Pcs
      BY <2>1 DEF Pcs
    <3>2. tmp' \in Int
      BY <2>1, Types
    <3> QED
      BY <1>1, <2>1, <3>1, <3>2, Types, TypesAfter
  <2>5. Placing' /\ Loaded' /\ Blinking'
    BY <1>1, <2>1, <2>2, <2>3 DEF Placing, Past, Loaded, Blinking, Columns, Rows
  <2> QED
    BY <1>1, <2>4, <2>5 DEF ScreenInv
<1> QED
  BY <1>3, <1>4, <1>5

-----------------------------------------------------------------------------
(* The main thread: scroll() *)

\* The copy starts one row down, or, after an echo, on the row it goes to.
LEMMA ScrollDistance ==
  \A y \in 0..Height :
    y \in {Height - 1, Height} => y - Height + 1 \in {0, 1} /\ Height - (y - Height + 1) \in Nat
<1>1. Height \in Nat \ {0}
  BY Sizes
<1>2. \A h \in Nat \ {0} : \A y \in {h - 1, h} : y - h + 1 \in {0, 1} /\ h - (y - h + 1) \in Nat
  OBVIOUS
<1> QED
  BY <1>1, <1>2

\* The rows that are left to copy or to clear.
LEMMA ScrollRows ==
  ASSUME NEW t \in {0, 1}, NEW r \in 0..(Height - t)
  PROVE  /\ r \in 0..Height
         /\ r < Height - t => r + 1 \in 0..(Height - t)
         /\ r + 1 \in Int
  BY Sizes

LEMMA ScrollTestKeeps ==
  ASSUME ScreenInv, ScrollTest \/ ScrollBottom
  PROVE  ScreenInv'
<1>1. UNCHANGED <<csr_x, crtc, tmp, row, echoed, astray>>
  BY DEF ScrollTest, ScrollBottom, cursor, history, local
<1>2. pc \in {"scroll?", "bottom"} /\ pc' \in {"by", "move"}
  BY DEF ScrollTest, ScrollBottom, Go
<1>3. csr_x \in Columns
  BY <1>2 DEF ScreenInv, Placing
<1>4. csr_y' \in 0..Height /\ (pc' = "by" => csr_y' = Height) /\ (pc' = "move" => csr_y' \in Rows)
  <2>1. CASE ScrollTest
    <3>1. /\ pc' = (IF csr_y >= Height THEN "by" ELSE "move")
          /\ csr_y' = csr_y
      BY <2>1 DEF ScrollTest, cursor
    <3>2. csr_y \in 0..Height
      BY Types
    <3>3. csr_y \in Rows => ~(csr_y >= Height)
      BY Sizes DEF Rows
    <3>4. csr_y = Height => csr_y >= Height
      BY Sizes
    <3> QED
      BY <3>1, <3>2, <3>3, <3>4, Bounds
  <2>2. CASE ScrollBottom
    <3>1. pc' = "move" /\ csr_y' = Height - 1
      BY <2>2 DEF ScrollBottom, Go
    <3> QED
      BY <3>1, Bounds
  <2> QED
    BY <2>1, <2>2
<1>5. TypeOK'
  <2>1. pc' \in Pcs
    BY <1>2 DEF Pcs
  <2> QED
    BY <1>1, <1>4, <2>1, Types, TypesAfter
<1>6. Placing' /\ Loaded' /\ Blinking'
  BY <1>1, <1>2, <1>3, <1>4 DEF Placing, Past, Loaded, Blinking
<1> QED
  BY <1>1, <1>5, <1>6 DEF ScreenInv

LEMMA ScrollKeeps ==
  ASSUME ScreenInv, ScrollBy \/ ScrollCopy \/ ScrollClear
  PROVE  ScreenInv'
<1>1. UNCHANGED <<csr_x, csr_y, crtc, echoed>>
  BY DEF ScrollBy, ScrollCopy, ScrollClear, cursor, history
<1>2. pc \in {"by", "copy"} /\ pc' \in {"copy", "bottom"}
  BY DEF ScrollBy, ScrollCopy, ScrollClear, Go
<1>3. csr_x \in Columns /\ csr_y \in {Height - 1, Height}
  BY <1>2 DEF ScreenInv, Placing
<1>4. pc = "copy" => tmp \in {0, 1} /\ row \in 0..(Height - tmp)
  BY DEF ScreenInv, Loaded
<1>5. /\ tmp' \in Int /\ row' \in Int /\ astray' = FALSE
      /\ pc' = "copy" => tmp' \in {0, 1} /\ row' \in 0..(Height - tmp')
  <2>1. CASE ScrollBy
    <3>1. tmp' = csr_y - Height + 1 /\ row' = 0 /\ astray' = astray
      BY <2>1 DEF ScrollBy
    <3>2. tmp' \in {0, 1} /\ Height - tmp' \in Nat
      BY <1>3, <3>1, Types, ScrollDistance
    <3>3. \A n \in Nat : 0 \in 0..n
      OBVIOUS
    <3>4. tmp' \in Int /\ row' \in Int
      BY <3>1, <3>2
    <3> QED
      BY <3>1, <3>2, <3>3, <3>4 DEF ScreenInv
  <2>2. CASE ScrollCopy
    <3>1. pc = "copy" /\ row < Height - tmp /\ row' = row + 1 /\ tmp' = tmp /\ astray' = astray
      BY <2>2 DEF ScrollCopy
    <3>2. tmp \in {0, 1} /\ row \in 0..(Height - tmp)
      BY <1>4, <3>1
    <3>3. row + 1 \in 0..(Height - tmp) /\ row + 1 \in Int
      BY <3>1, <3>2, ScrollRows
    <3> QED
      BY <3>1, <3>2, <3>3, Types DEF ScreenInv
  <2>3. CASE ScrollClear
    <3>1. /\ pc = "copy" /\ pc' = "bottom" /\ row' = 0 /\ tmp' = 0
          /\ astray' = (astray \/ ~Reachable(row * Width))
      BY <2>3 DEF ScrollClear, Go
    <3>2. row \in 0..Height
      BY <1>4, <3>1, ScrollRows
    <3>3. 0 \in 0..Width /\ 0 \in Columns
      BY Bounds
    <3>4. Reachable(row * Width + 0)
      BY <3>2, <3>3, TextMemory
    <3>5. row * Width + 0 = row * Width
      <4>1. \A n, w \in Nat : n * w + 0 = n * w
        OBVIOUS
      <4> QED
        BY <3>2, <4>1, Bounds, Sizes
    <3>6. astray' = FALSE
      BY <3>1, <3>4, <3>5 DEF ScreenInv
    <3> QED
      BY <3>1, <3>6, Types
  <2> QED
    BY <2>1, <2>2, <2>3
<1>6. TypeOK'
  <2>1. pc' \in Pcs
    BY <1>2 DEF Pcs
  <2> QED
    BY <1>1, <1>5, <2>1, Types, TypesAfter
<1>7. Placing' /\ Loaded' /\ Blinking'
  BY <1>1, <1>2, <1>3, <1>5 DEF Placing, Past, Loaded, Blinking
<1> QED
  BY <1>5, <1>6, <1>7 DEF ScreenInv

-----------------------------------------------------------------------------
(* The main thread: move_csr() *)

\* The position is computed from the cursor as it stands; an echo after that
\* is remembered as one that moved the blinking cursor too.
LEMMA ComputeKeeps ==
  ASSUME ScreenInv, MoveY \/ MoveX
  PROVE  ScreenInv'
<1>1. UNCHANGED <<csr_x, csr_y, crtc, row, echoed, astray>>
  BY DEF MoveY, MoveX, cursor, history
<1>2. pc \in {"move", "move x"} /\ pc' \in {"move x", "select 14"}
  BY DEF MoveY, MoveX, Go
<1>3. csr_x \in Columns /\ csr_y \in Rows
  BY <1>2 DEF ScreenInv, Placing, Past
<1>4. /\ tmp' \in Int
      /\ pc' = "move x" => tmp' = csr_y * Width
      /\ echoed # "cursor" /\ pc' = "select 14" => tmp' = Place(csr_x, csr_y)
  <2>1. \A a, b, t \in Int : a * b \in Int /\ t + a \in Int
    OBVIOUS
  <2>2. Width \in Int
    BY Sizes
  <2>3. CASE MoveY
    BY <2>1, <2>2, <2>3, Types DEF MoveY, Go
  <2>4. CASE MoveX
    <3>1. pc = "move x" /\ pc' = "select 14" /\ tmp' = tmp + csr_x
      BY <2>4 DEF MoveX, Go
    <3>2. tmp' \in Int
      BY <2>1, <3>1, Types
    <3>3. echoed # "cursor" => tmp = csr_y * Width
      BY <3>1 DEF ScreenInv, Blinking
    <3> QED
      BY <3>1, <3>2, <3>3 DEF Place
  <2> QED
    BY <2>3, <2>4
<1>5. TypeOK'
  <2>1. pc' \in Pcs
    BY <1>2 DEF Pcs
  <2> QED
    BY <1>1, <1>4, <2>1, Types, TypesAfter
<1>6. Placing' /\ Loaded'
  BY <1>1, <1>2, <1>3 DEF Placing, Past, Loaded
<1>7. Blinking'
  BY <1>1, <1>2, <1>4 DEF Blinking, Place
<1> QED
  BY <1>1, <1>5, <1>6, <1>7 DEF ScreenInv

\* The position goes to the controller, register by register.
LEMMA OutportKeeps ==
  ASSUME ScreenInv, Select \/ MoveHigh \/ MoveLow
  PROVE  ScreenInv'
<1>1. UNCHANGED <<csr_x, csr_y, row, echoed, astray>>
  BY DEF Select, MoveHigh, MoveLow, cursor, history, local
<1>2. /\ pc \in {"select 14", "high", "select 15", "low"}
      /\ pc' \in {"high", "select 15", "low", "idle"}
  BY DEF Select, MoveHigh, MoveLow, Go
<1>3. csr_x \in Columns /\ csr_y \in Rows /\ csr_x \in Nat /\ csr_y \in Nat
  BY <1>2, Bounds DEF ScreenInv, Placing, Past
<1>4. crtc \in Crtc /\ tmp \in Int /\ tmp \div ByteSize \in Int /\ tmp % ByteSize \in Int
  <2>1. \A n \in Int : \A d \in Nat \ {0} : n \div d \in Int /\ n % d \in Int
    OBVIOUS
  <2> QED
    BY <2>1, Types, Sizes
<1>5. ASSUME NEW byte \in Int
      PROVE  /\ Written(byte) \in Crtc
             /\ crtc.index = 14 => Written(byte).high = byte
             /\ crtc.index = 15 => Written(byte).low = byte /\ Written(byte).high = crtc.high
  BY <1>4 DEF Written, Crtc
<1>6. CASE Select
  <2>1. tmp' = tmp
    BY <1>6 DEF Select, local
  <2>2. /\ crtc' \in Crtc /\ crtc'.high = crtc.high
        /\ pc' = "high" => crtc'.index = 14
        /\ pc' = "low" => crtc'.index = 15 /\ pc = "select 15"
        /\ pc' \in {"high", "low"}
    BY <1>4, <1>6 DEF Select, Go, Crtc
  <2>3. TypeOK'
    <3>1. pc' \in Pcs
      BY <1>2 DEF Pcs
    <3> QED
      BY <1>1, <2>1, <2>2, <3>1, Types, TypesAfter
  <2>4. Placing' /\ Loaded'
    BY <1>1, <1>3, <2>2 DEF Placing, Past, Loaded
  <2>5. Blinking'
    BY <1>1, <1>2, <2>1, <2>2 DEF ScreenInv, Blinking, Place
  <2> QED
    BY <1>1, <2>3, <2>4, <2>5 DEF ScreenInv
<1>7. CASE MoveHigh
  <2>1. /\ pc = "high" /\ pc' = "select 15" /\ tmp' = tmp
        /\ crtc' = Written(tmp \div ByteSize)
    BY <1>7 DEF MoveHigh, Go, local
  <2>2. crtc' \in Crtc /\ (crtc.index = 14 => crtc'.high = tmp \div ByteSize)
    BY <1>4, <1>5, <2>1
  <2>3. TypeOK'
    <3>1. pc' \in Pcs
      BY <2>1 DEF Pcs
    <3> QED
      BY <1>1, <2>1, <2>2, <3>1, Types, TypesAfter
  <2>4. Placing' /\ Loaded'
    BY <1>1, <1>3, <2>1 DEF Placing, Past, Loaded
  <2>5. Blinking'
    <3>1. echoed # "cursor" => crtc.index = 14 /\ tmp = Place(csr_x, csr_y)
      BY <2>1 DEF ScreenInv, Blinking
    <3> QED
      BY <1>1, <2>1, <2>2, <3>1 DEF Blinking, Place
  <2> QED
    BY <1>1, <2>3, <2>4, <2>5 DEF ScreenInv
<1>8. CASE MoveLow
  <2>1. /\ pc = "low" /\ pc' = "idle" /\ tmp' = 0
        /\ crtc' = Written(tmp % ByteSize)
    BY <1>8 DEF MoveLow, Go
  <2>2. /\ crtc' \in Crtc
        /\ crtc.index = 15 => crtc'.low = tmp % ByteSize /\ crtc'.high = crtc.high
    BY <1>4, <1>5, <2>1
  <2>3. TypeOK'
    <3>1. pc' \in Pcs
      BY <2>1 DEF Pcs
    <3> QED
      BY <1>1, <2>1, <2>2, <3>1, Types, TypesAfter
  <2>4. Placing' /\ Loaded'
    BY <1>1, <1>3, <2>1 DEF Placing, Past, Loaded
  <2>5. ASSUME echoed # "cursor"
        PROVE  Position(crtc') = Place(csr_x, csr_y)
    <3>1. crtc.index = 15 /\ tmp = Place(csr_x, csr_y) /\ crtc.high = tmp \div ByteSize
      BY <2>1, <2>5 DEF ScreenInv, Blinking
    <3>2. crtc'.low = tmp % ByteSize /\ crtc'.high = tmp \div ByteSize
      BY <2>2, <3>1
    <3>3. Place(csr_x, csr_y) \in Nat
      <4>1. \A a, b, w \in Nat : b * w + a \in Nat
        OBVIOUS
      <4> QED
        BY <1>3, <4>1, Sizes DEF Place
    <3>4. (tmp \div ByteSize) * ByteSize + (tmp % ByteSize) = tmp
      BY <3>1, <3>3, Quotients, Sizes
    <3> QED
      BY <3>1, <3>2, <3>4 DEF Position
  <2>6. Blinking'
    BY <1>1, <2>1, <2>5 DEF Blinking, Position, Place
  <2> QED
    BY <1>1, <2>3, <2>4, <2>6 DEF ScreenInv
<1> QED
  BY <1>6, <1>7, <1>8

-----------------------------------------------------------------------------
(* The main thread: cls() *)

\* The cursor goes home in two steps, on the screen after the first as well.
LEMMA ClsKeeps ==
  ASSUME ScreenInv, ClsRow \/ ClsX \/ ClsY
  PROVE  ScreenInv'
<1>1. UNCHANGED <<crtc, tmp, echoed, astray>>
  BY DEF ClsRow, ClsX, ClsY, cursor, history, local
<1>2. pc \in {"clear", "clear y"} /\ pc' \in {"clear", "clear y", "move"}
  BY DEF ClsRow, ClsX, ClsY, Go
<1>3. csr_x \in Columns /\ csr_y \in Rows
  BY <1>2 DEF ScreenInv, Placing, Past
<1>4. csr_x' \in {csr_x, 0} /\ csr_y' \in {csr_y, 0}
  BY DEF ClsRow, ClsX, ClsY, cursor
<1>5. csr_x' \in Columns /\ csr_y' \in Rows
  BY <1>3, <1>4, Bounds
<1>6. row' \in Int
  <2>1. \A n \in Int : n + 1 \in Int
    OBVIOUS
  <2>2. row' = row + 1 \/ row' = 0 \/ row' = row
    BY DEF ClsRow, ClsX, ClsY, local
  <2> QED
    BY <2>1, <2>2, Types
<1>7. TypeOK'
  <2>1. pc' \in Pcs
    BY <1>2 DEF Pcs
  <2>2. csr_x' \in 0..Width /\ csr_y' \in 0..Height
    BY <1>5, Bounds
  <2> QED
    BY <1>1, <1>6, <2>1, <2>2, Types, TypesAfter
<1>8. Placing' /\ Loaded' /\ Blinking'
  BY <1>2, <1>5 DEF Placing, Past, Loaded, Blinking
<1> QED
  BY <1>1, <1>7, <1>8 DEF ScreenInv

-----------------------------------------------------------------------------
(* Every behaviour *)

LEMMA Starts ==
  Init => ScreenInv
<1> SUFFICES ASSUME Init
             PROVE  ScreenInv
  OBVIOUS
<1>1. /\ csr_x = 0 /\ csr_y = 0 /\ pc = "idle" /\ tmp = 0 /\ row = 0
      /\ crtc = [index |-> 15, high |-> 0, low |-> 0] /\ astray = FALSE /\ echoed = "no"
  BY DEF Init
<1>2. csr_x \in Columns /\ csr_y \in Rows /\ csr_x \in 0..Width /\ csr_y \in 0..Height
  BY <1>1, Bounds
<1>3. TypeOK
  <2>1. crtc \in Crtc
    BY <1>1 DEF Crtc
  <2>2. pc \in Pcs /\ tmp \in Int /\ row \in Int
    BY <1>1 DEF Pcs
  <2> QED
    BY <1>1, <1>2, <2>1, <2>2 DEF TypeOK
<1>4. Placing /\ Loaded
  BY <1>1, <1>2 DEF Placing, Past, Loaded
<1>5. Position(crtc) = Place(csr_x, csr_y)
  <2>1. \A n \in Nat : 0 * n + 0 = 0
    OBVIOUS
  <2>2. Position(crtc) = 0 * ByteSize + 0 /\ Place(csr_x, csr_y) = 0 * Width + 0
    BY <1>1 DEF Position, Place
  <2> QED
    BY <2>1, <2>2, Sizes
<1>6. Blinking
  BY <1>1, <1>5 DEF Blinking
<1> QED
  BY <1>1, <1>3, <1>4, <1>6 DEF ScreenInv

LEMMA Stutters ==
  ASSUME ScreenInv, UNCHANGED vars
  PROVE  ScreenInv'
<1>1. UNCHANGED <<csr_x, csr_y, crtc, pc, tmp, row, echoed, astray>>
  BY DEF vars, cursor, local, history
<1>2. TypeOK' /\ Placing'
  BY <1>1 DEF ScreenInv, TypeOK, Placing
<1>3. Loaded'
  BY <1>1 DEF ScreenInv, Loaded, Reachable
<1>4. Blinking'
  BY <1>1 DEF ScreenInv, Blinking, Position, Place
<1> QED
  BY <1>1, <1>2, <1>3, <1>4 DEF ScreenInv

LEMMA StepKeeps ==
  ScreenInv /\ [Next]_vars => ScreenInv'
<1> SUFFICES ASSUME ScreenInv, [Next]_vars
             PROVE  ScreenInv'
  OBVIOUS
<1>1. CASE \E k \in Echoed : Echo(k)
  BY <1>1, EchoKeeps
<1>2. CASE Cls \/ \E k \in Printed : Putch(k)
  BY <1>2, BeginKeeps
<1>3. CASE ClsRow \/ ClsX \/ ClsY
  BY <1>3, ClsKeeps
<1>4. CASE Where \/ WhereX \/ StoreChar
  BY <1>4, CharacterKeeps
<1>5. CASE LoadX \/ StoreX \/ ReturnX
  BY <1>5, ColumnKeeps
<1>6. CASE LoadY \/ StoreY \/ EndOfRow
  BY <1>6, RowKeeps
<1>7. CASE ScrollTest \/ ScrollBottom
  BY <1>7, ScrollTestKeeps
<1>8. CASE ScrollBy \/ ScrollCopy \/ ScrollClear
  BY <1>8, ScrollKeeps
<1>9. CASE MoveY \/ MoveX
  BY <1>9, ComputeKeeps
<1>10. CASE Select \/ MoveHigh \/ MoveLow
  BY <1>10, OutportKeeps
<1>11. CASE UNCHANGED vars
  BY <1>11, Stutters
<1> QED
  BY <1>1, <1>2, <1>3, <1>4, <1>5, <1>6, <1>7, <1>8, <1>9, <1>10, <1>11 DEF Next, MainThread

LEMMA Invariant ==
  Spec => []ScreenInv
  BY Starts, StepKeeps, PTL DEF Spec

\* The cursor never leaves the 0..Width by 0..Height its variables range over.
THEOREM TypeCorrect ==
  Spec => []TypeOK
<1>1. ScreenInv => TypeOK
  BY DEF ScreenInv
<1> QED
  BY <1>1, Invariant, PTL

\* However the echo of the keyboard interrupt falls between the steps of
\* putch(), scroll() and cls(), nothing is stored beyond the row below the
\* last, the cursor is on the screen whenever nobody prints, and the blinking
\* cursor is where the next character goes unless a key was echoed inside
\* move_csr().
THEOREM CursorKeptAlways ==
  Spec => []CursorKept
<1>1. ScreenInv => CursorKept
  <2> SUFFICES ASSUME ScreenInv
               PROVE  CursorKept
    OBVIOUS
  <2>1. StaysOnScreen
    BY DEF ScreenInv, Placing, Past, Rows, Columns, StaysOnScreen
  <2>2. CursorFollows
    BY DEF ScreenInv, Blinking, Position, Place, CursorFollows
  <2> QED
    BY <2>1, <2>2 DEF CursorKept
<1> QED
  BY <1>1, Invariant, PTL

-----------------------------------------------------------------------------
(* The promise of Teletype *)

\* putch(k) from beginning to end, of a text with the cursor at column x, row y.
PutX(x, k) ==
  CASE k = "BS" -> IF x = 0 THEN 0 ELSE x - 1
    [] k = "TAB" -> NextStop(x)
    [] k \in {"CR", "LF"} -> 0
    [] k = "NUL" -> x
    [] k \notin Controls -> x + 1

PutText(mem, x, y, k) ==
  IF k \notin Controls THEN Store(mem, y * Width + x, k)
  ELSE IF k = "BS" /\ x # 0 THEN Store(mem, y * Width + (x - 1), Blank)
  ELSE mem

Wraps(x, k) == PutX(x, k) >= Width
Down(x, k)  == k = "LF" \/ Wraps(x, k)
EndX(x, k)  == IF Wraps(x, k) THEN 0 ELSE PutX(x, k)

\* A text whose rows before r have been copied from the row below, and one that
\* has rolled up.
Copied(mem, r) == [n \in Cells |-> IF n \div Width < r THEN mem[n + Width] ELSE mem[n]]
Rolled(mem)    == [n \in Cells |-> IF n \div Width < Height - 1 THEN mem[n + Width] ELSE Blank]

\* Steps of putch() before move_csr(); those at which the text is as it was, and
\* those at which csr_x, csr_y are.
Writing == {"where", "where x", "store", "load x", "store x", "end?", "return", "wrap",
            "load y", "store y", "wrap y", "wrap store", "scroll?", "by", "copy", "bottom"}
Unwritten == {"where", "where x", "store", "return"}
Unmoved == {"where", "where x", "store", "load x", "store x", "return"}

OldText == before.text
NewText == PutText(before.text, before.x, before.y, c)

\* Undisturbed, putch() has done a part of its work on the screen it found.
Printing ==
  /\ c \in Printed /\ before.x \in Columns /\ before.y \in Rows
  /\ OldText = [n \in Cells |-> OldText[n]]
  /\ pc \in {"where", "where x", "store"} => c \notin Controls
  /\ pc \in {"load x", "store x"} => c \notin {"CR", "LF", "NUL"}
  /\ pc = "return" => c \in {"CR", "LF"}
  /\ pc \in {"load y", "store y"} => c = "LF"
  /\ pc \in {"wrap", "wrap y", "wrap store"} => c # "LF" /\ Wraps(before.x, c)
  /\ pc \in {"by", "copy", "bottom"} => before.y = Height - 1 /\ Down(before.x, c)
PrintingText ==
  /\ pc \in Unwritten => textmem = OldText
  /\ pc \notin Unwritten \cup {"copy", "bottom"} => textmem = NewText
  /\ pc = "copy" => tmp = 1 /\ row \in 0..(Height - 1) /\ textmem = Copied(NewText, row)
  /\ pc = "bottom" => textmem = Rolled(NewText)
PrintingX ==
  /\ pc \in Unmoved => csr_x = before.x
  /\ pc = "store" => tmp = before.y * Width + before.x
  /\ pc = "store x" => tmp = before.x
  /\ pc \in {"end?", "wrap"} => csr_x = PutX(before.x, c)
  /\ pc \in {"load y", "store y", "wrap y", "wrap store"} => csr_x = 0
  /\ pc \in {"scroll?", "by", "copy", "bottom"} => csr_x = EndX(before.x, c)
PrintingY ==
  /\ pc \in Unmoved \cup {"load y", "store y", "wrap", "wrap y", "wrap store"} =>
       csr_y = before.y
  /\ pc = "where x" => tmp = before.y * Width
  /\ pc \in {"store y", "wrap store"} => tmp = before.y
  /\ pc = "end?" => csr_y = before.y + (IF c = "LF" THEN 1 ELSE 0)
  /\ pc \in {"scroll?", "by", "copy", "bottom"} =>
       csr_y = before.y + (IF Down(before.x, c) THEN 1 ELSE 0)

\* cls() has blanked the rows it has been through.
Clearing ==
  echoed # "text" =>
    /\ pc = "clear" => /\ row \in 0..Height
                       /\ \A n \in Cells : n \div Width < row => textmem[n] = Blank
    /\ pc = "clear y" => csr_x = 0 /\ \A n \in Cells : textmem[n] = Blank

PaperInv ==
  /\ textmem = [n \in Cells |-> textmem[n]]
  /\ ~mixed /\ pc # "idle" /\ Untouched =>
       before.text = textmem /\ before.x = csr_x /\ before.y = csr_y
  /\ ~mixed /\ pc \in Writing => Printing /\ PrintingText /\ PrintingX /\ PrintingY
  /\ ~mixed /\ pc \in {"clear", "clear y"} => echoed # "text"
  /\ Clearing

\* Quotient and remainder are unique.
LEMMA Division ==
  ASSUME NEW d \in Nat \ {0}, NEW p \in Nat, NEW q \in Nat,
         NEW a \in 0..(d - 1), NEW b \in 0..(d - 1), p * d + a = q * d + b
  PROVE  p = q /\ a = b
<1>1. a \in Nat /\ b \in Nat /\ a < d /\ b < d /\ p * d \in Nat /\ q * d \in Nat
  OBVIOUS
<1>2. \A m, n \in Nat : m < n => m * d + d <= n * d
  <2> SUFFICES ASSUME NEW m \in Nat, NEW n \in Nat, m < n
               PROVE  m * d + d <= n * d
    OBVIOUS
  <2>1. (m + 1) * d <= n * d /\ (m + 1) * d = m * d + d
    OBVIOUS
  <2> QED
    BY <2>1
<1>3. ~ (p < q)
  BY <1>1, <1>2
<1>4. ~ (q < p)
  BY <1>1, <1>2
<1>5. p = q
  BY <1>3, <1>4
<1> QED
  BY <1>1, <1>5

\* Rows and columns of a place are those it was computed from.
LEMMA RowsApart ==
  ASSUME NEW p \in Nat, NEW q \in Nat, NEW a \in Columns, NEW b \in Columns,
         p * Width + a = q * Width + b
  PROVE  p = q /\ a = b
BY Sizes, Division DEF Columns

LEMMA CellAt ==
  ASSUME NEW r \in Rows, NEW k \in Columns
  PROVE  r * Width + k \in Cells /\ (r * Width + k) \div Width = r
<1>1. /\ Width \in Nat \ {0} /\ Height \in Nat /\ r \in Nat /\ k \in Nat /\ k < Width
      /\ r < Height /\ r * Width \in Nat
  BY Sizes, Bounds
<1>2. PICK n \in Nat : n = r * Width + k
  BY <1>1
<1>3. r * Width + Width <= Width * Height
  <2>1. (r + 1) * Width <= Height * Width /\ (r + 1) * Width = r * Width + Width
    BY <1>1
  <2>2. Height * Width = Width * Height
    BY <1>1
  <2> QED
    BY <2>1, <2>2
<1>4. n \in Cells
  <2>1. Width * Height \in Nat
    BY <1>1
  <2> QED
    BY <1>1, <1>2, <1>3, <2>1 DEF Cells
<1>5. n \div Width \in Nat /\ n % Width \in Columns /\ (n \div Width) * Width + (n % Width) = n
  BY <1>1, Quotients DEF Columns
<1>6. n \div Width = r
  BY <1>1, <1>2, <1>5, RowsApart
<1> QED
  BY <1>2, <1>4, <1>6

LEMMA CellIn ==
  ASSUME NEW n \in Cells
  PROVE  /\ n \in Nat /\ n \div Width \in Rows
         /\ n \div Width < Height - 1 => n + Width \in Cells
                                         /\ (n + Width) \div Width = (n \div Width) + 1
<1>1. Width \in Nat \ {0} /\ Height \in Nat \ {0} /\ n \in Nat /\ n < Width * Height
  <2>1. Width * Height \in Nat
    BY Sizes
  <2> QED
    BY <2>1, Sizes DEF Cells
<1>2. PICK q \in Nat, k \in Columns : q = n \div Width /\ q * Width + k = n
  <2>1. n \div Width \in Nat /\ n % Width \in Columns /\ (n \div Width) * Width + (n % Width) = n
    BY <1>1, Quotients DEF Columns
  <2> QED
    BY <2>1
<1>3. k \in Nat /\ k < Width /\ q * Width \in Nat
  BY <1>1, <1>2, Bounds
<1>4. q \in Rows
  <2> SUFFICES ASSUME q >= Height
               PROVE  FALSE
    BY <1>1 DEF Rows
  <2>1. q * Width >= Height * Width /\ Height * Width = Width * Height
    BY <1>1
  <2> QED
    BY <1>1, <1>2, <1>3, <2>1
<1>5. ASSUME q < Height - 1
      PROVE  n + Width \in Cells /\ (n + Width) \div Width = q + 1
  <2>1. q + 1 \in Rows
    BY <1>1, <1>5 DEF Rows
  <2>2. (q + 1) * Width + k = n + Width
    <3>1. (q + 1) * Width = q * Width + Width
      BY <1>1
    <3> QED
      BY <1>1, <1>2, <1>3, <3>1
  <2> QED
    BY <2>1, <2>2, CellAt
<1> QED
  BY <1>1, <1>2, <1>4, <1>5

\* No row comes before the first.
LEMMA NoneCleared ==
  0 \in 0..Height /\ \A n \in Cells : ~ (n \div Width < 0)
<1>1. \A q \in Nat : ~ (q < 0)
  OBVIOUS
<1>2. \A n \in Cells : n \div Width \in Nat
  BY CellIn, Bounds
<1>3. 0 \in 0..Height
  BY Sizes
<1> QED
  BY <1>1, <1>2, <1>3

\* What a store, rolling up and clearing do to the rows and columns shown.
LEMMA Shows ==
  ASSUME NEW mem, NEW r \in Rows, NEW k \in Columns
  PROVE  Shown(mem)[r][k] = mem[r * Width + k]
BY DEF Shown, Rows, Columns

LEMMA ShownStore ==
  ASSUME NEW mem, NEW y \in Rows, NEW x \in Columns, NEW char
  PROVE  Shown(Store(mem, y * Width + x, char)) = [Shown(mem) EXCEPT ![y][x] = char]
<1> DEFINE at == y * Width + x
           one == Shown(Store(mem, at, char))
<1>1. \A r \in Rows : \A k \in Columns :
        Shown(Store(mem, at, char))[r][k] = IF r = y /\ k = x THEN char ELSE mem[r * Width + k]
  <2> SUFFICES ASSUME NEW r \in Rows, NEW k \in Columns
               PROVE  Shown(Store(mem, at, char))[r][k]
                        = IF r = y /\ k = x THEN char ELSE mem[r * Width + k]
    OBVIOUS
  <2>1. r * Width + k \in Cells
    BY CellAt
  <2>2. (r * Width + k = at) <=> (r = y /\ k = x)
    BY Bounds, RowsApart
  <2> HIDE DEF at
  <2>3. Store(mem, at, char)[r * Width + k] = IF r * Width + k = at THEN char
                                              ELSE mem[r * Width + k]
    BY <2>1 DEF Store
  <2> QED
    BY <2>2, <2>3, Shows
<1> HIDE DEF at
<1>2. one = [r \in Rows |-> [k \in Columns |-> one[r][k]]]
  BY DEF Shown, Rows, Columns
<1>3. Shown(mem) = [r \in Rows |-> [k \in Columns |-> mem[r * Width + k]]]
  BY DEF Shown, Rows, Columns
<1>4. [Shown(mem) EXCEPT ![y][x] = char]
        = [r \in Rows |-> [k \in Columns |-> IF r = y /\ k = x THEN char ELSE mem[r * Width + k]]]
  <2>1. PICK f : f = Shown(mem)
    OBVIOUS
  <2>2. \A r \in Rows : f[r] = [k \in Columns |-> mem[r * Width + k]]
    BY <1>3, <2>1
  <2>3. [f EXCEPT ![y][x] = char] = [r \in Rows |-> IF r = y THEN [f[y] EXCEPT ![x] = char]
                                                    ELSE f[r]]
    BY <1>3, <2>1
  <2>4. [f[y] EXCEPT ![x] = char]
          = [k \in Columns |-> IF k = x THEN char ELSE mem[y * Width + k]]
    BY <2>2
  <2>5. ASSUME NEW r \in Rows
        PROVE  (IF r = y THEN [f[y] EXCEPT ![x] = char] ELSE f[r])
                 = [k \in Columns |-> IF r = y /\ k = x THEN char ELSE mem[r * Width + k]]
    <3>1. CASE r = y
      BY <2>4, <3>1
    <3>2. CASE r # y
      BY <2>2, <3>2
    <3> QED
      BY <3>1, <3>2
  <2> QED
    BY <2>1, <2>3, <2>5
<1>5. one = [r \in Rows |-> [k \in Columns |-> IF r = y /\ k = x THEN char ELSE mem[r * Width + k]]]
  BY <1>1, <1>2
<1> QED
  BY <1>4, <1>5 DEF at

LEMMA ShownRolled ==
  ASSUME NEW mem
  PROVE  Shown(Rolled(mem)) = Paper!RolledUp(Shown(mem))
<1> DEFINE up == Rolled(mem)
<1>1. \A r \in Rows : \A k \in Columns :
        up[r * Width + k] = IF r + 1 \in Rows THEN mem[(r + 1) * Width + k] ELSE Blank
  <2> SUFFICES ASSUME NEW r \in Rows, NEW k \in Columns
               PROVE  up[r * Width + k] = IF r + 1 \in Rows THEN mem[(r + 1) * Width + k] ELSE Blank
    OBVIOUS
  <2>1. PICK n : n = r * Width + k
    OBVIOUS
  <2>2. n \in Cells /\ n \div Width = r
    BY <2>1, CellAt
  <2>3. n + Width = (r + 1) * Width + k
    <3>1. (r + 1) * Width = r * Width + Width /\ r * Width \in Nat /\ k \in Nat /\ Width \in Nat
      BY Sizes, Bounds
    <3> QED
      BY <2>1, <3>1
  <2>4. (r < Height - 1) <=> (r + 1 \in Rows)
    BY Sizes, Bounds DEF Rows
  <2>5. up[n] = IF n \div Width < Height - 1 THEN mem[n + Width] ELSE Blank
    BY <2>2 DEF Rolled
  <2> QED
    BY <2>1, <2>2, <2>3, <2>4, <2>5
<1>2. Shown(up) = [r \in Rows |-> [k \in Columns |-> up[r * Width + k]]]
  BY DEF Shown, Rows, Columns
<1>3. Shown(mem) = [r \in Rows |-> [k \in Columns |-> mem[r * Width + k]]]
  BY DEF Shown, Rows, Columns
<1>4. Paper!RolledUp(Shown(mem))
        = [r \in Rows |-> IF r + 1 \in Rows THEN Shown(mem)[r + 1]
                                            ELSE [k \in Columns |-> Blank]]
  BY DEF Paper!RolledUp, Paper!Rows, Paper!EmptyRow, Paper!Columns, Rows, Columns
<1> HIDE DEF up
<1>5. \A r \in Rows : (IF r + 1 \in Rows THEN Shown(mem)[r + 1] ELSE [k \in Columns |-> Blank])
                       = [k \in Columns |-> up[r * Width + k]]
  <2> SUFFICES ASSUME NEW r \in Rows
               PROVE  (IF r + 1 \in Rows THEN Shown(mem)[r + 1] ELSE [k \in Columns |-> Blank])
                       = [k \in Columns |-> up[r * Width + k]]
    OBVIOUS
  <2>1. CASE r + 1 \in Rows
    <3>1. Shown(mem)[r + 1] = [k \in Columns |-> mem[(r + 1) * Width + k]]
      BY <1>3, <2>1
    <3>2. \A k \in Columns : up[r * Width + k] = mem[(r + 1) * Width + k]
      BY <1>1, <2>1
    <3> QED
      BY <2>1, <3>1, <3>2
  <2>2. CASE r + 1 \notin Rows
    <3>1. \A k \in Columns : up[r * Width + k] = Blank
      BY <1>1, <2>2
    <3> QED
      BY <2>2, <3>1
  <2> QED
    BY <2>1, <2>2
<1>6. Shown(up) = Paper!RolledUp(Shown(mem))
  BY <1>2, <1>4, <1>5
<1> QED
  BY <1>6 DEF up

LEMMA ShownBlank ==
  ASSUME NEW mem, \A n \in Cells : mem[n] = Blank
  PROVE  Shown(mem) = Paper!EmptySheet
<1>1. \A r \in Rows : \A k \in Columns : mem[r * Width + k] = Blank
  BY CellAt
<1>2. Shown(mem) = [r \in Rows |-> [k \in Columns |-> mem[r * Width + k]]]
  BY DEF Shown, Rows, Columns
<1>3. Paper!EmptySheet = [r \in Rows |-> [k \in Columns |-> Blank]]
  BY DEF Paper!EmptySheet, Paper!EmptyRow, Paper!Rows, Paper!Columns, Rows, Columns
<1>4. \A r \in Rows : [k \in Columns |-> mem[r * Width + k]] = [k \in Columns |-> Blank]
  BY <1>1
<1> QED
  BY <1>2, <1>3, <1>4

\* The whole of putch(k), rolling up included.
EndText(mem, x, y, k) ==
  IF Down(x, k) /\ y = Height - 1 THEN Rolled(PutText(mem, x, y, k)) ELSE PutText(mem, x, y, k)
EndY(x, y, k) == IF Down(x, k) /\ y # Height - 1 THEN y + 1 ELSE y

\* What the paper shows.
PaperText == IF Done THEN textmem ELSE before.text
PaperX    == IF Done THEN csr_x ELSE before.x
PaperY    == IF Done THEN csr_y ELSE before.y

\* The next stop of putch() is that of the paper.
LEMMA StopsAgree ==
  ASSUME NEW x \in Columns
  PROVE  NextStop(x) = (x \div Tab + 1) * Tab
<1>1. Tab \in Nat \ {0} /\ x \in Nat
  BY Sizes, Bounds
<1>2. PICK q \in Nat, k \in 0..(Tab - 1) : q = x \div Tab /\ q * Tab + k = x
  <2>1. x \div Tab \in Nat /\ x % Tab \in 0..(Tab - 1) /\ (x \div Tab) * Tab + (x % Tab) = x
    BY <1>1, Quotients
  <2> QED
    BY <2>1
<1>3. PICK p \in Nat, j \in 0..(Tab - 1) : p = (x + Tab) \div Tab /\ p * Tab + j = x + Tab
  <2>1. PICK n \in Nat : n = x + Tab
    BY <1>1
  <2>2. n \div Tab \in Nat /\ n % Tab \in 0..(Tab - 1) /\ (n \div Tab) * Tab + (n % Tab) = n
    BY <1>1, Quotients
  <2> QED
    BY <2>1, <2>2
<1>4. (q + 1) * Tab + k = x + Tab
  <2>1. (q + 1) * Tab = q * Tab + Tab /\ q * Tab \in Nat
    BY <1>1
  <2> QED
    BY <1>1, <1>2, <2>1
<1>5. p = q + 1
  BY <1>1, <1>3, <1>4, Division
<1> QED
  BY <1>2, <1>3, <1>5 DEF NextStop

\* The column putch() comes to.
LEMMA ColumnAfter ==
  ASSUME NEW x \in Columns, NEW k
  PROVE  /\ PutX(x, k) \in 0..Width /\ EndX(x, k) \in Columns
         /\ ~ Wraps(x, k) => PutX(x, k) < Width
         /\ k \in {"CR", "LF", "NUL", "BS"} => ~ Wraps(x, k)
<1>1. x \in Nat /\ x < Width /\ x + 1 \in 0..Width /\ x \in 0..Width /\ Width \in Nat \ {0}
  BY Sizes, Bounds
<1>2. \/ k = "BS" \/ k = "TAB" \/ k \in {"CR", "LF"} \/ k = "NUL" \/ k \notin Controls
  BY DEF Controls
<1>3. /\ k = "BS" => PutX(x, k) = IF x = 0 THEN 0 ELSE x - 1
      /\ k = "TAB" => PutX(x, k) = NextStop(x)
      /\ k \in {"CR", "LF"} => PutX(x, k) = 0
      /\ k = "NUL" => PutX(x, k) = x
      /\ k \notin Controls => PutX(x, k) = x + 1
  BY DEF PutX, Controls
<1>4. PutX(x, k) \in 0..Width
  BY <1>1, <1>2, <1>3, NextStopInRow
<1>5. k \in {"CR", "LF", "NUL", "BS"} => PutX(x, k) < Width
  BY <1>1, <1>3
<1>6. PICK n \in 0..Width : n = PutX(x, k)
  BY <1>4
<1>7. (n >= Width \/ n \in Columns) /\ (~ (n >= Width) => n < Width) /\ (n < Width => ~ (n >= Width))
  BY <1>1, Bounds
<1> QED
  BY <1>4, <1>5, <1>6, <1>7, Bounds DEF EndX, Wraps

\* putch() at once is a character put on the paper.
LEMMA PutStep ==
  ASSUME NEW k, NEW x \in Columns, NEW y \in Rows, NEW mem,
         PaperText = mem, PaperX = x, PaperY = y,
         PaperText' = EndText(mem, x, y, k), PaperX' = EndX(x, k), PaperY' = EndY(x, y, k),
         ~ mixed, ~ mixed'
  PROVE  Paper!Put(k)
<1> DEFINE with == Shown(PutText(mem, x, y, k))
<1>1. x \in Nat /\ y \in Nat /\ Width \in Nat \ {0} /\ Height \in Nat \ {0}
  BY Sizes, Bounds
<1>2. \/ k = "BS" \/ k = "TAB" \/ k \in {"CR", "LF"} \/ k = "NUL" \/ k \notin Controls
  BY DEF Controls
<1>3. Paper!After(k) = PutX(x, k)
  BY <1>2, StopsAgree DEF Paper!After, Paper!Controls, PutX, Controls, PaperX
<1>4. Paper!With(k) = with
  <2>1. CASE k = "BS" /\ x > 0
    <3>1. PutText(mem, x, y, k) = Store(mem, y * Width + (x - 1), Blank) /\ x - 1 \in Columns
      BY <1>1, <2>1 DEF PutText, Controls, Columns
    <3>2. with = [Shown(mem) EXCEPT ![y][x - 1] = Blank]
      BY <3>1, ShownStore
    <3>3. Paper!With(k) = [Shown(mem) EXCEPT ![y][x - 1] = Blank]
      BY <2>1 DEF Paper!With, Paper!Controls, PaperX, PaperY, PaperText
    <3> QED
      BY <3>2, <3>3
  <2>2. CASE k \notin Controls
    <3>1. PutText(mem, x, y, k) = Store(mem, y * Width + x, k)
      BY <2>2 DEF PutText
    <3>2. with = [Shown(mem) EXCEPT ![y][x] = k]
      BY <3>1, ShownStore
    <3>3. Paper!With(k) = [Shown(mem) EXCEPT ![y][x] = k]
      BY <2>2 DEF Paper!With, Paper!Controls, Controls, PaperX, PaperY, PaperText
    <3> QED
      BY <3>2, <3>3
  <2>3. CASE k \in Controls /\ ~ (k = "BS" /\ x > 0)
    <3>1. PutText(mem, x, y, k) = mem
      BY <1>1, <2>3 DEF PutText
    <3>2. Paper!With(k) = Shown(mem)
      BY <2>3 DEF Paper!With, Paper!Controls, Controls, PaperX, PaperText
    <3> QED
      BY <3>1, <3>2
  <2> QED
    BY <2>1, <2>2, <2>3
<1> HIDE DEF with
<1>5. (y = Height - 1) <=> ~ (y + 1 \in Paper!Rows)
  BY <1>1, Bounds DEF Rows, Paper!Rows
<1>6. Shown(PaperText') = IF Down(x, k) /\ y = Height - 1 THEN Paper!RolledUp(with) ELSE with
  BY ShownRolled DEF EndText, with
<1>7. (k # "LF" /\ PutX(x, k) < Width) <=> ~ Down(x, k)
  BY <1>1, ColumnAfter DEF Down, Wraps
<1>8. EndX(x, k) = IF Down(x, k) THEN 0 ELSE PutX(x, k)
  BY DEF EndX, Down, PutX, Controls
<1>9. CASE Down(x, k) /\ y = Height - 1
  <2>1. PaperX' = 0 /\ PaperY' = y /\ Shown(PaperText') = Paper!RolledUp(with)
    BY <1>6, <1>8, <1>9 DEF EndY
  <2> QED
    BY <1>3, <1>4, <1>5, <1>7, <1>9, <2>1 DEF Paper!Put, PaperX, PaperY, PaperText
<1>10. CASE Down(x, k) /\ y # Height - 1
  <2>1. PaperX' = 0 /\ PaperY' = y + 1 /\ Shown(PaperText') = with
    BY <1>6, <1>8, <1>10 DEF EndY
  <2> QED
    BY <1>3, <1>4, <1>5, <1>7, <1>10, <2>1 DEF Paper!Put, PaperX, PaperY, PaperText
<1>11. CASE ~ Down(x, k)
  <2>1. PaperX' = PutX(x, k) /\ PaperY' = y /\ Shown(PaperText') = with
    BY <1>6, <1>8, <1>11 DEF EndY
  <2> QED
    BY <1>3, <1>4, <1>7, <1>11, <2>1 DEF Paper!Put, PaperX, PaperY, PaperText
<1> QED
  BY <1>9, <1>10, <1>11

\* The text stays a text.
LEMMA TextStays ==
  ASSUME textmem = [n \in Cells |-> textmem[n]], [Next]_vars
  PROVE  textmem' = [n \in Cells |-> textmem'[n]]
<1>1. ASSUME NEW mem, NEW a, NEW char, NEW r, NEW by
      PROVE  /\ Store(mem, a, char) = [n \in Cells |-> Store(mem, a, char)[n]]
             /\ CopyRow(mem, r, by) = [n \in Cells |-> CopyRow(mem, r, by)[n]]
             /\ ClearRow(mem, r) = [n \in Cells |-> ClearRow(mem, r)[n]]
  BY DEF Store, CopyRow, ClearRow
<1>2. ASSUME NEW mem, NEW y, mem = [n \in Cells |-> mem[n]]
      PROVE  Scrolled(mem, y) = [n \in Cells |-> Scrolled(mem, y)[n]]
  BY <1>2 DEF Scrolled
<1>3. CASE textmem' = textmem
  BY <1>3
<1>4. ASSUME NEW k, Echo(k)
      PROVE  textmem' = [n \in Cells |-> textmem'[n]]
  <2> DEFINE text == IF ~EchoStores(k) THEN textmem
                     ELSE Store(textmem, EchoAt(k), IF k = "BS" THEN Blank ELSE k)
  <2>1. text = [n \in Cells |-> text[n]]
    BY <1>1
  <2>2. PICK y : textmem' = Scrolled(text, y)
    BY <1>4 DEF Echo
  <2> HIDE DEF text
  <2> QED
    BY <1>2, <2>1, <2>2
<1>5. CASE StoreChar \/ ScrollCopy \/ ScrollClear \/ ClsRow
  <2>1. \/ textmem' = Store(textmem, tmp, c) \/ textmem' = CopyRow(textmem, row, tmp)
        \/ textmem' = ClearRow(textmem, row)
    BY <1>5 DEF StoreChar, ScrollCopy, ScrollClear, ClsRow
  <2>2. CASE textmem' = Store(textmem, tmp, c)
    BY <1>1, <2>2
  <2>3. CASE textmem' = CopyRow(textmem, row, tmp)
    BY <1>1, <2>3
  <2>4. CASE textmem' = ClearRow(textmem, row)
    BY <1>1, <2>4
  <2> QED
    BY <2>1, <2>2, <2>3, <2>4
<1> QED
  BY <1>3, <1>4, <1>5 DEF Next, MainThread, Cls, Putch, Begins, Where, WhereX, LoadX, StoreX,
     ReturnX, LoadY, StoreY, EndOfRow, ScrollTest, ScrollBy, ScrollBottom, MoveY, MoveX, Select,
     MoveHigh, MoveLow, ClsX, ClsY, vars

\* What the main thread knows of an undisturbed putch().
Undisturbed == Printing /\ PrintingText /\ PrintingX /\ PrintingY

LEMMA OldsStay ==
  ASSUME UNCHANGED <<before, c>>
  PROVE  /\ OldText' = OldText /\ NewText' = NewText
         /\ PutX(before.x, c)' = PutX(before.x, c) /\ EndX(before.x, c)' = EndX(before.x, c)
         /\ Wraps(before.x, c)' = Wraps(before.x, c) /\ Down(before.x, c)' = Down(before.x, c)
BY DEF OldText, NewText

\* What putch() comes to, for each kind of character it prints.
LEMMA Kinds ==
  ASSUME Printing
  PROVE  /\ c # "BS" /\ before.x \in Columns /\ before.y \in Rows
         /\ c \notin Controls => /\ NewText = Store(OldText, before.y * Width + before.x, c)
                                 /\ PutX(before.x, c) = before.x + 1
         /\ c \in Controls => NewText = OldText
         /\ c = "TAB" => PutX(before.x, c) = NextStop(before.x)
         /\ c \in {"CR", "LF"} => PutX(before.x, c) = 0
         /\ c = "NUL" => PutX(before.x, c) = before.x
<1>1. c # "BS" /\ before.x \in Columns /\ before.y \in Rows
  BY PrintedAssumption DEF Printing
<1>2. /\ c \notin Controls => NewText = Store(OldText, before.y * Width + before.x, c)
      /\ c \in Controls => NewText = OldText
  BY <1>1 DEF NewText, OldText, PutText
<1>3. /\ c \notin Controls => PutX(before.x, c) = before.x + 1
      /\ c = "TAB" => PutX(before.x, c) = NextStop(before.x)
      /\ c \in {"CR", "LF"} => PutX(before.x, c) = 0
      /\ c = "NUL" => PutX(before.x, c) = before.x
  BY DEF PutX, Controls
<1> QED
  BY <1>1, <1>2, <1>3

LEMMA CharacterPrints ==
  ASSUME Undisturbed, Where \/ WhereX \/ StoreChar
  PROVE  Undisturbed' /\ ~ Untouched' /\ UNCHANGED history
<1>1. /\ UNCHANGED <<csr_x, csr_y, c, row, before, echoed, mixed>>
      /\ \/ pc = "where" /\ pc' = "where x" /\ textmem' = textmem /\ tmp' = csr_y * Width
         \/ pc = "where x" /\ pc' = "store" /\ textmem' = textmem /\ tmp' = tmp + csr_x
         \/ pc = "store" /\ pc' = "load x" /\ textmem' = Store(textmem, tmp, c)
  BY DEF Where, WhereX, StoreChar, Go, cursor, history
<1>2. c \notin Controls /\ textmem = OldText /\ csr_x = before.x /\ csr_y = before.y
  BY <1>1 DEF Undisturbed, Printing, PrintingText, PrintingX, PrintingY, Unwritten, Unmoved
<1>3. OldText' = OldText /\ NewText' = NewText
  BY <1>1, OldsStay
<1>4. Printing'
  BY <1>1, <1>2, <1>3 DEF Undisturbed, Printing, Controls
<1>5. PrintingText'
  <2>1. pc = "store" => textmem' = NewText
    BY <1>1, <1>2, Kinds DEF Undisturbed, PrintingX
  <2> QED
    BY <1>1, <1>2, <1>3, <2>1 DEF PrintingText, Unwritten
<1>6. PrintingX'
  <2>1. pc = "where x" => tmp' = before.y * Width + before.x
    BY <1>1, <1>2 DEF Undisturbed, PrintingY
  <2> QED
    BY <1>1, <1>2, <2>1 DEF PrintingX, Unmoved
<1>7. PrintingY'
  BY <1>1, <1>2 DEF PrintingY, Unmoved
<1>8. ~ Untouched'
  BY <1>1, <1>2 DEF Untouched, Controls
<1> QED
  BY <1>1, <1>4, <1>5, <1>6, <1>7, <1>8 DEF Undisturbed, history

LEMMA ColumnPrints ==
  ASSUME ScreenInv, Undisturbed, LoadX \/ StoreX \/ ReturnX
  PROVE  Undisturbed' /\ ~ Untouched' /\ UNCHANGED history
<1>1. UNCHANGED <<csr_y, c, row, before, echoed, mixed, textmem>>
  BY DEF LoadX, StoreX, ReturnX, cursor, local, history
<1>2. \/ pc = "load x" /\ pc' = "store x" /\ tmp' = csr_x /\ csr_x' = csr_x
      \/ pc = "store x" /\ pc' = "end?" /\ csr_x' = IF c = "TAB" THEN NextStop(tmp) ELSE tmp + 1
      \/ pc = "return" /\ c = "CR" /\ pc' = "end?" /\ csr_x' = 0
      \/ pc = "return" /\ c # "CR" /\ pc' = "load y" /\ csr_x' = 0
      \/ pc = "wrap" /\ pc' = "wrap y" /\ csr_x' = 0
  BY DEF LoadX, StoreX, ReturnX, Go, cursor
<1>3. /\ OldText' = OldText /\ NewText' = NewText
      /\ PutX(before.x, c)' = PutX(before.x, c) /\ Wraps(before.x, c)' = Wraps(before.x, c)
  BY <1>1, OldsStay
<1>4. /\ pc \in {"load x", "store x"} => c \notin {"CR", "LF", "NUL"}
      /\ pc = "return" => c \in {"CR", "LF"} /\ textmem = OldText
      /\ pc = "wrap" => c # "LF" /\ Wraps(before.x, c)
      /\ pc # "return" => textmem = NewText
      /\ csr_y = before.y
      /\ pc \in {"load x", "store x"} => csr_x = before.x
      /\ pc = "store x" => tmp = before.x
      /\ c # "BS" /\ before.x \in Columns /\ before.y \in Rows
  BY <1>2, Kinds DEF Undisturbed, Printing, PrintingText, PrintingX, PrintingY, Unwritten, Unmoved
<1>5. textmem = NewText
  BY <1>4, <1>2, Kinds DEF Undisturbed, Controls
<1>6. Printing'
  BY <1>1, <1>2, <1>3, <1>4 DEF Undisturbed, Printing
<1>7. PrintingText'
  BY <1>1, <1>2, <1>3, <1>5 DEF PrintingText, Unwritten
<1>8. PrintingX'
  <2>1. pc = "store x" => csr_x' = PutX(before.x, c)
    <3> SUFFICES ASSUME pc = "store x"
                 PROVE  csr_x' = PutX(before.x, c)
      OBVIOUS
    <3>1. c = "TAB" \/ c \notin Controls
      BY <1>4 DEF Controls
    <3>2. csr_x' = IF c = "TAB" THEN NextStop(before.x) ELSE before.x + 1
      BY <1>2, <1>4
    <3>3. /\ c \notin Controls => PutX(before.x, c) = before.x + 1
          /\ c = "TAB" => PutX(before.x, c) = NextStop(before.x)
      BY Kinds DEF Undisturbed
    <3>4. c \notin Controls => c # "TAB"
      BY DEF Controls
    <3> QED
      BY <3>1, <3>2, <3>3, <3>4
  <2>2. pc = "return" => csr_x' = PutX(before.x, c)
    BY <1>2, <1>4, Kinds DEF Undisturbed
  <2> QED
    BY <1>1, <1>2, <1>3, <1>4, <2>1, <2>2 DEF PrintingX, Unmoved
<1>9. PrintingY'
  <2>1. before.y \in Nat
    BY <1>4, Bounds
  <2>3. before.y = before.y + 0
    BY <2>1
  <2>4. pc' = "end?" => c # "LF"
    BY <1>2, <1>4
  <2>2. pc' = "end?" => c # "LF" /\ csr_y' = before.y + 0
    BY <1>1, <1>4, <2>3, <2>4
  <2> QED
    BY <1>1, <1>2, <1>4, <2>2 DEF PrintingY, Unmoved
<1>10. ~ Untouched'
  BY <1>1, <1>2, <1>4 DEF Untouched
<1> QED
  BY <1>1, <1>6, <1>7, <1>8, <1>9, <1>10 DEF Undisturbed, history

LEMMA RowPrints ==
  ASSUME ScreenInv, Undisturbed, LoadY \/ StoreY \/ EndOfRow
  PROVE  Undisturbed' /\ ~ Untouched' /\ UNCHANGED history
<1>1. UNCHANGED <<csr_x, c, row, before, echoed, mixed, textmem>>
  BY DEF LoadY, StoreY, EndOfRow, cursor, local, history
<1>2. \/ pc = "load y" /\ pc' = "store y" /\ tmp' = csr_y /\ csr_y' = csr_y
      \/ pc = "wrap y" /\ pc' = "wrap store" /\ tmp' = csr_y /\ csr_y' = csr_y
      \/ pc = "store y" /\ pc' = "end?" /\ csr_y' = tmp + 1
      \/ pc = "wrap store" /\ pc' = "scroll?" /\ csr_y' = tmp + 1
      \/ pc = "end?" /\ csr_x >= Width /\ pc' = "wrap" /\ csr_y' = csr_y
      \/ pc = "end?" /\ ~ (csr_x >= Width) /\ pc' = "scroll?" /\ csr_y' = csr_y
  BY DEF LoadY, StoreY, EndOfRow, Go, cursor
<1>3. /\ OldText' = OldText /\ NewText' = NewText
      /\ PutX(before.x, c)' = PutX(before.x, c) /\ Wraps(before.x, c)' = Wraps(before.x, c)
      /\ EndX(before.x, c)' = EndX(before.x, c) /\ Down(before.x, c)' = Down(before.x, c)
  BY <1>1, OldsStay
<1>4. /\ pc \in {"load y", "store y"} => c = "LF"
      /\ pc \in {"wrap y", "wrap store"} => c # "LF" /\ Wraps(before.x, c)
      /\ textmem = NewText
      /\ pc \in {"load y", "store y", "wrap y", "wrap store"} => csr_x = 0
      /\ pc \in {"load y", "wrap y"} => csr_y = before.y
      /\ pc \in {"store y", "wrap store"} => tmp = before.y
      /\ pc = "end?" => /\ csr_x = PutX(before.x, c)
                        /\ csr_y = before.y + (IF c = "LF" THEN 1 ELSE 0)
      /\ before.x \in Columns /\ before.y \in Rows
  BY <1>2, Kinds DEF Undisturbed, Printing, PrintingText, PrintingX, PrintingY, Unwritten
<1>5. /\ Down(before.x, c) <=> (c = "LF" \/ Wraps(before.x, c))
      /\ EndX(before.x, c) = IF Wraps(before.x, c) THEN 0 ELSE PutX(before.x, c)
      /\ c = "LF" => ~ Wraps(before.x, c) /\ PutX(before.x, c) = 0
  BY <1>4, ColumnAfter, Kinds DEF Undisturbed, Down, EndX
<1>6. pc = "end?" => (csr_x >= Width <=> Wraps(before.x, c))
  BY <1>4 DEF Wraps
<1>7. before.y \in Nat /\ before.y + 0 = before.y
  <2>1. before.y \in Nat
    BY <1>4, Bounds
  <2> QED
    BY <2>1
<1>8. Printing'
  <2>1. pc' = "store y" => c = "LF"
    BY <1>2, <1>4
  <2>2. pc' \in {"wrap", "wrap store"} => c # "LF" /\ Wraps(before.x, c)
    BY <1>2, <1>4, <1>5, <1>6
  <2> QED
    BY <1>1, <1>2, <1>3, <2>1, <2>2 DEF Undisturbed, Printing
<1>9. PrintingText'
  BY <1>1, <1>2, <1>3, <1>4 DEF PrintingText, Unwritten
<1>10. PrintingX'
  <2>1. pc' \in {"store y", "wrap store"} => csr_x' = 0
    BY <1>1, <1>2, <1>4
  <2>2. pc' \in {"end?", "wrap"} => csr_x' = PutX(before.x, c)
    BY <1>1, <1>2, <1>4, <1>5
  <2>3. pc' = "scroll?" => csr_x' = EndX(before.x, c)
    <3>1. CASE pc = "wrap store"
      BY <1>1, <1>4, <1>5, <3>1
    <3>2. CASE pc = "end?" /\ ~ (csr_x >= Width)
      BY <1>1, <1>4, <1>5, <1>6, <3>2
    <3> QED
      BY <1>2, <3>1, <3>2
  <2> QED
    BY <1>1, <1>2, <1>3, <2>1, <2>2, <2>3 DEF PrintingX, Unmoved
<1>11. PrintingY'
  <2>1. pc' \in {"store y", "wrap store"} => csr_y' = before.y /\ tmp' = before.y
    BY <1>2, <1>4
  <2>2. pc' = "wrap" => csr_y' = before.y
    BY <1>2, <1>4, <1>5, <1>6, <1>7
  <2>3. pc' = "end?" => csr_y' = before.y + (IF c = "LF" THEN 1 ELSE 0)
    BY <1>2, <1>4
  <2>4. pc' = "scroll?" => csr_y' = before.y + (IF Down(before.x, c) THEN 1 ELSE 0)
    BY <1>2, <1>4, <1>5, <1>6
  <2> QED
    BY <1>1, <1>2, <1>3, <2>1, <2>2, <2>3, <2>4 DEF PrintingY, Unmoved
<1>12. ~ Untouched'
  BY <1>1, <1>2, <1>4 DEF Untouched
<1> QED
  BY <1>1, <1>8, <1>9, <1>10, <1>11, <1>12 DEF Undisturbed, history

\* A row copied from the row below, and the last one blanked.
LEMMA CopyOne ==
  ASSUME NEW mem, NEW r \in Nat, r < Height - 1
  PROVE  CopyRow(Copied(mem, r), r, 1) = Copied(mem, r + 1)
<1>1. Width \in Nat /\ 1 * Width = Width
  BY Sizes
<1>2. ASSUME NEW n \in Cells
      PROVE  (IF n \div Width = r THEN Copied(mem, r)[n + 1 * Width] ELSE Copied(mem, r)[n])
               = IF n \div Width < r + 1 THEN mem[n + Width] ELSE mem[n]
  <2>1. PICK q \in Nat : q = n \div Width
    BY CellIn, Bounds
  <2>2. Copied(mem, r)[n] = IF q < r THEN mem[n + Width] ELSE mem[n]
    BY <2>1 DEF Copied
  <2>3. CASE q = r
    <3>1. n + Width \in Cells /\ (n + Width) \div Width = r + 1
      BY <2>1, <2>3, CellIn
    <3>2. Copied(mem, r)[n + Width] = mem[n + Width]
      <4>1. ~ (r + 1 < r)
        OBVIOUS
      <4> QED
        BY <3>1, <4>1 DEF Copied
    <3> QED
      BY <1>1, <2>1, <2>3, <3>2
  <2>4. CASE q # r
    <3>1. (q < r) <=> (q < r + 1)
      BY <2>4
    <3> QED
      BY <2>1, <2>2, <2>4, <3>1
  <2> QED
    BY <2>3, <2>4
<1> QED
  BY <1>2 DEF CopyRow, Copied

LEMMA ClearLast ==
  ASSUME NEW mem
  PROVE  ClearRow(Copied(mem, Height - 1), Height - 1) = Rolled(mem)
<1>1. ASSUME NEW n \in Cells
      PROVE  (IF n \div Width = Height - 1 THEN Blank ELSE Copied(mem, Height - 1)[n])
               = IF n \div Width < Height - 1 THEN mem[n + Width] ELSE Blank
  <2>1. PICK q \in Rows : q = n \div Width
    BY CellIn
  <2>2. Copied(mem, Height - 1)[n] = IF q < Height - 1 THEN mem[n + Width] ELSE mem[n]
    BY <2>1 DEF Copied
  <2>3. (q = Height - 1) <=> ~ (q < Height - 1)
    BY Sizes DEF Rows
  <2> QED
    BY <2>1, <2>2, <2>3
<1> QED
  BY <1>1 DEF ClearRow, Rolled

LEMMA ScrollPrints ==
  ASSUME ScreenInv, Undisturbed, ScrollTest \/ ScrollBy \/ ScrollCopy \/ ScrollClear,
         pc' # "move"
  PROVE  Undisturbed' /\ ~ Untouched' /\ UNCHANGED history
<1>1. UNCHANGED <<csr_x, csr_y, c, before, echoed, mixed>>
  BY DEF ScrollTest, ScrollBy, ScrollCopy, ScrollClear, cursor, local, history
<1>2. \/ pc = "scroll?" /\ pc' = "by" /\ csr_y >= Height /\ textmem' = textmem
      \/ /\ pc = "by" /\ pc' = "copy" /\ tmp' = csr_y - Height + 1 /\ row' = 0
         /\ textmem' = textmem
      \/ /\ pc = "copy" /\ pc' = "copy" /\ row < Height - tmp /\ row' = row + 1 /\ tmp' = tmp
         /\ textmem' = CopyRow(textmem, row, tmp)
      \/ /\ pc = "copy" /\ pc' = "bottom" /\ row = Height - tmp
         /\ textmem' = ClearRow(textmem, row)
  BY DEF ScrollTest, ScrollBy, ScrollCopy, ScrollClear, Go, local
<1>3. /\ OldText' = OldText /\ NewText' = NewText
      /\ EndX(before.x, c)' = EndX(before.x, c) /\ Down(before.x, c)' = Down(before.x, c)
  BY <1>1, OldsStay
<1>4. /\ pc \in {"by", "copy"} => before.y = Height - 1 /\ Down(before.x, c)
      /\ pc \in {"scroll?", "by"} => textmem = NewText
      /\ pc = "copy" => tmp = 1 /\ row \in 0..(Height - 1) /\ textmem = Copied(NewText, row)
      /\ csr_x = EndX(before.x, c)
      /\ csr_y = before.y + (IF Down(before.x, c) THEN 1 ELSE 0)
      /\ before.y \in Rows
  BY <1>2, Kinds DEF Undisturbed, Printing, PrintingText, PrintingX, PrintingY, Unwritten
<1>5. Height \in Nat \ {0} /\ before.y \in Nat /\ before.y < Height
  BY <1>4, Sizes, Bounds
<1>6. pc = "scroll?" => before.y = Height - 1 /\ Down(before.x, c)
  BY <1>2, <1>4, <1>5
<1>7. Printing'
  BY <1>1, <1>2, <1>3, <1>4, <1>6 DEF Undisturbed, Printing
<1>8. PrintingText'
  <2>1. CASE pc = "scroll?"
    BY <1>2, <1>3, <1>4, <2>1 DEF PrintingText, Unwritten
  <2>2. CASE pc = "by"
    <3>1. csr_y - Height + 1 = 1
      BY <1>4, <1>5, <2>2
    <3>2. NewText = Copied(NewText, 0)
      <4>1. NewText = [n \in Cells |-> NewText[n]]
        <5>1. c \notin Controls \/ c \in Controls
          OBVIOUS
        <5>2. OldText = [n \in Cells |-> OldText[n]]
          BY DEF Undisturbed, Printing
        <5> QED
          BY <5>1, <5>2, Kinds DEF Undisturbed, Store
      <4>2. \A n \in Cells : ~ (n \div Width < 0)
        BY NoneCleared
      <4> QED
        BY <4>1, <4>2 DEF Copied
    <3>3. /\ pc' = "copy" /\ tmp' = 1 /\ row' = 0 /\ textmem' = Copied(NewText, 0)
          /\ 0 \in 0..(Height - 1)
      BY <1>2, <1>4, <1>5, <2>2, <3>1, <3>2
    <3> QED
      BY <1>3, <3>3 DEF PrintingText, Unwritten
  <2>3. CASE pc = "copy" /\ pc' = "copy"
    <3>1. tmp = 1 /\ row \in Nat /\ row < Height - 1 /\ row + 1 \in 0..(Height - 1)
      BY <1>2, <1>4, <1>5, <2>3
    <3>2. textmem' = Copied(NewText, row + 1)
      <4>1. textmem' = CopyRow(Copied(NewText, row), row, 1)
        BY <1>2, <1>4, <2>3
      <4> QED
        BY <3>1, <4>1, CopyOne
    <3> QED
      BY <1>2, <1>3, <2>3, <3>1, <3>2 DEF PrintingText, Unwritten
  <2>4. CASE pc' = "bottom"
    <3>1. tmp = 1 /\ row = Height - 1 /\ textmem' = ClearRow(Copied(NewText, row), row)
      BY <1>2, <1>4, <2>4
    <3>2. textmem' = Rolled(NewText)
      BY <3>1, ClearLast
    <3> QED
      BY <1>3, <2>4, <3>2 DEF PrintingText, Unwritten
  <2> QED
    BY <1>2, <2>1, <2>2, <2>3, <2>4
<1>9. PrintingX' /\ PrintingY'
  BY <1>1, <1>2, <1>3, <1>4 DEF PrintingX, PrintingY, Unmoved
<1>10. ~ Untouched'
  BY <1>2 DEF Untouched
<1> QED
  BY <1>1, <1>7, <1>8, <1>9, <1>10 DEF Undisturbed, history

\* A step of the paper, or none.
PaperStep == Paper!Next \/ UNCHANGED <<PaperText, PaperX, PaperY, mixed>>

\* putch() is done with the text and csr_x, csr_y.
LEMMA PutchEnds ==
  ASSUME ScreenInv, Undisturbed, ~ mixed,
         (ScrollTest /\ pc' = "move") \/ ScrollBottom
  PROVE  Paper!Put(c)
<1>1. UNCHANGED <<csr_x, textmem, c, before, mixed>> /\ pc' = "move"
  BY DEF ScrollTest, ScrollBottom, Go, cursor, local, history
<1>2. \/ pc = "scroll?" /\ ~ (csr_y >= Height) /\ csr_y' = csr_y
      \/ pc = "bottom" /\ csr_y' = Height - 1
  <2>1. CASE ScrollTest /\ pc' = "move"
    BY <2>1 DEF ScrollTest, cursor
  <2>2. CASE ScrollBottom
    BY <2>2 DEF ScrollBottom, Go
  <2> QED
    BY <2>1, <2>2
<1>3. /\ pc = "bottom" => before.y = Height - 1 /\ Down(before.x, c)
      /\ pc = "scroll?" => textmem = NewText
      /\ pc = "bottom" => textmem = Rolled(NewText)
      /\ csr_x = EndX(before.x, c)
      /\ csr_y = before.y + (IF Down(before.x, c) THEN 1 ELSE 0)
      /\ before.x \in Columns /\ before.y \in Rows
  BY <1>2, Kinds DEF Undisturbed, Printing, PrintingText, PrintingX, PrintingY, Unwritten
<1>4. Height \in Nat \ {0} /\ before.y \in Nat /\ before.y < Height
  BY <1>3, Sizes, Bounds
<1>5. textmem = EndText(before.text, before.x, before.y, c)
      /\ csr_y' = EndY(before.x, before.y, c)
  <2>1. CASE pc = "scroll?"
    <3>1. Down(before.x, c) => before.y # Height - 1
      BY <1>2, <1>3, <1>4, <2>1
    <3>2. csr_y' = IF Down(before.x, c) THEN before.y + 1 ELSE before.y
      BY <1>2, <1>3, <1>4, <2>1
    <3> QED
      BY <1>3, <2>1, <3>1, <3>2 DEF EndText, EndY, NewText
  <2>2. CASE pc = "bottom"
    BY <1>2, <1>3, <2>2 DEF EndText, EndY, NewText
  <2> QED
    BY <1>2, <2>1, <2>2
<1>6. PaperText = before.text /\ PaperX = before.x /\ PaperY = before.y
  BY <1>2 DEF PaperText, PaperX, PaperY, Done, MovesCursor
<1>7. PaperText' = textmem /\ PaperX' = csr_x /\ PaperY' = csr_y'
  BY <1>1 DEF PaperText, PaperX, PaperY, Done, MovesCursor
<1>8. ~ mixed'
  BY <1>1
<1>9. /\ PaperText' = EndText(before.text, before.x, before.y, c)
      /\ PaperX' = EndX(before.x, c) /\ PaperY' = EndY(before.x, before.y, c)
  BY <1>3, <1>5, <1>7
<1> QED
  BY <1>3, <1>6, <1>8, <1>9, PutStep

\* A step inside putch().
LEMMA PutchStep ==
  ASSUME ScreenInv, PaperInv, [Next]_vars, pc \in Writing, pc' \in Writing, UNCHANGED history,
         Undisturbed => Undisturbed' /\ ~ Untouched'
  PROVE  PaperInv' /\ PaperStep
<1>1. textmem' = [n \in Cells |-> textmem'[n]]
  BY TextStays DEF PaperInv
<1>2. ~ mixed => Undisturbed' /\ ~ Untouched'
  BY DEF PaperInv, Undisturbed
<1>3. mixed' = mixed /\ before' = before
  BY DEF history
<1>4. /\ pc \notin MovesCursor \cup {"idle"} /\ pc' \notin MovesCursor \cup {"idle"}
      /\ pc' \notin {"clear", "clear y"}
  BY DEF Writing, MovesCursor
<1>5. PaperInv'
  BY <1>1, <1>2, <1>3, <1>4 DEF PaperInv, Undisturbed, Clearing
<1>6. mixed => PaperStep
  BY <1>3 DEF PaperStep, Paper!Next, Paper!Interfere
<1>7. ~ mixed => PaperStep
  BY <1>3, <1>4 DEF PaperStep, PaperText, PaperX, PaperY, Done
<1> QED
  BY <1>5, <1>6, <1>7

LEMMA PutchSteps ==
  ASSUME ScreenInv, PaperInv, [Next]_vars,
         \/ Where \/ WhereX \/ StoreChar \/ LoadX \/ StoreX \/ ReturnX \/ LoadY \/ StoreY
         \/ EndOfRow \/ ScrollTest \/ ScrollBy \/ ScrollCopy \/ ScrollClear \/ ScrollBottom
  PROVE  PaperInv' /\ PaperStep
<1>1. CASE Where \/ WhereX \/ StoreChar
  <2>1. pc \in Writing /\ pc' \in Writing /\ UNCHANGED history
    BY <1>1 DEF Where, WhereX, StoreChar, Go, Writing
  <2> QED
    BY <1>1, <2>1, CharacterPrints, PutchStep
<1>2. CASE LoadX \/ StoreX \/ ReturnX
  <2>1. pc \in Writing /\ pc' \in Writing /\ UNCHANGED history
    BY <1>2 DEF LoadX, StoreX, ReturnX, Go, Writing
  <2> QED
    BY <1>2, <2>1, ColumnPrints, PutchStep
<1>3. CASE LoadY \/ StoreY \/ EndOfRow
  <2>1. pc \in Writing /\ pc' \in Writing /\ UNCHANGED history
    BY <1>3 DEF LoadY, StoreY, EndOfRow, Go, Writing
  <2> QED
    BY <1>3, <2>1, RowPrints, PutchStep
<1>4. CASE (ScrollTest \/ ScrollBy \/ ScrollCopy \/ ScrollClear) /\ pc' # "move"
  <2>1. pc \in Writing /\ pc' \in Writing /\ UNCHANGED history
    BY <1>4 DEF ScrollTest, ScrollBy, ScrollCopy, ScrollClear, Go, Writing, local
  <2> QED
    BY <1>4, <2>1, ScrollPrints, PutchStep
<1>5. CASE (ScrollTest \/ ScrollBy \/ ScrollCopy \/ ScrollClear \/ ScrollBottom) /\ pc' = "move"
  <2>1. (ScrollTest /\ pc' = "move") \/ ScrollBottom
    BY <1>5 DEF ScrollBy, ScrollCopy, ScrollClear, Go
  <2>2. pc \in {"scroll?", "bottom"} /\ UNCHANGED history
    BY <2>1 DEF ScrollTest, ScrollBottom, Go
  <2>3. mixed' = mixed
    BY <2>2 DEF history
  <2>4. PaperInv'
    <3>1. textmem' = [n \in Cells |-> textmem'[n]]
      BY TextStays DEF PaperInv
    <3>2. pc' \notin Writing /\ ~ Untouched'
      BY <1>5 DEF Writing, Untouched
    <3> QED
      BY <1>5, <3>1, <3>2 DEF PaperInv, Clearing
  <2>5. mixed => PaperStep
    BY <2>3 DEF PaperStep, Paper!Next, Paper!Interfere
  <2>6. ASSUME ~ mixed
        PROVE  PaperStep
    <3>1. Undisturbed
      BY <2>2, <2>6 DEF PaperInv, Undisturbed, Writing
    <3>2. c \in Printed
      BY <3>1 DEF Undisturbed, Printing
    <3> QED
      BY <2>1, <2>6, <3>1, <3>2, PutchEnds DEF PaperStep, Paper!Next
  <2> QED
    BY <2>4, <2>5, <2>6
<1>6. ScrollBottom => pc' = "move"
  BY DEF ScrollBottom, Go
<1> QED
  BY <1>1, <1>2, <1>3, <1>4, <1>5, <1>6

\* move_csr() leaves the text and csr_x, csr_y alone.
LEMMA MoveSteps ==
  ASSUME PaperInv, [Next]_vars, MoveY \/ MoveX \/ Select \/ MoveHigh \/ MoveLow
  PROVE  PaperInv' /\ PaperStep
<1>1. /\ pc \in MovesCursor /\ pc' \in MovesCursor \cup {"idle"}
      /\ UNCHANGED <<csr_x, csr_y, textmem, mixed>>
  BY DEF MoveY, MoveX, Select, MoveHigh, MoveLow, Go, MovesCursor, cursor, history
<1>2. pc' \notin Writing \cup {"clear", "clear y"} /\ (pc' # "idle" => ~ Untouched')
  BY <1>1 DEF MovesCursor, Writing, Untouched
<1>3. PaperInv'
  BY <1>1, <1>2 DEF PaperInv, Clearing
<1>4. PaperStep
  BY <1>1 DEF PaperStep, PaperText, PaperX, PaperY, Done
<1> QED
  BY <1>3, <1>4

\* A begin leaves the paper as it is, and remembers it.
LEMMA BeginSteps ==
  ASSUME ScreenInv, PaperInv, Cls \/ \E k \in Printed : Putch(k)
  PROVE  PaperInv' /\ PaperStep
<1>1. /\ pc = "idle" /\ UNCHANGED <<csr_x, csr_y, textmem, mixed>> /\ row' = 0 /\ echoed' = "no"
      /\ before' = IF mixed THEN Nothing ELSE Screened
  BY DEF Cls, Putch, Go, Begins, cursor
<1>2. \/ pc' = "clear"
      \/ /\ c' \in Printed
         /\ \/ pc' = "load x" /\ c' = "TAB"
            \/ pc' = "return" /\ c' \in {"CR", "LF"}
            \/ pc' = "end?" /\ c' = "NUL"
            \/ pc' = "where" /\ c' \notin Controls
  <2>1. CASE Cls
    BY <2>1 DEF Cls, Go
  <2>2. ASSUME NEW k \in Printed, Putch(k)
        PROVE  /\ c' \in Printed
               /\ \/ pc' = "load x" /\ c' = "TAB"
                  \/ pc' = "return" /\ c' \in {"CR", "LF"}
                  \/ pc' = "end?" /\ c' = "NUL"
                  \/ pc' = "where" /\ c' \notin Controls
    <3> DEFINE to == CASE k = "TAB" -> "load x" [] k \in {"CR", "LF"} -> "return"
                       [] k = "NUL" -> "end?" [] k \notin Controls -> "where"
    <3>1. k = "TAB" \/ k \in {"CR", "LF"} \/ k = "NUL" \/ k \notin Controls
      BY PrintedAssumption DEF Controls
    <3>2. pc' = to /\ c' = k
      BY <2>2 DEF Putch, Go
    <3>3. \/ to = "load x" /\ k = "TAB"
          \/ to = "return" /\ k \in {"CR", "LF"}
          \/ to = "end?" /\ k = "NUL"
          \/ to = "where" /\ k \notin Controls
      BY <3>1 DEF Controls
    <3> QED
      BY <3>2, <3>3
  <2> QED
    BY <2>1, <2>2
<1>3. csr_x \in Columns /\ csr_y \in Rows
  BY <1>1 DEF ScreenInv, Placing, Past
<1>4. textmem = [n \in Cells |-> textmem[n]]
  BY DEF PaperInv
<1>5. ~ mixed => /\ before'.text = textmem' /\ before'.x = csr_x' /\ before'.y = csr_y'
  BY <1>1 DEF Screened
<1>6. pc' \notin MovesCursor \cup {"idle", "clear y"}
  BY <1>2 DEF MovesCursor
<1>7. ASSUME ~ mixed, pc' \in Writing
      PROVE  Undisturbed'
  <2>1. Printing'
    BY <1>1, <1>2, <1>3, <1>4, <1>5, <1>7 DEF Printing, Writing, OldText, Controls
  <2>2. OldText' = textmem' /\ (c' \in Controls => NewText' = textmem')
    <3>1. c' # "BS"
      BY <1>2, <1>7, PrintedAssumption DEF Writing
    <3> QED
      BY <1>5, <1>7, <3>1 DEF OldText, NewText, PutText
  <2>3. pc' # "clear"
    BY <1>7 DEF Writing
  <2>4. PrintingText'
    BY <1>2, <2>2, <2>3 DEF PrintingText, Unwritten, Controls
  <2>5. PrintingX'
    <3>1. c' = "NUL" => PutX(before.x, c)' = before'.x
      BY DEF PutX, Controls
    <3> QED
      BY <1>2, <1>5, <1>7, <2>3, <3>1 DEF PrintingX, Unmoved
  <2>6. PrintingY'
    <3>1. csr_y' \in Nat /\ csr_y' = csr_y' + 0
      <4>1. csr_y \in Nat /\ csr_y' = csr_y
        BY <1>1, <1>3, Bounds
      <4>2. \A n \in Nat : n = n + 0
        OBVIOUS
      <4> QED
        BY <4>1, <4>2
    <3> QED
      BY <1>2, <1>5, <1>7, <2>3, <3>1 DEF PrintingY, Unmoved
  <2> QED
    BY <2>1, <2>4, <2>5, <2>6 DEF Undisturbed
<1>8. Clearing'
  <2>1. 0 \in 0..Height /\ \A n \in Cells : ~ (n \div Width < 0)
    BY NoneCleared
  <2> QED
    BY <1>1, <1>6, <2>1 DEF Clearing
<1>9. PaperInv'
  BY <1>1, <1>4, <1>5, <1>6, <1>7, <1>8 DEF PaperInv, Undisturbed
<1>10. mixed => PaperStep
  BY <1>1 DEF PaperStep, Paper!Next, Paper!Interfere
<1>11. ~ mixed => PaperStep
  BY <1>1, <1>5, <1>6 DEF PaperStep, PaperText, PaperX, PaperY, Done
<1> QED
  BY <1>9, <1>10, <1>11

\* cls(): the paper is cleared when csr_y is.
LEMMA ClsSteps ==
  ASSUME ScreenInv, PaperInv, [Next]_vars, ClsRow \/ ClsX \/ ClsY
  PROVE  PaperInv' /\ PaperStep
<1>1. textmem' = [n \in Cells |-> textmem'[n]]
  BY TextStays DEF PaperInv
<1>2. Clearing /\ (~ mixed /\ pc \in {"clear", "clear y"} => echoed # "text")
  BY DEF PaperInv
<1>3. CASE ClsRow
  <2>1. /\ pc = "clear" /\ pc' = "clear" /\ row < Height /\ row' = row + 1
        /\ textmem' = ClearRow(textmem, row) /\ UNCHANGED <<before, echoed, mixed>>
    BY <1>3 DEF ClsRow, history
  <2>2. Clearing'
    <3> SUFFICES ASSUME echoed # "text"
                 PROVE  /\ row' \in 0..Height
                        /\ \A n \in Cells : n \div Width < row' => textmem'[n] = Blank
      BY <2>1 DEF Clearing
    <3>1. row \in 0..Height /\ \A n \in Cells : n \div Width < row => textmem[n] = Blank
      BY <1>2, <2>1 DEF Clearing
    <3>2. row \in Nat /\ row' \in 0..Height
      BY <2>1, <3>1, Sizes
    <3>3. ASSUME NEW n \in Cells, n \div Width < row'
          PROVE  textmem'[n] = Blank
      <4>1. PICK q \in Nat : q = n \div Width
        BY CellIn, Bounds
      <4>2. textmem'[n] = IF q = row THEN Blank ELSE textmem[n]
        BY <2>1, <4>1 DEF ClearRow
      <4>3. q # row => q < row
        BY <2>1, <3>2, <3>3, <4>1
      <4> QED
        BY <3>1, <4>1, <4>2, <4>3
    <3> QED
      BY <3>2, <3>3
  <2>3. ~ mixed => ~ Untouched'
    <3>1. ~ mixed => row \in Nat
      BY <1>2, <2>1 DEF Clearing
    <3>2. ~ mixed => row' # 0
      BY <2>1, <3>1
    <3> QED
      BY <2>1, <3>2 DEF Untouched
  <2>4. PaperInv'
    BY <1>1, <1>2, <2>1, <2>2, <2>3 DEF PaperInv, Writing
  <2>5. mixed => PaperStep
    BY <2>1 DEF PaperStep, Paper!Next, Paper!Interfere
  <2>6. ~ mixed => PaperStep
    BY <2>1 DEF PaperStep, PaperText, PaperX, PaperY, Done, MovesCursor
  <2> QED
    BY <2>4, <2>5, <2>6
<1>4. CASE ClsX
  <2>1. /\ pc = "clear" /\ pc' = "clear y" /\ row = Height /\ textmem' = textmem /\ csr_x' = 0
        /\ UNCHANGED <<before, echoed, mixed>>
    BY <1>4 DEF ClsX, Go, history
  <2>2. Clearing'
    <3> SUFFICES ASSUME echoed # "text"
                 PROVE  \A n \in Cells : textmem[n] = Blank
      BY <2>1 DEF Clearing
    <3>1. \A n \in Cells : n \div Width < Height => textmem[n] = Blank
      BY <1>2, <2>1 DEF Clearing
    <3> QED
      BY <3>1, CellIn, Bounds
  <2>3. PaperInv'
    BY <1>1, <1>2, <2>1, <2>2 DEF PaperInv, Writing, Untouched
  <2>4. mixed => PaperStep
    BY <2>1 DEF PaperStep, Paper!Next, Paper!Interfere
  <2>5. ~ mixed => PaperStep
    BY <2>1 DEF PaperStep, PaperText, PaperX, PaperY, Done, MovesCursor
  <2> QED
    BY <2>3, <2>4, <2>5
<1>5. CASE ClsY
  <2>1. /\ pc = "clear y" /\ pc' = "move" /\ textmem' = textmem /\ csr_x' = csr_x /\ csr_y' = 0
        /\ mixed' = (mixed /\ echoed = "text")
    BY <1>5 DEF ClsY, Go
  <2>2. PaperInv'
    BY <1>1, <2>1 DEF PaperInv, Writing, Untouched, Clearing
  <2>3. mixed' => PaperStep
    BY DEF PaperStep, Paper!Next, Paper!Interfere
  <2>4. ASSUME ~ mixed'
        PROVE  PaperStep
    <3>1. echoed # "text"
      BY <1>2, <2>1, <2>4
    <3>2. csr_x = 0 /\ \A n \in Cells : textmem[n] = Blank
      BY <1>2, <2>1, <3>1 DEF Clearing
    <3>3. Shown(textmem) = Paper!EmptySheet
      BY <3>2, ShownBlank
    <3>4. PaperText' = textmem /\ PaperX' = 0 /\ PaperY' = 0
      BY <2>1, <3>2 DEF PaperText, PaperX, PaperY, Done, MovesCursor
    <3>5. Paper!Clear
      BY <2>4, <3>3, <3>4 DEF Paper!Clear, PaperText, PaperX, PaperY
    <3> QED
      BY <3>5 DEF PaperStep, Paper!Next
  <2> QED
    BY <2>2, <2>3, <2>4
<1> QED
  BY <1>3, <1>4, <1>5

\* The echo is the whole of putch() at once.
LEMMA EchoPuts ==
  ASSUME NEW k, Echo(k), csr_x \in Columns, csr_y \in Rows
  PROVE  /\ textmem' = EndText(textmem, csr_x, csr_y, k)
         /\ csr_x' = EndX(csr_x, k) /\ csr_y' = EndY(csr_x, csr_y, k)
<1> DEFINE y == csr_y + (IF k = "LF" \/ EchoX(k) >= Width THEN 1 ELSE 0)
           text == IF ~EchoStores(k) THEN textmem
                   ELSE Store(textmem, EchoAt(k), IF k = "BS" THEN Blank ELSE k)
<1>1. /\ csr_x' = (IF EchoX(k) >= Width THEN 0 ELSE EchoX(k))
      /\ csr_y' = (IF y >= Height THEN Height - 1 ELSE y)
      /\ textmem' = Scrolled(text, y)
  BY DEF Echo
<1>2. EchoX(k) = PutX(csr_x, k)
  BY DEF EchoX, PutX
<1>3. text = PutText(textmem, csr_x, csr_y, k)
  <2>1. CASE k = "BS"
    <3>1. csr_x # 0 => EchoX(k) = csr_x - 1
      BY <2>1 DEF EchoX, Controls
    <3> QED
      BY <2>1, <3>1 DEF EchoStores, EchoAt, PutText, Controls
  <2>2. CASE k # "BS"
    BY <2>2 DEF EchoStores, EchoAt, PutText
  <2> QED
    BY <2>1, <2>2
<1>4. Width \in Nat \ {0} /\ Height \in Nat \ {0} /\ csr_y \in Nat /\ csr_y < Height
  BY Sizes, Bounds
<1>5. y = IF Down(csr_x, k) THEN csr_y + 1 ELSE csr_y
  BY <1>2, <1>4 DEF Down, Wraps
<1> HIDE DEF y, text
<1>6. PICK j \in Nat : j = csr_y
  BY <1>4
<1>7. CASE Down(csr_x, k) /\ j = Height - 1
  <2>1. y = Height
    BY <1>4, <1>5, <1>6, <1>7
  <2>2. ASSUME NEW mem
        PROVE  Scrolled(mem, Height) = Rolled(mem)
    <3>1. /\ Height - Height + 1 = 1 /\ Height - 1 = Height - (Height - Height + 1)
          /\ ~ (Height < Height) /\ 1 * Width = Width
      BY <1>4
    <3>2. \A n \in Cells : (n \div Width < Height - 1) \/ (n \div Width = Height - 1)
      <4>1. \A q \in Rows : (q < Height - 1) \/ (q = Height - 1)
        BY <1>4 DEF Rows
      <4> QED
        BY <4>1, CellIn
    <3>3. Scrolled(mem, Height)
            = [n \in Cells |-> IF n \div Width < Height - 1 THEN mem[n + Width]
                               ELSE IF n \div Width = Height - 1 THEN Blank ELSE mem[n]]
      BY <3>1 DEF Scrolled
    <3>4. \A n \in Cells : (IF n \div Width < Height - 1 THEN mem[n + Width]
                            ELSE IF n \div Width = Height - 1 THEN Blank ELSE mem[n])
                             = IF n \div Width < Height - 1 THEN mem[n + Width] ELSE Blank
      BY <3>2
    <3> QED
      BY <3>3, <3>4 DEF Rolled
  <2>3. textmem' = EndText(textmem, csr_x, csr_y, k)
    BY <1>1, <1>3, <1>6, <1>7, <2>1, <2>2 DEF EndText
  <2>4. csr_y' = EndY(csr_x, csr_y, k)
    BY <1>1, <1>4, <1>6, <1>7, <2>1 DEF EndY
  <2> QED
    BY <1>1, <1>2, <2>3, <2>4 DEF EndX, Wraps
<1>8. CASE ~ (Down(csr_x, k) /\ j = Height - 1)
  <2>1. y < Height /\ ~ (y >= Height)
    BY <1>4, <1>5, <1>6, <1>8
  <2>2. textmem' = EndText(textmem, csr_x, csr_y, k)
    BY <1>1, <1>3, <1>6, <1>8, <2>1 DEF EndText, Scrolled
  <2>3. csr_y' = EndY(csr_x, csr_y, k)
    BY <1>1, <1>5, <1>6, <1>8, <2>1 DEF EndY
  <2> QED
    BY <1>1, <1>2, <2>2, <2>3 DEF EndX, Wraps
<1> QED
  BY <1>7, <1>8

\* An echo is a character put on the paper, or it comes where putch() or cls()
\* is at work on the text.
LEMMA EchoSteps ==
  ASSUME ScreenInv, PaperInv, [Next]_vars, NEW k \in Echoed, Echo(k)
  PROVE  PaperInv' /\ PaperStep
<1>1. textmem' = [n \in Cells |-> textmem'[n]]
  BY TextStays DEF PaperInv
<1>2. /\ UNCHANGED <<pc, c, tmp, row>>
      /\ mixed' = (mixed \/ ~ (Untouched \/ pc \in MovesCursor))
      /\ echoed' = IF pc \in MovesCursor \ {"move"} THEN "cursor"
                   ELSE IF Untouched THEN "no" ELSE "text"
      /\ before' = IF mixed' THEN Nothing
                   ELSE IF Untouched /\ pc # "idle" THEN Screened' ELSE before
  BY DEF Echo, local
<1>3. Clearing'
  <2> SUFFICES ASSUME echoed' # "text", pc \in {"clear", "clear y"}
               PROVE  Clearing'
    BY <1>2 DEF Clearing
  <2>1. pc = "clear" /\ row = 0
    BY <1>2 DEF MovesCursor, Untouched
  <2>2. 0 \in 0..Height /\ \A n \in Cells : ~ (n \div Width < 0)
    BY NoneCleared
  <2> QED
    BY <1>2, <2>1, <2>2 DEF Clearing
<1>4. CASE mixed'
  <2>1. PaperInv'
    BY <1>1, <1>3, <1>4 DEF PaperInv
  <2>2. PaperStep
    BY <1>4 DEF PaperStep, Paper!Next, Paper!Interfere
  <2> QED
    BY <2>1, <2>2
<1>5. ASSUME ~ mixed', pc \in MovesCursor \cup {"idle"}
      PROVE  PaperInv' /\ PaperStep
  <2>1. ~ mixed /\ pc \notin Writing \cup {"clear", "clear y"} /\ (pc = "idle" \/ ~ Untouched)
    BY <1>2, <1>5 DEF MovesCursor, Writing, Untouched
  <2>2. csr_x \in Columns /\ csr_y \in Rows
    BY <2>1 DEF ScreenInv, Placing, Past, Writing
  <2>3. PaperInv'
    BY <1>1, <1>2, <1>3, <1>5, <2>1 DEF PaperInv, Untouched
  <2>4. PaperText = textmem /\ PaperX = csr_x /\ PaperY = csr_y
    BY <1>5 DEF PaperText, PaperX, PaperY, Done
  <2>5. PaperText' = textmem' /\ PaperX' = csr_x' /\ PaperY' = csr_y'
    BY <1>2, <1>5 DEF PaperText, PaperX, PaperY, Done
  <2>6. Paper!Put(k)
    BY <1>5, <2>1, <2>2, <2>4, <2>5, EchoPuts, PutStep
  <2> QED
    BY <2>3, <2>6 DEF PaperStep, Paper!Next
<1>6. ASSUME ~ mixed', pc \notin MovesCursor \cup {"idle"}
      PROVE  PaperInv' /\ PaperStep
  <2>1. ~ mixed /\ Untouched /\ before' = Screened'
    BY <1>2, <1>6
  <2>2. before.text = textmem /\ before.x = csr_x /\ before.y = csr_y
    BY <1>6, <2>1 DEF PaperInv
  <2>3. before'.text = textmem' /\ before'.x = csr_x' /\ before'.y = csr_y'
    BY <2>1 DEF Screened
  <2>4. \/ pc \in {"where", "return"}
        \/ pc = "load x" /\ c = "TAB"
        \/ pc = "end?" /\ c = "NUL"
        \/ pc = "clear" /\ row = 0
    BY <1>6, <2>1 DEF Untouched
  <2>5. pc \in Writing => Undisturbed
    BY <2>1 DEF PaperInv, Undisturbed
  <2>6. csr_x \in Columns /\ csr_y \in Rows
    <3>1. CASE pc = "clear"
      BY <3>1 DEF ScreenInv, Placing, Past
    <3>2. CASE pc # "clear"
      BY <2>2, <2>4, <2>5, <3>2 DEF Undisturbed, Printing, Writing
    <3> QED
      BY <3>1, <3>2
  <2>7. /\ textmem' = EndText(textmem, csr_x, csr_y, k)
        /\ csr_x' = EndX(csr_x, k) /\ csr_y' = EndY(csr_x, csr_y, k)
    BY <2>6, EchoPuts
  <2>8. PaperText = textmem /\ PaperX = csr_x /\ PaperY = csr_y
    BY <1>6, <2>1, <2>2 DEF PaperText, PaperX, PaperY, Done
  <2>9. PaperText' = textmem' /\ PaperX' = csr_x' /\ PaperY' = csr_y'
    BY <1>2, <1>6, <2>3 DEF PaperText, PaperX, PaperY, Done
  <2>10. Paper!Put(k)
    BY <1>6, <2>1, <2>6, <2>7, <2>8, <2>9, PutStep
  <2>11. csr_x' \in Columns /\ csr_y' \in Rows
    <3>1. csr_x' \in Columns
      BY <2>6, <2>7, ColumnAfter
    <3>2. csr_y' \in Rows
      BY <2>6, <2>7, Sizes DEF EndY, Rows
    <3> QED
      BY <3>1, <3>2
  <2>12. ASSUME pc \in Writing
         PROVE  Undisturbed'
    <3>1. /\ c \in Printed /\ c # "BS"
          /\ pc = "where" => c \notin Controls
          /\ pc = "load x" => c = "TAB"
          /\ pc = "return" => c \in {"CR", "LF"}
          /\ pc = "end?" => c = "NUL"
      BY <2>4, <2>5, <2>12, PrintedAssumption DEF Undisturbed, Printing
    <3>2. pc \in {"where", "return", "load x", "end?"}
      BY <2>4, <2>12 DEF Writing
    <3>3. Printing'
      BY <1>1, <1>2, <2>3, <2>11, <3>1, <3>2 DEF Printing, OldText
    <3>4. OldText' = textmem' /\ (c \in Controls => NewText' = textmem')
      BY <1>2, <2>3, <3>1 DEF OldText, NewText, PutText
    <3>5. PrintingText'
      BY <1>2, <3>1, <3>2, <3>4 DEF PrintingText, Unwritten, Controls
    <3>6. PrintingX'
      <4>1. c = "NUL" => PutX(before.x, c)' = before'.x
        BY <1>2 DEF PutX, Controls
      <4> QED
        BY <1>2, <2>3, <3>1, <3>2, <4>1 DEF PrintingX, Unmoved
    <3>7. PrintingY'
      <4>1. \A n \in Rows : n + 0 = n
        BY Bounds
      <4> QED
        BY <1>2, <2>3, <2>11, <3>1, <3>2, <4>1 DEF PrintingY, Unmoved
    <3> QED
      BY <3>3, <3>5, <3>6, <3>7 DEF Undisturbed
  <2>13. pc = "clear" => echoed' = "no"
    BY <1>2, <2>1 DEF MovesCursor
  <2>14. PaperInv'
    BY <1>1, <1>2, <1>3, <2>3, <2>4, <2>12, <2>13 DEF PaperInv, Undisturbed
  <2> QED
    BY <2>10, <2>14 DEF PaperStep, Paper!Next
<1> QED
  BY <1>4, <1>5, <1>6

LEMMA PaperSteps ==
  ScreenInv /\ PaperInv /\ [Next]_vars => PaperInv' /\ PaperStep
<1> SUFFICES ASSUME ScreenInv, PaperInv, [Next]_vars
             PROVE  PaperInv' /\ PaperStep
  OBVIOUS
<1>1. CASE \E k \in Echoed : Echo(k)
  BY <1>1, EchoSteps
<1>2. CASE Cls \/ \E k \in Printed : Putch(k)
  BY <1>2, BeginSteps
<1>3. CASE ClsRow \/ ClsX \/ ClsY
  BY <1>3, ClsSteps
<1>4. CASE \/ Where \/ WhereX \/ StoreChar \/ LoadX \/ StoreX \/ ReturnX \/ LoadY \/ StoreY
           \/ EndOfRow \/ ScrollTest \/ ScrollBy \/ ScrollCopy \/ ScrollClear \/ ScrollBottom
  BY <1>4, PutchSteps
<1>5. CASE MoveY \/ MoveX \/ Select \/ MoveHigh \/ MoveLow
  BY <1>5, MoveSteps
<1>6. CASE UNCHANGED vars
  <2>1. UNCHANGED <<csr_x, csr_y, textmem, pc, c, tmp, row, before, echoed, mixed>>
    BY <1>6 DEF vars, cursor, local, history
  <2>2. PaperInv'
    <3>1. Untouched' = Untouched /\ (Clearing => Clearing')
      BY <2>1 DEF Untouched, Clearing
    <3>2. OldText' = OldText /\ NewText' = NewText
      BY <2>1, OldsStay
    <3>3. Printing => Printing'
      BY <2>1, <3>2 DEF Printing
    <3>4. PrintingText => PrintingText'
      BY <2>1, <3>2 DEF PrintingText
    <3>5. (PrintingX => PrintingX') /\ (PrintingY => PrintingY')
      BY <2>1 DEF PrintingX, PrintingY
    <3> QED
      BY <2>1, <3>1, <3>3, <3>4, <3>5 DEF PaperInv
  <2>3. PaperStep
    BY <2>1 DEF PaperStep, PaperText, PaperX, PaperY, Done
  <2> QED
    BY <2>2, <2>3
<1> QED
  BY <1>1, <1>2, <1>3, <1>4, <1>5, <1>6 DEF Next, MainThread

\* The screen is a Teletype: every character printed or echoed appears on it
\* whole, at its place, and rows wrap and roll as they should, at whatever step
\* of putch() an interrupt comes; unless a key is echoed where putch() or cls()
\* is at work on text and cursor, after which an undisturbed cls() puts it right.
THEOREM ScreenShowsThePaper ==
  Spec => ShowsThePaper
<1>1. Init => Paper!Init /\ PaperInv
  <2> SUFFICES ASSUME Init
               PROVE  Paper!Init /\ PaperInv
    OBVIOUS
  <2>1. /\ csr_x = 0 /\ csr_y = 0 /\ textmem = Cleared /\ pc = "idle" /\ ~ mixed
    BY DEF Init
  <2>2. textmem = [n \in Cells |-> textmem[n]] /\ \A n \in Cells : textmem[n] = Blank
    BY <2>1 DEF Cleared
  <2>3. Shown(textmem) = Paper!EmptySheet
    BY <2>2, ShownBlank
  <2>4. Paper!Init
    BY <2>1, <2>3 DEF Paper!Init, Done
  <2>5. PaperInv
    BY <2>1, <2>2 DEF PaperInv, Writing, Clearing
  <2> QED
    BY <2>4, <2>5
<1>2. ScreenInv /\ PaperInv /\ [Next]_vars =>
        PaperInv' /\ [Paper!Next]_<<Shown(IF Done THEN textmem ELSE before.text),
                                    IF Done THEN csr_x ELSE before.x,
                                    IF Done THEN csr_y ELSE before.y, ~mixed>>
  BY PaperSteps DEF PaperStep, PaperText, PaperX, PaperY
<1> QED
  BY <1>1, <1>2, Invariant, PTL DEF Spec, ShowsThePaper, Paper!Spec

=============================================================================
