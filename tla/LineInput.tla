----------------------------- MODULE LineInput ------------------------------
(***************************************************************************)
(* gets() of src/kb.c over the keyboard driver: the main thread, in        *)
(* runShell(), asks for a line; gets() calls getchar() until a newline,    *)
(* edits on backspace and terminates the string it was given.              *)
(*                                                                         *)
(* The loop of gets() reads the next character before it increments i, so  *)
(* one character is one step: n below is i after that increment.           *)
(***************************************************************************)
EXTENDS Keyboard

VARIABLES
  asked,      \* gets() is running
  i,          \* its index, before the increment of the for loop
  s,          \* the memory around the caller's string: index 0 is its start
  line,       \* history: the characters of this call so far
  outcome     \* history: what the last call returned

gets == <<asked, i, s, line, outcome>>

\* The string is a local array of runShell(): it starts with whatever was
\* there, here a byte that is neither 0 nor a blank (those would only make
\* what is read shorter), and every call of runShell() finds it in the same
\* place.
Garbage == "garbage"
\* Bound of the model: a backspace on an empty line moves i down by one each
\* time, and there are at most KeyLimit of them.
Memory == (-KeyLimit - 1)..KeyLimit

GetsInit ==
  /\ Init
  /\ asked = FALSE /\ i = -1
  /\ s = [n \in Memory |-> Garbage]
  /\ line = <<>> /\ outcome = "none"

GetsCall ==
  /\ ~asked
  /\ asked' = TRUE /\ i' = -1 /\ line' = <<>> /\ outcome' = "none"
  /\ UNCHANGED <<vars, s>>

\* A character the decoder has no glyph for is 0, and gets() gives up without
\* terminating the string.
GetsNothing(c) ==
  /\ c = NUL
  /\ asked' = FALSE /\ outcome' = "null"
  /\ UNCHANGED <<i, s, line>>

GetsNewline(c) ==
  /\ c = Newline
  /\ s' = [s EXCEPT ![i + 1] = NUL]
  /\ asked' = FALSE /\ outcome' = "string"
  /\ UNCHANGED <<i, line>>

\* Mutant: i is decremented once, and the next character leaves a hole.
GetsBackspaceOnce(c) ==
  /\ c = Backspace
  /\ s' = [s EXCEPT ![i] = NUL]
  /\ i' = i
  /\ line' = Append(line, c)
  /\ UNCHANGED <<asked, outcome>>

\* i--; s[i] = 0; i--; and the loop increments.
GetsBackspace(c) ==
  /\ c = Backspace
  /\ s' = [s EXCEPT ![i] = NUL]
  /\ i' = i - 1
  /\ line' = Append(line, c)
  /\ UNCHANGED <<asked, outcome>>

GetsCharacter(c) ==
  /\ c \notin {NUL, Newline, Backspace}
  /\ s' = [s EXCEPT ![i + 1] = c]
  /\ i' = i + 1
  /\ line' = Append(line, c)
  /\ UNCHANGED <<asked, outcome>>

GetsTake(c) ==
  GetsNothing(c) \/ GetsNewline(c) \/ GetsBackspace(c) \/ GetsCharacter(c)

\* The main thread inside gets(); getchar() is called by it alone.
GetsRuns ==
  \/ asked /\ Call /\ UNCHANGED gets
  \/ SpinExit /\ UNCHANGED gets
  \/ Shift /\ UNCHANGED gets
  \/ Return /\ GetsTake(keyBuff[0])

-----------------------------------------------------------------------------
(* Properties *)

\* What a line reads as: a backspace takes away the character before it.
Edited[l \in Seq(Char)] ==
  IF l = <<>> THEN <<>>
  ELSE LET before == Edited[SubSeq(l, 1, Len(l) - 1)] IN
       IF l[Len(l)] # Backspace THEN Append(before, l[Len(l)])
       ELSE IF before = <<>> THEN <<>> ELSE SubSeq(before, 1, Len(before) - 1)

\* No backspace of this line was typed when there was nothing to take away.
Deletable(l) == \A n \in 1..Len(l) :
  l[n] = Backspace => Edited[SubSeq(l, 1, n - 1)] # <<>>

\* The string gets() returns: the characters up to its first 0.
Holds(text) ==
  /\ \A n \in 1..Len(text) : s[n - 1] = text[n]
  /\ s[Len(text)] = NUL

\* A string gets() returns is the line as edited, terminated: what a backspace
\* takes away leaves neither a character nor an early 0 behind.
ReturnsTheLine ==
  outcome = "string" /\ Deletable(line) => Holds(Edited[line])

=============================================================================
