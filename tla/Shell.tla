------------------------------- MODULE Shell --------------------------------
(***************************************************************************)
(* runShell() of src/shell.c over gets(): a line is asked for and cut into *)
(* words by strtok() (string.c), the command and its switches.             *)
(*                                                                         *)
(* The array inputString is s of LineInput: strtok() writes into it, and   *)
(* the next line is written over what is left.  main() does not call       *)
(* initShell(), so no command is registered, findCMD() finds none and the  *)
(* words are all the shell makes of a line.                                *)
(***************************************************************************)
EXTENDS LineInput, FiniteSets

CONSTANT Words         \* 8: cmdString and cmdSwitch0 to cmdSwitch6

ASSUME WordsAssumption == Words \in Nat \ {0}

VARIABLES
  words,    \* what cmdString, cmdSwitch0, ... point to
  next,     \* the word runShell() asks strtok() for next
  p,        \* strtok()'s static position
  parsed    \* history: what gets() returned for the line being cut

Null == <<>>           \* a word that is missing: the pointer is 0
End  == -1             \* p when it is 0

shell == <<words, next, p, parsed>>

ShellInit ==
  GetsInit /\ words = [n \in 1..Words |-> Null] /\ next = 1 /\ p = End
  /\ parsed = "none"

-----------------------------------------------------------------------------
(* strtok *)

\* The array as the string functions read it.  Bound of the model: the byte
\* behind the last one it keeps is 0.
Edge == KeyLimit + 1
Byte(n) == IF n = Edge THEN NUL ELSE s[n]

Least(S) == CHOOSE n \in S : \A k \in S : n <= k

\* strspn(from, " ") and strcspn(from, " "), added to where they start.
Begin(from) == Least({n \in from..Edge : Byte(n) # Space})
Stop(from)  == Least({n \in from..Edge : Byte(n) \in {Space, NUL}})

\* No word from begin: 0 is returned, and by every later call too.
NoWord(begin) ==
  /\ begin = Stop(begin)
  /\ words' = [words EXCEPT ![next] = Null] /\ p' = End
  /\ UNCHANGED s

\* Mutant: p moves on although the string has ended.
CutOn(begin) ==
  LET stop == Stop(begin) IN
  /\ begin # stop
  /\ words' = [words EXCEPT ![next] = [n \in 1..(stop - begin) |-> s[begin + n - 1]]]
  /\ s' = IF stop = Edge THEN s ELSE [s EXCEPT ![stop] = NUL]
  /\ p' = IF stop = Edge THEN End ELSE stop + 1

\* The word goes up to the next blank or the end, the blank is overwritten with
\* 0, and p is behind it; it is 0 after the last word.
Cut(begin) ==
  LET stop == Stop(begin) IN
  /\ begin # stop
  /\ words' = [words EXCEPT ![next] = [n \in 1..(stop - begin) |-> s[begin + n - 1]]]
  /\ s' = IF stop = Edge THEN s ELSE [s EXCEPT ![stop] = NUL]
  /\ p' = IF Byte(stop) = NUL THEN End ELSE stop + 1

\* strtok(inputString, " ") for the first word, strtok(NULL, " ") for the others.
strtok ==
  IF next > 1 /\ p = End
  THEN words' = [words EXCEPT ![next] = Null] /\ UNCHANGED <<s, p>>
  ELSE LET begin == Begin(IF next = 1 THEN 0 ELSE p) IN NoWord(begin) \/ Cut(begin)

-----------------------------------------------------------------------------
(* runShell *)

\* gets() has come back and its line is not all parsed yet.
Answered == ~asked /\ (outcome # "none" \/ next > 1)

\* One of the calls of strtok(); findCMD() after the last finds nothing, and
\* runShell() is called again.
ParseWord ==
  /\ Answered
  /\ strtok
  /\ next' = IF next < Words THEN next + 1 ELSE 1
  /\ parsed' = IF next = 1 THEN outcome ELSE parsed
  /\ outcome' = "none"
  /\ UNCHANGED <<vars, asked, i, line>>

AskLine == ~Answered /\ GetsCall /\ UNCHANGED shell

\* The main thread does nothing but runShell().
MainThread == AskLine \/ (GetsRuns /\ UNCHANGED shell) \/ ParseWord

ShellNext == MainThread \/ (KeyEvent /\ UNCHANGED <<gets, shell>>)

shellVars == <<vars, gets, shell>>

\* As in Keyboard, the main thread is never starved and nobody has to type.
ShellSpec == ShellInit /\ [][ShellNext]_shellVars /\ WF_shellVars(MainThread)

-----------------------------------------------------------------------------
(* Properties *)

\* This step is a call of strtok() for a line gets() returned as r.
Parsing(r) == Answered /\ <<next', outcome'>> # <<next, outcome>> /\ parsed' = r

\* Where the words of a line begin and end: they are its longest pieces without
\* a blank.
Starts(l)  == {k \in 1..Len(l) : l[k] # Space /\ (k = 1 \/ l[k - 1] = Space)}
Ends(l, k) == {e \in k..Len(l) : /\ \A n \in k..e : l[n] # Space
                                 /\ e = Len(l) \/ l[e + 1] = Space}

\* The words that begin before a place, and the n-th word of a line.
Earlier(l, k) == {j \in Starts(l) : j < k}
WordOf(l, n) ==
  LET nth == {k \in Starts(l) : Cardinality(Earlier(l, k)) = n - 1}
  IN IF nth = {} THEN Null
     ELSE LET k == Least(nth) IN SubSeq(l, k, Least(Ends(l, k)))

\* The command is the first word of the line as it was edited, its switches are
\* the other words, and there are no more of them: nothing of an earlier,
\* longer line, or of what was taken back, is found behind the line.  Excluded
\* is the line gets() gives up on.
ParsesWhatWasTyped ==
  [][Parsing("string") /\ Deletable(line) =>
       words'[next] = WordOf(Edited[line], next)]_shellVars

\* When gets() gives up on the first key of a line, the shell parses what the
\* line before has left: the same command again, without its switches.
ParsesTheOldCommand ==
  [][Parsing("null") /\ line = <<>> /\ words[1] # Null =>
       words'[next] = IF next = 1 THEN words[1] ELSE Null]_shellVars

=============================================================================
