------------------------------ MODULE MCShell -------------------------------
(* Instances of Shell for TLC. *)
EXTENDS Shell

\* A letter, space, backspace, return and a key without a character.
EditKeys == {14, 16, 28, 57, 59}
=============================================================================
