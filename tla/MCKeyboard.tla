----------------------------- MODULE MCKeyboard -----------------------------
(* Instances of Keyboard for TLC. *)
EXTENDS Keyboard

\* Every key the decoder treats specially that the locks and lines depend on.
LockingKeys == {LShift, RShift, Control, CapsKey, NumKey, ScrollKey, 2, 16}
=============================================================================
