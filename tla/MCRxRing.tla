------------------------------ MODULE MCRxRing ------------------------------
(***************************************************************************)
(* A ring of 5 units for TLC, and packets of 2 and 3 units: three of them  *)
(* wrap around it, end at or beyond its end, and two of them fill it.      *)
(***************************************************************************)
EXTENDS RxRing

MCSizes == {2, 3}

\* All the bits the handler has code for, and one that it has none for.
MCBits == {"TOK", "TER", "RER", "PUN", "FOVW", "LENCHG"}
=============================================================================
