----------------------------- MODULE MCLiballoc -----------------------------
(***************************************************************************)
(* Instances of Liballoc for TLC, with the real header, smallest class and *)
(* page, and regions of one page.  The requests fall in three classes, two *)
(* of them in one: a region is cut in up to four pieces, pieces of one     *)
(* class meet in one list, and a piece may be too small for its class.     *)
(***************************************************************************)
EXTENDS Liballoc

MCRequests == {100, 1100, 2500, 3000}
=============================================================================
